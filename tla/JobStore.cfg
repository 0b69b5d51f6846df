SPECIFICATION StoreFairSpec
CONSTANTS
    Jobs = {j1, j2}
INVARIANTS
    OneJobWorks
    LiveJobCancellable
    ViewTellsTheTruth
    FreshStartSeesItsEnd
PROPERTIES
    CancelSettles
    ImplementsContract
    JobsEnd
CHECK_DEADLOCK FALSE

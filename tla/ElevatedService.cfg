SPECIFICATION FairSpec
CONSTANTS
    Calls = {a, b}
    MaxHelpers = 2
    Systems = {"linux", "windows"}
INVARIANTS
    OneElevatedHelper
    JobIsAlone
PROPERTIES
    JobKeepsSession
    NobodyWaitsForever
    NoHelperStays
CHECK_DEADLOCK FALSE

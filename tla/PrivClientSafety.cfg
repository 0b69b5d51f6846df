SPECIFICATION Spec
CONSTANTS
    MaxOps = 2
    MaxPings = 1
    MaxProgress = 0
    ChanCap = 1
INVARIANTS
    CancelHitsItsOwnCall
    TurnIsFreeOnReturn
    AnswerSurvivesLoss
CHECK_DEADLOCK FALSE

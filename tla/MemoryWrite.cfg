SPECIFICATION FairSpec
CONSTANTS
    Writers = {w1, w2}
    Facts <- SomeFacts
    DirectClaims <- BonnAgain
    InitialFacts <- OneTable
    InitialAges = {"idle"}
    MaxNonIdentity = 1
    MaxWrites = 4
    MaxEdits = 1
    MayFail = {w2}
INVARIANTS
    ValuesBounded
    ReboundBound
PROPERTIES
    ReplacedCompletes
CHECK_DEADLOCK FALSE

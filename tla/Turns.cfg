SPECIFICATION FairSpec
CONSTANTS
    Desks = {d1}
    ClaimData <- ClaimDataSet
    MaxProposals = 0
    MaxRequests = 1
    MayFail = {}
    Turns = {1, 2}
    Inputs <- MixedInputs
    InitialClaims <- SomeTables
    Edits = {"lock", "unlock", "confirm", "retract", "archive", "supersede"}
    MaxEdits = 1
    MayVanish = {2}
INVARIANTS
    MemoryIsGated
    ProcessedIsComplete
PROPERTIES
    TurnsGetAudited
CHECK_DEADLOCK FALSE

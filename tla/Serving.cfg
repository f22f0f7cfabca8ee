SPECIFICATION FairSpec
CONSTANTS
    Slots = {s1, s2}
    Inputs <- MixedInputs
    Registered = {"deepseek", "ollama"}
    MaxActions = 1
    TokenLimit = 1
    MaxTurns = 3
    MayVanish = {s2}
INVARIANTS
    SpendingBounded
    RoutingIsSound
PROPERTIES
    TurnsEnd
CHECK_DEADLOCK FALSE

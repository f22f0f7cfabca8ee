SPECIFICATION Spec
CONSTANTS
    Slots = {s1}
    Inputs <- ProjectInputs
    Registered = {"mistral", "ollama"}
    MaxActions = 1
    TokenLimit = 1
    MaxTurns = 1
    MayVanish = {}
INVARIANTS
    PrivateStaysLocal
CHECK_DEADLOCK FALSE

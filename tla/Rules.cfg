SPECIFICATION FairMemorySpec
CONSTANTS
    Tables = Tables
    NoTables = NoTables
    Terse = Terse
    Rules = {Tables, NoTables, Terse}
    Proposed = {Tables, NoTables}
    content <- MCcontent
    Desks = {d1, d2}
    DomainCap = 1
    GlobalCap = 2
    ArtifactBudget = 2
    MaxRequests = 3
    MayVanish = {d2}
    Names = {"ann", "bob"}
    Known = {"ann"}
    Edges <- MCEdges
    Snippets = {"s1"}
    Clients = {"g1", "g2"}
INVARIANTS
    MemoryIsSound
    DecisionsAudited
PROPERTIES
    CleanupHappens
CHECK_DEADLOCK FALSE

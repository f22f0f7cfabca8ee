SPECIFICATION PromptSpec
CONSTANTS
    Terms <- MCTerms
    Claims <- MCClaims
    Contacts <- MCContacts
    Projects <- MCProjects
    Files <- MCFiles
    Relations <- MCRelations
    Queries <- MCQueries
    Deletable = {2}
    CharLimit = 5
    MaxClaims = 2
    MaxContacts = 2
    MaxMatches = 2
    MaxEpisodes = 1
    TokenBudget = 100
    TokensPerClaim = 50
    KnowledgeBudget = 4
    ChunkChars = 2
    LaneBudget = 2
    MaxRelations = 1
INVARIANTS
    BlockFits
    MentionedPeople
    BudgetsWellUsed
    WithheldStaysOut
CHECK_DEADLOCK FALSE

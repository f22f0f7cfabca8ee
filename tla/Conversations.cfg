SPECIFICATION FairSpec
CONSTANTS
    c1 = c1
    c2 = c2
    w1 = w1
    None = None
    Chats = {c1, c2}
    Workspaces = {w1}
    Desks = {d1, d2}
    Workers = {x1}
    LateWorkers = {x2}
    MaxRedeliveries = 1
    Inputs <- MCInputs
    MaxTurns = 2
    MaxMessagesPerRun = 3
    HistoryLimit = 2
    HistoryChars = 3
    MaxEpisodes = 1
    Deletable = {c1, w1}
    MayVanish = {x1, d2}
INVARIANTS
    ChatsStayOrdered
    PromptIsClean
    IndexIsUsable
PROPERTIES
    EverythingIndexed
CHECK_DEADLOCK FALSE

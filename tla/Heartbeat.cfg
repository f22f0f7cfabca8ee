SPECIFICATION FairSpec
CONSTANTS
    u1 = u1
    u2 = u2
    None = None
    Gone = Gone
    Connected = {u1}
    Masked = Masked
    Empty = Empty
    Users = {u1, u2}
    Clients = {a1}
    Requests <- BriefingRequests
    States = {}
    MaxRequests = 2
    MaxGrants = 2
    Hours = 2
    Keys = {}
    MayDie = {x1}
    Workers = {x1}
    LateWorkers = {x2}
    MaxRedeliveries = 1
    MaxClock = 1
    Facts = {u1}
INVARIANTS
    BriefingsComplete
PROPERTIES
    ReadUsersAreBriefed
CHECK_DEADLOCK FALSE

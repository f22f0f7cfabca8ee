SPECIFICATION AccountSpec
CONSTANTS
    u1 = u1
    k1 = k1
    None = None
    Gone = Gone
    Masked = Masked
    Empty = Empty
    Users = {u1}
    Connected = {}
    Clients = {a1, a2}
    Requests <- AccountRequests
    States = {s1, s2}
    MaxRequests = 4
    MaxGrants = 2
    Hours = 2
    Keys = {k1}
    MayDie = {a2}
INVARIANTS
    AccountIsCurrent
    StateServesOnce
    EffectsAudited
CHECK_DEADLOCK FALSE

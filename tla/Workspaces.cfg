SPECIFICATION Spec
CONSTANTS
    None = None
    Projects = {p}
    Contacts = {c}
    Tasks = {t}
    Notes = {n}
    Links = {l}
    Keys = {k1, k2}
    Columns = {"status", "sensitivity"}
    Values = {0, 1}
    Existing = {c}
    Desks = {d1, d2}
    MaxRequests = 4
    MayVanish = {d2}
INVARIANTS
    ContentMatchesRows
    MutationsAudited
    PatchesKept
CHECK_DEADLOCK FALSE

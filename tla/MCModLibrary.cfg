SPECIFICATION Spec
CONSTANTS
    Mods = {m1, m2}
    Versions = {v1}
    Absent = Absent
    NoMod = NoMod
    Listener = listener
    Callers = {c1}
    Capacity = 2
    MaxActions = 2
INVARIANTS
    KnownPacksHaveLines
    StaleIsWaiting
PROPERTIES
    CacheConverges
    ChangesAreAnnounced
    RefreshIsFresh
    OrderFollowsDisk

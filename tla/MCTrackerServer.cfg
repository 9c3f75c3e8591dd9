SPECIFICATION Spec
CONSTANTS
    Slugs = {gem}
    Conns = {c1, c2, c3}
    Ticks = {t1, t2}
    Ports = {p1, p2}
    Calls = {k1, k2}
    Labels = {run}
    NoSlug = NoSlug
    NoTick = NoTick
    NoPort = NoPort
    Empty = Empty
    Detached = Detached
SYMMETRY Symmetry
INVARIANTS
    CountIsOwed
    ViewerIsServed
    AliveTickIsOwned
    OneLatePublish
    NoLostServer

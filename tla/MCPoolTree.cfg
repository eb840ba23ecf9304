CONSTANTS
    Threads = {t1, t2}
    Pools = {p1, p2, p3}
    Base = Base
    NoPool = NoPool
    MaxShared = 2
SPECIFICATION Spec
SYMMETRY Symmetry
INVARIANTS PoolInv TouchesOnlyLive NothingLeftBehind

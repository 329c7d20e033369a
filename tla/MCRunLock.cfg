SPECIFICATION FairSpec
CONSTANTS
    Procs = {p1, p2, p3}
    Humans = {h1}
    Nobody = Nobody
INVARIANTS
    MutualExclusion
    LockInv
PROPERTIES
    ReleasesItsOwn
    LockComesFree
CHECK_DEADLOCK FALSE

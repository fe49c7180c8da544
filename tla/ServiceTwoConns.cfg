SPECIFICATION Spec
CONSTANTS
    k1 = k1
    k2 = k2
    k3 = k3
    Calls = {k1, k2}
    NConns = 2
    Requests <- Mixed
    AllowWrite <- Only1
    AllowDDL <- Only1
    MaxOpen <- TwoLimits
    Flaky <- Only2
    MayHangUp = {}
    Closer = Closer
    None = None
SYMMETRY Symmetry
INVARIANTS TypeOK NoOrphanPool LentWhileRunning ListingComplete
PROPERTIES ReadyIsEarned ImplementsContract

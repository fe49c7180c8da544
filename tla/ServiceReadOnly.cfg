SPECIFICATION Spec
CONSTANTS
    k1 = k1
    k2 = k2
    k3 = k3
    Calls = {k1, k2}
    NConns = 2
    Requests <- Reads
    AllowWrite <- Only1
    AllowDDL <- Only1
    MaxOpen <- TwoLimits
    Flaky <- NoConn
    MayHangUp = {}
    Closer = Closer
    None = None
SYMMETRY Symmetry
INVARIANTS ReadOnlyQueries

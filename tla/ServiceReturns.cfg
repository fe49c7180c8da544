SPECIFICATION FairSpec
CONSTANTS
    k1 = k1
    k2 = k2
    k3 = k3
    Calls = {k1, k2}
    NConns = 1
    Requests <- Waiting
    AllowWrite <- Only1
    AllowDDL <- Only1
    MaxOpen <- OneLimit
    Flaky <- NoConn
    MayHangUp = {k1}
    Closer = Closer
    None = None
PROPERTIES EveryCallReturns CloseEnds

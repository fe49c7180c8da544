SPECIFICATION FairServerSpec
CONSTANTS
    k1 = k1
    k2 = k2
    Calls = {k1, k2}
    NConns = 2
    Requests <- Listing
    AllowWrite <- Only1
    AllowDDL <- NoConn
    MaxOpen <- TwoLimits
    Flaky <- Only2
    MayHangUp = {k1, k2}
    Closer = Closer
    None = None
INVARIANTS ServerTypeOK CloseRunsAlone CleanExit
PROPERTIES ExitsAfterSignal

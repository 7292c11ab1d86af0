\* The timeouts of the code, two connections, three failures of the network, a
\* library that reports the closure of a client under either reason.
SPECIFICATION FairSpec
CONSTANTS
    Conns = {w1, w2}
    NoConn = NoConn
    RX_STALL_TIMEOUT_SEC = 12
    RECONNECT_DELAY_SEC = 3
    CLOSE_TIMEOUT_SEC = 1
    ClosureReasons = {"CLOSED", "CLIENT_CLOSED"}
    MaxFailures = 3
INVARIANTS
    TypeOK
    DanglesOnlyUnseen
    NeverAbandoned
PROPERTY
    Recovers

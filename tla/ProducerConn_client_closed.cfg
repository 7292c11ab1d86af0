\* libwebsockets 3.0 or later, and one failure of the network.
SPECIFICATION Spec
CONSTANTS
    Conns = {w1, w2}
    NoConn = NoConn
    RX_STALL_TIMEOUT_SEC = 12
    RECONNECT_DELAY_SEC = 3
    CLOSE_TIMEOUT_SEC = 1
    ClosureReasons = {"CLIENT_CLOSED"}
    MaxFailures = 1
SYMMETRY Symmetry
INVARIANT
    NoDanglingWsi

\* After one failure of the network, with libwebsockets 3.0 or later.
SPECIFICATION Spec
CONSTANTS
    Conns = {w1, w2, w3}
    NoConn = NoConn
    RX_STALL_TIMEOUT_SEC = 12
    RECONNECT_DELAY_SEC = 3
    CLOSE_TIMEOUT_SEC = 1
    ClosureReasons = {"CLIENT_CLOSED"}
    MaxFailures = 1
SYMMETRY Symmetry
INVARIANT
    AtMostOneStream

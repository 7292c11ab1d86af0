\* A ring of two slots under contention, and the order of what goes through it.
SPECIFICATION MCSpec
CONSTANTS
    m1 = m1
    m2 = m2
    Producers = {p1, p2}
    Consumers = {c1, c2}
    Monitors = {mon}
    Handlers = {h1, h2}
    BufferCapacity = 2
    MaxPayloadSize = 4
    Payloads <- MCPayloads
    NoPayload = NoPayload
    NoMsg = NoMsg
    Nobody = Nobody
SYMMETRY Symmetry
INVARIANTS
    TypeOK
    MutualExclusion
    RingConsistent
    NoOverrun
    NoLostWakeup
    ShutdownReleasesAll
    CutOnlyToFit
PROPERTY
    ImplementsBoundedQueue

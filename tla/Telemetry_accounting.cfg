\* Signals on any thread, failures of every kind: safety.
SPECIFICATION Spec
CONSTANTS
    m1 = m1
    m2 = m2
    main = main
    monitor = monitor
    consumer = consumer
    producer = producer
    Signals = {sigint, sigterm}
    SignalThreads = {main, monitor, consumer, producer}
    ContextMayFail = TRUE
    Payloads <- PostAndLongPost
    BufferCapacity = 1
    MaxPayloadSize = 4
    Kind <- KindOf
    MaxMessages = 2
    NoPayload = NoPayload
    NoMsg = NoMsg
    Nobody = Nobody
INVARIANTS
    TypeOK
    Accounted
    DestroyIsQuiet
CHECK_DEADLOCK FALSE

\* The lws context cannot be created.
SPECIFICATION FairSpec
CONSTANTS
    m1 = m1
    m2 = m2
    main = main
    monitor = monitor
    consumer = consumer
    producer = producer
    Signals = {sigint}
    SignalThreads <- MainOnly
    ContextMayFail = TRUE
    Payloads <- PostAndLongPost
    BufferCapacity = 1
    MaxPayloadSize = 4
    Kind <- KindOf
    MaxMessages = 1
    NoPayload = NoPayload
    NoMsg = NoMsg
    Nobody = Nobody
PROPERTY
    ShutdownTerminates
CHECK_DEADLOCK FALSE

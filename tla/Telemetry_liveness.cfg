\* Handlers run on main: the process stops when told to, and logs what it
\* receives.
SPECIFICATION FairSpec
CONSTANTS
    m1 = m1
    m2 = m2
    main = main
    monitor = monitor
    consumer = consumer
    producer = producer
    Signals = {sigint}
    SignalThreads <- MainOnly
    ContextMayFail = FALSE
    Payloads <- LongPost
    BufferCapacity = 1
    MaxPayloadSize = 4
    Kind <- KindOf
    MaxMessages = 2
    NoPayload = NoPayload
    NoMsg = NoMsg
    Nobody = Nobody
PROPERTIES
    ShutdownTerminates
    MessagesLogged

CONSTANTS
    Producers = {p1, p2}
    Closers = {c1, c2}
    Consumer = consumer
    QueueSize = 1
    Writes = 2
    None = None
SPECIFICATION FairSpec
CHECK_DEADLOCK FALSE
INVARIANTS
    TypeOK
    NoPanic
    NobodyWritesToClosedFile
    AcceptedIsWritten
PROPERTIES
    CallsReturn

SPECIFICATION Spec
CONSTANTS
    u1 = u1
    a1 = a1
    a2 = a2
    w1 = w1
    w2 = w2
    None = None
    User = {u1}
    Conn = {a1, a2}
    Worker = {w1, w2}
    Owner <- ReconnectOwner
    WorkerOf <- ReconnectWorkerOf
    QueueSize = 2
    SendBuffer = 2
    InitMessages = 1
    MaxRound = 3
    MaxInput = 1
INVARIANTS TypeOK OneCurrentConnection InputFromCurrent StreamInOrder
PROPERTIES OfflineForAReason
CHECK_DEADLOCK FALSE

SPECIFICATION FairSpec
CONSTANTS
    u1 = u1
    a1 = a1
    a2 = a2
    w1 = w1
    w2 = w2
    None = None
    User = {u1}
    Conn = {a1, a2}
    Worker = {w1}
    Owner <- ReconnectOwner
    WorkerOf <- ReconnectWorkerOf
    QueueSize = 1
    SendBuffer = 1
    InitMessages = 1
    MaxRound = 1
    MaxInput = 1
PROPERTIES StopEnds
CHECK_DEADLOCK FALSE

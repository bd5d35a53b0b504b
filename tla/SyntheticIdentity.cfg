SPECIFICATION Spec
CONSTANTS
    service = service
    command = command
    None = None
    TargetCount = 2
    Provisioner <- MCOne
    Service = service
    InitialRow <- MCRow
    ChunkSize = 1
    MaxFailure = 0
    RampRate = 1
    TicksPerSecond = 1
    ReadinessTimeout = 1
    Required = 2
    SendBuffer = 2
    MaxMessage = 3
INVARIANTS OwnUser

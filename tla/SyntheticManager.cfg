SPECIFICATION FairSpec
CONSTANTS
    service = service
    command = command
    None = None
    TargetCount = 2
    Provisioner <- MCBoth
    Service = service
    InitialRow <- MCRow
    ChunkSize = 1
    MaxFailure = 1
    RampRate = 1
    TicksPerSecond = 1
    ReadinessTimeout = 1
    Required = 2
    SendBuffer = 2
    MaxMessage = 3
INVARIANTS TypeOK NoStrayClient CountersExact AccountsReady
PROPERTIES PositionsKept RampSettles StopReturns

SPECIFICATION FairSpec
CONSTANTS
    u1 = u1
    u2 = u2
    User <- MCTwo
    ChunkSize = 1
    MaxMove = 2
    MaxSave = 1
    MaxSession = 2
    MaxFail = 1
    MaxLoadFail = 1
INVARIANTS TypeOK FirstSessionSaved
PROPERTIES  DropsOnlyStale EventsFinish
CHECK_DEADLOCK FALSE

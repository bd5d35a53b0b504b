SPECIFICATION Spec
CONSTANTS
    u1 = u1
    u2 = u2
    User <- MCOne
    ChunkSize = 1
    MaxMove = 2
    MaxSave = 1
    MaxSession = 2
    MaxFail = 0
    MaxLoadFail = 0
INVARIANTS LogoutCommitted
CHECK_DEADLOCK FALSE

SPECIFICATION FairSpec
CONSTANTS
    u1 = u1
    u2 = u2
    User <- MCTwo
    BufferSize = 2
    MaxScore = 2
    MaxOutage = 1
    MaxLoadFail = 1
INVARIANTS TypeOK PermanentPoints NothingLost
PROPERTIES ActorReturns PointsEventuallySaved
CHECK_DEADLOCK FALSE

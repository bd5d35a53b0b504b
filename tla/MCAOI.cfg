SPECIFICATION Spec
CONSTANTS
    p1 = p1
    p2 = p2
    p3 = p3
    None = None
    Player <- MCPlayer
    Point <- MCPoint
    CellSize = 60
    EnterRadius = 50
    LeaveRadius = 60
    RescanDistance = 5
INVARIANTS TypeOK Symmetric VisibleWithinLeave NoNearbyStranger
PROPERTIES DeltaExact Hysteresis

SPECIFICATION Spec
SYMMETRY MCSymmetry
CONSTANTS
    p1 = p1
    p2 = p2
    r1 = r1
    None = None
    Player <- MCPlayer
    Region <- MCRegion
    Point <- MCPoint
    Circle <- MCCircle
    TargetCount <- MCTargetCount
    CellSize = 60
    EnterRadius = 50
    LeaveRadius = 60
    PickupRadius = 2
    MayDrop = TRUE
    MaxItem = 2
    MaxRequest = 1
INVARIANTS TypeOK TrackedItems GemsTracked
PROPERTIES OnePointPerItem

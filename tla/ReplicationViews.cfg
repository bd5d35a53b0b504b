SPECIFICATION Spec
SYMMETRY MCSymmetry
CONSTANTS
    p1 = p1
    p2 = p2
    None = None
    Player <- MCPlayer
    Point <- MCPoint
    CellSize = 60
    EnterRadius = 50
    LeaveRadius = 60
    RescanDistance = 5
    MaxLook = 1
INVARIANTS TypeOK ViewExact IndexFollowsWorld


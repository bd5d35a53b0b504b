SPECIFICATION Spec
SYMMETRY MCSymmetry
CONSTANTS
    u1 = u1
    t1 = t1
    t2 = t2
    h1 = h1
    h2 = h2
    h3 = h3
    h4 = h4
    plain = plain
    fancy = fancy
    None = None
    User = {u1}
    Token = {t1, t2}
    Handler = {h1, h2, h3, h4}
    Look = {plain, fancy}
    DefaultLook = plain
INVARIANTS TypeOK LogoutDisconnects AppearanceSaved
CHECK_DEADLOCK FALSE

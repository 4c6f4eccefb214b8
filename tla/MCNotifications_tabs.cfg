SPECIFICATION Spec
CONSTANTS
    Conn = {c1, c2}
    Slot = {r1, r2}
    MaxId = 3
    Cap = 2
    None = None
SYMMETRY Tabs
INVARIANTS
    TypeOK
    OpenStreamHearsAll
    ListAndStreamCoverAll
    SubjectIsFreed
    BadgeMatchesList
CHECK_DEADLOCK FALSE

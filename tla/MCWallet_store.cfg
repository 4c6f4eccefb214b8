SPECIFICATION Spec
CONSTANTS
    Mount = {m1, m2}
    Call = {k1, k2}
    Key = {a1, a2}
    None = None
    Unknown = Unknown
INVARIANTS
    TypeOK
    RestingBalance
PROPERTIES
    UserDecides
    SpinnerStops
    ClickIsAnswered
CHECK_DEADLOCK FALSE

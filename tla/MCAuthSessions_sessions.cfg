SPECIFICATION Spec
CONSTANTS
    Token = {t1, t2, t3}
    Slot = {r1, r2}
    MaxVersion = 1
    None = None
INVARIANTS
    TypeOK
    OneTokenPerLogin
    SessionsEndAtLogoutAll
PROPERTIES
    ReuseEndsEverySession
CHECK_DEADLOCK FALSE

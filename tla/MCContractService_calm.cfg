SPECIFICATION Spec
CONSTANTS
    cli = cli
    fre = fre
    adm = adm
    xlm = xlm
    other = other
    m1 = m1
    m2 = m2
    r1 = r1
    r2 = r2
    Address = {cli, fre, adm}
    Client = cli
    Freelancer = fre
    Admin = adm
    Token = {xlm, other}
    Xlm = xlm
    I128Max = 30000
    Bps = 5000
    Milestone = {m1, m2}
    Price <- EqualPrice
    Slot = {r1}
    Kinds <- AllKindsAndWithdraw
    DirectCalls = {"dispute"}
    OtherDeposits <- OfThePrice
    Second = {1}
    MaxCalls = 4
    Impatient = FALSE
    Faults = FALSE
INVARIANTS
    BooksAgree
    WithdrawalsAgree
    ViewsAgree
CHECK_DEADLOCK FALSE

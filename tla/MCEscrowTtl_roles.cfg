SPECIFICATION TtlSpec
CONSTANTS
    ann = ann
    bob = bob
    adm = adm
    pool = pool
    xlm = xlm
    Address = {ann, bob, adm}
    Token = {xlm}
    ContractId = {1}
    Self = pool
    Terms <- AllTerms
    Amounts <- WideAmounts
    SplitBps <- MoreBps
    Supply <- EqualSupply
    SpendTo <- Nobody
    I128Max = 10001
    TtlExtendTo = 3
    TtlExtendIfBelow = 2
    MinTtl = 1
SYMMETRY Accounts
INVARIANTS
    Conservation
    EntriesTellTheTruth
    ActiveEntriesStayLive
PROPERTIES
    SettledIsFinal
    FrozenUntilAdminActs
    PaidByTheOtherSide
    KeepsPromise

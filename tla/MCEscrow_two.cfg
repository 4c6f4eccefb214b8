SPECIFICATION Spec
CONSTANTS
    ann = ann
    bob = bob
    adm = adm
    pool = pool
    xlm = xlm
    Address = {ann, bob, adm}
    Token = {xlm}
    ContractId = {1, 2}
    Self = pool
    Terms <- TwoSidedTerms
    Amounts <- SmallAmounts
    SplitBps <- SomeBps
    Supply <- SmallSupply
    SpendTo <- OnlyPool
    I128Max = 9999
INVARIANTS
    TypeOK
    PoolSolvent
    OnlyFundTraps
    AdminCanSettle

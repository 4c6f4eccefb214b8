SPECIFICATION Spec
CONSTANTS
    MaxJobs = 3
    Kind <- TwoKinds
    Category <- KindCategory
    Price <- KindPrice
    Keyword = {k1}
    ServerHits <- InTitle
    ClientHits <- InTexts
    Selections <- SomeSelections
    Limits <- SomeLimits
    MaxPageSize = 2
    DefaultPageSize = 1
    PageSize = 1
    Unset = Unset
INVARIANTS
    PagesShowEveryMatch
    ServerPagesPartition
PROPERTIES
    FilterFollowsInput
    FilterSettles
CHECK_DEADLOCK FALSE

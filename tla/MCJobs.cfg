SPECIFICATION Spec
CONSTANTS
    j1 = j1
    s1 = s1
    Jobs <- MCJobs
    Shop <- MCShop
    LeaseTicks = 1
    MaxCalls = 2
    MaxNow = 3
    MaxRetries = 1
INVARIANTS
    TypeOK
    ColumnsFollowState
    ShopSuccessIsEvidenced
    ShopRestartLabelled
    NoStrandedShopJob
PROPERTIES
    EvidenceKept
    ImplementsLifecycle

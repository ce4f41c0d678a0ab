SPECIFICATION Spec
CONSTANTS
    Ids <- SmallIds
    StartLimit = 3
    MaxWalletRangeCount = 4
    MaxTotalWallets = 3
    Found <- AnyCard
INVARIANTS
    NoDuplicates
    ReadsBack
PROPERTIES
    ImplementsWalletSet

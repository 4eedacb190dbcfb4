\* Every source, every document of at most MaxItems items and one odd one.
SPECIFICATION Spec
CONSTANTS
    Policy <- AllPolicies
    Tracked <- Regions
    Feeds <- AllFeeds
    Tolerance = 50
    MaxItems = 8
    MaxVolume = 4
INVARIANTS
    TypeOK
    OrderFree
    PricesAsListed
    RowsWhereSold
    PricedAlike
    ShardBuilds
    TiersTile
    ChargedAsListed
CHECK_DEADLOCK FALSE

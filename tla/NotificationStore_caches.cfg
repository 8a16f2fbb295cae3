SPECIFICATION FairSpec
CONSTANTS
    u1 = u1
    u2 = u2
    Requests = {r1, r2}
    Ids = {1, 2}
    Users = {u1, u2}
    OwnerOf <- AllOwnedByU1
    Existing = {1}
    Calls <- MCCalls
    Sizes = {0, 1}
    MaxWrites = 2
    NoCall = NoCall
    NoEntry = NoEntry
INVARIANTS
    TypeOK
    StaleOnlyWhenExcused
    OwnNotificationsOnly
    LongPageOnlyFromCache
    CreatePushesOnlyDeleted
PROPERTY
    StalenessEnds

CONSTANTS
    models = models
    prices = prices
    engine = engine
    m1 = m1
    m2 = m2
    p1 = p1
    p2 = p2
    Sources <- MCSources
    Things <- MCThings
    Listed <- MCListed
    Rank <- MCRank
    KindOf <- MCKindOf
    On <- MCOn
    Wanted <- MCWanted
    Kept <- MCThings
    Fingerprint <- MCFingerprint
    Created <- MCCreated
    Grace = 1
    Cap <- MCCap
    Queries = 2
    MaxChanges = 1
    MaxFaults = 1
SPECIFICATION FairSpec
INVARIANTS
    TypeOK
    CursorIsAccounted
    NothingOldIsNews
PROPERTIES
    FreeModelIsReported
    QueriesRotate

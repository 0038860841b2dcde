SPECIFICATION Spec
CONSTANTS
    post = post
    repost = repost
    page = page
    entry = entry
    blog = blog
    vendor = vendor
    None = None
    Rows <- MCRows
    Pages <- MCPages
    Vendor <- MCVendor
    Hosted = {page}
    Linked <- MCRows
    Queryable = {post}
    Owner <- MCOwner
    Entry <- MCEntry
    Score <- MCScore
    DailyMin = 45
    MaxLookups = 3
    TTL = 2
    MaxTime = 3
    MaxPasses = 3
    MaxHits = 2
    MaxFaults = 1
INVARIANTS TypeOK RequestsWithinBudget LinksAreTheVendors EvidenceIsRecent
PROPERTIES SearchesAreSpaced

CONSTANTS
    l1 = l1
    l2 = l2
    l3 = l3
    Entries = {l1, l2, l3, l4}
    Start <- StartRows
    Limit = 2
    Kinds = {"market"}
    Matching = {l1, l3}
SPECIFICATION ListingSpec
INVARIANT PagesCoverMarket
CHECK_DEADLOCK FALSE

SPECIFICATION FairSpec
CONSTANTS
    Orders = {o1, o2}
    Product = product
    NoBatch = none
    MaxOrderIds = 1
    MaxChanges = 2
    MaxBatches = 3
    MaxCrashes = 2
CHECK_DEADLOCK FALSE
INVARIANTS TypeOK UnpublishedIsQueued
PROPERTIES WholeSilverIsPublished ReleasedOrdersAreWhole

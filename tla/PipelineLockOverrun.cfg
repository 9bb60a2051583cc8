SPECIFICATION FairSpec
CONSTANTS
    Jobs = {batch, stream}
    OwnerIds = {u1, u2, u3}
    NoOwner = NoOwner
    TTL = 2
    LockWait = 1
    MaxHold = 3
PROPERTIES
    LiveLeaseEndedByOwner
    ContenderAnswered
    OrphanExpires

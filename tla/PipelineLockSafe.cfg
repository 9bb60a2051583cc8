SPECIFICATION Spec
CONSTANTS
    Jobs = {batch, stream, repair}
    OwnerIds = {u1, u2, u3, u4}
    NoOwner = NoOwner
    TTL = 5
    LockWait = 2
    MaxHold = 1
SYMMETRY Symmetry
INVARIANTS
    TypeOK
    MutualExclusion
PROPERTIES
    ImplementsMutex

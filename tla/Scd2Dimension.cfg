SPECIFICATION Spec
CONSTANTS
    Attrs = {a, b}
    Orders = {o}
    MaxTime = 3
    MaxChanges = 3
    MaxCaptured = 2
    NoRow = noRow
    NoFact = noFact
    UnknownKey = unknown
    Misplaced = misplaced
    NoRelease = noRelease
    NoCheckpoint = noCheckpoint
SYMMETRY Symmetry
INVARIANTS TypeOK DimensionFollowsHistory OnlyTiesAreRefused 
PROPERTIES KeysLostOnlyToLateEvents BatchFactsAreExact

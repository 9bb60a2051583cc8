SPECIFICATION Spec
CONSTANTS
    Keys = {k1}
    MaxChanges = 3
    FullRebuild = FALSE
    NoRow = NoRow
    NoTable = NoTable
    NoProgress = NoProgress
INVARIANTS
    EveryChangeInHistory

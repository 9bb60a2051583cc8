SPECIFICATION Spec
CONSTANTS
    Keys = {k1, k2}
    MaxChanges = 3
    FullRebuild = TRUE
    NoRow = NoRow
    NoTable = NoTable
    NoProgress = NoProgress
SYMMETRY Symmetry
INVARIANTS
    TypeOK
    Converged
    ProgressReflected
PROPERTIES
    CdcTombstoneFinal

SPECIFICATION Spec
CONSTANTS
    Tables = {t1, t2}
    Quarantine = quarantine
    Length = 2
    Versions = 2
    MaxCrashes = 1
    MaxResets = 1
SYMMETRY Symmetry
CHECK_DEADLOCK FALSE
INVARIANTS ReplayRestoresSilver

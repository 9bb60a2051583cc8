SPECIFICATION FairSpec
CONSTANTS
    Tables = {t1, t2}
    Quarantine = quarantine
    Length = 3
    Versions = 2
    MaxCrashes = 1
    MaxResets = 1
CHECK_DEADLOCK FALSE
INVARIANTS TypeOK EachEventLandsOnce CommittedIsInSilver
PROPERTIES MergesOwnBatch EveryEventArrives

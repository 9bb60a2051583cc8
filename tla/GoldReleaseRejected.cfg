SPECIFICATION Spec
CONSTANTS
    MaxEvents = 2
    MaxDisturbances = 2
    NoRelease = none
INVARIANT ReleasePassedQuality

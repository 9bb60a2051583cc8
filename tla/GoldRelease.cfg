SPECIFICATION Spec
CONSTANTS
    MaxEvents = 2
    MaxDisturbances = 2
    NoRelease = none
INVARIANTS TypeOK ReleaseShowsItsSilver SupersededRunCompletes SucceededRunIsReleased SkippedRunIsReleased
PROPERTIES ReleaseNeverRegresses ImplementsPublication

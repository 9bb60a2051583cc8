SPECIFICATION Spec
CONSTANTS
    Categories = {c1, c2, c3}
    Products = {p1}
    Variants = {v1}
    Names = {x, y}
    NoParent = noParent
    NoName = noName
    NoRelease = none
    MaxTime = 3
    MaxSize = 6
SYMMETRY Symmetry
INVARIANTS TypeOK ReplayFollowsSource TwoLevelsPassTheGate
PROPERTY ReleaseIsFullReplay

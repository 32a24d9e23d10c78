CONSTANTS
    Connections = {c1, c2}
    Items = {me}
    PublicItems = {me}
    GrantedItems = {me}
    BaseItems = {}
    OwnItem = me
    Sizes = {4}
    Boxes = {1, 3}
    MaxSource = 3
    MaxPublic = 2
    MaxClock = 7
SPECIFICATION Spec
SYMMETRY Symm
INVARIANT ServedIsCurrent
INVARIANT OrphansOnlyByOverlap
PROPERTY PhotosSurvive
CHECK_DEADLOCK FALSE

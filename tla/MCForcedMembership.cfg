CONSTANTS
    m1 = m1
    m2 = m2
    Messages <- MCMessages
    Destinations = {"channel"}
    None = None
    Watchers = {"bot"}
    Private = {"channel"}
    MaxMoves = 1
    MaxChanges = 1
    MaxCrashes = 1
SPECIFICATION Spec
INVARIANTS TypeOK WarnedOnce DeletionsAreReal CountersAgree
SYMMETRY Symmetry
CHECK_DEADLOCK FALSE

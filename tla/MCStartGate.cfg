SPECIFICATION Spec

CONSTANTS
    m1 = m1
    m2 = m2
    n1 = n1
    n2 = n2
    n3 = n3
    h1 = h1
    h2 = h2
    b1 = b1
    b2 = b2
    None = None
    Messages = {m1, m2}
    Album = {m2}
    Notices = {n1, n2, n3}
    Handlers = {h1, h2}
    Bots = {b1}
    Outsiders = {}
    HoldTtl = 1
    NoticeTtl = 2
    MaxUpdates = 2
    MaxStarts = 1
    MaxFaults = 1
    MaxCrashes = 1

CHECK_DEADLOCK FALSE

SYMMETRY Symmetry

INVARIANTS
    TypeOK
    StartedIsClean
    LiveNoticeOwned

PROPERTIES
    NoticesSpaced

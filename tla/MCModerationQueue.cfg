SPECIFICATION Spec

CONSTANTS
    u1 = u1
    h1 = h1
    w1 = w1
    w2 = w2
    Chat = Chat
    Users = {u1}
    Admins = {}
    Handlers = {h1}
    Workers = {w1, w2}
    RequestKinds = {"mute"}
    Delays = {0}
    Durations = {0, 1}
    ClientKeys <- ReservedText
    Limit = 1
    NumBots = 2
    StaleAfter = 1
    MaxActions = 3
    MaxLate = 0
    MaxCrashes = 1

SYMMETRY Symmetry

INVARIANTS
    TypeOK
    RestrictionHeldOnce
    TimedRestrictionHasRelease
    ReleaseHasCause
    ExecutedReachedTelegram

PROPERTIES
    CancelledStaysUndone

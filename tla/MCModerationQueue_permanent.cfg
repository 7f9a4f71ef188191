SPECIFICATION Spec

CONSTANTS
    u1 = u1
    h1 = h1
    w1 = w1
    w2 = w2
    Chat = Chat
    Users = {u1}
    Admins = {}
    Handlers = {}
    Workers = {w1}
    RequestKinds = {"mute"}
    Delays = {0}
    Durations = {0, 1}
    ClientKeys <- NoKeys
    Limit = 1
    NumBots = 1
    StaleAfter = 1
    MaxActions = 3
    MaxLate = 0
    MaxCrashes = 0

PROPERTIES
    PermanentHasNoAutomaticEnd

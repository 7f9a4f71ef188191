SPECIFICATION FairSpec

CONSTANTS
    u1 = u1
    h1 = h1
    w1 = w1
    w2 = w2
    Chat = Chat
    Users = {u1}
    Admins = {u1}
    Handlers = {}
    Workers = {w1}
    RequestKinds = {"lock", "ban"}
    Delays = {0, 1}
    Durations = {0, 1}
    ClientKeys <- OneText
    Limit = 2
    NumBots = 1
    StaleAfter = 1
    MaxActions = 3
    MaxLate = 1
    MaxCrashes = 1

PROPERTIES
    ActionsSettle
    ReleaseIsCarriedOut

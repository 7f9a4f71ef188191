SPECIFICATION Spec
CONSTANTS
  Handlers = {h1, h2}
  Messages = {1, 2}
  Kinds <- MCKinds
  Limit = 1
  TicksPerDay = 2
  LongPause = 5
  MaxTime = 5
  MaxTurns = 3
SYMMETRY HandlerSymmetry
INVARIANTS TypeOK QuotaHolds OneForgivenessPerConflict NoOldGrudge
PROPERTY NoStaleAnswerNotice
CHECK_DEADLOCK FALSE

CONSTANTS
    b1 = b1
    b2 = b2
    hi = hi
    there = there
    Bots <- MCBots
    Texts <- MCTexts
    Addressee = b1
    Empty = Empty
    Settle = 1
    MaxWait = 2
    AnsweredTTL = 1
    SeenTTL = 1
    MaxEdits = 2
    GatesStop = TRUE
SPECIFICATION Spec
INVARIANTS TypeOK DirectlyAnsweredOnce
PROPERTIES SettledOnce SessionEnds
CHECK_DEADLOCK FALSE

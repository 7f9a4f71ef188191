SPECIFICATION LockSpec

CONSTANTS
    e1 = e1
    e2 = e2
    e3 = e3
    text = text
    media = media
    readonly = readonly
    Executors = {e1, e2, e3}
    Open = {Default, text, media}
    Silent = {Locked, readonly}
    Default = Default
    Locked = Locked
    Nothing = Nothing

SYMMETRY Symmetry

INVARIANTS
    LockTypeOK

PROPERTIES
    UnlockOpens

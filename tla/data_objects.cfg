CONSTANTS
    Type = {Rng, Regexp}
    OnceOnly = {Regexp}
    Obj = {o1, o2}
    Plain = Plain
    Core = Core
    Null = Null
    MaxBoxes = 2
    MaxHeld = 2
SPECIFICATION Spec
INVARIANTS OneOwner FreedAsBoxed HeldIsLive SpecsOutlive
PROPERTIES CloseFreesAll
CHECK_DEADLOCK FALSE

CONSTANTS
    MaxFrames = 6
    MaxArena = 2
    MaxSaves = 2
SPECIFICATION Spec
INVARIANT StateFollowsControl
PROPERTY KeepsOneState
CHECK_DEADLOCK FALSE

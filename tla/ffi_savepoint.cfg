CONSTANTS
    MaxFrames = 6
    MaxArena = 2
    MaxSaves = 2
SPECIFICATION Spec
PROPERTY SavepointRestores
CHECK_DEADLOCK FALSE

CONSTANTS
    bare = bare
    pair = pair
    look = look
    Regexps = {bare, pair, look}
    OnigOnly = {look}
    Groups <- OneAndTwo
    Str = Str
    ScanPatterns = {bare, pair, Str}
    Nil = Nil
    CaptureList = CaptureList
    MaxMatches = 2
    MaxGlobals = 2
    MaxBlocks = 2
SPECIFICATION Spec
INVARIANT DerivedFromOneMatch
PROPERTY BlockSeesItsCaptures
CHECK_DEADLOCK FALSE

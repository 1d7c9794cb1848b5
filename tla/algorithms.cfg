\* Every input up to the lengths given here.
SPECIFICATION Spec
CONSTANTS
    MaxInt = 127
    MaxInt32 = 63
    MaxTimestamp = 9999
    MaxTz = 60
    Nil = Nil
    Elem = {x, y}
    Alphabet <- Symbols
    Lengths <- InputLengths
    Indexes <- PassedInts
    Beyond = 2
    Given = 3
INVARIANTS
    CharsAgree
    SymbolTypes
    InspectReadsBack
    IntegersParse
    BackendsAgree
    TimesExact
    IndexesResolve
    MethodsAgree
    StringMethodsAgree
    EnvsAgree
    ScannerKeepsPlace
    ThreadsNest
CHECK_DEADLOCK FALSE

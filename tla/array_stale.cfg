CONSTANTS
    Nil = Nil
    Ary = {s1, s2, s3}
    Addr = {a1, a2, a3}
    Null = Null
    Dangling = Dangling
    Elem = {x}
    MaxCapacity = 2
    MaxCalls = 1
    TouchHeld = TRUE
SPECIFICATION Spec
VIEW WithoutHistory
SYMMETRY Alike
INVARIANT PartsDescribeBuffer
CHECK_DEADLOCK FALSE

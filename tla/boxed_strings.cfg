CONSTANTS
    Byte <- MCByte
    Nul = 0
    MaxCapacity = 3
    Str = {s1, s2, s3}
    Addr = {a1, a2, a3}
    Null = Null
    Literal <- MCLiteral
SPECIFICATION Spec
SYMMETRY Alike
INVARIANTS PartsDescribeBuffer OneOwner NulFollows FormatStaysInside
PROPERTIES KeepsTexts

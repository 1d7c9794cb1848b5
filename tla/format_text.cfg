CONSTANTS
    Byte <- MCByte
    Nul = 0
    MaxCapacity = 3
    Str = {s1, s2}
    Addr = {a1, a2}
    Null = Null
    Literal <- MCLiteral
SPECIFICATION Spec
PROPERTIES FormatReturnsText

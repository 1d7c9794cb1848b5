-------------------------------- MODULE Indexing --------------------------------
(***************************************************************************)
(* What the trampolines of String do at the positions that Ruby code       *)
(* passes: [], byteslice, getbyte, setbyte, index, rindex and <<. A String *)
(* that is not there is NoSlice.                                           *)
(***************************************************************************)
EXTENDS SpinosoString, Positions

(***************************************************************************)
(* A String in one of three encodings.                                     *)
(***************************************************************************)

Encodings == {"Utf8", "Ascii", "Binary"}

(* s.get(i..j), or else s.get(i..)                                         *)
GetBytes(s, i, j) ==
    IF i > Len(s) THEN NoSlice ELSE SubSeq(s, i + 1, IF j <= Len(s) THEN j ELSE Len(s))

CharLenIn(enc, s) == IF enc = "Utf8" THEN CharLen(s) ELSE Len(s)

GetCharIn(enc, s, i) ==
    IF enc = "Utf8" THEN GetChar(s, i)
    ELSE IF i < Len(s) THEN SubSeq(s, i + 1, i + 1) ELSE NoSlice

GetCharSliceIn(enc, s, i, j) ==
    IF enc = "Utf8" THEN GetCharSlice(s, i, j) ELSE GetBytes(s, i, j)

(* String#[] with an index and a length, an index, a Range or a String.    *)
ArefStartLen(enc, s, index, length) ==
    LET i == Resolve(index, Len(s)) IN
    IF i = NoIndex \/ i > Len(s) \/ length < 0 THEN NoSlice
    ELSE GetCharSliceIn(enc, s, i, i + length)

ArefIndex(enc, s, index) ==
    LET i == Resolve(index, Len(s)) IN
    IF i = NoIndex THEN NoSlice ELSE GetCharIn(enc, s, i)

ArefRange(enc, s, range) ==
    LET part == BegLen(range, CharLenIn(enc, s)) IN
    IF part = RangeOut THEN NoSlice ELSE ArefStartLen(enc, s, part.start, part.len)

(* String#byteslice in its three forms, and getbyte.                       *)
BytesStartLen(s, index, length) ==
    LET i == Resolve(index, Len(s)) IN
    IF i = NoIndex \/ i > Len(s) \/ length < 0 THEN NoSlice ELSE GetBytes(s, i, i + length)

BytesIndex(s, index) ==
    LET i == Resolve(index, Len(s)) IN
    IF i = NoIndex \/ i >= Len(s) THEN NoSlice ELSE SubSeq(s, i + 1, i + 1)

BytesRange(s, range) ==
    LET part == BegLen(range, Len(s)) IN
    IF part = RangeOut THEN NoSlice ELSE BytesStartLen(s, part.start, part.len)

GetByte(s, index) ==
    LET i == Resolve(index, Len(s)) IN
    [ok |-> index # -MaxInt - 1,
     byte |-> IF i = NoIndex \/ i >= Len(s) THEN NoSlice ELSE SubSeq(s, i + 1, i + 1)]

(* String#setbyte: the remainder of a negative byte is negative in Rust,   *)
(* and is then no u8. Bound: a byte has ByteValues values.                 *)
ByteValues == 4
SetByte(s, index, byte) ==
    LET i == Resolve(index, Len(s)) IN
    CASE index = -MaxInt - 1 -> "RangeError"
      [] index # -MaxInt - 1 /\ i = NoIndex -> "IndexError"
      [] i # NoIndex /\ byte < 0 /\ byte % ByteValues # 0 -> "panic"
      [] i >= Len(s) /\ (byte >= 0 \/ byte % ByteValues = 0) -> "IndexError"
      [] OTHER -> "set"

(* Where bstr finds needle in s, from the front and from the back.         *)
Places(s, needle) ==
    {i \in 0..(Len(s) - Len(needle)) : SubSeq(s, i + 1, i + Len(needle)) = needle}
Find(s, needle) ==
    IF Places(s, needle) = {} THEN NoIndex
    ELSE CHOOSE i \in Places(s, needle) : \A j \in Places(s, needle) : i <= j
RFind(s, needle) ==
    IF Places(s, needle) = {} THEN NoIndex
    ELSE CHOOSE i \in Places(s, needle) : \A j \in Places(s, needle) : j <= i

(* String#index and rindex, with an offset or with Nil. An offset that     *)
(* does not resolve is taken for none, and rindex counts from the end.     *)
IndexOf(s, needle, offset) ==
    LET from == IF offset = Nil THEN NoIndex ELSE Resolve(offset, Len(s))
        found == Find(From(s, from), needle)
    IN  IF from = NoIndex THEN Find(s, needle)
        ELSE IF from > Len(s) \/ found = NoIndex THEN NoIndex ELSE from + found

RIndexOf(s, needle, offset) ==
    LET skipped == IF offset = Nil THEN NoIndex ELSE Resolve(offset, Len(s)) IN
    IF skipped = NoIndex THEN RFind(s, needle)
    ELSE RFind(Till(s, Arrays!Minus(Len(s), skipped)), needle)

ArefString(s, substring) ==
    IF IndexOf(s, substring, Nil) = NoIndex THEN NoSlice ELSE substring

(* String#<<: the bytes are put together, and the receiver may change its  *)
(* encoding. A US-ASCII one that is not empty refuses what is not ASCII.   *)
Pushed(enc, s, otherEnc, other) ==
    LET takes == ~IsAscii(other) /\ (IF enc = "Utf8" THEN otherEnc # "Utf8" ELSE s = <<>>) IN
    [ok |-> enc # "Ascii" \/ s = <<>> \/ IsAscii(other),
     bytes |-> s \o other,
     enc |-> IF takes THEN otherEnc ELSE enc]

=============================================================================

------------------------------ MODULE SpinosoString ------------------------------
(***************************************************************************)
(* spinoso-string: what is a character of a String that is UTF-8 by        *)
(* convention only, and the methods that count characters. An invalid      *)
(* sequence counts as many characters as it has bytes. A String is the     *)
(* sequence of its bytes; indexes count from 0. None is no slice.          *)
(***************************************************************************)
EXTENDS Utf8, Integers

NoSlice == <<"none">>   \* not a slice: no byte is called this
FirstNonAscii(s) == CHOOSE i \in 0..(Len(s) - 1) :
    s[i + 1] \in NonAscii /\ IsAscii(Till(s, i))

(***************************************************************************)
(* chars.rs: an iterator.                                                  *)
(***************************************************************************)

(* ConventionallyUtf8: what next leaves, and the char that it yields.      *)
CharsBegin(s) == [bytes |-> s, invalid |-> <<>>]

NextChar(it) ==
    LET d == DecodeUtf8(it.bytes) IN
    IF it.invalid # <<>>
    THEN [it |-> [it EXCEPT !.invalid = Tail(@)], char |-> Till(it.invalid, 1)]
    ELSE IF d.valid
    THEN [it |-> [it EXCEPT !.bytes = From(@, d.size)], char |-> Till(it.bytes, d.size)]
    ELSE LET bad == Till(it.bytes, d.size) IN
         [it |-> [bytes |-> From(it.bytes, d.size),
                  invalid |-> IF bad = <<>> THEN <<>> ELSE Tail(bad)],
          char |-> IF bad = <<>> THEN <<>> ELSE Till(bad, 1)]

RECURSIVE CharsLeft(_)
CharsLeft(it) ==
    LET next == NextChar(it) IN
    IF next.char = <<>> THEN <<>> ELSE <<next.char>> \o CharsLeft(next.it)

Chars(s) == CharsLeft(CharsBegin(s))

(***************************************************************************)
(* char_len                                                                *)
(***************************************************************************)

(* bytecount::num_chars: the bytes that continue none.                     *)
NumChars(s) == Cardinality({i \in DOMAIN s : s[i] # Continuation})

(* The chunks of utf8_chunks: a valid part and the invalid one after it.   *)
RECURSIVE ChunksLen(_, _)
ChunksLen(valid, s) ==
    LET d == DecodeUtf8(s) IN
    IF d.valid THEN ChunksLen(valid \o Till(s, d.size), From(s, d.size))
    ELSE NumChars(valid) + d.size
            + (IF s = <<>> THEN 0 ELSE ChunksLen(<<>>, From(s, d.size)))

TailLen(s) == IF IsUtf8(s) THEN NumChars(s) ELSE ChunksLen(<<>>, s)

CharLen(s) ==
    IF IsAscii(s) THEN Len(s)
    ELSE FirstNonAscii(s) + TailLen(From(s, FirstNonAscii(s)))

(***************************************************************************)
(* get_char and get_char_slice                                             *)
(***************************************************************************)

(* get_char from the first byte that is not ASCII on.                      *)
RECURSIVE ScanChar(_, _)
ScanChar(s, remaining) ==
    LET d == DecodeUtf8(s) IN
    CASE s = <<>> -> NoSlice
      [] s # <<>> /\ remaining = 0 -> Till(s, IF d.valid THEN d.size ELSE 1)
      [] s # <<>> /\ remaining > 0 /\ d.valid -> ScanChar(From(s, d.size), remaining - 1)
      [] s # <<>> /\ remaining > 0 /\ ~d.valid ->
            IF remaining < d.size THEN SubSeq(s, remaining + 1, remaining + 1)
            ELSE ScanChar(From(s, d.size), remaining - d.size)

GetChar(s, index) ==
    IF index >= Len(s) THEN NoSlice
    ELSE IF IsAscii(Till(s, index + 1)) THEN SubSeq(s, index + 1, index + 1)
    ELSE ScanChar(From(s, FirstNonAscii(s)), index - FirstNonAscii(s))

(* A mutant of Span: an invalid sequence is taken for one character.       *)
RECURSIVE SpanAtOnce(_, _)
SpanAtOnce(s, n) ==
    LET d == DecodeUtf8(s) IN
    CASE n = 0 -> 0
      [] n > 0 /\ s = <<>> -> 1
      [] n > 0 /\ s # <<>> -> d.size + SpanAtOnce(From(s, d.size), n - 1)

(* Where the first or the second loop of get_char_slice stops: the bytes   *)
(* that n characters take, or more than there are.                         *)
RECURSIVE Span(_, _)
Span(s, n) ==
    LET d == DecodeUtf8(s) IN
    CASE n = 0 -> 0
      [] n > 0 /\ s = <<>> -> 1
      [] n > 0 /\ d.valid -> d.size + Span(From(s, d.size), n - 1)
      [] n > 0 /\ s # <<>> /\ ~d.valid ->
            IF n <= d.size THEN n ELSE d.size + Span(From(s, d.size), n - d.size)

Shortened(s, n) == Till(s, IF n <= Len(s) THEN n ELSE Len(s))

(* The general case, of two characters and more: the bytes behind the ones *)
(* that are skipped, up to the ones that are taken.                        *)
SliceBehind(s, skipped, n) ==
    IF skipped > Len(s) THEN NoSlice
    ELSE Shortened(From(s, skipped), Span(From(s, skipped), n))

SliceChars(s, start, end) ==
    IF IsAscii(s) THEN Shortened(From(s, start), end - start)
    ELSE IF FirstNonAscii(s) > end THEN SubSeq(s, start + 1, end)
    ELSE LET consumed == IF FirstNonAscii(s) <= start THEN FirstNonAscii(s) ELSE start IN
         SliceBehind(From(s, consumed), Span(From(s, consumed), start - consumed), end - start)

(* The len is char_len; the bytes are counted before the characters are.    *)
SliceWithin(s, start, end, len) ==
    IF start > len THEN NoSlice
    ELSE IF start = len \/ end = start THEN <<>>
    ELSE IF end = start + 1 THEN GetChar(s, start)
    ELSE SliceChars(s, start, end)

GetCharSlice(s, start, end) ==
    IF start > Len(s) THEN NoSlice ELSE SliceWithin(s, start, end, CharLen(s))

(***************************************************************************)
(* Methods that change the String.                                         *)
(***************************************************************************)

EndsWith(s, t) == Len(t) <= Len(s) /\ From(s, Len(s) - Len(t)) = t

(* A mutant of Chop: what continues a character is one.                    *)
ChopByte(s) ==
    IF EndsWith(s, <<"cr", "lf">>) THEN Till(s, Len(s) - 2)
    ELSE IF s = <<>> THEN s ELSE Till(s, Len(s) - 1)

Chop(s) ==
    LET d == DecodeLastUtf8(s) IN
    CASE s = <<>> -> s
      [] s # <<>> /\ EndsWith(s, <<"cr", "lf">>) -> Till(s, Len(s) - 2)
      [] s # <<>> /\ ~EndsWith(s, <<"cr", "lf">>) ->
            Till(s, Len(s) - IF d.valid THEN d.size ELSE 1)

(* chomp with no separator, with an empty one and with any other.          *)
ChompOne(s) ==
    IF EndsWith(s, <<"cr", "lf">>) THEN Till(s, Len(s) - 2)
    ELSE IF EndsWith(s, <<"lf">>) \/ EndsWith(s, <<"cr">>) THEN Till(s, Len(s) - 1)
    ELSE s

RECURSIVE ChompAll(_)
ChompAll(s) ==
    IF EndsWith(s, <<"cr", "lf">>) THEN ChompAll(Till(s, Len(s) - 2))
    ELSE IF EndsWith(s, <<"lf">>) THEN ChompAll(Till(s, Len(s) - 1))
    ELSE s

ChompSeparator(s, t) == IF EndsWith(s, t) THEN Till(s, Len(s) - Len(t)) ELSE s

RECURSIVE Concat(_)
Concat(chars) == IF chars = <<>> THEN <<>> ELSE Head(chars) \o Concat(Tail(chars))

Backwards(s) == [i \in 1..Len(s) |-> s[Len(s) + 1 - i]]
Reverse(s) == IF IsAscii(s) THEN Backwards(s) ELSE Concat(Backwards(Chars(s)))

(* The bytes of padding are repeated to the left and to the right.         *)
Center(s, width, padding) ==
    LET missing == IF CharLen(s) <= width THEN width - CharLen(s) ELSE 0
        pad(n) == [i \in 1..n |-> padding[1 + ((i - 1) % Len(padding))]]
    IN  pad(missing \div 2) \o s \o pad((missing + 1) \div 2)

Chr(s) == LET d == DecodeUtf8(s) IN Till(s, IF d.valid \/ s = <<>> THEN d.size ELSE 1)

=============================================================================

---------------------------------- MODULE Utf8 ----------------------------------
(***************************************************************************)
(* UTF-8 as the crate bstr decodes it. A byte is named by its ASCII        *)
(* character or, from 0x80 on, by its hexadecimal value; one continuation  *)
(* byte stands for all. Slices are sequences of bytes.                     *)
(***************************************************************************)
EXTENDS Naturals, Sequences, FiniteSets

Continuation == "98"
NeverValid == "ff"
Leading == [c3 |-> 2, e2 |-> 3, f0 |-> 4]   \* with the sizes of their characters

NonAscii == DOMAIN Leading \cup {Continuation, NeverValid}
IsAscii(s) == \A i \in DOMAIN s : s[i] \notin NonAscii

From(s, i) == SubSeq(s, i + 1, Len(s))
Till(s, i) == SubSeq(s, 1, i)

(* The continuation bytes that s begins with after its first byte.         *)
Continued(s) ==
    LET ends == {i \in 2..Len(s) : s[i] # Continuation} IN
    IF ends = {} THEN Len(s) - 1 ELSE (CHOOSE i \in ends : \A j \in ends : i <= j) - 2

(* A character and its size, or the size of the longest invalid part.      *)
DecodeUtf8(s) ==
    IF s = <<>> THEN [valid |-> FALSE, size |-> 0]
    ELSE IF s[1] \notin NonAscii THEN [valid |-> TRUE, size |-> 1]
    ELSE IF s[1] \notin DOMAIN Leading THEN [valid |-> FALSE, size |-> 1]
    ELSE IF Continued(s) >= Leading[s[1]] - 1 THEN [valid |-> TRUE, size |-> Leading[s[1]]]
    ELSE [valid |-> FALSE, size |-> 1 + Continued(s)]

(* The same from the back: the last character, or one invalid byte.        *)
DecodeLastUtf8(s) ==
    LET sizes == {n \in 1..4 : n <= Len(s) /\
                    DecodeUtf8(From(s, Len(s) - n)) = [valid |-> TRUE, size |-> n]}
    IN  IF s = <<>> THEN [valid |-> FALSE, size |-> 0]
        ELSE IF sizes = {} THEN [valid |-> FALSE, size |-> 1]
        ELSE [valid |-> TRUE, size |-> CHOOSE n \in sizes : TRUE]

RECURSIVE IsUtf8(_)
IsUtf8(s) ==
    s = <<>> \/ (DecodeUtf8(s).valid /\ IsUtf8(From(s, DecodeUtf8(s).size)))

=============================================================================

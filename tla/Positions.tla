------------------------------- MODULE Positions -------------------------------
(***************************************************************************)
(* How the trampolines of String, Array and MatchData make positions of    *)
(* the Integers and Ranges that Ruby code passes, and what Array#[], []=   *)
(* and MatchData#[] do at them. The arguments are converted already. Nil   *)
(* is Ruby's nil.                                                          *)
(***************************************************************************)
EXTENDS Integers, Sequences

CONSTANTS
    MaxInt,     \* the largest Integer
    Nil

Arrays == INSTANCE ArrayOps

(***************************************************************************)
(* Positions.                                                              *)
(***************************************************************************)

NoIndex == -1   \* None: positions are not negative

(* The mutant: a negative index counts from the last element, not behind.  *)
ResolveOffByOne(index, len) ==
    IF index >= 0 THEN index
    ELSE IF index = -MaxInt - 1 \/ -index >= len THEN NoIndex ELSE len + index

(* checked_neg, try_from and checked_sub: the least Integer has no         *)
(* negation, and one below -len is before the first position.              *)
Resolve(index, len) ==
    IF index >= 0 THEN index
    ELSE IF index = -MaxInt - 1 \/ -index > len THEN NoIndex ELSE len + index

(* The overflow of mrb_int in C, as it comes out of two's complement.      *)
Wrapped(n) == ((n + MaxInt + 1) % (2 * (MaxInt + 1))) - MaxInt - 1

RangeOut == [start |-> NoIndex, len |-> 0]

(* mrb_range_beg_len, which truncates nothing here. An end may be nil.     *)
BegLen(range, len) ==
    LET beg == IF range.beg = Nil THEN 0 ELSE range.beg
        start == IF beg < 0 THEN beg + len ELSE beg
        last == IF range.end = Nil THEN -1 ELSE range.end
        counted == IF last < 0 THEN last + len ELSE last
        end == IF range.excl /\ range.end # Nil THEN counted ELSE Wrapped(counted + 1)
        size == Wrapped(end - start)
    IN  IF start < 0 THEN RangeOut
        ELSE [start |-> start, len |-> IF size < 0 THEN 0 ELSE size]

(***************************************************************************)
(* Array#[] and []=. An Array is the sequence of its elements.             *)
(***************************************************************************)

ElementAt(a, index) ==
    LET i == Resolve(index, Len(a)) IN
    IF i = NoIndex \/ i >= Len(a) THEN Nil ELSE a[i + 1]

ElementsStartLen(a, start, len) ==
    LET i == Resolve(start, Len(a)) IN
    IF len < 0 \/ i = NoIndex \/ i > Len(a) THEN Nil ELSE Arrays!Slice(a, i, len)

ElementsRange(a, range) ==
    LET part == BegLen(range, Len(a)) IN
    IF part = RangeOut THEN Nil ELSE ElementsStartLen(a, part.start, part.len)

Refused(a) == [ok |-> FALSE, array |-> a]
Changed(a) == [ok |-> TRUE, array |-> a]

AssignAt(a, index, x) ==
    LET i == Resolve(index, Len(a)) IN
    IF i = NoIndex THEN Refused(a) ELSE Changed(Arrays!Set(a, i, x))

(* One element or an Array takes the place of a part.                      *)
Replaced(a, start, len, values, single) ==
    IF single THEN Arrays!SetWithDrain(a, start, len, values[1])
    ELSE Arrays!SetSlice(a, start, len, values)

AssignStartLen(a, start, len, values, single) ==
    LET i == Resolve(start, Len(a)) IN
    IF i = NoIndex \/ len < 0 THEN Refused(a)
    ELSE Changed(Replaced(a, i, len, values, single))

AssignRange(a, range, values, single) ==
    LET part == BegLen(range, Len(a)) IN
    IF part = RangeOut THEN Refused(a)
    ELSE Changed(Replaced(a, part.start, part.len, values, single))

(***************************************************************************)
(* MatchData#[]: the captures of a match, the whole match first. A group   *)
(* that took no part is Nil.                                               *)
(***************************************************************************)

GroupAt(captures, index) ==
    LET i == Resolve(index, Len(captures)) IN
    IF i = NoIndex \/ i >= Len(captures) \/ (index < 0 /\ i = 0) THEN Nil
    ELSE captures[i + 1]

GroupsStartLen(captures, start, len) ==
    LET i == Resolve(start, Len(captures)) IN
    IF len < 0 \/ i = NoIndex THEN Nil
    ELSE Arrays!FirstN(Arrays!DropN(captures, i), len)

GroupsRange(captures, range) ==
    LET part == BegLen(range, Len(captures)) IN
    IF part = RangeOut THEN Nil ELSE GroupsStartLen(captures, part.start, part.len)

=============================================================================

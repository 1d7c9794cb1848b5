-------------------------------- MODULE ArrayOps --------------------------------
(***************************************************************************)
(* The methods of Array in spinoso-array, as operators on its elements.    *)
(* The interpreter is built with the Array that is a Vec; the crate has    *)
(* two more, on SmallVec and on TinyVec, whose code differs where the      *)
(* operators below have one of their own. Indexes count from 0, as they    *)
(* do in Rust.                                                             *)
(***************************************************************************)
EXTENDS Naturals, Sequences

CONSTANT Nil        \* the default element, with which gaps are filled

(***************************************************************************)
(* Slices of Rust.                                                         *)
(***************************************************************************)

Smaller(m, n) == IF m < n THEN m ELSE n

(* checked_sub(n).unwrap_or_default()                                      *)
Minus(m, n) == IF n <= m THEN m - n ELSE 0

(* s[i..j], s[..n] and s[i..]                                              *)
Between(s, i, j) == SubSeq(s, i + 1, j)
UpTo(s, n) == Between(s, 0, n)
Onward(s, i) == Between(s, i, Len(s))

(* resize_with(n, T::default), which also truncates.                       *)
ResizeWith(s, n) == [i \in 1..n |-> IF i <= Len(s) THEN s[i] ELSE Nil]

(***************************************************************************)
(* Reading.                                                                *)
(***************************************************************************)

FirstN(s, n) == IF n <= Len(s) THEN UpTo(s, n) ELSE s
LastN(s, n) == Onward(s, Minus(Len(s), n))
DropN(s, n) == IF n <= Len(s) THEN Onward(s, n) ELSE <<>>

Slice(s, start, len) ==
    IF s = <<>> \/ len = 0 \/ start > Len(s) THEN <<>>
    ELSE IF start + len <= Len(s) THEN Between(s, start, start + len)
    ELSE Onward(s, start)

Repeat(s, n) == [i \in 1..(Len(s) * n) |-> s[1 + ((i - 1) % Len(s))]]

Reversed(s) == [i \in 1..Len(s) |-> s[Len(s) + 1 - i]]

(***************************************************************************)
(* Taking elements away: what is left and what was taken.                  *)
(***************************************************************************)

DeleteAt(s, i) == IF i < Len(s) THEN UpTo(s, i) \o Onward(s, i + 1) ELSE s

PopN(s, n) ==
    IF n = 0 THEN [left |-> s, taken |-> <<>>]
    ELSE [left |-> UpTo(s, Minus(Len(s), n)), taken |-> Onward(s, Minus(Len(s), n))]

ShiftN(s, n) ==
    IF n = 0 THEN [left |-> s, taken |-> <<>>]
    ELSE IF n < Len(s) THEN [left |-> Onward(s, n), taken |-> UpTo(s, n)]
    ELSE [left |-> <<>>, taken |-> s]

(***************************************************************************)
(* Putting elements in.                                                    *)
(***************************************************************************)

(* Vec::insert and SmallVec::insert_from_slice                             *)
InsertAt(s, i, values) == UpTo(s, i) \o values \o Onward(s, i)

UnshiftN(s, values) == InsertAt(s, 0, values)

Set(s, index, x) ==
    IF index < Len(s) THEN [s EXCEPT ![index + 1] = x]
    ELSE Append(ResizeWith(s, index), x)

(* A mutant of SetWithDrain: the element itself counts as one more.        *)
SetWithDrainOneMore(s, start, drain, x) ==
    IF start >= Len(s) THEN Append(ResizeWith(s, start), x)
    ELSE UpTo(s, start) \o <<x>> \o Onward(s, Smaller(start + drain + 1, Len(s)))

SetWithDrain(s, start, drain, x) ==
    IF start >= Len(s) THEN Append(ResizeWith(s, start), x)
    ELSE CASE drain = 0 -> InsertAt(s, start, <<x>>)
           [] drain = 1 -> [s EXCEPT ![start + 1] = x]
           [] OTHER -> UpTo(s, start) \o <<x>>
                          \o Onward(s, Smaller(start + drain, Len(s)))

(* The old elements from index on are split off and appended again.        *)
InsertSlice(s, index, values) ==
    IF index >= Len(s) THEN ResizeWith(s, index) \o values
    ELSE UpTo(s, index) \o values \o Onward(s, index)

Drained(s, index, drain) == Smaller(Minus(Len(s), index), drain)

(* set_slice on a Vec: splice.                                             *)
SetSlice(s, index, drain, values) ==
    IF index >= Len(s) THEN ResizeWith(s, index) \o values
    ELSE UpTo(s, index) \o values \o Onward(s, index + Drained(s, index, drain))

(***************************************************************************)
(* The Array on SmallVec.                                                  *)
(***************************************************************************)

SmallPopN(s, n) ==
    IF n = 0 THEN [left |-> s, taken |-> <<>>]
    ELSE LET begin == Minus(Len(s), n) IN
         [left |-> UpTo(s, begin), taken |-> Onward(s, begin)]

(* drain(..n), where the Vec has drain(..n) or splits off at 0.            *)
SmallShiftN(s, n) ==
    LET end == IF n < Len(s) THEN n ELSE Len(s) IN
    [left |-> Onward(s, end), taken |-> UpTo(s, end)]

SmallInsertSlice(s, index, values) ==
    LET grown == IF index > Len(s) THEN ResizeWith(s, index) ELSE s IN
    InsertAt(grown, index, values)

(* drain(i..j)                                                             *)
WithoutRange(s, i, j) == UpTo(s, i) \o Onward(s, j)

(* s[i..].copy_from_slice(values)                                          *)
Overwrite(s, i, values) ==
    [k \in 1..Len(s) |-> IF k \in (i + 1)..(i + Len(values)) THEN values[k - i] ELSE s[k]]

(* A mutant of SmallReplace: fewer values leave old elements behind.       *)
SmallReplaceLeaves(s, index, drain, values) ==
    LET len == Len(values) IN
    CASE len = 0 -> WithoutRange(s, index, index + drain)
      [] len > 0 /\ len <= drain -> Overwrite(s, index, values)
      [] len > drain -> InsertAt(Overwrite(s, index, UpTo(values, drain)),
                                 index + drain, Onward(values, drain))

(* Some elements are replaced, and there are more behind them.             *)
SmallReplace(s, index, drain, values) ==
    LET len == Len(values) IN
    CASE len = 0 -> WithoutRange(s, index, index + drain)
      [] len > 0 /\ len < drain ->
            WithoutRange(Overwrite(s, index, values), index + len, index + drain)
      [] len = drain -> Overwrite(s, index, values)
      [] len > drain -> InsertAt(Overwrite(s, index, UpTo(values, drain)),
                                 index + drain, Onward(values, drain))

SmallSetSlice(s, index, drain, values) ==
    LET grown == IF index > Len(s) THEN ResizeWith(s, index) ELSE s
        tail == Len(grown) - index
    IN  CASE tail = 0 -> [array |-> grown \o values, drained |-> 0]
          [] tail > 0 /\ tail <= drain ->
                [array |-> UpTo(grown, index) \o values, drained |-> tail]
          [] tail > drain /\ drain = 0 ->
                [array |-> InsertAt(grown, index, values), drained |-> 0]
          [] tail > drain /\ drain > 0 ->
                [array |-> SmallReplace(grown, index, drain, values), drained |-> drain]

(***************************************************************************)
(* The Array on TinyVec.                                                   *)
(***************************************************************************)

TinyInsertSlice(s, index, values) ==
    LET grown == IF index > Len(s) THEN ResizeWith(s, index) ELSE s IN
    IF index = Len(grown) THEN grown \o values
    ELSE UpTo(grown, index) \o values \o Onward(grown, index)

TinySetSlice(s, index, drain, values) ==
    LET grown == IF index > Len(s) THEN ResizeWith(s, index) ELSE s
        drained == Smaller(Minus(Len(s), index), drain)
    IN  [drained |-> drained,
         array |-> IF index = Len(grown) THEN grown \o values
                   ELSE UpTo(grown, index) \o values \o Onward(grown, index + drained)]

=============================================================================

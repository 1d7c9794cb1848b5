-------------------------------- MODULE ArrayLaws --------------------------------
(***************************************************************************)
(* Arrays and the positions in them: what the three Arrays of spinoso-array*)
(* and the trampolines of Array and MatchData do, compared with what Ruby  *)
(* documents of the elements at each position. An input grows by one       *)
(* symbol at a time; those of the subject "arrays" are arrays.             *)
(***************************************************************************)
EXTENDS Positions

CONSTANTS
    Elem,       \* the elements of arrays
    Alphabet,   \* the subjects, and the symbols of the inputs of each
    Lengths,    \* bound: the length of the inputs
    Indexes,    \* the Integers that are passed as indexes, lengths and ends
    Beyond,     \* bound: how far behind the end something is assigned
    Given       \* bound: how many values are

Word == (-MaxInt - 1)..MaxInt

(* An Array has at most i64::MAX elements; nil is no Integer.              *)
ASSUME InputsAssumption ==
    /\ MaxInt \in Nat /\ Beyond \in Nat /\ Given \in Nat
    /\ Indexes \subseteq Word
    /\ Nil \notin Int
    /\ Alphabet["arrays"] = Elem /\ Lengths["arrays"] \in 0..MaxInt

VARIABLES
    subject,    \* which alphabet
    input

vars == <<subject, input>>

Init == subject \in DOMAIN Alphabet /\ input = <<>>

Extend ==
    /\ Len(input) < Lengths[subject]
    /\ \E x \in Alphabet[subject] : input' = Append(input, x)
    /\ UNCHANGED subject

Spec == Init /\ [][Extend]_vars

-----------------------------------------------------------------------------
(* Parts of an array, by the positions of their elements.                  *)

Least(m, n) == IF m < n THEN m ELSE n

Inserted(values) == UNION {[1..n -> values] : n \in 0..Given}

(* How many elements there are to drain from index on.                     *)
ToDrain(s, index, drain) == Least(IF index <= Len(s) THEN Len(s) - index ELSE 0, drain)

(* The array with d of its elements from index on replaced by values; an   *)
(* index behind the end fills up with nil.                                 *)
SplicedAt(s, index, d, values, k) ==
    IF k <= index THEN (IF k <= Len(s) THEN s[k] ELSE Nil)
    ELSE IF k <= index + Len(values) THEN values[k - index]
    ELSE s[k - Len(values) + d]

SplicedLen(s, index, d, values) ==
    (IF index > Len(s) THEN index ELSE Len(s) - d) + Len(values)

Spliced(s, index, d, values) ==
    [k \in 1..SplicedLen(s, index, d, values) |-> SplicedAt(s, index, d, values, k)]

(* The three implementations of Array do the same: each replaces a range,  *)
(* although one splices, one overwrites, drains or inserts by the lengths  *)
(* and one splits the vector; and they say how many they have drained.     *)
BackendsAgree ==
    subject = "arrays" =>
        \A index, drain \in 0..(Len(input) + Beyond), values \in Inserted({Nil}) :
            LET d == ToDrain(input, index, drain)
                spliced == Spliced(input, index, d, values)
            IN  /\ Arrays!SetSlice(input, index, drain, values) = spliced
                /\ Arrays!Drained(input, index, drain) = d
                /\ Arrays!SmallSetSlice(input, index, drain, values) =
                      [array |-> spliced, drained |-> d]
                /\ Arrays!TinySetSlice(input, index, drain, values) =
                      [array |-> spliced, drained |-> d]
                /\ drain = 0 =>
                      /\ Arrays!InsertSlice(input, index, values) = spliced
                      /\ Arrays!SmallInsertSlice(input, index, values) = spliced
                      /\ Arrays!TinyInsertSlice(input, index, values) = spliced
                /\ Len(values) = 1 =>
                      Arrays!SetWithDrain(input, index, drain, values[1]) = spliced
                /\ Arrays!PopN(input, drain) = Arrays!SmallPopN(input, drain)
                /\ Arrays!ShiftN(input, drain) = Arrays!SmallShiftN(input, drain)

-----------------------------------------------------------------------------
(* Positions that count from the end, and those of a Range.                *)

FromEnd(i, n) == IF i < 0 THEN i + n ELSE i
FirstOf(range, n) == IF range.beg = Nil THEN 0 ELSE FromEnd(range.beg, n)

InRange(range, n, i) ==
    /\ FirstOf(range, n) <= i
    /\ range.end # Nil =>
          IF range.excl THEN i < FromEnd(range.end, n) ELSE i <= FromEnd(range.end, n)

(* The one end that cannot be moved behind the last position.              *)
EndOverflows(range) == range.end = MaxInt /\ ~range.excl

Ranges == [beg : Indexes \cup {Nil}, end : Indexes \cup {Nil}, excl : BOOLEAN]

(* The part of an array from a position on, of so many elements.           *)
ElementsFrom(a, from, count) ==
    IF from \notin 0..Len(a) \/ count < 0 THEN Nil
    ELSE SubSeq(a, from + 1, Least(Len(a), from + count))

(* The part has the elements of a at the positions in the range, but the   *)
(* range from the first position to the largest Integer has none.          *)
IsPartOf(part, a, range) ==
    LET first == FirstOf(range, Len(a)) IN
    IF first \notin 0..Len(a) THEN part = Nil
    ELSE IF first = 0 /\ EndOverflows(range) THEN part = <<>>
    ELSE /\ part = SubSeq(a, first + 1, first + Len(part))
         /\ \A i \in 0..(Len(a) - 1) :
               InRange(range, Len(a), i) <=> first <= i /\ i < first + Len(part)

(* Reading parts of an Array, and the groups of a match: the same, but the *)
(* whole match is no negative index, and a part of the groups that would   *)
(* begin behind the last is empty instead of nil.                          *)
PartsAreRead(a) ==
    LET n == Len(a) IN
    /\ \A index \in Indexes :
          LET i == FromEnd(index, n) IN
          /\ ElementAt(a, index) = IF i \in 0..(n - 1) THEN a[i + 1] ELSE Nil
          /\ GroupAt(a, index) = IF index = -n THEN Nil ELSE ElementAt(a, index)
          /\ \A count \in Indexes :
                /\ ElementsStartLen(a, index, count) = ElementsFrom(a, i, count)
                /\ GroupsStartLen(a, index, count) =
                      IF i > n /\ count >= 0 THEN <<>> ELSE ElementsStartLen(a, index, count)
    /\ \A range \in Ranges :
          /\ IsPartOf(ElementsRange(a, range), a, range)
          /\ GroupsRange(a, range) =
                IF FirstOf(range, n) > n THEN <<>> ELSE ElementsRange(a, range)

(* What is assigned to an index of an Array is read back from there, and   *)
(* nowhere else.                                                           *)
IndexIsAssigned(a, index, x) ==
    LET r == AssignAt(a, index, x)
        at == FromEnd(index, Len(a))
    IN  /\ r.ok <=> at >= 0
        /\ r.ok => /\ ElementAt(r.array, index) = x
                   /\ \A i \in 0..Len(r.array) : i # at => ElementAt(r.array, i) = ElementAt(a, i)

(* What takes the place of a part is read back from there, the elements    *)
(* before it stay and those after it follow.                               *)
PartIsAssigned(a, start, count, values, single) ==
    LET r == AssignStartLen(a, start, count, values, single)
        from == FromEnd(start, Len(a))
        n == IF single THEN 1 ELSE Len(values)
    IN  /\ r.ok <=> from >= 0 /\ count >= 0
        /\ r.ok => /\ ElementsStartLen(r.array, from, n) = SubSeq(values, 1, n)
                   /\ \A i \in 0..(from - 1) : ElementAt(r.array, i) = ElementAt(a, i)
                   /\ \A i \in 0..Len(a) :
                         ElementAt(r.array, from + n + i) = ElementAt(a, from + count + i)

(* To assign what was read from a Range changes nothing.                   *)
RangeIsAssigned(a, range) ==
    LET first == FirstOf(range, Len(a)) IN
    /\ first \in 0..Len(a) =>
          AssignRange(a, range, ElementsRange(a, range), FALSE) = Changed(a)
    /\ AssignRange(a, range, <<Nil>>, TRUE).ok <=> first >= 0

Reached(a, i) == i <= Len(a) + Beyond

(* The indexes, lengths and Ranges of Array#[] and []= and of MatchData#[] *)
(* select what Ruby documents, and what is assigned with them is read with *)
(* them; the exceptions are those that the parts name.                     *)
IndexesResolve ==
    subject = "arrays" =>
        /\ PartsAreRead(input)
        /\ \A start \in Indexes : Reached(input, FromEnd(start, Len(input))) =>
              /\ \A x \in Elem : IndexIsAssigned(input, start, x)
              /\ \A count \in Indexes, values \in Inserted(Elem), single \in BOOLEAN :
                    (single => values # <<>>) => PartIsAssigned(input, start, count, values, single)
        /\ \A range \in Ranges : Reached(input, FirstOf(range, Len(input))) =>
              RangeIsAssigned(input, range)

=============================================================================

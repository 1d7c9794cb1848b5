------------------------------ MODULE ArrayMethods ------------------------------
(***************************************************************************)
(* Methods of Array that are written in Ruby, in array.rb: selecting,      *)
(* sorting, searching, sets, combinations, flattening, and the ones that   *)
(* insert, cut and fill. A method that changes its receiver has a record   *)
(* of the array that it leaves and of its answer. A block is the function  *)
(* of its answers: "true", "false" or "other", which counts as true.       *)
(***************************************************************************)
EXTENDS Indexing

Leaves(array, answer) == [ok |-> TRUE, array |-> array, answer |-> answer]
Raised(array) == [ok |-> FALSE, array |-> array, answer |-> Nil]

Truthy(block, x) == block[x] # "false"

(***************************************************************************)
(* Selecting.                                                              *)
(***************************************************************************)

Selected(a, block) == LET Yes(x) == Truthy(block, x) IN SelectSeq(a, Yes)
Rejected(a, block) == LET No(x) == ~Truthy(block, x) IN SelectSeq(a, No)

SelectBang(a, block) ==
    LET result == Selected(a, block) IN
    IF result = a THEN Leaves(a, Nil) ELSE Leaves(result, result)

RejectBang(a, block) ==
    LET result == Rejected(a, block) IN
    IF result = a THEN Leaves(a, Nil) ELSE Leaves(result, result)

(* Only what the block answers true for.                                   *)
Filter(a, block) == LET Yes(x) == block[x] = "true" IN SelectSeq(a, Yes)

FilterBang(a, block) ==
    LET result == Filter(a, block) IN
    IF Len(result) = Len(a) THEN Leaves(a, Nil)
    ELSE Leaves(AssignStartLen(a, 0, Len(a), result, FALSE).array, result)

(* delete_at, with an index that may be negative.                          *)
DeleteAt(a, index) ==
    LET i == IF index < 0 THEN index + Len(a) ELSE index IN
    IF i \notin 0..(Len(a) - 1) THEN Leaves(a, Nil)
    ELSE Leaves(AssignStartLen(a, i, 1, <<>>, FALSE).array, ElementAt(a, i))

(* A mutant of DeleteIf: the indexes are deleted from the front.           *)
RECURSIVE DeleteForwards(_, _)
DeleteForwards(a, indexes) ==
    IF indexes = <<>> THEN a
    ELSE DeleteForwards(DeleteAt(a, Head(indexes)).array, Tail(indexes))

RECURSIVE DeleteBackwards(_, _)
DeleteBackwards(a, indexes) ==
    IF indexes = <<>> THEN a
    ELSE DeleteBackwards(DeleteAt(a, indexes[Len(indexes)]).array,
                         SubSeq(indexes, 1, Len(indexes) - 1))

Indices(a, block) ==
    LET Yes(i) == Truthy(block, a[i + 1]) IN SelectSeq([i \in 1..Len(a) |-> i - 1], Yes)

DeleteIfForwards(a, block) ==
    LET left == DeleteForwards(a, Indices(a, block)) IN Leaves(left, left)

DeleteIf(a, block) ==
    LET left == DeleteBackwards(a, Indices(a, block)) IN Leaves(left, left)

RECURSIVE KeepFrom(_, _, _)
KeepFrom(a, i, block) ==
    CASE i >= Len(a) -> a
      [] i < Len(a) /\ Truthy(block, a[i + 1]) -> KeepFrom(a, i + 1, block)
      [] OTHER -> KeepFrom(DeleteAt(a, i).array, i, block)

KeepIf(a, block) == LET left == KeepFrom(a, 0, block) IN Leaves(left, left)

(***************************************************************************)
(* Searching, in the array and in one that is sorted.                      *)
(***************************************************************************)

Index(a, x) ==
    IF \A i \in DOMAIN a : a[i] # x THEN Nil
    ELSE (CHOOSE i \in DOMAIN a : a[i] = x /\ \A j \in 1..(i - 1) : a[j] # x) - 1

(* The index is one of the reversed array.                                 *)
RIndex(a, x) == Index(Arrays!Reversed(a), x)

RECURSIVE Delete(_, _)
Delete(a, x) ==
    IF Index(a, x) = Nil THEN Leaves(a, Nil)
    ELSE Leaves(Delete(DeleteAt(a, Index(a, x)).array, x).array, x)

(* The block of bsearch answers a number or a Boolean for each element.    *)
RECURSIVE Halve(_, _, _, _)
Halve(answers, low, high, satisfied) ==
    LET mid == (low + high) \div 2
        answer == answers[mid + 1]
    IN  IF low >= high THEN IF satisfied THEN low ELSE Nil
        ELSE IF answer = "zero" THEN mid
        ELSE IF answer \in {"negative", "true"}
        THEN Halve(answers, low, mid, satisfied \/ answer = "true")
        ELSE Halve(answers, mid + 1, high, satisfied)

BsearchIndex(answers) == Halve(answers, 0, Len(answers), FALSE)

(* bsearch tests another index for nil, and so indexes with nil if there   *)
(* is none.                                                                *)
Bsearch(a, answers) ==
    LET i == BsearchIndex(answers) IN
    IF i = Nil THEN Raised(a) ELSE Leaves(a, ElementAt(a, i))

(* <=>, where cmp compares elements.                                       *)
RECURSIVE Spaceship(_, _, _)
Spaceship(a, b, cmp) ==
    CASE Len(a) < Len(b) -> -1
      [] Len(a) > Len(b) -> 1
      [] Len(a) = Len(b) /\ a = <<>> -> 0
      [] OTHER -> IF cmp[Head(a), Head(b)] # 0 THEN cmp[Head(a), Head(b)]
                  ELSE Spaceship(Tail(a), Tail(b), cmp)

(***************************************************************************)
(* Sorting: cmp is what the block answers for two elements.                *)
(***************************************************************************)

RECURSIVE Merge(_, _, _)
Merge(left, right, cmp) ==
    CASE left = <<>> \/ right = <<>> -> left \o right
      [] left # <<>> /\ right # <<>> /\ cmp[Head(left), Head(right)] <= 0 ->
            <<Head(left)>> \o Merge(Tail(left), right, cmp)
      [] OTHER -> <<Head(right)>> \o Merge(left, Tail(right), cmp)

RECURSIVE Sort(_, _)
Sort(a, cmp) ==
    CASE Len(a) <= 1 -> a
      [] Len(a) = 2 -> IF cmp[a[1], a[2]] <= 0 THEN a ELSE Arrays!Reversed(a)
      [] OTHER -> LET middle == Len(a) \div 2 IN
                  Merge(Sort(ElementsStartLen(a, 0, middle), cmp),
                        Sort(ElementsStartLen(a, middle, Len(a)), cmp), cmp)

(***************************************************************************)
(* Sets: a hash keeps its keys in the order in which they came.            *)
(***************************************************************************)

RECURSIVE And(_, _)
And(a, hash) ==
    IF a = <<>> THEN <<>>
    ELSE IF Head(a) \in hash THEN <<Head(a)>> \o And(Tail(a), hash \ {Head(a)})
    ELSE And(Tail(a), hash)

Intersection(a, b) == And(a, {b[i] : i \in DOMAIN b})

Difference(a, b) ==
    LET Absent(x) == \A i \in DOMAIN b : b[i] # x IN SelectSeq(a, Absent)

(* With a block, the first element for each key that it answers.           *)
RECURSIVE FirstForKeys(_, _, _)
FirstForKeys(a, keys, key) ==
    IF a = <<>> THEN <<>>
    ELSE IF key[Head(a)] \in keys THEN FirstForKeys(Tail(a), keys, key)
    ELSE <<Head(a)>> \o FirstForKeys(Tail(a), keys \cup {key[Head(a)]}, key)

UniqBang(a, key) ==
    LET result == FirstForKeys(a, {}, key) IN
    IF Len(result) = Len(a) THEN Leaves(a, Nil) ELSE Leaves(result, result)

Uniq(a, key) == UniqBang(a, key).array

RECURSIVE Union(_, _, _)
Union(a, others, key) ==
    IF others = <<>> THEN a ELSE Union(Uniq(a \o Head(others), key), Tail(others), key)

(***************************************************************************)
(* Combinations, permutations and the shape of nested arrays.              *)
(***************************************************************************)

(* The turns of the loop for 1 < k < len: the last index runs to the end,  *)
(* then the last one that can still move does, and resets those behind it. *)
RECURSIVE Combine(_, _)
Combine(indexes, len) ==
    LET k == Len(indexes)
        run == [i \in 1..Arrays!Minus(len, indexes[k]) |->
                    [indexes EXCEPT ![k] = indexes[k] + i - 1]]
        movable == {r \in 1..(k - 1) : indexes[r] + 1 < len}
        reset == CHOOSE r \in movable : \A q \in movable : q <= r
        next == [r \in 1..k |-> IF r < reset THEN indexes[r]
                                ELSE indexes[reset] + 1 + r - reset]
    IN  IF movable = {} \/ next[1] + k > len THEN run ELSE run \o Combine(next, len)

Combination(a, k) ==
    LET At(indexes) == [i \in DOMAIN indexes |-> a[indexes[i] + 1]]
        all == Combine([i \in 1..k |-> i - 1], Len(a))
    IN  CASE k > Len(a) \/ k < 0 -> <<>>
          [] k = 0 -> << <<>> >>
          [] k = Len(a) /\ k > 1 -> <<a>>
          [] k = 1 /\ k <= Len(a) -> [i \in DOMAIN a |-> <<a[i]>>]
          [] OTHER -> [i \in DOMAIN all |-> At(all[i])]

(* Each element, followed by the permutations of the others.               *)
RECURSIVE PermutationFrom(_, _, _), Permutation(_, _)
PermutationFrom(a, k, i) ==
    IF i >= Len(a) THEN <<>>
    ELSE LET others == Permutation(Arrays!WithoutRange(a, i, i + 1), k - 1)
             begin == IF k <= 1 THEN << <<a[i + 1]>> >>
                      ELSE [j \in DOMAIN others |-> <<a[i + 1]>> \o others[j]]
         IN  begin \o PermutationFrom(a, k, i + 1)

Permutation(a, k) ==
    CASE k > Len(a) -> <<>>
      [] k = 0 -> << <<>> >>
      [] OTHER -> PermutationFrom(a, k, 0)

(* An element is a leaf or an array, of these elements.                    *)
Nested(a) == [nested |-> TRUE, of |-> a]
Leaf(x) == [nested |-> FALSE, of |-> x]

RECURSIVE Flatten(_, _)
Flatten(a, depth) ==
    IF a = <<>> THEN <<>>
    ELSE (IF Head(a).nested /\ (depth = Nil \/ depth > 0)
          THEN Flatten(Head(a).of, IF depth = Nil THEN Nil ELSE depth - 1)
          ELSE <<Head(a)>>) \o Flatten(Tail(a), depth)

Transpose(rows) ==
    IF rows = <<>> THEN Leaves(rows, <<>>)
    ELSE IF \E i \in DOMAIN rows : Len(rows[i]) # Len(rows[1]) THEN Raised(rows)
    ELSE Leaves(rows, [j \in 1..Len(rows[1]) |-> [i \in DOMAIN rows |-> rows[i][j]]])

(***************************************************************************)
(* Inserting, cutting out and filling.                                     *)
(***************************************************************************)

Insert(a, index, values) ==
    AssignStartLen(a, IF index < 0 THEN index + Len(a) + 1 ELSE index, 0, values, FALSE)

Size(range) ==
    IF range.end = Nil THEN MaxInt
    ELSE Arrays!Minus(range.end + IF range.excl THEN 0 ELSE 1, range.beg)

Abs(n) == IF n < 0 THEN -n ELSE n

(* slice! with an index, with an index and a length, and with a Range.     *)
SliceBangIndex(a, index) == IF Abs(index) > Len(a) THEN Leaves(a, Nil) ELSE DeleteAt(a, index)

SliceBang(a, start, len) ==
    LET from == IF start < 0 THEN start + Len(a) ELSE start
        count == IF from + len > Len(a) THEN Len(a) - from ELSE len
        left == AssignStartLen(a, from, count, <<>>, FALSE)
    IN  IF Abs(start) > Len(a) THEN Leaves(a, Nil)
        ELSE IF left.ok THEN Leaves(left.array, ElementsStartLen(a, from, count))
        ELSE Raised(a)

SliceBangRange(a, range) ==
    IF range.beg = Nil THEN Raised(a) ELSE SliceBang(a, range.beg, Size(range))

RECURSIVE FillFrom(_, _, _, _)
FillFrom(a, i, end, x) ==
    IF i >= end THEN Leaves(a, a)
    ELSE LET r == AssignAt(a, i, x) IN
         IF r.ok THEN FillFrom(r.array, i + 1, end, x) ELSE Raised(a)

(* fill with a value or with a block, which answers x, and with a start    *)
(* and a length or a Range.                                                *)
Fill(a, x, start, len) ==
    LET from == IF start < 0 THEN start + Len(a) ELSE start IN
    FillFrom(a, from, IF len = Nil THEN Len(a) ELSE from + len, x)

FillWithBlock(a, x, start, len) ==
    LET from == IF start < 0 THEN start + Len(a) ELSE start IN
    FillFrom(a, from, IF len = Nil THEN Len(a) ELSE start + len, x)

FillRange(a, x, range) ==
    LET from == IF range.beg < 0 THEN range.beg + Len(a) ELSE range.beg
        end == IF range.end < 0 THEN range.end + Len(a) ELSE range.end
    IN  FillFrom(a, from, IF range.excl THEN end ELSE end + 1, x)

=============================================================================

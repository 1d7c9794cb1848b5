------------------------------- MODULE RubyArray -------------------------------
(***************************************************************************)
(* What the arrays of a Ruby program are to it: objects with elements of   *)
(* their own. A call changes its receiver, as it says and at once, or not  *)
(* at all; what it returns is a new array.                                 *)
(***************************************************************************)
EXTENDS Naturals, Sequences

CONSTANTS
    Ary,        \* array objects
    Elem,       \* values that calls bring along
    Nil,
    Length      \* indexes and lengths

VARIABLES
    elems,      \* the elements of each array that exists
    result,     \* what the call that is ending returns in a new array
    call        \* the last call: its name, its receiver and its arguments

NoResult == [is |-> FALSE, of |-> <<>>]
Returning(b) == [is |-> TRUE, of |-> b]

Value == Elem \cup {Nil}

Says(s, b) == elems' = [t \in DOMAIN elems \cup {s} |-> IF t = s THEN b ELSE elems[t]]

(* The elements of b before index n, with nil for those it does not have.  *)
Before(b, n) == [i \in 1..n |-> IF i \in DOMAIN b THEN b[i] ELSE Nil]
After(b, n) == SubSeq(b, n + 1, Len(b))
Turned(b) == [i \in DOMAIN b |-> b[Len(b) + 1 - i]]
Times(b, n) == [i \in 1..(n * Len(b)) |-> b[1 + ((i - 1) % Len(b))]]

(* Slice assignment: values take the place of n elements at index i.       *)
Splice(b, i, n, values) == Before(b, i) \o values \o After(b, i + n)

Init ==
    /\ elems = [s \in {} |-> <<>>]
    /\ result = NoResult
    /\ call = <<"none">>

(* An array is made of values that the caller has, or of a result.         *)
Make(s) ==
    /\ s \notin DOMAIN elems
    /\ \/ \E n \in Length : \E b \in [1..n -> Value] :
             call' = <<"new", s, b>> /\ Says(s, b) /\ UNCHANGED result
       \/ /\ result.is
          /\ call' = <<"return", s>> /\ Says(s, result.of) /\ result' = NoResult

(* Calls that change an array.                                             *)
Change(s) ==
    /\ s \in DOMAIN elems
    /\ LET b == elems[s] IN
       \/ /\ UNCHANGED result
          /\ \/ \E x \in Value :
                   \/ call' = <<"push", s, x>> /\ Says(s, Append(b, x))
                   \/ call' = <<"unshift", s, x>> /\ Says(s, <<x>> \o b)
                   \/ \E i \in Length :
                         call' = <<"set", s, i, x>> /\ Says(s, Splice(b, i, 1, <<x>>))
             \/ call' = <<"pop", s>> /\ Says(s, Before(b, Len(b) - 1))
             \/ call' = <<"shift", s>> /\ Says(s, After(b, 1))
             \/ call' = <<"reverse!", s>> /\ Says(s, Turned(b))
             \/ call' = <<"clear", s>> /\ Says(s, <<>>)
             \/ \E n \in Length : \E v \in [1..n -> Value] :
                   \/ call' = <<"concat", s, v>> /\ Says(s, b \o v)
                   \/ call' = <<"fill", s, v>> /\ Says(s, v)
                   \/ \E i, d \in Length :
                         call' = <<"splice", s, i, d, v>> /\ Says(s, Splice(b, i, d, v))
             \/ \E t \in DOMAIN elems :
                   call' = <<"copy", s, t>> /\ Says(s, IF t = s THEN <<>> ELSE elems[t])
             \/ call' = <<"free", s>> /\ elems' = [t \in DOMAIN elems \ {s} |-> elems[t]]
       \/ \E n \in Length :
             /\ call' = <<"shift", s, n>>
             /\ Says(s, After(b, n))
             /\ result' = Returning(SubSeq(b, 1, IF n < Len(b) THEN n ELSE Len(b)))

(* Calls that change none, and those that an exception leaves.             *)
Look(s) ==
    /\ s \in DOMAIN elems
    /\ UNCHANGED elems
    /\ LET b == elems[s] IN
       \/ call' \in {<<"enter", s>>, <<"fail", s>>} /\ UNCHANGED result
       \/ call' = <<"reverse", s>> /\ result' = Returning(Turned(b))
       \/ \E i, n \in Length :
             /\ call' = <<"slice", s, i, n>>
             /\ result' = Returning(SubSeq(b, i + 1, IF i + n < Len(b) THEN i + n ELSE Len(b)))
       \/ \E n \in Length : call' = <<"*", s, n>> /\ result' = Returning(Times(b, n))
       \/ \E t \in DOMAIN elems :
             call' = <<"+", s, t>> /\ result' = Returning(b \o elems[t])

Next == \E s \in Ary : Make(s) \/ Change(s) \/ Look(s)

Spec == Init /\ [][Next]_<<elems, result, call>>

=============================================================================

------------------------------ MODULE MCBoxedArray ------------------------------
(***************************************************************************)
(* BoxedArray for TLC: a few arrays of at most MaxCapacity elements.       *)
(***************************************************************************)
EXTENDS BoxedArray, TLC

(* No property names an array, an address or a value, and there is no      *)
(* fairness.                                                               *)
Alike == Permutations(Ary) \cup Permutations(Addr)

(* No action reads the history of calls, so states that differ in it only  *)
(* are one to TLC. It still checks each step into a state, with the call   *)
(* that the step records.                                                  *)
WithoutHistory == <<memory, array, calls, leaked>>

=============================================================================

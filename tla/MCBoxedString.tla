----------------------------- MODULE MCBoxedString -----------------------------
(***************************************************************************)
(* BoxedString for TLC: a few strings, buffers of at most MaxCapacity bytes. *)
(***************************************************************************)
EXTENDS BoxedString, TLC

(* The byte 0 and one that is not.                                         *)
MCByte == {0, 1}

MCLiteral == {<<>>, <<1>>, <<1, 0>>}

(* No property names a string or an address, and there is no fairness.     *)
Alike == Permutations(Str) \cup Permutations(Addr)

=============================================================================

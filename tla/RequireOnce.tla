------------------------------ MODULE RequireOnce ------------------------------
(***************************************************************************)
(* What require keeps towards its callers, whatever the loaders behind it  *)
(* do: a source starts only while its feature is not loaded, a feature     *)
(* becomes loaded only when its source ends well, and it stays loaded, so  *)
(* that a call that starts after one has answered Success runs nothing.    *)
(*                                                                         *)
(* It is less than artichoke-core/src/load.rs asks for. A feature that is  *)
(* being loaded is not loaded: its source starts once more if it requires  *)
(* itself, directly or in a circle, and each of the calls that are in      *)
(* progress then answers Success (SuccessOnce in FeatureLoader is violated)*)
(***************************************************************************)
CONSTANT Feature    \* the paths that a program requires

VARIABLES
    loaded,     \* the features that require answers false for
    active      \* the features whose source or hook is running

TypeOK ==
    /\ loaded \subseteq Feature
    /\ active \subseteq Feature

Init ==
    /\ loaded = {}
    /\ active = {}

(* A feature that is active and not loaded may start again.                *)
Begin(p) ==
    /\ p \notin loaded
    /\ active' = active \cup {p}
    /\ UNCHANGED loaded

(* p may still be active afterwards, as the inner one of two calls, and    *)
(* features that share its source become loaded with it.                   *)
Leave(p) ==
    /\ p \in active
    /\ active' \in {active, active \ {p}}

Finish(p) ==
    /\ Leave(p)
    /\ loaded' \in SUBSET Feature
    /\ loaded \cup {p} \subseteq loaded'

Abort(p) == Leave(p) /\ UNCHANGED loaded

Next == \E p \in Feature : Begin(p) \/ Finish(p) \/ Abort(p)

Spec == Init /\ [][Next]_<<loaded, active>>

=============================================================================

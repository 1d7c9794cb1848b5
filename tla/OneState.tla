-------------------------------- MODULE OneState --------------------------------
(***************************************************************************)
(* What the boundary promises of the State, whoever calls whom: there is   *)
(* one, it is in one place at a time, and it changes hands only where      *)
(* control does. Calls nest, each in a frame of its own; the State is in   *)
(* the innermost frame or in the VM. Nobody but the outermost frame drops  *)
(* it, and then it is gone for good.                                       *)
(***************************************************************************)
EXTENDS Naturals

CONSTANT Vm         \* the places of the VM in which the State can be

VARIABLES
    depth,          \* frames in progress
    places          \* where the State is

Frame(i) == <<"frame", i>>

InVm == \E place \in Vm : places = {place}
ToVm == \E place \in Vm : places' = {place}
InFrame(i) == places = {Frame(i)}
ToFrame(i) == places' = {Frame(i)}

TypeOK ==
    /\ depth \in Nat
    /\ InVm \/ places = {} \/ (depth > 0 /\ InFrame(depth))

Init == depth = 1 /\ InVm

-----------------------------------------------------------------------------
(* The VM is open: the first frame gets the State.                         *)
Open ==
    /\ depth = 1 /\ InVm
    /\ depth' = 1 /\ ToFrame(1)

(* The innermost frame lends the State to a new one, that of the VM.       *)
Lend ==
    /\ depth > 0 /\ InFrame(depth)
    /\ depth' = depth + 1 /\ ToVm

(* A new frame takes the State out of the VM.                              *)
Take ==
    /\ InVm
    /\ depth' = depth + 1 /\ ToFrame(depth + 1)

(* The innermost frame ends and gives the State to the VM.                 *)
GiveBack ==
    /\ depth > 0 /\ InFrame(depth)
    /\ depth' = depth - 1 /\ ToVm

(* The frame of the VM ends, and the one that lent the State has it again. *)
TakeBack ==
    /\ depth > 1 /\ InVm
    /\ depth' = depth - 1 /\ ToFrame(depth - 1)

(* Control goes back to a frame of the VM, over the frames in between.     *)
Jump ==
    /\ depth > 0
    /\ depth' \in 1 .. depth
    /\ \/ InVm /\ UNCHANGED places
       \/ InFrame(depth) /\ depth' < depth /\ ToVm

Drop ==
    /\ depth = 1 /\ InFrame(1)
    /\ depth' = 0 /\ places' = {}

Next == Open \/ Lend \/ Take \/ GiveBack \/ TakeBack \/ Jump \/ Drop

Spec == Init /\ [][Next]_<<depth, places>>

=============================================================================

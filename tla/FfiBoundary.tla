------------------------------ MODULE FfiBoundary ------------------------------
(***************************************************************************)
(* The boundary between the Rust interpreter and the mruby VM (artichoke.rs*)
(* ffi.rs, macros.rs, error.rs, sys/protect.rs, gc/arena.rs). There is one *)
(* Box<State>. It moves into mrb_state.ud when Rust calls C and back when  *)
(* C returns; a trampoline that C calls takes it out of ud, and its Guard  *)
(* puts it back. Exceptions leave a trampoline by longjmp, which drops     *)
(* nothing on its way to the frame of C that it lands in.                  *)
(*                                                                         *)
(* A frame of Rust is all Rust code that shares one Artichoke. C code is   *)
(* external: it may call trampolines, allocate, raise and rescue.          *)
(***************************************************************************)
EXTENDS Naturals, Sequences, SequencesExt

CONSTANTS
    MaxFrames,      \* bound: frames on the native stack
    MaxArena,       \* bound: objects in the GC arena
    MaxSaves        \* bound: savepoints of a frame that are alive

ASSUME BoundaryAssumption == MaxFrames \in Nat /\ MaxArena \in Nat /\ MaxSaves \in Nat

VARIABLES
    frames,         \* the native stack, innermost frame last
    ud,             \* mrb_state.ud is the State
    allocf,         \* mrb_state.allocf_ud is the State
    arena,          \* the index of the GC arena
    exc             \* mrb_state.exc is not null

vars == <<frames, ud, allocf, arena, exc>>

RustKinds == {"host", "trampoline"}
CKinds == {"open", "protected", "unprotected"}

Frames == [kind : RustKinds \cup CKinds,
           held : BOOLEAN,          \* Artichoke.state is Some
           saves : Seq(Nat),        \* the ArenaIndexes that are alive
           ai : Nat]                \* the arena index at the start of the frame

RustFrame(k, held, saves) == [kind |-> k, held |-> held, saves |-> saves, ai |-> arena]
CFrame(k) == [kind |-> k, held |-> FALSE, saves |-> <<>>, ai |-> arena]

TypeOK ==
    /\ frames \in Seq(Frames)
    /\ ud \in BOOLEAN
    /\ allocf \in BOOLEAN
    /\ arena \in Nat
    /\ exc \in BOOLEAN

(* mrb_open_allocf is running, with the State as its allocator's data.     *)
Init ==
    /\ frames = <<[kind |-> "open", held |-> FALSE, saves |-> <<>>, ai |-> 0]>>
    /\ ud = FALSE
    /\ allocf = TRUE
    /\ arena = 0
    /\ exc = FALSE

-----------------------------------------------------------------------------
Depth == Len(frames)
Top == frames[Depth]
RustRuns == frames # <<>> /\ Top.kind \in RustKinds
CRuns == frames # <<>> /\ Top.kind \in CKinds

(* from_user_data: the State is taken from ud or else from allocf_ud.      *)
Extracted == ud \/ allocf

(* A mutant of Extract: what allocf_ud had is left there as well.          *)
ExtractLeavesAllocf == ud' = FALSE /\ UNCHANGED allocf

Extract ==
    /\ ud' = FALSE
    /\ allocf' = (ud /\ allocf)

(* Rust code that holds the State calls a C function: one of those in      *)
(* sys/protect.rs, which run it under mrb_protect, or another one that may *)
(* run Ruby code (mrb_obj_new, mrb_hash_get, mrb_hash_set).                *)
CallC(kind) ==
    /\ RustRuns /\ Top.held /\ Depth < MaxFrames
    /\ ud' = TRUE
    /\ frames' = Append([frames EXCEPT ![Depth].held = FALSE], CFrame(kind))
    /\ UNCHANGED <<allocf, arena, exc>>

(* with_ffi_boundary gets the State back. mrb_protect restores the arena   *)
(* and keeps its result alive, if that is an object; an exception that is  *)
(* still pending then is taken by protect.                                 *)
CReturns ==
    /\ CRuns /\ Depth > 1
    /\ Extract
    /\ frames' = [Front(frames) EXCEPT ![Depth - 1].held = Extracted]
    /\ IF Top.kind = "protected"
       THEN exc' = FALSE /\ arena' \in {Top.ai, Top.ai + 1} /\ arena' <= MaxArena
       ELSE UNCHANGED <<exc, arena>>

(* interpreter_with_config *)
OpenReturns ==
    /\ CRuns /\ Top.kind = "open"
    /\ Extract
    /\ frames' = <<RustFrame("host", Extracted, <<>>)>>
    /\ UNCHANGED <<arena, exc>>

(* unwrap_interpreter!: a trampoline starts, with a savepoint.             *)
Enter ==
    /\ CRuns /\ Depth < MaxFrames
    /\ Extracted
    /\ Extract
    /\ frames' = Append(frames, RustFrame("trampoline", TRUE, <<arena>>))
    /\ UNCHANGED <<arena, exc>>

(* The trampoline's locals are dropped, last one first: the Guard, which   *)
(* moves the State into ud, then the ArenaIndex, which finds no State and  *)
(* restores nothing.                                                       *)
Return ==
    /\ RustRuns /\ Top.kind = "trampoline" /\ Len(Top.saves) = 1
    /\ ud' = Top.held
    /\ frames' = Front(frames)
    /\ UNCHANGED <<allocf, arena, exc>>

-----------------------------------------------------------------------------
(* Exceptions. A longjmp lands in a frame of C that rescues it in Ruby, or *)
(* at the latest in the innermost one under mrb_protect.                   *)
Catches(i) ==
    /\ frames[i].kind \in {"protected", "unprotected"}
    /\ \A j \in i + 1 .. Depth : frames[j].kind # "protected"

Land(i) ==
    /\ frames' = SubSeq(frames, 1, i)
    /\ arena' = frames[i].ai
    /\ exc' = FALSE

(* Without mrb_protect around it, mrb_funcall catches the exception, leaves*)
(* it pending, and its caller goes on. (C code that raises outside of a    *)
(* funcall aborts the process then.)                                       *)
Unprotected(i) ==
    /\ i = 2
    /\ \A j \in 2 .. Depth : frames[j].kind # "protected"
LandPending(i) ==
    /\ frames' = SubSeq(frames, 1, i)
    /\ arena' = frames[i].ai
    /\ exc' = TRUE

(* A mutant of Raise: the guard is not dropped before the longjmp.         *)
RaiseWithGuard(i) ==
    /\ RustRuns /\ Top.kind = "trampoline"
    /\ i < Depth /\ Catches(i)
    /\ Land(i) \/ (Unprotected(i) /\ LandPending(i))
    /\ UNCHANGED <<ud, allocf>>

(* error::raise, in the entry point of a trampoline.                       *)
Raise(i) ==
    /\ RustRuns /\ Top.kind = "trampoline"
    /\ i < Depth /\ Catches(i)
    /\ ud' = Top.held
    /\ Land(i) \/ (Unprotected(i) /\ LandPending(i))
    /\ UNCHANGED allocf

CRaises(i) ==
    /\ CRuns
    /\ Catches(i)
    /\ Land(i) \/ (Unprotected(i) /\ LandPending(i))
    /\ UNCHANGED <<ud, allocf>>

-----------------------------------------------------------------------------
(* The GC arena. C code may restore it as far as it was when C was called. *)
Allocate ==
    /\ CRuns \/ (RustRuns /\ Top.held)
    /\ arena < MaxArena
    /\ arena' = arena + 1
    /\ UNCHANGED <<frames, ud, allocf, exc>>

CRestores ==
    /\ CRuns
    /\ arena' = Top.ai
    /\ UNCHANGED <<frames, ud, allocf, exc>>

(* ArenaIndex::new and its drop, in the body of a Rust function.           *)
Save ==
    /\ RustRuns /\ Top.held
    /\ Len(Top.saves) < MaxSaves
    /\ frames' = [frames EXCEPT ![Depth].saves = Append(@, arena)]
    /\ UNCHANGED <<ud, allocf, arena, exc>>

Owned == IF Top.kind = "trampoline" THEN 1 ELSE 0

Restore ==
    /\ RustRuns /\ Top.held /\ Len(Top.saves) > Owned
    /\ arena' = Last(Top.saves)
    /\ frames' = [frames EXCEPT ![Depth].saves = Front(@)]
    /\ UNCHANGED <<ud, allocf, exc>>

-----------------------------------------------------------------------------
(* The embedder's interpreter can be closed, or turned into a raw pointer  *)
(* and back.                                                               *)
HostRuns == Depth = 1 /\ Top.kind = "host" /\ Top.saves = <<>>

Close ==
    /\ HostRuns /\ Top.held
    /\ frames' = <<>>
    /\ UNCHANGED <<ud, allocf, arena, exc>>

IntoRaw ==
    /\ HostRuns
    /\ ud' = Top.held
    /\ frames' = <<>>
    /\ UNCHANGED <<allocf, arena, exc>>

FromRaw ==
    /\ frames = <<>> /\ Extracted
    /\ Extract
    /\ frames' = <<RustFrame("host", TRUE, <<>>)>>
    /\ UNCHANGED <<arena, exc>>

Next ==
    \/ \E kind \in {"protected", "unprotected"} : CallC(kind)
    \/ CReturns
    \/ OpenReturns
    \/ Enter
    \/ Return
    \/ \E i \in 1 .. Depth : Raise(i) \/ CRaises(i)
    \/ Allocate
    \/ CRestores
    \/ Save
    \/ Restore
    \/ Close
    \/ IntoRaw
    \/ FromRaw

Spec == Init /\ [][Next]_vars

-----------------------------------------------------------------------------
(* Properties.                                                             *)

Held == {i \in DOMAIN frames : frames[i].held}

(* The State is where control is, and nowhere else: in the Artichoke of    *)
(* the innermost frame while Rust runs, in mrb_state while C runs, also    *)
(* after calls back and forth of any depth and exceptions that jumped over *)
(* some of them. No trampoline fails to find it, no Guard is dropped       *)
(* without it, and it is never freed twice.                                *)
StateFollowsControl ==
    /\ RustRuns => Held = {Depth} /\ ~ud /\ ~allocf
    /\ CRuns => Held = {} /\ ud # allocf
    /\ frames = <<>> => ~(ud /\ allocf)

(* "ArenaIndex implements Drop, so letting it go out of scope is sufficient*)
(* to ensure objects get collected eventually" (gc/arena.rs): a trampoline *)
(* that returns restores its savepoint.                                    *)
SavepointRestores == [][Return => arena' <= Top.saves[1]]_vars

(* Refinement: where the State is in Rust and in mrb_state.                *)
UserData == <<"mrb_state", "ud">>
AllocfUserData == <<"mrb_state", "allocf_ud">>

Places ==
    {<<"frame", i>> : i \in Held} \cup
    (IF ud THEN {UserData} ELSE {}) \cup
    (IF allocf THEN {AllocfUserData} ELSE {})

Owner == INSTANCE OneState WITH
    depth <- Len(frames),
    places <- Places,
    Vm <- {UserData, AllocfUserData}

(* The boundary keeps the promise of OneState: each call, return, raise,   *)
(* open, close and conversion moves the one State with control, and no     *)
(* other step moves it; from a State that was dropped nothing follows.     *)
KeepsOneState == Owner!Spec

=============================================================================

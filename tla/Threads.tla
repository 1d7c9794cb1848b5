--------------------------------- MODULE Threads ---------------------------------
(***************************************************************************)
(* Thread and Mutex, thread.rb. There is one thread of control: a Thread   *)
(* runs its block when it is made, on top of the code that makes it, and   *)
(* Thread.current is the last of a stack. A Mutex has an owner and no      *)
(* queue. A frame is a block in progress, of a Thread or of synchronize;   *)
(* code that gets an exception goes on with it or rescues it. Threads are  *)
(* numbered as they are made, the main one first.                          *)
(***************************************************************************)
EXTENDS Naturals, Sequences

CONSTANT Mutex

Nobody == 0     \* nil for a Thread
Main == 1

(* What a call or a block ends with: an exception that rescue takes, or    *)
(* one that it does not, or a value.                                       *)
Outcomes == {"value", "error", "fatal"}

ThreadFrame(t, aborts) == [of |-> t, aborts |-> aborts, holds |-> {}]
SectionFrame(t, m) == [of |-> t, aborts |-> FALSE, holds |-> {m}]

(* Required: the main thread's block ends, and it is not popped.           *)
Start ==
    [stack |-> <<Main>>, made |-> Main, frames |-> <<>>, owner |-> [m \in Mutex |-> Nobody],
     unwind |-> {}, terminated |-> {}, outcome |-> "value"]

Latest(s) == s[Len(s)]
Popped(s) == IF s = <<>> THEN s ELSE SubSeq(s, 1, Len(s) - 1)

Current(stack) == IF stack = <<>> THEN Nobody ELSE Latest(stack)
MainOf(stack) == IF stack = <<>> THEN Nobody ELSE stack[1]

(***************************************************************************)
(* Thread.new                                                              *)
(***************************************************************************)

NewThread(th, aborts) ==
    [th EXCEPT !.made = @ + 1, !.stack = Append(@, th.made + 1),
               !.frames = Append(@, ThreadFrame(th.made + 1, aborts)), !.outcome = "value"]

(* The rescue: nothing is left of an exception once all threads unwind.    *)
Rescued(th, t, aborts) ==
    IF t \in th.unwind THEN th
    ELSE [th EXCEPT !.terminated = @ \cup {t},
                    !.unwind = IF aborts THEN @ \cup {th.stack[i] : i \in DOMAIN th.stack} ELSE @]

(* The ensure.                                                             *)
Ensured(th, t, outcome) ==
    LET left == Popped(th.stack) IN
    [th EXCEPT !.stack = left,
               !.outcome = IF t \in th.unwind /\ Current(left) = MainOf(left) THEN "error" ELSE outcome]

ThreadEnds(th, t, aborts, outcome) ==
    IF outcome = "error" THEN Ensured(Rescued(th, t, aborts), t, "value")
    ELSE Ensured(th, t, outcome)

(* Without a block it raises within its own rescue, before the push and    *)
(* under the ensure.                                                       *)
NewWithoutBlock(th) ==
    LET t == th.made + 1 IN ThreadEnds([th EXCEPT !.made = t], t, FALSE, "error")

(***************************************************************************)
(* Mutex                                                                   *)
(***************************************************************************)

Owned(th, m) == th.owner[m] = Current(th.stack)

Lock(th, m) ==
    IF Owned(th, m) THEN [th EXCEPT !.outcome = "error"]
    ELSE [th EXCEPT !.owner[m] = Current(th.stack), !.outcome = "value"]

Unlock(th, m, outcome) ==
    IF Owned(th, m) THEN [th EXCEPT !.owner[m] = Nobody, !.outcome = outcome]
    ELSE [th EXCEPT !.outcome = "error"]

(* Where it answers, it has the lock.                                      *)
TryLock(th, m) == Lock(th, m)

Sleep(th, m) ==
    LET unlocked == Unlock(th, m, "value") IN
    IF unlocked.outcome = "value" THEN Lock(unlocked, m) ELSE unlocked

(* The lock is under the ensure.                                           *)
Synchronize(th, m) ==
    LET locked == Lock(th, m) IN
    IF locked.outcome # "value" THEN Unlock(locked, m, locked.outcome)
    ELSE [locked EXCEPT !.frames = Append(@, SectionFrame(Current(th.stack), m))]

(* A mutant of FrameEnds: unlock is no ensure.                             *)
FrameEndsBare(th, outcome) ==
    LET frame == Latest(th.frames)
        left == [th EXCEPT !.frames = Popped(@)]
    IN  IF frame.holds = {} THEN ThreadEnds(left, frame.of, frame.aborts, outcome)
        ELSE IF outcome # "value" THEN [left EXCEPT !.outcome = outcome]
        ELSE Unlock(left, CHOOSE m \in frame.holds : TRUE, outcome)

(* The block of the innermost frame ends.                                  *)
FrameEnds(th, outcome) ==
    LET frame == Latest(th.frames)
        left == [th EXCEPT !.frames = Popped(@)]
    IN  IF frame.holds = {} THEN ThreadEnds(left, frame.of, frame.aborts, outcome)
        ELSE Unlock(left, CHOOSE m \in frame.holds : TRUE, outcome)

=============================================================================

------------------------------- MODULE BoxedArray -------------------------------
(***************************************************************************)
(* Arrays on the heap of mruby whose elements a Vec of Rust owns. An       *)
(* RArray holds the raw parts of a Vec. A call makes an Array of the parts *)
(* and packs them again if it changed them. Between the two some calls     *)
(* convert their arguments, which runs Ruby code: to_ary, to_int, a block. *)
(* They hold the parts then, while Ruby code makes other calls, and fails  *)
(* or returns.                                                             *)
(***************************************************************************)
EXTENDS ArrayOps

CONSTANTS
    Ary,            \* RArray objects
    Addr,           \* addresses of allocations
    Null,           \* no object
    Dangling,       \* the pointer of a Vec without an allocation
    Elem,           \* values other than nil
    MaxCapacity,    \* bound: the capacity of a Vec
    MaxCalls,       \* bound: calls in progress that run Ruby code
    TouchHeld       \* whether Ruby code changes an array that a call below it
                    \* holds the parts of; nothing in the code keeps it from that

ASSUME DistinctPointers ==
    Null \notin Addr /\ Dangling \notin Addr /\ Null # Dangling /\ Null \notin Ary
ASSUME BoundsAreNatural == MaxCapacity \in Nat /\ MaxCalls \in Nat
ASSUME TouchHeldIsBoolean == TouchHeld \in BOOLEAN

VARIABLES
    memory,     \* the allocation at each address, NoBlock where there is none
    array,      \* the raw parts in each RArray
    calls,      \* calls in progress, the innermost last: each holds the parts
                \* of its receiver, and elements it has gathered; a "result"
                \* is a Vec that is about to get an RArray
    leaked,     \* history: buffers that initialize left behind
    call        \* the last call, for the specification of what it does

vars == <<memory, array, calls, leaked, call>>

Value == Elem \cup {Nil}
Length == 0..MaxCapacity
Cells == UNION {[1..n -> Value] : n \in Length}

NoBlock == [capa |-> 0, cells |-> <<>>]
NoParts == [ptr |-> Null, len |-> 0, capa |-> 0]
EmptyParts == [ptr |-> Dangling, len |-> 0, capa |-> 0]

(* Calls that hold the parts of their receiver while they run Ruby code.   *)
Holds == {"read", "aset", "shift", "concat"}

Boxed == {s \in Ary : array[s].ptr # Null}

Init ==
    /\ memory = [a \in Addr |-> NoBlock]
    /\ array = [s \in Ary |-> NoParts]
    /\ calls = <<>>
    /\ leaked = {}
    /\ call = <<"none">>

(***************************************************************************)
(* Vecs: an operation leaves a memory and the parts of the Vec in it.      *)
(***************************************************************************)

Contents(m, p) == IF p.ptr \in Addr THEN m[p.ptr].cells ELSE <<>>

Stored(m, p, block) == IF p \in Addr THEN [m EXCEPT ![p] = block] ELSE m

(* A Vec with these contents in an allocation of its own; one without      *)
(* capacity has none.                                                      *)
Fresh(m, cells, capa) ==
    {[mem |-> Stored(m, a, [capa |-> capa, cells |-> cells]),
      parts |-> [ptr |-> a, len |-> Len(cells), capa |-> capa]] :
        a \in IF capa = 0 THEN {Dangling} ELSE {b \in Addr : m[b] = NoBlock}}

Dropped(m, p) == Stored(m, p.ptr, NoBlock)

(* The Vec of parts p gets other contents: in place if they fit, or in a   *)
(* larger allocation, which may be at the same address.                    *)
Update(m, p, cells) ==
    IF Len(cells) <= p.capa
    THEN {[mem |-> Stored(m, p.ptr, [capa |-> p.capa, cells |-> cells]),
           parts |-> [p EXCEPT !.len = Len(cells)]]}
    ELSE UNION {Fresh(Dropped(m, p), cells, n) : n \in Len(cells)..MaxCapacity}

(* split_off(0) hands the allocation over, and leaves a new one of the     *)
(* same capacity behind.                                                   *)
Renewed(m, p) == {[v EXCEPT !.mem = Dropped(@, p)] : v \in Fresh(m, <<>>, p.capa)}

(* box_into_value: the parts of one of Vecs are packed into s.             *)
Box(s, Vecs) ==
    \E v \in Vecs :
        /\ memory' = v.mem
        /\ array' = [array EXCEPT ![s] = v.parts]

(***************************************************************************)
(* Calls in progress.                                                      *)
(***************************************************************************)

Top == calls[Len(calls)]
Below == SubSeq(calls, 1, Len(calls) - 1)

Ending(op) == calls # <<>> /\ Top.op = op

(* Ruby code runs, on its own or for the call on top.                      *)
RubyRuns == ~Ending("result")

(* Whether a call may change s, while others are in progress.              *)
MayChange(s, others) ==
    TouchHeld \/ \A i \in DOMAIN others : others[i].op \in Holds => others[i].of # s

Returns(cells) == [op |-> "result", of |-> Null, parts |-> NoParts, got |-> cells]

(***************************************************************************)
(* Calls that run no Ruby code.                                            *)
(***************************************************************************)

(* mrb_ary_new_from_values and the like; a Vec may have spare capacity.    *)
New(s, cells) ==
    /\ RubyRuns /\ s \notin Boxed
    /\ \E n \in Len(cells)..MaxCapacity : Box(s, Fresh(memory, cells, n))
    /\ call' = <<"new", s, cells>>
    /\ UNCHANGED <<calls, leaked>>

(* unbox_from_value, a change of the Vec, take and box_into_value.         *)
Changes(s, cells) ==
    /\ RubyRuns /\ s \in Boxed /\ MayChange(s, calls)
    /\ Box(s, Update(memory, array[s], cells))
    /\ UNCHANGED <<calls, leaked>>

Own(s) == Contents(memory, array[s])

Push(s, x) == Changes(s, Append(Own(s), x)) /\ call' = <<"push", s, x>>
Unshift(s, x) == Changes(s, InsertAt(Own(s), 0, <<x>>)) /\ call' = <<"unshift", s, x>>
Pop(s) == Changes(s, PopN(Own(s), 1).left) /\ call' = <<"pop", s>>
ShiftOne(s) == Changes(s, DeleteAt(Own(s), 0)) /\ call' = <<"shift", s>>
ReverseBang(s) == Changes(s, Reversed(Own(s))) /\ call' = <<"reverse!", s>>
Clear(s) == Changes(s, <<>>) /\ call' = <<"clear", s>>

(* mrb_ary_set, once its index is found.                                   *)
SetAt(s, i, x) == Changes(s, Set(Own(s), i, x)) /\ call' = <<"set", s, i, x>>

(* mrb_ary_concat, which grows the receiver in place.                      *)
Extend(s, t) ==
    /\ s # t /\ t \in Boxed
    /\ Changes(s, Own(s) \o Own(t))
    /\ call' = <<"concat", s, Own(t)>>

Reverse(s) ==
    /\ RubyRuns /\ s \in Boxed
    /\ calls' = Append(calls, Returns(Reversed(Own(s))))
    /\ call' = <<"reverse", s>>
    /\ UNCHANGED <<memory, array, leaked>>

(* An empty Array is packed into s over what it held, before t is read.    *)
InitializeCopy(s, t) ==
    /\ RubyRuns /\ {s, t} \subseteq Boxed /\ MayChange(s, calls)
    /\ LET cells == IF s = t THEN <<>> ELSE Own(t) IN
       Box(s, Fresh(memory, cells, Len(cells)))
    /\ leaked' = leaked \cup ({array[s].ptr} \cap Addr)
    /\ call' = <<"copy", s, t>>
    /\ UNCHANGED calls

(* The collector frees an object that nobody refers to, which may be when  *)
(* a result gets its RArray: an Array is made of the parts and dropped.    *)
FreeAry(s) ==
    /\ s \in Boxed
    /\ \A i \in DOMAIN calls : calls[i].of # s
    /\ memory' = Dropped(memory, array[s])
    /\ array' = [array EXCEPT ![s] = NoParts]
    /\ call' = <<"free", s>>
    /\ UNCHANGED <<calls, leaked>>

(***************************************************************************)
(* Calls that run Ruby code while they hold the parts of their receiver.   *)
(***************************************************************************)

(* The parts are read first. concat has copied its elements then, too.     *)
Enter(op, s) ==
    /\ RubyRuns /\ s \in Boxed
    /\ Len(calls) < MaxCalls
    /\ calls' = Append(calls, [op |-> op, of |-> s, parts |-> array[s],
                               got |-> IF op = "concat" THEN Own(s) ELSE <<>>])
    /\ call' = <<"enter", s>>
    /\ UNCHANGED <<memory, array, leaked>>

Held == Contents(memory, Top.parts)

(* An exception. []= packs its Array all the same; the others forget it.   *)
Fail ==
    /\ calls # <<>> /\ Top.op # "result"
    /\ calls' = Below
    /\ array' = IF Top.op = "aset" THEN [array EXCEPT ![Top.of] = Top.parts] ELSE array
    /\ call' = <<"fail", Top.of>>
    /\ UNCHANGED <<memory, leaked>>

(* first, last, [] with a length or a range, * and +.                      *)
Answer(cells, as) ==
    /\ Ending("read")
    /\ Len(cells) <= MaxCapacity
    /\ calls' = Append(Below, Returns(cells))
    /\ call' = as
    /\ UNCHANGED <<memory, array, leaked>>

First(n) == Answer(FirstN(Held, n), <<"slice", Top.of, 0, n>>)
Last(n) == Answer(LastN(Held, n), <<"slice", Top.of, Minus(Len(Held), n), MaxCapacity>>)
Aref(i, n) == Answer(Slice(Held, i, n), <<"slice", Top.of, i, n>>)
Mul(n) == Answer(Repeat(Held, n), <<"*", Top.of, n>>)
Plus(t) == t \in Boxed /\ Answer(Held \o Own(t), <<"+", Top.of, t>>)

(* set, set_with_drain or set_slice of the Array that was made of the      *)
(* parts before the arguments were converted.                              *)
AsetEnds(cells, as) ==
    /\ Ending("aset") /\ MayChange(Top.of, Below)
    /\ Box(Top.of, Update(memory, Top.parts, cells))
    /\ calls' = Below
    /\ call' = as
    /\ UNCHANGED leaked

AsetIndex(i, x) == AsetEnds(Set(Held, i, x), <<"set", Top.of, i, x>>)
AsetElement(i, n, x) ==
    AsetEnds(SetWithDrain(Held, i, n, x), <<"splice", Top.of, i, n, <<x>>>>)
AsetSlice(i, n, t) ==
    /\ t \in Boxed /\ Ending("aset") /\ t # Top.of
    /\ AsetEnds(SetSlice(Held, i, n, Own(t)), <<"splice", Top.of, i, n, Own(t)>>)

(* A mutant of ShiftEnds: the Array is not packed again.                   *)
ShiftEndsUnpacked(n) ==
    /\ Ending("shift") /\ MayChange(Top.of, Below)
    /\ \E v \in Update(memory, Top.parts, ShiftN(Held, n).left) : memory' = v.mem
    /\ calls' = Append(Below, Returns(ShiftN(Held, n).taken))
    /\ call' = <<"shift", Top.of, n>>
    /\ UNCHANGED <<array, leaked>>

(* Only as many elements as there are less than n are drained; otherwise   *)
(* the allocation goes to the result.                                      *)
ShiftEnds(n) ==
    /\ Ending("shift") /\ MayChange(Top.of, Below)
    /\ Box(Top.of, IF n > 0 /\ n >= Len(Held) THEN Renewed(memory, Top.parts)
                   ELSE Update(memory, Top.parts, ShiftN(Held, n).left))
    /\ calls' = Append(Below, Returns(ShiftN(Held, n).taken))
    /\ call' = <<"shift", Top.of, n>>
    /\ UNCHANGED leaked

(* One argument of concat is an array, or was converted to one.            *)
ConcatGathers(t) ==
    /\ Ending("concat") /\ t \in Boxed
    /\ Len(Top.got \o Own(t)) <= MaxCapacity
    /\ calls' = [calls EXCEPT ![Len(calls)].got = @ \o Own(t)]
    /\ call' = <<"enter", Top.of>>
    /\ UNCHANGED <<memory, array, leaked>>

(* A mutant of ConcatEnds: the old Array is not dropped.                   *)
ConcatEndsKeeping ==
    /\ Ending("concat") /\ MayChange(Top.of, Below)
    /\ \E n \in Len(Top.got)..MaxCapacity : Box(Top.of, Fresh(memory, Top.got, n))
    /\ calls' = Below
    /\ call' = <<"concat", Top.of, Onward(Top.got, Top.parts.len)>>
    /\ UNCHANGED leaked

(* The old Array is dropped, and the replacement packed.                   *)
ConcatEnds ==
    /\ Ending("concat") /\ MayChange(Top.of, Below)
    /\ \E n \in Len(Top.got)..MaxCapacity :
          Box(Top.of, Fresh(Dropped(memory, Top.parts), Top.got, n))
    /\ calls' = Below
    /\ call' = <<"concat", Top.of, Onward(Top.got, Top.parts.len)>>
    /\ UNCHANGED leaked

(* initialize packs an empty Array before it runs a block or to_ary. It    *)
(* holds no parts, only what the block has answered.                       *)
BeginInit(s) ==
    /\ RubyRuns /\ s \in Boxed /\ MayChange(s, calls)
    /\ Len(calls) < MaxCalls
    /\ array' = [array EXCEPT ![s] = EmptyParts]
    /\ leaked' = leaked \cup ({array[s].ptr} \cap Addr)
    /\ calls' = Append(calls, [op |-> "init", of |-> s, parts |-> EmptyParts, got |-> <<>>])
    /\ call' = <<"fill", s, <<>>>>
    /\ UNCHANGED memory

BlockAnswers(x) ==
    /\ Ending("init") /\ Len(Top.got) < MaxCapacity
    /\ calls' = [calls EXCEPT ![Len(calls)].got = Append(@, x)]
    /\ call' = <<"enter", Top.of>>
    /\ UNCHANGED <<memory, array, leaked>>

InitEnds(cells) ==
    /\ Ending("init") /\ MayChange(Top.of, Below)
    /\ \E n \in Len(cells)..MaxCapacity : Box(Top.of, Fresh(memory, cells, n))
    /\ leaked' = leaked \cup ({array[Top.of].ptr} \cap Addr)
    /\ calls' = Below
    /\ call' = <<"fill", Top.of, cells>>

(* Array::alloc_value of a result. The collector may have run: FreeAry.    *)
AllocResult(s) ==
    /\ Ending("result") /\ s \notin Boxed
    /\ Box(s, Fresh(memory, Top.got, Len(Top.got)))
    /\ calls' = Below
    /\ call' = <<"return", s>>
    /\ UNCHANGED leaked

Simple(s) ==
    \/ \E cells \in Cells : New(s, cells)
    \/ \E x \in Value : Push(s, x) \/ Unshift(s, x) \/ \E i \in Length : SetAt(s, i, x)
    \/ Pop(s) \/ ShiftOne(s) \/ ReverseBang(s) \/ Clear(s) \/ Reverse(s)
    \/ \E t \in Ary : Extend(s, t) \/ InitializeCopy(s, t)
    \/ FreeAry(s)
    \/ AllocResult(s)

Converting ==
    \/ \E op \in Holds, s \in Ary : Enter(op, s)
    \/ Fail
    \/ \E n \in Length : First(n) \/ Last(n) \/ Mul(n) \/ ShiftEnds(n)
    \/ \E i, n \in Length : Aref(i, n)
    \/ \E i \in Length, x \in Value : AsetIndex(i, x)
    \/ \E i, n \in Length, x \in Value : AsetElement(i, n, x)
    \/ \E i, n \in Length, t \in Ary : AsetSlice(i, n, t)
    \/ \E t \in Ary : Plus(t) \/ ConcatGathers(t)
    \/ ConcatEnds

Initializing ==
    \/ \E s \in Ary : BeginInit(s)
    \/ \E x \in Value : BlockAnswers(x)
    \/ Ending("init") /\ InitEnds(Top.got)
    \/ \E t \in Ary : t \in Boxed /\ InitEnds(Own(t))

Next == Converting \/ Initializing \/ \E s \in Ary : Simple(s)

Spec == Init /\ [][Next]_vars

(***************************************************************************)
(* Properties.                                                             *)
(***************************************************************************)

(* The parts of every array describe its allocation, in particular when    *)
(* the collector marks the elements: at every point where Ruby code runs   *)
(* or a result gets its RArray. "Callers must ensure the raw parts stored  *)
(* in the source `mrb_value` are not invalidated OR that the raw parts are *)
(* repacked before an mruby allocation occurs" (convert/boxing.rs), or     *)
(* "marking the children in `ary` will have undefined behavior"            *)
(* (extn/core/array/trampoline.rs). It is so while no call changes an array*)
(* that a call below it holds; with TouchHeld, an Array that was made of   *)
(* the parts before the change is packed after it.                         *)
PartsDescribeBuffer ==
    \A s \in Boxed :
        LET p == array[s] IN
        /\ p.len = Len(Contents(memory, p))
        /\ p.capa = IF p.ptr \in Addr THEN memory[p.ptr].capa ELSE 0
        /\ p.len <= p.capa

(* Every allocation belongs to one array: none is shared, and none is left *)
(* behind, but for those of arrays that are initialized again.             *)
OneOwner ==
    \A a \in Addr : memory[a] # NoBlock =>
        LET owners == {s \in Boxed : array[s].ptr = a} IN
        /\ a \in leaked => owners = {}
        /\ a \notin leaked => \E s \in owners : owners = {s}

(* The buffers do what the calls promise: each array has elements of its   *)
(* own. A call changes its receiver at once and only as it says, whatever  *)
(* ran while its arguments were converted, or leaves it alone if that      *)
(* failed; what it returns is what its receiver had.                       *)
Arrays == INSTANCE RubyArray WITH
    elems <- [s \in Boxed |-> Contents(memory, array[s])],
    result <- IF Ending("result") THEN [is |-> TRUE, of |-> Top.got]
              ELSE [is |-> FALSE, of |-> <<>>]
KeepsElements == Arrays!Spec

=============================================================================

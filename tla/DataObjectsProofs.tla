-------------------------- MODULE DataObjectsProofs --------------------------
(***************************************************************************)
(* Objects that own Rust values, for any types, objects and bounds: every  *)
(* value is freed once at most, as the type it has, and not while it is    *)
(* held.                                                                   *)
(***************************************************************************)
EXTENDS DataObjects, SequenceTheorems, TLAPS

(* Where a phase finds the registry, the held values and the heap.         *)
PhaseInv ==
  /\ phase \in {"running", "closing"} => registry = Type
  /\ phase # "running" => held = <<>>
  /\ phase = "closed" => LiveObjects = {}

(* An object with data has the type that its box was made of; one without  *)
(* has none.                                                               *)
DataTyped ==
  \A o \in LiveObjects :
    IF objects[o].data = Null
    THEN objects[o].type = Null
    ELSE objects[o].type = boxes[objects[o].data].of

(* No orphan is ever freed.                                                *)
OrphansKept == \A b \in orphans : ~Freed(b)

(* A held box is still its object's, or an orphan.                         *)
HeldKept ==
  \A i \in 1..Len(held) :
    /\ boxes[held[i].box].of = held[i].type
    /\ \/ held[i].box \in orphans
       \/ held[i].obj \in LiveObjects /\ objects[held[i].obj].data = held[i].box

(* The state of the heap, apart from who holds what.                       *)
HeapInv == DataTyped /\ OneOwner /\ FreedAsBoxed /\ OrphansKept

IInv == TypeOK /\ PhaseInv /\ HeapInv /\ HeldKept /\ SpecsOutlive

-----------------------------------------------------------------------------
LEMMA WithoutLast ==
  ASSUME NEW S, NEW s \in Seq(S), s # <<>>
  PROVE  /\ SubSeq(s, 1, Len(s) - 1) \in Seq(S)
         /\ Len(SubSeq(s, 1, Len(s) - 1)) = Len(s) - 1
         /\ \A i \in 1..Len(SubSeq(s, 1, Len(s) - 1)) :
              SubSeq(s, 1, Len(s) - 1)[i] = s[i]
         /\ Len(s) \in Nat
<1> DEFINE n == Len(s) - 1
<1>1. Len(s) \in Nat /\ n \in Nat
  BY EmptySeq
<1>2. \A i \in 1..n : s[i] \in S
  BY <1>1, ElementOfSeq
<1> HIDE DEF n
<1>3. /\ SubSeq(s, 1, n) \in Seq(S)
      /\ Len(SubSeq(s, 1, n)) = IF 1 <= n THEN n - 1 + 1 ELSE 0
      /\ \A i \in 1..n - 1 + 1 : SubSeq(s, 1, n)[i] = s[1 + i - 1]
  BY <1>1, <1>2, SubSeqProperties
<1>4. n - 1 + 1 = n /\ \A i \in 1..n : 1 + i - 1 = i
  BY <1>1
<1>5. Len(SubSeq(s, 1, n)) = n
  BY <1>1, <1>3, <1>4
<1>6. /\ SubSeq(s, 1, n) \in Seq(S)
      /\ Len(SubSeq(s, 1, n)) = n
      /\ \A i \in 1..Len(SubSeq(s, 1, n)) : SubSeq(s, 1, n)[i] = s[i]
  BY <1>3, <1>4, <1>5
<1> QED
  BY <1>1, <1>6 DEF n

(* What the types say of a box and of an object.                           *)
LEMMA BoxTypes ==
  ASSUME TypeOK
  PROVE  /\ Len(boxes) \in Nat
         /\ Allocated = DOMAIN boxes
         /\ Allocated \subseteq Nat
         /\ Null \notin Allocated
         /\ NextBox \notin Allocated
         /\ \A b \in Allocated : boxes[b] \in [of : Type, freedAs : Seq(Type)]
<1>1. boxes \in Seq([of : Type, freedAs : Seq(Type)])
  BY DEF TypeOK
<1>2. /\ Len(boxes) \in Nat
      /\ Allocated = DOMAIN boxes
  BY <1>1, LenProperties DEF Allocated
<1>5. \A b \in Allocated : boxes[b] \in [of : Type, freedAs : Seq(Type)]
  BY <1>1, ElementOfSeq DEF Allocated
<1>3. Allocated \subseteq Nat /\ NextBox \notin Allocated
  BY <1>2 DEF Allocated, NextBox
<1>4. Null \notin Allocated
  BY <1>3, DataAssumption
<1> QED
  BY <1>2, <1>3, <1>4, <1>5

LEMMA ObjectTypes ==
  ASSUME TypeOK
  PROVE  /\ LiveObjects \subseteq Obj
         /\ \A o \in LiveObjects : objects[o] \in Instances
         /\ \A o \in LiveObjects :
              objects[o].data # Null => objects[o].data \in Allocated
<1>1. \A o \in LiveObjects : o \in Obj /\ objects[o] \in Instances
  BY DEF TypeOK, LiveObjects
<1> QED
  BY <1>1 DEF Instances, InstancesOver

LEMMA InstanceIsNotNull ==
  ASSUME TypeOK
  PROVE  Null \notin Instances
<1>1. Instances \subseteq InstancesOver(Nat)
  BY BoxTypes DEF Instances, InstancesOver
<1> QED
  BY <1>1, DataAssumption

LEMMA HeldTypes ==
  ASSUME TypeOK
  PROVE  \A i \in 1..Len(held) : held[i].obj \in Obj /\ held[i].box \in Allocated
<1>1. \A i \in 1..Len(held) : held[i] \in [obj : Obj, box : Allocated, type : Type]
  BY ElementOfSeq DEF TypeOK
<1> QED
  BY <1>1

LEMMA SeqWithin ==
  ASSUME NEW S, NEW R, S \subseteq R, NEW s \in Seq(S)
  PROVE  s \in Seq(R)
  OBVIOUS

(* An object's box is not freed, is no orphan, and is its alone.           *)
LEMMA OwnedBox ==
  ASSUME TypeOK, HeapInv, NEW o \in LiveObjects, objects[o].data # Null
  PROVE  /\ objects[o].data \in Allocated
         /\ ~Freed(objects[o].data)
         /\ objects[o].data \notin orphans
         /\ Owners(objects[o].data) = {o}
<1>1. objects[o].data \in Allocated
  BY ObjectTypes
<1>2. o \in Owners(objects[o].data)
  BY DEF Owners
<1> QED
  BY <1>1, <1>2 DEF HeapInv, OneOwner

(* A box more: the others stay as they are.                                *)
LEMMA BoxedMore ==
  ASSUME TypeOK, NEW T \in Type, NextBox <= MaxBoxes,
         boxes' = Append(boxes, Boxed(T))
  PROVE  /\ boxes' \in Seq([of : Type, freedAs : Seq(Type)])
         /\ Len(boxes)' = NextBox
         /\ Len(boxes)' <= MaxBoxes
         /\ Allocated' = Allocated \cup {NextBox}
         /\ \A b \in Allocated : boxes'[b] = boxes[b]
         /\ boxes'[NextBox] = [of |-> T, freedAs |-> <<>>]
<1>1. boxes \in Seq([of : Type, freedAs : Seq(Type)])
  BY DEF TypeOK
<1>2. Boxed(T) \in [of : Type, freedAs : Seq(Type)]
  BY DEF Boxed
<1>3. /\ boxes' \in Seq([of : Type, freedAs : Seq(Type)])
      /\ Len(boxes') = Len(boxes) + 1
      /\ boxes'[Len(boxes) + 1] = Boxed(T)
      /\ \A b \in 1..Len(boxes) : boxes'[b] = boxes[b]
  BY <1>1, <1>2
<1>4. 1..(Len(boxes) + 1) = 1..Len(boxes) \cup {Len(boxes) + 1}
  BY <1>1
<1> QED
  BY <1>3, <1>4 DEF Allocated, NextBox, Boxed

(* The data of an object are freed: its box and no other is.               *)
LEMMA FreedOne ==
  ASSUME TypeOK, HeapInv, NEW o \in LiveObjects,
         boxes' = FreedWith(objects[o])
  PROVE  /\ boxes' \in Seq([of : Type, freedAs : Seq(Type)])
         /\ Len(boxes)' = Len(boxes)
         /\ Allocated' = Allocated
         /\ \A b \in Allocated : boxes'[b].of = boxes[b].of
         /\ \A b \in Allocated \ {objects[o].data} : boxes'[b] = boxes[b]
         /\ objects[o].data # Null =>
              boxes'[objects[o].data].freedAs = <<boxes[objects[o].data].of>>
<1> DEFINE d == objects[o].data
<1>1. boxes \in Seq([of : Type, freedAs : Seq(Type)])
  BY DEF TypeOK
<1>2. CASE d = Null
  BY <1>1, <1>2 DEF FreedWith, Allocated
<1>3. CASE d # Null
  <2>1. d \in Allocated /\ boxes[d].freedAs = <<>>
    BY <1>3, OwnedBox DEF Freed
  <2>2. objects[o].type = boxes[d].of /\ boxes[d].of \in Type
    BY <1>3, <2>1, BoxTypes DEF HeapInv, DataTyped
  <2>3. objects[o].type # Null
    BY <2>2, DataAssumption
  <2>4. boxes' = [boxes EXCEPT ![d] =
                    [boxes[d] EXCEPT !.freedAs = <<boxes[d].of>>]]
    BY <1>3, <2>1, <2>2, <2>3 DEF FreedWith
  <2>5. [boxes[d] EXCEPT !.freedAs = <<boxes[d].of>>] \in [of : Type, freedAs : Seq(Type)]
    <3>1. <<boxes[d].of>> \in Seq(Type)
      BY <2>2
    <3>2. boxes[d] \in [of : Type, freedAs : Seq(Type)]
      BY <2>1, BoxTypes
    <3> QED
      BY <3>1, <3>2
  <2>6. /\ boxes' \in Seq([of : Type, freedAs : Seq(Type)])
        /\ Len(boxes') = Len(boxes)
    BY <1>1, <2>1, <2>4, <2>5 DEF Allocated
  <2>7. /\ boxes'[d].freedAs = <<boxes[d].of>>
        /\ boxes'[d].of = boxes[d].of
        /\ \A b \in Allocated \ {d} : boxes'[b] = boxes[b]
    BY <2>1, <2>4, BoxTypes
  <2> QED
    BY <2>6, <2>7 DEF Allocated
<1> QED
  BY <1>2, <1>3

(* What a trampoline holds is alive: its box is an orphan, which nothing   *)
(* frees, or the object's, which nothing has freed.                        *)
LEMMA HeldIsKept ==
  ASSUME IInv
  PROVE  HeldIsLive
<1> SUFFICES ASSUME NEW i \in 1..Len(held)
             PROVE  ~Freed(held[i].box)
  BY DEF IInv, HeldKept, HeldIsLive
<1>1. held[i].box \in Allocated
  <2>1. held[i] \in [obj : Obj, box : Allocated, type : Type]
    BY ElementOfSeq DEF IInv, TypeOK
  <2> QED
    BY <2>1
<1>2. CASE held[i].box \in orphans
  BY <1>2 DEF IInv, HeapInv, OrphansKept
<1>3. CASE held[i].obj \in LiveObjects /\ objects[held[i].obj].data = held[i].box
  BY <1>1, <1>3, OwnedBox, BoxTypes DEF IInv
<1> QED
  BY <1>2, <1>3 DEF IInv, HeldKept

-----------------------------------------------------------------------------
LEMMA InitInv == Init => IInv
<1> SUFFICES ASSUME Init PROVE IInv
  OBVIOUS
<1>1. Allocated = {} /\ LiveObjects = {} /\ Len(held) = 0
  BY DEF Init, Allocated, LiveObjects
<1>2. TypeOK
  BY <1>1, DataAssumption DEF Init, TypeOK
<1> QED
  BY <1>1, <1>2 DEF Init, IInv, HeapInv, PhaseInv, DataTyped, OneOwner, FreedAsBoxed,
                    OrphansKept, HeldKept, SpecsOutlive

(* The steps that leave the heap alone.                                    *)
LEMMA HeapUnmoved ==
  ASSUME IInv, UNCHANGED <<objects, boxes, orphans>>
  PROVE  /\ HeapInv'
         /\ LiveObjects' = LiveObjects
         /\ Allocated' = Allocated
         /\ Instances' = Instances
         /\ Len(boxes)' <= MaxBoxes
         /\ orphans' \subseteq Allocated'
         /\ objects' \in [Obj -> Instances' \cup {Null}]
         /\ boxes' \in Seq([of : Type, freedAs : Seq(Type)])
<1>1. LiveObjects' = LiveObjects /\ Allocated' = Allocated /\ Instances' = Instances
  BY DEF LiveObjects, Allocated, Instances, InstancesOver
<1>2. HeapInv'
  BY <1>1 DEF IInv, HeapInv, DataTyped, OneOwner, FreedAsBoxed, OrphansKept, Freed, Owners
<1> QED
  BY <1>1, <1>2 DEF IInv, TypeOK

LEMMA DefineClassInv ==
  ASSUME IInv, NEW T \in Type, DefineClass(T)
  PROVE  IInv'
<1> USE DEF DefineClass
<1>1. Own(T) \in ClassOfData
  BY DEF Own, DataClass, ClassOfData
<1>2. TypeOK'
  BY <1>1, HeapUnmoved DEF IInv, TypeOK
<1>3. PhaseInv' /\ HeldKept' /\ SpecsOutlive'
  BY HeapUnmoved DEF IInv, PhaseInv, HeldKept, SpecsOutlive
<1> QED
  BY <1>2, <1>3, HeapUnmoved DEF IInv

LEMMA StartInv ==
  ASSUME IInv, Start
  PROVE  IInv'
<1> USE DEF Start
<1>1. TypeOK'
  BY HeapUnmoved DEF IInv, TypeOK
<1>2. PhaseInv' /\ HeldKept' /\ SpecsOutlive'
  BY HeapUnmoved DEF IInv, PhaseInv, HeldKept, SpecsOutlive
<1> QED
  BY <1>1, <1>2, HeapUnmoved DEF IInv

LEMMA AssignConstantInv ==
  ASSUME IInv, NEW T \in Type, NEW v \in ClassOfData \cup {Core, Null},
         AssignConstant(T, v)
  PROVE  IInv'
<1> USE DEF AssignConstant
<1>1. TypeOK'
  BY HeapUnmoved DEF IInv, TypeOK
<1>2. PhaseInv' /\ HeldKept' /\ SpecsOutlive'
  BY HeapUnmoved DEF IInv, PhaseInv, HeldKept, SpecsOutlive
<1> QED
  BY <1>1, <1>2, HeapUnmoved DEF IInv

LEMMA UnboxInv ==
  ASSUME IInv, NEW T \in Type, NEW o \in Obj, Unbox(T, o)
  PROVE  IInv'
<1> DEFINE h == [obj |-> o, box |-> objects[o].data, type |-> T]
<1>1. /\ o \in LiveObjects
      /\ objects[o].data \in Allocated
      /\ boxes[objects[o].data].of = T
  BY ObjectTypes DEF IInv, HeapInv, DataTyped, Unbox, CanUnbox, LiveObjects
<1>2. held \in Seq([obj : Obj, box : Allocated, type : Type])
  BY DEF IInv, TypeOK
<1>3. h \in [obj : Obj, box : Allocated, type : Type]
  BY <1>1
<1>4. /\ held' \in Seq([obj : Obj, box : Allocated, type : Type])
      /\ Len(held') = Len(held) + 1
      /\ held'[Len(held) + 1] = h
      /\ \A i \in 1..Len(held) : held'[i] = held[i]
      /\ Len(held) \in Nat
  BY <1>2, <1>3 DEF Unbox
<1>5. Len(held') <= MaxHeld
  BY <1>4, DataAssumption DEF Unbox
<1>6. TypeOK'
  BY <1>4, <1>5, HeapUnmoved DEF IInv, TypeOK, Unbox
<1>7. HeldKept'
  <2> SUFFICES ASSUME NEW i \in 1..Len(held')
               PROVE  /\ boxes[held'[i].box].of = held'[i].type
                      /\ \/ held'[i].box \in orphans
                         \/ /\ held'[i].obj \in LiveObjects
                            /\ objects[held'[i].obj].data = held'[i].box
    BY HeapUnmoved DEF HeldKept, Unbox
  <2>1. CASE i \in 1..Len(held)
    BY <1>4, <2>1 DEF IInv, HeldKept
  <2>2. CASE i = Len(held) + 1
    BY <1>1, <1>4, <2>2
  <2> QED
    BY <1>4, <2>1, <2>2
<1>8. PhaseInv' /\ SpecsOutlive'
  BY HeapUnmoved DEF IInv, PhaseInv, SpecsOutlive, Unbox
<1> QED
  BY <1>6, <1>7, <1>8, HeapUnmoved DEF IInv, Unbox

LEMMA ReturnInv ==
  ASSUME IInv, Return
  PROVE  IInv'
<1>1. held \in Seq([obj : Obj, box : Allocated, type : Type])
  BY DEF IInv, TypeOK
<1>2. /\ held' \in Seq([obj : Obj, box : Allocated, type : Type])
      /\ Len(held') = Len(held) - 1
      /\ \A i \in 1..Len(held') : held'[i] = held[i]
      /\ Len(held) \in Nat
  BY <1>1, WithoutLast DEF Return
<1>3. TypeOK'
  BY <1>2, HeapUnmoved, DataAssumption DEF IInv, TypeOK, Return
<1>4. HeldKept'
  <2>1. \A i \in 1..Len(held') : i \in 1..Len(held) /\ held'[i] = held[i]
    BY <1>2
  <2> QED
    BY <2>1, HeapUnmoved DEF IInv, HeldKept, Return
<1>5. PhaseInv' /\ SpecsOutlive'
  BY HeapUnmoved DEF IInv, PhaseInv, SpecsOutlive, Return
<1> QED
  BY <1>3, <1>4, <1>5, HeapUnmoved DEF IInv, Return

LEMMA CloseInv ==
  ASSUME IInv, Close
  PROVE  IInv'
<1> USE DEF Close
<1>1. TypeOK'
  BY HeapUnmoved DEF IInv, TypeOK
<1>2. PhaseInv' /\ HeldKept' /\ SpecsOutlive'
  BY HeapUnmoved DEF IInv, PhaseInv, HeldKept, SpecsOutlive
<1> QED
  BY <1>1, <1>2, HeapUnmoved DEF IInv

LEMMA DropSpecsInv ==
  ASSUME IInv, DropSpecs
  PROVE  IInv'
<1> USE DEF DropSpecs
<1>1. TypeOK'
  BY HeapUnmoved DEF IInv, TypeOK
<1>2. PhaseInv' /\ HeldKept' /\ SpecsOutlive'
  BY HeapUnmoved DEF IInv, PhaseInv, HeldKept, SpecsOutlive
<1> QED
  BY <1>1, <1>2, HeapUnmoved DEF IInv

-----------------------------------------------------------------------------
(* An object without data in a free slot: Class#allocate and Kernel#dup.   *)
LEMMA NewObjectInv ==
  ASSUME IInv, NEW c \in ClassOfData, NEW o \in Obj, objects[o] = Null,
         phase = "running",
         objects' = [objects EXCEPT ![o] =
           [class |-> c, singleton |-> FALSE, data |-> Null, type |-> Null]],
         UNCHANGED <<phase, registry, constant, boxes, held, orphans>>
  PROVE  IInv'
<1> DEFINE new == [class |-> c, singleton |-> FALSE, data |-> Null, type |-> Null]
<1>1. new # Null
  <2>1. new \in InstancesOver(Nat)
    BY DEF InstancesOver
  <2> QED
    BY <2>1, DataAssumption
<1>2. /\ LiveObjects' = LiveObjects \cup {o}
      /\ o \notin LiveObjects
      /\ objects'[o] = new
      /\ \A p \in LiveObjects : objects'[p] = objects[p]
  BY <1>1 DEF IInv, TypeOK, LiveObjects
<1>3. Allocated' = Allocated /\ Null \notin Allocated
  BY BoxTypes DEF Allocated, IInv
<1>4. \A b \in Allocated : Owners(b)' = Owners(b)
  BY <1>2, <1>3 DEF Owners
<1>5. TypeOK'
  BY <1>3 DEF IInv, TypeOK, Instances, InstancesOver
<1>6. HeapInv'
  <2>1. DataTyped'
    BY <1>2, ObjectTypes DEF IInv, HeapInv, DataTyped
  <2>2. OneOwner'
    BY <1>2, <1>3, <1>4 DEF IInv, HeapInv, OneOwner, Freed
  <2> QED
    BY <1>3, <2>1, <2>2 DEF IInv, HeapInv, FreedAsBoxed, OrphansKept, Freed
<1>7. PhaseInv' /\ HeldKept' /\ SpecsOutlive'
  BY <1>2 DEF IInv, PhaseInv, HeldKept, SpecsOutlive
<1> QED
  BY <1>5, <1>6, <1>7 DEF IInv

LEMMA DupInv ==
  ASSUME IInv, NEW o \in Obj, NEW p \in Obj, Dup(o, p)
  PROVE  IInv'
<1>1. objects[o].class \in ClassOfData
  BY ObjectTypes DEF IInv, Dup, LiveObjects, Instances, InstancesOver
<1> QED
  BY <1>1, NewObjectInv DEF Dup

LEMMA SingletonInv ==
  ASSUME IInv, NEW o \in Obj, DefineSingletonMethod(o)
  PROVE  IInv'
<1> USE DEF DefineSingletonMethod
<1>1. o \in LiveObjects /\ objects[o] \in Instances
  BY ObjectTypes DEF IInv, LiveObjects
<1>2. objects'[o] = [objects[o] EXCEPT !.singleton = TRUE]
  BY <1>1 DEF IInv, TypeOK
<1>3. objects'[o] \in Instances /\ objects'[o] # Null
  BY <1>1, <1>2, InstanceIsNotNull DEF IInv, Instances, InstancesOver
<1>4. /\ LiveObjects' = LiveObjects
      /\ \A p \in LiveObjects : /\ objects'[p].data = objects[p].data
                                /\ objects'[p].type = objects[p].type
  BY <1>1, <1>2, <1>3 DEF IInv, TypeOK, LiveObjects, Instances, InstancesOver
<1>5. Allocated' = Allocated /\ Instances' = Instances
  BY DEF Allocated, Instances, InstancesOver
<1>6. TypeOK'
  BY <1>3, <1>5 DEF IInv, TypeOK
<1>7. \A b \in Allocated : Owners(b)' = Owners(b)
  BY <1>4 DEF Owners
<1>8. HeapInv'
  BY <1>4, <1>5, <1>7 DEF IInv, HeapInv, DataTyped, OneOwner, FreedAsBoxed, OrphansKept,
                          Freed
<1>9. PhaseInv' /\ HeldKept' /\ SpecsOutlive'
  BY <1>4 DEF IInv, PhaseInv, HeldKept, SpecsOutlive
<1> QED
  BY <1>6, <1>8, <1>9 DEF IInv

(* One more value boxed, and put into an object that is new or that        *)
(* forgets the box it had: alloc_value and box_into_value.                 *)
LEMMA BoxedInto ==
  ASSUME IInv, NEW T \in Type, NEW o \in Obj, NEW c \in ClassOfData, NEW s \in BOOLEAN,
         T \in registry, NextBox <= MaxBoxes,
         boxes' = Append(boxes, Boxed(T)),
         objects' = [objects EXCEPT ![o] =
           [class |-> c, singleton |-> s, data |-> NextBox, type |-> T]],
         orphans' = orphans \cup
           (IF objects[o] = Null THEN {} ELSE {objects[o].data} \ {Null}),
         UNCHANGED <<phase, registry, constant, held>>,
         phase \in {"init", "running"}
  PROVE  IInv'
<1>0. PICK n : n = NextBox
  OBVIOUS
<1> DEFINE new == [class |-> c, singleton |-> s, data |-> n, type |-> T]
<1> DEFINE old == IF objects[o] = Null THEN {} ELSE {objects[o].data} \ {Null}
<1>1. /\ Allocated' = Allocated \cup {n}
      /\ n \notin Allocated
      /\ n # Null
      /\ \A b \in Allocated : boxes'[b] = boxes[b]
      /\ boxes'[n] = [of |-> T, freedAs |-> <<>>]
  <2>1. n \in Nat
    BY <1>0, BoxTypes DEF IInv, NextBox
  <2> QED
    BY <1>0, <2>1, BoxTypes, BoxedMore, DataAssumption DEF IInv
<1>2. Instances \subseteq Instances' /\ new \in Instances'
  BY <1>1 DEF Instances, InstancesOver
<1>3. new # Null
  <2>1. new \in InstancesOver(Nat)
    BY <1>0, BoxTypes DEF InstancesOver, IInv, NextBox
  <2> QED
    BY <2>1, DataAssumption
<1>4. /\ LiveObjects' = LiveObjects \cup {o}
      /\ objects'[o] = new
      /\ \A p \in LiveObjects \ {o} : objects'[p] = objects[p]
  BY <1>0, <1>3 DEF IInv, TypeOK, LiveObjects
<1>5. old \subseteq Allocated
  BY ObjectTypes DEF IInv, LiveObjects
<1>6. orphans' = orphans \cup old /\ orphans \subseteq Allocated
  BY DEF IInv, TypeOK
<1>7. TypeOK'
  <2>1. held' \in Seq([obj : Obj, box : Allocated', type : Type])
    <3>1. [obj : Obj, box : Allocated, type : Type]
            \subseteq [obj : Obj, box : Allocated', type : Type]
      BY <1>1
    <3>2. held \in Seq([obj : Obj, box : Allocated, type : Type])
      BY DEF IInv, TypeOK
    <3> HIDE DEF Allocated
    <3> QED
      BY <3>1, <3>2, SeqWithin
  <2>2. objects' \in [Obj -> Instances' \cup {Null}]
    BY <1>0, <1>2 DEF IInv, TypeOK
  <2> QED
    BY <1>1, <1>5, <1>6, <2>1, <2>2, BoxedMore DEF IInv, TypeOK
<1>8. DataTyped'
  <2>1. \A p \in LiveObjects \ {o} : objects[p].data # Null => objects[p].data \in Allocated
    BY ObjectTypes DEF IInv
  <2>2. ASSUME NEW p \in LiveObjects \ {o}
        PROVE  IF objects'[p].data = Null
               THEN objects'[p].type = Null
               ELSE objects'[p].type = boxes'[objects'[p].data].of
    <3>1. objects'[p] = objects[p]
      BY <1>4
    <3>2. CASE objects[p].data = Null
      BY <3>1, <3>2 DEF IInv, HeapInv, DataTyped
    <3>3. CASE objects[p].data # Null
      <4>1. boxes'[objects[p].data] = boxes[objects[p].data]
        BY <1>1, <2>1, <3>3
      <4> QED
        BY <3>1, <3>3, <4>1 DEF IInv, HeapInv, DataTyped
    <3> QED
      BY <3>2, <3>3
  <2>3. /\ objects'[o].data = n /\ n # Null
        /\ objects'[o].type = T /\ boxes'[n].of = T
    BY <1>1, <1>4
  <2> QED
    BY <1>4, <2>2, <2>3 DEF DataTyped
<1>9. OneOwner'
  <2>1. Owners(n)' = {o}
    <3>1. \A p \in LiveObjects \ {o} : objects[p].data # n
      BY <1>1, ObjectTypes DEF IInv
    <3> QED
      BY <1>4, <3>1 DEF Owners
  <2>2. n \notin orphans' /\ ~Freed(n)'
    BY <1>1, <1>5, <1>6 DEF Freed
  <2>3. ASSUME NEW b \in Allocated, b \in old
        PROVE  Owners(b)' = {}
    <3>1. o \in LiveObjects /\ b = objects[o].data /\ b # Null
      BY <2>3 DEF LiveObjects
    <3>2. Owners(b) = {o}
      BY <3>1, OwnedBox DEF IInv
    <3> QED
      BY <1>1, <1>4, <3>2 DEF Owners
  <2>4. ASSUME NEW b \in Allocated, b \notin old
        PROVE  Owners(b)' = Owners(b)
    <3>1. b # n /\ b # Null
      BY <1>1, BoxTypes DEF IInv
    <3>2. o \notin Owners(b)
      BY <2>4, <3>1 DEF Owners, LiveObjects
    <3> QED
      BY <1>4, <3>1, <3>2 DEF Owners
  <2>5. ASSUME NEW b \in Allocated
        PROVE  Freed(b)' = Freed(b)
    BY <1>1 DEF Freed
  <2>6. ASSUME NEW b \in Allocated
        PROVE  IF Freed(b)' \/ b \in orphans'
               THEN Owners(b)' = {}
               ELSE \E p \in LiveObjects' : Owners(b)' = {p}
    BY <1>4, <1>6, <2>3, <2>4, <2>5 DEF IInv, HeapInv, OneOwner
  <2>7. IF Freed(n)' \/ n \in orphans'
        THEN Owners(n)' = {}
        ELSE \E p \in LiveObjects' : Owners(n)' = {p}
    BY <1>4, <2>1, <2>2
  <2>8. \A b \in Allocated' : b \in Allocated \/ b = n
    BY <1>1
  <2> QED
    BY <2>6, <2>7, <2>8 DEF OneOwner
<1>10. FreedAsBoxed'
  <2>1. \A b \in Allocated : boxes'[b].freedAs \in {<<>>, <<boxes'[b].of>>}
    BY <1>1 DEF IInv, HeapInv, FreedAsBoxed
  <2>2. boxes'[n].freedAs \in {<<>>, <<boxes'[n].of>>}
    BY <1>1
  <2> QED
    BY <1>1, <2>1, <2>2 DEF FreedAsBoxed
<1>11. OrphansKept'
  <2>1. \A b \in old : ~Freed(b)
    BY OwnedBox DEF IInv, LiveObjects
  <2> QED
    BY <1>1, <1>5, <1>6, <2>1 DEF IInv, HeapInv, OrphansKept, Freed
<1>12. HeldKept'
  <2> SUFFICES ASSUME NEW i \in 1..Len(held)
               PROVE  /\ boxes'[held[i].box].of = held[i].type
                      /\ \/ held[i].box \in orphans'
                         \/ /\ held[i].obj \in LiveObjects'
                            /\ objects'[held[i].obj].data = held[i].box
    BY DEF HeldKept
  <2>1. held[i].box \in Allocated
    BY HeldTypes DEF IInv
  <2>2. CASE held[i].box \in orphans
    BY <1>1, <1>6, <2>1, <2>2 DEF IInv, HeldKept
  <2>3. CASE /\ held[i].obj \in LiveObjects
             /\ objects[held[i].obj].data = held[i].box
    <3>1. held[i].box # Null
      BY <2>1, BoxTypes DEF IInv
    <3>2. held[i].obj = o => held[i].box \in old
      BY <2>3, <3>1 DEF LiveObjects
    <3> QED
      BY <1>1, <1>4, <1>6, <2>1, <2>3, <3>2 DEF IInv, HeldKept
  <2> QED
    BY <2>2, <2>3 DEF IInv, HeldKept
<1>13. PhaseInv' /\ SpecsOutlive'
  BY <1>4 DEF IInv, PhaseInv, SpecsOutlive
<1> QED
  BY <1>7, <1>8, <1>9, <1>10, <1>11, <1>12, <1>13 DEF IInv, HeapInv

LEMMA AllocValueInv ==
  ASSUME IInv, NEW T \in Type, NEW o \in Obj, AllocValue(T, o)
  PROVE  IInv'
<1>1. CASE constant[T] \in ClassOfData /\ constant[T] # Core
  BY <1>1, BoxedInto DEF AllocValue
<1>2. CASE constant[T] = Core
  <2>0. PICK n : n = NextBox
    OBVIOUS
  <2>1. /\ Allocated' = Allocated \cup {n}
        /\ n \notin Allocated
        /\ \A b \in Allocated : boxes'[b] = boxes[b]
        /\ boxes'[n] = [of |-> T, freedAs |-> <<>>]
        /\ orphans' = orphans \cup {n}
        /\ objects' = objects
        /\ LiveObjects' = LiveObjects
    BY <1>2, <2>0, BoxTypes, BoxedMore DEF IInv, AllocValue, LiveObjects
  <2>2. \A p \in LiveObjects : objects[p].data # Null => objects[p].data \in Allocated
    BY ObjectTypes DEF IInv
  <2>3. TypeOK'
    <3>1. held \in Seq([obj : Obj, box : Allocated, type : Type])
      BY DEF IInv, TypeOK
    <3>2. [obj : Obj, box : Allocated, type : Type]
            \subseteq [obj : Obj, box : Allocated', type : Type]
      BY <2>1
    <3>3. held' \in Seq([obj : Obj, box : Allocated', type : Type])
      BY <3>1, <3>2, SeqWithin DEF AllocValue
    <3>4. Instances \subseteq Instances'
      BY <2>1 DEF Instances, InstancesOver
    <3>5. objects' \in [Obj -> Instances' \cup {Null}]
      BY <2>1, <3>4 DEF IInv, TypeOK
    <3> QED
      BY <2>1, <3>3, <3>5, BoxedMore DEF IInv, TypeOK, AllocValue
  <2>4. \A b \in Allocated : Freed(b)' = Freed(b) /\ Owners(b)' = Owners(b)
    BY <2>1 DEF Freed, Owners
  <2>5. DataTyped'
    BY <2>1, <2>2 DEF IInv, HeapInv, DataTyped
  <2>6. OneOwner'
    <3>1. Owners(n)' = {}
      <4>1. n # Null
        BY <2>0, BoxTypes, DataAssumption DEF IInv, NextBox
      <4>2. \A p \in LiveObjects : objects[p].data # n
        BY <2>1, <2>2, <4>1
      <4> QED
        BY <2>1, <4>2 DEF Owners
    <3>2. ASSUME NEW b \in Allocated
          PROVE  IF Freed(b)' \/ b \in orphans'
                 THEN Owners(b)' = {}
                 ELSE \E p \in LiveObjects' : Owners(b)' = {p}
      BY <2>1, <2>4 DEF IInv, HeapInv, OneOwner
    <3>3. \A b \in Allocated' : b \in Allocated \/ (b = n /\ b \in orphans')
      BY <2>1
    <3> QED
      BY <3>1, <3>2, <3>3 DEF OneOwner
  <2>7. FreedAsBoxed'
    BY <2>1 DEF IInv, HeapInv, FreedAsBoxed
  <2>8. OrphansKept'
    BY <2>1 DEF IInv, TypeOK, HeapInv, OrphansKept, Freed
  <2>9. HeldKept'
    BY <2>1, HeldTypes DEF IInv, HeldKept, AllocValue
  <2>10. PhaseInv' /\ SpecsOutlive'
    BY <2>1 DEF IInv, PhaseInv, SpecsOutlive, AllocValue
  <2> QED
    BY <2>3, <2>5, <2>6, <2>7, <2>8, <2>9, <2>10 DEF IInv, HeapInv
<1> QED
  BY <1>1, <1>2 DEF AllocValue, Resolved

LEMMA InitializeInv ==
  ASSUME IInv, NEW T \in Type, NEW o \in Obj, Initialize(T, o)
  PROVE  IInv'
<1>1. objects[o] \in Instances
  BY ObjectTypes DEF IInv, LiveObjects, Initialize
<1>2. objects[o].class \in ClassOfData /\ objects[o].singleton \in BOOLEAN
  BY <1>1 DEF Instances, InstancesOver
<1>3. [objects[o] EXCEPT !.data = NextBox, !.type = T] =
        [class |-> objects[o].class, singleton |-> objects[o].singleton,
         data |-> NextBox, type |-> T]
  <2>1. objects[o] \in [class : ClassOfData, singleton : BOOLEAN,
                         data : Allocated \cup {Null}, type : Type \cup {Null}]
    BY <1>1 DEF Instances, InstancesOver
  <2> DEFINE r == objects[o]
  <2>2. r \in [class : ClassOfData, singleton : BOOLEAN,
               data : Allocated \cup {Null}, type : Type \cup {Null}]
    BY <2>1
  <2> HIDE DEF r
  <2>3. r = [class |-> r.class, singleton |-> r.singleton,
             data |-> r.data, type |-> r.type]
    BY <2>2
  <2>4. PICK q : q = [class |-> r.class, singleton |-> r.singleton,
                      data |-> NextBox, type |-> r.type]
    OBVIOUS
  <2>5. [r EXCEPT !.data = NextBox] = q
    BY <2>3, <2>4
  <2>6. [q EXCEPT !.type = T] = [class |-> r.class, singleton |-> r.singleton,
                                 data |-> NextBox, type |-> T]
    BY <2>4
  <2> QED
    BY <2>5, <2>6 DEF r
<1>4. objects' = [objects EXCEPT ![o] =
        [class |-> objects[o].class, singleton |-> objects[o].singleton,
         data |-> NextBox, type |-> T]]
  BY <1>3 DEF Initialize, IInv, TypeOK
<1>5. T \in registry
  BY DEF IInv, PhaseInv, Initialize
<1> QED
  BY <1>2, <1>4, <1>5, BoxedInto DEF Initialize

(* An object that no trampoline holds is freed with its data.              *)
LEMMA FreeInv ==
  ASSUME IInv, NEW o \in Obj, objects[o] # Null,
         \A i \in 1..Len(held) : held[i].obj # o,
         phase # "closed",
         boxes' = FreedWith(objects[o]),
         objects' = [objects EXCEPT ![o] = Null],
         UNCHANGED <<phase, registry, constant, held, orphans>>
  PROVE  IInv'
<1> DEFINE d == objects[o].data
<1>1. o \in LiveObjects
  BY DEF LiveObjects
<1>2. /\ LiveObjects' = LiveObjects \ {o}
      /\ \A p \in LiveObjects \ {o} : objects'[p] = objects[p]
  BY DEF IInv, TypeOK, LiveObjects
<1>3. /\ boxes' \in Seq([of : Type, freedAs : Seq(Type)])
      /\ Len(boxes)' = Len(boxes)
      /\ Allocated' = Allocated
      /\ \A b \in Allocated : boxes'[b].of = boxes[b].of
      /\ \A b \in Allocated \ {d} : boxes'[b] = boxes[b]
      /\ d # Null => boxes'[d].freedAs = <<boxes[d].of>>
  BY <1>1, FreedOne DEF IInv
<1>4. Instances' = Instances
  BY <1>3 DEF Instances, InstancesOver
<1>5. d # Null => /\ d \in Allocated /\ ~Freed(d) /\ d \notin orphans
                  /\ Owners(d) = {o}
  BY <1>1, OwnedBox DEF IInv
<1>6. TypeOK'
  BY <1>3, <1>4 DEF IInv, TypeOK
<1>7. ASSUME NEW p \in LiveObjects \ {o}, objects[p].data # Null
      PROVE  objects[p].data \in Allocated \ {d}
  <2>1. objects[p].data \in Allocated /\ Owners(objects[p].data) = {p}
    BY <1>7, OwnedBox DEF IInv
  <2> QED
    BY <1>5, <1>7, <2>1
<1>8. DataTyped'
  <2>1. ASSUME NEW p \in LiveObjects \ {o}
        PROVE  IF objects'[p].data = Null
               THEN objects'[p].type = Null
               ELSE objects'[p].type = boxes'[objects'[p].data].of
    BY <1>2, <1>3, <1>7, <2>1 DEF IInv, HeapInv, DataTyped
  <2> QED
    BY <1>2, <2>1 DEF DataTyped
<1>9. OneOwner'
  <2>1. ASSUME NEW b \in Allocated
        PROVE  IF Freed(b)' \/ b \in orphans'
               THEN Owners(b)' = {}
               ELSE \E p \in LiveObjects' : Owners(b)' = {p}
    <3>1. CASE b = d
      <4>1. Owners(b)' = {}
        BY <1>2, <1>5, <3>1, BoxTypes DEF IInv, Owners
      <4>2. Freed(b)'
        <5>1. b # Null
          BY BoxTypes DEF IInv
        <5>2. boxes'[b].freedAs = <<boxes[b].of>>
          BY <1>3, <3>1, <5>1
        <5> QED
          BY <5>2 DEF Freed
      <4> QED
        BY <4>1, <4>2
    <3>2. CASE b # d
      <4>1. o \notin Owners(b)
        BY <3>2 DEF Owners
      <4>2. Owners(b)' = Owners(b)
        BY <1>2, <4>1 DEF Owners
      <4>3. Freed(b)' = Freed(b)
        BY <1>3, <3>2 DEF Freed
      <4>4. \A p : Owners(b) = {p} => p \in LiveObjects'
        BY <1>2, <4>1 DEF Owners
      <4> QED
        BY <4>2, <4>3, <4>4 DEF IInv, HeapInv, OneOwner
    <3> QED
      BY <3>1, <3>2
  <2> QED
    BY <1>3, <2>1 DEF OneOwner
<1>10. FreedAsBoxed'
  <2>1. ASSUME NEW b \in Allocated
        PROVE  boxes'[b].freedAs \in {<<>>, <<boxes'[b].of>>}
    <3>1. CASE b = d
      BY <1>3, <3>1, BoxTypes DEF IInv
    <3>2. CASE b # d
      BY <1>3, <3>2 DEF IInv, HeapInv, FreedAsBoxed
    <3> QED
      BY <3>1, <3>2
  <2> QED
    BY <1>3, <2>1 DEF FreedAsBoxed
<1>11. OrphansKept'
  <2>1. \A b \in orphans : b \in Allocated \ {d}
    BY <1>5, BoxTypes DEF IInv, TypeOK
  <2> QED
    BY <1>3, <2>1 DEF IInv, HeapInv, OrphansKept, Freed
<1>12. HeldKept'
  BY <1>2, <1>3, HeldTypes DEF IInv, HeldKept
<1>13. PhaseInv' /\ SpecsOutlive'
  BY <1>2 DEF IInv, PhaseInv, SpecsOutlive
<1> QED
  BY <1>6, <1>8, <1>9, <1>10, <1>11, <1>12, <1>13 DEF IInv, HeapInv

LEMMA CollectInv ==
  ASSUME IInv, NEW o \in Obj, Collect(o)
  PROVE  IInv'
  BY FreeInv DEF Collect, Rooted

LEMMA CloseFreeInv ==
  ASSUME IInv, NEW o \in Obj, CloseFree(o)
  PROVE  IInv'
<1>1. Len(held) = 0
  BY EmptySeq DEF IInv, PhaseInv, CloseFree
<1>2. \A i \in 1..Len(held) : held[i].obj # o
  BY <1>1
<1> QED
  BY <1>2, FreeInv DEF CloseFree

LEMMA NextInv ==
  ASSUME IInv, [Next]_vars
  PROVE  IInv'
<1>1. ASSUME NEW T \in Type, DefineClass(T) PROVE IInv'
  BY <1>1, DefineClassInv
<1>2. CASE Start
  BY <1>2, StartInv
<1>3. ASSUME NEW c \in DataClass, NEW o \in Obj, Allocate(c, o) PROVE IInv'
  BY <1>3, NewObjectInv DEF Allocate, ClassOfData
<1>4. ASSUME NEW o \in Obj, NEW p \in Obj, Dup(o, p) PROVE IInv'
  BY <1>4, DupInv
<1>5. ASSUME NEW o \in Obj, DefineSingletonMethod(o) PROVE IInv'
  BY <1>5, SingletonInv
<1>6. ASSUME NEW T \in Type, NEW v \in ClassOfData \cup {Core, Null},
             AssignConstant(T, v)
      PROVE  IInv'
  BY <1>6, AssignConstantInv
<1>7. ASSUME NEW T \in Type, NEW o \in Obj, Unbox(T, o) PROVE IInv'
  BY <1>7, UnboxInv
<1>8. CASE Return
  BY <1>8, ReturnInv
<1>9. ASSUME NEW T \in Type, NEW o \in Obj, AllocValue(T, o) PROVE IInv'
  BY <1>9, AllocValueInv
<1>10. ASSUME NEW T \in Type, NEW o \in Obj, Initialize(T, o) PROVE IInv'
  BY <1>10, InitializeInv
<1>11. ASSUME NEW o \in Obj, Collect(o) PROVE IInv'
  BY <1>11, CollectInv
<1>12. CASE Close
  BY <1>12, CloseInv
<1>13. ASSUME NEW o \in Obj, CloseFree(o) PROVE IInv'
  BY <1>13, CloseFreeInv
<1>14. CASE DropSpecs
  BY <1>14, DropSpecsInv
<1>15. CASE UNCHANGED vars
  BY <1>15, HeapUnmoved DEF IInv, TypeOK, PhaseInv, HeldKept, SpecsOutlive, vars
<1> QED
  BY <1>1, <1>2, <1>3, <1>4, <1>5, <1>6, <1>7, <1>8, <1>9, <1>10, <1>11, <1>12, <1>13,
     <1>14, <1>15 DEF Next, Closing

-----------------------------------------------------------------------------
LEMMA Invariance == Spec => []IInv
  BY InitInv, NextInv, PTL DEF Spec

(* Objects, boxes and held values have their types in every run.           *)
THEOREM HeapTypes == Spec => []TypeOK
  BY Invariance, PTL DEF IInv

(* The heap never owns a Rust value twice, whatever is duplicated,         *)
(* initialized again or allocated through a reassigned constant.           *)
THEOREM OwnedOnce == Spec => []OneOwner
  BY Invariance, PTL DEF IInv, HeapInv

(* No Rust value is freed twice, or through the free function of another   *)
(* type.                                                                   *)
THEOREM FreedOnce == Spec => []FreedAsBoxed
  BY Invariance, PTL DEF IInv, HeapInv

(* The value that a trampoline unboxed is alive until it returns.          *)
THEOREM HeldAlive == Spec => []HeldIsLive
  BY Invariance, HeldIsKept, PTL

(* The free functions are there for as long as the objects.                *)
THEOREM SpecsOutliveHeap == Spec => []SpecsOutlive
  BY Invariance, PTL DEF IInv

(* When close has ended, what is not freed is what was forgotten before:   *)
(* the part of CloseFreesAll that is not about its ending.                 *)
THEOREM NothingLeft ==
  Spec => [](phase = "closed" => \A b \in Allocated : Freed(b) <=> b \notin orphans)
<1>1. IInv => (phase = "closed" => \A b \in Allocated : Freed(b) <=> b \notin orphans)
  BY DEF IInv, PhaseInv, HeapInv, OneOwner, OrphansKept, Owners
<1> QED
  BY <1>1, Invariance, PTL
=============================================================================

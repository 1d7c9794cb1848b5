----------------------------- MODULE DataObjects -----------------------------
(***************************************************************************)
(* Ruby objects that own a Rust value: the boxing of values in             *)
(* convert/boxing.rs, the class registry that keeps their free functions   *)
(* alive (class/registry.rs, class.rs) and the closing of an interpreter   *)
(* (artichoke.rs).                                                         *)
(*                                                                         *)
(* An object is a C struct with a class, a data pointer and a pointer to   *)
(* the mrb_data_type of a Spec.  mruby frees the data through the free     *)
(* function of that type.  Ruby code may define singleton methods, assign  *)
(* class constants, call initialize again, and run while a trampoline      *)
(* holds the unboxed value.                                                *)
(***************************************************************************)
EXTENDS Naturals, Sequences

CONSTANTS
  Type,          \* the Rust types with a Spec (Rng, Regexp, Time, ...)
  OnceOnly,      \* those whose #initialize unboxes the receiver first (Regexp)
  Obj,           \* the object slots of the mruby heap
  Plain,         \* a class that Ruby code made with Class.new
  Core,          \* a class whose instances are tagged as something else (String)
  Null,
  MaxBoxes,      \* bound: how many Rust values are boxed
  MaxHeld        \* bound: how deep trampolines nest

\* The classes: the one Builder::define makes for a type and a subclass of it.
\* Both have instances tagged MRB_TT_DATA.  Plain has no tag for its instances,
\* so mruby allocates what it is asked for.
DataClass == [of : Type, sub : BOOLEAN]
Own(T) == [of |-> T, sub |-> FALSE]
ClassOfData == DataClass \cup {Plain}

\* The instances whose data is one of a set of addresses, or NULL.
InstancesOver(addresses) ==
  [class : ClassOfData, singleton : BOOLEAN,
   data : addresses \cup {Null}, type : Type \cup {Null}]

ASSUME DataAssumption ==
  /\ OnceOnly \subseteq Type
  /\ MaxBoxes \in Nat
  /\ MaxHeld \in Nat
  /\ Null \notin Type \cup Nat \cup ClassOfData
  /\ Core \notin ClassOfData \cup {Null}
  /\ Null \notin InstancesOver(Nat)

VARIABLES
  phase,      \* "init", "running", then the steps of Artichoke::close
  registry,   \* the types whose Spec is in State::classes
  constant,   \* the class that each Spec's constant names; Null: none, or no class
  objects,    \* the mruby heap
  boxes,      \* the Rust values boxed so far, and the types they were freed as
  held,       \* the unboxed values that trampolines hold, innermost last
  orphans     \* history: the boxes no object owns that nothing will free

vars == <<phase, registry, constant, objects, boxes, held, orphans>>

-----------------------------------------------------------------------------
\* rclass.resolve(mrb) returned a class.
Resolved(T) == constant[T] \in ClassOfData \cup {Core}

LiveObjects == {o \in Obj : objects[o] # Null}
Allocated == 1..Len(boxes)

Instances == InstancesOver(Allocated)
Freed(b) == boxes[b].freedAs # <<>>
Owners(b) == {o \in LiveObjects : objects[o].data = b}

\* Box::into_raw(Box::new(value)): the box after the ones there are.
NextBox == Len(boxes) + 1
Boxed(T) == [of |-> T, freedAs |-> <<>>]

\* RData::type->dfree(mrb, data), called for an object with a type: it frees the
\* box, as the type that the mrb_data_type is of; a NULL pointer is left alone.
FreedWith(obj) ==
  IF obj.type = Null \/ obj.data = Null
  THEN boxes
  ELSE [boxes EXCEPT ![obj.data].freedAs = Append(@, obj.type)]

-----------------------------------------------------------------------------
Init ==
  /\ phase = "init"
  /\ registry = {}
  /\ constant = [T \in Type |-> Null]
  /\ objects = [o \in Obj |-> Null]
  /\ boxes = <<>>
  /\ held = <<>>
  /\ orphans = {}

\* extn::init for one class: Builder::define, then def_class, then, for some
\* classes, alloc_value of an instance for a constant (AllocValue).  A class
\* that is in the registry is skipped by is_class_defined.
DefineClass(T) ==
  /\ phase = "init"
  /\ T \notin registry
  /\ constant' = [constant EXCEPT ![T] = IF @ = Null THEN Own(T) ELSE @]
  /\ registry' = registry \cup {T}
  /\ UNCHANGED <<phase, objects, boxes, held, orphans>>

\* The end of interpreter_with_config: the garbage collector is enabled.
Start ==
  /\ phase = "init"
  /\ registry = Type
  /\ phase' = "running"
  /\ UNCHANGED <<registry, constant, objects, boxes, held, orphans>>

-----------------------------------------------------------------------------
\* What Ruby code does.

\* Class#allocate, and Class#new before it calls initialize.
Allocate(c, o) ==
  /\ phase = "running"
  /\ objects[o] = Null
  /\ objects' = [objects EXCEPT ![o] =
       [class |-> c, singleton |-> FALSE, data |-> Null, type |-> Null]]
  /\ UNCHANGED <<phase, registry, constant, boxes, held, orphans>>

\* mutant of Dup: a copy with the parts of the original.
DupWithData(o, p) ==
  /\ phase = "running"
  /\ objects[o] # Null
  /\ objects[p] = Null
  /\ objects' = [objects EXCEPT ![p] = [objects[o] EXCEPT !.singleton = FALSE]]
  /\ UNCHANGED <<phase, registry, constant, boxes, held, orphans>>

\* Kernel#dup: a new object of the same class; neither the singleton class nor
\* the data is copied.
Dup(o, p) ==
  /\ phase = "running"
  /\ objects[o] # Null
  /\ objects[p] = Null
  /\ objects' = [objects EXCEPT ![p] =
       [class |-> objects[o].class, singleton |-> FALSE,
        data |-> Null, type |-> Null]]
  /\ UNCHANGED <<phase, registry, constant, boxes, held, orphans>>

DefineSingletonMethod(o) ==
  /\ phase = "running"
  /\ objects[o] # Null
  /\ ~objects[o].singleton
  /\ objects' = [objects EXCEPT ![o].singleton = TRUE]
  /\ UNCHANGED <<phase, registry, constant, boxes, held, orphans>>

\* Random = ...; Object.send(:remove_const, :Random).
AssignConstant(T, v) ==
  /\ phase = "running"
  /\ constant[T] # v
  /\ constant' = [constant EXCEPT ![T] = v]
  /\ UNCHANGED <<phase, registry, objects, boxes, held, orphans>>

-----------------------------------------------------------------------------
\* BoxUnboxVmValue.

\* mutant of CanUnbox: without the comparison of the data types.
CanUnboxByClass(T, o) ==
  /\ T \in registry
  /\ Resolved(T)
  /\ ~objects[o].singleton
  /\ objects[o].class = constant[T]
  /\ objects[o].data # Null

\* unbox_from_value succeeds: the Spec is registered, its constant names a
\* class, that class and no singleton class is the object's class, and
\* mrb_data_check_get_ptr finds the type and a pointer.  It fails with an error,
\* or raises from mrb_class_get, before it has changed anything.
CanUnbox(T, o) ==
  /\ T \in registry
  /\ Resolved(T)
  /\ ~objects[o].singleton
  /\ objects[o].class = constant[T]
  /\ objects[o].type = T
  /\ objects[o].data # Null

\* A trampoline unboxes a value, and holds it while Ruby code runs: for a
\* conversion of an argument, or for a block.
Unbox(T, o) ==
  /\ phase = "running"
  /\ Len(held) < MaxHeld
  /\ objects[o] # Null
  /\ CanUnbox(T, o)
  /\ held' = Append(held, [obj |-> o, box |-> objects[o].data, type |-> T])
  /\ UNCHANGED <<phase, registry, constant, objects, boxes, orphans>>

\* The trampoline returns or raises: UnboxedValueGuard forgets the Box.
Return ==
  /\ held # <<>>
  /\ held' = SubSeq(held, 1, Len(held) - 1)
  /\ UNCHANGED <<phase, registry, constant, objects, boxes, orphans>>

\* mutant of AllocValue: the type is taken from the class, not from the Spec.
AllocWithClassType(T, o) ==
  /\ phase \in {"init", "running"}
  /\ T \in registry
  /\ objects[o] = Null
  /\ NextBox <= MaxBoxes
  /\ constant[T] \in DataClass
  /\ boxes' = Append(boxes, Boxed(T))
  /\ objects' = [objects EXCEPT ![o] =
       [class |-> constant[T], singleton |-> FALSE,
        data |-> NextBox, type |-> constant[T].of]]
  /\ UNCHANGED <<phase, registry, constant, held, orphans>>

\* alloc_value: the value is boxed, then the object is allocated in the class
\* the constant names now.  mruby refuses to allocate data in a class whose
\* instances are tagged otherwise: it raises, across the frame that has the
\* pointer.
AllocValue(T, o) ==
  /\ phase \in {"init", "running"}
  /\ T \in registry
  /\ objects[o] = Null
  /\ NextBox <= MaxBoxes
  /\ Resolved(T)
  /\ boxes' = Append(boxes, Boxed(T))
  /\ IF constant[T] = Core
     THEN /\ orphans' = orphans \cup {NextBox}
          /\ objects' = objects
     ELSE /\ objects' = [objects EXCEPT ![o] =
               [class |-> constant[T], singleton |-> FALSE,
                data |-> NextBox, type |-> T]]
          /\ orphans' = orphans
  /\ UNCHANGED <<phase, registry, constant, held>>

\* mutant of Initialize: mrb_sys_data_init frees what it overwrites.
InitializeFreeing(T, o) ==
  /\ phase = "running"
  /\ objects[o] # Null
  /\ objects[o].class \in DataClass /\ objects[o].class.of = T
  /\ ~(T \in OnceOnly /\ CanUnbox(T, o))
  /\ NextBox <= MaxBoxes
  /\ boxes' = Append(FreedWith(objects[o]), Boxed(T))
  /\ objects' = [objects EXCEPT ![o].data = NextBox, ![o].type = T]
  /\ UNCHANGED <<phase, registry, constant, held, orphans>>

\* #initialize (or Time#initialize_copy) of a type on an object of its class or
\* a subclass: box_into_value points the object at a new box and the Spec's
\* type, and forgets the old pointer.  Regexp#initialize refuses an object it
\* can unbox.
Initialize(T, o) ==
  /\ phase = "running"
  /\ objects[o] # Null
  /\ objects[o].class \in DataClass /\ objects[o].class.of = T
  /\ ~(T \in OnceOnly /\ CanUnbox(T, o))
  /\ NextBox <= MaxBoxes
  /\ boxes' = Append(boxes, Boxed(T))
  /\ objects' = [objects EXCEPT ![o].data = NextBox, ![o].type = T]
  /\ orphans' = orphans \cup ({objects[o].data} \ {Null})
  /\ UNCHANGED <<phase, registry, constant, held>>

-----------------------------------------------------------------------------
\* The garbage collector frees an object that Ruby code no longer reaches.  The
\* receiver and the arguments of a trampoline are on the VM stack.
Rooted == {held[i].obj : i \in 1..Len(held)}

\* mutant of Collect: the stack is not scanned.
CollectAnything(o) ==
  /\ phase = "running"
  /\ objects[o] # Null
  /\ boxes' = FreedWith(objects[o])
  /\ objects' = [objects EXCEPT ![o] = Null]
  /\ UNCHANGED <<phase, registry, constant, held, orphans>>

Collect(o) ==
  /\ phase = "running"
  /\ objects[o] # Null
  /\ o \notin Rooted
  /\ boxes' = FreedWith(objects[o])
  /\ objects' = [objects EXCEPT ![o] = Null]
  /\ UNCHANGED <<phase, registry, constant, held, orphans>>

-----------------------------------------------------------------------------
\* Artichoke::close.

\* mutant of Close: the specs are dropped with the rest of the state.
CloseDropping ==
  /\ phase = "running"
  /\ held = <<>>
  /\ phase' = "closing"
  /\ registry' = {}
  /\ UNCHANGED <<constant, objects, boxes, held, orphans>>

\* State is taken apart; classes and modules are kept.
Close ==
  /\ phase = "running"
  /\ held = <<>>
  /\ phase' = "closing"
  /\ UNCHANGED <<registry, constant, objects, boxes, held, orphans>>

\* mutant of CloseFree: the heap page is freed without its objects' data.
CloseForget(o) ==
  /\ phase = "closing"
  /\ objects[o] # Null
  /\ objects' = [objects EXCEPT ![o] = Null]
  /\ UNCHANGED <<phase, registry, constant, boxes, held, orphans>>

\* mrb_close frees every object.
CloseFree(o) ==
  /\ phase = "closing"
  /\ objects[o] # Null
  /\ boxes' = FreedWith(objects[o])
  /\ objects' = [objects EXCEPT ![o] = Null]
  /\ UNCHANGED <<phase, registry, constant, held, orphans>>

\* mrb_close has returned; drop(classes).
DropSpecs ==
  /\ phase = "closing"
  /\ LiveObjects = {}
  /\ phase' = "closed"
  /\ registry' = {}
  /\ UNCHANGED <<constant, objects, boxes, held, orphans>>

-----------------------------------------------------------------------------
Closing == (\E o \in Obj : CloseFree(o)) \/ DropSpecs

Next ==
  \/ \E T \in Type : DefineClass(T)
  \/ Start
  \/ \E c \in DataClass, o \in Obj : Allocate(c, o)
  \/ \E o, p \in Obj : Dup(o, p)
  \/ \E o \in Obj : DefineSingletonMethod(o)
  \/ \E T \in Type, v \in ClassOfData \cup {Core, Null} :
       AssignConstant(T, v)
  \/ \E T \in Type, o \in Obj : Unbox(T, o)
  \/ Return
  \/ \E T \in Type, o \in Obj : AllocValue(T, o)
  \/ \E T \in Type, o \in Obj : Initialize(T, o)
  \/ \E o \in Obj : Collect(o)
  \/ Close
  \/ Closing

\* close is one Rust function that calls no Ruby code: nothing but the end of
\* the process keeps it from running on.
Spec == Init /\ [][Next]_vars /\ WF_vars(Closing)

-----------------------------------------------------------------------------
(* Properties *)

\* The types of the variables.
TypeOK ==
  /\ phase \in {"init", "running", "closing", "closed"}
  /\ registry \subseteq Type
  /\ constant \in [Type -> ClassOfData \cup {Core, Null}]
  /\ objects \in [Obj -> Instances \cup {Null}]
  /\ boxes \in Seq([of : Type, freedAs : Seq(Type)])
  /\ Len(boxes) <= MaxBoxes
  /\ held \in Seq([obj : Obj, box : Allocated, type : Type])
  /\ Len(held) <= MaxHeld
  /\ orphans \subseteq Allocated

\* A box that is not an orphan and not freed is owned by exactly one object, and
\* no object points at a box that is freed or that another object owns: the heap
\* never frees a Rust value twice and never leaves one behind unnoticed, however
\* often objects are duplicated and initialized (boxing.rs, box_into_value).
OneOwner ==
  \A b \in Allocated :
    IF Freed(b) \/ b \in orphans
    THEN Owners(b) = {}
    ELSE \E o \in LiveObjects : Owners(b) = {o}

\* Each Rust value is freed at most once, and as the type it was boxed as, even
\* when the constant of its class names the class of another type when it is
\* allocated (alloc_value passes the Spec's data_type).
FreedAsBoxed ==
  \A b \in Allocated : boxes[b].freedAs \in {<<>>, <<boxes[b].of>>}

\* What a trampoline holds is a live Rust value of the type it unboxed, whatever
\* the Ruby code it calls does: initialize the same object again, define a
\* singleton method, assign constants, or drop every reference to the object.
HeldIsLive ==
  \A i \in 1..Len(held) :
    /\ boxes[held[i].box].of = held[i].type
    /\ ~Freed(held[i].box)

\* The Spec that a live object's type points into is in the registry, until
\* mrb_close has freed the object (artichoke.rs: classes must be live
\* allocations before mrb_close resolves the free functions).
SpecsOutlive ==
  \A o \in LiveObjects : objects[o].type \in registry \cup {Null}

\* Once close has begun, it ends, and every Rust value that was ever boxed has
\* been freed, except those that box_into_value or a refused allocation have
\* made orphans before.
CloseFreesAll ==
  (phase = "closing") ~>
    (phase = "closed" /\ \A b \in Allocated : Freed(b) <=> b \notin orphans)
=============================================================================

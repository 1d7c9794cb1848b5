---------------------------- MODULE BoxedArrayProofs ----------------------------
(***************************************************************************)
(* Theorems about boxed arrays, for any number of arrays and addresses,    *)
(* any largest capacity and any depth of calls, as long as Ruby code that  *)
(* a call runs leaves the receiver alone (TouchHeld). The parts that a     *)
(* call holds are those its receiver still has, which is what makes        *)
(* packing them again sound; what the calls do is then what RubyArray      *)
(* says of arrays that have elements and no buffers.                       *)
(***************************************************************************)
EXTENDS BoxedArray, SequenceTheorems, TLAPS

(***************************************************************************)
(* The inductive invariant.                                                *)
(***************************************************************************)

Block == {NoBlock} \cup
         {b \in [capa : 1..MaxCapacity, cells : Cells] : Len(b.cells) <= b.capa}
Parts == [ptr : Addr \cup {Null, Dangling}, len : Length, capa : Length]
Call == [op : Holds \cup {"init", "result"}, of : Ary \cup {Null},
         parts : Parts, got : Cells]

TypeOK ==
    /\ memory \in [Addr -> Block]
    /\ array \in [Ary -> Parts]
    /\ calls \in Seq(Call)
    /\ leaked \subseteq Addr

(* What belongs to an array or was left behind is allocated.               *)
Allocated ==
    /\ \A s \in Boxed : array[s].ptr \in Addr => memory[array[s].ptr] # NoBlock
    /\ \A a \in leaked : memory[a] # NoBlock

(* The heap, without the calls in progress.                                *)
Heap ==
    /\ memory \in [Addr -> Block]
    /\ array \in [Ary -> Parts]
    /\ leaked \subseteq Addr
    /\ PartsDescribeBuffer
    /\ OneOwner
    /\ Allocated

Starts(b, g) == Len(b) <= Len(g) /\ \A k \in 1..Len(b) : g[k] = b[k]

(* A call in progress keeps its receiver alive. If it holds parts they are *)
(* the receiver's, and concat has gathered the receiver's elements first.  *)
Frame(c) ==
    /\ c.op # "result" => c.of \in Boxed
    /\ c.op \in Holds => c.parts = array[c.of]
    /\ c.op = "concat" => Starts(Contents(memory, c.parts), c.got)

(* Calls in progress; only the last may be about to return.                *)
Frames(cs) ==
    /\ cs \in Seq(Call)
    /\ \A i \in 1..Len(cs) : Frame(cs[i])
    /\ \A i \in 1..Len(cs) : cs[i].op = "result" => i = Len(cs)

IInv == Heap /\ Frames(calls)

-----------------------------------------------------------------------------

(* Cells are sequences of values, up to the largest capacity.              *)
LEMMA CellsAreSequences ==
    /\ \A c \in Cells : c \in Seq(Value) /\ Len(c) \in Length
    /\ \A c \in Seq(Value) : Len(c) <= MaxCapacity => c \in Cells
    /\ \A c \in Seq(Value) : Len(c) <= MaxCapacity =>
          \E n \in Length : c \in [1..n -> Value]
<1>1. ASSUME NEW c \in Cells PROVE c \in Seq(Value) /\ Len(c) \in Length
  <2>1. PICK n \in Length : c \in [1..n -> Value]
    BY DEF Cells
  <2> QED
    BY <2>1, BoundsAreNatural DEF Length
<1>2. ASSUME NEW c \in Seq(Value), Len(c) <= MaxCapacity
      PROVE  Len(c) \in Length /\ c \in [1..Len(c) -> Value]
  BY <1>2, BoundsAreNatural, LenProperties DEF Length
<1> QED
  BY <1>1, <1>2 DEF Cells

LEMMA NothingIsCells == <<>> \in Cells /\ Len(<<>>) = 0 /\ 0 \in Length
<1>1. 0 \in Length /\ <<>> \in Seq(Value) /\ Len(<<>>) = 0 /\ 0 <= MaxCapacity
  BY BoundsAreNatural DEF Length
<1> QED
  BY <1>1, CellsAreSequences

LEMMA BlockTypes ==
    /\ NoBlock \in Block /\ NoBlock.capa = 0 /\ NoBlock.cells = <<>>
    /\ \A b \in Block : /\ b.cells \in Cells /\ Len(b.cells) \in Nat
                        /\ b.capa \in Nat /\ Len(b.cells) <= b.capa
                        /\ b # NoBlock => b.capa > 0
    /\ \A n \in Length, c \in Cells : n > 0 /\ Len(c) <= n =>
          [capa |-> n, cells |-> c] \in Block /\ [capa |-> n, cells |-> c] # NoBlock
<1>1. NoBlock \in Block /\ NoBlock.capa = 0 /\ NoBlock.cells = <<>>
  BY DEF NoBlock, Block
<1>2. ASSUME NEW b \in Block
      PROVE  /\ b.cells \in Cells /\ Len(b.cells) \in Nat
             /\ b.capa \in Nat /\ Len(b.cells) <= b.capa
             /\ b # NoBlock => b.capa > 0
  <2>1. CASE b = NoBlock
    BY <1>1, <2>1, NothingIsCells
  <2>2. CASE b \in [capa : 1..MaxCapacity, cells : Cells] /\ Len(b.cells) <= b.capa
    BY <2>2, CellsAreSequences, BoundsAreNatural DEF Length
  <2> QED
    BY <2>1, <2>2 DEF Block
<1>3. ASSUME NEW n \in Length, NEW c \in Cells, n > 0, Len(c) <= n
      PROVE  [capa |-> n, cells |-> c] \in Block /\ [capa |-> n, cells |-> c] # NoBlock
  BY <1>3, BoundsAreNatural DEF Block, Length, NoBlock
<1> QED
  BY <1>1, <1>2, <1>3

LEMMA PartsTypes ==
    /\ NoParts \in Parts /\ EmptyParts \in Parts
    /\ \A n \in Length, l \in Length, a \in Addr \cup {Dangling} :
          [ptr |-> a, len |-> l, capa |-> n] \in Parts
  BY NothingIsCells DEF NoParts, EmptyParts, Parts

(* What the invariant says of one array.                                   *)
LEMMA ArrayTypes ==
    ASSUME Heap, NEW s \in Boxed
    PROVE  /\ s \in Ary /\ array[s] \in Parts
           /\ array[s].ptr \in Addr \cup {Dangling}
           /\ array[s].len \in Length /\ array[s].capa \in Length
           /\ Own(s) \in Cells /\ Own(s) \in Seq(Value) /\ Len(Own(s)) = array[s].len
           /\ array[s].len <= array[s].capa
           /\ array[s].ptr \in Addr =>
                 memory[array[s].ptr] = [capa |-> array[s].capa, cells |-> Own(s)]
           /\ array[s].ptr \notin Addr => array[s].capa = 0 /\ Own(s) = <<>>
<1>1. s \in Ary /\ array[s] \in Parts /\ array[s].ptr # Null
  BY DEF Heap, Boxed
<1>2. /\ array[s].ptr \in Addr \cup {Dangling}
      /\ array[s].len \in Length /\ array[s].capa \in Length
  BY <1>1 DEF Parts
<1>3. /\ array[s].len = Len(Own(s))
      /\ array[s].capa = IF array[s].ptr \in Addr THEN memory[array[s].ptr].capa ELSE 0
      /\ array[s].len <= array[s].capa
  BY DEF Heap, PartsDescribeBuffer, Own
<1>4. CASE array[s].ptr \in Addr
  <2>1. memory[array[s].ptr] \in Block /\ Own(s) = memory[array[s].ptr].cells
    BY <1>4 DEF Heap, Own, Contents
  <2>2. Own(s) \in Cells
    BY <2>1, BlockTypes
  <2>3. memory[array[s].ptr] = [capa |-> array[s].capa, cells |-> Own(s)]
    BY <1>3, <1>4, <2>1 DEF Block, NoBlock
  <2> QED
    BY <1>1, <1>2, <1>3, <1>4, <2>2, <2>3, CellsAreSequences
<1>5. CASE array[s].ptr \notin Addr
  BY <1>1, <1>2, <1>3, <1>5, NothingIsCells, CellsAreSequences DEF Own, Contents
<1> QED
  BY <1>4, <1>5

(* No two arrays have the same allocation, and none that was left behind.  *)
LEMMA Owners ==
    ASSUME Heap, NEW s \in Boxed, array[s].ptr \in Addr
    PROVE  /\ array[s].ptr \notin leaked
           /\ \A t \in Boxed : array[t].ptr = array[s].ptr => t = s
<1> DEFINE owners == {t \in Boxed : array[t].ptr = array[s].ptr}
<1>1. memory[array[s].ptr] # NoBlock
  BY DEF Heap, Allocated
<1>2. s \in owners
  OBVIOUS
<1>3. /\ array[s].ptr \in leaked => owners = {}
      /\ array[s].ptr \notin leaked => \E t \in owners : owners = {t}
  BY <1>1 DEF Heap, OneOwner
<1> QED
  BY <1>2, <1>3

(***************************************************************************)
(* Vecs.                                                                   *)
(***************************************************************************)

(* v is a memory, made of m, where these elements have an allocation of    *)
(* their own, or need none.                                                *)
Places(v, m, cells) ==
    /\ v.mem \in [Addr -> Block]
    /\ v.parts \in Parts /\ v.parts.ptr # Null
    /\ v.parts.len = Len(cells) /\ v.parts.len <= v.parts.capa
    /\ v.parts.ptr \in Addr =>
          /\ m[v.parts.ptr] = NoBlock /\ v.parts.capa > 0
          /\ v.mem[v.parts.ptr] = [capa |-> v.parts.capa, cells |-> cells]
    /\ v.parts.ptr \notin Addr => v.parts.capa = 0 /\ cells = <<>>
    /\ \A a \in Addr \ {v.parts.ptr} : v.mem[a] = m[a]

(* Dropping what an array owns, if it owns something.                      *)
LEMMA Dropping ==
    ASSUME Heap, NEW s \in Ary
    PROVE  /\ Dropped(memory, array[s]) \in [Addr -> Block]
           /\ \A a \in Addr : Dropped(memory, array[s])[a] =
                 IF a = array[s].ptr THEN NoBlock ELSE memory[a]
  BY BlockTypes DEF Heap, Dropped, Stored

(* A new Vec.                                                              *)
LEMMA FreshPlaces ==
    ASSUME NEW m \in [Addr -> Block], NEW cells \in Cells,
           NEW n \in Len(cells)..MaxCapacity, NEW v \in Fresh(m, cells, n)
    PROVE  Places(v, m, cells)
<1>1. Len(cells) \in Length /\ n \in Length /\ Len(cells) <= n /\ n \in Nat
  BY CellsAreSequences, BoundsAreNatural DEF Length
<1>2. PICK a \in IF n = 0 THEN {Dangling} ELSE {b \in Addr : m[b] = NoBlock} :
         v = [mem |-> Stored(m, a, [capa |-> n, cells |-> cells]),
              parts |-> [ptr |-> a, len |-> Len(cells), capa |-> n]]
  BY DEF Fresh
<1>3. CASE n = 0
  <2>1. a = Dangling /\ Dangling \notin Addr /\ Dangling # Null
    BY <1>2, <1>3, DistinctPointers
  <2>2. v.mem = m
    BY <1>2, <2>1 DEF Stored
  <2>3. v.parts \in Parts
    BY <1>1, <1>2, <2>1, PartsTypes
  <2>4. cells \in Seq(Value) /\ Len(cells) = 0
    BY <1>1, <1>3, CellsAreSequences DEF Length
  <2>5. cells = <<>>
    BY <2>4, EmptySeq
  <2> QED
    BY <1>1, <1>2, <1>3, <2>1, <2>2, <2>3, <2>5 DEF Places
<1>4. CASE n # 0
  <2>1. a \in Addr /\ m[a] = NoBlock /\ a # Null /\ n > 0
    BY <1>1, <1>2, <1>4, DistinctPointers
  <2>2. [capa |-> n, cells |-> cells] \in Block
    BY <1>1, <2>1, BlockTypes
  <2>3. v.parts \in Parts
    BY <1>1, <1>2, <2>1, PartsTypes
  <2>4. v.mem = [m EXCEPT ![a] = [capa |-> n, cells |-> cells]]
    BY <1>2, <2>1 DEF Stored
  <2> QED
    BY <1>1, <1>2, <2>1, <2>2, <2>3, <2>4 DEF Places
<1> QED
  BY <1>3, <1>4

(* A Vec that is changed, in place or not, is one that takes the place of  *)
(* the dropped one.                                                        *)
LEMMA UpdatePlaces ==
    ASSUME Heap, NEW s \in Boxed, NEW cells \in Seq(Value),
           NEW v \in Update(memory, array[s], cells)
    PROVE  cells \in Cells /\ Places(v, Dropped(memory, array[s]), cells)
<1> DEFINE p == array[s]
<1>1. /\ s \in Ary /\ p \in Parts /\ p.ptr \in Addr \cup {Dangling}
      /\ p.len \in Length /\ p.capa \in Length /\ p.capa <= MaxCapacity
      /\ p.ptr \in Addr => memory[p.ptr] # NoBlock
      /\ memory \in [Addr -> Block]
  <2>1. p.ptr \in Addr => memory[p.ptr] # NoBlock
    BY DEF Heap, Allocated
  <2>2. \A n \in Length : n <= MaxCapacity
    BY BoundsAreNatural DEF Length
  <2> QED
    BY <2>1, <2>2, ArrayTypes DEF Heap
<1>2. Len(cells) \in Nat
  BY LenProperties
<1>3. /\ Dropped(memory, p) \in [Addr -> Block]
      /\ \A a \in Addr : Dropped(memory, p)[a] = IF a = p.ptr THEN NoBlock ELSE memory[a]
  BY <1>1, Dropping
<1>4. CASE Len(cells) <= p.capa
  <2>1. Len(cells) <= MaxCapacity
    BY <1>1, <1>2, <1>4, BoundsAreNatural DEF Length
  <2>2. cells \in Cells /\ Len(cells) \in Length
    BY <2>1, CellsAreSequences
  <2>3. v = [mem |-> Stored(memory, p.ptr, [capa |-> p.capa, cells |-> cells]),
             parts |-> [p EXCEPT !.len = Len(cells)]]
    BY <1>4 DEF Update
  <2>4. v.parts = [ptr |-> p.ptr, len |-> Len(cells), capa |-> p.capa]
    BY <1>1, <2>3 DEF Parts
  <2>5. v.parts \in Parts
    BY <1>1, <2>2, <2>4, PartsTypes
  <2>6. CASE p.ptr \in Addr
    <3>1. p.capa > 0 /\ p.ptr # Null
      <4>1. memory[p.ptr] \in Block /\ memory[p.ptr] # NoBlock
        BY <1>1, <2>6
      <4>2. memory[p.ptr] = [capa |-> p.capa, cells |-> Own(s)]
        BY <2>6, ArrayTypes
      <4>3. memory[p.ptr].capa = p.capa
        BY <4>2
      <4> QED
        BY <2>6, <4>1, <4>3, BlockTypes, DistinctPointers
    <3>2. v.mem = [memory EXCEPT ![p.ptr] = [capa |-> p.capa, cells |-> cells]]
      BY <2>3, <2>6 DEF Stored
    <3>3. [capa |-> p.capa, cells |-> cells] \in Block
      BY <1>1, <1>4, <2>2, <3>1, BlockTypes
    <3> QED
      BY <1>1, <1>3, <1>4, <2>2, <2>4, <2>5, <2>6, <3>1, <3>2, <3>3 DEF Places
  <2>7. CASE p.ptr \notin Addr
    <3>1. v.mem = memory /\ p.ptr # Null
      BY <1>1, <2>3, <2>7, DistinctPointers DEF Stored
    <3>2. p.capa = 0
      BY <2>7, ArrayTypes
    <3>3. cells = <<>>
      BY <1>2, <1>4, <3>2, EmptySeq
    <3>4. \A a \in Addr : Dropped(memory, p)[a] = memory[a]
      BY <1>3, <2>7
    <3> QED
      BY <1>1, <1>4, <2>2, <2>4, <2>5, <2>7, <3>1, <3>2, <3>3, <3>4 DEF Places
  <2> QED
    BY <2>6, <2>7
<1>5. CASE ~(Len(cells) <= p.capa)
  <2>1. PICK n \in Len(cells)..MaxCapacity : v \in Fresh(Dropped(memory, p), cells, n)
    BY <1>5 DEF Update
  <2>2. cells \in Cells
    BY <1>2, <2>1, CellsAreSequences, BoundsAreNatural
  <2> QED
    BY <1>3, <2>1, <2>2, FreshPlaces
<1> QED
  BY <1>4, <1>5

(* So is one whose allocation was handed over.                             *)
LEMMA RenewedPlaces ==
    ASSUME Heap, NEW s \in Boxed, NEW v \in Renewed(memory, array[s])
    PROVE  Places(v, Dropped(memory, array[s]), <<>>)
<1> DEFINE p == array[s]
<1>1. /\ s \in Ary /\ p.capa \in Length /\ memory \in [Addr -> Block]
      /\ p.ptr \in Addr => memory[p.ptr] # NoBlock
  BY ArrayTypes DEF Heap, Allocated
<1>2. PICK w \in Fresh(memory, <<>>, p.capa) : v = [w EXCEPT !.mem = Dropped(@, p)]
  BY DEF Renewed
<1>3. p.capa \in Len(<<>>)..MaxCapacity
  BY <1>1, NothingIsCells, BoundsAreNatural DEF Length
<1>4. Places(w, memory, <<>>)
  BY <1>1, <1>2, <1>3, NothingIsCells, FreshPlaces
<1>5. w = [mem |-> w.mem, parts |-> w.parts]
  BY <1>2 DEF Fresh
<1>6. v.mem = Dropped(w.mem, p) /\ v.parts = w.parts
  BY <1>2, <1>5
<1>7. \A a \in Addr : Dropped(memory, p)[a] = IF a = p.ptr THEN NoBlock ELSE memory[a]
  BY <1>1, Dropping
<1>8. /\ v.mem \in [Addr -> Block]
      /\ \A a \in Addr : v.mem[a] = IF a = p.ptr THEN NoBlock ELSE w.mem[a]
  BY <1>4, <1>6, BlockTypes DEF Dropped, Stored, Places
<1>9. w.parts.ptr \in Addr => w.parts.ptr # p.ptr
  BY <1>1, <1>4 DEF Places
<1> QED
  BY <1>4, <1>6, <1>7, <1>8, <1>9 DEF Places

(***************************************************************************)
(* The heap.                                                               *)
(***************************************************************************)

(* Packing the parts of a Vec into s, which owned the allocation that was  *)
(* dropped, or leaves behind the one that was not: every other array keeps *)
(* its parts and its elements, and none shares an allocation with another. *)
LEMMA Packing ==
    ASSUME Heap, NEW s \in Ary, NEW m, NEW cells, NEW v, Places(v, m, cells),
           memory' = v.mem, array' = [array EXCEPT ![s] = v.parts],
           \/ m = Dropped(memory, array[s]) /\ leaked' = leaked
           \/ m = memory /\ leaked' = leaked \cup ({array[s].ptr} \cap Addr)
    PROVE  /\ Heap'
           /\ Boxed' = Boxed \cup {s}
           /\ Own(s)' = cells
           /\ \A t \in Boxed \ {s} : array'[t] = array[t] /\ Own(t)' = Own(t)
<1> DEFINE old == array[s].ptr
           a == v.parts.ptr
<1>1. /\ v.mem \in [Addr -> Block] /\ v.parts \in Parts /\ a # Null
      /\ v.parts.len = Len(cells) /\ v.parts.len <= v.parts.capa
      /\ a \in Addr => /\ m[a] = NoBlock /\ v.parts.capa > 0
                       /\ v.mem[a] = [capa |-> v.parts.capa, cells |-> cells]
      /\ a \notin Addr => v.parts.capa = 0 /\ cells = <<>>
      /\ \A b \in Addr \ {a} : v.mem[b] = m[b]
  BY DEF Places
<1>2. memory' \in [Addr -> Block] /\ array' \in [Ary -> Parts] /\ leaked' \subseteq Addr
  BY <1>1 DEF Heap
<1>3. array'[s] = v.parts /\ \A t \in Ary \ {s} : array'[t] = array[t]
  BY DEF Heap
<1>4. Boxed' = Boxed \cup {s}
  BY <1>1, <1>3 DEF Boxed
<1>5. Own(s)' = cells
  <2>1. CASE a \in Addr
    BY <1>1, <1>3, <2>1 DEF Own, Contents
  <2>2. CASE a \notin Addr
    BY <1>1, <1>3, <2>2 DEF Own, Contents
  <2> QED
    BY <2>1, <2>2
<1>6. /\ s \in Boxed \/ old \notin Addr
      /\ old \in Addr => memory[old] # NoBlock /\ old \notin leaked
  <2>1. s \in Boxed \/ old = Null
    BY DEF Boxed
  <2>2. s \in Boxed \/ old \notin Addr
    BY <2>1, DistinctPointers
  <2> QED
    BY <2>2, Owners DEF Heap, Allocated
<1>7. /\ \A b \in Addr \ {a, old} : memory'[b] = memory[b]
      /\ a \in Addr => a = old \/ memory[a] = NoBlock
      /\ a \notin leaked'
      /\ \A b \in Addr \ {old} : b \in leaked' <=> b \in leaked
      /\ old \in Addr /\ old # a =>
            IF old \in leaked' THEN memory'[old] # NoBlock ELSE memory'[old] = NoBlock
  <2>1. \A b \in leaked : b \in Addr /\ memory[b] # NoBlock
    BY DEF Heap, Allocated
  <2>2. CASE m = Dropped(memory, array[s]) /\ leaked' = leaked
    <3>1. \A b \in Addr : m[b] = IF b = old THEN NoBlock ELSE memory[b]
      BY <2>2, Dropping
    <3>2. \A b \in Addr \ {a} : memory'[b] = IF b = old THEN NoBlock ELSE memory[b]
      BY <1>1, <3>1
    <3>3. a \in Addr => a = old \/ memory[a] = NoBlock
      BY <1>1, <3>1
    <3>4. a \notin leaked
      BY <1>6, <2>1, <3>3
    <3> QED
      BY <1>6, <2>2, <3>2, <3>3, <3>4
  <2>3. CASE m = memory /\ leaked' = leaked \cup ({old} \cap Addr)
    <3>1. \A b \in Addr \ {a} : memory'[b] = memory[b]
      BY <1>1, <2>3
    <3>2. a \in Addr => memory[a] = NoBlock /\ a # old
      BY <1>1, <1>6, <2>3
    <3>3. a \notin leaked'
      BY <2>1, <2>3, <3>2
    <3> QED
      BY <1>6, <2>3, <3>1, <3>2, <3>3
  <2> QED
    BY <2>2, <2>3
<1>8. ASSUME NEW t \in Boxed \ {s}
      PROVE  array[t].ptr \in Addr \cup {Dangling} /\ array[t].ptr \notin {a, old} \cap Addr
  <2>1. array[t].ptr \in Addr \cup {Dangling}
    BY ArrayTypes
  <2>2. ASSUME array[t].ptr \in Addr
        PROVE  array[t].ptr # old /\ memory[array[t].ptr] # NoBlock
    BY <1>6, <2>2, Owners DEF Heap, Allocated
  <2> QED
    BY <1>7, <2>1, <2>2
<1>9. \A t \in Boxed \ {s} : array'[t] = array[t] /\ Own(t)' = Own(t)
  BY <1>3, <1>7, <1>8 DEF Boxed, Own, Contents
<1>10. PartsDescribeBuffer'
  <2> SUFFICES ASSUME NEW t \in Boxed'
               PROVE  /\ array'[t].len = Len(Own(t)')
                      /\ array'[t].capa = IF array'[t].ptr \in Addr
                                          THEN memory'[array'[t].ptr].capa ELSE 0
                      /\ array'[t].len <= array'[t].capa
    BY DEF PartsDescribeBuffer, Own
  <2>1. CASE t = s
    BY <1>1, <1>3, <1>5, <2>1
  <2>2. CASE t # s
    <3>1. t \in Boxed \ {s}
      BY <1>4, <2>2
    <3>2. array[t].ptr \in Addr => memory'[array[t].ptr] = memory[array[t].ptr]
      BY <1>7, <1>8, <3>1
    <3> QED
      BY <1>9, <3>1, <3>2 DEF Heap, PartsDescribeBuffer, Own
  <2> QED
    BY <2>1, <2>2
<1>11. Allocated'
  <2>1. ASSUME NEW t \in Boxed', array'[t].ptr \in Addr
        PROVE  memory'[array'[t].ptr] # NoBlock
    <3>1. CASE t = s
      BY <1>1, <1>3, <2>1, <3>1 DEF NoBlock
    <3>2. CASE t # s
      BY <1>4, <1>7, <1>8, <1>9, <2>1, <3>2 DEF Heap, Allocated
    <3> QED
      BY <3>1, <3>2
  <2>2. ASSUME NEW b \in leaked' PROVE memory'[b] # NoBlock
    <3>1. b \in Addr /\ b # a
      BY <1>2, <1>7
    <3>2. CASE b = old
      BY <1>7, <3>1, <3>2
    <3>3. CASE b # old
      BY <1>7, <3>1, <3>3 DEF Heap, Allocated
    <3> QED
      BY <3>2, <3>3
  <2> QED
    BY <2>1, <2>2 DEF Allocated
<1>12. OneOwner'
  <2> SUFFICES ASSUME NEW b \in Addr, memory'[b] # NoBlock
               PROVE  LET owners == {t \in Boxed' : array'[t].ptr = b} IN
                      /\ b \in leaked' => owners = {}
                      /\ b \notin leaked' => \E t \in owners : owners = {t}
    BY DEF OneOwner
  <2> DEFINE after == {t \in Boxed' : array'[t].ptr = b}
             before == {t \in Boxed : array[t].ptr = b}
  <2>1. CASE b = a
    <3>1. after = {s} /\ b \notin leaked'
      BY <1>3, <1>4, <1>7, <1>8, <1>9, <2>1
    <3> QED
      BY <3>1
  <2>2. CASE b # a /\ b = old
    <3>1. after = {} /\ b \in leaked'
      BY <1>3, <1>4, <1>7, <1>8, <1>9, <2>2
    <3> QED
      BY <3>1
  <2>3. CASE b # a /\ b # old
    <3>1. after = before
      BY <1>3, <1>4, <1>9, <2>3
    <3>2. memory[b] # NoBlock /\ (b \in leaked' <=> b \in leaked)
      BY <1>7, <2>3
    <3>3. /\ b \in leaked => before = {}
          /\ b \notin leaked => \E t \in before : before = {t}
      BY <3>2 DEF Heap, OneOwner
    <3> QED
      BY <3>1, <3>2, <3>3
  <2> QED
    BY <2>1, <2>2, <2>3
<1> QED
  BY <1>2, <1>4, <1>5, <1>9, <1>10, <1>11, <1>12 DEF Heap

(* Freeing an array with what it owns.                                     *)
LEMMA Freeing ==
    ASSUME Heap, NEW s \in Boxed,
           memory' = Dropped(memory, array[s]),
           array' = [array EXCEPT ![s] = NoParts], leaked' = leaked
    PROVE  /\ Heap'
           /\ Boxed' = Boxed \ {s}
           /\ \A t \in Boxed \ {s} : array'[t] = array[t] /\ Own(t)' = Own(t)
<1> DEFINE old == array[s].ptr
<1>1. s \in Ary /\ array'[s] = NoParts /\ \A t \in Ary \ {s} : array'[t] = array[t]
  BY DEF Heap, Boxed
<1>2. /\ memory' \in [Addr -> Block] /\ array' \in [Ary -> Parts] /\ leaked' \subseteq Addr
      /\ \A b \in Addr : memory'[b] = IF b = old THEN NoBlock ELSE memory[b]
  BY <1>1, Dropping, PartsTypes DEF Heap
<1>3. Boxed' = Boxed \ {s}
  BY <1>1 DEF Boxed, NoParts
<1>4. ASSUME NEW t \in Boxed \ {s}, array[t].ptr \in Addr
      PROVE  memory'[array[t].ptr] = memory[array[t].ptr] /\ array[t].ptr # old
  BY <1>2, <1>4, Owners
<1>5. \A t \in Boxed \ {s} : array'[t] = array[t] /\ Own(t)' = Own(t)
  BY <1>1, <1>4 DEF Boxed, Own, Contents
<1>6. PartsDescribeBuffer'
  BY <1>3, <1>4, <1>5 DEF Heap, PartsDescribeBuffer, Own
<1>7. old \in Addr => old \notin leaked
  BY Owners
<1>8. Allocated'
  <2>1. \A t \in Boxed' : array'[t].ptr \in Addr => memory'[array'[t].ptr] # NoBlock
    BY <1>3, <1>4, <1>5 DEF Heap, Allocated
  <2>2. \A b \in leaked' : memory'[b] # NoBlock
    BY <1>2, <1>7 DEF Heap, Allocated
  <2> QED
    BY <2>1, <2>2 DEF Allocated
<1>9. OneOwner'
  <2> SUFFICES ASSUME NEW b \in Addr, memory'[b] # NoBlock
               PROVE  LET owners == {t \in Boxed' : array'[t].ptr = b} IN
                      /\ b \in leaked' => owners = {}
                      /\ b \notin leaked' => \E t \in owners : owners = {t}
    BY DEF OneOwner
  <2>1. b # old /\ memory[b] # NoBlock
    BY <1>2
  <2>2. {t \in Boxed' : array'[t].ptr = b} = {t \in Boxed : array[t].ptr = b}
    BY <1>3, <1>5, <2>1
  <2> QED
    BY <2>1, <2>2 DEF Heap, OneOwner
<1> QED
  BY <1>2, <1>3, <1>5, <1>6, <1>8, <1>9 DEF Heap

(***************************************************************************)
(* Calls in progress.                                                      *)
(***************************************************************************)

HeldBy(cs, t) == \E i \in 1..Len(cs) : cs[i].op \in Holds /\ cs[i].of = t

(* An array that may change is held by no call.                            *)
LEMMA NotHeld ==
    ASSUME ~TouchHeld, NEW cs, Frames(cs), NEW s, MayChange(s, cs)
    PROVE  ~HeldBy(cs, s)
<1>1. cs \in Seq(Call) /\ DOMAIN cs = 1..Len(cs)
  BY DEF Frames
<1> QED
  BY <1>1 DEF MayChange, HeldBy

(* What Frame says of a call after a step.                                 *)
StillFrame(c) ==
    /\ c.op # "result" => c.of \in Boxed'
    /\ c.op \in Holds => c.parts = array'[c.of]
    /\ c.op = "concat" => Starts(Contents(memory', c.parts), c.got)

(* A step that keeps the receivers alive, and those that are held as they  *)
(* are, keeps the calls in progress true.                                  *)
LEMMA FrameKept ==
    ASSUME NEW cs, Frames(cs), NEW S, S \subseteq Boxed, S \subseteq Boxed',
           \A i \in 1..Len(cs) : cs[i].op # "result" => cs[i].of \in S,
           \A t \in S : HeldBy(cs, t) => array'[t] = array[t] /\ Own(t)' = Own(t)
    PROVE  \A i \in 1..Len(cs) : StillFrame(cs[i])
<1> SUFFICES ASSUME NEW i \in 1..Len(cs) PROVE StillFrame(cs[i])
  OBVIOUS
<1>1. Frame(cs[i])
  BY DEF Frames
<1>2. "concat" \in Holds /\ "result" \notin Holds
  BY DEF Holds
<1>3. cs[i].op # "result" => cs[i].of \in S
  OBVIOUS
<1>4. cs[i].op \in Holds => HeldBy(cs, cs[i].of)
  BY DEF HeldBy
<1>5. cs[i].op \in Holds =>
         /\ cs[i].parts = array[cs[i].of] /\ array'[cs[i].of] = array[cs[i].of]
         /\ Contents(memory', array'[cs[i].of]) = Contents(memory, array[cs[i].of])
  BY <1>1, <1>2, <1>3, <1>4 DEF Frame, Own
<1> QED
  BY <1>1, <1>2, <1>3, <1>5 DEF Frame, StillFrame

LEMMA FramesKept ==
    ASSUME NEW cs, Frames(cs), \A i \in 1..Len(cs) : StillFrame(cs[i]), calls' = cs
    PROVE  Frames(calls)'
  BY DEF Frames, Frame, StillFrame

(* So does one that begins another call.                                   *)
LEMMA FramesPushed ==
    ASSUME NEW cs, Frames(cs), \A i \in 1..Len(cs) : StillFrame(cs[i]),
           \A i \in 1..Len(cs) : cs[i].op # "result",
           NEW c \in Call, StillFrame(c), calls' = Append(cs, c)
    PROVE  Frames(calls)'
<1>1. cs \in Seq(Call) /\ Len(cs) \in Nat
  BY LenProperties DEF Frames
<1>2. /\ calls' \in Seq(Call) /\ Len(calls') = Len(cs) + 1
      /\ \A i \in 1..Len(cs) : calls'[i] = cs[i]
      /\ calls'[Len(cs) + 1] = c
  BY <1>1, AppendProperties
<1>3. ASSUME NEW i \in 1..Len(calls')
      PROVE  StillFrame(calls'[i]) /\ (calls'[i].op = "result" => i = Len(calls'))
  <2>1. CASE i = Len(cs) + 1
    BY <1>2, <2>1
  <2>2. CASE i # Len(cs) + 1
    <3>1. i \in 1..Len(cs)
      BY <1>1, <1>2, <2>2
    <3> QED
      BY <1>2, <3>1
  <2> QED
    BY <2>1, <2>2
<1> QED
  BY <1>2, <1>3 DEF Frames, Frame, StillFrame

(* The call on top, and those below it.                                    *)
LEMMA TopCall ==
    ASSUME Frames(calls), calls # <<>>
    PROVE  /\ Top \in Call /\ Frame(Top)
           /\ Frames(Below)
           /\ \A i \in 1..Len(Below) : Below[i].op # "result"
           /\ \A i \in 1..Len(Below) : Below[i] = calls[i]
           /\ Len(Below) = Len(calls) - 1 /\ Len(calls) \in Nat \ {0}
<1>1. calls \in Seq(Call) /\ Len(calls) \in Nat \ {0}
  BY EmptySeq DEF Frames
<1> DEFINE n == Len(calls) - 1
<1>2. n \in Nat /\ \A i \in 1..n : calls[i] \in Call
  BY <1>1, ElementOfSeq
<1>3. /\ Below \in Seq(Call) /\ Len(Below) = n
      /\ \A i \in 1..n : Below[i] = calls[i]
  <2> HIDE DEF n
  <2>1. /\ SubSeq(calls, 1, n) \in Seq(Call)
        /\ Len(SubSeq(calls, 1, n)) = IF 1 <= n THEN n - 1 + 1 ELSE 0
        /\ \A i \in 1..(n - 1 + 1) : SubSeq(calls, 1, n)[i] = calls[1 + i - 1]
    BY <1>2, SubSeqProperties
  <2>2. Below = SubSeq(calls, 1, n)
    BY DEF Below, n
  <2> QED
    BY <1>2, <2>1, <2>2
<1>4. Top \in Call /\ Frame(Top)
  BY <1>1 DEF Top, Frames
<1>5. \A i \in 1..Len(Below) : /\ Frame(Below[i]) /\ Below[i].op # "result"
  BY <1>1, <1>3 DEF Frames
<1> QED
  BY <1>1, <1>3, <1>4, <1>5 DEF Frames

(***************************************************************************)
(* The operations on elements are what RubyArray says of them.             *)
(***************************************************************************)

LEMMA Betweens ==
    ASSUME NEW b \in Seq(Value), NEW i \in Nat, NEW j \in Nat, j <= Len(b)
    PROVE  /\ Between(b, i, j) \in Seq(Value)
           /\ Len(Between(b, i, j)) = Minus(j, i)
           /\ \A k \in 1..Minus(j, i) : Between(b, i, j)[k] = b[i + k]
<1>1. Len(b) \in Nat /\ \A k \in i + 1..j : b[k] \in Value
  <2>1. Len(b) \in Nat
    BY LenProperties
  <2>2. \A k \in i + 1..j : k \in 1..Len(b)
    BY <2>1
  <2> QED
    BY <2>1, <2>2, ElementOfSeq
<1>2. /\ SubSeq(b, i + 1, j) \in Seq(Value)
      /\ Len(SubSeq(b, i + 1, j)) = IF i + 1 <= j THEN j - (i + 1) + 1 ELSE 0
      /\ \A k \in 1..(j - (i + 1) + 1) : SubSeq(b, i + 1, j)[k] = b[i + 1 + k - 1]
  BY <1>1, SubSeqProperties
<1>3. Minus(j, i) = IF i + 1 <= j THEN j - (i + 1) + 1 ELSE 0
  BY DEF Minus
<1> QED
  BY <1>2, <1>3 DEF Between

LEMMA Onwards ==
    ASSUME NEW b \in Seq(Value), NEW i \in Nat
    PROVE  /\ Onward(b, i) \in Seq(Value)
           /\ Len(Onward(b, i)) = Minus(Len(b), i)
           /\ \A k \in 1..Minus(Len(b), i) : Onward(b, i)[k] = b[i + k]
           /\ i = 0 => Onward(b, i) = b
           /\ i >= Len(b) => Onward(b, i) = <<>>
           /\ Onward(b, i) = Arrays!After(b, i)
<1>1. Len(b) \in Nat
  BY LenProperties
<1>2. i = 0 => SubSeq(b, i + 1, Len(b)) = b
  BY SubSeqFull
<1>3. i >= Len(b) => SubSeq(b, i + 1, Len(b)) = <<>>
  BY <1>1, SubSeqEmpty
<1> QED
  BY <1>1, <1>2, <1>3, Betweens DEF Onward, Between, Arrays!After

LEMMA UpTos ==
    ASSUME NEW b \in Seq(Value), NEW n \in Nat, n <= Len(b)
    PROVE  /\ UpTo(b, n) \in Seq(Value)
           /\ Len(UpTo(b, n)) = n
           /\ \A k \in 1..n : UpTo(b, n)[k] = b[k]
<1>1. Minus(n, 0) = n /\ \A k \in 1..n : 0 + k = k
  BY DEF Minus
<1> QED
  BY <1>1, Betweens DEF UpTo

(* The elements before n, with nil for what is missing.                    *)
LEMMA Befores ==
    ASSUME NEW b \in Seq(Value), NEW n \in Nat
    PROVE  /\ Arrays!Before(b, n) \in Seq(Value)
           /\ Len(Arrays!Before(b, n)) = n
           /\ \A k \in 1..n : Arrays!Before(b, n)[k] = IF k <= Len(b) THEN b[k] ELSE Nil
           /\ ResizeWith(b, n) = Arrays!Before(b, n)
           /\ n <= Len(b) => UpTo(b, n) = Arrays!Before(b, n)
<1> DEFINE r == [k \in 1..n |-> IF k <= Len(b) THEN b[k] ELSE Nil]
<1>1. Len(b) \in Nat /\ DOMAIN b = 1..Len(b) /\ \A k \in 1..Len(b) : b[k] \in Value
  BY LenProperties, ElementOfSeq
<1>2. Arrays!Before(b, n) = r
  BY <1>1 DEF Arrays!Before
<1>3. r \in [1..n -> Value]
  BY <1>1 DEF Value
<1>4. r \in Seq(Value) /\ Len(r) = n
  BY <1>3, SeqDef
<1>5. ASSUME n <= Len(b) PROVE UpTo(b, n) = r
  <2>1. /\ UpTo(b, n) \in Seq(Value) /\ Len(UpTo(b, n)) = n
        /\ \A k \in 1..n : UpTo(b, n)[k] = r[k]
    BY <1>1, <1>5, UpTos
  <2> HIDE DEF r
  <2> QED
    BY <1>4, <2>1, SeqEqual
<1>6. ResizeWith(b, n) = r
  BY DEF ResizeWith
<1> QED
  BY <1>2, <1>4, <1>5, <1>6

(* Values in the place of some elements.                                   *)
LEMMA Splices ==
    ASSUME NEW b \in Seq(Value), NEW i \in Nat, NEW n \in Nat, NEW v \in Seq(Value)
    PROVE  /\ Arrays!Splice(b, i, n, v) \in Seq(Value)
           /\ Len(Arrays!Splice(b, i, n, v)) = i + Len(v) + Minus(Len(b), i + n)
           /\ \A k \in 1..i + Len(v) + Minus(Len(b), i + n) :
                 Arrays!Splice(b, i, n, v)[k] =
                    IF k <= i THEN (IF k <= Len(b) THEN b[k] ELSE Nil)
                    ELSE IF k <= i + Len(v) THEN v[k - i] ELSE b[k - Len(v) + n]
<1> DEFINE p == Arrays!Before(b, i)
           q == Onward(b, i + n)
           m == Minus(Len(b), i + n)
<1>1. p \in Seq(Value) /\ Len(p) = i /\ \A k \in 1..i : p[k] = IF k <= Len(b) THEN b[k] ELSE Nil
  BY Befores
<1>2. i + n \in Nat /\ Len(b) \in Nat /\ Len(v) \in Nat
  BY LenProperties
<1>3. /\ q \in Seq(Value) /\ Len(q) = m /\ \A k \in 1..m : q[k] = b[i + n + k]
      /\ q = Arrays!After(b, i + n)
  BY <1>2, Onwards
<1>4. m \in Nat
  BY <1>2 DEF Minus
<1>5. Arrays!Splice(b, i, n, v) = p \o v \o q
  BY <1>3 DEF Arrays!Splice
<1> HIDE DEF p, q, m
<1>6. /\ p \o v \in Seq(Value) /\ Len(p \o v) = i + Len(v)
      /\ \A k \in 1..i + Len(v) : (p \o v)[k] = IF k <= i THEN p[k] ELSE v[k - i]
  BY <1>1, ConcatProperties
<1>7. /\ (p \o v) \o q \in Seq(Value) /\ Len((p \o v) \o q) = i + Len(v) + m
      /\ \A k \in 1..i + Len(v) + m : ((p \o v) \o q)[k] =
            IF k <= i + Len(v) THEN (p \o v)[k] ELSE q[k - (i + Len(v))]
  BY <1>3, <1>6, ConcatProperties
<1>8. ASSUME NEW k \in 1..i + Len(v) + m
      PROVE  ((p \o v) \o q)[k] =
                IF k <= i THEN (IF k <= Len(b) THEN b[k] ELSE Nil)
                ELSE IF k <= i + Len(v) THEN v[k - i] ELSE b[k - Len(v) + n]
  <2>1. CASE k <= i
    BY <1>1, <1>2, <1>6, <1>7, <2>1
  <2>2. CASE k > i /\ k <= i + Len(v)
    <3>1. k \in 1..i + Len(v) /\ ~(k <= i)
      BY <1>2, <2>2
    <3>2. ((p \o v) \o q)[k] = (p \o v)[k]
      BY <1>7, <2>2
    <3>3. (p \o v)[k] = v[k - i]
      BY <1>6, <3>1
    <3> QED
      BY <2>2, <3>1, <3>2, <3>3
  <2>3. CASE k > i + Len(v)
    <3>1. k - (i + Len(v)) \in 1..m /\ i + n + (k - (i + Len(v))) = k - Len(v) + n
      BY <1>2, <1>4, <2>3
    <3>2. ~(k <= i) /\ ~(k <= i + Len(v))
      BY <1>2, <1>4, <2>3
    <3>3. ((p \o v) \o q)[k] = q[k - (i + Len(v))]
      BY <1>7, <3>2
    <3>4. q[k - (i + Len(v))] = b[k - Len(v) + n]
      BY <1>3, <3>1
    <3> QED
      BY <3>2, <3>3, <3>4
  <2>4. k <= i \/ (k > i /\ k <= i + Len(v)) \/ k > i + Len(v)
    BY <1>2, <1>4
  <2> QED
    BY <2>1, <2>2, <2>3, <2>4
<1> QED
  BY <1>5, <1>7, <1>8 DEF m

(* What lies behind the end is nothing, however far.                       *)
LEMMA OnwardStops ==
    ASSUME NEW b \in Seq(Value), NEW i \in Nat, NEW j \in Nat,
           i = j \/ (i >= Len(b) /\ j >= Len(b))
    PROVE  Onward(b, i) = Onward(b, j)
<1>1. CASE i = j
  BY <1>1
<1>2. CASE i >= Len(b) /\ j >= Len(b)
  <2>1. Onward(b, i) = <<>> /\ Onward(b, j) = <<>>
    BY <1>2, Onwards
  <2> QED
    BY <2>1
<1> QED
  BY <1>1, <1>2

(* insert of a Vec, where there are elements before the place.             *)
LEMMA InsertIsSplice ==
    ASSUME NEW b \in Seq(Value), NEW i \in Nat, i <= Len(b), NEW v \in Seq(Value)
    PROVE  InsertAt(b, i, v) = Arrays!Splice(b, i, 0, v)
<1>1. i + 0 = i /\ UpTo(b, i) = Arrays!Before(b, i) /\ Onward(b, i) = Arrays!After(b, i)
  BY Befores, Onwards
<1> QED
  BY <1>1 DEF InsertAt, Arrays!Splice

(* Padding up to a place at or behind the end, and values from there on.   *)
LEMMA PaddingIsSplice ==
    ASSUME NEW b \in Seq(Value), NEW i \in Nat, i >= Len(b), NEW n \in Nat,
           NEW v \in Seq(Value)
    PROVE  ResizeWith(b, i) \o v = Arrays!Splice(b, i, n, v)
<1>1. Len(b) \in Nat
  BY LenProperties
<1>2. i + n \in Nat /\ i + n >= Len(b)
  BY <1>1
<1>3. Onward(b, i + n) = <<>> /\ Onward(b, i + n) = Arrays!After(b, i + n)
  BY <1>2, Onwards
<1>4. ResizeWith(b, i) = Arrays!Before(b, i) /\ Arrays!Before(b, i) \o v \in Seq(Value)
  BY Befores, ConcatProperties
<1>5. (Arrays!Before(b, i) \o v) \o <<>> = Arrays!Before(b, i) \o v
  BY <1>4, ConcatEmptySeq
<1> QED
  BY <1>3, <1>4, <1>5 DEF Arrays!Splice

(* Array::set on the Vec: one element, in place or behind a gap of nil.    *)
LEMMA SetIsSplice ==
    ASSUME NEW b \in Seq(Value), NEW i \in Nat, NEW x \in Value
    PROVE  Set(b, i, x) = Arrays!Splice(b, i, 1, <<x>>)
<1>1. Len(b) \in Nat /\ <<x>> \in Seq(Value) /\ Len(<<x>>) = 1
  BY LenProperties
<1>2. CASE i < Len(b)
  <2> DEFINE e == [b EXCEPT ![i + 1] = x]
             w == <<x>>
             d == 1
             t == Arrays!Splice(b, i, d, w)
  <2>1. i + 1 \in 1..Len(b) /\ Minus(Len(b), i + 1) = Len(b) - (i + 1)
    BY <1>1, <1>2 DEF Minus
  <2>2. /\ e \in Seq(Value) /\ Len(e) = Len(b)
        /\ \A k \in 1..Len(b) : e[k] = IF k = i + 1 THEN x ELSE b[k]
    BY <2>1, ExceptSeq
  <2>8. w \in Seq(Value) /\ Len(w) = 1 /\ w[1] = x /\ d = 1 /\ d \in Nat
    BY <1>1
  <2> HIDE DEF w, d
  <2>3. /\ t \in Seq(Value) /\ Len(t) = i + Len(w) + Minus(Len(b), i + d)
        /\ \A k \in 1..i + Len(w) + Minus(Len(b), i + d) :
              t[k] = IF k <= i THEN (IF k <= Len(b) THEN b[k] ELSE Nil)
                     ELSE IF k <= i + Len(w) THEN w[k - i] ELSE b[k - Len(w) + d]
    <3>1. w \in Seq(Value) /\ d \in Nat
      BY <2>8
    <3> QED
      BY <3>1, Splices
  <2>4. Len(t) = Len(b)
    BY <1>1, <2>1, <2>3, <2>8
  <2>5. ASSUME NEW k \in 1..Len(b) PROVE e[k] = t[k]
    <3>1. k <= i \/ k = i + 1 \/ k > i + 1
      BY <1>1
    <3>2. k \in 1..i + Len(w) + Minus(Len(b), i + d)
      BY <2>3, <2>4
    <3> QED
      BY <1>1, <2>2, <2>3, <2>8, <3>1, <3>2
  <2>6. Set(b, i, x) = e
    BY <1>2 DEF Set
  <2> HIDE DEF e, t
  <2>7. e = t
    BY <2>2, <2>3, <2>4, <2>5, SeqEqual
  <2> QED
    BY <2>6, <2>7 DEF t, w, d
<1>3. CASE ~(i < Len(b))
  <2>1. ResizeWith(b, i) \in Seq(Value) /\ i >= Len(b)
    BY <1>1, <1>3, Befores
  <2>2. Append(ResizeWith(b, i), x) = ResizeWith(b, i) \o <<x>>
    BY <2>1, AppendIsConcat
  <2> QED
    BY <1>1, <1>3, <2>1, <2>2, PaddingIsSplice DEF Set
<1> QED
  BY <1>2, <1>3

(* Array::set_with_drain on the Vec: one element in the place of some.     *)
LEMMA SetWithDrainIsSplice ==
    ASSUME NEW b \in Seq(Value), NEW i \in Nat, NEW n \in Nat, NEW x \in Value
    PROVE  SetWithDrain(b, i, n, x) = Arrays!Splice(b, i, n, <<x>>)
<1>1. Len(b) \in Nat /\ <<x>> \in Seq(Value)
  BY LenProperties
<1>2. CASE i >= Len(b)
  <2>1. ResizeWith(b, i) \in Seq(Value)
    BY Befores
  <2>2. Append(ResizeWith(b, i), x) = ResizeWith(b, i) \o <<x>>
    BY <2>1, AppendIsConcat
  <2> QED
    BY <1>1, <1>2, <2>2, PaddingIsSplice DEF SetWithDrain
<1>3. CASE i < Len(b) /\ n = 0
  <2>1. SetWithDrain(b, i, n, x) = InsertAt(b, i, <<x>>)
    BY <1>1, <1>3 DEF SetWithDrain
  <2>2. InsertAt(b, i, <<x>>) = Arrays!Splice(b, i, 0, <<x>>)
    <3>1. i <= Len(b)
      BY <1>1, <1>3
    <3> QED
      BY <1>1, <3>1, InsertIsSplice
  <2> QED
    BY <1>3, <2>1, <2>2
<1>4. CASE i < Len(b) /\ n = 1
  <2>1. SetWithDrain(b, i, n, x) = Set(b, i, x)
    BY <1>1, <1>4 DEF SetWithDrain, Set
  <2> QED
    BY <1>4, <2>1, SetIsSplice
<1>5. CASE i < Len(b) /\ n # 0 /\ n # 1
  <2> DEFINE j == Smaller(i + n, Len(b))
  <2>1. SetWithDrain(b, i, n, x) = UpTo(b, i) \o <<x>> \o Onward(b, j)
    BY <1>1, <1>5 DEF SetWithDrain
  <2>2. j \in Nat /\ i + n \in Nat /\ (j = i + n \/ (j >= Len(b) /\ i + n >= Len(b)))
    BY <1>1 DEF Smaller
  <2>3. Onward(b, j) = Onward(b, i + n)
    BY <2>2, OnwardStops
  <2>4. UpTo(b, i) = Arrays!Before(b, i) /\ Onward(b, i + n) = Arrays!After(b, i + n)
    BY <1>1, <1>5, <2>2, Befores, Onwards
  <2> QED
    BY <2>1, <2>3, <2>4 DEF Arrays!Splice
<1> QED
  BY <1>1, <1>2, <1>3, <1>4, <1>5

(* Array::set_slice on the Vec.                                            *)
LEMMA SetSliceIsSplice ==
    ASSUME NEW b \in Seq(Value), NEW i \in Nat, NEW n \in Nat, NEW v \in Seq(Value)
    PROVE  SetSlice(b, i, n, v) = Arrays!Splice(b, i, n, v)
<1>1. Len(b) \in Nat
  BY LenProperties
<1>2. CASE i >= Len(b)
  BY <1>1, <1>2, PaddingIsSplice DEF SetSlice
<1>3. CASE i < Len(b)
  <2> DEFINE j == i + Drained(b, i, n)
  <2>1. SetSlice(b, i, n, v) = UpTo(b, i) \o v \o Onward(b, j)
    BY <1>1, <1>3 DEF SetSlice
  <2>2. j \in Nat /\ i + n \in Nat /\ (j = i + n \/ (j >= Len(b) /\ i + n >= Len(b)))
    BY <1>1, <1>3 DEF Drained, Smaller, Minus
  <2>3. Onward(b, j) = Onward(b, i + n)
    BY <2>2, OnwardStops
  <2>4. UpTo(b, i) = Arrays!Before(b, i)
    BY <1>1, <1>3, Befores
  <2>5. Onward(b, i + n) = Arrays!After(b, i + n)
    BY <2>2, Onwards
  <2> QED
    BY <2>1, <2>3, <2>4, <2>5 DEF Arrays!Splice
<1> QED
  BY <1>1, <1>2, <1>3

(* There is nothing before the first element.                              *)
LEMMA NothingBefore == \A b : UpTo(b, 0) = <<>>
BY SubSeqEmpty DEF UpTo, Between

(* Adding at either end.                                                   *)
LEMMA Adding ==
    ASSUME NEW b \in Seq(Value), NEW x \in Value
    PROVE  /\ Append(b, x) \in Seq(Value)
           /\ InsertAt(b, 0, <<x>>) = <<x>> \o b
           /\ <<x>> \o b \in Seq(Value)
<1>1. <<x>> \in Seq(Value) /\ 0 <= Len(b) /\ 0 \in Nat
  BY LenProperties
<1>2. UpTo(b, 0) = <<>> /\ Onward(b, 0) = b
  BY <1>1, NothingBefore, Onwards
<1>3. <<>> \o <<x>> = <<x>>
  BY <1>1, ConcatEmptySeq
<1> QED
  BY <1>1, <1>2, <1>3, AppendProperties, ConcatProperties DEF InsertAt

(* Taking from the front: what is left, and what was taken.                *)
LEMMA Shifting ==
    ASSUME NEW b \in Seq(Value), NEW n \in Nat
    PROVE  /\ ShiftN(b, n).left = Arrays!After(b, n)
           /\ ShiftN(b, n).taken = SubSeq(b, 1, IF n < Len(b) THEN n ELSE Len(b))
           /\ Arrays!After(b, n) \in Seq(Value)
           /\ ShiftN(b, n).taken \in Seq(Value) /\ Len(ShiftN(b, n).taken) <= Len(b)
           /\ n > 0 /\ n >= Len(b) => Arrays!After(b, n) = <<>>
<1>1. Len(b) \in Nat /\ SubSeq(b, 1, Len(b)) = b /\ SubSeq(b, 1, 0) = <<>>
  BY LenProperties, SubSeqFull, SubSeqEmpty
<1>2. /\ Onward(b, n) = Arrays!After(b, n) /\ Onward(b, n) \in Seq(Value)
      /\ n = 0 => Onward(b, n) = b
      /\ n >= Len(b) => Onward(b, n) = <<>>
  BY Onwards
<1>3. CASE n = 0
  <2>1. ShiftN(b, n) = [left |-> b, taken |-> <<>>]
    BY <1>3 DEF ShiftN
  <2>2. SubSeq(b, 1, IF n < Len(b) THEN n ELSE Len(b)) = <<>>
    BY <1>1, <1>3
  <2>3. <<>> \in Seq(Value) /\ Len(<<>>) = 0 /\ 0 <= Len(b) /\ ~(n > 0)
    BY <1>1, <1>3, EmptySeq
  <2>4. Arrays!After(b, n) = b
    BY <1>2, <1>3
  <2> QED
    BY <2>1, <2>2, <2>3, <2>4
<1>4. CASE n # 0 /\ n < Len(b)
  <2>1. ShiftN(b, n) = [left |-> Onward(b, n), taken |-> UpTo(b, n)]
    BY <1>4 DEF ShiftN
  <2>2. UpTo(b, n) = SubSeq(b, 1, n)
    BY DEF UpTo, Between
  <2>3. n <= Len(b) /\ ~(n >= Len(b))
    BY <1>1, <1>4
  <2>4. UpTo(b, n) \in Seq(Value) /\ Len(UpTo(b, n)) = n
    BY <2>3, UpTos
  <2> QED
    BY <1>2, <1>4, <2>1, <2>2, <2>3, <2>4
<1>5. CASE n # 0 /\ ~(n < Len(b))
  <2>1. ShiftN(b, n) = [left |-> <<>>, taken |-> b]
    BY <1>5 DEF ShiftN
  <2> QED
    BY <1>1, <1>2, <1>5, <2>1
<1> QED
  BY <1>3, <1>4, <1>5

LEMMA ShiftingOne ==
    ASSUME NEW b \in Seq(Value)
    PROVE  DeleteAt(b, 0) = Arrays!After(b, 1) /\ DeleteAt(b, 0) \in Seq(Value)
<1>1. Len(b) \in Nat
  BY LenProperties
<1>2. /\ Onward(b, 1) = Arrays!After(b, 1) /\ Onward(b, 1) \in Seq(Value)
      /\ 1 >= Len(b) => Onward(b, 1) = <<>>
  BY Onwards
<1>3. CASE 0 < Len(b)
  <2>1. DeleteAt(b, 0) = UpTo(b, 0) \o Onward(b, 1)
    BY <1>3 DEF DeleteAt
  <2>2. UpTo(b, 0) = <<>>
    BY NothingBefore
  <2>3. <<>> \o Onward(b, 1) = Onward(b, 1)
    BY <1>2, ConcatEmptySeq
  <2> QED
    BY <1>2, <2>1, <2>2, <2>3
<1>4. CASE ~(0 < Len(b))
  <2>1. DeleteAt(b, 0) = b /\ b = <<>>
    BY <1>1, <1>4, EmptySeq DEF DeleteAt
  <2> QED
    BY <1>1, <1>2, <1>4, <2>1
<1> QED
  BY <1>3, <1>4

(* Taking the last element.                                                *)
LEMMA Popping ==
    ASSUME NEW b \in Seq(Value)
    PROVE  /\ PopN(b, 1).left = Arrays!Before(b, Len(b) - 1)
           /\ PopN(b, 1).left \in Seq(Value)
<1>1. Len(b) \in Nat
  BY LenProperties
<1>2. PopN(b, 1).left = UpTo(b, Minus(Len(b), 1))
  BY DEF PopN
<1>3. Minus(Len(b), 1) \in Nat /\ Minus(Len(b), 1) <= Len(b)
  BY <1>1 DEF Minus
<1>4. UpTo(b, Minus(Len(b), 1)) \in Seq(Value)
  BY <1>3, UpTos
<1>5. CASE Len(b) # 0
  <2>1. Minus(Len(b), 1) = Len(b) - 1
    BY <1>1, <1>5 DEF Minus
  <2> QED
    BY <1>2, <1>3, <1>4, <2>1, Befores
<1>6. CASE Len(b) = 0
  <2>1. Minus(Len(b), 1) = 0
    BY <1>6 DEF Minus
  <2>3. UpTo(b, 0) = <<>>
    BY NothingBefore
  <2>4. 1..(Len(b) - 1) = {}
    BY <1>6
  <2>5. Arrays!Before(b, Len(b) - 1) = [k \in {} |-> IF k \in DOMAIN b THEN b[k] ELSE Nil]
    BY <2>4 DEF Arrays!Before
  <2>6. <<>> = [k \in {} |-> IF k \in DOMAIN b THEN b[k] ELSE Nil]
    OBVIOUS
  <2> QED
    BY <1>2, <1>4, <2>1, <2>3, <2>5, <2>6
<1> QED
  BY <1>5, <1>6

(* Reading some elements.                                                  *)
LEMMA Reading ==
    ASSUME NEW b \in Seq(Value), NEW i \in Nat, NEW n \in Nat
    PROVE  /\ Slice(b, i, n) = SubSeq(b, i + 1, IF i + n < Len(b) THEN i + n ELSE Len(b))
           /\ FirstN(b, n) = SubSeq(b, 1, IF n < Len(b) THEN n ELSE Len(b))
           /\ Slice(b, i, n) \in Seq(Value)
           /\ FirstN(b, n) \in Seq(Value)
           /\ LastN(b, n) \in Seq(Value)
           /\ LastN(b, n) = SubSeq(b, Minus(Len(b), n) + 1, Len(b))
<1>1. Len(b) \in Nat /\ SubSeq(b, 1, Len(b)) = b
  BY LenProperties, SubSeqFull
<1>2. FirstN(b, n) = SubSeq(b, 1, IF n < Len(b) THEN n ELSE Len(b))
  <2>1. n <= Len(b) => UpTo(b, n) = SubSeq(b, 1, n)
    BY DEF UpTo, Between
  <2> QED
    BY <1>1, <2>1 DEF FirstN
<1>3. FirstN(b, n) \in Seq(Value)
  BY <1>1, UpTos DEF FirstN
<1>4. Minus(Len(b), n) \in Nat
  BY <1>1 DEF Minus
<1>5. LastN(b, n) \in Seq(Value) /\ LastN(b, n) = SubSeq(b, Minus(Len(b), n) + 1, Len(b))
  BY <1>4, Onwards DEF LastN, Onward, Between
<1> DEFINE e == IF i + n < Len(b) THEN i + n ELSE Len(b)
<1>6. CASE b = <<>> \/ n = 0 \/ i > Len(b)
  <2>1. e \in Nat /\ e < i + 1
    <3>1. b = <<>> => Len(b) = 0
      OBVIOUS
    <3> QED
      BY <1>1, <1>6, <3>1
  <2>2. SubSeq(b, i + 1, e) = <<>>
    BY <2>1, SubSeqEmpty
  <2>3. Slice(b, i, n) = <<>>
    BY <1>6 DEF Slice
  <2>4. <<>> \in Seq(Value)
    BY EmptySeq
  <2> QED
    BY <1>2, <1>3, <1>5, <2>2, <2>3, <2>4
<1>7. CASE ~(b = <<>> \/ n = 0 \/ i > Len(b))
  <2>1. Slice(b, i, n) = SubSeq(b, i + 1, e)
    BY <1>1, <1>7 DEF Slice, Between, Onward
  <2>2. e \in Nat /\ e <= Len(b)
    BY <1>1
  <2>3. Between(b, i, e) \in Seq(Value)
    BY <2>2, Betweens
  <2>4. SubSeq(b, i + 1, e) \in Seq(Value)
    BY <2>3 DEF Between
  <2> QED
    BY <1>2, <1>3, <1>5, <2>1, <2>4
<1> QED
  BY <1>6, <1>7

(* Repeating and turning around.                                           *)
LEMMA Rearranging ==
    ASSUME NEW b \in Seq(Value), NEW n \in Nat
    PROVE  /\ Repeat(b, n) = Arrays!Times(b, n) /\ Repeat(b, n) \in Seq(Value)
           /\ Reversed(b) = Arrays!Turned(b) /\ Reversed(b) \in Seq(Value)
           /\ Len(Reversed(b)) = Len(b)
<1>1. Len(b) \in Nat /\ DOMAIN b = 1..Len(b) /\ \A k \in 1..Len(b) : b[k] \in Value
  BY LenProperties, ElementOfSeq
<1>2. Repeat(b, n) = Arrays!Times(b, n)
  BY <1>1 DEF Repeat, Arrays!Times
<1>3. Repeat(b, n) \in Seq(Value)
  <2> DEFINE l == Len(b) * n
  <2>1. l \in Nat
    BY <1>1
  <2>2. ASSUME NEW k \in 1..l PROVE b[1 + ((k - 1) % Len(b))] \in Value
    <3>1. Len(b) # 0
      BY <1>1, <2>2
    <3>2. (k - 1) % Len(b) \in 0..Len(b) - 1
      <4> DEFINE h == Len(b)
                 g == k - 1
      <4>1. h \in Nat \ {0} /\ g \in Nat
        BY <1>1, <2>1, <3>1
      <4> HIDE DEF h, g
      <4>2. g % h \in 0..h - 1
        BY <4>1
      <4> QED
        BY <4>2 DEF g, h
    <3>3. 1 + ((k - 1) % Len(b)) \in 1..Len(b)
      BY <1>1, <3>2
    <3> QED
      BY <1>1, <3>3
  <2>3. [k \in 1..l |-> b[1 + ((k - 1) % Len(b))]] \in [1..l -> Value]
    BY <2>2
  <2> QED
    BY <2>1, <2>3, SeqDef DEF Repeat
<1>4. Reversed(b) = Arrays!Turned(b)
  BY <1>1 DEF Reversed, Arrays!Turned
<1>5. Reversed(b) \in [1..Len(b) -> Value]
  <2>1. ASSUME NEW k \in 1..Len(b) PROVE b[Len(b) + 1 - k] \in Value
    <3>1. Len(b) + 1 - k \in 1..Len(b)
      BY <1>1
    <3> QED
      BY <1>1, <3>1
  <2> QED
    BY <2>1 DEF Reversed
<1>6. Reversed(b) \in Seq(Value) /\ Len(Reversed(b)) = Len(b)
  BY <1>1, <1>5, SeqDef
<1> QED
  BY <1>2, <1>3, <1>4, <1>6

(***************************************************************************)
(* Steps.                                                                  *)
(***************************************************************************)

Answered == IF Ending("result") THEN [is |-> TRUE, of |-> Top.got]
            ELSE [is |-> FALSE, of |-> <<>>]

(* What the calls in progress let Ruby see of their results.               *)
LEMMA SameCalls ==
    ASSUME calls' = calls
    PROVE  Answered' = Answered
BY DEF Answered, Ending, Top

LEMMA NothingAnswered ==
    ASSUME calls = <<>> \/ Top.op # "result"
    PROVE  Answered = Arrays!NoResult
BY DEF Answered, Ending, Arrays!NoResult

LEMMA NothingAnsweredNext ==
    ASSUME NEW cs, cs \in Seq(Call), calls' = cs,
           \A i \in 1..Len(cs) : cs[i].op # "result"
    PROVE  Answered' = Arrays!NoResult
<1>1. cs = <<>> \/ Len(cs) \in 1..Len(cs)
  BY EmptySeq
<1> QED
  BY <1>1 DEF Answered, Ending, Top, Arrays!NoResult

LEMMA AnswersNext ==
    ASSUME NEW cs, cs \in Seq(Call), NEW x \in Cells, calls' = Append(cs, Returns(x))
    PROVE  /\ Answered' = Arrays!Returning(x)
           /\ Returns(x) \in Call /\ StillFrame(Returns(x))
<1>1. /\ Returns(x) \in Call /\ Returns(x).op = "result" /\ Returns(x).got = x
      /\ "result" \notin Holds
  BY PartsTypes DEF Returns, Call, Holds
<1>2. /\ calls' # <<>> /\ Len(calls') = Len(cs) + 1
      /\ calls'[Len(cs) + 1] = Returns(x)
  BY <1>1, AppendProperties
<1> QED
  BY <1>1, <1>2 DEF Answered, Ending, Top, Arrays!Returning, StillFrame

(* Packing a Vec into an array that no call below holds changes the        *)
(* elements of this array, and only of this one.                           *)
LEMMA PackingSays ==
    ASSUME Heap, NEW cs, Frames(cs), NEW s \in Ary, ~HeldBy(cs, s),
           NEW m, NEW cells, NEW v, Places(v, m, cells),
           memory' = v.mem, array' = [array EXCEPT ![s] = v.parts],
           \/ m = Dropped(memory, array[s]) /\ leaked' = leaked
           \/ m = memory /\ leaked' = leaked \cup ({array[s].ptr} \cap Addr)
    PROVE  /\ Heap'
           /\ Boxed' = Boxed \cup {s}
           /\ Own(s)' = cells
           /\ Arrays!Says(s, cells)
           /\ \A i \in 1..Len(cs) : StillFrame(cs[i])
<1>1. /\ Heap' /\ Boxed' = Boxed \cup {s} /\ Own(s)' = cells
      /\ \A t \in Boxed \ {s} : array'[t] = array[t] /\ Own(t)' = Own(t)
  BY Packing
<1>2. Arrays!Says(s, cells)
  BY <1>1 DEF Arrays!Says, Own
<1>3. \A i \in 1..Len(cs) : cs[i].op # "result" => cs[i].of \in Boxed
  BY DEF Frames, Frame
<1>4. \A t \in Boxed : HeldBy(cs, t) => array'[t] = array[t] /\ Own(t)' = Own(t)
  BY <1>1
<1>5. \A i \in 1..Len(cs) : StillFrame(cs[i])
  BY <1>1, <1>3, <1>4, FrameKept
<1> QED
  BY <1>1, <1>2, <1>5

(* A step that leaves the heap alone.                                      *)
LEMMA Looking ==
    ASSUME Heap, NEW cs, Frames(cs), UNCHANGED <<memory, array, leaked>>
    PROVE  /\ Heap'
           /\ Boxed' = Boxed
           /\ [s \in Boxed |-> Contents(memory, array[s])]' =
                 [s \in Boxed |-> Contents(memory, array[s])]
           /\ \A i \in 1..Len(cs) : StillFrame(cs[i])
<1>1. Heap' /\ Boxed' = Boxed
  BY DEF Heap, PartsDescribeBuffer, OneOwner, Allocated, Boxed, Contents
<1>2. \A i \in 1..Len(cs) : StillFrame(cs[i])
  BY DEF Frames, Frame, StillFrame, Boxed
<1> QED
  BY <1>1, <1>2 DEF Boxed

(* A change of an array, as one step and with nothing returned.            *)
LEMMA Changing ==
    ASSUME IInv, ~TouchHeld, NEW s \in Ary, NEW cells \in Seq(Value), Changes(s, cells)
    PROVE  /\ IInv' /\ s \in Boxed
           /\ cells \in Cells
           /\ Arrays!Says(s, cells) /\ Answered' = Answered
<1>1. /\ RubyRuns /\ s \in Boxed /\ MayChange(s, calls)
      /\ Box(s, Update(memory, array[s], cells))
      /\ calls' = calls /\ leaked' = leaked
  BY DEF Changes
<1>2. PICK v \in Update(memory, array[s], cells) :
         memory' = v.mem /\ array' = [array EXCEPT ![s] = v.parts]
  BY <1>1 DEF Box
<1>3. cells \in Cells /\ Places(v, Dropped(memory, array[s]), cells)
  BY <1>1, <1>2, UpdatePlaces DEF IInv
<1>4. ~HeldBy(calls, s)
  BY <1>1, NotHeld DEF IInv
<1>5. /\ Heap' /\ Arrays!Says(s, cells) /\ \A i \in 1..Len(calls) : StillFrame(calls[i])
  BY <1>1, <1>2, <1>3, <1>4, PackingSays DEF IInv
<1>6. Frames(calls)'
  BY <1>1, <1>5, FramesKept DEF IInv
<1> QED
  BY <1>1, <1>3, <1>5, <1>6, SameCalls DEF IInv

LEMMA PushStep ==
    ASSUME IInv, ~TouchHeld, NEW s \in Ary, NEW x \in Value, Push(s, x)
    PROVE  IInv' /\ Arrays!Next
<1> DEFINE b == Own(s)
<1>1. s \in Boxed /\ Changes(s, Append(b, x)) /\ call' = <<"push", s, x>>
  BY DEF Push, Changes
<1>2. b \in Seq(Value) /\ Append(b, x) \in Seq(Value)
  BY <1>1, ArrayTypes, Adding DEF IInv
<1>3. IInv' /\ Arrays!Says(s, Append(b, x)) /\ Answered' = Answered
  BY <1>1, <1>2, Changing
<1>4. Arrays!Change(s)
  BY <1>1, <1>3 DEF Arrays!Change, Arrays!Value, Value, Answered, Own
<1> QED
  BY <1>3, <1>4 DEF Arrays!Next

(* The receiver's elements, as a call that changes it finds them.          *)
LEMMA OwnCells ==
    ASSUME IInv, NEW s \in Boxed
    PROVE  Own(s) \in Seq(Value) /\ Own(s) \in Cells /\ Len(Own(s)) \in Length
BY ArrayTypes, CellsAreSequences DEF IInv

LEMMA UnshiftStep ==
    ASSUME IInv, ~TouchHeld, NEW s \in Ary, NEW x \in Value, Unshift(s, x)
    PROVE  IInv' /\ Arrays!Next
<1> DEFINE b == Own(s)
<1>1. /\ s \in Boxed /\ Changes(s, InsertAt(b, 0, <<x>>))
      /\ call' = <<"unshift", s, x>>
  BY DEF Unshift, Changes
<1>2. InsertAt(b, 0, <<x>>) = <<x>> \o b /\ <<x>> \o b \in Seq(Value)
  BY <1>1, OwnCells, Adding
<1>3. IInv' /\ Arrays!Says(s, <<x>> \o b) /\ Answered' = Answered
  BY <1>1, <1>2, Changing
<1>4. Arrays!Change(s)
  BY <1>1, <1>3 DEF Arrays!Change, Arrays!Value, Value, Answered, Own
<1> QED
  BY <1>3, <1>4 DEF Arrays!Next

LEMMA SetAtStep ==
    ASSUME IInv, ~TouchHeld, NEW s \in Ary, NEW i \in Length, NEW x \in Value, SetAt(s, i, x)
    PROVE  IInv' /\ Arrays!Next
<1> DEFINE b == Own(s)
<1>1. s \in Boxed /\ Changes(s, Set(b, i, x)) /\ call' = <<"set", s, i, x>>
  BY DEF SetAt, Changes
<1>2. i \in Nat /\ <<x>> \in Seq(Value) /\ b \in Seq(Value)
  BY <1>1, OwnCells, BoundsAreNatural DEF Length
<1>3. /\ Set(b, i, x) = Arrays!Splice(b, i, 1, <<x>>)
      /\ Arrays!Splice(b, i, 1, <<x>>) \in Seq(Value)
  BY <1>2, SetIsSplice, Splices
<1>4. /\ IInv' /\ Arrays!Says(s, Arrays!Splice(b, i, 1, <<x>>))
      /\ Answered' = Answered
  BY <1>1, <1>3, Changing
<1>5. Arrays!Change(s)
  BY <1>1, <1>4 DEF Arrays!Change, Arrays!Value, Value, Answered, Own
<1> QED
  BY <1>4, <1>5 DEF Arrays!Next

LEMMA PopStep ==
    ASSUME IInv, ~TouchHeld, NEW s \in Ary, Pop(s)
    PROVE  IInv' /\ Arrays!Next
<1> DEFINE b == Own(s)
<1>1. s \in Boxed /\ Changes(s, PopN(b, 1).left) /\ call' = <<"pop", s>>
  BY DEF Pop, Changes
<1>2. /\ PopN(b, 1).left = Arrays!Before(b, Len(b) - 1)
      /\ PopN(b, 1).left \in Seq(Value)
  BY <1>1, OwnCells, Popping
<1>3. IInv' /\ Arrays!Says(s, Arrays!Before(b, Len(b) - 1)) /\ Answered' = Answered
  BY <1>1, <1>2, Changing
<1>4. Arrays!Change(s)
  BY <1>1, <1>3 DEF Arrays!Change, Answered, Own
<1> QED
  BY <1>3, <1>4 DEF Arrays!Next

LEMMA ShiftOneStep ==
    ASSUME IInv, ~TouchHeld, NEW s \in Ary, ShiftOne(s)
    PROVE  IInv' /\ Arrays!Next
<1> DEFINE b == Own(s)
<1>1. s \in Boxed /\ Changes(s, DeleteAt(b, 0)) /\ call' = <<"shift", s>>
  BY DEF ShiftOne, Changes
<1>2. DeleteAt(b, 0) = Arrays!After(b, 1) /\ DeleteAt(b, 0) \in Seq(Value)
  BY <1>1, OwnCells, ShiftingOne
<1>3. IInv' /\ Arrays!Says(s, Arrays!After(b, 1)) /\ Answered' = Answered
  BY <1>1, <1>2, Changing
<1>4. Arrays!Change(s)
  BY <1>1, <1>3 DEF Arrays!Change, Answered, Own
<1> QED
  BY <1>3, <1>4 DEF Arrays!Next

LEMMA ReverseBangStep ==
    ASSUME IInv, ~TouchHeld, NEW s \in Ary, ReverseBang(s)
    PROVE  IInv' /\ Arrays!Next
<1> DEFINE b == Own(s)
<1>1. s \in Boxed /\ Changes(s, Reversed(b)) /\ call' = <<"reverse!", s>>
  BY DEF ReverseBang, Changes
<1>2. Reversed(b) = Arrays!Turned(b) /\ Reversed(b) \in Seq(Value)
  BY <1>1, OwnCells, Rearranging
<1>3. IInv' /\ Arrays!Says(s, Arrays!Turned(b)) /\ Answered' = Answered
  BY <1>1, <1>2, Changing
<1>4. Arrays!Change(s)
  BY <1>1, <1>3 DEF Arrays!Change, Answered, Own
<1> QED
  BY <1>3, <1>4 DEF Arrays!Next

LEMMA ClearStep ==
    ASSUME IInv, ~TouchHeld, NEW s \in Ary, Clear(s)
    PROVE  IInv' /\ Arrays!Next
<1>1. s \in Boxed /\ Changes(s, <<>>) /\ call' = <<"clear", s>>
  BY DEF Clear, Changes
<1>2. <<>> \in Seq(Value)
  BY EmptySeq
<1>3. IInv' /\ Arrays!Says(s, <<>>) /\ Answered' = Answered
  BY <1>1, <1>2, Changing
<1>4. Arrays!Change(s)
  BY <1>1, <1>3 DEF Arrays!Change, Answered
<1> QED
  BY <1>3, <1>4 DEF Arrays!Next

LEMMA ExtendStep ==
    ASSUME IInv, ~TouchHeld, NEW s \in Ary, NEW t \in Ary, Extend(s, t)
    PROVE  IInv' /\ Arrays!Next
<1> DEFINE b == Own(s)
           u == Own(t)
<1>1. s \in Boxed /\ t \in Boxed /\ Changes(s, b \o u) /\ call' = <<"concat", s, u>>
  BY DEF Extend, Changes
<1>2. b \o u \in Seq(Value) /\ \E n \in Length : u \in [1..n -> Value]
  BY <1>1, OwnCells, ConcatProperties DEF Cells
<1>3. IInv' /\ Arrays!Says(s, b \o u) /\ Answered' = Answered
  BY <1>1, <1>2, Changing
<1>4. Arrays!Change(s)
  BY <1>1, <1>2, <1>3 DEF Arrays!Change, Arrays!Value, Value, Answered, Own
<1> QED
  BY <1>3, <1>4 DEF Arrays!Next

(* A new array.                                                            *)
LEMMA NewStep ==
    ASSUME IInv, ~TouchHeld, NEW s \in Ary, NEW cells \in Cells, New(s, cells)
    PROVE  IInv' /\ Arrays!Next
<1>9. PICK n \in Len(cells)..MaxCapacity : Box(s, Fresh(memory, cells, n))
  BY DEF New
<1>1. PICK v \in Fresh(memory, cells, n) :
         memory' = v.mem /\ array' = [array EXCEPT ![s] = v.parts]
  BY <1>9 DEF Box
<1>2. s \notin Boxed /\ call' = <<"new", s, cells>> /\ calls' = calls /\ leaked' = leaked
  BY DEF New
<1>3. Places(v, memory, cells)
  BY <1>1, FreshPlaces DEF IInv, Heap
<1>4. array[s].ptr = Null /\ leaked' = leaked \cup ({array[s].ptr} \cap Addr)
  BY <1>2, DistinctPointers DEF Boxed
<1>5. ~HeldBy(calls, s)
  <2>1. \A i \in 1..Len(calls) : calls[i].op # "result" => calls[i].of \in Boxed
    BY DEF IInv, Frames, Frame
  <2> QED
    BY <1>2, <2>1 DEF HeldBy, Holds
<1>6. Heap' /\ Arrays!Says(s, cells) /\ \A i \in 1..Len(calls) : StillFrame(calls[i])
  BY <1>1, <1>3, <1>4, <1>5, PackingSays DEF IInv
<1>7. IInv' /\ Answered' = Answered
  BY <1>2, <1>6, FramesKept, SameCalls DEF IInv
<1>8. Arrays!Make(s)
  BY <1>2, <1>6, <1>7 DEF Arrays!Make, Arrays!Value, Value, Answered, Cells
<1> QED
  BY <1>7, <1>8 DEF Arrays!Next

(* The answer of a call that leaves its receiver alone.                    *)
LEMMA ReverseStep ==
    ASSUME IInv, ~TouchHeld, NEW s \in Ary, Reverse(s)
    PROVE  IInv' /\ Arrays!Next
<1> DEFINE r == Reversed(Own(s))
<1>1. /\ s \in Boxed /\ RubyRuns /\ calls' = Append(calls, Returns(r))
      /\ call' = <<"reverse", s>> /\ UNCHANGED <<memory, array, leaked>>
  BY DEF Reverse
<1>2. r = Arrays!Turned(Own(s)) /\ r \in Cells
  <2>1. /\ r = Arrays!Turned(Own(s)) /\ r \in Seq(Value) /\ Len(r) = Len(Own(s))
        /\ Len(Own(s)) <= MaxCapacity
    BY <1>1, OwnCells, Rearranging, BoundsAreNatural DEF Length
  <2> QED
    BY <2>1, CellsAreSequences
<1>3. /\ Heap' /\ \A i \in 1..Len(calls) : StillFrame(calls[i])
      /\ [t \in Boxed |-> Contents(memory, array[t])]' =
            [t \in Boxed |-> Contents(memory, array[t])]
  BY <1>1, Looking DEF IInv
<1>4. calls \in Seq(Call) /\ \A i \in 1..Len(calls) : calls[i].op # "result"
  BY <1>1 DEF IInv, Frames, RubyRuns, Ending, Top
<1> HIDE DEF r
<1>5. Answered' = Arrays!Returning(r) /\ Returns(r) \in Call /\ StillFrame(Returns(r))
  BY <1>1, <1>2, <1>4, AnswersNext
<1>6. IInv'
  BY <1>1, <1>3, <1>4, <1>5, FramesPushed DEF IInv
<1>7. Arrays!Look(s)
  BY <1>1, <1>2, <1>3, <1>5 DEF Arrays!Look, Answered, Own
<1> QED
  BY <1>6, <1>7 DEF Arrays!Next

(* initialize_copy leaves the receiver's buffer behind.                    *)
LEMMA InitializeCopyStep ==
    ASSUME IInv, ~TouchHeld, NEW s \in Ary, NEW t \in Ary, InitializeCopy(s, t)
    PROVE  IInv' /\ Arrays!Next
<1> DEFINE c == IF s = t THEN <<>> ELSE Own(t)
<1>1. /\ s \in Boxed /\ t \in Boxed /\ MayChange(s, calls)
      /\ Box(s, Fresh(memory, c, Len(c)))
      /\ leaked' = leaked \cup ({array[s].ptr} \cap Addr)
      /\ call' = <<"copy", s, t>> /\ calls' = calls
  BY DEF InitializeCopy
<1>2. c \in Cells /\ Len(c) \in Len(c)..MaxCapacity
  BY <1>1, OwnCells, NothingIsCells, BoundsAreNatural DEF Length
<1> HIDE DEF c
<1>3. PICK v \in Fresh(memory, c, Len(c)) :
         memory' = v.mem /\ array' = [array EXCEPT ![s] = v.parts]
  BY <1>1 DEF Box
<1>4. Places(v, memory, c)
  BY <1>2, <1>3, FreshPlaces DEF IInv, Heap
<1>5. ~HeldBy(calls, s)
  BY <1>1, NotHeld DEF IInv
<1>6. Heap' /\ Arrays!Says(s, c) /\ \A i \in 1..Len(calls) : StillFrame(calls[i])
  BY <1>1, <1>3, <1>4, <1>5, PackingSays DEF IInv
<1>7. IInv' /\ Answered' = Answered
  BY <1>1, <1>6, FramesKept, SameCalls DEF IInv
<1>8. Arrays!Change(s)
  BY <1>1, <1>6, <1>7 DEF Arrays!Change, Answered, Own, c
<1> QED
  BY <1>7, <1>8 DEF Arrays!Next

(* The collector frees only what no call in progress has as receiver.      *)
LEMMA FreeStep ==
    ASSUME IInv, ~TouchHeld, NEW s \in Ary, FreeAry(s)
    PROVE  IInv' /\ Arrays!Next
<1>1. /\ s \in Boxed /\ \A i \in DOMAIN calls : calls[i].of # s
      /\ memory' = Dropped(memory, array[s]) /\ array' = [array EXCEPT ![s] = NoParts]
      /\ call' = <<"free", s>> /\ calls' = calls /\ leaked' = leaked
  BY DEF FreeAry
<1>2. /\ Heap' /\ Boxed' = Boxed \ {s}
      /\ \A t \in Boxed \ {s} : array'[t] = array[t] /\ Own(t)' = Own(t)
  BY <1>1, Freeing DEF IInv
<1>3. /\ Boxed \ {s} \subseteq Boxed
      /\ \A i \in 1..Len(calls) : calls[i].op # "result" => calls[i].of \in Boxed \ {s}
  BY <1>1 DEF IInv, Frames, Frame
<1>4. \A i \in 1..Len(calls) : StillFrame(calls[i])
  BY <1>2, <1>3, FrameKept DEF IInv
<1>5. IInv' /\ Answered' = Answered
  BY <1>1, <1>2, <1>4, FramesKept, SameCalls DEF IInv
<1>6. Arrays!Change(s)
  BY <1>1, <1>2, <1>5 DEF Arrays!Change, Answered, Own
<1> QED
  BY <1>5, <1>6 DEF Arrays!Next

(***************************************************************************)
(* Calls that run Ruby code.                                               *)
(***************************************************************************)

LEMMA NothingAnsweredPushed ==
    ASSUME NEW cs \in Seq(Call), NEW c \in Call, c.op # "result", calls' = Append(cs, c)
    PROVE  Answered' = Arrays!NoResult
<1>1. /\ calls' # <<>> /\ Len(calls') = Len(cs) + 1 /\ calls'[Len(cs) + 1] = c
  BY AppendProperties
<1> QED
  BY <1>1 DEF Answered, Ending, Top, Arrays!NoResult

(* While Ruby code runs there is no result on its way.                     *)
LEMMA RubyRunning ==
    ASSUME IInv, RubyRuns
    PROVE  /\ calls \in Seq(Call) /\ \A i \in 1..Len(calls) : calls[i].op # "result"
           /\ Answered = Arrays!NoResult
<1>1. calls = <<>> \/ Top.op # "result"
  BY DEF RubyRuns, Ending
<1>2. \A i \in 1..Len(calls) : calls[i].op # "result"
  BY <1>1 DEF IInv, Frames, Top
<1> QED
  BY <1>1, <1>2, NothingAnswered DEF IInv, Frames

(* A call that is about to end, and the receiver it holds.                 *)
LEMMA EndingCall ==
    ASSUME IInv, NEW op, Ending(op)
    PROVE  /\ Top \in Call /\ Top.op = op /\ Frames(Below) /\ Below \in Seq(Call)
           /\ \A i \in 1..Len(Below) : Below[i].op # "result"
           /\ op # "result" => /\ Top.of \in Boxed /\ Top.of \in Ary
                               /\ Answered = Arrays!NoResult
           /\ op \in Holds => Top.parts = array[Top.of] /\ Held = Own(Top.of)
           /\ op = "concat" => Starts(Own(Top.of), Top.got)
<1>1. calls # <<>> /\ Top.op = op
  BY DEF Ending
<1>2. /\ Top \in Call /\ Frame(Top) /\ Frames(Below) /\ Below \in Seq(Call)
      /\ \A i \in 1..Len(Below) : Below[i].op # "result"
  BY <1>1, TopCall DEF IInv, Frames
<1>3. "concat" \in Holds
  BY DEF Holds
<1> QED
  BY <1>1, <1>2, <1>3, NothingAnswered DEF Frame, Held, Own, Boxed

LEMMA EnterStep ==
    ASSUME IInv, ~TouchHeld, NEW op \in Holds, NEW s \in Ary, Enter(op, s)
    PROVE  IInv' /\ Arrays!Next
<1> DEFINE c == [op |-> op, of |-> s, parts |-> array[s],
                 got |-> IF op = "concat" THEN Own(s) ELSE <<>>]
<1>1. /\ RubyRuns /\ s \in Boxed /\ calls' = Append(calls, c)
      /\ call' = <<"enter", s>> /\ UNCHANGED <<memory, array, leaked>>
  BY DEF Enter
<1>2. c \in Call /\ c.op # "result"
  BY <1>1, OwnCells, NothingIsCells, ArrayTypes DEF IInv, Call, Holds
<1>3. /\ Heap' /\ Boxed' = Boxed /\ \A i \in 1..Len(calls) : StillFrame(calls[i])
      /\ [t \in Boxed |-> Contents(memory, array[t])]' =
            [t \in Boxed |-> Contents(memory, array[t])]
  BY <1>1, Looking DEF IInv
<1>4. StillFrame(c)
  <2>1. Len(Own(s)) \in Nat
    BY <1>1, OwnCells, LenProperties
  <2> QED
    BY <1>1, <1>3, <2>1 DEF StillFrame, Starts, Own
<1> HIDE DEF c
<1>5. Answered' = Answered
  BY <1>1, <1>2, RubyRunning, NothingAnsweredPushed
<1>6. IInv'
  BY <1>1, <1>2, <1>3, <1>4, RubyRunning, FramesPushed DEF IInv
<1>7. Arrays!Look(s)
  BY <1>1, <1>3, <1>5 DEF Arrays!Look, Answered
<1> QED
  BY <1>6, <1>7 DEF Arrays!Next

(* An exception: []= packs parts that have not changed.                    *)
LEMMA FailStep ==
    ASSUME IInv, ~TouchHeld, Fail
    PROVE  IInv' /\ Arrays!Next
<1>1. /\ calls # <<>> /\ Top.op # "result" /\ calls' = Below
      /\ call' = <<"fail", Top.of>> /\ UNCHANGED <<memory, leaked>>
      /\ array' = IF Top.op = "aset" THEN [array EXCEPT ![Top.of] = Top.parts] ELSE array
  BY DEF Fail
<1>2. /\ Top.of \in Boxed /\ Top.of \in Ary /\ Answered = Arrays!NoResult
      /\ Frames(Below) /\ Below \in Seq(Call)
      /\ \A i \in 1..Len(Below) : Below[i].op # "result"
      /\ Top.op = "aset" => Top.parts = array[Top.of]
  BY <1>1, EndingCall DEF Ending, Holds
<1>3. array' = array
  BY <1>1, <1>2 DEF IInv, Heap
<1>4. /\ Heap' /\ \A i \in 1..Len(Below) : StillFrame(Below[i])
      /\ [t \in Boxed |-> Contents(memory, array[t])]' =
            [t \in Boxed |-> Contents(memory, array[t])]
  BY <1>1, <1>2, <1>3, Looking DEF IInv
<1>5. IInv' /\ Answered' = Answered
  BY <1>1, <1>2, <1>4, FramesKept, NothingAnsweredNext DEF IInv
<1>6. Arrays!Look(Top.of)
  BY <1>1, <1>2, <1>4, <1>5 DEF Arrays!Look, Answered
<1> QED
  BY <1>2, <1>5, <1>6 DEF Arrays!Next

(* A call that reads its receiver and ends.                                *)
LEMMA Answering ==
    ASSUME IInv, ~TouchHeld, NEW cells \in Seq(Value), NEW as, Answer(cells, as)
    PROVE  /\ IInv' /\ Top.of \in Boxed /\ Top.of \in Ary /\ call' = as
           /\ Held = Own(Top.of) /\ Answered' = Arrays!Returning(cells)
           /\ [t \in Boxed |-> Contents(memory, array[t])]' =
                 [t \in Boxed |-> Contents(memory, array[t])]
<1>1. /\ Ending("read") /\ Len(cells) <= MaxCapacity
      /\ calls' = Append(Below, Returns(cells)) /\ call' = as
      /\ UNCHANGED <<memory, array, leaked>>
  BY DEF Answer
<1>2. /\ Frames(Below) /\ Below \in Seq(Call)
      /\ \A i \in 1..Len(Below) : Below[i].op # "result"
      /\ Top.of \in Boxed /\ Top.of \in Ary /\ Held = Own(Top.of)
  BY <1>1, EndingCall DEF Holds
<1>3. cells \in Cells
  BY <1>1, CellsAreSequences
<1>4. Answered' = Arrays!Returning(cells) /\ Returns(cells) \in Call /\ StillFrame(Returns(cells))
  BY <1>1, <1>2, <1>3, AnswersNext
<1>5. /\ Heap' /\ \A i \in 1..Len(Below) : StillFrame(Below[i])
      /\ [t \in Boxed |-> Contents(memory, array[t])]' =
            [t \in Boxed |-> Contents(memory, array[t])]
  BY <1>1, <1>2, Looking DEF IInv
<1>6. IInv'
  BY <1>1, <1>2, <1>4, <1>5, FramesPushed DEF IInv
<1> QED
  BY <1>1, <1>2, <1>4, <1>5, <1>6

(* The receiver of a call that reads.                                      *)
LEMMA ReadCells ==
    ASSUME IInv, NEW op \in Holds, Ending(op)
    PROVE  Held = Own(Top.of) /\ Held \in Seq(Value) /\ Len(Held) \in Length
BY EndingCall, OwnCells DEF Holds

LEMMA LengthsAreNatural == Length \subseteq Nat /\ \A n \in Length : n <= MaxCapacity
BY BoundsAreNatural DEF Length

LEMMA FirstStep ==
    ASSUME IInv, ~TouchHeld, NEW n \in Length, First(n)
    PROVE  IInv' /\ Arrays!Next
<1>1. Answer(FirstN(Held, n), <<"slice", Top.of, 0, n>>) /\ Ending("read") /\ "read" \in Holds
  BY DEF First, Answer, Holds
<1>2. /\ FirstN(Held, n) \in Seq(Value)
      /\ FirstN(Held, n) = SubSeq(Held, 1, IF n < Len(Held) THEN n ELSE Len(Held))
  BY <1>1, ReadCells, Reading, LengthsAreNatural
<1>3. /\ IInv' /\ Top.of \in Boxed /\ Top.of \in Ary
      /\ call' = <<"slice", Top.of, 0, n>>
      /\ Held = Own(Top.of) /\ Answered' = Arrays!Returning(FirstN(Held, n))
      /\ [t \in Boxed |-> Contents(memory, array[t])]' =
            [t \in Boxed |-> Contents(memory, array[t])]
  BY <1>1, <1>2, Answering
<1>4. FirstN(Held, n) = SubSeq(Held, 0 + 1, IF 0 + n < Len(Held) THEN 0 + n ELSE Len(Held))
  BY <1>2, LengthsAreNatural
<1>5. Arrays!Look(Top.of)
  BY <1>3, <1>4, NothingIsCells DEF Arrays!Look, Answered, Own
<1> QED
  BY <1>3, <1>5 DEF Arrays!Next

LEMMA LastStep ==
    ASSUME IInv, ~TouchHeld, NEW n \in Length, Last(n)
    PROVE  IInv' /\ Arrays!Next
<1> DEFINE i == Minus(Len(Held), n)
           r == LastN(Held, n)
<1>1. Answer(r, <<"slice", Top.of, i, MaxCapacity>>) /\ Ending("read") /\ "read" \in Holds
  BY DEF Last, Answer, Holds
<1>2. r \in Seq(Value) /\ r = SubSeq(Held, i + 1, Len(Held))
  BY <1>1, ReadCells, Reading, LengthsAreNatural
<1>3. Len(Held) \in Length /\ i \in Length /\ MaxCapacity \in Length
  BY <1>1, ReadCells, BoundsAreNatural DEF Length, Minus
<1>4. r = SubSeq(Held, i + 1, IF i + MaxCapacity < Len(Held)
                              THEN i + MaxCapacity ELSE Len(Held))
  <2> HIDE DEF i, r
  <2>1. /\ i \in Nat /\ Len(Held) \in Nat /\ MaxCapacity \in Nat
        /\ Len(Held) <= MaxCapacity
    BY <1>3, BoundsAreNatural DEF Length
  <2>2. ~(i + MaxCapacity < Len(Held))
    BY <2>1
  <2> QED
    BY <1>2, <2>2
<1> HIDE DEF i, r
<1>5. /\ IInv' /\ Top.of \in Boxed /\ Top.of \in Ary
      /\ call' = <<"slice", Top.of, i, MaxCapacity>>
      /\ Held = Own(Top.of) /\ Answered' = Arrays!Returning(r)
      /\ [t \in Boxed |-> Contents(memory, array[t])]' =
            [t \in Boxed |-> Contents(memory, array[t])]
  BY <1>1, <1>2, Answering
<1>6. Arrays!Look(Top.of)
  BY <1>3, <1>4, <1>5 DEF Arrays!Look, Answered, Own
<1> QED
  BY <1>5, <1>6 DEF Arrays!Next

LEMMA ArefStep ==
    ASSUME IInv, ~TouchHeld, NEW i \in Length, NEW n \in Length, Aref(i, n)
    PROVE  IInv' /\ Arrays!Next
<1> DEFINE r == Slice(Held, i, n)
<1>1. Answer(r, <<"slice", Top.of, i, n>>) /\ Ending("read") /\ "read" \in Holds
  BY DEF Aref, Answer, Holds
<1>2. /\ r \in Seq(Value)
      /\ r = SubSeq(Held, i + 1, IF i + n < Len(Held) THEN i + n ELSE Len(Held))
  BY <1>1, ReadCells, Reading, LengthsAreNatural
<1> HIDE DEF r
<1>3. /\ IInv' /\ Top.of \in Boxed /\ Top.of \in Ary
      /\ call' = <<"slice", Top.of, i, n>>
      /\ Held = Own(Top.of) /\ Answered' = Arrays!Returning(r)
      /\ [t \in Boxed |-> Contents(memory, array[t])]' =
            [t \in Boxed |-> Contents(memory, array[t])]
  BY <1>1, <1>2, Answering
<1>4. Arrays!Look(Top.of)
  BY <1>2, <1>3 DEF Arrays!Look, Answered, Own
<1> QED
  BY <1>3, <1>4 DEF Arrays!Next

LEMMA MulStep ==
    ASSUME IInv, ~TouchHeld, NEW n \in Length, Mul(n)
    PROVE  IInv' /\ Arrays!Next
<1> DEFINE r == Repeat(Held, n)
<1>1. Answer(r, <<"*", Top.of, n>>) /\ Ending("read") /\ "read" \in Holds
  BY DEF Mul, Answer, Holds
<1>2. r \in Seq(Value) /\ r = Arrays!Times(Held, n)
  BY <1>1, ReadCells, Rearranging, LengthsAreNatural
<1> HIDE DEF r
<1>3. /\ IInv' /\ Top.of \in Boxed /\ Top.of \in Ary
      /\ call' = <<"*", Top.of, n>>
      /\ Held = Own(Top.of) /\ Answered' = Arrays!Returning(r)
      /\ [t \in Boxed |-> Contents(memory, array[t])]' =
            [t \in Boxed |-> Contents(memory, array[t])]
  BY <1>1, <1>2, Answering
<1>4. Arrays!Look(Top.of)
  BY <1>2, <1>3 DEF Arrays!Look, Answered, Own
<1> QED
  BY <1>3, <1>4 DEF Arrays!Next

LEMMA PlusStep ==
    ASSUME IInv, ~TouchHeld, NEW t \in Ary, Plus(t)
    PROVE  IInv' /\ Arrays!Next
<1> DEFINE r == Held \o Own(t)
<1>1. /\ Answer(r, <<"+", Top.of, t>>) /\ Ending("read") /\ "read" \in Holds
      /\ t \in Boxed
  BY DEF Plus, Answer, Holds
<1>2. r \in Seq(Value)
  BY <1>1, ReadCells, OwnCells, ConcatProperties
<1>3. /\ IInv' /\ Top.of \in Boxed /\ Top.of \in Ary
      /\ call' = <<"+", Top.of, t>>
      /\ Held = Own(Top.of) /\ Answered' = Arrays!Returning(r)
      /\ [u \in Boxed |-> Contents(memory, array[u])]' =
            [u \in Boxed |-> Contents(memory, array[u])]
  BY <1>1, <1>2, Answering
<1>4. Arrays!Look(Top.of)
  BY <1>1, <1>3 DEF Arrays!Look, Answered, Own
<1> QED
  BY <1>3, <1>4 DEF Arrays!Next

(* A call that packs its receiver when it ends, and returns nothing new.   *)
LEMMA PackingEnds ==
    ASSUME IInv, ~TouchHeld, NEW op, op # "result", Ending(op), MayChange(Top.of, Below),
           NEW m, NEW cells, NEW v, Places(v, m, cells),
           memory' = v.mem, array' = [array EXCEPT ![Top.of] = v.parts],
           \/ m = Dropped(memory, array[Top.of]) /\ leaked' = leaked
           \/ m = memory /\ leaked' = leaked \cup ({array[Top.of].ptr} \cap Addr)
    PROVE  /\ Heap' /\ Arrays!Says(Top.of, cells)
           /\ \A i \in 1..Len(Below) : StillFrame(Below[i])
           /\ calls' = Below => IInv' /\ Answered' = Answered
<1>1. /\ Frames(Below) /\ Below \in Seq(Call)
      /\ \A i \in 1..Len(Below) : Below[i].op # "result"
      /\ Top.of \in Boxed /\ Top.of \in Ary /\ Answered = Arrays!NoResult
  BY EndingCall
<1>2. ~HeldBy(Below, Top.of)
  BY <1>1, NotHeld
<1>3. /\ Heap' /\ Arrays!Says(Top.of, cells)
      /\ \A i \in 1..Len(Below) : StillFrame(Below[i])
  BY <1>1, <1>2, PackingSays DEF IInv
<1>4. ASSUME calls' = Below PROVE IInv' /\ Answered' = Answered
  BY <1>1, <1>3, <1>4, FramesKept, NothingAnsweredNext DEF IInv
<1> QED
  BY <1>3, <1>4

LEMMA Asetting ==
    ASSUME IInv, ~TouchHeld, NEW cells \in Seq(Value), NEW as, AsetEnds(cells, as)
    PROVE  /\ IInv' /\ Top.of \in Boxed /\ Top.of \in Ary /\ call' = as
           /\ cells \in Cells
           /\ Held = Own(Top.of) /\ Arrays!Says(Top.of, cells) /\ Answered' = Answered
<1>1. /\ Ending("aset") /\ MayChange(Top.of, Below)
      /\ Box(Top.of, Update(memory, Top.parts, cells))
      /\ calls' = Below /\ call' = as /\ leaked' = leaked
  BY DEF AsetEnds
<1>2. /\ Top.of \in Boxed /\ Top.of \in Ary
      /\ Top.parts = array[Top.of] /\ Held = Own(Top.of)
  BY <1>1, EndingCall DEF Holds
<1>3. PICK v \in Update(memory, array[Top.of], cells) :
         memory' = v.mem /\ array' = [array EXCEPT ![Top.of] = v.parts]
  BY <1>1, <1>2 DEF Box
<1>4. cells \in Cells /\ Places(v, Dropped(memory, array[Top.of]), cells)
  BY <1>2, <1>3, UpdatePlaces DEF IInv
<1>5. IInv' /\ Arrays!Says(Top.of, cells) /\ Answered' = Answered
  BY <1>1, <1>3, <1>4, PackingEnds
<1> QED
  BY <1>1, <1>2, <1>4, <1>5

LEMMA AsetIndexStep ==
    ASSUME IInv, ~TouchHeld, NEW i \in Length, NEW x \in Value, AsetIndex(i, x)
    PROVE  IInv' /\ Arrays!Next
<1> DEFINE r == Set(Held, i, x)
<1>1. /\ AsetEnds(r, <<"set", Top.of, i, x>>) /\ Ending("aset") /\ "aset" \in Holds
  BY DEF AsetIndex, AsetEnds, Holds
<1>2. /\ Held \in Seq(Value) /\ i \in Nat /\ <<x>> \in Seq(Value)
  BY <1>1, ReadCells, LengthsAreNatural
<1>3. r = Arrays!Splice(Held, i, 1, <<x>>) /\ Arrays!Splice(Held, i, 1, <<x>>) \in Seq(Value)
  BY <1>2, SetIsSplice, Splices
<1> HIDE DEF r
<1>4. /\ IInv' /\ Top.of \in Boxed /\ Top.of \in Ary
      /\ call' = <<"set", Top.of, i, x>>
      /\ Held = Own(Top.of) /\ Arrays!Says(Top.of, r) /\ Answered' = Answered
  BY <1>1, <1>3, Asetting
<1>5. Arrays!Change(Top.of)
  BY <1>3, <1>4 DEF Arrays!Change, Arrays!Value, Value, Answered, Own
<1> QED
  BY <1>4, <1>5 DEF Arrays!Next

(* What takes the place of some elements is in the bounds if all of it is. *)
LEMMA SpliceValues ==
    ASSUME NEW b \in Seq(Value), NEW i \in Nat, NEW n \in Nat, NEW v \in Seq(Value),
           Arrays!Splice(b, i, n, v) \in Cells
    PROVE  \E l \in Length : v \in [1..l -> Value]
<1>1. /\ Len(Arrays!Splice(b, i, n, v)) = i + Len(v) + Minus(Len(b), i + n)
      /\ Len(Arrays!Splice(b, i, n, v)) <= MaxCapacity
  <2>1. Len(Arrays!Splice(b, i, n, v)) = i + Len(v) + Minus(Len(b), i + n)
    BY Splices
  <2>2. Len(Arrays!Splice(b, i, n, v)) \in Length
    BY CellsAreSequences
  <2>3. Len(Arrays!Splice(b, i, n, v)) <= MaxCapacity
    BY <2>2, LengthsAreNatural
  <2> QED
    BY <2>1, <2>3
<1>2. Len(v) \in Nat /\ Len(b) \in Nat /\ Minus(Len(b), i + n) \in Nat
  BY LenProperties DEF Minus
<1>3. Len(v) <= MaxCapacity
  BY <1>1, <1>2, BoundsAreNatural
<1> QED
  BY <1>3, CellsAreSequences

LEMMA AsetElementStep ==
    ASSUME IInv, ~TouchHeld, NEW i \in Length, NEW n \in Length, NEW x \in Value,
           AsetElement(i, n, x)
    PROVE  IInv' /\ Arrays!Next
<1> DEFINE r == SetWithDrain(Held, i, n, x)
           w == <<x>>
<1>1. /\ AsetEnds(r, <<"splice", Top.of, i, n, w>>) /\ Ending("aset") /\ "aset" \in Holds
  BY DEF AsetElement, AsetEnds, Holds
<1>2. Held \in Seq(Value) /\ i \in Nat /\ n \in Nat /\ w \in Seq(Value)
  BY <1>1, ReadCells, LengthsAreNatural
<1>3. r = Arrays!Splice(Held, i, n, w)
  BY <1>2, SetWithDrainIsSplice
<1> HIDE DEF r, w
<1>4. r \in Seq(Value)
  BY <1>2, <1>3, Splices
<1>5. /\ IInv' /\ Top.of \in Boxed /\ Top.of \in Ary /\ r \in Cells
      /\ call' = <<"splice", Top.of, i, n, w>>
      /\ Held = Own(Top.of) /\ Arrays!Says(Top.of, r) /\ Answered' = Answered
  BY <1>1, <1>4, Asetting
<1>6. \E l \in Length : w \in [1..l -> Value]
  BY <1>2, <1>3, <1>5, SpliceValues
<1>7. Arrays!Change(Top.of)
  BY <1>3, <1>5, <1>6 DEF Arrays!Change, Arrays!Value, Value, Answered, Own
<1> QED
  BY <1>5, <1>7 DEF Arrays!Next

LEMMA AsetSliceStep ==
    ASSUME IInv, ~TouchHeld, NEW i \in Length, NEW n \in Length, NEW t \in Ary,
           AsetSlice(i, n, t)
    PROVE  IInv' /\ Arrays!Next
<1> DEFINE w == Own(t)
           r == SetSlice(Held, i, n, w)
<1>1. /\ AsetEnds(r, <<"splice", Top.of, i, n, w>>) /\ Ending("aset") /\ "aset" \in Holds
      /\ t \in Boxed
  BY DEF AsetSlice, AsetEnds, Holds
<1>2. /\ Held \in Seq(Value) /\ i \in Nat /\ n \in Nat /\ w \in Seq(Value)
      /\ \E l \in Length : w \in [1..l -> Value]
  BY <1>1, ReadCells, OwnCells, LengthsAreNatural DEF Cells
<1>3. r = Arrays!Splice(Held, i, n, w)
  BY <1>2, SetSliceIsSplice
<1> HIDE DEF r, w
<1>4. r \in Seq(Value)
  BY <1>2, <1>3, Splices
<1>5. /\ IInv' /\ Top.of \in Boxed /\ Top.of \in Ary
      /\ call' = <<"splice", Top.of, i, n, w>>
      /\ Held = Own(Top.of) /\ Arrays!Says(Top.of, r) /\ Answered' = Answered
  BY <1>1, <1>4, Asetting
<1>6. Arrays!Change(Top.of)
  BY <1>2, <1>3, <1>5 DEF Arrays!Change, Arrays!Value, Value, Answered, Own
<1> QED
  BY <1>5, <1>6 DEF Arrays!Next

(* shift with a count: what is taken is returned.                          *)
LEMMA ShiftEndsStep ==
    ASSUME IInv, ~TouchHeld, NEW n \in Length, ShiftEnds(n)
    PROVE  IInv' /\ Arrays!Next
<1> DEFINE b == Own(Top.of)
           l == Arrays!After(b, n)
           r == ShiftN(b, n).taken
<1>1. /\ Ending("shift") /\ MayChange(Top.of, Below)
      /\ Box(Top.of, IF n > 0 /\ n >= Len(Held) THEN Renewed(memory, Top.parts)
                     ELSE Update(memory, Top.parts, ShiftN(Held, n).left))
      /\ calls' = Append(Below, Returns(ShiftN(Held, n).taken))
      /\ call' = <<"shift", Top.of, n>> /\ leaked' = leaked
  BY DEF ShiftEnds
<1>2. /\ Top.of \in Boxed /\ Top.of \in Ary /\ Held = b /\ Top.parts = array[Top.of]
      /\ Frames(Below) /\ Below \in Seq(Call)
      /\ \A i \in 1..Len(Below) : Below[i].op # "result"
  BY <1>1, EndingCall DEF Holds
<1>3. b \in Seq(Value) /\ Len(b) \in Length /\ n \in Nat
  BY <1>2, OwnCells, LengthsAreNatural
<1>4. /\ ShiftN(b, n).left = l /\ l \in Seq(Value)
      /\ r = SubSeq(b, 1, IF n < Len(b) THEN n ELSE Len(b))
      /\ r \in Seq(Value) /\ Len(r) <= Len(b)
      /\ n > 0 /\ n >= Len(b) => l = <<>>
  BY <1>3, Shifting
<1>5. r \in Cells
  <2>1. Len(r) <= MaxCapacity
    BY <1>3, <1>4, LenProperties, LengthsAreNatural, BoundsAreNatural
  <2> QED
    BY <1>4, <2>1, CellsAreSequences
<1> HIDE DEF l, r, b
<1>6. \E v : /\ Places(v, Dropped(memory, array[Top.of]), l)
             /\ memory' = v.mem /\ array' = [array EXCEPT ![Top.of] = v.parts]
  <2>1. CASE n > 0 /\ n >= Len(Held)
    <3>1. PICK v \in Renewed(memory, array[Top.of]) :
             memory' = v.mem /\ array' = [array EXCEPT ![Top.of] = v.parts]
      BY <1>1, <1>2, <2>1 DEF Box
    <3>2. Places(v, Dropped(memory, array[Top.of]), <<>>)
      BY <1>2, RenewedPlaces DEF IInv
    <3> QED
      BY <1>2, <1>4, <2>1, <3>1, <3>2
  <2>2. CASE ~(n > 0 /\ n >= Len(Held))
    <3>1. PICK v \in Update(memory, array[Top.of], l) :
             memory' = v.mem /\ array' = [array EXCEPT ![Top.of] = v.parts]
      BY <1>1, <1>2, <1>4, <2>2 DEF Box
    <3>2. Places(v, Dropped(memory, array[Top.of]), l)
      BY <1>2, <1>4, UpdatePlaces DEF IInv
    <3> QED
      BY <3>1, <3>2
  <2> QED
    BY <2>1, <2>2
<1>7. /\ Heap' /\ Arrays!Says(Top.of, l)
      /\ \A i \in 1..Len(Below) : StillFrame(Below[i])
  BY <1>1, <1>6, PackingEnds
<1>8. calls' = Append(Below, Returns(r))
  BY <1>1, <1>2 DEF r
<1>9. Answered' = Arrays!Returning(r) /\ Returns(r) \in Call /\ StillFrame(Returns(r))
  BY <1>2, <1>5, <1>8, AnswersNext
<1>10. IInv'
  BY <1>2, <1>7, <1>8, <1>9, FramesPushed DEF IInv
<1>11. Arrays!Change(Top.of)
  BY <1>1, <1>2, <1>4, <1>7, <1>9 DEF Arrays!Change, Answered, Own, l, b
<1> QED
  BY <1>2, <1>10, <1>11 DEF Arrays!Next

(* The call on top has gathered more.                                      *)
LEMMA TopReplaced ==
    ASSUME IInv, calls # <<>>, Top.op # "result", NEW c \in Call, c.op # "result",
           StillFrame(c), calls' = [calls EXCEPT ![Len(calls)] = c],
           \A i \in 1..Len(calls) : StillFrame(calls[i])
    PROVE  Frames(calls)' /\ Answered' = Answered
<1>1. /\ calls \in Seq(Call) /\ Len(calls) \in Nat \ {0} /\ Top = calls[Len(calls)]
      /\ \A i \in 1..Len(calls) : calls[i].op = "result" => i = Len(calls)
  BY TopCall DEF IInv, Frames, Top
<1>2. /\ calls' \in Seq(Call) /\ Len(calls') = Len(calls)
      /\ \A i \in 1..Len(calls) : calls'[i] = IF i = Len(calls) THEN c ELSE calls[i]
  BY <1>1, ExceptSeq
<1>3. ASSUME NEW i \in 1..Len(calls')
      PROVE  StillFrame(calls'[i]) /\ calls'[i].op # "result"
  <2>1. CASE i = Len(calls)
    BY <1>2, <2>1
  <2>2. CASE i # Len(calls)
    <3>1. calls'[i] = calls[i] /\ i \in 1..Len(calls)
      BY <1>2, <2>2
    <3> QED
      BY <1>1, <2>2, <3>1
  <2> QED
    BY <2>1, <2>2
<1>4. Frames(calls)'
  BY <1>2, <1>3 DEF Frames, Frame, StillFrame
<1>5. Answered' = Arrays!NoResult
  <2>1. Len(calls') \in Nat \ {0}
    BY <1>1, <1>2
  <2>2. Len(calls') \in 1..Len(calls')
    BY <2>1
  <2>3. calls'[Len(calls')].op # "result"
    BY <1>3, <2>2
  <2> QED
    BY <2>3 DEF Answered, Ending, Top, Arrays!NoResult
<1> QED
  BY <1>4, <1>5, NothingAnswered

(* concat gathers elements behind those of its receiver.                   *)
LEMMA ConcatGathersStep ==
    ASSUME IInv, ~TouchHeld, NEW t \in Ary, ConcatGathers(t)
    PROVE  IInv' /\ Arrays!Next
<1> DEFINE g == Top.got \o Own(t)
           c == [Top EXCEPT !.got = g]
<1>1. /\ Ending("concat") /\ t \in Boxed /\ Len(g) <= MaxCapacity
      /\ calls' = [calls EXCEPT ![Len(calls)].got = @ \o Own(t)]
      /\ call' = <<"enter", Top.of>> /\ UNCHANGED <<memory, array, leaked>>
  BY DEF ConcatGathers
<1>2. /\ Top \in Call /\ Top.op = "concat" /\ Top.of \in Boxed /\ Top.of \in Ary
      /\ Frames(Below) /\ Answered = Arrays!NoResult
      /\ Starts(Own(Top.of), Top.got) /\ Top.parts = array[Top.of]
      /\ \A i \in 1..Len(Below) : Below[i].op # "result"
  BY <1>1, EndingCall DEF Holds
<1>3. Top.got \in Seq(Value) /\ Own(t) \in Seq(Value) /\ Own(Top.of) \in Seq(Value)
  BY <1>1, <1>2, OwnCells, CellsAreSequences DEF Call
<1>4. /\ g \in Seq(Value) /\ Len(g) = Len(Top.got) + Len(Own(t))
      /\ \A k \in 1..Len(Top.got) : g[k] = Top.got[k]
  BY <1>3, ConcatProperties, LenProperties
<1>5. g \in Cells /\ Starts(Own(Top.of), g)
  <2>1. g \in Cells
    BY <1>1, <1>4, CellsAreSequences
  <2>2. Len(Own(Top.of)) \in Nat /\ Len(Top.got) \in Nat /\ Len(Own(t)) \in Nat
    BY <1>3, LenProperties
  <2>3. Len(Own(Top.of)) <= Len(g) /\ 1..Len(Own(Top.of)) \subseteq 1..Len(Top.got)
    BY <1>2, <1>4, <2>2 DEF Starts
  <2> QED
    BY <1>2, <1>4, <2>1, <2>3 DEF Starts
<1> HIDE DEF g
<1>6. c \in Call /\ c.op = "concat" /\ c.of = Top.of /\ c.parts = array[Top.of] /\ c.got = g
  BY <1>2, <1>5 DEF Call
<1>7. /\ Heap' /\ Boxed' = Boxed /\ \A i \in 1..Len(calls) : StillFrame(calls[i])
      /\ [u \in Boxed |-> Contents(memory, array[u])]' =
            [u \in Boxed |-> Contents(memory, array[u])]
  BY <1>1, Looking DEF IInv
<1>8. StillFrame(c)
  <2>1. Contents(memory', c.parts) = Own(Top.of)
    BY <1>1, <1>6 DEF Own
  <2> QED
    BY <1>1, <1>2, <1>5, <1>6, <1>7, <2>1 DEF StillFrame
<1>9. calls' = [calls EXCEPT ![Len(calls)] = c]
  <2>1. c = [Top EXCEPT !.got = Top.got \o Own(t)] /\ Top = calls[Len(calls)]
    BY DEF g, Top
  <2> QED
    BY <1>1, <2>1
<1> HIDE DEF c
<1>10. IInv' /\ Answered' = Answered
  BY <1>1, <1>2, <1>6, <1>7, <1>8, <1>9, TopReplaced DEF IInv, Ending
<1>11. Arrays!Look(Top.of)
  BY <1>1, <1>2, <1>7, <1>10 DEF Arrays!Look, Answered
<1> QED
  BY <1>2, <1>10, <1>11 DEF Arrays!Next

LEMMA StartsAndRest ==
    ASSUME NEW b \in Seq(Value), NEW g \in Seq(Value), Starts(b, g)
    PROVE  g = b \o Onward(g, Len(b)) /\ Onward(g, Len(b)) \in Seq(Value)
<1> DEFINE r == Onward(g, Len(b))
<1>1. Len(b) \in Nat /\ Len(g) \in Nat /\ Len(b) <= Len(g) /\ \A k \in 1..Len(b) : g[k] = b[k]
  BY LenProperties DEF Starts
<1>2. /\ r \in Seq(Value) /\ Len(r) = Len(g) - Len(b)
      /\ \A k \in 1..Len(g) - Len(b) : r[k] = g[Len(b) + k]
  <2>1. Minus(Len(g), Len(b)) = Len(g) - Len(b)
    BY <1>1 DEF Minus
  <2>2. Len(b) \in Nat
    BY <1>1
  <2>3. /\ Onward(g, Len(b)) \in Seq(Value) /\ Len(Onward(g, Len(b))) = Minus(Len(g), Len(b))
        /\ \A k \in 1..Minus(Len(g), Len(b)) : Onward(g, Len(b))[k] = g[Len(b) + k]
    BY <2>2, Onwards
  <2> QED
    BY <2>1, <2>3
<1> HIDE DEF r
<1>3. /\ b \o r \in Seq(Value) /\ Len(b \o r) = Len(b) + Len(r)
      /\ \A k \in 1..Len(b) + Len(r) :
            (b \o r)[k] = IF k <= Len(b) THEN b[k] ELSE r[k - Len(b)]
  BY <1>2, ConcatProperties
<1>4. ASSUME NEW k \in 1..Len(g) PROVE g[k] = (b \o r)[k]
  <2>1. CASE k <= Len(b)
    BY <1>1, <1>2, <1>3, <2>1
  <2>2. CASE k > Len(b)
    <3>1. k - Len(b) \in 1..Len(g) - Len(b) /\ Len(b) + (k - Len(b)) = k
      BY <1>1, <2>2
    <3> QED
      BY <1>1, <1>2, <1>3, <2>2, <3>1
  <2>3. k \in Nat /\ (k <= Len(b) \/ k > Len(b))
    BY <1>1
  <2> QED
    BY <2>1, <2>2, <2>3
<1>5. g = b \o r
  <2>1. Len(b \o r) = Len(g)
    BY <1>1, <1>2, <1>3
  <2>2. b \o r \in Seq(Value)
    BY <1>3
  <2> QED
    BY <1>4, <2>1, <2>2, SeqEqual
<1> QED
  BY <1>2, <1>5 DEF r

LEMMA ConcatEndsStep ==
    ASSUME IInv, ~TouchHeld, ConcatEnds
    PROVE  IInv' /\ Arrays!Next
<1> DEFINE b == Own(Top.of)
           r == Onward(Top.got, Top.parts.len)
<1>1. /\ Ending("concat") /\ MayChange(Top.of, Below)
      /\ \E n \in Len(Top.got)..MaxCapacity :
            Box(Top.of, Fresh(Dropped(memory, Top.parts), Top.got, n))
      /\ calls' = Below /\ call' = <<"concat", Top.of, r>> /\ leaked' = leaked
  BY DEF ConcatEnds
<1>2. /\ Top \in Call /\ Top.of \in Boxed /\ Top.of \in Ary
      /\ Top.parts = array[Top.of] /\ Starts(b, Top.got)
  BY <1>1, EndingCall DEF Holds
<1>3. /\ Top.got \in Cells /\ Top.got \in Seq(Value) /\ b \in Seq(Value)
      /\ Top.parts.len = Len(b)
  BY <1>2, OwnCells, ArrayTypes, CellsAreSequences DEF Call, IInv
<1>4. Top.got = b \o r /\ r \in Seq(Value)
  BY <1>2, <1>3, StartsAndRest
<1>5. \E n \in Length : r \in [1..n -> Value]
  <2>1. Len(Top.got) = Len(b) + Len(r) /\ Len(b) \in Nat /\ Len(r) \in Nat
    BY <1>3, <1>4, ConcatProperties, LenProperties
  <2>2. Len(Top.got) <= MaxCapacity
    BY <1>3, CellsAreSequences, LengthsAreNatural
  <2>3. Len(r) <= MaxCapacity
    BY <2>1, <2>2, BoundsAreNatural
  <2> QED
    BY <1>4, <2>3, CellsAreSequences
<1> HIDE DEF r, b
<1>6. PICK n \in Len(Top.got)..MaxCapacity :
         Box(Top.of, Fresh(Dropped(memory, array[Top.of]), Top.got, n))
  BY <1>1, <1>2
<1>7. PICK v \in Fresh(Dropped(memory, array[Top.of]), Top.got, n) :
         memory' = v.mem /\ array' = [array EXCEPT ![Top.of] = v.parts]
  BY <1>6 DEF Box
<1>8. Places(v, Dropped(memory, array[Top.of]), Top.got)
  BY <1>2, <1>3, <1>6, <1>7, Dropping, FreshPlaces DEF IInv
<1>9. IInv' /\ Arrays!Says(Top.of, Top.got) /\ Answered' = Answered
  BY <1>1, <1>7, <1>8, PackingEnds
<1>10. Arrays!Change(Top.of)
  BY <1>1, <1>2, <1>4, <1>5, <1>9 DEF Arrays!Change, Arrays!Value, Value, Answered, Own, b
<1> QED
  BY <1>2, <1>9, <1>10 DEF Arrays!Next

(* initialize empties its receiver, and leaves its buffer behind.          *)
LEMMA BeginInitStep ==
    ASSUME IInv, ~TouchHeld, NEW s \in Ary, BeginInit(s)
    PROVE  IInv' /\ Arrays!Next
<1> DEFINE c == [op |-> "init", of |-> s, parts |-> EmptyParts, got |-> <<>>]
           v == [mem |-> memory, parts |-> EmptyParts]
<1>1. /\ RubyRuns /\ s \in Boxed /\ MayChange(s, calls)
      /\ array' = [array EXCEPT ![s] = EmptyParts]
      /\ leaked' = leaked \cup ({array[s].ptr} \cap Addr)
      /\ calls' = Append(calls, c) /\ call' = <<"fill", s, <<>>>> /\ memory' = memory
  BY DEF BeginInit
<1>2. Places(v, memory, <<>>)
  <2>1. EmptyParts.ptr \notin Addr /\ EmptyParts.ptr # Null
        /\ EmptyParts.len = 0 /\ EmptyParts.capa = 0
    BY DistinctPointers DEF EmptyParts
  <2> QED
    BY <2>1, PartsTypes, NothingIsCells DEF Places, IInv, Heap
<1>3. v.mem = memory /\ v.parts = EmptyParts
  OBVIOUS
<1> HIDE DEF v
<1>4. ~HeldBy(calls, s)
  BY <1>1, NotHeld DEF IInv
<1>5. /\ Heap' /\ Boxed' = Boxed \cup {s} /\ Arrays!Says(s, <<>>)
      /\ \A i \in 1..Len(calls) : StillFrame(calls[i])
  BY <1>1, <1>2, <1>3, <1>4, PackingSays DEF IInv
<1>6. c \in Call /\ c.op # "result" /\ StillFrame(c)
  BY <1>5, PartsTypes, NothingIsCells DEF Call, Holds, StillFrame
<1> HIDE DEF c
<1>7. IInv' /\ Answered' = Answered
  BY <1>1, <1>5, <1>6, RubyRunning, FramesPushed, NothingAnsweredPushed DEF IInv
<1>8. <<>> \in [1..0 -> Value] /\ 0 \in Length
  BY NothingIsCells
<1>9. Arrays!Change(s)
  BY <1>1, <1>5, <1>7, <1>8 DEF Arrays!Change, Arrays!Value, Value, Answered
<1> QED
  BY <1>7, <1>9 DEF Arrays!Next

LEMMA BlockAnswersStep ==
    ASSUME IInv, ~TouchHeld, NEW x \in Value, BlockAnswers(x)
    PROVE  IInv' /\ Arrays!Next
<1> DEFINE g == Append(Top.got, x)
           c == [Top EXCEPT !.got = g]
<1>1. /\ Ending("init") /\ Len(Top.got) < MaxCapacity
      /\ calls' = [calls EXCEPT ![Len(calls)].got = Append(@, x)]
      /\ call' = <<"enter", Top.of>> /\ UNCHANGED <<memory, array, leaked>>
  BY DEF BlockAnswers
<1>2. /\ Top \in Call /\ Top.op = "init" /\ Top.of \in Boxed /\ Top.of \in Ary
      /\ Answered = Arrays!NoResult
  BY <1>1, EndingCall
<1>3. g \in Cells
  <2>1. Top.got \in Seq(Value) /\ Len(Top.got) \in Nat
    BY <1>2, CellsAreSequences, LenProperties DEF Call
  <2>2. g \in Seq(Value) /\ Len(g) = Len(Top.got) + 1
    BY <2>1, AppendProperties
  <2>3. Len(g) <= MaxCapacity
    BY <1>1, <2>1, <2>2, BoundsAreNatural
  <2> QED
    BY <2>2, <2>3, CellsAreSequences
<1> HIDE DEF g
<1>4. c \in Call /\ c.op = "init" /\ c.of = Top.of
  BY <1>2, <1>3 DEF Call
<1>5. /\ Heap' /\ Boxed' = Boxed /\ \A i \in 1..Len(calls) : StillFrame(calls[i])
      /\ [u \in Boxed |-> Contents(memory, array[u])]' =
            [u \in Boxed |-> Contents(memory, array[u])]
  BY <1>1, Looking DEF IInv
<1>6. StillFrame(c)
  BY <1>2, <1>4, <1>5 DEF StillFrame, Holds
<1>7. calls' = [calls EXCEPT ![Len(calls)] = c]
  <2>1. c = [Top EXCEPT !.got = Append(Top.got, x)] /\ Top = calls[Len(calls)]
    BY DEF g, Top
  <2> QED
    BY <1>1, <2>1
<1> HIDE DEF c
<1>8. IInv' /\ Answered' = Answered
  BY <1>1, <1>2, <1>4, <1>5, <1>6, <1>7, TopReplaced DEF IInv, Ending
<1>9. Arrays!Look(Top.of)
  BY <1>1, <1>2, <1>5, <1>8 DEF Arrays!Look, Answered
<1> QED
  BY <1>2, <1>8, <1>9 DEF Arrays!Next

(* A block or to_ary has answered; what the receiver got meanwhile is left *)
(* behind.                                                                 *)
LEMMA InitEndsStep ==
    ASSUME IInv, ~TouchHeld, NEW cells \in Cells, InitEnds(cells)
    PROVE  IInv' /\ Arrays!Next
<1>1. /\ Ending("init") /\ MayChange(Top.of, Below)
      /\ \E n \in Len(cells)..MaxCapacity : Box(Top.of, Fresh(memory, cells, n))
      /\ leaked' = leaked \cup ({array[Top.of].ptr} \cap Addr)
      /\ calls' = Below /\ call' = <<"fill", Top.of, cells>>
  BY DEF InitEnds
<1>2. Top.of \in Boxed /\ Top.of \in Ary
  BY <1>1, EndingCall
<1>3. PICK n \in Len(cells)..MaxCapacity : Box(Top.of, Fresh(memory, cells, n))
  BY <1>1
<1>4. PICK v \in Fresh(memory, cells, n) :
         memory' = v.mem /\ array' = [array EXCEPT ![Top.of] = v.parts]
  BY <1>3 DEF Box
<1>5. Places(v, memory, cells)
  BY <1>3, <1>4, FreshPlaces DEF IInv, Heap
<1>6. IInv' /\ Arrays!Says(Top.of, cells) /\ Answered' = Answered
  BY <1>1, <1>4, <1>5, PackingEnds
<1>7. Arrays!Change(Top.of)
  BY <1>1, <1>2, <1>6 DEF Arrays!Change, Arrays!Value, Value, Answered, Cells
<1> QED
  BY <1>2, <1>6, <1>7 DEF Arrays!Next

(* A result gets its RArray.                                               *)
LEMMA AllocResultStep ==
    ASSUME IInv, ~TouchHeld, NEW s \in Ary, AllocResult(s)
    PROVE  IInv' /\ Arrays!Next
<1>1. /\ Ending("result") /\ s \notin Boxed
      /\ Box(s, Fresh(memory, Top.got, Len(Top.got)))
      /\ calls' = Below /\ call' = <<"return", s>> /\ leaked' = leaked
  BY DEF AllocResult
<1>2. /\ Top \in Call /\ Frames(Below) /\ Below \in Seq(Call)
      /\ \A i \in 1..Len(Below) : Below[i].op # "result"
  BY <1>1, EndingCall
<1>3. Top.got \in Cells /\ Len(Top.got) \in Len(Top.got)..MaxCapacity
  BY <1>2, CellsAreSequences, BoundsAreNatural DEF Call, Length
<1>4. PICK v \in Fresh(memory, Top.got, Len(Top.got)) :
         memory' = v.mem /\ array' = [array EXCEPT ![s] = v.parts]
  BY <1>1 DEF Box
<1>5. Places(v, memory, Top.got)
  BY <1>3, <1>4, FreshPlaces DEF IInv, Heap
<1>6. leaked' = leaked \cup ({array[s].ptr} \cap Addr)
  BY <1>1, DistinctPointers DEF Boxed
<1>7. ~HeldBy(Below, s)
  <2>1. \A i \in 1..Len(Below) : Below[i].op # "result" => Below[i].of \in Boxed
    BY <1>2 DEF Frames, Frame
  <2> QED
    BY <1>1, <2>1 DEF HeldBy, Holds
<1>8. /\ Heap' /\ Arrays!Says(s, Top.got)
      /\ \A i \in 1..Len(Below) : StillFrame(Below[i])
  BY <1>2, <1>4, <1>5, <1>6, <1>7, PackingSays DEF IInv
<1>9. IInv' /\ Answered' = Arrays!NoResult
  BY <1>1, <1>2, <1>8, FramesKept, NothingAnsweredNext DEF IInv
<1>10. Arrays!Make(s)
  BY <1>1, <1>8, <1>9 DEF Arrays!Make, Answered
<1> QED
  BY <1>9, <1>10 DEF Arrays!Next

(***************************************************************************)
(* The theorems.                                                           *)
(***************************************************************************)

LEMMA InitStep ==
    ASSUME Init
    PROVE  IInv /\ Arrays!Init
<1>1. Boxed = {}
  BY DEF Init, Boxed, NoParts
<1>2. memory \in [Addr -> Block] /\ array \in [Ary -> Parts]
  BY BlockTypes, PartsTypes DEF Init
<1>3. Heap
  BY <1>1, <1>2 DEF Init, Heap, PartsDescribeBuffer, OneOwner, Allocated
<1>4. calls \in Seq(Call) /\ Len(calls) = 0 /\ calls = <<>>
  BY EmptySeq DEF Init
<1>5. Frames(calls)
  BY <1>4 DEF Frames
<1>6. Answered = Arrays!NoResult
  BY <1>4, NothingAnswered
<1>7. [s \in Boxed |-> Contents(memory, array[s])] = [s \in {} |-> <<>>]
  BY <1>1
<1>8. call = <<"none">>
  BY DEF Init
<1> QED
  BY <1>3, <1>5, <1>6, <1>7, <1>8 DEF IInv, Arrays!Init, Answered

LEMMA SimpleStep ==
    ASSUME IInv, ~TouchHeld, NEW s \in Ary, Simple(s)
    PROVE  IInv' /\ Arrays!Next
<1>1. CASE \E cells \in Cells : New(s, cells)
  BY <1>1, NewStep
<1>2. CASE \E x \in Value : Push(s, x) \/ Unshift(s, x) \/ \E i \in Length : SetAt(s, i, x)
  BY <1>2, PushStep, UnshiftStep, SetAtStep
<1>3. CASE Pop(s) \/ ShiftOne(s) \/ ReverseBang(s) \/ Clear(s) \/ Reverse(s)
  BY <1>3, PopStep, ShiftOneStep, ReverseBangStep, ClearStep, ReverseStep
<1>4. CASE \E t \in Ary : Extend(s, t) \/ InitializeCopy(s, t)
  BY <1>4, ExtendStep, InitializeCopyStep
<1>5. CASE FreeAry(s)
  BY <1>5, FreeStep
<1>6. CASE AllocResult(s)
  BY <1>6, AllocResultStep
<1> QED
  BY <1>1, <1>2, <1>3, <1>4, <1>5, <1>6 DEF Simple

LEMMA ConvertingStep ==
    ASSUME IInv, ~TouchHeld, Converting
    PROVE  IInv' /\ Arrays!Next
<1>1. CASE \E op \in Holds, s \in Ary : Enter(op, s)
  BY <1>1, EnterStep
<1>2. CASE Fail
  BY <1>2, FailStep
<1>3. CASE \E n \in Length : First(n) \/ Last(n) \/ Mul(n) \/ ShiftEnds(n)
  BY <1>3, FirstStep, LastStep, MulStep, ShiftEndsStep
<1>4. CASE \E i, n \in Length : Aref(i, n)
  BY <1>4, ArefStep
<1>5. CASE \E i \in Length, x \in Value : AsetIndex(i, x)
  BY <1>5, AsetIndexStep
<1>6. CASE \E i, n \in Length, x \in Value : AsetElement(i, n, x)
  BY <1>6, AsetElementStep
<1>7. CASE \E i, n \in Length, t \in Ary : AsetSlice(i, n, t)
  BY <1>7, AsetSliceStep
<1>8. CASE \E t \in Ary : Plus(t) \/ ConcatGathers(t)
  BY <1>8, PlusStep, ConcatGathersStep
<1>9. CASE ConcatEnds
  BY <1>9, ConcatEndsStep
<1> QED
  BY <1>1, <1>2, <1>3, <1>4, <1>5, <1>6, <1>7, <1>8, <1>9 DEF Converting

LEMMA InitializingStep ==
    ASSUME IInv, ~TouchHeld, Initializing
    PROVE  IInv' /\ Arrays!Next
<1>1. CASE \E s \in Ary : BeginInit(s)
  BY <1>1, BeginInitStep
<1>2. CASE \E x \in Value : BlockAnswers(x)
  BY <1>2, BlockAnswersStep
<1>3. CASE Ending("init") /\ InitEnds(Top.got)
  <2>1. Top.got \in Cells
    BY <1>3, EndingCall DEF Call
  <2> QED
    BY <1>3, <2>1, InitEndsStep
<1>4. CASE \E t \in Ary : t \in Boxed /\ InitEnds(Own(t))
  BY <1>4, OwnCells, InitEndsStep
<1> QED
  BY <1>1, <1>2, <1>3, <1>4 DEF Initializing

LEMMA NextStep ==
    ASSUME IInv, ~TouchHeld, Next
    PROVE  IInv' /\ Arrays!Next
<1>1. CASE Converting
  BY <1>1, ConvertingStep
<1>2. CASE Initializing
  BY <1>2, InitializingStep
<1>3. CASE \E s \in Ary : Simple(s)
  BY <1>3, SimpleStep
<1> QED
  BY <1>1, <1>2, <1>3 DEF Next

(* A step that changes nothing here changes nothing there.                 *)
LEMMA StutterStep ==
    ASSUME IInv, UNCHANGED vars
    PROVE  /\ IInv'
           /\ [s \in Boxed |-> Contents(memory, array[s])]' =
                 [s \in Boxed |-> Contents(memory, array[s])]
           /\ Answered' = Answered /\ call' = call
<1>1. calls' = calls /\ call' = call /\ UNCHANGED <<memory, array, leaked>>
  BY DEF vars
<1>2. /\ Heap' /\ \A i \in 1..Len(calls) : StillFrame(calls[i])
      /\ [s \in Boxed |-> Contents(memory, array[s])]' =
            [s \in Boxed |-> Contents(memory, array[s])]
  BY <1>1, Looking DEF IInv
<1>3. Frames(calls)'
  BY <1>1, <1>2, FramesKept DEF IInv
<1> QED
  BY <1>1, <1>2, <1>3, SameCalls DEF IInv

LEMMA Invariance ==
    ASSUME ~TouchHeld
    PROVE  Spec => []IInv
<1>1. Init => IInv
  BY InitStep
<1>2. IInv /\ [Next]_vars => IInv'
  BY NextStep, StutterStep
<1> QED
  BY <1>1, <1>2, PTL DEF Spec

(* The variables keep to their types.                                      *)
THEOREM ArrayTypesKept ==
    ASSUME ~TouchHeld
    PROVE  Spec => []TypeOK
<1>1. IInv => TypeOK
  BY DEF IInv, Heap, Frames, TypeOK
<1> QED
  BY <1>1, Invariance, PTL

(* If Ruby code that a call runs leaves the receiver alone, the parts in   *)
(* every RArray always describe its allocation, whatever else that code    *)
(* does and however it ends: no way out of aset, shift and concat          *)
(* (extn/core/array/trampoline.rs) leaves parts of an allocation that the  *)
(* call has dropped, handed over or moved.                                 *)
THEOREM PartsAlwaysDescribe ==
    ASSUME ~TouchHeld
    PROVE  Spec => []PartsDescribeBuffer
<1>1. IInv => PartsDescribeBuffer
  BY DEF IInv, Heap
<1> QED
  BY <1>1, Invariance, PTL

(* Every allocation has one owner: dropping the Array of a call frees      *)
(* nothing that another array has, and the only allocations that no array  *)
(* has are those that initialize and initialize_copy packed an empty Array *)
(* over.                                                                   *)
THEOREM OneOwnerEach ==
    ASSUME ~TouchHeld
    PROVE  Spec => []OneOwner
<1>1. IInv => OneOwner
  BY DEF IInv, Heap
<1> QED
  BY <1>1, Invariance, PTL

(* The calls implement arrays that are just their elements (RubyArray):    *)
(* what a call does to its receiver it does at once, from the elements the *)
(* receiver has at that moment, and to no other array.                     *)
THEOREM ImplementsRubyArray ==
    ASSUME ~TouchHeld
    PROVE  Spec => KeepsElements
<1> DEFINE E == [s \in Boxed |-> Contents(memory, array[s])]
<1>1. Init => Arrays!Init
  BY InitStep
<1>2. IInv /\ [Next]_vars => [Arrays!Next]_<<E, Answered, call>>
  <2>1. ASSUME IInv, Next PROVE Arrays!Next
    BY <2>1, NextStep
  <2>2. ASSUME IInv, UNCHANGED vars PROVE <<E, Answered, call>>' = <<E, Answered, call>>
    BY <2>2, StutterStep
  <2> QED
    BY <2>1, <2>2
<1>3. IInv /\ [Next]_vars =>
         [Arrays!Next]_<<[s \in Boxed |-> Contents(memory, array[s])],
                         IF Ending("result") THEN [is |-> TRUE, of |-> Top.got]
                         ELSE [is |-> FALSE, of |-> <<>>], call>>
  BY <1>2 DEF Answered
<1> QED
  BY <1>1, <1>3, Invariance, PTL DEF Spec, KeepsElements, Arrays!Spec

=============================================================================

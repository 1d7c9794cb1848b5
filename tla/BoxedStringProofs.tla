--------------------------- MODULE BoxedStringProofs ---------------------------
(***************************************************************************)
(* Theorems about boxed strings, for any number of strings and addresses   *)
(* and any largest allocation. The invariant is the conjunction of what    *)
(* the run checks: a String that is made of an RString's parts finds a     *)
(* spare byte behind them, so that ensuring the terminator moves nothing,  *)
(* and every operation leaves a spare byte again.                          *)
(***************************************************************************)
EXTENDS BoxedString, SequenceTheorems, TLAPS

(***************************************************************************)
(* Vecs.                                                                   *)
(***************************************************************************)

Vec == {v \in [mem : Memory, len : 0..MaxCapacity] : v.len <= Len(v.mem)}

(* A Vec with a byte to spare, and one whose spare capacity starts and     *)
(* ends with a NUL.                                                        *)
Roomy == {v \in Vec : v.len < Len(v.mem)}
Terminated == {v \in Roomy : v.mem[v.len + 1] = Nul /\ v.mem[Len(v.mem)] = Nul}

(* An array of n bytes is a sequence of length n.                          *)
LEMMA BlockLength ==
    ASSUME NEW n \in Nat, NEW m \in Block(n)
    PROVE  m \in Seq(Byte) /\ Len(m) = n
BY DEF Block

(* Memory is what arrays of up to MaxCapacity bytes are.                   *)
LEMMA MemoryLength ==
    ASSUME NEW m \in Memory
    PROVE  /\ m \in Seq(Byte) /\ m \in [1..Len(m) -> Byte]
           /\ Len(m) \in 0..MaxCapacity
<1>1. PICK n \in 0..MaxCapacity : m \in Block(n)
  BY DEF Memory
<1>2. m \in Seq(Byte) /\ Len(m) = n
  BY <1>1, BlockLength, MaxCapacityIsPositive
<1> QED
  BY <1>1, <1>2 DEF Block

LEMMA MemoryOfLength ==
    ASSUME NEW n \in 0..MaxCapacity, NEW m \in [1..n -> Byte]
    PROVE  m \in Memory /\ m \in Seq(Byte) /\ Len(m) = n
<1>1. m \in Block(n)
  BY DEF Block
<1> QED
  BY <1>1, BlockLength, MaxCapacityIsPositive DEF Memory

(* Writing the terminator changes nothing in the contents, and nothing at  *)
(* all where it stands already.                                            *)
LEMMA Terminating ==
    ASSUME NEW v \in Roomy
    PROVE  /\ Terminate(v) \in Terminated
           /\ Terminate(v).len = v.len
           /\ Len(Terminate(v).mem) = Len(v.mem)
<1> DEFINE m == [i \in 1..Len(v.mem) |->
                    IF i \in {v.len + 1, Len(v.mem)} THEN Nul ELSE v.mem[i]]
<1>1. /\ v.mem \in Memory /\ v.len \in 0..MaxCapacity /\ v.len < Len(v.mem)
      /\ v = [mem |-> v.mem, len |-> v.len]
  BY DEF Roomy, Vec
<1>2. Len(v.mem) \in 0..MaxCapacity /\ v.mem \in [1..Len(v.mem) -> Byte]
  BY <1>1, MemoryLength
<1>3. m \in [1..Len(v.mem) -> Byte]
  BY <1>2, NulIsByte
<1>4. m \in Memory /\ Len(m) = Len(v.mem)
  BY <1>2, <1>3, MemoryOfLength
<1>5. v.len + 1 \in 1..Len(v.mem) /\ Len(v.mem) \in 1..Len(v.mem)
  BY <1>1, <1>2, MaxCapacityIsPositive
<1>6. m[v.len + 1] = Nul /\ m[Len(v.mem)] = Nul
  BY <1>5
<1>7. Terminate(v) = [v EXCEPT !.mem = m]
  BY DEF Terminate
<1> HIDE DEF m
<1>8. [v EXCEPT !.mem = m] = [mem |-> m, len |-> v.len]
  BY <1>1
<1> QED
  BY <1>1, <1>4, <1>6, <1>7, <1>8 DEF Terminated, Roomy, Vec

LEMMA AlreadyTerminated ==
    ASSUME NEW v \in Terminated
    PROVE  Terminate(v) = v
<1>1. /\ v.mem \in Memory /\ v = [mem |-> v.mem, len |-> v.len]
      /\ v.mem[v.len + 1] = Nul /\ v.mem[Len(v.mem)] = Nul
  BY DEF Terminated, Roomy, Vec
<1>2. v.mem \in [1..Len(v.mem) -> Byte]
  BY <1>1, MemoryLength
<1>3. [i \in 1..Len(v.mem) |->
          IF i \in {v.len + 1, Len(v.mem)} THEN Nul ELSE v.mem[i]] = v.mem
  BY <1>1, <1>2
<1> QED
  BY <1>1, <1>3 DEF Terminate

(* What an allocation for n bytes and extra more holds.                    *)
LEMMA HoldingVecs ==
    ASSUME NEW bytes, NEW n \in Nat, NEW extra \in Nat, NEW v \in Holding(bytes, n, extra)
    PROVE  v \in Vec /\ v.len = n /\ n + extra <= Len(v.mem)
<1>1. PICK c \in (n + extra)..MaxCapacity : v.mem \in Block(c) /\ v = [mem |-> v.mem, len |-> n]
  BY DEF Holding
<1>2. c \in 0..MaxCapacity /\ n + extra <= c /\ n <= c /\ n \in 0..MaxCapacity
  BY <1>1, MaxCapacityIsPositive
<1>3. v.mem \in Memory /\ Len(v.mem) = c
  BY <1>1, <1>2, MemoryOfLength DEF Block
<1> QED
  BY <1>1, <1>2, <1>3 DEF Vec

LEMMA Reserving ==
    ASSUME NEW v \in Vec, NEW n \in Nat, NEW w \in Reserve(v, n)
    PROVE  w \in Vec /\ w.len = v.len /\ v.len + n <= Len(w.mem)
<1>1. v.len \in Nat
  BY MaxCapacityIsPositive DEF Vec
<1>2. CASE v.len + n <= Len(v.mem)
  BY <1>2 DEF Reserve
<1>3. CASE ~(v.len + n <= Len(v.mem))
  <2>1. w \in Holding(v.mem, v.len, n)
    BY <1>3 DEF Reserve
  <2> QED
    BY <1>1, <2>1, HoldingVecs
<1> QED
  BY <1>2, <1>3

(* Ensuring the terminator keeps the length, and grows what has no room.   *)
LEMMA Ensuring ==
    ASSUME NEW v \in Vec, NEW w \in EnsureNulTerminated(v)
    PROVE  w \in Terminated /\ w.len = v.len /\ Len(v.mem) <= Len(w.mem)
<1>1. v.len \in Nat /\ Len(v.mem) \in Nat /\ v.len <= Len(v.mem)
  BY MemoryLength, MaxCapacityIsPositive DEF Vec
<1>2. CASE v.len < Len(v.mem)
  <2>1. v \in Roomy /\ w = Terminate(v)
    BY <1>2 DEF Roomy, EnsureNulTerminated
  <2> QED
    BY <1>1, <2>1, Terminating
<1>3. CASE ~(v.len < Len(v.mem))
  <2>1. PICK u \in Reserve(v, 1) : w = Terminate(u)
    BY <1>3 DEF EnsureNulTerminated
  <2>2. u \in Vec /\ u.len = v.len /\ v.len + 1 <= Len(u.mem)
    BY <2>1, Reserving
  <2>3. Len(u.mem) \in Nat
    BY <2>2, MemoryLength, MaxCapacityIsPositive DEF Vec
  <2>4. u.len < Len(u.mem) /\ Len(v.mem) <= Len(u.mem)
    BY <1>1, <1>3, <2>2, <2>3
  <2>5. u \in Roomy
    BY <2>2, <2>4 DEF Roomy
  <2> QED
    BY <2>1, <2>2, <2>4, <2>5, Terminating
<1> QED
  BY <1>2, <1>3

(* Where it stands already, ensuring it does nothing.                      *)
LEMMA EnsuredAlready ==
    ASSUME NEW v \in Terminated
    PROVE  EnsureNulTerminated(v) = {v}
BY AlreadyTerminated DEF EnsureNulTerminated, Terminated, Roomy

(* Writing bytes into an allocation that has room for them.                *)
LEMMA Writing ==
    ASSUME NEW m \in Memory, NEW n \in Nat, NEW b \in Seq(Byte)
    PROVE  Written(m, n, b) \in Memory /\ Len(Written(m, n, b)) = Len(m)
<1> DEFINE w == [i \in 1..Len(m) |->
                    IF i \in (n + 1)..(n + Len(b)) THEN b[i - n] ELSE m[i]]
<1>1. Len(m) \in 0..MaxCapacity /\ m \in [1..Len(m) -> Byte]
  BY MemoryLength
<1>2. ASSUME NEW i \in 1..Len(m) PROVE w[i] \in Byte
  <2>1. CASE i \in (n + 1)..(n + Len(b))
    <3>1. Len(b) \in Nat /\ i \in Nat
      BY <1>1
    <3>2. i - n \in 1..Len(b)
      BY <2>1, <3>1
    <3>3. b[i - n] \in Byte
      BY <3>2
    <3> QED
      BY <2>1, <3>3
  <2>2. CASE i \notin (n + 1)..(n + Len(b))
    BY <1>1, <2>2
  <2> QED
    BY <2>1, <2>2
<1>3. w \in [1..Len(m) -> Byte]
  BY <1>2
<1>4. Written(m, n, b) = w
  BY DEF Written
<1> HIDE DEF w
<1> QED
  BY <1>1, <1>3, <1>4, MemoryOfLength

LEMMA Putting ==
    ASSUME NEW v \in Vec, NEW b \in Seq(Byte), v.len + Len(b) <= Len(v.mem)
    PROVE  Put(v, b) \in Vec
<1>1. v.mem \in Memory /\ v.len \in Nat /\ Len(b) \in Nat
  BY MaxCapacityIsPositive DEF Vec
<1>2. Written(v.mem, v.len, b) \in Memory /\ Len(Written(v.mem, v.len, b)) = Len(v.mem)
  BY <1>1, Writing
<1>3. Len(v.mem) \in 0..MaxCapacity
  BY <1>1, MemoryLength
<1>4. v.len + Len(b) \in 0..MaxCapacity
  BY <1>1, <1>3, MaxCapacityIsPositive
<1> QED
  BY <1>2, <1>4 DEF Put, Vec

(* Every operation leaves a terminated Vec, or none if there is no memory  *)
(* left within the bound.                                                  *)
LEMMA MakingVecs ==
    ASSUME NEW n \in Nat
    PROVE  \A w \in WithCapacity(n) : w \in Terminated /\ w.len = 0 /\ n < Len(w.mem)
<1> SUFFICES ASSUME NEW w \in WithCapacity(n)
             PROVE  w \in Terminated /\ w.len = 0 /\ n < Len(w.mem)
  OBVIOUS
<1>1. PICK v \in Holding(<<>>, 0, n + 1) : w \in EnsureNulTerminated(v)
  BY DEF WithCapacity
<1>2. v \in Vec /\ v.len = 0 /\ 0 + (n + 1) <= Len(v.mem)
  BY <1>1, HoldingVecs
<1>3. w \in Terminated /\ w.len = 0 /\ Len(v.mem) <= Len(w.mem)
  BY <1>1, <1>2, Ensuring
<1>4. Len(v.mem) \in Nat /\ Len(w.mem) \in Nat
  BY <1>2, <1>3, MemoryLength, MaxCapacityIsPositive DEF Terminated, Roomy, Vec
<1> QED
  BY <1>2, <1>3, <1>4

LEMMA FillingVecs ==
    ASSUME NEW b, Len(b) \in Nat
    PROVE  FromBytes(b) \subseteq Terminated
<1> SUFFICES ASSUME NEW w \in FromBytes(b) PROVE w \in Terminated
  OBVIOUS
<1>1. PICK v \in Holding(b, Len(b), 0) : w \in EnsureNulTerminated(v)
  BY DEF FromBytes
<1>2. v \in Vec
  BY <1>1, HoldingVecs
<1> QED
  BY <1>1, <1>2, Ensuring

LEMMA CloningVecs ==
    ASSUME NEW v \in Vec
    PROVE  Clone(v) \subseteq Terminated
<1> SUFFICES ASSUME NEW w \in Clone(v) PROVE w \in Terminated
  OBVIOUS
<1>1. PICK u \in Holding(v.mem, v.len, 0) : w \in EnsureNulTerminated(u)
  BY DEF Clone
<1>2. v.len \in Nat
  BY MaxCapacityIsPositive DEF Vec
<1>3. u \in Vec
  BY <1>1, <1>2, HoldingVecs
<1> QED
  BY <1>1, <1>3, Ensuring

LEMMA ExtendingVecs ==
    ASSUME NEW v \in Vec, NEW b \in Seq(Byte)
    PROVE  ExtendFromSlice(v, b) \subseteq Terminated
<1> SUFFICES ASSUME NEW w \in ExtendFromSlice(v, b) PROVE w \in Terminated
  OBVIOUS
<1>1. PICK u \in Reserve(v, Len(b)) : w \in EnsureNulTerminated(Put(u, b))
  BY DEF ExtendFromSlice
<1>2. u \in Vec /\ u.len + Len(b) <= Len(u.mem)
  BY <1>1, Reserving
<1>3. Put(u, b) \in Vec
  BY <1>2, Putting
<1> QED
  BY <1>1, <1>3, Ensuring

LEMMA PushingVecs ==
    ASSUME NEW v \in Vec, NEW b \in Byte
    PROVE  PushByte(v, b) \subseteq Terminated
<1> SUFFICES ASSUME NEW w \in PushByte(v, b) PROVE w \in Terminated
  OBVIOUS
<1>1. PICK u \in Reserve(v, 1) : w \in EnsureNulTerminated(Put(u, <<b>>))
  BY DEF PushByte
<1>2. u \in Vec /\ u.len + 1 <= Len(u.mem)
  BY <1>1, Reserving
<1>3. <<b>> \in Seq(Byte) /\ Len(<<b>>) = 1
  OBVIOUS
<1>4. Put(u, <<b>>) \in Vec
  BY <1>2, <1>3, Putting
<1> QED
  BY <1>1, <1>4, Ensuring

LEMMA TruncatingVecs ==
    ASSUME NEW v \in Vec, NEW n \in Nat
    PROVE  /\ Truncate(v, n) \subseteq Terminated
           /\ \A w \in Truncate(v, n) : Len(v.mem) <= Len(w.mem)
<1> DEFINE l == IF n < v.len THEN n ELSE v.len
           u == [v EXCEPT !.len = l]
<1>1. v.mem \in Memory /\ v.len \in 0..MaxCapacity /\ v.len <= Len(v.mem)
  BY DEF Vec
<1>2. Len(v.mem) \in 0..MaxCapacity
  BY <1>1, MemoryLength
<1>3. l \in 0..MaxCapacity /\ l <= Len(v.mem)
  BY <1>1, <1>2, MaxCapacityIsPositive
<1>4. u = [mem |-> v.mem, len |-> l]
  BY DEF Vec
<1> HIDE DEF l
<1>5. u \in Vec /\ u.mem = v.mem
  BY <1>1, <1>3, <1>4 DEF Vec
<1>6. Truncate(v, n) = EnsureNulTerminated(u)
  BY DEF Truncate, l
<1> HIDE DEF u
<1> QED
  BY <1>5, <1>6, Ensuring

LEMMA TryingVecs ==
    ASSUME NEW v \in Vec, NEW n \in Nat
    PROVE  /\ TryReserve(v, n) \subseteq Terminated
           /\ \A w \in TryReserve(v, n) : v.len + n < Len(w.mem)
<1> SUFFICES ASSUME NEW w \in TryReserve(v, n)
             PROVE  w \in Terminated /\ v.len + n < Len(w.mem)
  OBVIOUS
<1>1. PICK u \in Reserve(v, n + 1) : w \in EnsureNulTerminated(u)
  BY DEF TryReserve
<1>2. u \in Vec /\ u.len = v.len /\ v.len + (n + 1) <= Len(u.mem)
  BY <1>1, Reserving
<1>3. w \in Terminated /\ Len(u.mem) <= Len(w.mem)
  BY <1>1, <1>2, Ensuring
<1>4. v.len \in Nat /\ Len(u.mem) \in Nat /\ Len(w.mem) \in Nat
  BY <1>2, <1>3, MemoryLength, MaxCapacityIsPositive DEF Terminated, Roomy, Vec
<1> QED
  BY <1>2, <1>3, <1>4

(***************************************************************************)
(* Boxes.                                                                  *)
(***************************************************************************)

IInv ==
    /\ TypeOK
    /\ PartsDescribeBuffer
    /\ OneOwner
    /\ NulFollows
    /\ FormatStaysInside

(* What the types say of one string.                                       *)
LEMMA PartsTypes ==
    ASSUME IInv, NEW s \in Boxed
    PROVE  /\ s \in Str
           /\ string[s].ptr \in Addr
           /\ string[s].len \in 0..MaxCapacity
           /\ memory[string[s].ptr] \in Memory
           /\ string[s].len < Len(memory[string[s].ptr])
           /\ memory[string[s].ptr] # <<>>
<1>1. s \in Str /\ string[s] \in Parts /\ string[s].ptr # Null
  BY DEF IInv, TypeOK, Boxed
<1>2. string[s].ptr \in Addr /\ string[s].len \in 0..MaxCapacity
  BY <1>1 DEF Parts
<1>3. memory[string[s].ptr] \in Memory
  BY <1>2 DEF IInv, TypeOK
<1>4. string[s].len < Len(memory[string[s].ptr])
  BY DEF IInv, PartsDescribeBuffer
<1>5. memory[string[s].ptr] # <<>>
  BY <1>2, <1>4, MaxCapacityIsPositive
<1> QED
  BY <1>1, <1>2, <1>3, <1>4, <1>5

(* No two strings have the same buffer.                                    *)
LEMMA Owners ==
    ASSUME IInv, NEW s \in Boxed, NEW t \in Boxed, string[s].ptr = string[t].ptr
    PROVE  s = t
<1>1. string[s].ptr \in Addr /\ memory[string[s].ptr] # <<>>
  BY PartsTypes
<1>2. PICK u \in Boxed : \A x \in Boxed : string[x].ptr = string[s].ptr <=> x = u
  BY <1>1 DEF IInv, OneOwner
<1> QED
  BY <1>2

LEMMA NoMemoryIsMemory == <<>> \in Memory
<1>1. <<>> \in [1..0 -> Byte]
  OBVIOUS
<1>2. 0 \in 0..MaxCapacity
  BY MaxCapacityIsPositive
<1> QED
  BY <1>1, <1>2, MemoryOfLength

(* A Box is a Refill whose Vec stays where it is unless it grew.           *)
LEMMA BoxRefills ==
    ASSUME NEW s, NEW V, Box(memory, s, V)
    PROVE  Refill(memory, s, V)
BY DEF Box, Refill, Moves

(* Packing a Vec with a byte to spare into s keeps the parts of every      *)
(* string in step with its buffer, leaks nothing and shares nothing, and   *)
(* touches no other string.                                                *)
LEMMA Refilling ==
    ASSUME IInv, NEW s \in Str, NEW V, V \subseteq Roomy, Refill(memory, s, V)
    PROVE  /\ memory' \in [Addr -> Memory]
           /\ string' \in [Str -> Parts]
           /\ PartsDescribeBuffer'
           /\ OneOwner'
           /\ Boxed' = Boxed \cup {s}
           /\ \E v \in V :
                 /\ memory'[string'[s].ptr] = v.mem
                 /\ string'[s].len = v.len
                 /\ string'[s].capa = Len(v.mem)
           /\ \A t \in Boxed \ {s} :
                 /\ string'[t] = string[t]
                 /\ memory'[string'[t].ptr] = memory[string[t].ptr]
<1> DEFINE old == string[s].ptr
<1>1. PICK v \in V, a \in Addr :
         /\ a = old \/ memory[a] = <<>>
         /\ memory' = Moved(memory, old, v, a)
         /\ string' = [string EXCEPT ![s] =
                          [ptr |-> a, len |-> v.len, capa |-> Len(v.mem)]]
  BY DEF Refill
<1>2. /\ v.mem \in Memory /\ v.len \in 0..MaxCapacity /\ v.len < Len(v.mem)
      /\ Len(v.mem) \in 0..MaxCapacity
  BY MemoryLength DEF Roomy, Vec
<1>3. v.mem # <<>>
  BY <1>2, MaxCapacityIsPositive
<1>4. memory' \in [Addr -> Memory]
  BY <1>1, <1>2, NoMemoryIsMemory DEF Moved, IInv, TypeOK
<1>5. string' \in [Str -> Parts]
  BY <1>1, <1>2 DEF IInv, TypeOK, Parts
<1>6. string'[s] = [ptr |-> a, len |-> v.len, capa |-> Len(v.mem)]
  BY <1>1 DEF IInv, TypeOK
<1>7. \A t \in Str \ {s} : string'[t] = string[t]
  BY <1>1 DEF IInv, TypeOK
<1>8. Boxed' = Boxed \cup {s}
  BY <1>6, <1>7, NullIsNoAddress DEF Boxed
<1>9. memory'[a] = v.mem
  BY <1>1 DEF Moved
<1>10. \A b \in Addr \ {a, old} : memory'[b] = memory[b]
  BY <1>1 DEF Moved
<1>11. ASSUME a # old PROVE old \in Addr => memory'[old] = <<>>
  BY <1>1, <1>11 DEF Moved
<1>12. ASSUME NEW t \in Boxed \ {s}
       PROVE  string[t].ptr \in Addr \ {a, old}
  <2>1. string[t].ptr \in Addr /\ memory[string[t].ptr] # <<>>
    BY PartsTypes
  <2>2. string[t].ptr # old
    <3>1. CASE s \in Boxed
      BY <3>1, Owners
    <3>2. CASE s \notin Boxed
      BY <2>1, <3>2, NullIsNoAddress DEF Boxed
    <3> QED
      BY <3>1, <3>2
  <2>3. string[t].ptr # a
    BY <1>1, <2>1, <2>2
  <2> QED
    BY <2>1, <2>2, <2>3
<1>13. \A t \in Boxed \ {s} : /\ string'[t] = string[t]
                               /\ memory'[string'[t].ptr] = memory[string[t].ptr]
  BY <1>7, <1>10, <1>12 DEF Boxed
<1>14. PartsDescribeBuffer'
  <2> SUFFICES ASSUME NEW t \in Boxed'
               PROVE  /\ string'[t].capa = Len(memory'[string'[t].ptr])
                      /\ string'[t].len < string'[t].capa
    BY DEF PartsDescribeBuffer
  <2>1. CASE t = s
    BY <2>1, <1>2, <1>6, <1>9
  <2>2. CASE t # s
    BY <2>2, <1>8, <1>13 DEF IInv, PartsDescribeBuffer
  <2> QED
    BY <2>1, <2>2
<1>15. OneOwner'
  <2> SUFFICES ASSUME NEW b \in Addr, memory'[b] # <<>>
               PROVE  \E u \in Boxed' : \A t \in Boxed' : string'[t].ptr = b <=> t = u
    BY DEF OneOwner
  <2>1. CASE b = a
    <3>1. \A t \in Boxed' : string'[t].ptr = b <=> t = s
      BY <2>1, <1>6, <1>8, <1>12, <1>13
    <3> QED
      BY <3>1, <1>8
  <2>2. CASE b # a
    <3>1. b # old
      BY <2>2, <1>11, <1>1
    <3>2. memory[b] # <<>>
      BY <2>2, <3>1, <1>10
    <3>3. PICK u \in Boxed : \A t \in Boxed : string[t].ptr = b <=> t = u
      BY <3>2 DEF IInv, OneOwner
    <3>4. u # s
      BY <3>1, <3>3
    <3>5. \A t \in Boxed' : string'[t].ptr = b <=> t = u
      BY <3>3, <3>4, <2>2, <1>6, <1>8, <1>13
    <3> QED
      BY <3>3, <3>5, <1>8
  <2> QED
    BY <2>1, <2>2
<1> QED
  BY <1>4, <1>5, <1>6, <1>8, <1>9, <1>13, <1>14, <1>15

(* Dropping the buffer of s with its parts.                                *)
LEMMA Freeing ==
    ASSUME IInv, NEW s \in Boxed,
           memory' = [memory EXCEPT ![string[s].ptr] = <<>>],
           string' = [string EXCEPT ![s] = NoParts]
    PROVE  /\ memory' \in [Addr -> Memory]
           /\ string' \in [Str -> Parts]
           /\ PartsDescribeBuffer'
           /\ OneOwner'
           /\ Boxed' = Boxed \ {s}
           /\ \A t \in Boxed \ {s} :
                 /\ string'[t] = string[t]
                 /\ memory'[string'[t].ptr] = memory[string[t].ptr]
<1>1. s \in Str /\ string[s].ptr \in Addr
  BY PartsTypes
<1>2. memory' \in [Addr -> Memory]
  BY NoMemoryIsMemory DEF IInv, TypeOK
<1>3. string' \in [Str -> Parts]
  <2>1. 0 \in 0..MaxCapacity
    BY MaxCapacityIsPositive
  <2>2. NoParts \in Parts
    BY <2>1 DEF NoParts, Parts
  <2> QED
    BY <2>2 DEF IInv, TypeOK
<1>4. string'[s].ptr = Null /\ \A t \in Str \ {s} : string'[t] = string[t]
  BY <1>1 DEF IInv, TypeOK, NoParts
<1>5. Boxed' = Boxed \ {s}
  BY <1>1, <1>4 DEF Boxed
<1>6. \A b \in Addr : memory'[b] = IF b = string[s].ptr THEN <<>> ELSE memory[b]
  BY DEF IInv, TypeOK
<1>7. \A t \in Boxed \ {s} : string[t].ptr \in Addr /\ string[t].ptr # string[s].ptr
  BY PartsTypes, Owners
<1>8. \A t \in Boxed \ {s} : /\ string'[t] = string[t]
                              /\ memory'[string'[t].ptr] = memory[string[t].ptr]
  BY <1>4, <1>6, <1>7 DEF Boxed
<1>9. PartsDescribeBuffer'
  BY <1>5, <1>8 DEF IInv, PartsDescribeBuffer
<1>10. OneOwner'
  <2> SUFFICES ASSUME NEW b \in Addr, memory'[b] # <<>>
               PROVE  \E u \in Boxed' : \A t \in Boxed' : string'[t].ptr = b <=> t = u
    BY DEF OneOwner
  <2>1. b # string[s].ptr /\ memory[b] # <<>>
    BY <1>6
  <2>2. PICK u \in Boxed : \A t \in Boxed : string[t].ptr = b <=> t = u
    BY <2>1 DEF IInv, OneOwner
  <2> QED
    BY <2>1, <2>2, <1>5, <1>8
<1> QED
  BY <1>2, <1>3, <1>5, <1>8, <1>9, <1>10

(***************************************************************************)
(* Making a String of the parts of an RString.                             *)
(***************************************************************************)

LEMMA Unboxing ==
    ASSUME IInv, NEW s \in Boxed
    PROVE  Unbox(memory, s) # {} /\ Unbox(memory, s) \subseteq Terminated
<1> DEFINE p == [mem |-> memory[string[s].ptr], len |-> string[s].len]
<1>1. p \in Roomy
  BY PartsTypes, MemoryLength DEF Roomy, Vec
<1>2. Unbox(memory, s) = {Terminate(p)}
  BY <1>1 DEF Unbox, EnsureNulTerminated, Roomy
<1> HIDE DEF p
<1> QED
  BY <1>1, <1>2, Terminating

(* For what a program can reach, that finds the terminator where it left   *)
(* it: reading writes nothing and moves nothing.                           *)
LEMMA ReadingMovesNothing ==
    ASSUME IInv, NEW s \in Reachable
    PROVE  /\ Reading(memory, s) = {memory}
           /\ Text(s) \in Seq(Byte)
           /\ string[s].len = Len(Text(s))
<1> DEFINE p == [mem |-> memory[string[s].ptr], len |-> string[s].len]
           old == string[s].ptr
<1>1. s \in Boxed /\ old \in Addr /\ memory[old] # <<>>
  BY PartsTypes DEF Reachable
<1>2. p \in Terminated
  BY <1>1, PartsTypes, MemoryLength DEF IInv, NulFollows, Terminated, Roomy, Vec
<1>3. Unbox(memory, s) = {p}
  BY <1>2, EnsuredAlready DEF Unbox
<1>4. memory \in [Addr -> Memory]
  BY DEF IInv, TypeOK
<1>5. \A a \in Addr : Moves(memory, old, p, a) <=> a = old
  BY <1>1, NullIsNoAddress DEF Moves
<1>6. Moved(memory, old, p, old) = memory
  <2>1. Moved(memory, old, p, old) =
           [b \in Addr |-> IF b = old THEN memory[old]
                           ELSE IF b = old THEN <<>> ELSE memory[b]]
    BY DEF Moved
  <2> QED
    BY <2>1, <1>4
<1>7. Reading(memory, s) = {memory}
  <2> DEFINE Y == {y \in {p} \X Addr : Moves(memory, old, y[1], y[2])}
  <2>1. \A y : y \in Y <=> y = <<p, old>>
    BY <1>1, <1>5
  <2>2. Reading(memory, s) = {Moved(memory, old, y[1], y[2]) : y \in Y}
    BY <1>3 DEF Reading
  <2> HIDE DEF Y, p
  <2>3. \A y \in Y : Moved(memory, old, y[1], y[2]) = memory
    BY <2>1, <1>6
  <2>4. \A m : m \in Reading(memory, s) <=> m = memory
    BY <2>1, <2>2, <2>3
  <2> QED
    BY <2>4
<1>8. Text(s) \in Seq(Byte) /\ string[s].len = Len(Text(s))
  <2>1. /\ memory[old] \in Seq(Byte) /\ Len(memory[old]) \in Nat
        /\ string[s].len \in Nat /\ string[s].len <= Len(memory[old])
    BY <1>1, PartsTypes, MemoryLength, MaxCapacityIsPositive
  <2> QED
    BY <2>1 DEF Text
<1> QED
  BY <1>7, <1>8

(* Whoever makes or changes a string leaves the result of sprintf alone.   *)
LEMMA NotTheResult ==
    ASSUME IInv, NEW s \in Str, s \in Reachable \/ Vacant(s)
    PROVE  s # fill.of
BY NullIsNoAddress DEF IInv, FormatStaysInside, Reachable, Vacant, Boxed, NoFill

(* A call that packs a terminated Vec into such a string.                  *)
LEMMA Calling ==
    ASSUME IInv, NEW s \in Str, s # fill.of, NEW V, V \subseteq Terminated,
           Refill(memory, s, V), fill' = fill
    PROVE  IInv'
<1>1. V \subseteq Roomy
  BY DEF Terminated
<1> DEFINE Kept == \A t \in Boxed \ {s} :
                      /\ string'[t] = string[t]
                      /\ memory'[string'[t].ptr] = memory[string[t].ptr]
<1>2. /\ memory' \in [Addr -> Memory]
      /\ string' \in [Str -> Parts]
      /\ PartsDescribeBuffer' /\ OneOwner'
      /\ Boxed' = Boxed \cup {s}
      /\ Kept
  BY <1>1, Refilling
<1>3. PICK v \in V : memory'[string'[s].ptr] = v.mem /\ string'[s].len = v.len
  BY <1>1, Refilling
<1>4. TypeOK'
  BY <1>2 DEF IInv, TypeOK
<1>5. NulFollows'
  <2> SUFFICES ASSUME NEW t \in Reachable'
               PROVE  /\ memory'[string'[t].ptr][string'[t].len + 1] = Nul
                      /\ memory'[string'[t].ptr][Len(memory'[string'[t].ptr])] = Nul
    BY DEF NulFollows
  <2>1. CASE t = s
    BY <2>1, <1>3 DEF Terminated
  <2>2. CASE t # s
    <3>1. t \in Reachable /\ t \in Boxed \ {s}
      BY <2>2, <1>2 DEF Reachable
    <3> QED
      BY <3>1, <1>2 DEF IInv, NulFollows
  <2> QED
    BY <2>1, <2>2
<1>6. FormatStaysInside'
  BY <1>2 DEF IInv, FormatStaysInside
<1> QED
  BY <1>2, <1>4, <1>5, <1>6 DEF IInv

(***************************************************************************)
(* The calls.                                                              *)
(***************************************************************************)

LEMMA MakeKeepsInv ==
    ASSUME IInv, NEW s \in Str, Make(s)
    PROVE  IInv'
<1>1. Vacant(s) /\ fill' = fill
  BY DEF Make, StrNew, StrDup, StrPlus, StrSubstr
<1>2. s # fill.of
  BY <1>1, NotTheResult
<1>3. ASSUME NEW b \in Literal, StrNew(s, b) PROVE IInv'
  <2>1. FromBytes(b) \subseteq Terminated
    BY LiteralsAreBytes, FillingVecs
  <2>2. Refill(memory, s, FromBytes(b))
    BY <1>3, BoxRefills DEF StrNew
  <2> QED
    BY <1>1, <1>2, <2>1, <2>2, Calling
<1>4. ASSUME NEW t \in Str, StrDup(s, t) PROVE IInv'
  <2> DEFINE V == UNION {Clone(u) : u \in Unbox(memory, t)}
  <2>1. t \in Reachable /\ t \in Boxed
    BY <1>4 DEF StrDup, Reachable
  <2>2. Box(memory, s, V)
    BY <1>4, <2>1, ReadingMovesNothing DEF StrDup
  <2>3. V \subseteq Terminated
    BY <2>1, Unboxing, CloningVecs DEF Terminated, Roomy
  <2> HIDE DEF V
  <2> QED
    BY <1>1, <1>2, <2>2, <2>3, BoxRefills, Calling
<1>5. ASSUME NEW t \in Str, NEW u \in Str, StrPlus(s, t, u) PROVE IInv'
  <2> DEFINE W == UNION {ExtendFromSlice(v, Text(t)) :
                            v \in WithCapacity(string[t].len + string[u].len)}
             V == UNION {ExtendFromSlice(w, Text(u)) : w \in W}
  <2>1. {t, u} \subseteq Reachable
    BY <1>5 DEF StrPlus
  <2>2. /\ Text(t) \in Seq(Byte) /\ Text(u) \in Seq(Byte)
        /\ Reading(memory, t) = {memory} /\ Reading(memory, u) = {memory}
        /\ string[t].len + string[u].len \in Nat
    BY <2>1, ReadingMovesNothing
  <2>3. Box(memory, s, V)
    BY <1>5, <2>2 DEF StrPlus
  <2>4. WithCapacity(string[t].len + string[u].len) \subseteq Terminated
    BY <2>2, MakingVecs
  <2>5. W \subseteq Terminated
    BY <2>2, <2>4, ExtendingVecs DEF Terminated, Roomy
  <2> HIDE DEF W
  <2>6. V \subseteq Terminated
    BY <2>2, <2>5, ExtendingVecs DEF Terminated, Roomy
  <2> HIDE DEF V
  <2> QED
    BY <1>1, <1>2, <2>3, <2>6, BoxRefills, Calling
<1>6. ASSUME NEW t \in Str, NEW n \in 0..MaxCapacity, StrSubstr(s, t, n) PROVE IInv'
  <2> DEFINE b == SubSeq(Text(t), n + 1, string[t].len)
  <2>1. t \in Reachable
    BY <1>6 DEF StrSubstr
  <2>2. Box(memory, s, FromBytes(b))
    BY <1>6, <2>1, ReadingMovesNothing DEF StrSubstr
  <2>3. Len(b) \in Nat
    <3>1. Text(t) \in Seq(Byte) /\ string[t].len = Len(Text(t)) /\ n \in Nat
      BY <2>1, ReadingMovesNothing
    <3>2. b \in Seq(Byte)
      BY <3>1
    <3> QED
      BY <3>2
  <2> HIDE DEF b
  <2>4. FromBytes(b) \subseteq Terminated
    BY <2>3, FillingVecs
  <2> QED
    BY <1>1, <1>2, <2>2, <2>4, BoxRefills, Calling
<1> QED
  BY <1>3, <1>4, <1>5, <1>6 DEF Make

LEMMA ReadKeepsInv ==
    ASSUME IInv, memory' = memory, string' = string, fill' = fill
    PROVE  IInv'
BY DEF IInv, TypeOK, PartsDescribeBuffer, OneOwner, NulFollows, FormatStaysInside,
       Boxed, Reachable

LEMMA SetByteKeepsInv ==
    ASSUME IInv, NEW s \in Str, NEW i \in 1..MaxCapacity, NEW b \in Byte, SetByte(s, i, b)
    PROVE  IInv'
<1> DEFINE p == string[s].ptr
           w == [memory[p] EXCEPT ![i] = b]
<1>1. /\ s \in Reachable /\ s \in Boxed
      /\ i \in 1..string[s].len /\ string' = string /\ fill' = fill
  BY DEF SetByte, Reachable
<1>2. memory' = [memory EXCEPT ![p] = w]
  BY <1>1, ReadingMovesNothing DEF SetByte
<1>3. /\ p \in Addr /\ memory[p] \in Memory /\ memory[p] \in [1..Len(memory[p]) -> Byte]
      /\ Len(memory[p]) \in 0..MaxCapacity /\ memory[p] # <<>>
      /\ string[s].len \in 0..MaxCapacity /\ string[s].len < Len(memory[p])
  BY <1>1, PartsTypes, MemoryLength
<1>4. w \in [1..Len(memory[p]) -> Byte]
  BY <1>3
<1>5. w \in Memory /\ Len(w) = Len(memory[p])
  BY <1>3, <1>4, MemoryOfLength
<1>6. /\ i \in 1..Len(memory[p]) /\ i # string[s].len + 1 /\ i # Len(memory[p])
  BY <1>1, <1>3, MaxCapacityIsPositive
<1>7. w[string[s].len + 1] = memory[p][string[s].len + 1] /\ w[Len(w)] = memory[p][Len(w)]
  BY <1>3, <1>5, <1>6, MaxCapacityIsPositive
<1> HIDE DEF w
<1>8. memory'[p] = w /\ \A a \in Addr \ {p} : memory'[a] = memory[a]
  BY <1>2, <1>3 DEF IInv, TypeOK
<1>9. Boxed' = Boxed /\ Reachable' = Reachable
  BY <1>1 DEF Boxed, Reachable
<1>10. \A t \in Boxed \ {s} : string[t].ptr \in Addr \ {p}
  BY <1>1, PartsTypes, Owners
<1>11. TypeOK'
  BY <1>1, <1>2, <1>5 DEF IInv, TypeOK
<1>12. PartsDescribeBuffer'
  BY <1>1, <1>5, <1>8, <1>9, <1>10 DEF IInv, PartsDescribeBuffer
<1>13. \A a \in Addr : memory'[a] # <<>> => memory[a] # <<>>
  BY <1>3, <1>8
<1>14. OneOwner'
  BY <1>1, <1>9, <1>13 DEF IInv, OneOwner
<1>15. NulFollows'
  <2> SUFFICES ASSUME NEW t \in Reachable
               PROVE  /\ memory'[string[t].ptr][string[t].len + 1] = Nul
                      /\ memory'[string[t].ptr][Len(memory'[string[t].ptr])] = Nul
    BY <1>1, <1>9 DEF NulFollows
  <2>1. CASE t = s
    BY <2>1, <1>1, <1>5, <1>7, <1>8 DEF IInv, NulFollows
  <2>2. CASE t # s
    BY <2>2, <1>8, <1>10 DEF IInv, NulFollows, Reachable
  <2> QED
    BY <2>1, <2>2
<1>16. FormatStaysInside'
  BY <1>1, <1>9 DEF IInv, FormatStaysInside
<1> QED
  BY <1>11, <1>12, <1>14, <1>15, <1>16 DEF IInv

LEMMA FreeKeepsInv ==
    ASSUME IInv, NEW s \in Boxed,
           memory' = [memory EXCEPT ![string[s].ptr] = <<>>],
           string' = [string EXCEPT ![s] = NoParts],
           \/ s # fill.of /\ fill' = fill
           \/ s = fill.of /\ fill' = NoFill
    PROVE  IInv'
<1>1. /\ memory' \in [Addr -> Memory]
      /\ string' \in [Str -> Parts]
      /\ PartsDescribeBuffer' /\ OneOwner'
      /\ Boxed' = Boxed \ {s}
      /\ \A t \in Boxed \ {s} :
            /\ string'[t] = string[t]
            /\ memory'[string'[t].ptr] = memory[string[t].ptr]
  BY Freeing
<1>2. TypeOK'
  <2>1. NoFill \in [of : Str \cup {Null}, room : 0..MaxCapacity, wrote : Seq(Byte)]
    <3>1. 0 \in 0..MaxCapacity /\ <<>> \in Seq(Byte)
      BY MaxCapacityIsPositive
    <3> QED
      BY <3>1 DEF NoFill
  <2> QED
    BY <1>1, <2>1 DEF IInv, TypeOK
<1>3. Reachable' \subseteq Reachable \ {s}
  BY <1>1 DEF Reachable
<1>4. NulFollows'
  BY <1>1, <1>3 DEF IInv, NulFollows, Reachable
<1>5. FormatStaysInside'
  BY <1>1 DEF IInv, FormatStaysInside
<1> QED
  BY <1>1, <1>2, <1>4, <1>5 DEF IInv

(* What resizing a String that was made of the parts of s comes to.        *)
LEMMA Resizing ==
    ASSUME IInv, NEW s \in Boxed, NEW n \in Nat
    PROVE  /\ Resized(s, n) \subseteq Terminated
           /\ \A w \in Resized(s, n) : n < Len(w.mem)
<1> SUFFICES ASSUME NEW w \in Resized(s, n) PROVE w \in Terminated /\ n < Len(w.mem)
  OBVIOUS
<1>1. PICK u \in Unbox(memory, s) : w \in TryResize(u, n)
  BY DEF Resized
<1>2. u \in Terminated /\ u \in Vec
  BY Unboxing DEF Terminated, Roomy
<1>3. u.len \in Nat /\ u.len < Len(u.mem) /\ Len(u.mem) \in Nat
  BY <1>2, MemoryLength, MaxCapacityIsPositive DEF Terminated, Roomy, Vec
<1>4. CASE n > u.len
  <2>1. n - u.len \in Nat /\ u.len + (n - u.len) = n
    BY <1>3, <1>4
  <2>2. w \in TryReserve(u, n - u.len)
    BY <1>1, <1>4 DEF TryResize
  <2> QED
    BY <1>2, <2>1, <2>2, TryingVecs
<1>5. CASE n < u.len
  <2>1. w \in Truncate(u, n)
    BY <1>1, <1>3, <1>5 DEF TryResize
  <2>2. w \in Terminated /\ Len(u.mem) <= Len(w.mem)
    BY <1>2, <2>1, TruncatingVecs
  <2>3. Len(w.mem) \in Nat
    BY <2>2, MemoryLength, MaxCapacityIsPositive DEF Terminated, Roomy, Vec
  <2> QED
    BY <1>3, <1>5, <2>2, <2>3
<1>6. CASE n = u.len
  BY <1>1, <1>2, <1>3, <1>6 DEF TryResize
<1> QED
  BY <1>3, <1>4, <1>5, <1>6

LEMMA UseKeepsInv ==
    ASSUME IInv, NEW s \in Str, Use(s)
    PROVE  IInv'
<1>1. s \in Reachable /\ s \in Boxed /\ fill' = fill
  BY DEF Use, Read, StrCat, Initialize, StrAppend, InitializeCopy, SetByte, Clear,
         StrResize, StringCstr, FreeStr, Reachable
<1>2. s # fill.of
  BY <1>1, NotTheResult
<1>3. /\ Reading(memory, s) = {memory} /\ Text(s) \in Seq(Byte)
      /\ Unbox(memory, s) \subseteq Terminated
      /\ Terminated \subseteq Vec
  BY <1>1, ReadingMovesNothing, Unboxing DEF Terminated, Roomy
<1>4. ASSUME NEW V, V \subseteq Terminated, Box(memory, s, V) \/ Refill(memory, s, V)
      PROVE  IInv'
  BY <1>1, <1>2, <1>4, BoxRefills, Calling
<1>5. CASE Read(s)
  BY <1>1, <1>3, <1>5, ReadKeepsInv DEF Read
<1>6. ASSUME NEW b \in Literal, StrCat(s, b) PROVE IInv'
  <2> DEFINE V == UNION {ExtendFromSlice(u, b) : u \in Unbox(memory, s)}
  <2>1. V \subseteq Terminated
    BY <1>3, LiteralsAreBytes, ExtendingVecs
  <2>2. Box(memory, s, V)
    BY <1>6 DEF StrCat
  <2> HIDE DEF V
  <2> QED
    BY <1>4, <2>1, <2>2
<1>7. ASSUME NEW b \in Literal, Initialize(s, b) PROVE IInv'
  <2>1. FromBytes(b) \subseteq Terminated
    BY LiteralsAreBytes, FillingVecs
  <2> QED
    BY <1>4, <1>7, <2>1 DEF Initialize
<1>8. ASSUME NEW t \in Str, StrAppend(s, t) PROVE IInv'
  <2> DEFINE V == UNION {ExtendFromSlice(u, Text(t)) : u \in Unbox(memory, s)}
  <2>1. t \in Reachable
    BY <1>8 DEF StrAppend
  <2>2. Reading(memory, t) = {memory} /\ Text(t) \in Seq(Byte)
    BY <2>1, ReadingMovesNothing
  <2>3. V \subseteq Terminated
    BY <1>3, <2>2, ExtendingVecs
  <2>4. Box(memory, s, V)
    BY <1>8, <2>2 DEF StrAppend
  <2> HIDE DEF V
  <2> QED
    BY <1>4, <2>3, <2>4
<1>9. ASSUME NEW t \in Str, InitializeCopy(s, t) PROVE IInv'
  <2>1. t \in Reachable
    BY <1>9 DEF InitializeCopy
  <2>2. Reading(memory, t) = {memory} /\ Text(t) \in Seq(Byte)
    BY <2>1, ReadingMovesNothing
  <2>3. FromBytes(Text(t)) \subseteq Terminated
    BY <2>2, FillingVecs
  <2>4. Refill(memory, s, FromBytes(Text(t)))
    BY <1>9, <2>2 DEF InitializeCopy
  <2> QED
    BY <1>4, <2>3, <2>4
<1>10. ASSUME NEW i \in 1..MaxCapacity, NEW b \in Byte, SetByte(s, i, b) PROVE IInv'
  BY <1>10, SetByteKeepsInv
<1>11. CASE Clear(s)
  <2> DEFINE V == UNION {Truncate(u, 0) : u \in Unbox(memory, s)}
  <2>1. V \subseteq Terminated
    BY <1>3, TruncatingVecs
  <2>2. Box(memory, s, V)
    BY <1>11 DEF Clear
  <2> HIDE DEF V
  <2> QED
    BY <1>4, <2>1, <2>2
<1>12. ASSUME NEW n \in 0..MaxCapacity, StrResize(s, n) PROVE IInv'
  <2>1. Resized(s, n) \subseteq Terminated
    BY <1>1, MaxCapacityIsPositive, Resizing
  <2> QED
    BY <1>3, <1>4, <1>12, <2>1 DEF StrResize
<1>13. CASE StringCstr(s)
  <2> DEFINE V == UNION {PushByte(u, Nul) : u \in Unbox(memory, s)}
  <2>1. V \subseteq Terminated
    BY <1>3, NulIsByte, PushingVecs
  <2>2. CASE memory' \in Reading(memory, s) /\ UNCHANGED string
    BY <1>1, <1>3, <2>2, ReadKeepsInv
  <2>3. CASE Box(memory, s, V)
    <3> HIDE DEF V
    <3> QED
      BY <1>4, <2>1, <2>3
  <2> QED
    BY <1>13, <2>2, <2>3 DEF StringCstr
<1>14. CASE FreeStr(s)
  BY <1>1, <1>2, <1>14, FreeKeepsInv DEF FreeStr
<1> QED
  BY <1>5, <1>6, <1>7, <1>8, <1>9, <1>10, <1>11, <1>12, <1>13, <1>14 DEF Use

(***************************************************************************)
(* Kernel#sprintf.                                                         *)
(***************************************************************************)

(* A step of sprintf that goes on: it packs a Vec with the room it counts  *)
(* on into its result, terminated or not.                                  *)
LEMMA Filling ==
    ASSUME IInv, NEW s \in Str, NEW V, V \subseteq Roomy, Refill(memory, s, V),
           fill = NoFill \/ fill.of = s,
           NEW n \in Nat, NEW b \in Seq(Byte), Len(b) < n,
           \A v \in V : n < Len(v.mem),
           fill' = [of |-> s, room |-> n, wrote |-> b]
    PROVE  IInv'
<1>1. /\ memory' \in [Addr -> Memory]
      /\ string' \in [Str -> Parts]
      /\ PartsDescribeBuffer' /\ OneOwner'
      /\ Boxed' = Boxed \cup {s}
      /\ \A t \in Boxed \ {s} :
            /\ string'[t] = string[t]
            /\ memory'[string'[t].ptr] = memory[string[t].ptr]
  BY Refilling
<1>2. n < string'[s].capa
  BY Refilling
<1>3. string'[s].capa \in 0..MaxCapacity
  BY <1>1 DEF Parts
<1>4. n \in 0..MaxCapacity
  BY <1>2, <1>3, MaxCapacityIsPositive
<1>5. TypeOK'
  BY <1>1, <1>4 DEF IInv, TypeOK
<1>6. \A t \in Reachable' : t \in Reachable /\ t \in Boxed \ {s}
  BY <1>1, NullIsNoAddress DEF Reachable, Boxed, NoFill
<1>7. NulFollows'
  BY <1>1, <1>6 DEF IInv, NulFollows
<1>8. FormatStaysInside'
  BY <1>1, <1>2 DEF FormatStaysInside
<1> QED
  BY <1>1, <1>5, <1>7, <1>8 DEF IInv

LEMMA FormatKeepsInv ==
    ASSUME IInv, Format
    PROVE  IInv'
<1>1. ASSUME NEW s \in Str, NEW n \in 1..MaxCapacity, BeginFormat(s, n) PROVE IInv'
  <2> DEFINE zeros == [i \in 1..n |-> Nul]
             F(v) == [v EXCEPT !.mem = Written(@, 0, zeros)]
             V == {F(v) : v \in WithCapacity(n)}
  <2>1. n \in Nat /\ 0 < n
    BY MaxCapacityIsPositive
  <2>2. zeros \in Block(n)
    BY NulIsByte DEF Block
  <2>3. zeros \in Seq(Byte)
    BY <2>1, <2>2, BlockLength
  <2>4. ASSUME NEW v \in WithCapacity(n)
        PROVE  F(v) \in Roomy /\ n < Len(F(v).mem)
    <3>1. v \in Roomy /\ n < Len(v.mem)
      BY <2>1, MakingVecs DEF Terminated
    <3>2. v.mem \in Memory /\ v.len \in 0..MaxCapacity /\ v.len < Len(v.mem)
      BY <3>1 DEF Roomy, Vec
    <3>3. Written(v.mem, 0, zeros) \in Memory /\ Len(Written(v.mem, 0, zeros)) = Len(v.mem)
      BY <2>3, <3>2, Writing
    <3>4. F(v) = [mem |-> Written(v.mem, 0, zeros), len |-> v.len]
      BY <3>1 DEF Roomy, Vec
    <3> HIDE DEF F, zeros
    <3>5. Len(v.mem) \in Nat
      BY <3>2, MemoryLength, MaxCapacityIsPositive
    <3>6. F(v) \in Vec
      BY <3>2, <3>3, <3>4, <3>5, MaxCapacityIsPositive DEF Vec
    <3> QED
      BY <3>1, <3>2, <3>3, <3>4, <3>6 DEF Roomy
  <2>5. Box(memory, s, V) /\ fill = NoFill /\ fill' = [of |-> s, room |-> n, wrote |-> <<>>]
    BY <1>1 DEF BeginFormat
  <2> HIDE DEF F, zeros
  <2>6. V \subseteq Roomy /\ \A v \in V : n < Len(v.mem)
    BY <2>4
  <2> HIDE DEF V
  <2>7. <<>> \in Seq(Byte) /\ Len(<<>>) < n
    BY <2>1
  <2>8. Refill(memory, s, V)
    BY <2>5, BoxRefills
  <2> QED
    BY <2>1, <2>5, <2>6, <2>7, <2>8, Filling
<1>2. ASSUME NEW need \in 0..MaxCapacity, NEW b \in Literal, Push(need, b) PROVE IInv'
  <2> DEFINE blen == Len(fill.wrote)
             F(u) == [u EXCEPT !.mem = Written(@, blen, b)]
  <2>1. PICK room \in Doubled(fill.room, blen + need) :
           /\ Box(memory, fill.of, {F(u) : u \in Resized(fill.of, room)})
           /\ fill' = [fill EXCEPT !.room = room, !.wrote = @ \o b]
    BY <1>2 DEF Push
  <2>2. fill # NoFill /\ Len(b) <= need
    BY <1>2 DEF Push
  <2>3. /\ fill.of \in Boxed /\ fill.of \in Str
        /\ fill.wrote \in Seq(Byte) /\ b \in Seq(Byte)
        /\ fill = [of |-> fill.of, room |-> fill.room, wrote |-> fill.wrote]
    BY <2>2, LiteralsAreBytes DEF IInv, FormatStaysInside, TypeOK, Boxed
  <2>4. blen \in Nat /\ Len(b) \in Nat /\ need \in Nat
    BY <2>3, MaxCapacityIsPositive
  <2>5. room \in Nat /\ blen + need < room
    BY <2>1, MaxCapacityIsPositive DEF Doubled
  <2>6. fill.wrote \o b \in Seq(Byte) /\ Len(fill.wrote \o b) = blen + Len(b)
    BY <2>3
  <2>7. Len(fill.wrote \o b) < room
    <3>1. blen + Len(b) < room
      BY <2>2, <2>4, <2>5
    <3> QED
      BY <3>1, <2>6
  <2>8. ASSUME NEW u \in Resized(fill.of, room)
        PROVE  F(u) \in Roomy /\ room < Len(F(u).mem)
    <3>1. u \in Roomy /\ room < Len(u.mem)
      BY <2>3, <2>5, Resizing DEF Terminated
    <3>2. u.mem \in Memory /\ u.len \in 0..MaxCapacity /\ u.len < Len(u.mem)
      BY <3>1 DEF Roomy, Vec
    <3>3. Written(u.mem, blen, b) \in Memory /\ Len(Written(u.mem, blen, b)) = Len(u.mem)
      BY <2>3, <2>4, <3>2, Writing
    <3>4. F(u) = [mem |-> Written(u.mem, blen, b), len |-> u.len]
      BY <3>1 DEF Roomy, Vec
    <3> HIDE DEF F
    <3>5. Len(u.mem) \in Nat
      BY <3>2, MemoryLength, MaxCapacityIsPositive
    <3>6. F(u) \in Vec
      BY <3>2, <3>3, <3>4, <3>5, MaxCapacityIsPositive DEF Vec
    <3> QED
      BY <3>1, <3>2, <3>3, <3>4, <3>6 DEF Roomy
  <2> DEFINE V == {F(u) : u \in Resized(fill.of, room)}
  <2>9. fill' = [of |-> fill.of, room |-> room, wrote |-> fill.wrote \o b]
    BY <2>1, <2>3
  <2>10. Box(memory, fill.of, V)
    BY <2>1
  <2> HIDE DEF F, blen
  <2>11. V \subseteq Roomy /\ \A v \in V : room < Len(v.mem)
    BY <2>8
  <2> HIDE DEF V
  <2>12. Refill(memory, fill.of, V)
    BY <2>10, BoxRefills
  <2> QED
    BY <2>3, <2>5, <2>6, <2>7, <2>9, <2>11, <2>12, Filling
<1>3. CASE EndFormat
  <2> DEFINE V == Resized(fill.of, Len(fill.wrote))
  <2>1. /\ fill # NoFill /\ fill.of \in Boxed /\ fill.of \in Str
        /\ Len(fill.wrote) \in Nat /\ fill' = NoFill
    BY <1>3 DEF EndFormat, IInv, FormatStaysInside, TypeOK, Boxed
  <2>2. V \subseteq Terminated /\ V \subseteq Roomy
    BY <2>1, Resizing DEF Terminated
  <2>3. Refill(memory, fill.of, V)
    BY <1>3, BoxRefills DEF EndFormat
  <2> HIDE DEF V
  <2> DEFINE s == fill.of
  <2>4. /\ memory' \in [Addr -> Memory]
        /\ string' \in [Str -> Parts]
        /\ PartsDescribeBuffer' /\ OneOwner'
        /\ Boxed' = Boxed \cup {s}
        /\ \A t \in Boxed \ {s} :
              /\ string'[t] = string[t]
              /\ memory'[string'[t].ptr] = memory[string[t].ptr]
    BY <2>1, <2>2, <2>3, Refilling
  <2>5. PICK v \in V : memory'[string'[s].ptr] = v.mem /\ string'[s].len = v.len
    BY <2>1, <2>2, <2>3, Refilling
  <2>6. NoFill \in [of : Str \cup {Null}, room : 0..MaxCapacity, wrote : Seq(Byte)]
    <3>1. 0 \in 0..MaxCapacity /\ <<>> \in Seq(Byte)
      BY MaxCapacityIsPositive
    <3> QED
      BY <3>1 DEF NoFill
  <2>7. TypeOK' /\ FormatStaysInside'
    BY <2>1, <2>4, <2>6 DEF TypeOK, FormatStaysInside
  <2>8. NulFollows'
    <3> SUFFICES ASSUME NEW t \in Reachable'
                 PROVE  /\ memory'[string'[t].ptr][string'[t].len + 1] = Nul
                        /\ memory'[string'[t].ptr][Len(memory'[string'[t].ptr])] = Nul
      BY DEF NulFollows
    <3>1. CASE t = s
      BY <3>1, <2>2, <2>5 DEF Terminated
    <3>2. CASE t # s
      BY <3>2, <2>4 DEF IInv, NulFollows, Reachable
    <3> QED
      BY <3>1, <3>2
  <2> QED
    BY <2>4, <2>7, <2>8 DEF IInv
<1>4. CASE AbortFormat
  <2>1. fill.of \in Boxed
    BY <1>4 DEF AbortFormat, IInv, FormatStaysInside
  <2> QED
    BY <1>4, <2>1, FreeKeepsInv DEF AbortFormat
<1> QED
  BY <1>1, <1>2, <1>3, <1>4 DEF Format

(***************************************************************************)
(* The texts. What follows shows that strings which have a text and no     *)
(* buffer (RubyString) are what the calls implement.                       *)
(***************************************************************************)

(* v is a Vec whose contents are b.                                        *)
Carries(v, b) ==
    /\ v \in Vec
    /\ v.len = Len(b)
    /\ \A i \in 1..Len(b) : v.mem[i] = b[i]

LEMMA CarriedText ==
    ASSUME NEW v, NEW b \in Seq(Byte), Carries(v, b)
    PROVE  SubSeq(v.mem, 1, v.len) = b
<1>1. /\ v.mem \in Seq(Byte) /\ v.len \in Nat /\ Len(v.mem) \in Nat
      /\ v.len <= Len(v.mem) /\ v.len = Len(b)
  BY MemoryLength, MaxCapacityIsPositive DEF Carries, Vec
<1> DEFINE c == SubSeq(v.mem, 1, v.len)
<1>2. \A i \in 1..v.len : v.mem[i] \in Byte
  BY <1>1
<1>3. /\ c \in Seq(Byte) /\ Len(c) = IF 1 <= v.len THEN v.len - 1 + 1 ELSE 0
      /\ \A i \in 1..v.len - 1 + 1 : c[i] = v.mem[1 + i - 1]
  BY <1>1, <1>2, SubSeqProperties
<1> HIDE DEF c
<1>4. Len(c) = Len(b)
  BY <1>1, <1>3
<1>5. \A i \in 1..Len(b) : c[i] = b[i]
  <2> TAKE i \in 1..Len(b)
  <2>1. i \in 1..v.len - 1 + 1 /\ 1 + i - 1 = i
    BY <1>1
  <2> QED
    BY <1>3, <2>1 DEF Carries
<1>6. c = b
  BY <1>3, <1>4, <1>5, SeqEqual
<1> QED
  BY <1>6 DEF c

LEMMA CarryTypes ==
    ASSUME NEW v, NEW b, Carries(v, b)
    PROVE  /\ v.len \in Nat /\ Len(v.mem) \in Nat /\ v.len <= Len(v.mem)
           /\ v.mem \in Memory /\ v = [mem |-> v.mem, len |-> v.len]
BY MemoryLength, MaxCapacityIsPositive DEF Carries, Vec

(* A Vec that was filled with b, or has it from another one.               *)
LEMMA CarriedHolding ==
    ASSUME NEW bytes, NEW b \in Seq(Byte), NEW extra \in Nat,
           \A i \in 1..Len(b) : bytes[i] = b[i],
           NEW v \in Holding(bytes, Len(b), extra)
    PROVE  Carries(v, b) /\ Len(b) + extra <= Len(v.mem)
<1>1. Len(b) \in Nat
  BY LenProperties
<1>2. v \in Vec /\ v.len = Len(b) /\ Len(b) + extra <= Len(v.mem)
  BY <1>1, HoldingVecs
<1>3. \A i \in 1..Len(b) : v.mem[i] = bytes[i]
  BY DEF Holding
<1> QED
  BY <1>2, <1>3 DEF Carries

LEMMA CarriedReserve ==
    ASSUME NEW v, NEW b \in Seq(Byte), Carries(v, b), NEW n \in Nat, NEW w \in Reserve(v, n)
    PROVE  Carries(w, b) /\ w.len + n <= Len(w.mem)
<1>1. CASE v.len + n <= Len(v.mem)
  BY <1>1 DEF Reserve
<1>2. CASE ~(v.len + n <= Len(v.mem))
  <2>1. w \in Holding(v.mem, Len(b), n)
    BY <1>2 DEF Reserve, Carries
  <2>2. \A i \in 1..Len(b) : v.mem[i] = b[i]
    BY DEF Carries
  <2>3. Carries(w, b) /\ Len(b) + n <= Len(w.mem)
    BY <2>1, <2>2, CarriedHolding
  <2> QED
    BY <2>3 DEF Carries
<1> QED
  BY <1>1, <1>2

LEMMA CarriedTerminate ==
    ASSUME NEW v, NEW b \in Seq(Byte), Carries(v, b), v.len < Len(v.mem)
    PROVE  Carries(Terminate(v), b)
<1> DEFINE m == [i \in 1..Len(v.mem) |->
                    IF i \in {v.len + 1, Len(v.mem)} THEN Nul ELSE v.mem[i]]
<1>1. /\ v.len \in Nat /\ Len(v.mem) \in Nat /\ v.len = Len(b)
      /\ v = [mem |-> v.mem, len |-> v.len] /\ v \in Roomy
  BY CarryTypes DEF Carries, Roomy
<1>2. Terminate(v) = [mem |-> m, len |-> v.len]
  <2>1. Terminate(v) = [v EXCEPT !.mem = m]
    BY DEF Terminate
  <2> HIDE DEF m
  <2> QED
    BY <1>1, <2>1
<1>3. \A i \in 1..Len(b) : m[i] = b[i]
  <2> TAKE i \in 1..Len(b)
  <2>1. i \in 1..Len(v.mem) /\ i # v.len + 1 /\ i # Len(v.mem)
    BY <1>1
  <2> QED
    BY <2>1 DEF Carries
<1>4. Terminate(v) \in Vec
  BY <1>1, Terminating DEF Terminated, Roomy
<1> HIDE DEF m
<1> QED
  BY <1>1, <1>2, <1>3, <1>4 DEF Carries

LEMMA CarriedEnsuring ==
    ASSUME NEW v, NEW b \in Seq(Byte), Carries(v, b), NEW w \in EnsureNulTerminated(v)
    PROVE  Carries(w, b)
<1>1. CASE v.len < Len(v.mem)
  <2>1. w = Terminate(v)
    BY <1>1 DEF EnsureNulTerminated
  <2> QED
    BY <1>1, <2>1, CarriedTerminate
<1>2. CASE ~(v.len < Len(v.mem))
  <2>1. PICK u \in Reserve(v, 1) : w = Terminate(u)
    BY <1>2 DEF EnsureNulTerminated
  <2>2. Carries(u, b) /\ u.len + 1 <= Len(u.mem)
    BY <2>1, CarriedReserve
  <2>3. u.len < Len(u.mem)
    BY <2>2, CarryTypes
  <2> QED
    BY <2>1, <2>2, <2>3, CarriedTerminate
<1> QED
  BY <1>1, <1>2

LEMMA CarriedPut ==
    ASSUME NEW v, NEW b \in Seq(Byte), Carries(v, b), NEW c \in Seq(Byte),
           v.len + Len(c) <= Len(v.mem)
    PROVE  Carries(Put(v, c), b \o c)
<1> DEFINE w == [i \in 1..Len(v.mem) |->
                    IF i \in (v.len + 1)..(v.len + Len(c)) THEN c[i - v.len] ELSE v.mem[i]]
<1>1. /\ v.len \in Nat /\ Len(v.mem) \in Nat /\ v.len = Len(b) /\ Len(c) \in Nat
      /\ v \in Vec
  BY CarryTypes, LenProperties DEF Carries
<1>2. Put(v, c) \in Vec /\ Put(v, c) = [mem |-> w, len |-> v.len + Len(c)]
  BY <1>1, Putting DEF Put, Written
<1>3. /\ b \o c \in Seq(Byte) /\ Len(b \o c) = Len(b) + Len(c)
      /\ \A i \in 1..Len(b) + Len(c) :
            (b \o c)[i] = IF i <= Len(b) THEN b[i] ELSE c[i - Len(b)]
  BY ConcatProperties
<1>4. ASSUME NEW i \in 1..Len(b) + Len(c) PROVE w[i] = (b \o c)[i]
  <2>1. i \in 1..Len(v.mem) /\ i \in Nat
    BY <1>1
  <2>2. CASE i <= Len(b)
    <3>1. i \notin (v.len + 1)..(v.len + Len(c)) /\ i \in 1..Len(b)
      BY <1>1, <2>1, <2>2
    <3>2. w[i] = v.mem[i]
      BY <2>1, <3>1
    <3>3. v.mem[i] = b[i]
      BY <3>1 DEF Carries
    <3> QED
      BY <1>3, <2>2, <3>2, <3>3
  <2>3. CASE i > Len(b)
    <3>1. i \in (v.len + 1)..(v.len + Len(c))
      BY <1>1, <2>1, <2>3
    <3>2. w[i] = c[i - v.len]
      BY <2>1, <3>1
    <3>3. ~(i <= Len(b))
      BY <1>1, <2>1, <2>3
    <3> QED
      BY <1>1, <1>3, <3>2, <3>3
  <2>4. i <= Len(b) \/ i > Len(b)
    BY <1>1, <2>1
  <2> QED
    BY <2>2, <2>3, <2>4
<1> HIDE DEF w
<1>5. Put(v, c).len = Len(b \o c) /\ Put(v, c).mem = w
  BY <1>1, <1>2, <1>3
<1> QED
  BY <1>2, <1>3, <1>4, <1>5 DEF Carries

(* The contents that each operation on a Vec leaves.                       *)
LEMMA CarriedByCapacity ==
    ASSUME NEW n \in Nat, NEW w \in WithCapacity(n)
    PROVE  Carries(w, <<>>)
<1>1. PICK v \in Holding(<<>>, 0, n + 1) : w \in EnsureNulTerminated(v)
  BY DEF WithCapacity
<1>2. <<>> \in Seq(Byte) /\ Len(<<>>) = 0
  BY EmptySeq
<1>3. Carries(v, <<>>)
  BY <1>1, <1>2, HoldingVecs DEF Carries
<1> QED
  BY <1>1, <1>2, <1>3, CarriedEnsuring

LEMMA CarriedFromBytes ==
    ASSUME NEW b \in Seq(Byte), NEW w \in FromBytes(b)
    PROVE  Carries(w, b)
<1>1. PICK v \in Holding(b, Len(b), 0) : w \in EnsureNulTerminated(v)
  BY DEF FromBytes
<1>2. Carries(v, b)
  BY <1>1, CarriedHolding
<1> QED
  BY <1>1, <1>2, CarriedEnsuring

LEMMA CarriedClone ==
    ASSUME NEW v, NEW b \in Seq(Byte), Carries(v, b), NEW w \in Clone(v)
    PROVE  Carries(w, b)
<1>1. PICK u \in Holding(v.mem, Len(b), 0) : w \in EnsureNulTerminated(u)
  BY DEF Clone, Carries
<1>2. \A i \in 1..Len(b) : v.mem[i] = b[i]
  BY DEF Carries
<1>3. Carries(u, b)
  BY <1>1, <1>2, CarriedHolding
<1> QED
  BY <1>1, <1>3, CarriedEnsuring

LEMMA CarriedExtend ==
    ASSUME NEW v, NEW b \in Seq(Byte), Carries(v, b), NEW c \in Seq(Byte),
           NEW w \in ExtendFromSlice(v, c)
    PROVE  Carries(w, b \o c)
<1>1. PICK u \in Reserve(v, Len(c)) : w \in EnsureNulTerminated(Put(u, c))
  BY DEF ExtendFromSlice
<1>2. Len(c) \in Nat /\ b \o c \in Seq(Byte)
  BY LenProperties, ConcatProperties
<1>3. Carries(u, b) /\ u.len + Len(c) <= Len(u.mem)
  BY <1>1, <1>2, CarriedReserve
<1>4. Carries(Put(u, c), b \o c)
  BY <1>3, CarriedPut
<1> QED
  BY <1>1, <1>2, <1>4, CarriedEnsuring

LEMMA CarriedPush ==
    ASSUME NEW v, NEW b \in Seq(Byte), Carries(v, b), NEW x \in Byte,
           NEW w \in PushByte(v, x)
    PROVE  Carries(w, Append(b, x))
<1>1. PICK u \in Reserve(v, 1) : w \in EnsureNulTerminated(Put(u, <<x>>))
  BY DEF PushByte
<1>2. <<x>> \in Seq(Byte) /\ Len(<<x>>) = 1 /\ b \o <<x>> \in Seq(Byte)
  BY ConcatProperties
<1>3. Append(b, x) = b \o <<x>>
  BY AppendIsConcat
<1>4. Carries(u, b) /\ u.len + 1 <= Len(u.mem)
  BY <1>1, CarriedReserve
<1>5. Carries(Put(u, <<x>>), b \o <<x>>)
  BY <1>2, <1>4, CarriedPut
<1> QED
  BY <1>1, <1>2, <1>3, <1>5, CarriedEnsuring

LEMMA Taking ==
    ASSUME NEW b \in Seq(Byte), NEW n \in Nat
    PROVE  /\ Strings!Take(b, n) \in Seq(Byte)
           /\ Len(Strings!Take(b, n)) = IF n < Len(b) THEN n ELSE Len(b)
           /\ \A i \in 1..Len(Strings!Take(b, n)) : Strings!Take(b, n)[i] = b[i]
<1>1. Len(b) \in Nat
  BY LenProperties
<1>2. CASE n < Len(b)
  <2> DEFINE c == SubSeq(b, 1, n)
  <2>1. Strings!Take(b, n) = c
    BY <1>2 DEF Strings!Take
  <2>2. \A i \in 1..n : b[i] \in Byte
    BY <1>1, <1>2
  <2>3. /\ c \in Seq(Byte) /\ Len(c) = IF 1 <= n THEN n - 1 + 1 ELSE 0
        /\ \A i \in 1..n - 1 + 1 : c[i] = b[1 + i - 1]
    BY <2>2, SubSeqProperties
  <2> HIDE DEF c
  <2>4. Len(c) = n
    BY <2>3
  <2>5. \A i \in 1..n : c[i] = b[i]
    <3> TAKE i \in 1..n
    <3>1. i \in 1..n - 1 + 1 /\ 1 + i - 1 = i
      OBVIOUS
    <3> QED
      BY <2>3, <3>1
  <2> QED
    BY <1>2, <2>1, <2>3, <2>4, <2>5
<1>3. CASE ~(n < Len(b))
  BY <1>3 DEF Strings!Take
<1> QED
  BY <1>2, <1>3

LEMMA CarriedTruncate ==
    ASSUME NEW v, NEW b \in Seq(Byte), Carries(v, b), NEW n \in Nat, NEW w \in Truncate(v, n)
    PROVE  Carries(w, Strings!Take(b, n))
<1> DEFINE l == IF n < v.len THEN n ELSE v.len
           u == [v EXCEPT !.len = l]
           c == Strings!Take(b, n)
<1>1. /\ v.len \in 0..MaxCapacity /\ v.len = Len(b) /\ v.len <= Len(v.mem)
      /\ v.mem \in Memory /\ Len(v.mem) \in 0..MaxCapacity
      /\ v = [mem |-> v.mem, len |-> v.len]
  BY MemoryLength DEF Carries, Vec
<1>2. l \in 0..MaxCapacity /\ l <= v.len /\ l <= Len(v.mem)
  BY <1>1, MaxCapacityIsPositive
<1>3. c \in Seq(Byte) /\ Len(c) = l /\ \A i \in 1..l : c[i] = b[i]
  <2>1. /\ c \in Seq(Byte) /\ Len(c) = IF n < Len(b) THEN n ELSE Len(b)
        /\ \A i \in 1..Len(c) : c[i] = b[i]
    BY Taking
  <2> HIDE DEF c
  <2>2. Len(c) = l
    BY <1>1, <2>1
  <2> QED
    BY <2>1, <2>2
<1>4. u = [mem |-> v.mem, len |-> l]
  <2> HIDE DEF l
  <2> QED
    BY <1>1
<1> HIDE DEF c, l
<1>5. u \in Vec
  BY <1>1, <1>2, <1>4 DEF Vec
<1>6. 1..l \subseteq 1..Len(b)
  BY <1>1, <1>2
<1>7. Carries(u, c)
  BY <1>3, <1>4, <1>5, <1>6 DEF Carries
<1>8. w \in EnsureNulTerminated(u)
  BY DEF Truncate, l
<1> HIDE DEF u
<1>9. Carries(w, c)
  BY <1>3, <1>7, <1>8, CarriedEnsuring
<1> QED
  BY <1>9 DEF c

LEMMA CarriedTry ==
    ASSUME NEW v, NEW b \in Seq(Byte), Carries(v, b), NEW n \in Nat, NEW w \in TryReserve(v, n)
    PROVE  Carries(w, b)
<1>1. PICK u \in Reserve(v, n + 1) : w \in EnsureNulTerminated(u)
  BY DEF TryReserve
<1>2. Carries(u, b)
  BY <1>1, CarriedReserve
<1> QED
  BY <1>1, <1>2, CarriedEnsuring

LEMMA CarriedResize ==
    ASSUME NEW v, NEW b \in Seq(Byte), Carries(v, b), NEW n \in Nat, NEW w \in TryResize(v, n)
    PROVE  Carries(w, Strings!Take(b, n))
<1>1. v.len \in Nat /\ v.len = Len(b)
  BY CarryTypes DEF Carries
<1>2. CASE n > v.len
  <2>1. w \in TryReserve(v, n - v.len) /\ n - v.len \in Nat
    BY <1>1, <1>2 DEF TryResize
  <2>2. Strings!Take(b, n) = b
    BY <1>1, <1>2 DEF Strings!Take
  <2> QED
    BY <2>1, <2>2, CarriedTry
<1>3. CASE n < v.len
  <2>1. w \in Truncate(v, n)
    BY <1>1, <1>3 DEF TryResize
  <2> QED
    BY <2>1, CarriedTruncate
<1>4. CASE n = v.len
  <2>1. w = v /\ Strings!Take(b, n) = b
    BY <1>1, <1>4 DEF TryResize, Strings!Take
  <2> QED
    BY <2>1
<1> QED
  BY <1>1, <1>2, <1>3, <1>4

(***************************************************************************)
(* The texts of the strings that exist.                                    *)
(***************************************************************************)

Texts == [s \in Boxed |-> Text(s)]

LEMMA TextCarried ==
    ASSUME IInv, NEW s \in Boxed
    PROVE  /\ Text(s) \in Seq(Byte) /\ Len(Text(s)) = string[s].len
           /\ \A i \in 1..string[s].len : memory[string[s].ptr][i] = Text(s)[i]
           /\ \A u \in Unbox(memory, s) : Carries(u, Text(s))
<1> DEFINE m == memory[string[s].ptr]
           n == string[s].len
           b == Text(s)
           p == [mem |-> m, len |-> n]
<1>1. /\ m \in Memory /\ n \in 0..MaxCapacity /\ n < Len(m) /\ n \in Nat
      /\ m \in Seq(Byte) /\ Len(m) \in Nat
  BY PartsTypes, MemoryLength, MaxCapacityIsPositive
<1>2. b = SubSeq(m, 1, n)
  BY DEF Text
<1> HIDE DEF b
<1>3. \A i \in 1..n : m[i] \in Byte
  BY <1>1
<1>4. p \in Vec
  BY <1>1 DEF Vec
<1>5. Unbox(memory, s) = EnsureNulTerminated(p)
  BY DEF Unbox
<1> HIDE DEF p, m, n
<1>6. /\ b \in Seq(Byte) /\ Len(b) = IF 1 <= n THEN n - 1 + 1 ELSE 0
      /\ \A i \in 1..n - 1 + 1 : b[i] = m[1 + i - 1]
  BY <1>1, <1>2, <1>3, SubSeqProperties
<1>7. Len(b) = n
  BY <1>1, <1>6
<1>8. \A i \in 1..n : m[i] = b[i]
  <2> TAKE i \in 1..n
  <2>1. i \in 1..n - 1 + 1 /\ 1 + i - 1 = i
    BY <1>1
  <2> QED
    BY <1>6, <2>1
<1>9. Carries(p, b)
  BY <1>4, <1>7, <1>8 DEF Carries, p
<1>10. \A u \in Unbox(memory, s) : Carries(u, b)
  BY <1>5, <1>6, <1>9, CarriedEnsuring
<1> QED
  BY <1>6, <1>7, <1>8, <1>10 DEF b, m, n

(* Packing a Vec that carries b into s makes s say b, and nothing else.    *)
LEMMA Saying ==
    ASSUME IInv, NEW s \in Str, NEW V, V \subseteq Roomy, Refill(memory, s, V),
           NEW b \in Seq(Byte), \A v \in V : Carries(v, b)
    PROVE  /\ Texts' = [t \in Boxed \cup {s} |-> IF t = s THEN b ELSE Texts[t]]
           /\ string'[s].len = Len(b)
           /\ \A t \in Str \ {s} : string'[t] = string[t]
<1>1. /\ Boxed' = Boxed \cup {s}
      /\ \E v \in V : /\ memory'[string'[s].ptr] = v.mem
                      /\ string'[s].len = v.len
      /\ \A t \in Boxed \ {s} : /\ string'[t] = string[t]
                                /\ memory'[string'[t].ptr] = memory[string[t].ptr]
  BY Refilling
<1>2. PICK v \in V : memory'[string'[s].ptr] = v.mem /\ string'[s].len = v.len
  BY <1>1
<1>3. Carries(v, b)
  OBVIOUS
<1>4. Text(s)' = b
  BY <1>2, <1>3, CarriedText DEF Text
<1>5. \A t \in Boxed \ {s} : Text(t)' = Text(t)
  BY <1>1 DEF Text
<1>6. \A t \in Str \ {s} : string'[t] = string[t]
  BY DEF Refill, IInv, TypeOK
<1>7. string'[s].len = Len(b)
  BY <1>2, <1>3 DEF Carries
<1>8. Texts' = [t \in Boxed' |-> Text(t)']
  BY DEF Texts
<1>9. \A t \in Boxed \cup {s} : Text(t)' = IF t = s THEN b ELSE Texts[t]
  BY <1>4, <1>5 DEF Texts
<1> QED
  BY <1>1, <1>6, <1>7, <1>8, <1>9

LEMMA SayingIsSays ==
    ASSUME NEW s, NEW b,
           Texts' = [t \in Boxed \cup {s} |-> IF t = s THEN b ELSE Texts[t]]
    PROVE  Strings!Says(s, b)
BY DEF Strings!Says, Texts

(* Where nothing moves, nothing says anything new.                         *)
LEMMA SayingNothing ==
    ASSUME memory' = memory, string' = string
    PROVE  Texts' = Texts
BY DEF Texts, Text, Boxed

(* The result of sprintf keeps the length it was made with, and so has no  *)
(* text, until sprintf returns it.                                         *)
NothingSaid == fill # NoFill => string[fill.of].len = 0

LEMMA Packing ==
    ASSUME IInv, NothingSaid, NEW s \in Str, NEW V, V \subseteq Terminated,
           Box(memory, s, V) \/ Refill(memory, s, V), s # fill.of, fill' = fill,
           NEW b \in Seq(Byte), \A v \in V : Carries(v, b)
    PROVE  NothingSaid' /\ Strings!Says(s, b)
<1>1. V \subseteq Roomy /\ Refill(memory, s, V)
  BY BoxRefills DEF Terminated
<1>2. /\ Texts' = [t \in Boxed \cup {s} |-> IF t = s THEN b ELSE Texts[t]]
      /\ \A t \in Str \ {s} : string'[t] = string[t]
  BY <1>1, Saying
<1>3. fill # NoFill => fill.of \in Str \ {s}
  BY DEF IInv, FormatStaysInside, Boxed
<1> QED
  BY <1>2, <1>3, SayingIsSays DEF NothingSaid

LEMMA TheTexts ==
    /\ Texts = [s \in Boxed |-> Text(s)]
    /\ DOMAIN [s \in Boxed |-> Text(s)] = Boxed
    /\ \A t \in Boxed : [s \in Boxed |-> Text(s)][t] = Text(t)
BY DEF Texts

LEMMA MakeStep ==
    ASSUME IInv, NothingSaid, NEW s \in Str, Make(s)
    PROVE  NothingSaid' /\ Strings!Make(s)
<1>1. Vacant(s) /\ fill' = fill /\ s \notin Boxed
  BY DEF Make, StrNew, StrDup, StrPlus, StrSubstr, Vacant
<1>2. s # fill.of
  BY <1>1, NotTheResult
<1>3. ASSUME NEW b \in Literal, StrNew(s, b) PROVE NothingSaid' /\ Strings!Make(s)
  <2>1. b \in Seq(Byte) /\ Len(b) \in Nat
    BY LiteralsAreBytes
  <2>2. FromBytes(b) \subseteq Terminated /\ \A v \in FromBytes(b) : Carries(v, b)
    BY <2>1, FillingVecs, CarriedFromBytes
  <2>3. Box(memory, s, FromBytes(b)) /\ call' = <<"new", s, b>>
    BY <1>3 DEF StrNew
  <2>4. NothingSaid' /\ Strings!Says(s, b)
    BY <1>1, <1>2, <2>1, <2>2, <2>3, Packing
  <2> QED
    BY <1>1, <2>3, <2>4, TheTexts DEF Strings!Make
<1>4. ASSUME NEW t \in Str, StrDup(s, t) PROVE NothingSaid' /\ Strings!Make(s)
  <2> DEFINE V == UNION {Clone(u) : u \in Unbox(memory, t)}
  <2>1. t \in Reachable /\ t \in Boxed /\ call' = <<"dup", s, t>>
    BY <1>4 DEF StrDup, Reachable
  <2>2. Box(memory, s, V)
    BY <1>4, <2>1, ReadingMovesNothing DEF StrDup
  <2>3. V \subseteq Terminated
    BY <2>1, Unboxing, CloningVecs DEF Terminated, Roomy
  <2>4. Text(t) \in Seq(Byte) /\ \A v \in V : Carries(v, Text(t))
    BY <2>1, TextCarried, CarriedClone
  <2> HIDE DEF V
  <2>5. NothingSaid' /\ Strings!Says(s, Text(t))
    BY <1>1, <1>2, <2>2, <2>3, <2>4, Packing
  <2> QED
    BY <1>1, <2>1, <2>5, TheTexts DEF Strings!Make
<1>5. ASSUME NEW t \in Str, NEW u \in Str, StrPlus(s, t, u)
      PROVE  NothingSaid' /\ Strings!Make(s)
  <2> DEFINE C == WithCapacity(string[t].len + string[u].len)
             W == UNION {ExtendFromSlice(v, Text(t)) : v \in C}
             V == UNION {ExtendFromSlice(w, Text(u)) : w \in W}
  <2>1. t \in Reachable /\ u \in Reachable /\ t \in Boxed /\ u \in Boxed
        /\ call' = <<"plus", s, t, u>>
    BY <1>5 DEF StrPlus, Reachable
  <2>2. /\ Text(t) \in Seq(Byte) /\ Text(u) \in Seq(Byte)
        /\ Reading(memory, t) = {memory} /\ Reading(memory, u) = {memory}
        /\ string[t].len + string[u].len \in Nat
    BY <2>1, ReadingMovesNothing
  <2>3. Box(memory, s, V)
    BY <1>5, <2>2 DEF StrPlus
  <2>4. C \subseteq Terminated /\ \A v \in C : Carries(v, <<>>)
    BY <2>2, MakingVecs, CarriedByCapacity
  <2> HIDE DEF C
  <2>5. W \subseteq Terminated
    BY <2>2, <2>4, ExtendingVecs DEF Terminated, Roomy
  <2>6. \A w \in W : Carries(w, Text(t))
    <3>1. <<>> \in Seq(Byte) /\ <<>> \o Text(t) = Text(t)
      BY <2>2, EmptySeq, ConcatEmptySeq
    <3>2. \A w \in W : Carries(w, <<>> \o Text(t))
      BY <2>2, <2>4, <3>1, CarriedExtend
    <3> QED
      BY <3>1, <3>2
  <2> HIDE DEF W
  <2>7. V \subseteq Terminated
    BY <2>2, <2>5, ExtendingVecs DEF Terminated, Roomy
  <2>8. \A v \in V : Carries(v, Text(t) \o Text(u))
    BY <2>2, <2>6, CarriedExtend
  <2> HIDE DEF V
  <2>9. Text(t) \o Text(u) \in Seq(Byte)
    BY <2>2, ConcatProperties
  <2>10. NothingSaid' /\ Strings!Says(s, Text(t) \o Text(u))
    BY <1>1, <1>2, <2>3, <2>7, <2>8, <2>9, Packing
  <2> QED
    BY <1>1, <2>1, <2>10, TheTexts DEF Strings!Make
<1>6. ASSUME NEW t \in Str, NEW n \in 0..MaxCapacity, StrSubstr(s, t, n)
      PROVE  NothingSaid' /\ Strings!Make(s)
  <2> DEFINE b == SubSeq(Text(t), n + 1, string[t].len)
  <2>1. t \in Reachable /\ t \in Boxed /\ n \in 0..string[t].len /\ call' = <<"substr", s, t, n>>
    BY <1>6 DEF StrSubstr, Reachable
  <2>2. Box(memory, s, FromBytes(b))
    BY <1>6, <2>1, ReadingMovesNothing DEF StrSubstr
  <2>3. Text(t) \in Seq(Byte) /\ string[t].len = Len(Text(t)) /\ n \in Nat
    BY <2>1, ReadingMovesNothing
  <2>4. b \in Seq(Byte) /\ Len(b) \in Nat
    BY <2>3
  <2>5. b = Strings!Drop(Text(t), n) /\ n \in 0..Len(Text(t))
    BY <2>1, <2>3 DEF Strings!Drop
  <2> HIDE DEF b
  <2>6. FromBytes(b) \subseteq Terminated /\ \A v \in FromBytes(b) : Carries(v, b)
    BY <2>4, FillingVecs, CarriedFromBytes
  <2>7. NothingSaid' /\ Strings!Says(s, b)
    BY <1>1, <1>2, <2>2, <2>4, <2>6, Packing
  <2> QED
    BY <1>1, <2>1, <2>5, <2>7, TheTexts DEF Strings!Make
<1> QED
  BY <1>3, <1>4, <1>5, <1>6 DEF Make

(* A byte of a text is written where it is.                                *)
LEMMA SetByteSays ==
    ASSUME IInv, NEW s \in Str, NEW i \in 1..MaxCapacity, NEW b \in Byte, SetByte(s, i, b)
    PROVE  i \in 1..Len(Text(s)) /\ Strings!Says(s, [Text(s) EXCEPT ![i] = b])
<1> DEFINE p == string[s].ptr
           c == [Text(s) EXCEPT ![i] = b]
<1>1. /\ s \in Reachable /\ s \in Boxed
      /\ i \in 1..string[s].len /\ string' = string
  BY DEF SetByte, Reachable
<1>2. memory' = [memory EXCEPT ![p][i] = b]
  BY <1>1, ReadingMovesNothing DEF SetByte
<1>3. /\ p \in Addr /\ memory[p] \in Seq(Byte) /\ Len(memory[p]) \in Nat
      /\ string[s].len \in Nat /\ string[s].len < Len(memory[p])
      /\ Text(s) \in Seq(Byte) /\ Len(Text(s)) = string[s].len
      /\ \A k \in 1..string[s].len : memory[p][k] = Text(s)[k]
  BY <1>1, PartsTypes, MemoryLength, TextCarried, MaxCapacityIsPositive
<1>4. /\ memory'[p] = [memory[p] EXCEPT ![i] = b]
      /\ \A a \in Addr \ {p} : memory'[a] = memory[a]
  BY <1>2, <1>3 DEF IInv, TypeOK
<1>5. i \in 1..Len(memory[p]) /\ i \in 1..Len(Text(s))
  BY <1>1, <1>3
<1>6. /\ memory'[p] \in Seq(Byte) /\ Len(memory'[p]) = Len(memory[p])
      /\ \A j \in 1..Len(memory[p]) : memory'[p][j] = IF j = i THEN b ELSE memory[p][j]
  <2> DEFINE m == memory[p]
             x == [m EXCEPT ![i] = b]
  <2>1. m \in Seq(Byte) /\ i \in 1..Len(m)
    BY <1>3, <1>5
  <2> HIDE DEF m
  <2>2. /\ x \in Seq(Byte) /\ Len(x) = Len(m)
        /\ \A j \in 1..Len(m) : x[j] = IF j = i THEN b ELSE m[j]
    BY <2>1, ExceptSeq
  <2>3. memory'[p] = x
    BY <1>4 DEF m
  <2> QED
    BY <2>2, <2>3 DEF m
<1>7. /\ c \in Seq(Byte) /\ Len(c) = Len(Text(s))
      /\ \A j \in 1..Len(Text(s)) : c[j] = IF j = i THEN b ELSE Text(s)[j]
  <2> DEFINE m == Text(s)
  <2>1. m \in Seq(Byte) /\ i \in 1..Len(m)
    BY <1>3, <1>5
  <2> HIDE DEF m
  <2>2. /\ [m EXCEPT ![i] = b] \in Seq(Byte) /\ Len([m EXCEPT ![i] = b]) = Len(m)
        /\ \A j \in 1..Len(m) : [m EXCEPT ![i] = b][j] = IF j = i THEN b ELSE m[j]
    BY <2>1, ExceptSeq
  <2> QED
    BY <2>2 DEF m
<1> HIDE DEF c
<1>8. Text(s)' = c
  <2> DEFINE d == Text(s)'
             n == string[s].len
             m == memory'[p]
  <2>1. d = SubSeq(m, 1, n) /\ n \in Nat
    BY <1>1, <1>3 DEF Text
  <2>2. \A j \in 1..n : j \in 1..Len(memory[p]) /\ j \in 1..Len(Text(s)) /\ m[j] \in Byte
    BY <1>3, <1>6
  <2>3. \A j \in 1..n : m[j] = c[j]
    BY <1>3, <1>6, <1>7, <2>2
  <2> HIDE DEF m, n, d
  <2>4. /\ d \in Seq(Byte) /\ Len(d) = IF 1 <= n THEN n - 1 + 1 ELSE 0
        /\ \A j \in 1..n - 1 + 1 : d[j] = m[1 + j - 1]
    BY <2>1, <2>2, SubSeqProperties
  <2>5. Len(d) = n /\ Len(c) = n
    BY <1>3, <1>7, <2>1, <2>4 DEF n
  <2>6. \A j \in 1..Len(d) : d[j] = c[j]
    <3> TAKE j \in 1..Len(d)
    <3>1. j \in 1..n - 1 + 1 /\ 1 + j - 1 = j /\ j \in 1..n
      BY <2>1, <2>5
    <3> QED
      BY <2>3, <2>4, <3>1
  <2>7. d = c
    BY <1>7, <2>4, <2>5, <2>6, SeqEqual
  <2> QED
    BY <2>7 DEF d
<1>9. Boxed' = Boxed /\ Texts' = [t \in Boxed' |-> Text(t)']
  BY <1>1 DEF Boxed, Texts
<1>10. \A t \in Boxed \ {s} : Text(t)' = Text(t)
  <2> TAKE t \in Boxed \ {s}
  <2>1. string[t].ptr \in Addr \ {p}
    BY <1>1, PartsTypes, Owners
  <2> QED
    BY <1>1, <1>4, <2>1 DEF Text
<1>11. Texts' = [t \in Boxed \cup {s} |-> IF t = s THEN c ELSE Texts[t]]
  BY <1>1, <1>8, <1>9, <1>10, TheTexts
<1>12. Strings!Says(s, c)
  BY <1>11, SayingIsSays
<1> QED
  BY <1>5, <1>12 DEF c

LEMMA FreeSays ==
    ASSUME IInv, NEW s \in Boxed,
           memory' = [memory EXCEPT ![string[s].ptr] = <<>>],
           string' = [string EXCEPT ![s] = NoParts]
    PROVE  Texts' = [t \in Boxed \ {s} |-> Texts[t]]
<1>1. /\ Boxed' = Boxed \ {s}
      /\ \A t \in Boxed \ {s} :
            /\ string'[t] = string[t]
            /\ memory'[string'[t].ptr] = memory[string[t].ptr]
  BY Freeing
<1>2. \A t \in Boxed \ {s} : Text(t)' = Texts[t]
  <2> TAKE t \in Boxed \ {s}
  <2>1. Text(t)' = Text(t)
    BY <1>1 DEF Text
  <2>2. Texts[t] = Text(t)
    BY DEF Texts
  <2> QED
    BY <2>1, <2>2
<1>3. Texts' = [t \in Boxed' |-> Text(t)']
  BY DEF Texts
<1> QED
  BY <1>1, <1>2, <1>3

(* A string that says what it has said.                                    *)
LEMMA SayingAgain ==
    ASSUME NEW s \in Boxed, memory' = memory, string' = string
    PROVE  Strings!Says(s, Text(s))
<1>1. Texts' = Texts
  BY SayingNothing
<1>2. Texts = [t \in Boxed \cup {s} |-> IF t = s THEN Text(s) ELSE Texts[t]]
  BY TheTexts
<1> QED
  BY <1>1, <1>2, SayingIsSays

LEMMA StringCstrStep ==
    ASSUME IInv, NothingSaid, NEW s \in Str, StringCstr(s)
    PROVE  NothingSaid' /\ Strings!Says(s, Strings!WithNul(Text(s)))
<1>1. s \in Reachable /\ s \in Boxed /\ fill' = fill
  BY DEF StringCstr, Reachable
<1>2. s # fill.of
  BY <1>1, NotTheResult
<1>3. /\ Reading(memory, s) = {memory}
      /\ Text(s) \in Seq(Byte) /\ string[s].len = Len(Text(s))
  BY <1>1, ReadingMovesNothing
<1>4. Unbox(memory, s) \subseteq Vec /\ \A u \in Unbox(memory, s) : Carries(u, Text(s))
  BY <1>1, TextCarried DEF Carries
<1>5. CASE Text(s) # <<>> /\ Text(s)[string[s].len] = Nul
  <2>1. memory' = memory /\ string' = string
    BY <1>3, <1>5 DEF StringCstr
  <2>2. Strings!WithNul(Text(s)) = Text(s)
    BY <1>3, <1>5 DEF Strings!WithNul
  <2> QED
    BY <1>1, <2>1, <2>2, SayingAgain DEF NothingSaid
<1>6. CASE ~(Text(s) # <<>> /\ Text(s)[string[s].len] = Nul)
  <2> DEFINE V == UNION {PushByte(u, Nul) : u \in Unbox(memory, s)}
  <2>1. Box(memory, s, V)
    BY <1>6 DEF StringCstr
  <2>2. Strings!WithNul(Text(s)) = Append(Text(s), Nul)
    BY <1>3, <1>6 DEF Strings!WithNul
  <2>3. Append(Text(s), Nul) \in Seq(Byte)
    BY <1>3, NulIsByte
  <2>4. V \subseteq Terminated
    BY <1>4, NulIsByte, PushingVecs
  <2>5. \A v \in V : Carries(v, Append(Text(s), Nul))
    BY <1>3, <1>4, NulIsByte, CarriedPush
  <2> HIDE DEF V
  <2>6. NothingSaid' /\ Strings!Says(s, Append(Text(s), Nul))
    BY <1>1, <1>2, <2>1, <2>3, <2>4, <2>5, Packing
  <2> QED
    BY <2>2, <2>6
<1> QED
  BY <1>5, <1>6

LEMMA StrResizeStep ==
    ASSUME IInv, NothingSaid, NEW s \in Str, NEW n \in 0..MaxCapacity, StrResize(s, n)
    PROVE  NothingSaid' /\ Strings!Says(s, Strings!Take(Text(s), n))
<1>1. s \in Reachable /\ s \in Boxed /\ fill' = fill /\ n \in Nat
  BY MaxCapacityIsPositive DEF StrResize, Reachable
<1>2. s # fill.of
  BY <1>1, NotTheResult
<1>3. /\ Text(s) \in Seq(Byte) /\ string[s].len = Len(Text(s))
      /\ \A u \in Unbox(memory, s) : Carries(u, Text(s))
  BY <1>1, TextCarried
<1>4. CASE Box(memory, s, Resized(s, n))
  <2>1. Resized(s, n) \subseteq Terminated
    BY <1>1, Resizing
  <2>2. \A v \in Resized(s, n) : Carries(v, Strings!Take(Text(s), n))
    BY <1>1, <1>3, CarriedResize DEF Resized
  <2>3. Strings!Take(Text(s), n) \in Seq(Byte)
    BY <1>1, <1>3, Taking
  <2> QED
    BY <1>1, <1>2, <1>4, <2>1, <2>2, <2>3, Packing
<1>5. CASE n > string[s].len /\ Box(memory, s, Unbox(memory, s))
  <2>1. Unbox(memory, s) \subseteq Terminated
    BY <1>1, Unboxing
  <2>2. Strings!Take(Text(s), n) = Text(s)
    <3>1. Len(Text(s)) \in Nat /\ ~(n < Len(Text(s)))
      BY <1>1, <1>3, <1>5
    <3> QED
      BY <3>1 DEF Strings!Take
  <2>3. NothingSaid' /\ Strings!Says(s, Text(s))
    BY <1>1, <1>2, <1>3, <1>5, <2>1, Packing
  <2> QED
    BY <2>2, <2>3
<1> QED
  BY <1>4, <1>5 DEF StrResize

LEMMA UseStep ==
    ASSUME IInv, NothingSaid, NEW s \in Str, Use(s)
    PROVE  NothingSaid' /\ Strings!Use(s)
<1>1. s \in Reachable /\ s \in Boxed /\ fill' = fill
  BY DEF Use, Read, StrCat, Initialize, StrAppend, InitializeCopy, SetByte, Clear,
         StrResize, StringCstr, FreeStr, Reachable
<1>2. s # fill.of
  BY <1>1, NotTheResult
<1>3. /\ Reading(memory, s) = {memory} /\ Text(s) \in Seq(Byte)
      /\ Unbox(memory, s) \subseteq Terminated
      /\ Terminated \subseteq Vec
      /\ \A u \in Unbox(memory, s) : Carries(u, Text(s))
  <2>1. Terminated \subseteq Vec
    BY DEF Terminated, Roomy
  <2> QED
    BY <1>1, <2>1, ReadingMovesNothing, Unboxing, TextCarried
<1>4. ASSUME NEW V, V \subseteq Terminated, Box(memory, s, V) \/ Refill(memory, s, V),
             NEW b \in Seq(Byte), \A v \in V : Carries(v, b)
      PROVE  NothingSaid' /\ Strings!Says(s, b)
  BY <1>1, <1>2, <1>4, Packing
<1>5. CASE Read(s)
  <2>1. memory' = memory /\ string' = string /\ call' = <<"read", s>>
    BY <1>3, <1>5 DEF Read
  <2>2. Texts' = Texts
    BY <2>1, SayingNothing
  <2> QED
    BY <1>1, <2>1, <2>2, TheTexts DEF Strings!Use, NothingSaid, Texts
<1>6. ASSUME NEW b \in Literal, StrCat(s, b) PROVE NothingSaid' /\ Strings!Use(s)
  <2> DEFINE V == UNION {ExtendFromSlice(u, b) : u \in Unbox(memory, s)}
  <2>1. b \in Seq(Byte) /\ Text(s) \o b \in Seq(Byte)
    BY <1>3, LiteralsAreBytes, ConcatProperties
  <2>2. V \subseteq Terminated
    BY <1>3, <2>1, ExtendingVecs
  <2>3. \A v \in V : Carries(v, Text(s) \o b)
    BY <1>3, <2>1, CarriedExtend
  <2>4. Box(memory, s, V) /\ call' = <<"cat", s, b>>
    BY <1>6 DEF StrCat
  <2> HIDE DEF V
  <2>5. NothingSaid' /\ Strings!Says(s, Text(s) \o b)
    BY <1>4, <2>1, <2>2, <2>3, <2>4
  <2> QED
    BY <1>1, <2>4, <2>5, TheTexts DEF Strings!Use
<1>7. ASSUME NEW b \in Literal, Initialize(s, b) PROVE NothingSaid' /\ Strings!Use(s)
  <2>1. b \in Seq(Byte) /\ Len(b) \in Nat
    BY LiteralsAreBytes
  <2>2. FromBytes(b) \subseteq Terminated /\ \A v \in FromBytes(b) : Carries(v, b)
    BY <2>1, FillingVecs, CarriedFromBytes
  <2>3. Refill(memory, s, FromBytes(b)) /\ call' = <<"initialize", s, b>>
    BY <1>7 DEF Initialize
  <2>4. NothingSaid' /\ Strings!Says(s, b)
    BY <1>4, <2>1, <2>2, <2>3
  <2> QED
    BY <1>1, <2>3, <2>4, TheTexts DEF Strings!Use
<1>8. ASSUME NEW t \in Str, StrAppend(s, t) PROVE NothingSaid' /\ Strings!Use(s)
  <2> DEFINE V == UNION {ExtendFromSlice(u, Text(t)) : u \in Unbox(memory, s)}
  <2>1. t \in Reachable /\ t \in Boxed /\ call' = <<"append", s, t>>
    BY <1>8 DEF StrAppend, Reachable
  <2>2. Reading(memory, t) = {memory} /\ Text(t) \in Seq(Byte)
    BY <2>1, ReadingMovesNothing
  <2>3. V \subseteq Terminated
    BY <1>3, <2>2, ExtendingVecs
  <2>4. Box(memory, s, V)
    BY <1>8, <2>2 DEF StrAppend
  <2>5. \A v \in V : Carries(v, Text(s) \o Text(t))
    BY <1>3, <2>2, CarriedExtend
  <2>6. Text(s) \o Text(t) \in Seq(Byte)
    BY <1>3, <2>2, ConcatProperties
  <2> HIDE DEF V
  <2>7. NothingSaid' /\ Strings!Says(s, Text(s) \o Text(t))
    BY <1>4, <2>3, <2>4, <2>5, <2>6
  <2> QED
    BY <1>1, <2>1, <2>7, TheTexts DEF Strings!Use
<1>9. ASSUME NEW t \in Str, InitializeCopy(s, t) PROVE NothingSaid' /\ Strings!Use(s)
  <2>1. t \in Reachable /\ t \in Boxed /\ call' = <<"replace", s, t>>
    BY <1>9 DEF InitializeCopy, Reachable
  <2>2. Reading(memory, t) = {memory} /\ Text(t) \in Seq(Byte) /\ Len(Text(t)) \in Nat
    BY <2>1, ReadingMovesNothing
  <2>3. FromBytes(Text(t)) \subseteq Terminated /\ \A v \in FromBytes(Text(t)) : Carries(v, Text(t))
    BY <2>2, FillingVecs, CarriedFromBytes
  <2>4. Refill(memory, s, FromBytes(Text(t)))
    BY <1>9, <2>2 DEF InitializeCopy
  <2>5. NothingSaid' /\ Strings!Says(s, Text(t))
    BY <1>4, <2>2, <2>3, <2>4
  <2> QED
    BY <1>1, <2>1, <2>5, TheTexts DEF Strings!Use
<1>10. ASSUME NEW i \in 1..MaxCapacity, NEW b \in Byte, SetByte(s, i, b)
       PROVE  NothingSaid' /\ Strings!Use(s)
  <2>1. i \in 1..Len(Text(s)) /\ Strings!Says(s, [Text(s) EXCEPT ![i] = b])
    BY <1>10, SetByteSays
  <2>2. string' = string /\ call' = <<"setbyte", s, i, b>>
    BY <1>10 DEF SetByte
  <2> QED
    BY <1>1, <2>1, <2>2, TheTexts DEF Strings!Use, NothingSaid
<1>11. CASE Clear(s)
  <2> DEFINE V == UNION {Truncate(u, 0) : u \in Unbox(memory, s)}
  <2>1. V \subseteq Terminated
    BY <1>3, TruncatingVecs
  <2>2. Box(memory, s, V) /\ call' = <<"clear", s>>
    BY <1>11 DEF Clear
  <2>3. Strings!Take(Text(s), 0) = <<>>
    <3>1. Strings!Take(Text(s), 0) \in Seq(Byte) /\ Len(Strings!Take(Text(s), 0)) = 0
      <4>1. Len(Text(s)) \in Nat /\ 0 \in Nat
        BY <1>3
      <4>2. /\ Strings!Take(Text(s), 0) \in Seq(Byte)
            /\ Len(Strings!Take(Text(s), 0)) = IF 0 < Len(Text(s)) THEN 0 ELSE Len(Text(s))
        BY <1>3, <4>1, Taking
      <4> QED
        BY <4>1, <4>2
    <3> QED
      BY <3>1, EmptySeq
  <2>4. \A v \in V : Carries(v, Strings!Take(Text(s), 0))
    BY <1>3, CarriedTruncate
  <2>5. <<>> \in Seq(Byte)
    BY EmptySeq
  <2> HIDE DEF V
  <2>6. NothingSaid' /\ Strings!Says(s, <<>>)
    BY <1>4, <2>1, <2>2, <2>3, <2>4, <2>5
  <2> QED
    BY <1>1, <2>2, <2>6, TheTexts DEF Strings!Use
<1>12. ASSUME NEW n \in 0..MaxCapacity, StrResize(s, n) PROVE NothingSaid' /\ Strings!Use(s)
  <2>1. call' = <<"resize", s, n>>
    BY <1>12 DEF StrResize
  <2>2. NothingSaid' /\ Strings!Says(s, Strings!Take(Text(s), n))
    BY <1>12, StrResizeStep
  <2> QED
    BY <1>1, <2>1, <2>2, TheTexts DEF Strings!Use
<1>13. CASE StringCstr(s)
  <2>1. call' = <<"cstr", s>>
    BY <1>13 DEF StringCstr
  <2>2. NothingSaid' /\ Strings!Says(s, Strings!WithNul(Text(s)))
    BY <1>13, StringCstrStep
  <2> QED
    BY <1>1, <2>1, <2>2, TheTexts DEF Strings!Use
<1>14. CASE FreeStr(s)
  <2>1. Texts' = [t \in Boxed \ {s} |-> Texts[t]]
    BY <1>1, <1>14, FreeSays DEF FreeStr
  <2>2. call' = <<"free", s>> /\ string' = [string EXCEPT ![s] = NoParts]
    BY <1>14 DEF FreeStr
  <2>3. NothingSaid'
    BY <1>1, <1>2, <2>2 DEF NothingSaid, IInv, TypeOK, FormatStaysInside, Boxed
  <2> QED
    BY <1>1, <2>1, <2>2, <2>3, TheTexts DEF Strings!Use, Texts
<1> QED
  BY <1>5, <1>6, <1>7, <1>8, <1>9, <1>10, <1>11, <1>12, <1>13, <1>14 DEF Use

(* Bytes written behind the contents of a Vec are not part of them.        *)
LEMMA WritingSays ==
    ASSUME NEW u \in Roomy, NEW n \in Nat, NEW b \in Seq(Byte), u.len = 0
    PROVE  LET w == [u EXCEPT !.mem = Written(@, n, b)] IN
           w \in Roomy /\ Carries(w, <<>>)
<1> DEFINE m == Written(u.mem, n, b)
           w == [u EXCEPT !.mem = m]
<1>1. /\ u.mem \in Memory /\ u.len \in 0..MaxCapacity /\ u.len < Len(u.mem)
      /\ u.len <= Len(u.mem) /\ u = [mem |-> u.mem, len |-> u.len]
  BY DEF Roomy, Vec
<1>2. m \in Memory /\ Len(m) = Len(u.mem)
  BY <1>1, Writing
<1> HIDE DEF m
<1>3. w = [mem |-> m, len |-> u.len]
  BY <1>1
<1>4. w \in Roomy
  BY <1>1, <1>2, <1>3 DEF Roomy, Vec
<1>5. Carries(w, <<>>)
  BY <1>3, <1>4 DEF Carries, Roomy
<1> QED
  BY <1>4, <1>5 DEF m

LEMMA FormatStep ==
    ASSUME IInv, NothingSaid, Format
    PROVE  /\ NothingSaid' /\ \E s \in Str : Strings!Make(s) \/ Strings!Use(s)
           /\ EndFormat => string'[fill.of].len = 0
<1>0. <<>> \in Seq(Byte) /\ Len(<<>>) = 0
  BY EmptySeq
<1>1. ASSUME NEW s \in Str, NEW n \in 1..MaxCapacity, BeginFormat(s, n)
      PROVE  NothingSaid' /\ Strings!Make(s)
  <2> DEFINE zeros == [i \in 1..n |-> Nul]
             V == {[v EXCEPT !.mem = Written(@, 0, zeros)] : v \in WithCapacity(n)}
  <2>1. n \in Nat /\ 0 \in Nat
    BY MaxCapacityIsPositive
  <2>2. zeros \in Seq(Byte)
    BY <2>1, NulIsByte
  <2>3. \A v \in WithCapacity(n) : v \in Roomy /\ v.len = 0
    BY <2>1, MakingVecs DEF Terminated
  <2>4. /\ Vacant(s) /\ fill' = [of |-> s, room |-> n, wrote |-> <<>>]
        /\ Box(memory, s, V) /\ call' = <<"new", s, <<>>>>
    BY <1>1 DEF BeginFormat
  <2> HIDE DEF zeros
  <2>5. \A v \in V : v \in Roomy /\ Carries(v, <<>>)
    <3> SUFFICES ASSUME NEW u \in WithCapacity(n)
                 PROVE  LET w == [u EXCEPT !.mem = Written(@, 0, zeros)] IN
                        w \in Roomy /\ Carries(w, <<>>)
      OBVIOUS
    <3>1. u \in Roomy /\ u.len = 0
      BY <2>3
    <3> QED
      BY <2>1, <2>2, <3>1, WritingSays
  <2> HIDE DEF V
  <2>6. V \subseteq Roomy /\ Refill(memory, s, V)
    BY <2>4, <2>5, BoxRefills
  <2>7. /\ Texts' = [t \in Boxed \cup {s} |-> IF t = s THEN <<>> ELSE Texts[t]]
        /\ string'[s].len = Len(<<>>)
    BY <1>0, <2>5, <2>6, Saying
  <2>8. Strings!Says(s, <<>>)
    BY <2>7, SayingIsSays
  <2>9. NothingSaid'
    BY <1>0, <2>4, <2>7 DEF NothingSaid
  <2> QED
    BY <2>4, <2>8, <2>9, TheTexts DEF Strings!Make, Vacant
<1>2. ASSUME fill # NoFill
      PROVE  /\ fill.of \in Boxed /\ fill.of \in Str /\ Text(fill.of) = <<>>
             /\ fill.wrote \in Seq(Byte) /\ Len(fill.wrote) \in 0..MaxCapacity
             /\ \A u \in Unbox(memory, fill.of) : Carries(u, <<>>)
  <2>1. /\ fill.of \in Boxed /\ fill.of \in Str /\ string[fill.of].len = 0
        /\ fill.wrote \in Seq(Byte) /\ Len(fill.wrote) < fill.room
        /\ fill.room \in 0..MaxCapacity
    BY <1>2 DEF IInv, FormatStaysInside, TypeOK, NothingSaid, Boxed
  <2>2. /\ Text(fill.of) \in Seq(Byte) /\ Len(Text(fill.of)) = 0
        /\ \A u \in Unbox(memory, fill.of) : Carries(u, Text(fill.of))
    BY <2>1, TextCarried
  <2>3. Text(fill.of) = <<>>
    BY <2>2, EmptySeq
  <2>4. Len(fill.wrote) \in 0..MaxCapacity
    BY <2>1, LenProperties, MaxCapacityIsPositive
  <2> QED
    BY <2>1, <2>2, <2>3, <2>4
<1>3. ASSUME NEW n \in Nat
      PROVE  Strings!Take(<<>>, n) = <<>>
  BY <1>0 DEF Strings!Take
<1>4. ASSUME fill # NoFill, NEW n \in Nat, NEW w \in Resized(fill.of, n)
      PROVE  w \in Roomy /\ Carries(w, <<>>) /\ w.len = 0
  <2>1. w \in Roomy
    BY <1>2, <1>4, Resizing DEF Terminated
  <2>2. PICK u \in Unbox(memory, fill.of) : w \in TryResize(u, n)
    BY DEF Resized
  <2>3. Carries(w, Strings!Take(<<>>, n))
    BY <1>0, <1>2, <1>4, <2>2, CarriedResize
  <2> QED
    BY <1>0, <1>3, <2>1, <2>3 DEF Carries
<1>5. ASSUME NEW need \in 0..MaxCapacity, NEW b \in Literal, Push(need, b)
      PROVE  NothingSaid' /\ Strings!Use(fill.of)
  <2> DEFINE blen == Len(fill.wrote)
  <2>1. fill # NoFill
    BY <1>5 DEF Push
  <2>2. PICK room \in Doubled(fill.room, blen + need) :
           /\ Box(memory, fill.of, {[u EXCEPT !.mem = Written(@, blen, b)] :
                                       u \in Resized(fill.of, room)})
           /\ call' = <<"resize", fill.of, room>>
           /\ fill' = [fill EXCEPT !.room = room, !.wrote = @ \o b]
    BY <1>5 DEF Push
  <2>3. room \in 0..MaxCapacity /\ room \in Nat
    BY MaxCapacityIsPositive DEF Doubled
  <2> DEFINE V == {[u EXCEPT !.mem = Written(@, blen, b)] : u \in Resized(fill.of, room)}
             s == fill.of
  <2>4. b \in Seq(Byte) /\ blen \in Nat
    BY <1>2, <2>1, LiteralsAreBytes, MaxCapacityIsPositive
  <2> HIDE DEF blen
  <2>5. \A v \in V : v \in Roomy /\ Carries(v, <<>>)
    BY <1>4, <2>1, <2>3, <2>4, WritingSays
  <2>6. Box(memory, s, V)
    BY <2>2
  <2> HIDE DEF V
  <2>7. V \subseteq Roomy /\ Refill(memory, s, V) /\ s \in Str /\ s \in Boxed
    BY <1>2, <2>1, <2>5, <2>6, BoxRefills
  <2>8. /\ Texts' = [t \in Boxed \cup {s} |-> IF t = s THEN <<>> ELSE Texts[t]]
        /\ string'[s].len = Len(<<>>)
    BY <1>0, <2>5, <2>7, Saying
  <2>9. Strings!Says(s, <<>>)
    BY <2>8, SayingIsSays
  <2>10. fill'.of = s
    BY <2>2 DEF IInv, TypeOK
  <2>11. NothingSaid'
    BY <1>0, <2>8, <2>10 DEF NothingSaid
  <2>12. Text(s) = <<>> /\ Strings!Take(<<>>, room) = <<>>
    BY <1>2, <1>3, <2>1, <2>3
  <2> QED
    BY <2>2, <2>3, <2>7, <2>9, <2>11, <2>12, TheTexts DEF Strings!Use
<1>6. ASSUME EndFormat PROVE NothingSaid' /\ Strings!Use(fill.of) /\ string'[fill.of].len = 0
  <2> DEFINE s == fill.of
             n == Len(fill.wrote)
  <2>1. /\ fill # NoFill /\ fill' = NoFill /\ Box(memory, s, Resized(s, n))
        /\ call' = <<"resize", s, n>>
    BY <1>6 DEF EndFormat
  <2>2. n \in 0..MaxCapacity /\ n \in Nat /\ s \in Str /\ s \in Boxed /\ Text(s) = <<>>
    BY <1>2, <2>1, MaxCapacityIsPositive
  <2>3. Resized(s, n) \subseteq Roomy /\ \A v \in Resized(s, n) : Carries(v, <<>>)
    BY <1>4, <2>1, <2>2
  <2>4. Refill(memory, s, Resized(s, n))
    BY <2>1, BoxRefills
  <2>5. /\ Texts' = [t \in Boxed \cup {s} |-> IF t = s THEN <<>> ELSE Texts[t]]
        /\ string'[s].len = Len(<<>>)
    BY <1>0, <2>2, <2>3, <2>4, Saying
  <2>6. Strings!Says(s, <<>>) /\ Strings!Take(<<>>, n) = <<>>
    BY <1>3, <2>2, <2>5, SayingIsSays
  <2>7. NothingSaid'
    BY <2>1 DEF NothingSaid
  <2> QED
    BY <1>0, <2>1, <2>2, <2>5, <2>6, <2>7, TheTexts DEF Strings!Use
<1>7. ASSUME AbortFormat PROVE NothingSaid' /\ Strings!Use(fill.of)
  <2>1. fill # NoFill /\ fill' = NoFill /\ call' = <<"free", fill.of>> /\ fill.of \in Boxed
    BY <1>2, <1>7 DEF AbortFormat
  <2>2. Texts' = [t \in Boxed \ {fill.of} |-> Texts[t]]
    BY <1>7, <2>1, FreeSays DEF AbortFormat
  <2> QED
    BY <2>1, <2>2, TheTexts DEF Strings!Use, NothingSaid, Texts
<1>8. fill # NoFill => fill.of \in Str
  BY <1>2
<1>9. (EndFormat => fill # NoFill) /\ (AbortFormat => fill # NoFill)
      /\ \A need, b : Push(need, b) => fill # NoFill
  BY DEF EndFormat, AbortFormat, Push
<1> QED
  BY <1>1, <1>5, <1>6, <1>7, <1>8, <1>9 DEF Format

(***************************************************************************)
(* The theorems.                                                           *)
(***************************************************************************)

LEMMA InitInv == Init => IInv
<1> SUFFICES ASSUME Init PROVE IInv
  OBVIOUS
<1>1. Boxed = {} /\ Reachable = {}
  BY DEF Init, Boxed, Reachable, NoParts
<1>2. TypeOK
  <2>1. 0 \in 0..MaxCapacity /\ <<>> \in Seq(Byte)
    BY MaxCapacityIsPositive
  <2>2. NoParts \in Parts
    BY <2>1 DEF NoParts, Parts
  <2>3. NoFill \in [of : Str \cup {Null}, room : 0..MaxCapacity, wrote : Seq(Byte)]
    BY <2>1 DEF NoFill
  <2> QED
    BY <2>2, <2>3, NoMemoryIsMemory DEF Init, TypeOK
<1> QED
  BY <1>1, <1>2 DEF Init, IInv, PartsDescribeBuffer, OneOwner, NulFollows, FormatStaysInside

LEMMA NextInv == IInv /\ [Next]_vars => IInv'
<1> SUFFICES ASSUME IInv, [Next]_vars PROVE IInv'
  OBVIOUS
<1>1. CASE Format
  BY <1>1, FormatKeepsInv
<1>2. ASSUME NEW s \in Str, Make(s) PROVE IInv'
  BY <1>2, MakeKeepsInv
<1>3. ASSUME NEW s \in Str, Use(s) PROVE IInv'
  BY <1>3, UseKeepsInv
<1>4. CASE UNCHANGED vars
  BY <1>4, ReadKeepsInv DEF vars
<1> QED
  BY <1>1, <1>2, <1>3, <1>4 DEF Next

THEOREM Invariance == Spec => []IInv
BY InitInv, NextInv, PTL DEF Spec

(* The parts of every RString always describe the buffer they point to,    *)
(* with a byte to spare, so that a String made of them for reading may be  *)
(* forgotten (extn/core/string/mod.rs, unbox_from_value).                  *)
THEOREM PartsAreTrue == Spec => []PartsDescribeBuffer
BY Invariance, PTL DEF IInv

(* No two Strings share a buffer, and none is lost: what one String frees  *)
(* or grows is never what another one reads.                               *)
THEOREM BuffersHaveOneOwner == Spec => []OneOwner
BY Invariance, PTL DEF IInv

(* C code always finds a NUL behind the text of a string it can reach.     *)
THEOREM AlwaysNulTerminated == Spec => []NulFollows
BY Invariance, PTL DEF IInv

(* sprintf never writes past the buffer of its result.                     *)
THEOREM FormatInside == Spec => []FormatStaysInside
BY Invariance, PTL DEF IInv

LEMMA InitSays == Init => NothingSaid /\ Strings!Init
<1> SUFFICES ASSUME Init PROVE NothingSaid /\ Strings!Init
  OBVIOUS
<1>1. Boxed = {}
  BY DEF Init, Boxed, NoParts
<1>2. [s \in Boxed |-> Text(s)] = [s \in {} |-> <<>>]
  BY <1>1
<1> QED
  BY <1>2 DEF Init, NothingSaid, Strings!Init

LEMMA NextSays ==
    ASSUME IInv, NothingSaid, [Next]_vars
    PROVE  NothingSaid' /\ [Strings!Next]_<<[s \in Boxed |-> Text(s)], call>>
<1>1. CASE Format
  BY <1>1, FormatStep DEF Strings!Next
<1>2. ASSUME NEW s \in Str, Make(s) PROVE NothingSaid' /\ Strings!Next
  BY <1>2, MakeStep DEF Strings!Next
<1>3. ASSUME NEW s \in Str, Use(s) PROVE NothingSaid' /\ Strings!Next
  BY <1>3, UseStep DEF Strings!Next
<1>4. CASE UNCHANGED vars
  <2>1. memory' = memory /\ string' = string /\ fill' = fill /\ call' = call
    BY <1>4 DEF vars
  <2>2. Texts' = Texts
    BY <2>1, SayingNothing
  <2> QED
    BY <2>1, <2>2 DEF NothingSaid, Texts
<1> QED
  BY <1>1, <1>2, <1>3, <1>4 DEF Next

(* The calls implement strings that are just their texts (RubyString):     *)
(* each call, those of sprintf among them, gives its receiver the text it  *)
(* promises, wherever the buffer moves, and no other string another one.   *)
THEOREM ImplementsRubyString == Spec => KeepsTexts
<1>1. Init => NothingSaid /\ Strings!Init
  BY InitSays
<1>2. IInv /\ NothingSaid /\ [Next]_vars =>
         NothingSaid' /\ [Strings!Next]_<<[s \in Boxed |-> Text(s)], call>>
  BY NextSays
<1> QED
  BY <1>1, <1>2, Invariance, PTL DEF Spec, KeepsTexts, Strings!Spec

(* What sprintf returns is empty, whatever it wrote: FormatReturnsText     *)
(* holds of a call only if there was nothing to write. The length that     *)
(* mrb_str_resize is asked for becomes a capacity, and never a length      *)
(* (extn/core/string/ffi.rs, try_resize).                                  *)
THEOREM FormatReturnsNothing == Spec => [][EndFormat => string'[fill.of].len = 0]_vars
<1>1. Init => NothingSaid
  BY InitSays
<1>2. IInv /\ NothingSaid /\ [Next]_vars => NothingSaid'
  BY NextSays
<1>3. IInv /\ NothingSaid => [EndFormat => string'[fill.of].len = 0]_vars
  BY FormatStep DEF Format
<1> QED
  BY <1>1, <1>2, <1>3, Invariance, PTL DEF Spec

(* The variables keep to their types.                                      *)
THEOREM BoxTypes == Spec => []TypeOK
BY Invariance, PTL DEF IInv

=============================================================================

---------------------------- MODULE NulTerminatedVec ----------------------------
(***************************************************************************)
(* The byte buffer of spinoso-string as the interpreter builds it (the     *)
(* feature always-nul-terminated-c-string-compat): a Vec of Rust whose     *)
(* spare capacity starts and ends with a NUL byte after every operation    *)
(* that may move it, grow it or change its length.                         *)
(*                                                                         *)
(* A Vec is its allocation and its length. What an operation may leave     *)
(* behind is a set of Vecs: the allocator may hand out more than it was    *)
(* asked for, and bytes that nothing has written are any bytes.            *)
(***************************************************************************)
EXTENDS Naturals, Sequences

CONSTANTS
    Byte,           \* the bytes that the model tells apart
    Nul,            \* the byte 0
    MaxCapacity     \* bound: the largest allocation

ASSUME NulIsByte == Nul \in Byte
ASSUME MaxCapacityIsPositive == MaxCapacity \in Nat \ {0}

(* Allocations of n bytes, and all of them up to the bound. The empty one  *)
(* stands for no allocation at all, as it does in Rust.                    *)
Block(n) == [1..n -> Byte]
Memory == UNION {Block(n) : n \in 0..MaxCapacity}

(***************************************************************************)
(* What Rust's Vec does.                                                   *)
(***************************************************************************)

(* The Vecs of length n with these first n bytes and room for extra more.  *)
Holding(bytes, n, extra) ==
    {[mem |-> m, len |-> n] :
        m \in {b \in UNION {Block(c) : c \in (n + extra)..MaxCapacity} :
                  \A i \in 1..n : b[i] = bytes[i]}}

(* Vec::reserve, reserve_exact and a try_reserve that succeeds: nothing if *)
(* the spare capacity is large enough, a larger allocation otherwise.      *)
Reserve(v, n) ==
    IF v.len + n <= Len(v.mem) THEN {v} ELSE Holding(v.mem, v.len, n)

(* An allocation with bytes written after its first n.                     *)
Written(mem, n, bytes) ==
    [i \in 1..Len(mem) |->
        IF i \in (n + 1)..(n + Len(bytes)) THEN bytes[i - n] ELSE mem[i]]

(* Writing bytes behind the contents of a Vec that has room for them.      *)
Put(v, bytes) ==
    [mem |-> Written(v.mem, v.len, bytes), len |-> v.len + Len(bytes)]

(***************************************************************************)
(* The terminator.                                                         *)
(***************************************************************************)

(* A mutant of Terminate: the NUL goes to the last byte of the contents.   *)
TerminateEarly(v) ==
    [v EXCEPT !.mem = [i \in 1..Len(v.mem) |->
                          IF i \in {v.len, Len(v.mem)} THEN Nul ELSE v.mem[i]]]

Terminate(v) ==
    [v EXCEPT !.mem = [i \in 1..Len(v.mem) |->
                          IF i \in {v.len + 1, Len(v.mem)} THEN Nul ELSE v.mem[i]]]

EnsureNulTerminated(v) ==
    IF v.len < Len(v.mem) THEN {Terminate(v)}
                          ELSE {Terminate(w) : w \in Reserve(v, 1)}

(***************************************************************************)
(* The operations of Buf that strings in the interpreter use.              *)
(***************************************************************************)

WithCapacity(n) == UNION {EnsureNulTerminated(v) : v \in Holding(<<>>, 0, n + 1)}

(* From<Vec<u8>>, for a Vec that some conversion has filled.               *)
FromBytes(bytes) ==
    UNION {EnsureNulTerminated(v) : v \in Holding(bytes, Len(bytes), 0)}

(* A mutant of Clone: the derived one, which only clones the Vec.          *)
CloneAsDerived(v) == Holding(v.mem, v.len, 0)

Clone(v) == UNION {EnsureNulTerminated(w) : w \in Holding(v.mem, v.len, 0)}

ExtendFromSlice(v, bytes) ==
    UNION {EnsureNulTerminated(Put(w, bytes)) : w \in Reserve(v, Len(bytes))}

PushByte(v, byte) ==
    UNION {EnsureNulTerminated(Put(w, <<byte>>)) : w \in Reserve(v, 1)}

(* A mutant of Truncate: what follows the contents is left as it was.      *)
TruncateOnly(v, n) == {[v EXCEPT !.len = IF n < v.len THEN n ELSE v.len]}

Truncate(v, n) == EnsureNulTerminated([v EXCEPT !.len = IF n < v.len THEN n ELSE v.len])

(* A mutant of TryReserve: no byte more for the terminator.                *)
TryReserveExactly(v, n) == UNION {EnsureNulTerminated(w) : w \in Reserve(v, n)}

(* One byte more than the caller asks for, for the terminator.             *)
TryReserve(v, n) == UNION {EnsureNulTerminated(w) : w \in Reserve(v, n + 1)}

=============================================================================

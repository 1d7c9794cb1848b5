------------------------------ MODULE BoxedString ------------------------------
(***************************************************************************)
(* Strings on the heap of mruby whose bytes a Rust buffer owns. An RString *)
(* holds a buffer's raw parts: pointer, length and capacity. A call makes  *)
(* a String of the parts, works on it and, if it changed it, packs the     *)
(* parts back; a call that only reads lets the parts be. C code reads the  *)
(* parts too, and sprintf writes through the pointer, with other calls in  *)
(* between that the conversion of the formatted values makes.              *)
(***************************************************************************)
EXTENDS NulTerminatedVec

CONSTANTS
    Str,        \* RString objects
    Addr,       \* addresses of allocations
    Null,       \* no address
    Literal     \* the bytes that calls bring along

ASSUME NullIsNoAddress == Null \notin Addr /\ Null \notin Str
ASSUME LiteralsAreBytes == Literal \subseteq Seq(Byte)

VARIABLES
    memory,     \* the allocation at each address, empty where there is none
    string,     \* the raw parts in each RString
    fill,       \* what sprintf is writing: the RString that will hold the
                \* result, the room it counts on, the bytes it has written
    call        \* the last call, for the specification of what it does

vars == <<memory, string, fill, call>>

NoParts == [ptr |-> Null, len |-> 0, capa |-> 0]
NoFill == [of |-> Null, room |-> 0, wrote |-> <<>>]

Parts == [ptr : Addr \cup {Null}, len : 0..MaxCapacity, capa : 0..MaxCapacity]

TypeOK ==
    /\ memory \in [Addr -> Memory]
    /\ string \in [Str -> Parts]
    /\ fill \in [of : Str \cup {Null}, room : 0..MaxCapacity, wrote : Seq(Byte)]

Boxed == {s \in Str : string[s].ptr # Null}

(* Strings that calls other than sprintf's can reach: its result is not    *)
(* visible to Ruby code until it is returned.                              *)
Reachable == {s \in Boxed : s # fill.of}

Init ==
    /\ memory = [a \in Addr |-> <<>>]
    /\ string = [s \in Str |-> NoParts]
    /\ fill = NoFill
    /\ call = <<"none">>

(***************************************************************************)
(* Boxes.                                                                  *)
(***************************************************************************)

(* The allocation at old can give way to v at address a: the same address  *)
(* unless it had to grow.                                                  *)
Moves(m, old, v, a) ==
    /\ a = old \/ m[a] = <<>>
    /\ old # Null /\ Len(v.mem) = Len(m[old]) => a = old

Moved(m, old, v, a) ==
    [b \in Addr |-> IF b = a THEN v.mem ELSE IF b = old THEN <<>> ELSE m[b]]

(* The Strings that the parts in s make. Making one ensures the terminator.*)
Unbox(m, s) ==
    EnsureNulTerminated([mem |-> m[string[s].ptr], len |-> string[s].len])

(* The memory after a String was made of s, read, and dropped by nobody.   *)
Reading(m, s) ==
    {Moved(m, string[s].ptr, x[1], x[2]) :
        x \in {y \in Unbox(m, s) \X Addr : Moves(m, string[s].ptr, y[1], y[2])}}

(* One of Vecs takes the place of the buffer of s, if it has one, and its  *)
(* parts are packed into s.                                                *)
Box(m, s, Vecs) ==
    \E v \in Vecs, a \in Addr :
        /\ Moves(m, string[s].ptr, v, a)
        /\ memory' = Moved(m, string[s].ptr, v, a)
        /\ string' = [string EXCEPT ![s] =
                         [ptr |-> a, len |-> v.len, capa |-> Len(v.mem)]]

Text(s) == SubSeq(memory[string[s].ptr], 1, string[s].len)

(***************************************************************************)
(* Calls that make a string.                                               *)
(***************************************************************************)

Vacant(s) == s \notin Boxed

StrNew(s, b) ==
    /\ Vacant(s)
    /\ Box(memory, s, FromBytes(b))
    /\ call' = <<"new", s, b>>
    /\ UNCHANGED fill

StrDup(s, t) ==
    /\ Vacant(s) /\ t \in Reachable
    /\ \E m \in Reading(memory, t) :
          Box(m, s, UNION {Clone(u) : u \in Unbox(memory, t)})
    /\ call' = <<"dup", s, t>>
    /\ UNCHANGED fill

StrPlus(s, t, u) ==
    /\ Vacant(s) /\ {t, u} \subseteq Reachable
    /\ \E m1 \in Reading(memory, t) : \E m2 \in Reading(m1, u) :
          Box(m2, s, UNION {ExtendFromSlice(w, Text(u)) :
                 w \in UNION {ExtendFromSlice(v, Text(t)) :
                         v \in WithCapacity(string[t].len + string[u].len)}})
    /\ call' = <<"plus", s, t, u>>
    /\ UNCHANGED fill

(* mrb_str_substr does not look at the length it is given, beyond that it  *)
(* is not negative.                                                        *)
StrSubstr(s, t, n) ==
    /\ Vacant(s) /\ t \in Reachable
    /\ n \in 0..string[t].len
    /\ \E m \in Reading(memory, t) :
          Box(m, s, FromBytes(SubSeq(Text(t), n + 1, string[t].len)))
    /\ call' = <<"substr", s, t, n>>
    /\ UNCHANGED fill

(***************************************************************************)
(* Calls on a string.                                                      *)
(***************************************************************************)

Read(s) ==
    /\ s \in Reachable
    /\ memory' \in Reading(memory, s)
    /\ call' = <<"read", s>>
    /\ UNCHANGED <<string, fill>>

(* The bytes come from memory that is not a string's.                      *)
StrCat(s, b) ==
    /\ s \in Reachable
    /\ Box(memory, s, UNION {ExtendFromSlice(u, b) : u \in Unbox(memory, s)})
    /\ call' = <<"cat", s, b>>
    /\ UNCHANGED fill

(* The argument may be the receiver: two Strings are then made of the same *)
(* parts. If the receiver has to grow, what the other reads may be freed   *)
(* before it is copied, which is undefined: that case is left out.         *)
GrowsUnderItself(s, t) == s = t /\ 2 * string[s].len > string[s].capa

StrAppend(s, t) ==
    /\ {s, t} \subseteq Reachable
    /\ ~GrowsUnderItself(s, t)
    /\ \E m \in Reading(memory, t) :
          Box(m, s, UNION {ExtendFromSlice(u, Text(t)) : u \in Unbox(m, s)})
    /\ call' = <<"append", s, t>>
    /\ UNCHANGED fill

(* The byte is written in place: the parts are not packed again.           *)
SetByte(s, i, b) ==
    /\ s \in Reachable
    /\ i \in 1..string[s].len
    /\ memory' \in {[m EXCEPT ![string[s].ptr][i] = b] : m \in Reading(memory, s)}
    /\ call' = <<"setbyte", s, i, b>>
    /\ UNCHANGED <<string, fill>>

Clear(s) ==
    /\ s \in Reachable
    /\ Box(memory, s, UNION {Truncate(u, 0) : u \in Unbox(memory, s)})
    /\ call' = <<"clear", s>>
    /\ UNCHANGED fill

(* A mutant of Refill: the old buffer is not dropped.                      *)
RefillLeaking(m, s, Vecs) ==
    \E v \in Vecs, a \in Addr :
        /\ m[a] = <<>>
        /\ memory' = [m EXCEPT ![a] = v.mem]
        /\ string' = [string EXCEPT ![s] =
                         [ptr |-> a, len |-> v.len, capa |-> Len(v.mem)]]

(* The old buffer is dropped before the new one takes its place.           *)
Refill(m, s, Vecs) ==
    \E v \in Vecs, a \in Addr :
        /\ a = string[s].ptr \/ m[a] = <<>>
        /\ memory' = Moved(m, string[s].ptr, v, a)
        /\ string' = [string EXCEPT ![s] =
                         [ptr |-> a, len |-> v.len, capa |-> Len(v.mem)]]

Initialize(s, b) ==
    /\ s \in Reachable
    /\ Refill(memory, s, FromBytes(b))
    /\ call' = <<"initialize", s, b>>
    /\ UNCHANGED fill

(* The bytes are copied before the old buffer is dropped: t may be s.      *)
InitializeCopy(s, t) ==
    /\ {s, t} \subseteq Reachable
    /\ \E m \in Reading(memory, t) : Refill(m, s, FromBytes(Text(t)))
    /\ call' = <<"replace", s, t>>
    /\ UNCHANGED fill

(* A longer length only makes room; if there is none, NoMemoryError is     *)
(* raised with the string as it was.                                       *)
TryResize(u, n) ==
    IF n > u.len THEN TryReserve(u, n - u.len)
    ELSE IF n < u.len THEN Truncate(u, n) ELSE {u}

Resized(s, n) == UNION {TryResize(u, n) : u \in Unbox(memory, s)}

StrResize(s, n) ==
    /\ s \in Reachable
    /\ \/ Box(memory, s, Resized(s, n))
       \/ n > string[s].len /\ Box(memory, s, Unbox(memory, s))
    /\ call' = <<"resize", s, n>>
    /\ UNCHANGED fill

StringCstr(s) ==
    /\ s \in Reachable
    /\ IF Text(s) # <<>> /\ Text(s)[string[s].len] = Nul
       THEN memory' \in Reading(memory, s) /\ UNCHANGED string
       ELSE Box(memory, s, UNION {PushByte(u, Nul) : u \in Unbox(memory, s)})
    /\ call' = <<"cstr", s>>
    /\ UNCHANGED fill

(* The collector frees an object nobody refers to: a String is made of the *)
(* parts and dropped.                                                      *)
FreeStr(s) ==
    /\ s \in Reachable
    /\ memory' = [memory EXCEPT ![string[s].ptr] = <<>>]
    /\ string' = [string EXCEPT ![s] = NoParts]
    /\ call' = <<"free", s>>
    /\ UNCHANGED fill

(***************************************************************************)
(* Kernel#sprintf, in C.                                                   *)
(***************************************************************************)

(* result = mrb_str_new_capa(mrb, bsiz); memset(buf, 0, bsiz);             *)
BeginFormat(s, n) ==
    /\ fill = NoFill
    /\ Vacant(s)
    /\ Box(memory, s, {[v EXCEPT !.mem = Written(@, 0, [i \in 1..n |-> Nul])] :
                          v \in WithCapacity(n)})
    /\ fill' = [of |-> s, room |-> n, wrote |-> <<>>]
    /\ call' = <<"new", s, <<>>>>

(* The room, doubled until more than so many bytes fit into it.            *)
Doubled(room, bytes) ==
    {n \in 1..MaxCapacity :
        /\ bytes < n
        /\ \E k \in 0..MaxCapacity : n = room * 2^k /\ (k > 0 => n \div 2 <= bytes)}

(* CHECK(need), which resizes result and takes its pointer anew, and the   *)
(* write of b that follows.                                                *)
Push(need, b) ==
    /\ fill # NoFill
    /\ Len(b) <= need
    /\ LET blen == Len(fill.wrote) IN
       \E room \in Doubled(fill.room, blen + need) :
          /\ Box(memory, fill.of, {[u EXCEPT !.mem = Written(@, blen, b)] :
                                      u \in Resized(fill.of, room)})
          /\ call' = <<"resize", fill.of, room>>
          /\ fill' = [fill EXCEPT !.room = room, !.wrote = @ \o b]

(* mrb_str_resize(mrb, result, blen); return result;                       *)
EndFormat ==
    /\ fill # NoFill
    /\ Box(memory, fill.of, Resized(fill.of, Len(fill.wrote)))
    /\ call' = <<"resize", fill.of, Len(fill.wrote)>>
    /\ fill' = NoFill

(* An exception, of a conversion or for want of memory, leaves sprintf.    *)
(* Nothing refers to the result then but the collector, which frees it.    *)
AbortFormat ==
    /\ fill # NoFill
    /\ memory' = [memory EXCEPT ![string[fill.of].ptr] = <<>>]
    /\ string' = [string EXCEPT ![fill.of] = NoParts]
    /\ call' = <<"free", fill.of>>
    /\ fill' = NoFill

Format ==
    \/ \E s \in Str, n \in 1..MaxCapacity : BeginFormat(s, n)
    \/ \E need \in 0..MaxCapacity, b \in Literal : Push(need, b)
    \/ EndFormat
    \/ AbortFormat

Make(s) ==
    \/ \E b \in Literal : StrNew(s, b)
    \/ \E t \in Str : StrDup(s, t)
    \/ \E t, u \in Str : StrPlus(s, t, u)
    \/ \E t \in Str : \E n \in 0..MaxCapacity : StrSubstr(s, t, n)

Use(s) ==
    \/ Read(s)
    \/ \E b \in Literal : StrCat(s, b) \/ Initialize(s, b)
    \/ \E t \in Str : StrAppend(s, t) \/ InitializeCopy(s, t)
    \/ \E i \in 1..MaxCapacity, b \in Byte : SetByte(s, i, b)
    \/ Clear(s)
    \/ \E n \in 0..MaxCapacity : StrResize(s, n)
    \/ StringCstr(s)
    \/ FreeStr(s)

Next == Format \/ \E s \in Str : Make(s) \/ Use(s)

Spec == Init /\ [][Next]_vars

(***************************************************************************)
(* Properties.                                                             *)
(***************************************************************************)

(* The parts of every string describe an allocation that is there, as      *)
(* large as they say and with a byte to spare. It is the spare byte that   *)
(* lets a call which only reads make a String of the parts and drop it     *)
(* nowhere: ensuring the terminator never moves the buffer.                *)
PartsDescribeBuffer ==
    \A s \in Boxed :
        /\ string[s].capa = Len(memory[string[s].ptr])
        /\ string[s].len < string[s].capa

(* Every allocation belongs to one string: none is shared, and none is     *)
(* left behind when a buffer grows, a string is initialized again or       *)
(* sprintf is left by an exception.                                        *)
OneOwner ==
    \A a \in Addr : memory[a] # <<>> =>
        \E s \in Boxed : \A t \in Boxed : string[t].ptr = a <=> t = s

(* C code can read any string that a program can reach as a C string at    *)
(* the pointer of its parts: a NUL byte follows the text, and one is last  *)
(* in the allocation.                                                      *)
NulFollows ==
    \A s \in Reachable :
        LET m == memory[string[s].ptr] IN
        m[string[s].len + 1] = Nul /\ m[Len(m)] = Nul

(* Whatever the calls in between did, the buffer of its result has the     *)
(* room that sprintf counts on, the terminator apart, and all it wrote is  *)
(* inside.                                                                 *)
FormatStaysInside ==
    fill # NoFill =>
        /\ fill.of \in Boxed
        /\ Len(fill.wrote) < fill.room
        /\ fill.room < string[fill.of].capa

(* The buffers do what the calls promise: each string has a text of its    *)
(* own, which survives every move of its buffer and which no call on       *)
(* another string changes.                                                 *)
Strings == INSTANCE RubyString WITH
    text <- [s \in Boxed |-> Text(s)], Length <- 0..MaxCapacity
KeepsTexts == Strings!Spec

(* sprintf returns what it wrote: the comment above it in                  *)
(* mruby-sprintf/src/sprintf.c has sprintf("%{foo}f", { :foo => 1 })       *)
(* return "1f".                                                            *)
FormatReturnsText ==
    [][EndFormat =>
          LET s == fill.of IN
          SubSeq(memory'[string'[s].ptr], 1, string'[s].len) = fill.wrote]_vars

=============================================================================

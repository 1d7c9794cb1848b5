------------------------------- MODULE RubyString -------------------------------
(***************************************************************************)
(* What the strings of a Ruby program are to it: objects with a text of    *)
(* their own, which the operations called on them change as they say, and  *)
(* which nothing else changes.                                             *)
(***************************************************************************)
EXTENDS Naturals, Sequences

CONSTANTS
    Str,        \* string objects
    Byte,
    Nul,        \* the byte 0
    Literal,    \* the bytes that calls bring along
    Length      \* the lengths that calls ask for

VARIABLES
    text,       \* what each string that exists says
    call        \* the last call: its name, its receiver and its arguments

Says(s, b) == text' = [t \in DOMAIN text \cup {s} |-> IF t = s THEN b ELSE text[t]]

Drop(b, n) == SubSeq(b, n + 1, Len(b))
Take(b, n) == IF n < Len(b) THEN SubSeq(b, 1, n) ELSE b

(* Handed to C as a C string, a string gets a NUL byte of its own unless   *)
(* it ends with one.                                                       *)
WithNul(b) == IF b # <<>> /\ b[Len(b)] = Nul THEN b ELSE Append(b, Nul)

Init ==
    /\ text = [s \in {} |-> <<>>]
    /\ call = <<"none">>

(* Calls that make a string. It may be empty, as sprintf's is at first.    *)
Make(s) ==
    /\ s \notin DOMAIN text
    /\ \/ \E b \in Literal \cup {<<>>} : call' = <<"new", s, b>> /\ Says(s, b)
       \/ \E t \in DOMAIN text : call' = <<"dup", s, t>> /\ Says(s, text[t])
       \/ \E t, u \in DOMAIN text :
             call' = <<"plus", s, t, u>> /\ Says(s, text[t] \o text[u])
       \/ \E t \in DOMAIN text : \E n \in 0..Len(text[t]) :
             call' = <<"substr", s, t, n>> /\ Says(s, Drop(text[t], n))

(* Calls on a string that exists.                                          *)
Use(s) ==
    /\ s \in DOMAIN text
    /\ \/ call' = <<"read", s>> /\ UNCHANGED text
       \/ \E b \in Literal :
             \/ call' = <<"cat", s, b>> /\ Says(s, text[s] \o b)
             \/ call' = <<"initialize", s, b>> /\ Says(s, b)
       \/ \E t \in DOMAIN text :
             \/ call' = <<"append", s, t>> /\ Says(s, text[s] \o text[t])
             \/ call' = <<"replace", s, t>> /\ Says(s, text[t])
       \/ \E i \in 1..Len(text[s]), b \in Byte :
             call' = <<"setbyte", s, i, b>> /\ Says(s, [text[s] EXCEPT ![i] = b])
       \/ call' = <<"clear", s>> /\ Says(s, <<>>)
       \/ \E n \in Length : call' = <<"resize", s, n>> /\ Says(s, Take(text[s], n))
       \/ call' = <<"cstr", s>> /\ Says(s, WithNul(text[s]))
       \/ call' = <<"free", s>> /\ text' = [t \in DOMAIN text \ {s} |-> text[t]]

Next == \E s \in Str : Make(s) \/ Use(s)

Spec == Init /\ [][Next]_<<text, call>>

=============================================================================

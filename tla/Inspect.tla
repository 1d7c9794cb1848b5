--------------------------------- MODULE Inspect ---------------------------------
(***************************************************************************)
(* How strings and symbols are inspected: scolapasta-string-escape and the *)
(* iterators over it in spinoso-string and spinoso-symbol. An iterator     *)
(* yields characters, each the sequence of its bytes; <<>> is its end.     *)
(***************************************************************************)
EXTENDS SymbolIdent

(***************************************************************************)
(* literal.rs                                                              *)
(***************************************************************************)

HexDigits ==
    [nul |-> <<"0", "0">>, ff |-> <<"F", "F">>, c3 |-> <<"C", "3">>,
     e2 |-> <<"E", "2">>, f0 |-> <<"F", "0">>]

DebugEscape(b) ==
    CASE b \in {"\"", "\\"} -> <<"\\", b>>
      [] b = "lf" -> <<"\\", "n">>
      [] b = "cr" -> <<"\\", "r">>
      [] b = Continuation -> <<"\\", "x", "9", "8">>
      [] b \in DOMAIN HexDigits -> <<"\\", "x">> \o HexDigits[b]
      [] OTHER -> <<b>>

(* ascii_char_with_escape, <<>> for None                                   *)
AsciiCharWithEscape(char) ==
    IF IsAscii(char) /\ Len(DebugEscape(char[1])) > 1 THEN DebugEscape(char[1]) ELSE <<>>

(* InvalidUtf8ByteSequence: the literals of up to three bytes. next takes  *)
(* the first character of the first of them that has one.                  *)
InvalidBytes(s) == [i \in 1..Len(s) |-> DebugEscape(s[i])]

RECURSIVE NextLiteral(_)
NextLiteral(literals) ==
    IF literals = <<>> THEN [left |-> <<>>, char |-> <<>>]
    ELSE IF Head(literals) # <<>>
    THEN [left |-> <<Tail(Head(literals))>> \o Tail(literals), char |-> <<Head(literals)[1]>>]
    ELSE NextLiteral(Tail(literals))

(***************************************************************************)
(* string.rs: a whole message at once, as error messages show it.          *)
(***************************************************************************)

RECURSIVE FormatDebugEscape(_)
FormatDebugEscape(s) ==
    LET d == DecodeUtf8(s)
        char == Till(s, d.size)
        escape == AsciiCharWithEscape(char)
    IN  IF s = <<>> THEN <<>>
        ELSE (CASE d.valid /\ escape # <<>> -> escape
                [] d.valid /\ escape = <<>> -> char
                [] ~d.valid /\ d.size = 1 -> DebugEscape(char[1])
                [] ~d.valid /\ d.size = 2 -> DebugEscape(char[1]) \o DebugEscape(char[2])
                [] ~d.valid /\ d.size = 3 -> DebugEscape(char[1]) \o DebugEscape(char[2])
                                                \o DebugEscape(char[3]))
             \o FormatDebugEscape(From(s, d.size))

(***************************************************************************)
(* The iterators. They emit what of colon, quotes and escapes is due, and  *)
(* then the next character of the bytes.                                   *)
(***************************************************************************)

OfSymbol(s) ==
    LET ident == Parse(s) # NoType IN
    [ident |-> ident, colon |-> TRUE, leading |-> ~ident, trailing |-> ~ident,
     escaped |-> <<>>, literals |-> <<>>, bytes |-> s]

OfString(s) ==
    [ident |-> FALSE, colon |-> FALSE, leading |-> TRUE, trailing |-> TRUE,
     escaped |-> <<>>, literals |-> <<>>, bytes |-> s]

(* When nothing else is due: the bytes, then the trailing quote.           *)
NextOfBytes(it) ==
    LET d == DecodeUtf8(it.bytes)
        char == Till(it.bytes, d.size)
        rest == [it EXCEPT !.bytes = From(@, d.size)]
        escape == AsciiCharWithEscape(char)
        invalid == NextLiteral(InvalidBytes(char))
    IN  CASE it.bytes = <<>> ->
                [it |-> [it EXCEPT !.trailing = FALSE],
                 char |-> IF it.trailing THEN <<"\"">> ELSE <<>>]
          [] d.valid /\ (escape = <<>> \/ (it.ident /\ char[1] \in {"\"", "\\"})) ->
                [it |-> rest, char |-> char]
          [] d.valid /\ escape # <<>> /\ ~(it.ident /\ char[1] \in {"\"", "\\"}) ->
                [it |-> [rest EXCEPT !.escaped = Tail(escape)], char |-> <<escape[1]>>]
          [] it.bytes # <<>> /\ ~d.valid ->
                [it |-> [rest EXCEPT !.literals = invalid.left], char |-> invalid.char]

(* A mutant of Next: what is left of an escape is forgotten when the       *)
(* bytes have run out.                                                     *)
NextForgetful(it) ==
    IF it.colon THEN [it |-> [it EXCEPT !.colon = FALSE], char |-> <<":">>]
    ELSE IF it.leading THEN [it |-> [it EXCEPT !.leading = FALSE], char |-> <<"\"">>]
    ELSE IF it.escaped # <<>>
    THEN [it |-> [it EXCEPT !.escaped = Tail(@)], char |-> <<it.escaped[1]>>]
    ELSE IF it.bytes # <<>> /\ NextLiteral(it.literals).char # <<>>
    THEN [it |-> [it EXCEPT !.literals = NextLiteral(it.literals).left],
          char |-> NextLiteral(it.literals).char]
    ELSE NextOfBytes([it EXCEPT !.literals = <<>>])

Next(it) ==
    IF it.colon THEN [it |-> [it EXCEPT !.colon = FALSE], char |-> <<":">>]
    ELSE IF it.leading THEN [it |-> [it EXCEPT !.leading = FALSE], char |-> <<"\"">>]
    ELSE IF it.escaped # <<>>
    THEN [it |-> [it EXCEPT !.escaped = Tail(@)], char |-> <<it.escaped[1]>>]
    ELSE IF NextLiteral(it.literals).char # <<>>
    THEN [it |-> [it EXCEPT !.literals = NextLiteral(it.literals).left],
          char |-> NextLiteral(it.literals).char]
    ELSE NextOfBytes([it EXCEPT !.literals = <<>>])

(* format_into: all that the iterator yields.                              *)
RECURSIVE Format(_)
Format(it) ==
    LET next == Next(it) IN
    IF next.char = <<>> THEN <<>> ELSE next.char \o Format(next.it)

(* A String that is ASCII or binary: each byte's literal.                  *)
RECURSIVE Literals(_)
Literals(s) == IF s = <<>> THEN <<>> ELSE DebugEscape(s[1]) \o Literals(Tail(s))
InspectBytes(s) == <<"\"">> \o Literals(s) \o <<"\"">>

=============================================================================

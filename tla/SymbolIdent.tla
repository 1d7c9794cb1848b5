------------------------------- MODULE SymbolIdent -------------------------------
(***************************************************************************)
(* spinoso-symbol: which byte strings are identifiers, and of which type.  *)
(* A symbol whose name is an identifier is inspected without quotes.       *)
(***************************************************************************)
EXTENDS Utf8

NoType == "none"
Sigils == {"Global", "Class", "Instance"}

(* ASCII bytes that are in identifiers, and others that are of interest.   *)
Upper == {"A", "F"}
Letter == {"a", "n", "x"} \cup Upper
Digit == {"0", "1"}
WordByte == Letter \cup Digit \cup {"_"}

(* is_special_global_punct, as far as these bytes go                       *)
SpecialPunct == {"!", "\"", "$", "*", "+", "0", "<", "=", ">", "?", "@", "\\", "~"}

SymbolicMethodNames ==
    {<<"<">>, <<"<", "<">>, <<"<", "=">>, <<"<", "=", ">">>, <<">">>, <<">", ">">>,
     <<">", "=">>, <<"=", "~">>, <<"=", "=">>, <<"=", "=", "=">>, <<"*">>, <<"*", "*">>,
     <<"+">>, <<"-">>, <<"+", "@">>, <<"-", "@">>, <<"~">>, <<"[", "]">>,
     <<"[", "]", "=">>, <<"!">>, <<"!", "=">>, <<"!", "~">>}

Final(s) == s[Len(s)]
Front(s) == Till(s, Len(s) - 1)

(* Every character but those of ASCII that are no word characters.         *)
IsIdentChar(char) == Len(char) > 1 \/ char[1] \in WordByte

(* is_ident_until(name).is_none()                                          *)
RECURSIVE AllIdentChars(_)
AllIdentChars(s) ==
    LET d == DecodeUtf8(s) IN
    s = <<>> \/ (/\ d.valid /\ IsIdentChar(Till(s, d.size))
                 /\ AllIdentChars(From(s, d.size)))
IsIdent(s) == s # <<>> /\ AllIdentChars(s)

(* A mutant of IsNextIdentExhausting: the character need not be the last.  *)
IsNextIdent(s) ==
    LET d == DecodeUtf8(s) IN d.valid /\ IsIdentChar(Till(s, d.size))

IsNextIdentExhausting(s) ==
    LET d == DecodeUtf8(s) IN d.valid /\ d.size = Len(s) /\ IsIdentChar(s)

(* char::is_numeric; no character that is not ASCII is one here.           *)
IsSpecialGlobalName(s) ==
    CASE s = <<>> -> FALSE
      [] s # <<>> /\ s[1] \in SpecialPunct -> Len(s) = 1
      [] s # <<>> /\ s[1] = "-" -> IsNextIdentExhausting(Tail(s))
      [] s # <<>> /\ s[1] \notin SpecialPunct \cup {"-"} -> \A i \in DOMAIN s : s[i] \in Digit

(* char::is_uppercase; the character of two bytes is.                      *)
IsConstName(s) ==
    IF IsAscii(s) THEN s[1] \in Upper
    ELSE IsUtf8(s) /\ (s[1] \in Upper \/ s[1] = "c3")

(* Not how an identifier starts.                                           *)
StartsBadly(s) == s[1] \notin NonAscii \cup Letter \cup {"_"}

(* A first character that is none is skipped where the name ends in "=".   *)
RECURSIVE ParseIdent(_, _)
ParseIdent(s, type) ==
    IF s = <<>> THEN NoType
    ELSE IF StartsBadly(s)
    THEN IF Len(s) > 1 /\ Final(s) = "="
            /\ ParseIdent(Tail(Front(s)), type) \notin {NoType, "AttrSet"}
         THEN type ELSE NoType
    ELSE CASE IsIdent(s) -> type
           [] ~IsIdent(s) /\ Final(s) \in {"!", "?"} /\ IsIdent(Front(s)) ->
                IF type \in Sigils THEN NoType ELSE "Junk"
           [] ~IsIdent(s) /\ Final(s) = "=" /\ IsIdent(Front(s)) ->
                IF type \in Sigils THEN NoType ELSE "AttrSet"
           [] OTHER -> NoType

Parse(s) ==
    IF s \in {<<>>, <<"nul">>} THEN NoType
    ELSE CASE s[1] = "$" ->
                IF IsSpecialGlobalName(Tail(s)) THEN "Global" ELSE ParseIdent(Tail(s), "Global")
           [] s[1] = "@" ->
                IF Len(s) > 1 /\ s[2] = "@" THEN ParseIdent(From(s, 2), "Class")
                ELSE ParseIdent(Tail(s), "Instance")
           [] s[1] \notin {"$", "@"} ->
                IF s \in SymbolicMethodNames THEN "Junk"
                ELSE IF StartsBadly(s) THEN NoType
                ELSE ParseIdent(s, IF IsConstName(s) THEN "Constant" ELSE "Local")

=============================================================================

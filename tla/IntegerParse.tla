------------------------------ MODULE IntegerParse ------------------------------
(***************************************************************************)
(* scolapasta-int-parse: what Kernel#Integer makes of a string, and what   *)
(* String#to_i makes of it, which shares no code with it. A string         *)
(* is a sequence of bytes, a byte is named by its ASCII character. The     *)
(* i64 that the result has to fit into ends at a MaxInt here.              *)
(***************************************************************************)
EXTENDS Integers, Sequences

CONSTANTS
    MaxInt,     \* i64::MAX, and -MaxInt - 1 is i64::MIN
    MaxInt32    \* i32::MAX, in which a radix has to be

None == "none"     \* no byte
ByString == 0       \* no radix: the string decides
Error(kind) == [ok |-> FALSE, kind |-> kind]
Ok(n) == [ok |-> TRUE, value |-> n]

Space == {" "}
Ascii == {"0", "1", "7", "9", "b", "o", "d", "x", "z", "_", "+", "-"} \cup Space

(* The least radix in which a byte is a digit; those that are none have    *)
(* one that is never reached.                                              *)
RadixTable(b) ==
    CASE b = "0" -> 1 [] b = "1" -> 2 [] b = "7" -> 8 [] b = "9" -> 10
      [] b = "b" -> 12 [] b = "d" -> 14 [] b = "o" -> 25 [] b = "x" -> 34
      [] b = "z" -> 36
      [] OTHER -> 1000

Value(b) == RadixTable(b) - 1

Head1(s) == IF s = <<>> THEN None ELSE s[1]
Skip(s, n) == SubSeq(s, n + 1, Len(s))

(***************************************************************************)
(* subject.rs and whitespace.rs                                            *)
(***************************************************************************)

IsIntegerString(s) == \A i \in DOMAIN s : s[i] \in Ascii

(* All spaces are left alone.                                              *)
TrimLeading(s) ==
    LET solid == {i \in DOMAIN s : s[i] \notin Space} IN
    IF solid = {} THEN s ELSE Skip(s, (CHOOSE i \in solid : \A j \in solid : i <= j) - 1)

TrimTrailing(s) ==
    LET solid == {i \in DOMAIN s : s[i] \notin Space} IN
    IF solid = {} THEN s ELSE SubSeq(s, 1, CHOOSE i \in solid : \A j \in solid : j <= i)

Trim(s) == TrimTrailing(TrimLeading(s))

(***************************************************************************)
(* radix.rs: the radix that an argument asks for.                          *)
(***************************************************************************)

Radix(s, num) ==
    LET inRange == num \in (-MaxInt32 - 1)..MaxInt32
        magnitude == IF num \in -36..-2 THEN -num ELSE num
    IN  IF ~inRange THEN Error("RangeError")
        ELSE IF num \in {0, -1} THEN Ok(ByString)
        ELSE IF num = 1 THEN Error("ArgumentError")
        ELSE IF num < 0 /\ Head1(TrimLeading(s)) = "0" THEN Ok(ByString)
        ELSE IF magnitude \in 2..36 THEN Ok(magnitude)
        ELSE Error("ArgumentError")

(***************************************************************************)
(* lib.rs, from phase 3 on.                                                *)
(***************************************************************************)

Literal(b) ==
    CASE b = "b" -> 2 [] b = "o" -> 8 [] b = "d" -> 10 [] b = "x" -> 16 [] OTHER -> 0

(* Phase 5, past a first "0": the radix and the bytes that are left. There *)
(* is nothing to parse after a lone zero.                                  *)
AfterZero(rest, radix) ==
    LET named == IF rest = <<>> THEN 0 ELSE Literal(rest[1]) IN
    CASE named > 0 /\ radix \in {ByString, named} ->
            [ok |-> TRUE, done |-> FALSE, radix |-> named, rest |-> Skip(rest, 1)]
      [] named > 0 /\ radix \notin {ByString, named} -> [ok |-> FALSE]
      [] rest = <<>> -> [ok |-> TRUE, done |-> TRUE]
      [] OTHER -> [ok |-> TRUE, done |-> FALSE, rest |-> rest,
                   radix |-> IF radix = ByString THEN 8 ELSE radix]

(* Phase 6: zeros, each with an underscore at most.                        *)
RECURSIVE Squeeze(_)
Squeeze(s) ==
    IF Head1(s) = "0"
    THEN IF Head1(Skip(s, 1)) # "_" THEN Squeeze(Skip(s, 1))
         ELSE IF Head1(Skip(s, 2)) \in {None, "_"} THEN [ok |-> FALSE]
         ELSE Squeeze(Skip(s, 2))
    ELSE IF Head1(s) = "_" THEN [ok |-> FALSE] ELSE [ok |-> TRUE, rest |-> s]

(* Phase 7: the digits, without underscores.                               *)
RECURSIVE Collect(_, _, _)
Collect(s, radix, digits) ==
    IF s = <<>> THEN [ok |-> TRUE, digits |-> digits]
    ELSE IF s[1] = "_"
    THEN IF Head1(Skip(s, 1)) \in {None, "_"} THEN [ok |-> FALSE]
         ELSE Collect(Skip(s, 1), radix, digits)
    ELSE IF RadixTable(s[1]) <= radix
    THEN Collect(Skip(s, 1), radix, Append(digits, s[1]))
    ELSE [ok |-> FALSE]

(* i64::from_str_radix                                                     *)
RECURSIVE Evaluate(_, _)
Evaluate(digits, radix) ==
    IF digits = <<>> THEN 0
    ELSE Evaluate(SubSeq(digits, 1, Len(digits) - 1), radix) * radix
            + Value(digits[Len(digits)])

FromStrRadix(digits, negative, radix) ==
    LET n == IF negative THEN -Evaluate(digits, radix) ELSE Evaluate(digits, radix) IN
    IF n \in (-MaxInt - 1)..MaxInt THEN Ok(n) ELSE Error("ArgumentError")

(* A mutant of Number: no digits are taken for 0.                          *)
NumberNoDigits(rest, radix, negative) ==
    LET squeezed == Squeeze(rest)
        digits == IF squeezed.ok THEN Collect(squeezed.rest, radix, <<>>) ELSE squeezed
    IN  IF ~digits.ok THEN Error("ArgumentError")
        ELSE FromStrRadix(digits.digits, negative, radix)

(* Phases 6 to 8. A number whose digits were all squeezed has none.        *)
Number(rest, radix, negative) ==
    LET squeezed == Squeeze(rest)
        digits == IF squeezed.ok THEN Collect(squeezed.rest, radix, <<>>) ELSE squeezed
    IN  IF ~digits.ok \/ digits.digits = <<>> THEN Error("ArgumentError")
        ELSE FromStrRadix(digits.digits, negative, radix)

Unsigned(s, radix, negative) ==
    IF s = <<>> THEN Error("ArgumentError")
    ELSE IF s[1] # "0" THEN Number(s, IF radix = ByString THEN 10 ELSE radix, negative)
    ELSE LET prefix == AfterZero(Skip(s, 1), radix) IN
         IF ~prefix.ok THEN Error("ArgumentError")
         ELSE IF prefix.done THEN Ok(0)
         ELSE Number(prefix.rest, prefix.radix, negative)

Signed(s, radix) ==
    IF Head1(s) \in {"+", "-"} THEN Unsigned(Skip(s, 1), radix, s[1] = "-")
    ELSE Unsigned(s, radix, FALSE)

(* parse(subject, Some(num)); with None it does what it does with 0.       *)
Parse(s, num) ==
    IF ~IsIntegerString(s) THEN Error("ArgumentError")
    ELSE LET radix == Radix(s, num) IN
         IF radix.ok THEN Signed(Trim(s), radix.value) ELSE radix

(***************************************************************************)
(* String#to_i, in the trampolines of String.                              *)
(***************************************************************************)

(* i64::from_str_radix: a sign and at least one digit.                     *)
StrRadix(s, radix) ==
    LET signed == Head1(s) \in {"+", "-"}
        digits == IF signed THEN Skip(s, 1) ELSE s
    IN  IF digits = <<>> \/ \E i \in DOMAIN digits : RadixTable(digits[i]) > radix
        THEN Error("ParseIntError")
        ELSE FromStrRadix(digits, signed /\ s[1] = "-", radix)

(* Discarding from the end one byte at a time until the rest parses.       *)
Longest(s, radix) ==
    LET parsed == {n \in 1..Len(s) : StrRadix(SubSeq(s, 1, n), radix).ok} IN
    IF parsed = {} THEN 0
    ELSE StrRadix(SubSeq(s, 1, CHOOSE n \in parsed : \A m \in parsed : m <= n), radix).value

ToI(s, base) ==
    LET radix == IF base = 0 THEN 10 ELSE base
        kept == {i \in DOMAIN s : s[i] # "0"}
        zeros == IF kept = {} THEN Len(s) ELSE (CHOOSE i \in kept : \A j \in kept : i <= j) - 1
        rest == Skip(s, zeros)
        named == zeros > 0 /\ rest # <<>> /\ Literal(Head1(rest)) = radix
    IN  IF base < 0 \/ base = 1 \/ base > 36 THEN Error("ArgumentError")
        ELSE Ok(Longest(IF named THEN Skip(rest, 1) ELSE rest, radix))

=============================================================================

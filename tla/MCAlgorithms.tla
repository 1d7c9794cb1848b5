------------------------------ MODULE MCAlgorithms ------------------------------
(***************************************************************************)
(* The algorithms of the crates on byte strings and arrays, each compared  *)
(* with a definition that does not scan, on every input up to a length:    *)
(* an input grows by one symbol at a time.                                 *)
(***************************************************************************)
EXTENDS Inspect, ArrayMethods, ArrayLaws

CONSTANTS
    MaxInt32,           \* the smaller integer type, scaled down as MaxInt is
    MaxTimestamp, MaxTz     \* the last second of a Time, and of one on tz-rs

Ints == INSTANCE IntegerParse
Times == INSTANCE TimeOps WITH MaxInt <- MaxTimestamp, Digits <- 2, MicrosInNano <- 10

CharCode ==
    [c \in {"lf", "-", "^", "a", "b"} |->
        CASE c = "lf" -> 10 [] c = "-" -> 45 [] c = "^" -> 94 [] c = "a" -> 97 [] c = "b" -> 98]
Strs == INSTANCE StringMethods WITH Code <- CharCode

Scans == INSTANCE StringScanner
Thrs == INSTANCE Threads WITH Mutex <- {"m"}

Hashes == INSTANCE HashMethods WITH NoEntry <- Nil

VarNames == {"p", "q", "leading=", "", "with NUL"}
Envs == INSTANCE Env WITH
    Name <- VarNames, Value <- {"u", "v", "NUL"}, Empty <- "", NoValue <- Nil,
    HasEq <- {"leading="}, HasNul <- {"with NUL", "NUL"}

(* The symbols of the inputs. Names twice: many bytes, and long ones.      *)
Symbols ==
    [names |-> {"a", "A", "1", "0", "_", "$", "@", "=", "!", "?", "[", "]", "<", "-", "+",
                "\"", "\\", "nul", "lf", "98", "c3", "ff"},
     longnames |-> {"a", "1", "@", "=", "$", "-"},
     texts |-> {"a", "\"", "x", "cr", "lf", "98", "c3", "e2", "ff"},
     longtexts |-> {"a", "98", "c3", "f0"},
     words |-> {"a", "b", "-", "^", "lf", "c3", "98"},
     numbers |-> {"0", "1", "7", "9", "b", "o", "d", "x", "z", "_", "+", "-", " "},
     longnumbers |-> {"0", "1", "x", "_"},
     arrays |-> Elem,
     times |-> {0, 1, 4, 5, 9},
     hashes |-> [key : {"a", "b", "c"}, value : {"a", "b", Nil}],
     scans |-> [call : {"scan", "check", "skip", "match?", "scan_until", "check_until",
                        "skip_until", "search_full", "exist?"}, with : {<<"a">>, <<"c3", "98">>}] \cup
               [call : {"pos="}, with : {-1, 2, 4}] \cup
               [call : {"getch", "get_byte", "<<", "reset", "terminate", "unscan"}, with : {Nil}],
     threads |-> {"new", "aborting", "blockless", "synchronize", "lock", "try_lock",
                  "unlock", "sleep", "value", "error", "fatal"},
     longthreads |-> {"new", "aborting", "synchronize", "value", "error"},
     envs |-> [name : VarNames, value : {"u", "v", "NUL", Nil}]]

(* Bound: the length of the inputs.                                        *)
InputLengths ==
    [names |-> 3, longnames |-> 5, texts |-> 4, longtexts |-> 6, words |-> 4, numbers |-> 3,
     longnumbers |-> 6, arrays |-> 4, times |-> 4, hashes |-> 3,
     scans |-> 3, threads |-> 4, longthreads |-> 6, envs |-> 3]

IsName == subject \in {"names", "longnames"}
IsText == subject \in {"texts", "longtexts"}
IsNumber == subject \in {"numbers", "longnumbers"}

(***************************************************************************)
(* Characters.                                                             *)
(***************************************************************************)

(* Five ways to find the characters of a String that need not be valid     *)
(* UTF-8 agree, although each skips ASCII, counts or scans in its own way: *)
(* the iterator, char_len, get_char, get_char_slice and chr.               *)
CharsFound(s) ==
    LET chars == Chars(s)
        n == Len(chars)
    IN  /\ Concat(chars) = s
        /\ CharLen(s) = n
        /\ Chr(s) = IF n = 0 THEN <<>> ELSE chars[1]
        /\ \A i \in 0..(Len(s) + 1) :
              GetChar(s, i) = IF i < n THEN chars[i + 1] ELSE NoSlice
        /\ \A i, j \in 0..(Len(s) + 1) : i <= j =>
              GetCharSlice(s, i, j) =
                  IF i > n THEN NoSlice
                  ELSE Concat(SubSeq(chars, i + 1, Least(j, n)))

(* Methods that change a String take, move and add whole characters: chop  *)
(* decodes from the back and chars from the front, and they do not differ  *)
(* on where the last character begins, in invalid sequences either.        *)
EditsKeepChars(s) ==
    LET chars == Chars(s)
        n == Len(chars)
    IN  /\ Chars(Chop(s)) = SubSeq(chars, 1,
                IF EndsWith(s, <<"cr", "lf">>) THEN n - 2 ELSE n - 1)
        /\ IsUtf8(s) => Chars(Reverse(s)) = Backwards(chars)
        /\ \A width \in 0..(n + 3) :
              LET centered == Chars(Center(s, width, <<"a", "x">>))
                  left == (Len(centered) - n) \div 2
              IN  /\ Len(centered) = IF width > n THEN width ELSE n
                  /\ SubSeq(centered, left + 1, left + n) = chars
        /\ ~EndsWith(ChompAll(s), <<"lf">>)
        /\ ChompAll(ChompOne(s)) = ChompAll(s) \/ EndsWith(s, <<"cr">>)

(***************************************************************************)
(* Symbols.                                                                *)
(***************************************************************************)

(* Local and Constant, as IdentifierType documents them.                   *)
IsPlain(s) ==
    /\ s # <<>> /\ s[1] \notin Digit
    /\ \A i \in DOMAIN Chars(s) :
          IsIdentChar(Chars(s)[i]) /\ Chars(s)[i][1] \notin {NeverValid, Continuation}
    /\ IsUtf8(s)

StartsUpper(s) == s[1] \in Upper \cup {"c3"}

DocumentedTypes(s) ==
    {type \in {"Local", "Constant", "AttrSet", "Junk", "Global", "Instance", "Class"} :
        CASE type = "Local" -> IsPlain(s) /\ ~StartsUpper(s)
          [] type = "Constant" -> IsPlain(s) /\ StartsUpper(s)
          [] type = "AttrSet" -> Len(s) > 1 /\ Final(s) = "=" /\ IsPlain(Front(s))
          [] type = "Junk" ->
                \/ s \in SymbolicMethodNames
                \/ Len(s) > 1 /\ Final(s) \in {"!", "?"} /\ IsPlain(Front(s))
          [] type = "Instance" -> Len(s) > 1 /\ s[1] = "@" /\ IsPlain(Tail(s))
          [] type = "Class" -> Len(s) > 2 /\ Till(s, 2) = <<"@", "@">> /\ IsPlain(From(s, 2))
          [] type = "Global" ->
                /\ Len(s) > 1 /\ s[1] = "$"
                /\ \/ IsPlain(Tail(s))
                   \/ Len(s) = 2 /\ s[2] \in SpecialPunct
                   \/ s[2] = "-" /\ Len(Chars(s)) = 3 /\ IsIdent(From(s, 2))
                   \/ \A i \in 2..Len(s) : s[i] \in Digit /\ s[2] # "0"}

(* A variable whose name goes on with what starts none and ends in "=".    *)
TakenForVariable(s) ==
    LET name == IF Len(s) > 1 /\ Till(s, 2) = <<"@", "@">> THEN From(s, 2) ELSE Tail(s) IN
    Len(s) > 2 /\ s[1] \in {"@", "$"} /\ Len(name) > 2 /\ StartsBadly(name) /\ Final(s) = "="

(* A name has the one type that IdentifierType documents, and none if it   *)
(* is no identifier; the names that TakenForVariable describes are apart.  *)
SymbolTypes ==
    IsName /\ input # <<>> /\ ~TakenForVariable(input) =>
        DocumentedTypes(input) = {Parse(input)} \ {NoType}

(***************************************************************************)
(* Inspecting.                                                             *)
(***************************************************************************)

(* Reading the literal of a string, or failing.                            *)
Unreadable == <<"unreadable">>
UnHex(hex) == CHOOSE b \in DOMAIN HexDigits \cup {Continuation} :
    DebugEscape(b) = <<"\\", "x">> \o hex

RECURSIVE ReadTail(_)
ReadTail(s) ==
    CASE s = <<>> -> Unreadable
      [] s = <<"\"">> -> <<>>
      [] Len(s) > 1 /\ s[1] = "\"" -> Unreadable
      [] Len(s) > 1 /\ s[1] = "\\" ->
            IF s[2] = "x" THEN <<UnHex(SubSeq(s, 3, 4))>> \o ReadTail(From(s, 4))
            ELSE (CASE s[2] = "n" -> <<"lf">> [] s[2] = "r" -> <<"cr">> [] OTHER -> <<s[2]>>)
                    \o ReadTail(From(s, 2))
      [] OTHER -> <<s[1]>> \o ReadTail(Tail(s))

ReadString(s) == IF s # <<>> /\ s[1] = "\"" THEN ReadTail(Tail(s)) ELSE Unreadable

ReadSymbol(s) ==
    IF Len(s) < 2 \/ s[1] # ":" THEN Unreadable
    ELSE IF s[2] = "\"" THEN ReadTail(From(s, 2))
    ELSE IF DocumentedTypes(Tail(s)) # {} THEN Tail(s) ELSE Unreadable

(* What inspect prints of a string or a symbol reads back as the same one, *)
(* whatever its bytes: no escape is cut off, no quote is missing or ends   *)
(* the literal early, and a symbol goes without quotes only if it may. The *)
(* text is valid UTF-8. Error messages show a name in the same way.        *)
InspectReadsBack ==
    /\ IsName /\ ~TakenForVariable(input) => ReadSymbol(Format(OfSymbol(input))) = input
    /\ IsText \/ IsName =>
        LET printed == Format(OfString(input)) IN
        /\ ReadString(printed) = input
        /\ ReadString(InspectBytes(input)) = input
        /\ IsUtf8(printed) /\ IsAscii(InspectBytes(input))
        /\ printed = <<"\"">> \o FormatDebugEscape(input) \o <<"\"">>

(***************************************************************************)
(* Integers.                                                               *)
(***************************************************************************)

Radixes == {-MaxInt32 - 2, -MaxInt32 - 1, -2, -1, 0, 1, 2, 8, 16, 36, 37, MaxInt32 + 1}

RECURSIVE Magnitude(_, _)
Magnitude(digits, radix) ==
    IF digits = <<>> THEN 0
    ELSE Magnitude(Front(digits), radix) * radix + Ints!RadixTable(Final(digits)) - 1

(* Digits, some of them with an underscore between them.                   *)
AreDigits(s, radix) ==
    /\ s # <<>> /\ s[1] # "_" /\ Final(s) # "_"
    /\ \A i \in DOMAIN s :
          IF s[i] = "_" THEN s[i + 1] # "_" ELSE Ints!RadixTable(s[i]) <= radix

(* The readings of a string as a number in a radix, or in the one that it  *)
(* names: there is at most one.                                            *)
Readings(s, asked) ==
    {r \in [sign : {<<>>, <<"+">>, <<"-">>}, prefix : {<<>>, <<"0">>} \cup
                {<<"0", c>> : c \in {"b", "o", "d", "x"}}, from : 0..Len(s), to : 0..Len(s)] :
        LET head == r.sign \o r.prefix
            body == SubSeq(s, r.from + Len(head) + 1, r.to)
            names == CASE r.prefix = <<"0", "b">> -> 2 [] r.prefix = <<"0", "o">> -> 8
                       [] r.prefix = <<"0", "d">> -> 10 [] r.prefix = <<"0", "x">> -> 16
                       [] r.prefix = <<"0">> -> IF asked = Ints!ByString THEN 8 ELSE asked
                       [] r.prefix = <<>> -> IF asked = Ints!ByString THEN 10 ELSE asked
        IN  /\ \A i \in DOMAIN s : i <= r.from \/ i > r.to <=> s[i] = " "
            /\ r.from + Len(head) <= r.to
            /\ SubSeq(s, r.from + 1, r.from + Len(head)) = head
            /\ asked \in {Ints!ByString, names}
            /\ r.prefix = <<>> => body = <<"0">> \/ (body # <<>> /\ body[1] # "0")
            /\ r.prefix = <<"0">> => body # <<>> /\ Ints!Literal(body[1]) = 0
            /\ r.prefix = <<>> \/ Len(r.prefix) = 2 => AreDigits(body, names)
            /\ r.prefix = <<"0">> => AreDigits(r.prefix \o body, names)}

ReadingBody(s, r) == SubSeq(s, r.from + Len(r.sign) + Len(r.prefix) + 1, r.to)

ReadingRadix(r, asked) ==
    IF Len(r.prefix) = 2 THEN Ints!Literal(r.prefix[2])
    ELSE IF asked # Ints!ByString THEN asked
    ELSE IF r.prefix = <<"0">> THEN 8 ELSE 10

ReadingValue(s, r, asked) ==
    LET m == Magnitude(SelectSeq(ReadingBody(s, r), LAMBDA c : c # "_"), ReadingRadix(r, asked))
    IN  IF r.sign = <<"-">> THEN -m ELSE m

(* All of its digits are zeros and are squeezed, or an underscore follows  *)
(* the first zero: the code takes these for no number.                     *)
LeftOut(s, r) ==
    LET body == ReadingBody(s, r) IN
    /\ r.prefix # <<>>
    /\ \/ \A i \in DOMAIN body : body[i] \in {"0", "_"}
       \/ r.prefix = <<"0">> /\ body[1] = "_"

(* String#to_i reads what Kernel#Integer does, but for underscores, spaces *)
(* and a sign before a prefix; what is no digit ends the number, and so    *)
(* does a digit with which it is too large: the digit is dropped.          *)
AgreesWithToI(s, base) ==
    LET int == Ints!ToI(s, base)
        radix == IF base = 0 THEN 10 ELSE base
        parsed == Ints!Parse(s, radix)
        signedZero == Len(s) > 1 /\ s[1] \in {"+", "-"} /\ s[2] = "0"
        digits == IF s[1] \in {"+", "-"} THEN Tail(s) ELSE s
    IN  /\ int.ok
        /\ parsed.ok /\ ~signedZero /\ (\A i \in DOMAIN s : s[i] \notin {"_", " "}) =>
              int = parsed
        /\ s # <<>> /\ Ints!RadixTable(Final(s)) > radix => int = Ints!ToI(Front(s), base)
        /\ s # <<>> /\ digits # <<>> /\ (\A i \in DOMAIN digits : Ints!RadixTable(digits[i]) <= radix)
              => LET m == Magnitude(digits, radix)
                     n == IF s[1] = "-" THEN -m ELSE m
                 IN  int.value = IF n \in (-MaxInt - 1)..MaxInt THEN n
                                 ELSE Ints!ToI(Front(s), base).value

(* Kernel#Integer takes a string for the number that it is, in the radix   *)
(* that is asked for or that the string itself names, and refuses what is  *)
(* no number or too large; and it refuses no number but for those that     *)
(* LeftOut describes. A radix out of range is refused whatever the string. *)
(* String#to_i agrees with it, as AgreesWithToI says.                      *)
IntegersParse ==
    IsNumber =>
        /\ \A base \in {0, 2, 8, 10, 16, 36} : AgreesWithToI(input, base)
        /\ \A num \in Radixes :
              LET parsed == Ints!Parse(input, num)
                  asked == Ints!Radix(input, num)
                  readings == IF asked.ok THEN Readings(input, asked.value) ELSE {}
                  values == {ReadingValue(input, r, asked.value) : r \in readings}
                              \cap ((-MaxInt - 1)..MaxInt)
              IN  /\ Cardinality(readings) <= 1
                  /\ parsed.ok => values = {parsed.value}
                  /\ values # {} /\ ~parsed.ok => \E r \in readings : LeftOut(input, r)
                  /\ num \in {-MaxInt32 - 2, MaxInt32 + 1} =>
                        parsed = Ints!Error("RangeError")

(***************************************************************************)
(* Positions in Strings. Those in Arrays are in ArrayLaws.                 *)
(***************************************************************************)

(* Bounds: the Integers that are passed, near the ends of the inputs and   *)
(* of the type.                                                            *)
PassedInts == {-MaxInt - 1, MaxInt} \cup -5..5
Counts == {-1, 0, 1, 2, 5, MaxInt}
RangesOf(begs) ==
    [beg : begs \cup {Nil}, end : {Nil, -MaxInt - 1, -4, -2, -1, 0, 1, 3, 5, MaxInt},
     excl : BOOLEAN]

Units(enc, s) == IF enc = "Utf8" THEN Chars(s) ELSE [i \in DOMAIN s |-> <<s[i]>>]

(* The parts of a sequence of characters or bytes that Ruby documents.     *)
UnitAt(units, i) == IF i \in 0..(Len(units) - 1) THEN units[i + 1] ELSE NoSlice
PartOf(units, from, count) ==
    IF from \notin 0..Len(units) \/ count < 0 THEN NoSlice
    ELSE Concat(SubSeq(units, from + 1, Least(Len(units), from + count)))

RangeOf(units, range) ==
    LET n == Len(units) IN
    PartOf(units, FirstOf(range, n),
           IF FirstOf(range, n) = 0 /\ EndOverflows(range) THEN 0
           ELSE Cardinality({i \in 0..(n - 1) : InRange(range, n, i)}))

(* Reading parts of a String: the characters and the bytes that Ruby       *)
(* documents, but a negative index, unlike the ends of a Range, counts     *)
(* bytes where a String is UTF-8. What getbyte reads setbyte may set to    *)
(* any byte.                                                               *)
PartsOfStrings(s) ==
    /\ \A enc \in Encodings :
          LET units == Units(enc, s) IN
          /\ \A index \in Indexes :
                /\ ArefIndex(enc, s, index) = UnitAt(units, FromEnd(index, Len(s)))
                /\ \A count \in Counts :
                      ArefStartLen(enc, s, index, count) =
                          PartOf(units, FromEnd(index, Len(s)), count)
          /\ \A range \in RangesOf({-3, -1, 0, 1, 4, MaxInt}) :
                ArefRange(enc, s, range) = RangeOf(units, range)
    /\ LET bytes == Units("Binary", s) IN
       /\ \A index \in Indexes :
             LET byte == UnitAt(bytes, FromEnd(index, Len(s))) IN
             /\ BytesIndex(s, index) = byte
             /\ GetByte(s, index).byte = byte
             /\ \A n \in {-ByteValues, 0, 1, ByteValues} :
                   SetByte(s, index, n) = "set" <=> byte # NoSlice
             /\ \A count \in Counts :
                   BytesStartLen(s, index, count) = PartOf(bytes, FromEnd(index, Len(s)), count)
       /\ \A range \in RangesOf({-3, -1, 0, 1, 4}) : BytesRange(s, range) = RangeOf(bytes, range)

(* What index and rindex find is there, and nothing is before or behind    *)
(* it from the offset on. A position is one of bytes in any encoding; an   *)
(* offset below -len is no offset, and one of rindex counts from the end.  *)
FoundIsThere(s, needle, offset) ==
    LET given == IF offset = Nil THEN 0 ELSE FromEnd(offset, Len(s))
        from == IF given < 0 THEN 0 ELSE given
        places == {i \in 0..Len(s) : BytesStartLen(s, i, Len(needle)) = needle}
        ahead == {i \in places : i >= from}
        behind == {i \in places : i + Len(needle) <= Arrays!Minus(Len(s), from)}
        first == IndexOf(s, needle, offset)
        last == RIndexOf(s, needle, offset)
    IN  /\ IF ahead = {} THEN first = NoIndex
           ELSE first \in ahead /\ \A i \in ahead : first <= i
        /\ IF behind = {} THEN last = NoIndex
           ELSE last \in behind /\ \A i \in behind : i <= last
        /\ ArefString(s, needle) = IF places = {} THEN NoSlice ELSE needle

(* Appending keeps the characters of both Strings, unless one is completed *)
(* where they meet, or the encodings differ: a String that is UTF-8 falls  *)
(* apart to bytes when the other is not and has bytes that are no ASCII.   *)
AppendKeepsChars(s, other) ==
    \A enc, otherEnc \in Encodings :
        LET r == Pushed(enc, s, otherEnc, other)
            meets == s # <<>> /\ other # <<>> /\ enc = "Utf8" /\ other[1] = Continuation
            apart == /\ ~IsAscii(other) /\ s # <<>>
                     /\ \/ enc = "Utf8" /\ otherEnc # "Utf8" /\ ~IsAscii(s)
                        \/ enc = "Binary" /\ otherEnc = "Utf8"
        IN  r.ok /\ ~meets /\ ~apart =>
                Units(r.enc, r.bytes) = Units(enc, s) \o Units(otherEnc, other)

(* The arguments of String#[], byteslice, getbyte, index, rindex and <<    *)
(* select what Ruby documents, with the exceptions that each part names.   *)
StringsResolve(s) ==
    /\ PartsOfStrings(s)
    /\ \A i \in 0..Len(s) :
          /\ AppendKeepsChars(Till(s, i), From(s, i))
          /\ \A n \in 0..2, offset \in Indexes \cup {Nil} : i + n <= Len(s) =>
                /\ FoundIsThere(s, SubSeq(s, i + 1, i + n), offset)
                /\ FoundIsThere(Till(s, i), SubSeq(s, i + 1, i + n), offset)

(***************************************************************************)
(* Characters: what all of this comes to.                                  *)
(***************************************************************************)

(* However a String finds its characters, they are the same; what changes  *)
(* it keeps them whole; and positions are those of characters, or of bytes *)
(* where they count these.                                                 *)
CharsAgree ==
    /\ IsText => CharsFound(input) /\ EditsKeepChars(input)
    /\ subject = "longtexts" /\ Len(input) <= 5 => StringsResolve(input)

(***************************************************************************)
(* Methods of Array in Ruby.                                               *)
(***************************************************************************)

Elements(s) == {s[i] : i \in DOMAIN s}
PlacesOf(s, x) == {i \in DOMAIN s : s[i] = x}
SameElements(s, t) == \A x \in Elem \cup Elements(s) \cup Elements(t) :
    Cardinality(PlacesOf(s, x)) = Cardinality(PlacesOf(t, x))

(* Without repetition, in the order of their first places in s.            *)
FirstsOf(r, s) ==
    \A i \in DOMAIN r, j \in DOMAIN r : i < j =>
        \E p \in PlacesOf(s, r[i]) : \A q \in PlacesOf(s, r[j]) : p < q

(* Ways to select with a block agree: delete_if collects indexes, keep_if  *)
(* deletes while it goes on, the others build a new array; filter alone    *)
(* takes nothing but true.                                                 *)
SelectorsAgree(a) ==
    \A block \in [Elem -> {"true", "false", "other"}] :
        LET negated == [x \in Elem |-> IF block[x] = "false" THEN "true" ELSE "false"]
            strict == [x \in Elem |-> IF block[x] = "true" THEN "true" ELSE "false"]
            kept == KeepIf(a, block).array
        IN  /\ \A x \in Elem : Cardinality(PlacesOf(kept, x)) =
                  IF block[x] = "false" THEN 0 ELSE Cardinality(PlacesOf(a, x))
            /\ DeleteIf(a, negated).array = kept
            /\ SelectBang(a, block).array = kept /\ RejectBang(a, negated).array = kept
            /\ SelectBang(a, block).answer = Nil <=> kept = a
            /\ FilterBang(a, block).array = KeepIf(a, strict).array

(* Sets keep the order of the first places; sorting is stable, and gives   *)
(* all elements back however the block compares; a sorted array is halved  *)
(* until the right place is found; an index from the right is the place    *)
(* counted from the end.                                                   *)
SortsAndSets(a) ==
    LET n == Len(a)
        itself == [x \in Elem |-> x]
        places == [i \in 1..n |-> i]
    IN  /\ \A b \in UNION {[1..m -> Elem] : m \in 0..3} :
              LET both == Intersection(a, b)
                  any == Union(a, <<b>>, itself)
              IN  /\ Elements(both) = Elements(a) \cap Elements(b) /\ FirstsOf(both, a)
                  /\ Elements(any) = Elements(a) \cup Elements(b) /\ FirstsOf(any, a \o b)
                  /\ SameElements(Difference(a, b) \o
                        SelectSeq(a, LAMBDA x : x \in Elements(b)), a)
        /\ \A rank \in [Elem -> {0, 1}] :
              LET cmp == [p \in (1..n) \X (1..n) |-> rank[a[p[1]]] - rank[a[p[2]]]]
                  sorted == Sort(places, cmp)
              IN  /\ Elements(sorted) = 1..n /\ Len(sorted) = n
                  /\ \A i \in 1..n, j \in 1..n : i < j =>
                        \/ cmp[sorted[i], sorted[j]] < 0
                        \/ cmp[sorted[i], sorted[j]] = 0 /\ sorted[i] < sorted[j]
        /\ \A cmp \in [Elem \X Elem -> {-1, 0, 1}] : SameElements(Sort(a, cmp), a)
        /\ \A i, j \in 0..n : i <= j =>
              LET boolean == [k \in 1..n |-> IF k <= i THEN "false" ELSE "true"]
                  number == [k \in 1..n |-> CASE k <= i -> "positive"
                                              [] k > i /\ k <= j -> "zero"
                                              [] k > j -> "negative"]
              IN  /\ BsearchIndex(boolean) = IF i = n THEN Nil ELSE i
                  /\ IF i = j THEN BsearchIndex(number) = Nil
                     ELSE BsearchIndex(number) \in i..(j - 1)
        /\ \A x \in Elem :
              LET found == PlacesOf(a, x) IN
              /\ IF found = {} THEN Index(a, x) = Nil /\ RIndex(a, x) = Nil
                 ELSE /\ Index(a, x) + 1 \in found /\ n - RIndex(a, x) \in found
                      /\ \A i \in found : Index(a, x) + 1 <= i /\ i <= n - RIndex(a, x)
              /\ Delete(a, x).array = Difference(a, <<x>>)
              /\ Delete(a, x).answer = IF found = {} THEN Nil ELSE x

(* Sequences of numbers, each of a set once, in lexicographic order.       *)
Precedes(s, t) ==
    \E i \in DOMAIN s : s[i] < t[i] /\ \A j \in 1..(i - 1) : s[j] = t[j]
Lists(list, set) ==
    /\ Len(list) = Cardinality(set) /\ Elements(list) = set
    /\ \A i \in 1..(Len(list) - 1) : Precedes(list[i], list[i + 1])

(* combination and permutation yield each choice once and in order, but    *)
(* permutation takes a negative number for 1. flatten keeps the leaves and *)
(* their order, level by level, and transpose undoes itself.               *)
ShapesAreKept(a) ==
    LET n == Len(a)
        places == [i \in 1..(n + 1) |-> i]
        leaves == [i \in 1..n |-> Leaf(a[i])]
        Choices(k) == IF k < 0 THEN {} ELSE [1..k -> 1..(n + 1)]
    IN  /\ \A k \in -1..(n + 2) :
              /\ Lists(Combination(places, k),
                       {s \in Choices(k) : \A i \in 1..(k - 1) : s[i] < s[i + 1]})
              /\ Lists(Permutation(places, k),
                       {s \in Choices(IF k < 0 THEN 1 ELSE k) :
                            \A i, j \in DOMAIN s : i # j => s[i] # s[j]})
        /\ \A i, j \in 0..n : i <= j =>
              LET inner == SubSeq(leaves, i + 1, j) \o <<Nested(From(leaves, j))>>
                  tree == Till(leaves, i) \o <<Nested(inner), Nested(<<>>)>>
              IN  /\ Flatten(tree, Nil) = leaves /\ Flatten(tree, 2) = leaves
                  /\ Flatten(tree, 1) = Till(leaves, i) \o inner
                  /\ Flatten(Flatten(tree, 1), 1) = leaves /\ Flatten(tree, 0) = tree
        /\ \A c \in 1..n :
              LET rows == [r \in 1..((n + c - 1) \div c) |->
                                SubSeq(a, (r - 1) * c + 1, Least(n, r * c))]
                  r == Transpose(rows)
              IN  /\ r.ok <=> n % c = 0 \/ c > n
                  /\ r.ok => Transpose(r.answer).answer = rows

(* What slice! answers is what [] reads, and inserting it where it was     *)
(* gives the array back. fill changes its part only. But the length of a   *)
(* Range with one negative end is that of the numbers it names, a start    *)
(* before the first element wraps around, and fill with a block and a      *)
(* negative start counts its length from there.                            *)
PartsComeOut(a) ==
    LET n == Len(a)
        Cut(r, part, from) ==
            /\ r.answer = part
            /\ IF part = Nil THEN r.array = a
               ELSE Insert(r.array, from, part) = Changed(a)
    IN  /\ \A start \in -5..5, count \in Counts :
              LET r == SliceBang(a, start, count) IN
              /\ r.ok <=> count >= 0 \/ FromEnd(start, n) \notin 0..n
              /\ r.ok => Cut(r, ElementsStartLen(a, start, count), FromEnd(start, n))
        /\ \A i \in -5..5 :
              LET r == SliceBangIndex(a, i)
                  x == ElementAt(a, i)
              IN  IF x = Nil THEN r = Leaves(a, Nil)
                  ELSE r.answer = x /\ Insert(r.array, FromEnd(i, n), <<x>>) = Changed(a)
        /\ \A range \in [beg : -3..3, end : {Nil, -3, -1, 0, 1, 4}, excl : BOOLEAN] :
              LET open == range.end = Nil
                  r == SliceBangRange(a, range)
                  same == open \/ ((range.beg < 0) <=> (range.end < 0))
              IN  /\ same /\ ~(open /\ range.excl) =>
                        Cut(r, ElementsRange(a, range), FromEnd(range.beg, n))
                  /\ ~open /\ range.end < 0 /\ range.beg \in 0..n => r = Leaves(a, <<>>)
        /\ \A i \in -5..5, values \in Inserted({Nil}) :
              LET at == IF i < 0 THEN FromEnd(i, n + 1) ELSE i
                  again == FromEnd(at, n)
                  r == Insert(a, i, values)
              IN  /\ r.ok <=> again >= 0
                  /\ r.ok => r.array = Spliced(a, again, 0, values)
        /\ \A start \in -n..5, len \in {Nil, 0, 1, 2} :
              LET from == FromEnd(start, n)
                  count == IF len = Nil THEN Arrays!Minus(n, from) ELSE len
                  filled == Spliced(a, from, ToDrain(a, from, count), [i \in 1..count |-> Nil])
                  unchanged == count = 0
              IN  /\ Fill(a, Nil, start, len).array = IF unchanged THEN a ELSE filled
                  /\ start >= 0 \/ len = Nil =>
                        FillWithBlock(a, Nil, start, len) = Fill(a, Nil, start, len)
                  /\ len # Nil /\ count > 0 =>
                        FillRange(a, Nil, [beg |-> from, end |-> from + len, excl |-> TRUE]) =
                            Fill(a, Nil, start, len)
                  /\ len = Nil /\ n > 0 =>
                        FillRange(a, Nil, [beg |-> start, end |-> -1, excl |-> FALSE]) =
                            Fill(a, Nil, start, Nil)

(***************************************************************************)
(* Methods of Hash.                                                        *)
(***************************************************************************)

(* The Hash that some assignments make: the keys in the order in which     *)
(* they came first, each with its last value.                              *)
HashOf(pairs) ==
    LET firsts == SelectSeq([i \in DOMAIN pairs |-> i],
                            LAMBDA i : \A j \in 1..(i - 1) : pairs[j].key # pairs[i].key)
        lastOf(key) == CHOOSE i \in DOMAIN pairs :
                          pairs[i].key = key /\ \A j \in DOMAIN pairs : pairs[j].key = key => j <= i
    IN  [n \in DOMAIN firsts |-> pairs[lastOf(pairs[firsts[n]].key)]]

PairsIn(hash) == {hash[i] : i \in DOMAIN hash}

(* Which of the pairs that are to be deleted the iteration comes to: every *)
(* other one of those that follow each other.                              *)
Visited(hash, doomed, i) ==
    LET before == {j \in 0..(i - 1) : j = 0 \/ ~doomed[hash[j].key]}
        run == i - CHOOSE j \in before : \A k \in before : k <= j
    IN  run % 2 = 1

Kept(hash, stays) ==
    LET places == SelectSeq([i \in DOMAIN hash |-> i], LAMBDA i : i \in stays) IN
    [n \in DOMAIN places |-> hash[places[n]]]

SelectsRight(hash, doomed) ==
    LET stays == {i \in DOMAIN hash : ~doomed[hash[i].key]} IN
    /\ Hashes!Reject(hash, doomed) = Kept(hash, stays)
    /\ Hashes!RejectBang(hash, doomed) =
          [hash |-> Kept(hash, stays), answered |-> stays # DOMAIN hash]
    /\ Hashes!DeleteIf(hash, doomed) =
          Kept(hash, stays \cup {i \in DOMAIN hash : ~Visited(hash, doomed, i)})
    /\ LET chosen == Hashes!Not(doomed) IN
          /\ Hashes!Select(hash, chosen) = Hashes!Reject(hash, doomed)
          /\ Hashes!SelectBang(hash, chosen) = Hashes!RejectBang(hash, doomed)
          /\ Hashes!KeepIf(hash, chosen) = Hashes!DeleteIf(hash, doomed)

(* A key is given to one that is still to come.                            *)
GivenEarly(hash, renamed) ==
    \E i, j \in DOMAIN hash : i < j /\ renamed[hash[i].key] = hash[j].key

TransformsRight(hash, renamed) ==
    /\ Hashes!TransformKeys(hash, renamed) =
          HashOf([i \in DOMAIN hash |-> [hash[i] EXCEPT !.key = renamed[@]]])
    /\ ~GivenEarly(hash, renamed) =>
          Hashes!TransformKeysBang(hash, renamed) = Hashes!TransformKeys(hash, renamed)
    /\ \A i, j \in DOMAIN hash :
          i < j /\ renamed[hash[i].key] = hash[j].key =>
             (Hashes!HasKey(Hashes!TransformKeysBang(hash, renamed), hash[j].key) <=>
                 \E k \in j..Len(hash) : renamed[hash[k].key] = hash[j].key)
    /\ Hashes!TransformValues(hash, [value \in {"a", "b", Nil} |-> <<value>>]) =
          [i \in DOMAIN hash |-> [hash[i] EXCEPT !.value = <<@>>]]
    /\ \A block \in [{"a", "b", Nil} -> {"a", Nil}] :
          Hashes!TransformValuesBang(hash, block) = Hashes!TransformValues(hash, block)

ComparesRight(hash, other) ==
    /\ Hashes!Less(hash, other) <=> PairsIn(hash) \subseteq PairsIn(other)
                                    /\ PairsIn(hash) # PairsIn(other)
    /\ Hashes!AtMost(hash, other) <=> PairsIn(hash) \subseteq PairsIn(other)
    /\ Hashes!Equal(hash, other) <=> PairsIn(hash) = PairsIn(other)

MergesRight(hash, other, pairs) ==
    LET asked == Hashes!MergeBangAsking(hash, other, [vs \in {"a", "b", Nil} \X {"a", "b", Nil} |-> vs])
    IN  /\ Hashes!Merge(hash, other) = HashOf(pairs)
        /\ Hashes!Keys(asked) = Hashes!Keys(HashOf(pairs))
        /\ \A i \in DOMAIN asked :
              asked[i].value =
                 IF Hashes!HasKey(other, asked[i].key)
                 THEN IF i <= Len(hash)
                      THEN <<hash[i].value, Hashes!Lookup(other, asked[i].key)>>
                      ELSE Hashes!Lookup(other, asked[i].key)
                 ELSE hash[i].value

(* Methods of Hash keep the order in which its keys came. But delete_if    *)
(* and keep_if pass over the pair behind each that they delete, and        *)
(* transform_keys! takes a key that it gives to a pair before its turn for *)
(* that of the pair that had it. As HashMethods says, merge forgets what   *)
(* its block answers and compact! always raises.                           *)
HashesAgree ==
    \A hash \in {HashOf(input)} :
        /\ Hashes!OfPairs([i \in DOMAIN input |-> <<input[i].key, input[i].value>>]) =
              Hashes!Made(hash)
        /\ Hashes!OfTurns([i \in 1..(2 * Len(input)) |->
              IF i % 2 = 1 THEN input[(i + 1) \div 2].key ELSE input[i \div 2].value]) =
              Hashes!Made(hash)
        /\ Hashes!Compact(hash) = Kept(hash, {i \in DOMAIN hash : hash[i].value # Nil})
        /\ \A value \in {"a", "b", Nil} :
              LET inverted == Hashes!Invert(hash)
                  i == {j \in DOMAIN hash : hash[j].value = value}
              IN  /\ Hashes!HasKey(inverted, value) <=> i # {}
                  /\ i # {} =>
                       /\ Hashes!KeyOf(hash, value) = hash[CHOOSE j \in i : \A k \in i : j <= k].key
                       /\ Hashes!Lookup(inverted, value) =
                             hash[CHOOSE j \in i : \A k \in i : k <= j].key
        /\ \A doomed \in [{"a", "b", "c"} -> BOOLEAN] : SelectsRight(hash, doomed)
        /\ \A renamed \in [{"a", "b", "c"} -> {"a", "b", "c", "d"}] : TransformsRight(hash, renamed)
        /\ \A n \in 0..Len(input) :
              \A one \in {HashOf(Till(input, n))}, other \in {HashOf(From(input, n))} :
                  /\ ComparesRight(one, other) /\ ComparesRight(other, one)
                  /\ ComparesRight(one, hash) /\ ComparesRight(hash, one)
                  /\ MergesRight(one, other, input)
                  /\ Hashes!Replace(one, other, FALSE) = other

(* The methods of Array and Hash that are written in Ruby agree with one   *)
(* another and with what they are documented to give, with the exceptions  *)
(* that each part names. Comparing arrays is an order.                     *)
MethodsAgree ==
    /\ subject = "hashes" => HashesAgree
    /\ subject = "arrays" =>
        /\ SelectorsAgree(input) /\ SortsAndSets(input)
        /\ ShapesAreKept(input) /\ PartsComeOut(input)
        /\ LET first == CHOOSE x \in Elem : TRUE
               cmp == [p \in Elem \X Elem |->
                            IF p[1] = p[2] THEN 0 ELSE IF p[1] = first THEN -1 ELSE 1]
               Cmp(s, t) == Spaceship(s, t, cmp)
           IN  \A b \in UNION {[1..m -> Elem] : m \in 0..3} :
                  /\ Cmp(input, b) = -Cmp(b, input)
                  /\ Cmp(input, b) = 0 <=> input = b
                  /\ \A c \in [1..2 -> Elem] :
                        Cmp(input, b) < 0 /\ Cmp(b, c) < 0 => Cmp(input, c) < 0

(***************************************************************************)
(* Methods of String in Ruby.                                              *)
(***************************************************************************)

(* Bounds: the texts that are looked for and that are put in.              *)
Patterns == {<<"a">>, <<"-">>, <<"lf">>, <<"a", "a">>, <<"a", "b">>, <<"c3", "98">>}
Pads == {<<"b">>, <<"c3", "98">>, <<"a", "b">>, <<"a", "c3", "98", "b">>}

Joined(parts, text) ==
    Concat([i \in DOMAIN parts |-> IF i = 1 THEN parts[i] ELSE text \o parts[i]])
Has(s, text) == Find(s, text) # NoIndex

Padded(s, n, width, pad, left, right) ==
    LET missing == IF width > n THEN width - n ELSE 0
        fill == Least(missing, width - (width % Len(pad)))
        padding == Concat([i \in 1..fill |-> pad[((i - 1) % Len(pad)) + 1]])
    IN  left = s \o padding /\ right = padding \o s

(* What is white is taken off both ends, a prefix and a suffix come off as *)
(* they are. But what would leave a single character leaves none, rstrip   *)
(* leaves a String of white alone, and a String is padded to less than the *)
(* width if the pad does not go into it a whole number of times.           *)
EndsOfStrings(s) ==
    LET chars == Chars(s)
        n == Len(chars)
        dark == {i \in 1..n : chars[i] # <<"lf">>}
        from == CHOOSE i \in dark : \A j \in dark : i <= j
        to == CHOOSE i \in dark : \A j \in dark : j <= i
    IN  /\ dark = {} => Strs!Strip(s) = <<>> /\ Strs!Rstrip(s) = s
        /\ dark # {} =>
              /\ Strs!Strip(s) = IF from = to THEN <<>> ELSE Concat(SubSeq(chars, from, to))
              /\ Strs!Rstrip(s) = IF to = 1 THEN <<>> ELSE Concat(Till(chars, to))
        /\ \A i \in 0..n :
              LET head == Concat(Till(chars, i))
                  tail == Concat(From(chars, i))
              IN  /\ Strs!DeletePrefix(s, head) = tail /\ Strs!DeleteSuffix(s, tail) = head
                  /\ Strs!StartWith(s, head) /\ Strs!EndWith(s, tail)
        /\ \A p \in Patterns :
              /\ s \in {Strs!DeletePrefix(s, p), p \o Strs!DeletePrefix(s, p)}
              /\ s \in {Strs!DeleteSuffix(s, p), Strs!DeleteSuffix(s, p) \o p}
        /\ \A width \in 0..(n + 4), pad \in Pads :
              Padded(s, n, width, Chars(pad), Strs!Ljust(s, width, pad).result,
                     Strs!Rjust(s, width, pad).result)

(* Cutting s at every p, or with a limit, and into lines.                  *)
CutAt(s, p, whole, matched) ==
    /\ Joined(whole, p) = s
    /\ \A i \in DOMAIN whole : ~Has(whole[i], p)
    /\ matched = whole \/ Append(matched, <<>>) = whole
CutOff(s, p, limit, whole, parts) ==
    /\ Joined(parts, p) = s
    /\ limit > 0 => Len(parts) = Least(limit, Len(whole))
    /\ \A i \in 1..(Len(parts) - 1) : parts[i] = whole[i]
LinesOf(s, p, whole, lines) ==
    /\ Concat(lines) = s
    /\ \A i \in DOMAIN lines :
          /\ lines[i] # <<>>
          /\ lines[i] = whole[i] \o p \/ (i = Len(lines) /\ lines[i] = whole[i])
Paragraphs(s, lines) ==
    /\ Concat(lines) = s
    /\ \A i \in 1..(Len(lines) - 1) : EndsWith(lines[i], <<"lf", "lf">>)
    /\ \A i \in 2..Len(lines) : lines[i][1] # "lf"
Runs(chars, runs) ==
    /\ \A i \in 2..Len(runs) : runs[i] # runs[i - 1]
    /\ {runs[i] : i \in DOMAIN runs} = {chars[i] : i \in DOMAIN chars}
    /\ (\A i \in 2..Len(chars) : chars[i] # chars[i - 1]) <=> runs = chars
Partitioned(s, p, r) ==
    /\ r.ok <=> Has(s, p)
    /\ r.ok => Concat(r.result) = s /\ r.result[2] = p /\ ~Has(r.result[1] \o Front(p), p)
PutIn(s, p, text, whole, one, all) ==
    IF p = <<>>
    THEN /\ whole = Chars(s)
         /\ all.result = Concat([i \in DOMAIN s |-> text])
         /\ one = IF s = <<>> THEN Strs!Raised ELSE Strs!Answers(text \o Tail(s))
    ELSE /\ all.result = Joined(whole, text)
         /\ one.result = IF Len(whole) < 2 THEN s
                         ELSE whole[1] \o text \o Joined(Tail(whole), p)

(* A String in ASCII that is cut at a text comes back when its parts are   *)
(* joined with it, and no part has the text in it; a limit leaves the last *)
(* part whole. Lines end in what separates them. gsub is a split and a     *)
(* join. A Regexp leaves out an empty part at the end, and a replaced text *)
(* that is empty takes a character with it. partition goes by bytes, and   *)
(* is right for all valid UTF-8.                                           *)
PartsOfWords(s) ==
    /\ Runs(Chars(s), Chars(Strs!Squeeze(s)))
    /\ IsUtf8(s) => \A p \in Patterns : Partitioned(s, p, Strs!Partition(s, p))
    /\ IsAscii(s) => Paragraphs(s, Strs!Lines(s, <<>>))
    /\ IsAscii(s) => \A p \in Patterns \cup {<<>>} : \A whole \in {Strs!Split(s, p, 0).result} :
          /\ \A text \in {p, <<"x">>, <<"x", "x">>} :
                PutIn(s, p, text, whole, Strs!Sub(s, p, text), Strs!Gsub(s, p, text))
          /\ p # <<>> =>
                /\ CutAt(s, p, whole, Strs!SplitRegexp(s, p, -1))
                /\ LinesOf(s, p, whole, Strs!Lines(s, p))
                /\ \A limit \in -1..3 : CutOff(s, p, limit, whole, Strs!Split(s, p, limit).result)

(* A set of up to four characters has at most one range: where it begins.  *)
RangeStarts(set) ==
    {i \in 1..(Len(set) - 2) : set[i + 1] = CharCode["-"] /\ (i = 1 \/ set[2] # CharCode["-"])}
Members(set) ==
    UNION {set[i]..set[i + 2] : i \in RangeStarts(set)} \cup
    {set[i] : i \in {j \in DOMAIN set : \A k \in RangeStarts(set) : j \notin k..(k + 2)}}

(* tr and delete take a set to have its characters and those between two   *)
(* with a - in between, in order, and one after a ^ to have all others;    *)
(* but a range of one character counts twice, delete with two sets deletes *)
(* what is in either, and delete with a ^ raises if there is any to delete.*)
SetsOfChars(set) ==
    LET word == Strs!Codes(<<"a", "b", "^", "b", "b", "-">>)
        not == Len(set) > 1 /\ set[1] = CharCode["^"]
        listed == IF not THEN Tail(set) ELSE set
        In(c) == (c \in Members(listed)) # not
    IN  \A expanded \in {Strs!Expanded(listed)}, deleted \in {Strs!DeleteChars(word, <<set>>)},
           marked \in {Strs!Tr(word, set, <<120>>, FALSE)},
           squeezed \in {Strs!Tr(word, set, <<120>>, TRUE)} :
        /\ expanded.ok <=> \A i \in RangeStarts(listed) : listed[i] <= listed[i + 2]
        /\ expanded.ok =>
              /\ {expanded.result[i] : i \in DOMAIN expanded.result} = Members(listed)
              /\ marked.result = [i \in DOMAIN word |-> IF In(word[i]) THEN 120 ELSE word[i]]
              /\ SelectSeq(squeezed.result, LAMBDA c : c # 120) =
                    SelectSeq(word, LAMBDA c : ~In(c))
              /\ \A i \in 2..Len(squeezed.result) :
                    squeezed.result[i] = 120 => squeezed.result[i - 1] # 120
              /\ deleted.ok <=> ~not \/ \A i \in DOMAIN word : ~In(word[i])
              /\ deleted.ok => deleted.result = SelectSeq(word, LAMBDA c : ~In(c))
              /\ deleted.ok => Strs!DeleteChars(word, <<Strs!Codes(<<"b">>), set>>).result =
                    SelectSeq(word, LAMBDA c : c # CharCode["b"] /\ ~In(c))
              /\ \A i \in RangeStarts(listed) :
                    Len(expanded.result) = IF listed[i] = listed[i + 2] THEN Len(listed) - 1
                        ELSE Len(listed) - 2 + listed[i + 2] - listed[i]

(* The methods of String that are written in Ruby agree with one another   *)
(* and with what they are documented to give, with the exceptions that     *)
(* each part names, and upto counts with the zeros of its first number.    *)
StringMethodsAgree ==
    subject = "words" =>
        /\ EndsOfStrings(input) /\ PartsOfWords(input)
        /\ IsAscii(input) => SetsOfChars(Strs!Codes(input))
        /\ \A first \in 8..11, len \in 1..3 :
              LET numbers == Strs!UptoNumbers(len, first, first + Len(input), FALSE) IN
              /\ Len(numbers) = Len(input) + 1
              /\ \A i \in DOMAIN numbers :
                    LET digits == Strs!NumberString(first + i - 1)
                        zeros == Len(numbers[i]) - Len(digits)
                    IN  /\ numbers[i] = [k \in 1..zeros |-> "0"] \o digits
                        /\ zeros = IF Len(digits) < len THEN len - Len(digits) ELSE 0

(***************************************************************************)
(* Times.                                                                  *)
(***************************************************************************)

N == Times!NanosInSecond
Total(t) == t.sec * N + t.nano
Sign(n) == IF n > 0 THEN 1 ELSE IF n < 0 THEN -1 ELSE 0

(* Two digits of the input.                                                *)
Fraction(i) == 10 * input[i] + input[i + 1]

InTz(total) == total \div N \in -MaxTz..MaxTz

(* Adding to, subtracting from and rounding the Time on tz-rs, but for sums*)
(* of nanoseconds that are a whole second.                                 *)
TzIsExact(t, secs, nanos) ==
    LET length == secs * N + nanos
        d == [secs |-> secs, nanos |-> nanos]
        Adds(r) == t.nano + nanos # N =>
                       /\ r.ok <=> InTz(Total(t) + length)
                       /\ r.ok => Total(r) = Total(t) + length /\ r.nano \in 0..(N - 1)
        Subtracts(r) == /\ r.ok <=> InTz(Total(t) - length)
                        /\ r.ok => Total(r) = Total(t) - length /\ r.nano \in 0..(N - 1)
    IN  /\ Adds(Times!CheckedAdd(t, d)) /\ Subtracts(Times!CheckedSub(t, d))
        /\ Adds(Times!CheckedAddFloat(t, length)) /\ Subtracts(Times!CheckedSubFloat(t, length))
        /\ length > 0 => /\ Adds(Times!CheckedSubFloat(t, -length))
                         /\ Subtracts(Times!CheckedAddFloat(t, -length))
        /\ nanos = 0 => /\ Adds(Times!CheckedAddInt(t, secs)) /\ Subtracts(Times!CheckedSubInt(t, secs))
                        /\ Adds(Times!CheckedSubInt(t, -secs))
                        /\ Subtracts(Times!CheckedAddInt(t, -secs))
        /\ \A digits \in 0..3 :
              LET unit == IF digits >= 2 THEN 1 ELSE 10 ^ (2 - digits)
                  nearest == ((2 * Total(t) + unit) \div (2 * unit)) * unit
                  r == Times!Round(t, digits)
              IN  r.ok = InTz(nearest) /\ (r.ok => Total(r) = nearest /\ r.nano < N)

(* Time.at on chrono and what is read off the Time, but for whole seconds. *)
AtIsExact(seconds, nanos) ==
    LET t == Times!At(seconds, nanos)
        exact == seconds * N + nanos
        second == exact \div N
        others == {Times!At(s, n) : s \in {-MaxTimestamp + 1, 0, 1}, n \in {-N, -1, 0, 1}}
    IN  exact % N # 0 =>
          /\ t.ok <=> Times!Fits(second)
          /\ nanos % 10 = 0 /\ Times!Fits(nanos) => Times!AtMicros(seconds, nanos \div 10) = t
          /\ t.ok =>
                /\ Total(t) = exact /\ t.nano \in 0..(N - 1)
                /\ Times!ToInt(t) = second
                /\ Times!Microseconds(t) = (exact % N) \div 10
                /\ Times!Second(t) = second % 60
                /\ t.sec < MaxTimestamp => Total(Times!Succ(t)) = exact + N
                /\ \A u \in others :
                      /\ Times!Cmp(t, u) = Sign(exact - Total(u))
                      /\ t.sec - u.sec \in -MaxTimestamp..MaxTimestamp =>
                            Times!Difference(t, u) = exact - Total(u)
                /\ \A sec \in {0, 1}, nano \in {0, 1, 50} :
                      LET now == [ok |-> TRUE, sec |-> sec, nano |-> nano] IN
                      Times!Cmp(t, now) = Sign(exact - Total(now))

(* Arithmetic on Times carries and borrows between seconds and nanoseconds *)
(* so that the instant is the right one, and fails exactly where it does   *)
(* not fit. Nothing is said where nanoseconds make up a whole second: there*)
(* the code disagrees with its comments (README).                          *)
TimesExact ==
    subject = "times" /\ Len(input) = 4 =>
        /\ \A sec \in {-MaxTz, -1, 0, MaxTz - 1, MaxTz},
              secs \in {0, 1, 2, MaxTimestamp, MaxTimestamp + 1} :
                  TzIsExact([sec |-> sec, nano |-> Fraction(1)], secs, Fraction(3))
        /\ \A seconds \in {-MaxTimestamp - 1, -MaxTimestamp, -1, 0, 59, 60, MaxTimestamp} :
              LET nanos == 100 * Fraction(1) + Fraction(3) IN
              AtIsExact(seconds, nanos) /\ AtIsExact(seconds, -nanos)

(***************************************************************************)
(* StringScanner.                                                          *)
(***************************************************************************)

(* Bound: the Strings that are scanned; the last is not valid UTF-8.       *)
Scanned == {<<"a", "lf", "a", "a">>, <<"a", "c3", "98", "a", "c3", "98">>, <<"a", "98", "a">>}

Moving == {"scan", "skip", "scan_until", "skip_until", "search_full"}
Anchored == {"scan", "check", "skip", "match?"}
Scanning == Moving \cup Anchored \cup {"check_until", "exist?"}

DidMatching(sc, call, match) ==
    CASE call = "scan" -> Scans!Scan(sc, match)
      [] call = "check" -> Scans!Check(sc, match)
      [] call = "skip" -> Scans!Skip(sc, match)
      [] call = "match?" -> Scans!MatchP(sc, match)
      [] call = "scan_until" -> Scans!ScanUntil(sc, match)
      [] call = "check_until" -> Scans!CheckUntil(sc, match)
      [] call = "skip_until" -> Scans!SkipUntil(sc, match)
      [] call = "search_full" -> Scans!SearchFull(sc, match, TRUE)
      [] call = "exist?" -> Scans!Exist(sc, match)

Did(sc, op) ==
    CASE op.call \in Scanning ->
            DidMatching(sc, op.call, Scans!Matching(Scans!Rest(sc), op.with))
      [] op.call = "pos=" -> Scans!SetPos(sc, op.with)
      [] op.call = "getch" -> Scans!Getch(sc)
      [] op.call = "get_byte" -> Scans!ReadByte(sc)
      [] op.call = "<<" -> Scans!Push(sc, <<"a">>)
      [] op.call = "reset" -> Scans!Reset(sc)
      [] op.call = "terminate" -> Scans!Terminate(sc)
      [] op.call = "unscan" -> Scans!Unscan(sc)

RECURSIVE ScannedBy(_, _)
ScannedBy(s, ops) ==
    IF ops = <<>> THEN Scans!New(s) ELSE Did(ScannedBy(s, Front(ops)), Final(ops)).sc

(* Around the last match is the rest of the String.                        *)
MatchedAt(sc, from, to) ==
    /\ Scans!Matched(sc) = SubSeq(sc.string, from + 1, to)
    /\ Scans!PreMatch(sc).ok /\ Scans!PreMatch(sc).answer = Till(sc.string, from)
    /\ Scans!PostMatch(sc) = From(sc.string, to)

(* A scan that finds text i bytes behind the position of sc.               *)
Hits(sc, call, text, i, r) ==
    LET to == sc.pos + i + Len(text)
        exact == IsAscii(SubSeq(sc.string, sc.pos + 1, sc.pos + i))
    IN  /\ exact => r.sc.pos = IF call \in Moving THEN to ELSE sc.pos
        /\ ~exact /\ call \in Moving => r.sc.pos > to \/ to = Len(sc.string)
        /\ call \in {"scan", "check", "scan_until", "check_until"} /\ exact =>
              r.answer = SubSeq(sc.string, sc.pos + 1, to)
        /\ call \in {"skip", "match?"} => r.answer = CharLen(text)
        /\ exact /\ call = "exist?" => r.answer = i + CharLen(text) /\ r.sc = sc
        /\ call \notin {"search_full", "exist?"} => Scans!Matched(r.sc) = text
        /\ exact /\ call \notin {"check", "match?", "search_full", "exist?"} =>
              MatchedAt(r.sc, to - Len(text), to)
        /\ call \notin {"match?", "exist?"} => Scans!Unscan(r.sc).sc.pos = sc.pos

Misses(sc, call, r) ==
    /\ r.sc.pos = sc.pos
    /\ Scans!Matched(r.sc) =
          IF call \in {"scan_until", "check_until", "search_full", "exist?"}
          THEN Scans!Matched(sc) ELSE NoSlice

ReadsOn(sc, n, r) ==
    /\ r.sc.pos = sc.pos + n
    /\ n > 0 => MatchedAt(r.sc, sc.pos, r.sc.pos)

StepOfScanner(sc, op, r) ==
    LET rest == From(sc.string, sc.pos)
        i == Find(rest, op.with)
    IN  /\ r.sc.pos \in 0..Len(r.sc.string)
        /\ IsUtf8(rest) => Scans!Charpos(sc) + Scans!RestSize(sc) = CharLen(sc.string)
        /\ \A n \in 0..2 : Scans!Peek(sc, n) = Till(rest, Least(n, Len(rest)))
        /\ ~r.ok => r.sc = sc
        /\ r.ok <=> CASE op.call \in Scanning \cup {"getch"} -> IsUtf8(rest)
                      [] op.call = "pos=" -> op.with \in (1 - Len(sc.string))..(Len(sc.string) - 1)
                      [] op.call = "unscan" -> sc.previousPos # Scans!NoPos
                      [] OTHER -> TRUE
        /\ r.ok /\ op.call \in Scanning =>
              IF i = 0 \/ (i > 0 /\ op.call \notin Anchored) THEN Hits(sc, op.call, op.with, i, r)
              ELSE Misses(sc, op.call, r)
        /\ r.ok /\ op.call = "getch" =>
              ReadsOn(sc, IF rest = <<>> \/ rest[1] = "lf" THEN 0 ELSE Len(Chars(rest)[1]), r)
        /\ op.call = "get_byte" => ReadsOn(sc, Least(1, Len(rest)), r)
        /\ op.call \in {"pos=", "get_byte", "terminate"} =>
              r.sc.previousPos = sc.previousPos
        /\ op.call \in {"pos=", "<<"} => Scans!Matched(r.sc) = Scans!Matched(sc)
        /\ r.sc.pos < Len(r.sc.string) =>
              Scans!SetPos(r.sc, r.sc.pos).sc = r.sc

(* A scanner goes on by the bytes of what it matches, answers them, and    *)
(* tells what is before and behind them; it goes too far if there are      *)
(* characters before a match that are not ASCII. unscan goes back to where *)
(* the last match was looked for, whatever has moved the scanner since.    *)
(* After check and match? what is before and behind the match is not told  *)
(* right, and no newline is a character.                                   *)
ScannerKeepsPlace ==
    subject = "scans" /\ input # <<>> => \A s \in Scanned : \A sc \in {ScannedBy(s, Front(input))} :
        \A r \in {Did(sc, Final(input))} : StepOfScanner(sc, Final(input), r)

(***************************************************************************)
(* Environment variables.                                                  *)
(***************************************************************************)

(* A process may be started with a name that cannot be set.                *)
Started == [x \in {"leading=", "p"} |-> "u"]

Takes(pair) ==
    pair.name # "with NUL" /\ (pair.value = Nil \/ (pair.value # "NUL" /\ pair.name \in {"p", "q"}))

Unset(env, names) == [x \in DOMAIN env \ names |-> env[x]]

(* The last pair with a name decides on it.                                *)
EnvAfter(env, pairs) ==
    LET Last(x) ==
            LET places == {i \in DOMAIN pairs : pairs[i].name = x} IN
            IF places = {} THEN IF x \in DOMAIN env THEN env[x] ELSE Nil
            ELSE pairs[CHOOSE i \in places : \A j \in places : j <= i].value
        set == {x \in {"p", "q"} : Last(x) # Nil} \cup (DOMAIN env \cap {"leading="})
    IN  [x \in set |-> IF x = "leading=" THEN env[x] ELSE Last(x)]

(* merge! stops at the first pair that is refused and keeps what is before *)
(* it. replace does too, and has then removed no other name; if it goes    *)
(* through, what can be set is what the Hash sets, but the answer is nil   *)
(* where there was nothing else to remove.                                 *)
HashesArePut(env, pairs) ==
    LET refused == {i \in DOMAIN pairs : ~Takes(pairs[i])}
        n == IF refused = {} THEN Len(pairs)
             ELSE (CHOOSE i \in refused : \A j \in refused : i <= j) - 1
        after == EnvAfter(env, Till(pairs, n))
        merged == Envs!MergeBang(env, pairs)
        replaced == Envs!Replace(env, pairs)
        new == [p \in {"u", "v"} \X {"u", "v", "NUL", Nil} |-> p[2]]
        names == {pairs[i].name : i \in DOMAIN pairs}
        others == DOMAIN after \ names
    IN  /\ merged.ok <=> refused = {}
        /\ merged.env = after
        /\ Envs!MergeWith(env, pairs, new).env = after
        /\ Cardinality(names) = Len(pairs) =>
              /\ replaced.ok <=> refused = {}
              /\ IF replaced.ok
                 THEN /\ DOMAIN replaced.env \ {"leading="} = DOMAIN after \cap names \cap {"p", "q"}
                      /\ replaced.answer = IF others = {} THEN Nil ELSE "ENV"
                 ELSE replaced.env = after

(* Deleting goes through a copy: a block that sets a variable meanwhile    *)
(* does not disturb it, but a name that delete_if, keep_if or reject! has  *)
(* passed stays set, where select! would delete it at the end.             *)
DeletersAgree(env, order) ==
    \A yes \in SUBSET {"p", "q", "leading="}, at \in {"p", "q", Nil},
       name \in {"p", "q"}, value \in {"v", Nil} :
        LET block == [yes |-> yes, at |-> at, name |-> name, value |-> value]
            put == IF at \in DOMAIN env
                   THEN EnvAfter(env, <<[name |-> name, value |-> value]>>) ELSE env
            left == Unset(put, yes \cap DOMAIN env \cap {"p", "q"})
            passed == \E i, j \in DOMAIN order :
                         i < j /\ order[i] = name /\ order[j] = at /\ name \in yes
            deleted == Envs!DeleteIf(env, order, block)
        IN  /\ Envs!SelectBang(env, order, block).env = left
            /\ deleted.env =
                  IF passed THEN EnvAfter(left, <<[name |-> name, value |-> value]>>) ELSE left
            /\ Envs!RejectBang(env, order, block).env = deleted.env

(* The methods that go by name agree on what is set, and so do those that  *)
(* go through the copy, but for a name that only the process can set. That *)
(* one is never deleted: shift answers it again and again.                 *)
ReadersAgree(env, order) ==
    /\ \A x \in VarNames :
          LET set == x \in DOMAIN env /\ x # "leading="
              key == Envs!KeyP(env, x)
          IN  /\ key.ok <=> x # "with NUL"
              /\ key.ok => key.answer = set
              /\ Envs!HasKeyP(env, x) <=> set \/ x \in DOMAIN env
              /\ Envs!Fetch(env, x).ok <=> set
              /\ set => /\ Envs!Fetch(env, x).answer = env[x]
                        /\ Envs!FetchOr(env, x, "v").answer = env[x]
                        /\ Envs!Assoc(env, x).answer = <<x, env[x]>>
                        /\ Envs!ValuesAt(env, <<x>>) = <<env[x]>>
                        /\ Envs!Delete(env, x).answer = env[x]
              /\ ~set /\ key.ok => Envs!FetchOr(env, x, "v").answer = "v"
              /\ Envs!Delete(env, x).env = IF set THEN Unset(env, {x}) ELSE env
              /\ Envs!Slice(env, {x}) = Unset(env, VarNames \ {x})
    /\ \A v \in {"u", "v"} :
          LET x == Envs!KeyOf(env, order, v)
              owners == {y \in DOMAIN env : env[y] = v}
          IN  /\ IF owners = {} THEN x = Nil ELSE x \in owners
              /\ x # Nil => Envs!Rassoc(env, order, v) = <<x, v>>
              /\ v \in DOMAIN Envs!Invert(env, order) <=> owners # {}
              /\ owners # {} => Envs!Invert(env, order)[v] \in owners
    /\ Envs!Clear(env, order).env = Unset(env, {"p", "q"})
    /\ order # <<>> =>
          LET shifted == Envs!Shift(env, order) IN
          /\ shifted.answer = <<order[1], env[order[1]]>>
          /\ shifted.env = IF order[1] = "leading=" THEN env
                           ELSE Unset(env, {order[1]})

(* ENV is what the assignments so far make of it: methods that put, delete *)
(* and look up in ways of their own agree, and a Hash that is refused half *)
(* way leaves exactly its first pairs behind.                              *)
EnvsAgree ==
    subject = "envs" => \A start \in {<<>>, Started}, n \in 0..Len(input) :
        LET env == EnvAfter(start, SelectSeq(Till(input, n), Takes)) IN
        /\ HashesArePut(env, From(input, n))
        /\ n = Len(input) /\ n < 3 =>
              \A order \in Envs!OrdersOf(env) :
                  ReadersAgree(env, order) /\ DeletersAgree(env, order)


(***************************************************************************)
(* Threads and a Mutex.                                                    *)
(***************************************************************************)

Happens(th, event) ==
    CASE event = "new" -> Thrs!NewThread(th, FALSE)
      [] event = "aborting" -> Thrs!NewThread(th, TRUE)
      [] event = "blockless" -> Thrs!NewWithoutBlock(th)
      [] event = "synchronize" -> Thrs!Synchronize(th, "m")
      [] event = "lock" -> Thrs!Lock(th, "m")
      [] event = "try_lock" -> Thrs!TryLock(th, "m")
      [] event = "unlock" -> Thrs!Unlock(th, "m", "value")
      [] event = "sleep" -> Thrs!Sleep(th, "m")
      [] OTHER -> IF th.frames = <<>> THEN th ELSE Thrs!FrameEnds(th, event)

Among(events, some) == \E i \in DOMAIN events : events[i] \in some

(* The states of a history: the first, and that behind each event.         *)
StatesOf(events) ==
    LET th[n \in 0..Len(events)] == IF n = 0 THEN Thrs!Start ELSE Happens(th[n - 1], events[n])
    IN  [n \in 1..(Len(events) + 1) |-> th[n - 1]]

IsThread(frame) == frame.holds = {}
Running(th) == <<Thrs!Main>> \o [i \in DOMAIN SelectSeq(th.frames, IsThread) |->
                                    SelectSeq(th.frames, IsThread)[i].of]

(* Where the frame at this depth behind n events has begun.                *)
Began(ths, n, depth) ==
    CHOOSE b \in 1..n : /\ Len(ths[b].frames) < depth
                        /\ \A i \in b..n : Len(ths[i + 1].frames) >= depth

(* Event i is the failure of a thread that takes all others with it.       *)
Aborts(ths, events, i) ==
    events[i] = "error" /\ ths[i].frames # <<>> /\ Final(ths[i].frames).aborts

(* The innermost frame ends at the event behind n events.                  *)
EndsAs(ths, events, n) ==
    LET th == ths[n + 1]
        left == ths[n + 2]
        frame == Final(th.frames)
        ended == events[n + 1]
        within == (Began(ths, n, Len(th.frames)) + 1)..n
        aborted == \E i \in within : Aborts(ths, events, i)
    IN  IF IsThread(frame)
        THEN /\ left.outcome =
                   IF (aborted \/ Aborts(ths, events, n + 1)) /\ Len(Running(th)) = 2 THEN "error"
                   ELSE IF ended = "error" THEN "value" ELSE ended
             /\ frame.of \in left.terminated <=> ended = "error" /\ ~aborted
             /\ left.owner = th.owner
        ELSE Among(events, {"lock", "try_lock", "unlock"}) \/
             left.outcome =
                IF \E i \in within : events[i] = "synchronize" THEN "error" ELSE ended

(* The owner is the thread of the innermost section, and nobody once       *)
(* another was begun in it.                                                *)
OwnerIsInnermost(ths, events, n) ==
    LET th == ths[n + 1]
        sections == {i \in DOMAIN th.frames : ~IsThread(th.frames[i])}
        innermost == CHOOSE i \in sections : \A j \in sections : j <= i
        given == \E i \in (Began(ths, n, innermost) + 1)..n : events[i] = "synchronize"
    IN  th.owner["m"] = IF sections = {} \/ given THEN Thrs!Nobody ELSE th.frames[innermost].of

(* Thread.current is the innermost thread in progress, as long as each is  *)
(* given a block. A thread ends with a value whatever it raises, but for   *)
(* one under the main thread in which a thread has failed that takes the   *)
(* others with it; what is no StandardError passes. A section of a Mutex   *)
(* ends as its block does, unless another was begun in it, by a thread     *)
(* that takes the Mutex over, or by the same, which is refused and yet     *)
(* gives the Mutex back.                                                   *)
(* Without lock no Mutex is left to a thread that has ended.               *)
ThreadsNest ==
    subject \in {"threads", "longthreads"} /\ input # <<>> =>
        \A ths \in {StatesOf(input)} : \A th \in {Final(ths)} :
            LET n == Len(input) - 1 IN
            IF Among(input, {"blockless"})
            THEN Len(th.stack) < Len(Running(th))
            ELSE /\ th.stack = Running(th)
                 /\ Among(input, {"lock", "try_lock"}) \/ th.owner["m"] = Thrs!Nobody
                       \/ \E i \in DOMAIN th.stack : th.owner["m"] = th.stack[i]
                 /\ ~Among(input, {"lock", "try_lock", "unlock"}) => OwnerIsInnermost(ths, input, n + 1)
                 /\ Final(input) \in Thrs!Outcomes /\ ths[n + 1].frames # <<>> =>
                       EndsAs(ths, input, n)
=============================================================================

------------------------------ MODULE StringScanner ------------------------------
(***************************************************************************)
(* StringScanner of the standard library, strscan.rb: a String in UTF-8, a *)
(* position in it, and what is kept of the last match. Positions count     *)
(* bytes, but a MatchData counts characters (from the byte at which its    *)
(* match begins on). A Regexp is a text that it matches, or AnyChar. Each  *)
(* method that takes one is given what it matches behind the position.     *)
(***************************************************************************)
EXTENDS Indexing

AnyChar == <<".">>      \* a Regexp: any character but a newline
NoPos == -1             \* nil for a position

(***************************************************************************)
(* The MatchData, or the byte, that is kept.                               *)
(***************************************************************************)

(* A mutant of BytesToEnd: characters are taken for bytes.                 *)
CharsToEnd(haystack, end) == end

(* haystack[0, match.end(0)].bytesize                                      *)
BytesToEnd(haystack, end) == Len(ArefStartLen("Utf8", haystack, 0, end))

MatchFrom(s, begin, text, end) ==
    [of |-> s, begin |-> begin, end |-> end, bytes |-> BytesToEnd(s, end), text |-> text,
     isByte |-> FALSE]
MatchOf(s, begin, text) == MatchFrom(s, begin, text, begin + CharLen(text))

NoMatch == [of |-> <<>>, begin |-> 0, end |-> 0, bytes |-> 0, text |-> NoSlice, isByte |-> FALSE]
Invalid == [NoMatch EXCEPT !.begin = NoPos]     \* what is scanned is not UTF-8
ByteRead(byte) == [NoMatch EXCEPT !.text = byte, !.isByte = TRUE]

Begins(s, regexp) ==
    IF regexp # AnyChar THEN Places(s, regexp)
    ELSE {i \in 0..(Len(s) - 1) : s[i + 1] \notin {"lf", Continuation}}

FirstMatch(s, regexp, begins) ==
    IF begins = {} THEN NoMatch
    ELSE LET begin == CHOOSE i \in begins : \A j \in begins : i <= j IN
         MatchOf(s, begin, IF regexp = AnyChar THEN Chr(From(s, begin)) ELSE regexp)

(* Regexp#match of the regex crate, which takes valid UTF-8 only.          *)
Matching(s, regexp) ==
    IF IsUtf8(s) THEN FirstMatch(s, regexp, Begins(s, regexp)) ELSE Invalid

(***************************************************************************)
(* The scanner, and the calls on it: what they leave, and their answers.   *)
(***************************************************************************)

New(string) ==
    [string |-> string, pos |-> 0, previousPos |-> NoPos, lastMatch |-> NoMatch,
     lastMatchPos |-> NoPos]

Rest(sc) == From(sc.string, sc.pos)
Eos(sc) == sc.pos = Len(sc.string)

Answer(sc, answer) == [ok |-> TRUE, sc |-> sc, answer |-> answer]
Raise(sc) == [ok |-> FALSE, sc |-> sc]

Unmatched(sc) == [sc EXCEPT !.lastMatch = NoMatch, !.lastMatchPos = NoPos]
Missed(sc) == [Unmatched(sc) EXCEPT !.previousPos = NoPos]

AdvancedTo(sc, pos, match) ==
    [sc EXCEPT !.pos = pos, !.previousPos = sc.pos, !.lastMatch = match, !.lastMatchPos = pos]

Behind(sc, match) == sc.pos + match.bytes
Taken(sc, match) == SubSeq(sc.string, sc.pos + 1, Behind(sc, match))

Fails(match) == match = NoMatch \/ match.begin > 0

ScanFull(sc, match, advance) ==
    IF match = Invalid THEN Raise(sc)
    ELSE IF Fails(match) THEN Answer(Missed(sc), NoSlice)
    ELSE Answer(AdvancedTo(sc, IF advance THEN Behind(sc, match) ELSE sc.pos, match),
                Taken(sc, match))

Scan(sc, match) == ScanFull(sc, match, TRUE)
Check(sc, match) == ScanFull(sc, match, FALSE)
Getch(sc) == Scan(sc, Matching(Rest(sc), AnyChar))

Skip(sc, match) ==
    IF match = Invalid THEN Raise(sc)
    ELSE IF Fails(match) THEN Answer(Missed(sc), NoPos)
    ELSE Answer(AdvancedTo(sc, Behind(sc, match), match), match.end)

(* match? adds to the position of the last match, whatever that was.       *)
MatchP(sc, match) ==
    IF match = Invalid THEN Raise(sc)
    ELSE IF Fails(match) THEN Answer(Unmatched(sc), NoPos)
    ELSE Answer([sc EXCEPT !.lastMatch = match,
                           !.lastMatchPos = (IF @ = NoPos THEN 0 ELSE @) + match.bytes],
                match.end - match.begin)

(* A failure leaves the last match, but for that of skip_until.            *)
ScanUntil(sc, match) ==
    IF match = Invalid THEN Raise(sc)
    ELSE IF match = NoMatch THEN Answer(sc, NoSlice)
    ELSE Answer(AdvancedTo(sc, Behind(sc, match), match), Taken(sc, match))

CheckUntil(sc, match) ==
    LET scanned == ScanUntil(sc, match) IN
    IF scanned.ok THEN [scanned EXCEPT !.sc.pos = sc.pos] ELSE scanned

SkipUntil(sc, match) ==
    IF match = Invalid THEN Raise(sc)
    ELSE IF match = NoMatch THEN Answer(Missed(sc), NoPos)
    ELSE Answer(AdvancedTo(sc, Behind(sc, match), match), match.end)

SearchFull(sc, match, advance) ==
    IF match = Invalid THEN Raise(sc)
    ELSE IF match = NoMatch THEN Answer(sc, NoSlice)
    ELSE Answer([sc EXCEPT !.pos = IF advance THEN Behind(sc, match) ELSE @, !.previousPos = sc.pos],
                Taken(sc, match))

Exist(sc, match) ==
    IF match = Invalid THEN Raise(sc)
    ELSE Answer(sc, IF match = NoMatch THEN NoPos ELSE match.end)

ReadByte(sc) ==
    IF Eos(sc) THEN Answer(sc, NoSlice)
    ELSE LET byte == <<sc.string[sc.pos + 1]>> IN
         Answer([sc EXCEPT !.pos = @ + 1, !.lastMatchPos = sc.pos + 1, !.lastMatch = ByteRead(byte)],
                byte)

(* pos = refuses the end, which is a position.                             *)
SetPos(sc, pointer) ==
    IF pointer <= -Len(sc.string) \/ pointer >= Len(sc.string) THEN Raise(sc)
    ELSE Answer([sc EXCEPT !.pos = IF pointer < 0 THEN Len(sc.string) + pointer ELSE pointer], pointer)

Push(sc, string) == Answer([sc EXCEPT !.string = @ \o string], NoSlice)
SetString(sc, string) == Answer(New(string), string)
Reset(sc) == Answer([Missed(sc) EXCEPT !.pos = 0], NoSlice)
Terminate(sc) == Answer([Unmatched(sc) EXCEPT !.pos = Len(sc.string)], NoSlice)

Unscan(sc) ==
    IF sc.previousPos = NoPos THEN Raise(sc)
    ELSE Answer([Missed(sc) EXCEPT !.pos = sc.previousPos], NoSlice)

(***************************************************************************)
(* What it tells of the last match and of its position.                    *)
(***************************************************************************)

Matched(sc) == sc.lastMatch.text

(* byteslice, or else an empty String.                                     *)
BytesOrNone(s, start, len) ==
    IF start > Len(s) \/ len < 0 THEN <<>> ELSE GetBytes(s, start, start + len)

PostMatch(sc) ==
    IF Matched(sc) = NoSlice THEN NoSlice
    ELSE BytesOrNone(sc.string, sc.lastMatchPos, Len(sc.string) - sc.lastMatchPos)

(* The size of the match: what is at begin is taken for a character.       *)
MatchedPart(match) ==
    IF match.isByte THEN match.text
    ELSE ArefStartLen("Utf8", match.of, match.begin, match.end - match.begin)

PreMatch(sc) ==
    IF Matched(sc) = NoSlice THEN Answer(sc, NoSlice)
    ELSE IF MatchedPart(sc.lastMatch) = NoSlice THEN Raise(sc)
    ELSE Answer(sc, BytesOrNone(sc.string, 0, sc.lastMatchPos - Len(MatchedPart(sc.lastMatch))))

Charpos(sc) == CharLen(Till(sc.string, sc.pos))
Peek(sc, len) == BytesOrNone(sc.string, sc.pos, len)
RestSize(sc) == CharLen(Rest(sc))

=============================================================================

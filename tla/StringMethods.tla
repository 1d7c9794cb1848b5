------------------------------ MODULE StringMethods ------------------------------
(***************************************************************************)
(* Methods of String that are written in Ruby, in string.rb, for Strings   *)
(* in UTF-8 and with Strings as their patterns. They work with [], length, *)
(* chars and index, where length and [] count characters, and index counts *)
(* bytes; and with Regexps, which take valid UTF-8 only. What is not       *)
(* there, Ruby's nil, is NoSlice.                                          *)
(***************************************************************************)
EXTENDS Indexing

CONSTANT Code   \* the codes of single-byte characters, by their names

Raised == [ok |-> FALSE]
Answers(result) == [ok |-> TRUE, result |-> result]

(***************************************************************************)
(* self[i], self[start, n], self[i..j] and self[i...j]                     *)
(***************************************************************************)

CharAt(s, i) == ArefIndex("Utf8", s, i)
Part(s, start, n) == ArefStartLen("Utf8", s, start, n)
Through(s, i, j) == ArefRange("Utf8", s, [beg |-> i, end |-> j, excl |-> FALSE])
Before(s, i, j) == ArefRange("Utf8", s, [beg |-> i, end |-> j, excl |-> TRUE])

(* A match of a Regexp for just this text: it finds what index finds.      *)
MatchBegin(s, text) == Find(s, text)
MatchEnd(s, text) == Find(s, text) + CharLen(text)

(***************************************************************************)
(* Both ends.                                                              *)
(***************************************************************************)

StartWith(s, prefix) == Before(s, 0, CharLen(prefix)) = prefix
EndWith(s, suffix) == suffix = <<>> \/ Through(s, -CharLen(suffix), -1) = suffix

DeletePrefix(s, prefix) ==
    IF prefix # <<>> /\ StartWith(s, prefix) THEN Through(s, CharLen(prefix), -1) ELSE s
DeleteSuffix(s, suffix) ==
    IF suffix # <<>> /\ EndWith(s, suffix) THEN Before(s, 0, -CharLen(suffix)) ELSE s

Whitespace == {"nul", "lf", "cr", " "}
IsWhitespace(s, i) == CharAt(s, i) \in {<<c>> : c \in Whitespace}

(* A String of one character is taken for one of whitespace only.          *)
RECURSIVE SkipForwards(_, _)
SkipForwards(s, i) ==
    IF i < CharLen(s) /\ IsWhitespace(s, i) THEN SkipForwards(s, i + 1) ELSE i
Lstrip(s) ==
    IF CharLen(s) = 1 THEN <<>> ELSE Through(s, SkipForwards(s, 0), CharLen(s) - 1)

(* So is one whose first character is the last that is kept. If there is   *)
(* none to keep, the range ends at -1, which is the end of the String.     *)
RECURSIVE SkipBackwards(_, _)
SkipBackwards(s, i) == IF i >= 0 /\ IsWhitespace(s, i) THEN SkipBackwards(s, i - 1) ELSE i
Rstrip(s) ==
    LET last == SkipBackwards(s, CharLen(s) - 1) IN
    IF last = 0 THEN <<>> ELSE Through(s, 0, last)

Strip(s) == Rstrip(Lstrip(s))

(* The repetitions are rounded down before they are rounded up.            *)
Padding(s, width, padstr) ==
    LET times == width \div CharLen(padstr) IN
    Before(Concat([i \in 1..times |-> padstr]), 0, width - CharLen(s))

Ljust(s, width, padstr) ==
    IF padstr = <<>> THEN Raised
    ELSE Answers(IF width <= CharLen(s) THEN s ELSE s \o Padding(s, width, padstr))
Rjust(s, width, padstr) ==
    IF padstr = <<>> THEN Raised
    ELSE Answers(IF width <= CharLen(s) THEN s ELSE Padding(s, width, padstr) \o s)

(***************************************************************************)
(* Parts.                                                                  *)
(***************************************************************************)

(* each_line: the positions that index answers are taken for characters.   *)
RECURSIVE SkipNewlines(_, _)
SkipNewlines(s, i) == IF CharAt(s, i) = <<"lf">> THEN SkipNewlines(s, i + 1) ELSE i

RECURSIVE LinesFrom(_, _, _, _)
LinesFrom(s, separator, paragraphs, start) ==
    LET found == IndexOf(s, separator, start)
        after == found + CharLen(separator)
        pointer == IF paragraphs THEN SkipNewlines(s, after) ELSE after
    IN  IF found # NoIndex
        THEN <<Part(s, start, pointer - start)>> \o LinesFrom(s, separator, paragraphs, pointer)
        ELSE IF start = CharLen(s) THEN <<>>
        ELSE <<Part(s, start, CharLen(s) - start)>>

Lines(s, separator) ==
    IF separator = Nil THEN <<s>>
    ELSE IF separator = <<>> THEN LinesFrom(s, <<"lf", "lf">>, TRUE, 0)
    ELSE LinesFrom(s, separator, FALSE, 0)

(* split with a String; a limit of 0 or below is none. The String that is  *)
(* left when all is taken counts as a chunk; a nil has no empty?.          *)
RECURSIVE ChunksFrom(_, _, _)
ChunksFrom(s, pattern, limit) ==
    LET index == IndexOf(s, pattern, Nil) IN
    CASE s \in {<<>>, NoSlice} -> << s >>
      [] s # <<>> /\ s # NoSlice /\ (limit = 1 \/ index = NoIndex) -> <<s>>
      [] s # <<>> /\ s # NoSlice /\ limit # 1 /\ index # NoIndex ->
            <<Part(s, 0, index)>> \o
                ChunksFrom(Through(s, index + CharLen(pattern), -1), pattern, limit - 1)

AllChunks(chunks) == IF chunks[Len(chunks)] = NoSlice THEN Raised ELSE Answers(chunks)

Split(s, pattern, limit) ==
    IF s = <<>> THEN Answers(<<>>)
    ELSE IF limit = 1 THEN Answers(<<s>>)
    ELSE IF pattern = <<>> THEN Answers(Chars(s))
    ELSE AllChunks(ChunksFrom(s, pattern, limit))

(* split with a Regexp: there is no last chunk after a match at the end.   *)
RECURSIVE MatchedChunks(_, _, _)
MatchedChunks(s, text, limit) ==
    LET advance == IF text = <<>> THEN MatchEnd(s, text) + 1 ELSE MatchEnd(s, text)
        rest == Through(s, advance, -1)
    IN  CASE s = <<>> -> <<>>
          [] s # <<>> /\ (limit = 1 \/ MatchBegin(s, text) = NoIndex) -> <<s>>
          [] s # <<>> /\ limit # 1 /\ MatchBegin(s, text) # NoIndex ->
                <<Part(s, 0, MatchBegin(s, text))>> \o
                    (IF rest = NoSlice THEN <<>> ELSE MatchedChunks(rest, text, limit - 1))

SplitRegexp(s, text, limit) ==
    IF s = <<>> THEN <<>> ELSE IF limit = 1 THEN <<s>> ELSE MatchedChunks(s, text, limit)

(* partition: without a match there is nothing to ask for its parts.       *)
Partition(s, text) ==
    LET i == MatchBegin(s, text) IN
    IF i = NoIndex THEN Raised ELSE Answers(<<Till(s, i), text, From(s, i + Len(text))>>)

RECURSIVE RunsOf(_, _)
RunsOf(last, chars) ==
    IF chars = <<>> THEN <<>>
    ELSE (IF Head(chars) = last THEN <<>> ELSE Head(chars)) \o RunsOf(Head(chars), Tail(chars))
Squeeze(s) == RunsOf(<<>>, Chars(s))

(***************************************************************************)
(* Replacing.                                                              *)
(***************************************************************************)

(* What is before a match.                                                 *)
Kept(s, text) ==
    IF MatchBegin(s, text) > 0 THEN Through(s, 0, MatchBegin(s, text) - 1) ELSE <<>>

(* A mutant of Remainder: one character of the match is taken away.        *)
RemainderAfterOne(s, text) == Through(s, MatchBegin(s, text) + 1, -1)

(* What is after a match. One of no characters takes the next one away.    *)
Remainder(s, text) ==
    LET rest == Through(s, MatchEnd(s, text), -1) IN
    IF text = <<>> THEN Through(rest, 1, -1) ELSE rest

(* A nil cannot be appended.                                               *)
Followed(s, result) ==
    IF result.ok /\ result.result # NoSlice THEN Answers(s \o result.result) ELSE Raised

Sub(s, text, replacement) ==
    IF MatchBegin(s, text) = NoIndex THEN Answers(s)
    ELSE Followed(Kept(s, text) \o replacement, Answers(Remainder(s, text)))

RECURSIVE Gsub(_, _, _)
Gsub(s, text, replacement) ==
    IF s = <<>> \/ MatchBegin(s, text) = NoIndex THEN Answers(s)
    ELSE IF Remainder(s, text) = NoSlice THEN Raised
    ELSE Followed(Kept(s, text) \o replacement, Gsub(Remainder(s, text), text, replacement))

(***************************************************************************)
(* tr and what is made of it, on the codes of characters.                  *)
(***************************************************************************)

Codes(s) == [i \in DOMAIN s |-> Code[s[i]]]

(* a-z in a set of characters. One of a single character counts twice.     *)
RECURSIVE Expanded(_)
Expanded(set) ==
    IF set = <<>> THEN Answers(<<>>)
    ELSE IF Len(set) >= 3 /\ set[2] = Code["-"]
    THEN LET range == [i \in 1..(set[3] - set[1] + 1) |-> set[1] + i - 1]
             rest == Expanded(From(set, 3))
         IN  IF set[3] < set[1] \/ ~rest.ok THEN Raised
             ELSE Answers((IF Len(range) = 1 THEN range \o range ELSE range) \o rest.result)
    ELSE LET rest == Expanded(Tail(set)) IN
         IF rest.ok THEN Answers(<<set[1]>> \o rest.result) ELSE rest

PlaceIn(set, c) ==
    IF \A i \in DOMAIN set : set[i] # c THEN 0
    ELSE CHOOSE i \in DOMAIN set : set[i] = c /\ \A j \in 1..(i - 1) : set[j] # c

(* lookup[index] || lookup.last || '', or lookup.last alone, which is nil  *)
(* of an empty set.                                                        *)
Replacement(c, from, to, complement) ==
    LET last == IF to = <<>> THEN <<>> ELSE <<to[Len(to)]>> IN
    IF complement THEN last
    ELSE IF PlaceIn(from, c) \in DOMAIN to THEN <<to[PlaceIn(from, c)]>> ELSE last

RECURSIVE Composed(_, _, _, _, _, _)
Composed(codes, from, to, complement, skip, previous) ==
    IF codes = <<>> THEN Answers(<<>>)
    ELSE LET c == Head(codes)
             listed == (PlaceIn(from, c) # 0) # complement
             new == Replacement(c, from, to, complement)
             put == IF ~listed THEN <<c>> ELSE IF skip /\ new = previous THEN <<>> ELSE new
             rest == Composed(Tail(codes), from, to, complement, skip,
                              IF listed THEN new ELSE <<>>)
         IN  IF listed /\ complement /\ to = <<>> THEN Raised
             ELSE IF rest.ok THEN Answers(put \o rest.result) ELSE rest

Tr(s, fromStr, toStr, skip) ==
    LET complement == Len(fromStr) > 1 /\ fromStr[1] = Code["^"]
        from == Expanded(IF complement THEN Tail(fromStr) ELSE fromStr)
        to == Expanded(toStr)
    IN  IF from.ok /\ to.ok THEN Composed(s, from.result, to.result, complement, skip, <<>>)
        ELSE Raised

(* delete with several sets deletes what is in any of them.                *)
RECURSIVE DeleteChars(_, _)
DeleteChars(s, sets) ==
    IF sets = <<>> THEN Answers(s)
    ELSE LET left == Tr(s, Head(sets), <<>>, FALSE) IN
         IF left.ok THEN DeleteChars(left.result, Tail(sets)) ELSE left

(***************************************************************************)
(* upto, for one character and for numbers: the last step of the general   *)
(* case is succ, which there is not.                                       *)
(***************************************************************************)

UptoChars(first, last, exclusive) ==
    [i \in 1..(IF last < first THEN 0
               ELSE last - first + IF exclusive THEN 0 ELSE 1) |-> first + i - 1]

DigitNames == <<"0", "1", "2", "3", "4", "5", "6", "7", "8", "9">>
RECURSIVE NumberString(_)
NumberString(n) ==
    IF n < 10 THEN <<DigitNames[n + 1]>>
    ELSE Append(NumberString(n \div 10), DigitNames[(n % 10) + 1])

(* Both numbers are positive; a zero is compared with a String, and is not *)
(* one, so that those with zeros only are not taken for numbers.           *)
UptoNumbers(len, first, last, exclusive) ==
    [i \in DOMAIN UptoChars(first, last, exclusive) |->
        LET number == NumberString(first + i - 1) IN
        IF Len(number) < len THEN Rjust(number, len, <<"0">>).result ELSE number]

=============================================================================

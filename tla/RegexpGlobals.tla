----------------------------- MODULE RegexpGlobals -----------------------------
(***************************************************************************)
(* The global variables that Regexp methods and String#scan set            *)
(* (extn/core/regexp, state/regexp.rs, extn/core/string/trampoline.rs):    *)
(* $~, $&, $` with $', and $1, $2, ... with the count of them in the State.*)
(* Ruby's are local to a frame; these are global, so code in a block sees  *)
(* and changes those of the method that yields to it.                      *)
(*                                                                         *)
(* A match is a pattern and the number of the match in its string. A text  *)
(* is part 0, all of a match, or the part of one of its capture groups.    *)
(***************************************************************************)
EXTENDS Naturals, Sequences

CONSTANTS
    Regexps,        \* compiled Regexps
    OnigOnly,       \* those that only Oniguruma compiles; others use the regex crate
    Groups,         \* their numbers of capture groups
    Str,            \* a String pattern, which String#scan also takes
    ScanPatterns,   \* the patterns that the program scans for
    Nil,            \* nil, or not set
    CaptureList,    \* the part that is the Array of all captures
    MaxMatches,     \* bound: matches of a pattern in one string
    MaxGlobals,     \* bound: $1 .. $n
    MaxBlocks       \* bound: blocks in progress

Onig(r) == r \in OnigOnly

(* How many of $1, $2, ... a match sets; Onig counts from the whole match. *)
Numbered(r) == Groups[r] + IF Onig(r) THEN 1 ELSE 0

ASSUME RegexpAssumption ==
    /\ Str \notin Regexps /\ ScanPatterns \subseteq Regexps \cup {Str}
    /\ Groups \in [Regexps -> Nat]
    /\ MaxMatches \in Nat \ {0} /\ MaxGlobals \in Nat /\ MaxBlocks \in Nat
    /\ MaxMatches <= MaxGlobals + 1
    /\ \A r \in Regexps : Numbered(r) <= MaxGlobals

VARIABLES
    active,         \* active_regexp_globals
    nth,            \* $1, $2, ...
    whole,          \* $&
    around,         \* $` and $': the match they are taken from
    last,           \* $~
    blocks,         \* methods that have yielded to a block, innermost last
    scanned         \* history: a Regexp has been scanned for

vars == <<active, nth, whole, around, last, blocks, scanned>>

Patterns == Regexps \cup {Str}
MatchNumbers == 1 .. MaxMatches
Matches == [re : Patterns, at : MatchNumbers]
Texts == [of : Matches, part : 0 .. MaxGlobals \cup {CaptureList}]
Numbers == 1 .. MaxGlobals

ASSUME NilAssumption == Nil \notin Texts

Match(r, k) == [re |-> r, at |-> k]
Text(r, k, part) == [of |-> Match(r, k), part |-> part]

(* A block of Regexp#match, or of a scan at its match number at out of of. *)
Blocks == [op : {"match", "scan"}, re : Patterns, at : MatchNumbers, of : MatchNumbers]

TypeOK ==
    /\ active \in 0 .. MaxGlobals
    /\ nth \in [Numbers -> Texts \cup {Nil}]
    /\ whole \in Texts \cup {Nil}
    /\ around \in Matches \cup {Nil}
    /\ last \in Matches \cup {Nil}
    /\ blocks \in Seq(Blocks)
    /\ scanned \in BOOLEAN

Init ==
    /\ active = 0
    /\ nth = [n \in Numbers |-> Nil]
    /\ whole = Nil
    /\ around = Nil
    /\ last = Nil
    /\ blocks = <<>>
    /\ scanned = FALSE

-----------------------------------------------------------------------------
(* A mutant of Cleared: the last active group is left.                     *)
ClearedButLast == [n \in Numbers |-> IF n < active THEN Nil ELSE nth[n]]

(* clear_capture_globals: counts down from the active ones.                *)
Cleared == [n \in Numbers |-> IF n <= active THEN Nil ELSE nth[n]]

ClearCaptureGlobals ==
    /\ nth' = Cleared
    /\ active' = 0

(* What match, =~ and === set when they find a match. Onig sets $1 to      *)
(* capture 0, which is all of the match.                                   *)
Finds(r, k) ==
    /\ active' = Numbered(r)
    /\ nth' = [n \in Numbers |->
                 IF n <= Numbered(r)
                 THEN Text(r, k, IF Onig(r) THEN n - 1 ELSE n)
                 ELSE Cleared[n]]
    /\ whole' = Text(r, k, 0)
    /\ around' = Match(r, k)
    /\ last' = Match(r, k)

Misses ==
    /\ ClearCaptureGlobals
    /\ around' = Nil
    /\ last' = Nil
    /\ UNCHANGED whole

Push(op, r, k, n) ==
    /\ Len(blocks) < MaxBlocks
    /\ blocks' = Append(blocks, [op |-> op, re |-> r, at |-> k, of |-> n])

(* Regexp#=~; of nil it changes nothing.                                   *)
MatchOperator(r) ==
    /\ \/ \E k \in MatchNumbers : Finds(r, k)
       \/ Misses
    /\ UNCHANGED <<blocks, scanned>>

(* Regexp#===; a failure leaves $~.                                        *)
CaseMatch(r) ==
    /\ \/ \E k \in MatchNumbers : Finds(r, k)
       \/ ClearCaptureGlobals /\ around' = Nil /\ UNCHANGED <<whole, last>>
    /\ UNCHANGED <<blocks, scanned>>

(* Regexp#match, and String#[] by way of it.                               *)
MatchMethod(r) ==
    /\ \/ \E k \in MatchNumbers :
             /\ Finds(r, k)
             /\ Push("match", r, k, k) \/ UNCHANGED blocks
       \/ Misses /\ UNCHANGED blocks
    /\ UNCHANGED scanned

(* Regexp#match at a negative position before the start of the string.     *)
MatchOutOfRange ==
    /\ ClearCaptureGlobals
    /\ UNCHANGED <<whole, around, last, blocks, scanned>>

(* Regexp#match of nil, and Regexp#=== of what is not a String.            *)
NotAString ==
    /\ last' = Nil
    /\ UNCHANGED <<active, nth, whole, around, blocks, scanned>>

-----------------------------------------------------------------------------
(* String#scan                                                             *)

GroupsOf(p) == IF p = Str THEN 0 ELSE Groups[p]

(* A Regexp clears what is active and counts its groups; a String does not.*)
ScanStarts(p) ==
    /\ active' = IF p = Str THEN active ELSE Groups[p]
    /\ scanned' = (scanned \/ p # Str)
StartGlobals(p) == IF p = Str THEN nth ELSE Cleared

ScanMisses(p) ==
    /\ ScanStarts(p)
    /\ nth' = StartGlobals(p)
    /\ last' = Nil
    /\ UNCHANGED <<whole, around, blocks>>

(* A mutant of SetForBlock: the groups are set for the first match only.   *)
SetForFirstBlock(p, k, globals) ==
    /\ last' = Match(p, k)
    /\ whole' = IF GroupsOf(p) = 0 THEN whole ELSE Text(p, k, 0)
    /\ nth' = [n \in Numbers |-> IF n <= GroupsOf(p) /\ k = 1 THEN Text(p, k, n) ELSE globals[n]]
    /\ UNCHANGED around

(* The globals for the k-th match, before it is yielded: only a pattern    *)
(* with groups sets more than $~.                                          *)
SetForBlock(p, k, globals) ==
    /\ last' = Match(p, k)
    /\ whole' = IF GroupsOf(p) = 0 THEN whole ELSE Text(p, k, 0)
    /\ nth' = [n \in Numbers |-> IF n <= GroupsOf(p) THEN Text(p, k, n) ELSE globals[n]]
    /\ UNCHANGED around

ScanWithBlock(p) ==
    \E n \in MatchNumbers :
        /\ ScanStarts(p)
        /\ SetForBlock(p, 1, StartGlobals(p))
        /\ Push("scan", p, 1, n)

(* Without a block. A Regexp with groups sets $& to the captures of the    *)
(* first match, and $1, $2, ... to those of the matches that follow.       *)
ScanCollects(p) ==
    \E n \in MatchNumbers :
        /\ ScanStarts(p)
        /\ last' = Match(p, n)
        /\ whole' = IF p = Str THEN whole
                    ELSE IF GroupsOf(p) = 0 THEN Text(p, n, 0)
                    ELSE Text(p, 1, CaptureList)
        /\ nth' = [i \in Numbers |->
                     IF GroupsOf(p) > 0 /\ i < n
                     THEN Text(p, i + 1, CaptureList)
                     ELSE StartGlobals(p)[i]]
        /\ UNCHANGED <<around, blocks>>

-----------------------------------------------------------------------------
(* The innermost block                                                     *)

Top == blocks[Len(blocks)]
Outer == SubSeq(blocks, 1, Len(blocks) - 1)
NextMatch == Append(Outer, [Top EXCEPT !.at = @ + 1])

(* match returns; a scan restores $~, and yields its next match or returns.*)
BlockReturns ==
    /\ blocks # <<>>
    /\ \/ /\ Top.op = "match"
          /\ blocks' = Outer
          /\ UNCHANGED <<active, nth, whole, around, last, scanned>>
       \/ /\ Top.op = "scan" /\ Top.at = Top.of
          /\ blocks' = Outer
          /\ last' = Match(Top.re, Top.at)
          /\ UNCHANGED <<active, nth, whole, around, scanned>>
       \/ /\ Top.op = "scan" /\ Top.at < Top.of
          /\ SetForBlock(Top.re, Top.at + 1, nth)
          /\ blocks' = NextMatch
          /\ UNCHANGED <<active, scanned>>

(* An exception or a break leaves the methods that yielded, as they are.   *)
BlockRaises ==
    /\ \E d \in 0 .. Len(blocks) - 1 : blocks' = SubSeq(blocks, 1, d)
    /\ UNCHANGED <<active, nth, whole, around, last, scanned>>

Next ==
    \/ \E r \in Regexps : MatchOperator(r)
    \/ \E r \in Regexps : CaseMatch(r)
    \/ \E r \in Regexps : MatchMethod(r)
    \/ MatchOutOfRange
    \/ NotAString
    \/ \E p \in ScanPatterns : ScanMisses(p)
    \/ \E p \in ScanPatterns : ScanWithBlock(p)
    \/ \E p \in ScanPatterns : ScanCollects(p)
    \/ BlockReturns
    \/ BlockRaises

Spec == Init /\ [][Next]_vars

-----------------------------------------------------------------------------
(* Properties.                                                             *)

(* $1, $2, ... are of the match that $&, $` and $' are of, none is left of *)
(* an older match, and none is set beyond those that clear_capture_globals *)
(* would clear.                                                            *)
OfOneMatch ==
    /\ \A n \in Numbers : nth[n] # Nil =>
          /\ n <= active
          /\ whole # Nil /\ nth[n].of = whole.of
          /\ around = whole.of
    /\ around # Nil => whole = Text(around.re, around.at, 0)

(* That holds until a Regexp is scanned for, also after shorter matches,   *)
(* failures, scans for Strings and matches in blocks.                      *)
DerivedFromOneMatch == ~scanned => OfOneMatch

(* A block of a scan starts with $1, $2, ..., $& and $~ of its own match   *)
(* (the cases with groups), whatever the block for the match before did.   *)
BlockSeesItsCaptures ==
    [][LET b == blocks'[Len(blocks')]
       IN  blocks' # blocks /\ Len(blocks') >= Len(blocks) /\ b.op = "scan" /\ GroupsOf(b.re) > 0 =>
             /\ \A n \in 1 .. GroupsOf(b.re) : nth'[n] = Text(b.re, b.at, n)
             /\ whole' = Text(b.re, b.at, 0)
             /\ last' = Match(b.re, b.at)]_vars

=============================================================================

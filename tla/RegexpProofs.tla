------------------------------ MODULE RegexpProofs ------------------------------
(***************************************************************************)
(* Theorems about RegexpGlobals, for all Regexps, numbers of groups and    *)
(* depths of blocks.                                                       *)
(***************************************************************************)
EXTENDS RegexpGlobals, SequenceTheorems, TLAPS

(* Each Regexp has a number of groups that the bound on globals admits.    *)
LEMMA NumberedType ==
    ASSUME NEW r \in Regexps
    PROVE  Numbered(r) \in 0 .. MaxGlobals /\ Groups[r] \in 0 .. MaxGlobals
  BY RegexpAssumption DEF Numbered

(* A String pattern has no groups, and a Regexp as many as the bound       *)
(* admits.                                                                 *)
LEMMA GroupsOfType ==
    ASSUME NEW p \in Patterns
    PROVE  GroupsOf(p) \in 0 .. MaxGlobals
  BY RegexpAssumption, NumberedType DEF GroupsOf, Patterns

(* The texts and matches that the actions assign.                          *)
LEMMA AssignedTypes ==
    ASSUME NEW p \in Patterns, NEW k \in MatchNumbers, NEW part \in 0 .. MaxGlobals \cup {CaptureList}
    PROVE  Match(p, k) \in Matches /\ Text(p, k, part) \in Texts
  BY DEF Match, Text, Matches, Texts

(* Clearing leaves texts or nil.                                           *)
LEMMA ClearedType ==
    ASSUME TypeOK
    PROVE  Cleared \in [Numbers -> Texts \cup {Nil}]
  BY DEF TypeOK, Cleared

(* A match sets all globals to texts and matches.                          *)
LEMMA FindsTypes ==
    ASSUME TypeOK, NEW r \in Regexps, NEW k \in MatchNumbers, Finds(r, k)
    PROVE  /\ active' \in 0 .. MaxGlobals
           /\ nth' \in [Numbers -> Texts \cup {Nil}]
           /\ whole' \in Texts /\ around' \in Matches /\ last' \in Matches
  <1>1. r \in Patterns /\ 0 \in 0 .. MaxGlobals
    BY RegexpAssumption DEF Patterns
  <1>2. active' \in 0 .. MaxGlobals
    BY NumberedType DEF Finds
  <1>3. ASSUME NEW n \in Numbers
        PROVE  Text(r, k, IF Onig(r) THEN n - 1 ELSE n) \in Texts
    <2>1. (IF Onig(r) THEN n - 1 ELSE n) \in 0 .. MaxGlobals
      BY RegexpAssumption DEF Numbers
    <2>2. QED
      BY <1>1, <2>1, AssignedTypes
  <1>4. nth' \in [Numbers -> Texts \cup {Nil}]
    BY <1>3, ClearedType DEF Finds
  <1>5. QED
    BY <1>1, <1>2, <1>4, AssignedTypes DEF Finds

(* A failure clears them.                                                  *)
LEMMA ClearTypes ==
    ASSUME TypeOK, ClearCaptureGlobals
    PROVE  active' \in 0 .. MaxGlobals /\ nth' \in [Numbers -> Texts \cup {Nil}]
  BY RegexpAssumption, ClearedType DEF ClearCaptureGlobals

(* A method that yields pushes a block.                                    *)
LEMMA PushType ==
    ASSUME TypeOK, NEW op \in {"match", "scan"}, NEW p \in Patterns,
           NEW k \in MatchNumbers, NEW n \in MatchNumbers, Push(op, p, k, n)
    PROVE  blocks' \in Seq(Blocks)
  <1>1. [op |-> op, re |-> p, at |-> k, of |-> n] \in Blocks
    BY DEF Blocks
  <1>2. QED
    BY <1>1, AppendProperties DEF Push, TypeOK

(* A scan starts with the globals cleared or as they are.                  *)
LEMMA ScanStartTypes ==
    ASSUME TypeOK, NEW p \in Patterns, ScanStarts(p)
    PROVE  /\ active' \in 0 .. MaxGlobals /\ scanned' \in BOOLEAN
           /\ StartGlobals(p) \in [Numbers -> Texts \cup {Nil}]
  <1>1. active' \in 0 .. MaxGlobals /\ scanned' \in BOOLEAN
    BY NumberedType DEF ScanStarts, TypeOK, Patterns
  <1>2. QED
    BY <1>1, ClearedType DEF StartGlobals, TypeOK

(* A match of a scan sets texts and matches.                               *)
LEMMA SetForBlockTypes ==
    ASSUME TypeOK, NEW p \in Patterns, NEW k \in MatchNumbers,
           NEW globals \in [Numbers -> Texts \cup {Nil}], SetForBlock(p, k, globals)
    PROVE  /\ nth' \in [Numbers -> Texts \cup {Nil}]
           /\ whole' \in Texts \cup {Nil}
           /\ around' = around /\ last' \in Matches
  <1>1. \A n \in Numbers \cup {0} : Text(p, k, n) \in Texts
    <2>1. \A n \in Numbers \cup {0} : n \in 0 .. MaxGlobals
      BY RegexpAssumption DEF Numbers
    <2>2. QED
      BY <2>1, AssignedTypes
  <1>2. nth' \in [Numbers -> Texts \cup {Nil}]
    BY <1>1 DEF SetForBlock
  <1>3. whole' \in Texts \cup {Nil}
    BY <1>1 DEF SetForBlock, TypeOK
  <1>4. last' \in Matches
    BY AssignedTypes DEF SetForBlock
  <1>5. QED
    BY <1>2, <1>3, <1>4 DEF SetForBlock

(* Blocks that are left.                                                   *)
LEMMA PrefixType ==
    ASSUME TypeOK, NEW d \in Nat, d <= Len(blocks)
    PROVE  /\ SubSeq(blocks, 1, d) \in Seq(Blocks)
           /\ Len(SubSeq(blocks, 1, d)) = d
           /\ \A i \in 1 .. d : SubSeq(blocks, 1, d)[i] = blocks[i]
  <1>1. blocks \in Seq(Blocks) /\ Len(blocks) \in Nat
    BY LenProperties DEF TypeOK
  <1>2. \A i \in 1 .. d : i \in 1 .. Len(blocks) /\ blocks[i] \in Blocks
    BY <1>1, ElementOfSeq
  <1>3. /\ SubSeq(blocks, 1, d) \in Seq(Blocks)
        /\ Len(SubSeq(blocks, 1, d)) = IF 1 <= d THEN d - 1 + 1 ELSE 0
        /\ \A i \in 1 .. d - 1 + 1 : SubSeq(blocks, 1, d)[i] = blocks[1 + i - 1]
    BY <1>2, SubSeqProperties
  <1>4. d - 1 + 1 = d /\ (1 <= d \/ d = 0) /\ \A i \in 1 .. d : 1 + i - 1 = i
    OBVIOUS
  <1>5. QED
    BY <1>3, <1>4

(* The innermost block, and the blocks around it.                          *)
LEMMA InnermostTypes ==
    ASSUME TypeOK, blocks # <<>>
    PROVE  /\ Len(blocks) \in Nat /\ Len(blocks) >= 1
           /\ Top \in Blocks
           /\ Outer \in Seq(Blocks)
           /\ Len(Outer) = Len(blocks) - 1
           /\ \A i \in 1 .. Len(blocks) - 1 : Outer[i] = blocks[i]
  <1>1. blocks \in Seq(Blocks) /\ Len(blocks) \in Nat /\ Len(blocks) >= 1
    BY LenProperties, EmptySeq DEF TypeOK
  <1>2. Top \in Blocks
    BY <1>1, ElementOfSeq DEF Top
  <1>3. Len(blocks) - 1 \in Nat /\ Len(blocks) - 1 <= Len(blocks)
    BY <1>1
  <1>4. QED
    BY <1>1, <1>2, <1>3, PrefixType DEF Outer

-----------------------------------------------------------------------------
(* The scans in progress are for Strings.                                  *)
StrScans ==
    \A i \in 1 .. Len(blocks) : blocks[i].op = "scan" => blocks[i].re = Str

(* What holds until a Regexp is scanned for.                               *)
DInv == TypeOK /\ OfOneMatch /\ StrScans

(* The two ways to leave blocks: as they are, and innermost ones fewer.    *)
LEMMA BlocksUnwind ==
    ASSUME TypeOK, NEW d \in 0 .. Len(blocks) - 1, blocks' = SubSeq(blocks, 1, d)
    PROVE  /\ blocks' \in Seq(Blocks)
           /\ StrScans => StrScans'
  <1>1. Len(blocks) \in Nat
    BY LenProperties DEF TypeOK
  <1>2. d \in Nat /\ d <= Len(blocks) /\ \A i \in 1 .. d : i \in 1 .. Len(blocks)
    BY <1>1
  <1>3. /\ blocks' \in Seq(Blocks)
        /\ Len(blocks') = d
        /\ \A i \in 1 .. d : blocks'[i] = blocks[i]
    BY <1>2, PrefixType
  <1>4. QED
    BY <1>2, <1>3 DEF StrScans

(* Types of the methods that match: TypeOK is kept.                        *)
LEMMA MatchTypes ==
    ASSUME TypeOK, NEW r \in Regexps, MatchOperator(r) \/ CaseMatch(r) \/ MatchMethod(r)
    PROVE  TypeOK'
  <1>1. r \in Patterns
    BY DEF Patterns
  <1>2. ASSUME NEW k \in MatchNumbers, Finds(r, k), blocks' \in Seq(Blocks), scanned' = scanned
        PROVE  TypeOK'
    BY <1>2, FindsTypes DEF TypeOK
  <1>3. ASSUME ClearCaptureGlobals, around' = Nil, last' \in {Nil, last}, whole' = whole,
               blocks' = blocks, scanned' = scanned
        PROVE  TypeOK'
    BY <1>3, ClearTypes DEF TypeOK
  <1>4. CASE MatchOperator(r)
    BY <1>2, <1>3, <1>4 DEF MatchOperator, Misses, TypeOK
  <1>5. CASE CaseMatch(r)
    BY <1>2, <1>3, <1>5 DEF CaseMatch, TypeOK
  <1>6. CASE MatchMethod(r)
    <2>1. ASSUME NEW k \in MatchNumbers, Push("match", r, k, k)
          PROVE  blocks' \in Seq(Blocks)
      BY <1>1, <2>1, PushType
    <2>2. QED
      BY <1>2, <1>3, <1>6, <2>1 DEF MatchMethod, Misses, TypeOK
  <1>7. QED
    BY <1>4, <1>5, <1>6

(* Types of the scan methods.                                              *)
LEMMA ScanTypes ==
    ASSUME TypeOK, NEW p \in ScanPatterns, ScanMisses(p) \/ ScanWithBlock(p) \/ ScanCollects(p)
    PROVE  TypeOK'
  <1>1. p \in Patterns /\ 1 \in MatchNumbers
    BY RegexpAssumption DEF Patterns, MatchNumbers
  <1>2. CASE ScanMisses(p)
    BY <1>1, <1>2, ScanStartTypes DEF ScanMisses, TypeOK
  <1>3. CASE ScanWithBlock(p)
    <2>1. PICK n \in MatchNumbers :
             /\ ScanStarts(p)
             /\ SetForBlock(p, 1, StartGlobals(p))
             /\ Push("scan", p, 1, n)
      BY <1>3 DEF ScanWithBlock
    <2>2. blocks' \in Seq(Blocks)
      BY <1>1, <2>1, PushType
    <2>3. active' \in 0 .. MaxGlobals /\ scanned' \in BOOLEAN /\ StartGlobals(p) \in [Numbers -> Texts \cup {Nil}]
      BY <1>1, <2>1, ScanStartTypes
    <2>4. /\ nth' \in [Numbers -> Texts \cup {Nil}]
          /\ whole' \in Texts \cup {Nil}
          /\ around' = around /\ last' \in Matches
      BY <1>1, <2>1, <2>3, SetForBlockTypes
    <2>5. QED
      BY <2>2, <2>3, <2>4 DEF TypeOK
  <1>4. CASE ScanCollects(p)
    <2>1. PICK n \in MatchNumbers :
             /\ ScanStarts(p)
             /\ last' = Match(p, n)
             /\ whole' = IF p = Str THEN whole
                         ELSE IF GroupsOf(p) = 0 THEN Text(p, n, 0)
                         ELSE Text(p, 1, CaptureList)
             /\ nth' = [i \in Numbers |->
                          IF GroupsOf(p) > 0 /\ i < n
                          THEN Text(p, i + 1, CaptureList)
                          ELSE StartGlobals(p)[i]]
             /\ UNCHANGED <<around, blocks>>
      BY <1>4 DEF ScanCollects
    <2>2. active' \in 0 .. MaxGlobals /\ scanned' \in BOOLEAN /\ StartGlobals(p) \in [Numbers -> Texts \cup {Nil}]
      BY <1>1, <2>1, ScanStartTypes
    <2>3. CaptureList \in 0 .. MaxGlobals \cup {CaptureList} /\ 0 \in 0 .. MaxGlobals \cup {CaptureList}
      BY RegexpAssumption
    <2>4. ASSUME NEW i \in Numbers, i < n
          PROVE  Text(p, i + 1, CaptureList) \in Texts
      <3>1. i + 1 \in MatchNumbers
        BY <2>4, RegexpAssumption DEF Numbers, MatchNumbers
      <3>2. QED
        BY <1>1, <2>3, <3>1, AssignedTypes
    <2>5. nth' \in [Numbers -> Texts \cup {Nil}]
      BY <2>1, <2>2, <2>4
    <2>6. whole' \in Texts \cup {Nil} /\ last' \in Matches
      BY <1>1, <2>1, <2>3, AssignedTypes DEF TypeOK
    <2>7. QED
      BY <2>1, <2>2, <2>5, <2>6 DEF TypeOK
  <1>5. QED
    BY <1>2, <1>3, <1>4

(* Types when the innermost block is left.                                 *)
LEMMA BlockTypes ==
    ASSUME TypeOK, BlockReturns \/ BlockRaises
    PROVE  TypeOK'
  <1>1. CASE BlockReturns
    <2>1. blocks # <<>>
      BY <1>1 DEF BlockReturns
    <2>2. Top \in Blocks /\ Outer \in Seq(Blocks)
      BY <2>1, InnermostTypes
    <2>3. /\ Top.op \in {"match", "scan"} /\ Top.re \in Patterns
          /\ Top.at \in MatchNumbers /\ Top.of \in MatchNumbers
      BY <2>2 DEF Blocks
    <2>4. CASE blocks' = Outer /\ last' \in {last, Match(Top.re, Top.at)}
               /\ UNCHANGED <<active, nth, whole, around, scanned>>
      BY <2>2, <2>3, <2>4, RegexpAssumption, AssignedTypes DEF TypeOK, Match, Matches
    <2>5. CASE /\ Top.op = "scan" /\ Top.at < Top.of
               /\ SetForBlock(Top.re, Top.at + 1, nth)
               /\ blocks' = NextMatch
               /\ UNCHANGED <<active, scanned>>
      <3>1. Top.at + 1 \in MatchNumbers
        BY <2>3, <2>5, RegexpAssumption DEF MatchNumbers
      <3>2. [Top EXCEPT !.at = @ + 1] \in Blocks
        BY <2>2, <3>1 DEF Blocks
      <3>3. blocks' \in Seq(Blocks)
        BY <2>2, <2>5, <3>2, AppendProperties DEF NextMatch
      <3>4. nth \in [Numbers -> Texts \cup {Nil}]
        BY DEF TypeOK
      <3>5. /\ nth' \in [Numbers -> Texts \cup {Nil}]
            /\ whole' \in Texts \cup {Nil}
            /\ around' = around /\ last' \in Matches
        BY <2>3, <2>5, <3>1, <3>4, SetForBlockTypes
      <3>6. QED
        BY <2>5, <3>3, <3>5 DEF TypeOK
    <2>6. QED
      BY <1>1, <2>4, <2>5 DEF BlockReturns
  <1>2. CASE BlockRaises
    <2>1. blocks' \in Seq(Blocks)
      BY <1>2, BlocksUnwind DEF BlockRaises
    <2>2. QED
      BY <1>2, <2>1 DEF BlockRaises, TypeOK
  <1>3. QED
    BY <1>1, <1>2

(* Each step keeps the types.                                              *)
LEMMA StepTypes ==
    ASSUME TypeOK, [Next]_vars
    PROVE  TypeOK'
  <1>1. CASE MatchOutOfRange
    BY <1>1, ClearTypes DEF MatchOutOfRange, TypeOK
  <1>2. CASE NotAString
    BY <1>2 DEF NotAString, TypeOK
  <1>3. CASE UNCHANGED vars
    BY <1>3 DEF vars, TypeOK
  <1>4. QED
    BY <1>1, <1>2, <1>3, MatchTypes, ScanTypes, BlockTypes DEF Next

-----------------------------------------------------------------------------
(* Finds sets all of them, to the same match, and clears what is left over.*)
LEMMA FindsDerives ==
    ASSUME TypeOK, OfOneMatch, NEW r \in Regexps, NEW k \in MatchNumbers, Finds(r, k)
    PROVE  OfOneMatch'
  <1>1. r \in Patterns /\ 0 \in 0 .. MaxGlobals
    BY RegexpAssumption DEF Patterns
  <1>2. Text(r, k, 0) \in Texts /\ Text(r, k, 0).of = Match(r, k)
    BY <1>1, AssignedTypes DEF Text
  <1>3. whole' = Text(r, k, 0) /\ around' = Match(r, k) /\ whole' # Nil
    BY <1>2, NilAssumption DEF Finds
  <1>4. Numbered(r) \in 0 .. MaxGlobals
    BY NumberedType
  <1>5. ASSUME NEW n \in Numbers, nth'[n] # Nil
        PROVE  n <= active' /\ nth'[n].of = Match(r, k)
    <2>1. CASE n <= Numbered(r)
      <3>1. nth'[n] = Text(r, k, IF Onig(r) THEN n - 1 ELSE n)
        BY <2>1 DEF Finds
      <3>2. QED
        BY <2>1, <3>1 DEF Text, Finds
    <2>2. CASE ~(n <= Numbered(r))
      <3>1. nth'[n] = Cleared[n]
        BY <2>2 DEF Finds
      <3>2. Cleared[n] = Nil
        BY DEF Cleared, OfOneMatch
      <3>3. QED
        BY <1>5, <3>1, <3>2
    <2>3. QED
      BY <2>1, <2>2
  <1>6. around'.re = r /\ around'.at = k
    BY <1>3 DEF Match
  <1>7. QED
    BY <1>2, <1>3, <1>5, <1>6 DEF OfOneMatch

(* A failure clears every group that is set, and $` and $' at most.        *)
LEMMA ClearDerives ==
    ASSUME TypeOK, OfOneMatch, ClearCaptureGlobals, around' \in {Nil, around}, whole' = whole
    PROVE  OfOneMatch'
  <1>1. \A n \in Numbers : nth'[n] = Nil
    BY DEF ClearCaptureGlobals, Cleared, OfOneMatch
  <1>2. around' # Nil => whole' = Text(around'.re, around'.at, 0)
    BY DEF OfOneMatch
  <1>3. QED
    BY <1>1, <1>2 DEF OfOneMatch

(* A block of a scan for a String sets $~ only.                            *)
LEMMA StrSetsLastOnly ==
    ASSUME TypeOK, NEW k \in MatchNumbers, SetForBlock(Str, k, nth)
    PROVE  nth' = nth /\ whole' = whole /\ around' = around
  <1>1. GroupsOf(Str) = 0
    BY DEF GroupsOf
  <1>2. \A n \in Numbers : ~(n <= 0)
    BY DEF Numbers
  <1>3. nth = [n \in Numbers |-> nth[n]]
    BY DEF TypeOK
  <1>4. nth' = [n \in Numbers |-> nth[n]]
    BY <1>1, <1>2 DEF SetForBlock
  <1>5. QED
    BY <1>1, <1>3, <1>4 DEF SetForBlock

(* A method that yields adds its block; only a scan adds one of a scan.    *)
LEMMA PushKeepsStrScans ==
    ASSUME TypeOK, StrScans, NEW op \in {"match", "scan"}, NEW p \in Patterns,
           NEW k \in MatchNumbers, NEW n \in MatchNumbers, Push(op, p, k, n),
           op = "scan" => p = Str
    PROVE  StrScans'
  <1> DEFINE b == [op |-> op, re |-> p, at |-> k, of |-> n]
  <1>1. b \in Blocks /\ b.op = op /\ b.re = p
    BY DEF Blocks
  <1>2. blocks' = Append(blocks, b) /\ blocks \in Seq(Blocks)
    BY DEF Push, TypeOK
  <1> HIDE DEF b
  <1>3. /\ Len(blocks) \in Nat
        /\ Len(blocks') = Len(blocks) + 1
        /\ \A i \in 1 .. Len(blocks) : blocks'[i] = blocks[i]
        /\ blocks'[Len(blocks) + 1] = b
    BY <1>1, <1>2, AppendProperties, LenProperties
  <1>4. \A i \in 1 .. Len(blocks) + 1 : i \in 1 .. Len(blocks) \/ i = Len(blocks) + 1
    BY <1>3
  <1>5. ASSUME NEW i \in 1 .. Len(blocks'), blocks'[i].op = "scan"
        PROVE  blocks'[i].re = Str
    <2>1. CASE i \in 1 .. Len(blocks)
      BY <1>3, <1>5, <2>1 DEF StrScans
    <2>2. CASE i = Len(blocks) + 1
      BY <1>1, <1>3, <1>5, <2>2
    <2>3. QED
      BY <1>3, <1>4, <2>1, <2>2
  <1>6. QED
    BY <1>5 DEF StrScans

(* The methods that match.                                                 *)
LEMMA MatchDerives ==
    ASSUME DInv, NEW r \in Regexps, MatchOperator(r) \/ CaseMatch(r) \/ MatchMethod(r)
    PROVE  OfOneMatch' /\ StrScans'
  <1>1. TypeOK /\ OfOneMatch /\ StrScans /\ r \in Patterns
    BY DEF DInv, Patterns
  <1>2. ASSUME NEW k \in MatchNumbers, Finds(r, k)
        PROVE  OfOneMatch'
    BY <1>1, <1>2, FindsDerives
  <1>3. ASSUME ClearCaptureGlobals, around' = Nil, whole' = whole
        PROVE  OfOneMatch'
    BY <1>1, <1>3, ClearDerives
  <1>4. blocks' = blocks => StrScans'
    BY <1>1 DEF StrScans
  <1>5. CASE MatchOperator(r)
    BY <1>2, <1>3, <1>4, <1>5 DEF MatchOperator, Misses
  <1>6. CASE CaseMatch(r)
    BY <1>2, <1>3, <1>4, <1>6 DEF CaseMatch
  <1>7. CASE MatchMethod(r)
    <2>1. ASSUME NEW k \in MatchNumbers, Push("match", r, k, k)
          PROVE  StrScans'
      BY <1>1, <2>1, PushKeepsStrScans
    <2>2. QED
      BY <1>2, <1>3, <1>4, <1>7, <2>1 DEF MatchMethod, Misses
  <1>8. QED
    BY <1>5, <1>6, <1>7

(* A scan for a String sets $~ only.                                       *)
LEMMA StrScanDerives ==
    ASSUME DInv, Str \in Patterns, ScanMisses(Str) \/ ScanWithBlock(Str) \/ ScanCollects(Str)
    PROVE  OfOneMatch' /\ StrScans'
  <1>1. TypeOK /\ OfOneMatch /\ StrScans
    BY DEF DInv
  <1>2. 1 \in MatchNumbers /\ GroupsOf(Str) = 0 /\ StartGlobals(Str) = nth
    BY RegexpAssumption DEF MatchNumbers, GroupsOf, StartGlobals
  <1>3. ASSUME UNCHANGED <<active, nth, whole, around>>
        PROVE  OfOneMatch'
    BY <1>1, <1>3 DEF OfOneMatch
  <1>4. blocks' = blocks => StrScans'
    BY <1>1 DEF StrScans
  <1>5. CASE ScanMisses(Str)
    BY <1>2, <1>3, <1>4, <1>5 DEF ScanMisses, ScanStarts
  <1>6. CASE ScanWithBlock(Str)
    <2>1. PICK n \in MatchNumbers :
             /\ ScanStarts(Str)
             /\ SetForBlock(Str, 1, nth)
             /\ Push("scan", Str, 1, n)
      BY <1>2, <1>6 DEF ScanWithBlock
    <2>2. UNCHANGED <<active, nth, whole, around>>
      BY <1>1, <1>2, <2>1, StrSetsLastOnly DEF ScanStarts
    <2>3. StrScans'
      BY <1>1, <1>2, <2>1, PushKeepsStrScans
    <2>4. QED
      BY <1>3, <2>2, <2>3
  <1>7. CASE ScanCollects(Str)
    <2>1. nth' = [i \in Numbers |-> nth[i]]
      BY <1>2, <1>7 DEF ScanCollects
    <2>2. nth' = nth
      BY <1>1, <2>1 DEF TypeOK
    <2>3. QED
      BY <1>3, <1>4, <1>7, <2>2 DEF ScanCollects, ScanStarts
  <1>8. QED
    BY <1>5, <1>6, <1>7

(* Leaving blocks, or the next match of a scan for a String.               *)
LEMMA BlockDerives ==
    ASSUME DInv, BlockReturns \/ BlockRaises
    PROVE  OfOneMatch' /\ StrScans'
  <1>1. TypeOK /\ OfOneMatch /\ StrScans
    BY DEF DInv
  <1>2. ASSUME UNCHANGED <<active, nth, whole, around>>
        PROVE  OfOneMatch'
    BY <1>1, <1>2 DEF OfOneMatch
  <1>3. CASE BlockRaises
    <2>1. StrScans'
      BY <1>1, <1>3, BlocksUnwind DEF BlockRaises
    <2>2. QED
      BY <1>2, <1>3, <2>1 DEF BlockRaises
  <1>4. CASE BlockReturns
    <2>1. blocks # <<>>
      BY <1>4 DEF BlockReturns
    <2>2. /\ Len(blocks) \in Nat /\ Len(blocks) >= 1
          /\ Top \in Blocks
          /\ Outer \in Seq(Blocks)
          /\ Len(Outer) = Len(blocks) - 1
          /\ \A i \in 1 .. Len(blocks) - 1 : Outer[i] = blocks[i]
      BY <1>1, <2>1, InnermostTypes
    <2>3. \A i \in 1 .. Len(blocks) - 1 : i \in 1 .. Len(blocks)
      BY <2>2
    <2>4. \A i \in 1 .. Len(Outer) : Outer[i].op = "scan" => Outer[i].re = Str
      BY <1>1, <2>2, <2>3 DEF StrScans
    <2>5. CASE blocks' = Outer /\ UNCHANGED <<active, nth, whole, around>>
      BY <1>2, <2>4, <2>5 DEF StrScans
    <2>6. CASE /\ Top.op = "scan" /\ Top.at < Top.of
               /\ SetForBlock(Top.re, Top.at + 1, nth)
               /\ blocks' = NextMatch
               /\ UNCHANGED active
      <3>1. Top.re = Str
        BY <1>1, <2>2, <2>6 DEF StrScans, Top
      <3>2. Top.at + 1 \in MatchNumbers
        <4>1. Top.at \in MatchNumbers /\ Top.of \in MatchNumbers
          BY <2>2 DEF Blocks
        <4>2. QED
          BY <2>6, <4>1, RegexpAssumption DEF MatchNumbers
      <3>3. UNCHANGED <<active, nth, whole, around>>
        BY <1>1, <2>6, <3>1, <3>2, StrSetsLastOnly
      <3> DEFINE b == [Top EXCEPT !.at = Top.at + 1]
      <3>4. b \in Blocks /\ b.re = Str
        BY <2>2, <3>1, <3>2 DEF Blocks
      <3>5. blocks' = Append(Outer, b)
        BY <2>6 DEF NextMatch
      <3> HIDE DEF b
      <3>6. /\ Len(blocks') = Len(Outer) + 1
            /\ \A i \in 1 .. Len(Outer) : blocks'[i] = Outer[i]
            /\ blocks'[Len(Outer) + 1] = b
        BY <2>2, <3>4, <3>5, AppendProperties
      <3>7. \A i \in 1 .. Len(Outer) + 1 : i \in 1 .. Len(Outer) \/ i = Len(Outer) + 1
        BY <2>2
      <3>8. ASSUME NEW i \in 1 .. Len(blocks'), blocks'[i].op = "scan"
            PROVE  blocks'[i].re = Str
        BY <2>4, <3>4, <3>6, <3>7, <3>8
      <3>9. QED
        BY <1>2, <3>3, <3>8 DEF StrScans
    <2>7. QED
      BY <1>4, <2>5, <2>6 DEF BlockReturns
  <1>5. QED
    BY <1>3, <1>4

-----------------------------------------------------------------------------
(* The globals have their types, for all Regexps and scans: the count of   *)
(* set groups stays within bounds, and a scan within its matches.          *)
THEOREM GlobalTypes == Spec => []TypeOK
  <1>1. Init => TypeOK
    <2>1. SUFFICES ASSUME Init PROVE TypeOK
      OBVIOUS
    <2>2. blocks \in Seq(Blocks)
      BY <2>1, EmptySeq DEF Init
    <2>3. 0 \in 0 .. MaxGlobals
      BY RegexpAssumption
    <2>4. QED
      BY <2>1, <2>2, <2>3 DEF Init, TypeOK
  <1>2. TypeOK /\ [Next]_vars => TypeOK'
    BY StepTypes
  <1>3. QED
    BY <1>1, <1>2, PTL DEF Spec

(* A step of DInv keeps it, unless it scans for a Regexp.                  *)
LEMMA StepDerives ==
    ASSUME DInv, [Next]_vars, ~scanned'
    PROVE  OfOneMatch' /\ StrScans'
  <1>1. TypeOK /\ OfOneMatch /\ StrScans
    BY DEF DInv
  <1>2. CASE MatchOutOfRange
    BY <1>1, <1>2, ClearDerives DEF MatchOutOfRange, StrScans
  <1>3. CASE NotAString \/ UNCHANGED vars
    BY <1>1, <1>3 DEF NotAString, vars, OfOneMatch, StrScans
  <1>4. ASSUME NEW p \in ScanPatterns, ScanMisses(p) \/ ScanWithBlock(p) \/ ScanCollects(p)
        PROVE  OfOneMatch' /\ StrScans'
    <2>1. ScanStarts(p)
      BY <1>4 DEF ScanMisses, ScanWithBlock, ScanCollects
    <2>2. p = Str /\ Str \in Patterns
      BY <2>1 DEF ScanStarts, Patterns
    <2>3. QED
      BY <1>4, <2>2, StrScanDerives
  <1>5. CASE \E r \in Regexps : MatchOperator(r) \/ CaseMatch(r) \/ MatchMethod(r)
    BY <1>5, MatchDerives
  <1>6. CASE BlockReturns \/ BlockRaises
    BY <1>6, BlockDerives
  <1>7. QED
    BY <1>2, <1>3, <1>4, <1>5, <1>6 DEF Next

(* What has been scanned for stays so.                                     *)
LEMMA ScannedStays ==
    ASSUME [Next]_vars, scanned
    PROVE  scanned'
  <1>1. ASSUME NEW p \in ScanPatterns, ScanMisses(p) \/ ScanWithBlock(p) \/ ScanCollects(p)
        PROVE  scanned'
    BY <1>1 DEF ScanMisses, ScanWithBlock, ScanCollects, ScanStarts
  <1>2. ASSUME NEW r \in Regexps, MatchOperator(r) \/ CaseMatch(r) \/ MatchMethod(r)
        PROVE  scanned'
    BY <1>2 DEF MatchOperator, CaseMatch, MatchMethod
  <1>3. CASE BlockReturns \/ BlockRaises
    BY <1>3 DEF BlockReturns, BlockRaises
  <1>4. CASE MatchOutOfRange \/ NotAString \/ UNCHANGED vars
    BY <1>4 DEF MatchOutOfRange, NotAString, vars
  <1>5. QED
    BY <1>1, <1>2, <1>3, <1>4 DEF Next

(* $1, $2, ... are of the one match that $&, $` and $' are of, whatever    *)
(* matches and fails in blocks, until a Regexp is scanned for.             *)
THEOREM OneMatch == Spec => []DerivedFromOneMatch
  <1>1. Init => DerivedFromOneMatch /\ (~scanned => StrScans)
    BY DEF Init, DerivedFromOneMatch, OfOneMatch, StrScans
  <1>2. TypeOK /\ DerivedFromOneMatch /\ (~scanned => StrScans) /\ [Next]_vars
        => (DerivedFromOneMatch /\ (~scanned => StrScans))'
    <2>1. SUFFICES ASSUME TypeOK, DerivedFromOneMatch, ~scanned => StrScans, [Next]_vars, ~scanned'
                   PROVE  OfOneMatch' /\ StrScans'
      BY DEF DerivedFromOneMatch
    <2>2. ~scanned
      BY <2>1, ScannedStays
    <2>3. DInv
      BY <2>1, <2>2 DEF DerivedFromOneMatch, DInv
    <2>4. QED
      BY <2>1, <2>3, StepDerives
  <1>3. QED
    BY <1>1, <1>2, GlobalTypes, PTL DEF Spec

-----------------------------------------------------------------------------
(* What a block that b describes finds set when it is called.              *)
SeesCaptures(b) ==
    b.op = "scan" /\ GroupsOf(b.re) > 0 =>
        /\ \A n \in 1 .. GroupsOf(b.re) : nth'[n] = Text(b.re, b.at, n)
        /\ whole' = Text(b.re, b.at, 0)
        /\ last' = Match(b.re, b.at)

LEMMA SetForBlockSeen ==
    ASSUME NEW p \in Patterns, NEW k, NEW globals, SetForBlock(p, k, globals),
           NEW b, b.re = p, b.at = k
    PROVE  SeesCaptures(b)
  <1>1. SUFFICES ASSUME GroupsOf(p) > 0
                 PROVE  /\ \A n \in 1 .. GroupsOf(p) : nth'[n] = Text(p, k, n)
                        /\ whole' = Text(p, k, 0)
                        /\ last' = Match(p, k)
    BY DEF SeesCaptures
  <1>2. GroupsOf(p) # 0 /\ GroupsOf(p) \in 0 .. MaxGlobals /\ MaxGlobals \in Nat
    BY <1>1, GroupsOfType, RegexpAssumption
  <1>3. \A n \in 1 .. GroupsOf(p) : n \in Numbers /\ n <= GroupsOf(p)
    BY <1>2 DEF Numbers
  <1>4. QED
    BY <1>2, <1>3 DEF SetForBlock

(* A method that yields: its block is the last, and the only new one.      *)
LEMMA PushedLast ==
    ASSUME TypeOK, NEW op \in {"match", "scan"}, NEW p \in Patterns,
           NEW k \in MatchNumbers, NEW n \in MatchNumbers, Push(op, p, k, n)
    PROVE  blocks'[Len(blocks')] = [op |-> op, re |-> p, at |-> k, of |-> n]
  <1> DEFINE b == [op |-> op, re |-> p, at |-> k, of |-> n]
  <1>1. b \in Blocks
    BY DEF Blocks
  <1>2. blocks' = Append(blocks, b) /\ blocks \in Seq(Blocks)
    BY DEF Push, TypeOK
  <1> HIDE DEF b
  <1>3. Len(blocks') = Len(blocks) + 1 /\ blocks'[Len(blocks) + 1] = b
    BY <1>1, <1>2, AppendProperties
  <1>4. QED
    BY <1>3 DEF b

(* The blocks of a step that calls one: all others leave blocks, or none   *)
(* of them.                                                                *)
LEMMA StepSees ==
    ASSUME TypeOK, Next, blocks' # blocks, Len(blocks') >= Len(blocks)
    PROVE  SeesCaptures(blocks'[Len(blocks')])
  <1> DEFINE b == blocks'[Len(blocks')]
  <1>1. ASSUME NEW r \in Regexps, MatchOperator(r) \/ CaseMatch(r) \/ MatchMethod(r)
        PROVE  SeesCaptures(b)
    <2>1. PICK k \in MatchNumbers : Push("match", r, k, k)
      BY <1>1 DEF MatchOperator, CaseMatch, MatchMethod
    <2>2. r \in Patterns
      BY DEF Patterns
    <2>3. b = [op |-> "match", re |-> r, at |-> k, of |-> k]
      BY <2>1, <2>2, PushedLast
    <2> HIDE DEF b
    <2>4. b.op # "scan"
      BY <2>3
    <2>5. QED
      BY <2>4 DEF SeesCaptures
  <1>2. CASE MatchOutOfRange \/ NotAString
    BY <1>2 DEF MatchOutOfRange, NotAString
  <1>3. ASSUME NEW p \in ScanPatterns, ScanMisses(p) \/ ScanWithBlock(p) \/ ScanCollects(p)
        PROVE  SeesCaptures(b)
    <2>1. PICK n \in MatchNumbers :
             SetForBlock(p, 1, StartGlobals(p)) /\ Push("scan", p, 1, n)
      BY <1>3 DEF ScanMisses, ScanWithBlock, ScanCollects
    <2>2. p \in Patterns /\ 1 \in MatchNumbers
      BY RegexpAssumption DEF Patterns, MatchNumbers
    <2>3. b = [op |-> "scan", re |-> p, at |-> 1, of |-> n]
      BY <2>1, <2>2, PushedLast
    <2> HIDE DEF b
    <2>4. QED
      BY <2>1, <2>2, <2>3, SetForBlockSeen DEF SeesCaptures
  <1>4. CASE BlockReturns
    <2>1. blocks # <<>>
      BY <1>4 DEF BlockReturns
    <2>2. /\ Len(blocks) \in Nat /\ Len(blocks) >= 1 /\ Top \in Blocks
          /\ Outer \in Seq(Blocks) /\ Len(Outer) = Len(blocks) - 1
      BY <2>1, InnermostTypes
    <2>3. blocks' # Outer
      <3>1. ~(Len(Outer) >= Len(blocks))
        BY <2>2
      <3>2. QED
        BY <3>1
    <2>4. /\ Top.at < Top.of /\ blocks' = NextMatch
          /\ SetForBlock(Top.re, Top.at + 1, nth)
      BY <1>4, <2>3 DEF BlockReturns
    <2> DEFINE c == [Top EXCEPT !.at = Top.at + 1]
    <2>5. /\ Top.re \in Patterns /\ Top.at \in MatchNumbers /\ Top.of \in MatchNumbers
          /\ c.re = Top.re /\ c.at = Top.at + 1
      BY <2>2 DEF Blocks
    <2>6. c \in Blocks
      <3>1. Top.at + 1 \in MatchNumbers
        BY <2>4, <2>5, RegexpAssumption DEF MatchNumbers
      <3>2. QED
        BY <2>2, <3>1 DEF Blocks
    <2>7. blocks' = Append(Outer, c)
      BY <2>4 DEF NextMatch
    <2> HIDE DEF c
    <2>8. b = c
      BY <2>2, <2>6, <2>7, AppendProperties
    <2> HIDE DEF b
    <2>9. b.re = Top.re /\ b.at = Top.at + 1
      BY <2>5, <2>8
    <2>10. SeesCaptures(b)
      BY <2>4, <2>5, <2>9, SetForBlockSeen
    <2>11. QED
      BY <2>10 DEF b
  <1>5. CASE BlockRaises
    <2>1. PICK d \in 0 .. Len(blocks) - 1 : blocks' = SubSeq(blocks, 1, d)
      BY <1>5 DEF BlockRaises
    <2>2. Len(blocks) \in Nat
      BY LenProperties DEF TypeOK
    <2>3. d \in Nat /\ d <= Len(blocks) /\ d < Len(blocks)
      BY <2>1, <2>2
    <2>4. Len(blocks') = d
      BY <2>1, <2>3, PrefixType
    <2>5. QED
      BY <2>2, <2>3, <2>4
  <1>6. QED
    BY <1>1, <1>2, <1>3, <1>4, <1>5 DEF Next

(* Whenever a scan calls its block, for the first match or a later one,    *)
(* $1, $2, ... and $& are the captures of that match.                      *)
THEOREM CapturesSeen == Spec => BlockSeesItsCaptures
  <1>1. TypeOK /\ [Next]_vars =>
           [LET b == blocks'[Len(blocks')]
            IN  blocks' # blocks /\ Len(blocks') >= Len(blocks) /\ b.op = "scan"
                /\ GroupsOf(b.re) > 0 =>
                  /\ \A n \in 1 .. GroupsOf(b.re) : nth'[n] = Text(b.re, b.at, n)
                  /\ whole' = Text(b.re, b.at, 0)
                  /\ last' = Match(b.re, b.at)]_vars
    BY StepSees DEF SeesCaptures
  <1>2. QED
    BY <1>1, GlobalTypes, PTL DEF Spec, BlockSeesItsCaptures

=============================================================================

------------------------------- MODULE ReplProofs -------------------------------
(***************************************************************************)
(* Theorems about the interactive loop, for buffers of any length and any  *)
(* largest line number.                                                    *)
(***************************************************************************)
EXTENDS Repl, SequenceTheorems, TLAPS

USE ParserContextAssumption, ReplAssumption

(* Before the first prompt nothing is evaluated or pushed, and the parser  *)
(* is reset; at a prompt, the context of the loop is there.                *)
BootInv ==
    /\ phase \in {"boot", "reset"} => evaluated = 0 /\ stack = <<>> /\ buf = 0
    /\ phase \in {"boot", "reset"} => parserState = "Valid"
    /\ phase = "reset" => lineno = 1
    /\ phase = "prompt" => stack # <<>>

ReplInv == ReplTypeOK /\ BootInv /\ PromptIsHonest /\ LinesCounted

(* Each verdict is a parser state.                                         *)
LEMMA VerdictType ==
    ASSUME NEW c \in Contents, Parse(c)
    PROVE  /\ parserState' \in States
           /\ heredoc' \in BOOLEAN
  <1>1. StateOf[c] \in States
    BY DEF Contents, StateOf, States
  <1>2. parserState' \in States
    BY <1>1 DEF Parse, Verdict, States
  <1>3. QED
    BY <1>2 DEF Parse

(* The invariant holds before the first prompt.                            *)
LEMMA InvAtStart == ReplInit => ReplInv
  <1> SUFFICES ASSUME ReplInit
               PROVE  ReplInv
    OBVIOUS
  <1>1. ParserTypeOK
    BY EmptySeq DEF ReplInit, ParserInit, ParserTypeOK
  <1>2. content \in Contents /\ parserState \in States
    BY DEF ReplInit, Contents, StateOf, States
  <1>3. ReplTypeOK
    BY <1>1, <1>2 DEF ReplInit, ReplTypeOK
  <1>4. QED
    BY <1>3 DEF ReplInit, ParserInit, ReplInv, BootInv, PromptIsHonest, LinesCounted

(* Evaluating the buffer keeps the invariant, also when the count          *)
(* overflows.                                                              *)
LEMMA EvaluateKeeps ==
    ASSUME ReplInv, NEW c \in Contents, NEW empty \in BOOLEAN, Evaluate(c, empty)
    PROVE  ReplInv'
  <1> DEFINE lines == IF empty THEN buf ELSE buf + 1
  <1>1. lines \in Nat \ {0} /\ evaluated \in Nat /\ lineno \in 0 .. MaxLineno
    BY DEF ReplInv, ReplTypeOK, ParserTypeOK, Evaluate
  <1>2. /\ phase = "prompt" /\ Parse(c) /\ ~IsCodeBlockOpen(parserState')
        /\ evaluated' = evaluated + lines
        /\ lineno' = IF lineno + lines <= MaxLineno THEN lineno + lines ELSE MaxLineno
        /\ UNCHANGED <<filename, stack>>
        /\ IF lineno + lines <= MaxLineno
           THEN buf' = 0 /\ content' = "complete" /\ UNCHANGED phase
           ELSE phase' = "stopped" /\ buf' = lines /\ content' = c
    BY DEF Evaluate, Reads, CountLines, LinenoFits
  <1> HIDE DEF lines
  <1>3. stack # <<>> /\ 1 + evaluated <= MaxLineno /\ lineno = 1 + evaluated
    BY <1>1, <1>2 DEF ReplInv, BootInv, LinesCounted
  <1>4. LinesCounted' /\ lineno' \in 0 .. MaxLineno
    BY <1>1, <1>2, <1>3 DEF LinesCounted
  <1>5. ReplTypeOK'
    <2>1. ParserTypeOK'
      BY <1>2, <1>4 DEF ReplInv, ReplTypeOK, ParserTypeOK
    <2>2. content' \in Contents /\ buf' \in Nat /\ evaluated' \in Nat
      BY <1>1, <1>2 DEF Contents, StateOf
    <2>3. phase' \in {"prompt", "stopped"}
      BY <1>2
    <2>4. QED
      BY <1>2, <2>1, <2>2, <2>3, VerdictType DEF ReplTypeOK
  <1>6. BootInv' /\ PromptIsHonest'
    BY <1>2, <1>3 DEF BootInv, PromptIsHonest
  <1>7. QED
    BY <1>4, <1>5, <1>6 DEF ReplInv

(* Each step keeps the invariant.                                          *)
LEMMA InvKept == ReplInv /\ [ReplNext]_loopVars => ReplInv'
  <1> SUFFICES ASSUME ReplInv, [ReplNext]_loopVars
               PROVE  ReplInv'
    OBVIOUS
  <1> USE DEF ReplInv
  <1>1. CASE Reset
    BY <1>1, EmptySeq DEF Reset, ResetParser, ReplTypeOK, ParserTypeOK, BootInv, PromptIsHonest, LinesCounted
  <1>2. CASE Boot
    <2>1. stack' = <<ReplFilename>> /\ filename' = ReplFilename
      BY <1>2 DEF Boot, PushContext, BootInv
    <2>2. ParserTypeOK'
      BY <1>2, <2>1 DEF Boot, PushContext, ReplTypeOK, ParserTypeOK
    <2>3. LinesCounted'
      BY <1>2, <2>1 DEF Boot, PushContext, BootInv, LinesCounted
    <2>4. QED
      BY <1>2, <2>1, <2>2, <2>3
         DEF Boot, ReplTypeOK, BootInv, PromptIsHonest, IsCodeBlockOpen
  <1>3. ASSUME NEW c \in Contents, Hold(c)
        PROVE  ReplInv'
    BY <1>3, VerdictType
       DEF Hold, Reads, ReplTypeOK, ParserTypeOK, BootInv, PromptIsHonest, LinesCounted, parserVars
  <1>4. ASSUME NEW c \in Contents, NEW empty \in BOOLEAN, Evaluate(c, empty)
        PROVE  ReplInv'
    BY <1>4, EvaluateKeeps
  <1>5. CASE Interrupt
    BY <1>5 DEF Interrupt, ReplTypeOK, ParserTypeOK, BootInv, PromptIsHonest, LinesCounted,
                IsCodeBlockOpen, Contents, StateOf, States, parserVars
  <1>6. CASE Stop
    BY <1>6 DEF Stop, ReplTypeOK, ParserTypeOK, BootInv, PromptIsHonest, LinesCounted, parserVars
  <1>7. CASE UNCHANGED loopVars
    BY <1>7 DEF loopVars, replVars, parserVars, ReplTypeOK, ParserTypeOK, BootInv, PromptIsHonest,
                LinesCounted
  <1>8. QED
    BY <1>1, <1>2, <1>3, <1>4, <1>5, <1>6, <1>7 DEF ReplNext

(* The invariant holds in all reachable states.                            *)
LEMMA ReplInvariant == ReplSpec => []ReplInv
  BY InvAtStart, InvKept, PTL DEF ReplSpec

(* The continuation prompt shows exactly while lines are buffered.         *)
THEOREM HonestPrompt == ReplSpec => []PromptIsHonest
  BY ReplInvariant, PTL DEF ReplInv

(* The line number never wraps and never drifts from the lines evaluated.  *)
THEOREM CountedLines == ReplSpec => []LinesCounted
  BY ReplInvariant, PTL DEF ReplInv

-----------------------------------------------------------------------------
(* What the parser remembers of a heredoc.                                 *)

(* A heredoc that was left open stays, and keeps every buffer open; until  *)
(* then the verdict on the buffer is a fresh one.                          *)
LEMMA HeredocStep ==
    ASSUME ReplInv, [ReplNext]_loopVars
    PROVE  /\ heredoc => heredoc' /\ evaluated' = evaluated
           /\ (~heredoc => FreshVerdict) => (~heredoc' => FreshVerdict')
  <1> USE DEF FreshVerdict
  <1>1. ASSUME NEW c \in Contents, Hold(c)
        PROVE  /\ heredoc => heredoc' /\ evaluated' = evaluated
               /\ ~heredoc' => parserState' = StateOf[content']
    BY <1>1 DEF Hold, Reads, Parse, Verdict
  <1>2. ASSUME NEW c \in Contents, NEW empty \in BOOLEAN, Evaluate(c, empty)
        PROVE  /\ ~heredoc
               /\ ~heredoc' => parserState' = StateOf[c]
               /\ buf' = 0 \/ content' = c
    BY <1>2 DEF Evaluate, Reads, Parse, Verdict, IsCodeBlockOpen
  <1>3. CASE Interrupt
    BY <1>3 DEF Interrupt
  <1>4. CASE Reset \/ Boot \/ Stop \/ UNCHANGED loopVars
    BY <1>4 DEF Reset, Boot, Stop, loopVars, replVars
  <1>5. QED
    BY <1>1, <1>2, <1>3, <1>4 DEF ReplNext

(* Until a heredoc is left open for the first time, what was typed before  *)
(* has no say in whether the code in the buffer is complete: FreshVerdict  *)
(* fails for no other reason (repl.rs, parser.rs).                         *)
THEOREM FreshWithoutHeredoc == ReplSpec => [](heredoc \/ FreshVerdict)
  <1>1. ReplInit => (~heredoc => FreshVerdict)
    BY DEF ReplInit, FreshVerdict
  <1>2. ReplInv /\ (~heredoc => FreshVerdict) /\ [ReplNext]_loopVars => (~heredoc => FreshVerdict)'
    BY HeredocStep
  <1>3. QED
    BY <1>1, <1>2, ReplInvariant, PTL DEF ReplSpec

(* After that, no line is ever evaluated again, not even behind Ctrl-C:    *)
(* each goes into the buffer, until the loop ends.                         *)
THEOREM NothingAfterHeredoc == ReplSpec => [][heredoc => heredoc' /\ evaluated' = evaluated]_loopVars
  <1>1. ReplInv /\ [ReplNext]_loopVars => [heredoc => heredoc' /\ evaluated' = evaluated]_loopVars
    BY HeredocStep
  <1>2. QED
    BY <1>1, ReplInvariant, PTL DEF ReplSpec

=============================================================================

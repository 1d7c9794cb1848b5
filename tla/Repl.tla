---------------------------------- MODULE Repl ----------------------------------
(***************************************************************************)
(* The interactive loop (src/repl.rs) and the parser it asks, line by      *)
(* line, whether the code typed so far is complete (src/parser.rs). The    *)
(* loop buffers lines while a code block is open, and evaluates the buffer *)
(* when the block is closed. One mruby parser state serves all lines.      *)
(*                                                                         *)
(* The text in the buffer is abstracted to what a parser that has parsed   *)
(* nothing else finds in it. Evaluating code leaves the context stack as   *)
(* it was (BalancedContexts in FeatureLoaderProofs).                       *)
(***************************************************************************)
EXTENDS ParserContext

CONSTANTS
    ReplFilename,   \* "(airb)", the filename that the loop pushes
    MaxBuffer,      \* bound: lines in the buffer
    MaxLines        \* bound: lines evaluated

ASSUME ReplAssumption ==
    /\ ReplFilename \in Filename
    /\ MaxBuffer \in Nat
    /\ MaxLines \in Nat

VARIABLES
    phase,          \* where the loop is
    buf,            \* the lines in the buffer
    content,        \* what the buffer holds
    parserState,    \* parser_state: the verdict on the last line
    heredoc,        \* mrb_parser_state.parsing_heredoc is not null
    evaluated       \* history: lines evaluated

replVars == <<phase, buf, content, parserState, heredoc, evaluated>>
loopVars == <<parserVars, replVars>>

-----------------------------------------------------------------------------
(* The verdict of Parser::parse on a buffer. The context of the parser     *)
(* does not capture messages, so that a syntax error has none, whether     *)
(* more lines could repair it or not.                                      *)
StateOf == [complete   |-> "Valid",
            unfinished |-> "ParseError",
            hopeless   |-> "ParseError",
            string     |-> "UnterminatedString",
            heredoc    |-> "UnterminatedHeredoc"]

Contents == DOMAIN StateOf

States == {"ParseError", "CodeTooLong", "UnexpectedEnd", "UnexpectedProgramEnd",
           "UnexpectedRegexpBegin", "UnterminatedBlock", "UnterminatedHeredoc",
           "UnterminatedString", "Valid"}

IsCodeBlockOpen(s) ==
    s \notin {"Valid", "UnexpectedEnd", "UnexpectedRegexpBegin", "CodeTooLong"}

(* mrb_parser_parse clears the string and the errors of the parse before,  *)
(* but not the heredocs that it was in: once one is left open, a later one *)
(* is put in front of it, and the list never becomes empty.                *)
Verdict(c) == IF heredoc THEN "UnterminatedHeredoc" ELSE StateOf[c]

Parse(c) ==
    /\ parserState' = Verdict(c)
    /\ heredoc' = (heredoc \/ c = "heredoc")

-----------------------------------------------------------------------------
ReplTypeOK ==
    /\ ParserTypeOK
    /\ phase \in {"boot", "reset", "prompt", "stopped"}
    /\ buf \in Nat
    /\ content \in Contents
    /\ parserState \in States
    /\ heredoc \in BOOLEAN
    /\ evaluated \in Nat

ReplInit ==
    /\ ParserInit
    /\ phase = "boot"
    /\ buf = 0
    /\ content = "complete"
    /\ parserState = "Valid"
    /\ heredoc = FALSE
    /\ evaluated = 0

(* The parser is reset and gets a context before the first prompt.         *)
Reset ==
    /\ phase = "boot"
    /\ ResetParser
    /\ phase' = "reset"
    /\ UNCHANGED <<buf, content, parserState, heredoc, evaluated>>

Boot ==
    /\ phase = "reset"
    /\ PushContext(ReplFilename)
    /\ phase' = "prompt"
    /\ UNCHANGED <<buf, content, parserState, heredoc, evaluated>>

(* A line is read, after which the buffer holds c. Nothing repairs a       *)
(* hopeless buffer. An empty line at an empty buffer changes nothing.      *)
Reads(c) ==
    /\ phase = "prompt"
    /\ buf < MaxBuffer
    /\ buf > 0 /\ content = "hopeless" => c = "hopeless"
    /\ Parse(c)

(* The block is open: the line stays in the buffer with a line break. (A   *)
(* fatal state is open too, and no buffer is too long for the parser, so   *)
(* that the branches behind this one are never taken.)                     *)
Hold(c) ==
    /\ Reads(c)
    /\ IsCodeBlockOpen(parserState')
    /\ buf' = buf + 1
    /\ content' = c
    /\ UNCHANGED <<parserVars, phase, evaluated>>

(* The block is closed: the buffer is evaluated, to a value or to an       *)
(* exception, and its lines are counted, but for an empty last line. The   *)
(* loop ends when the line number overflows, and the buffer stays.         *)
Evaluate(c, empty) ==
    LET lines == IF empty THEN buf ELSE buf + 1 IN
    /\ Reads(c)
    /\ ~IsCodeBlockOpen(parserState')
    /\ lines > 0
    /\ evaluated + lines <= MaxLines
    /\ evaluated' = evaluated + lines
    /\ CountLines(lines)
    /\ IF LinenoFits(lines)
       THEN buf' = 0 /\ content' = "complete" /\ UNCHANGED phase
       ELSE phase' = "stopped" /\ buf' = lines /\ content' = c

(* A mutant of Interrupt: only the buffer is cleared.                      *)
InterruptKeepsState ==
    /\ phase = "prompt"
    /\ buf' = 0
    /\ content' = "complete"
    /\ UNCHANGED <<parserVars, phase, parserState, heredoc, evaluated>>

(* Ctrl-C                                                                  *)
Interrupt ==
    /\ phase = "prompt"
    /\ buf' = 0
    /\ content' = "complete"
    /\ parserState' = "Valid"
    /\ UNCHANGED <<parserVars, phase, heredoc, evaluated>>

(* Ctrl-D, or an error in reading, writing or the interpreter.             *)
Stop ==
    /\ phase # "stopped"
    /\ phase' = "stopped"
    /\ UNCHANGED <<parserVars, buf, content, parserState, heredoc, evaluated>>

ReplNext ==
    \/ Reset
    \/ Boot
    \/ \E c \in Contents : Hold(c)
    \/ \E c \in Contents, empty \in BOOLEAN : Evaluate(c, empty)
    \/ Interrupt
    \/ Stop

ReplSpec == ReplInit /\ [][ReplNext]_loopVars

-----------------------------------------------------------------------------
(* Properties.                                                             *)

(* The continuation prompt shows if and only if there are lines in the     *)
(* buffer: each way to empty the buffer also forgets the verdict on it.    *)
PromptIsHonest == phase = "prompt" => (IsCodeBlockOpen(parserState) <=> buf > 0)

(* The line number of the next input is that of the lines evaluated so     *)
(* far, up to the largest that the parser can store, at which the loop     *)
(* ends: it never wraps and never runs on with a wrong number.             *)
LinesCounted ==
    phase \in {"prompt", "stopped"} /\ stack # <<>> =>
        IF 1 + evaluated <= MaxLineno
        THEN lineno = 1 + evaluated
        ELSE lineno = MaxLineno /\ phase = "stopped"

(* "Reset the buffer and present the user with a fresh prompt" (repl.rs):  *)
(* what was typed before Ctrl-C, or before the last expression, has no     *)
(* say in whether the code in the buffer is complete.                      *)
FreshVerdict == buf > 0 => parserState = StateOf[content]

=============================================================================

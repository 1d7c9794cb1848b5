----------------------------- MODULE ParserContext -----------------------------
(***************************************************************************)
(* The parser half of the interpreter state (state/parser.rs): one mruby   *)
(* compiler context, which holds the filename and the line number that     *)
(* code is parsed with, and a stack of Rust-side contexts that eval,       *)
(* require, load and the REPL push and pop around the code they run.       *)
(***************************************************************************)
EXTENDS Naturals, Sequences

CONSTANTS
    Filename,       \* the filenames a context can carry
    TopFilename,    \* "(eval)", the filename of the root context
    MaxLineno       \* u16::MAX, the largest line number the C field holds

ASSUME ParserContextAssumption ==
    /\ TopFilename \in Filename
    /\ MaxLineno \in Nat \ {0}

VARIABLES
    filename,       \* mrbc_context.filename, what __FILE__ becomes at the next parse
    stack,          \* State.stack, the pushed contexts (only their filenames)
    lineno          \* mrbc_context.lineno

parserVars == <<filename, stack, lineno>>

ParserTypeOK ==
    /\ filename \in Filename
    /\ stack \in Seq(Filename)
    /\ lineno \in 0..MaxLineno

ParserInit ==
    /\ filename = TopFilename
    /\ stack = <<>>
    /\ lineno = 0

-----------------------------------------------------------------------------
(* A stack without its last element; the empty stack stays empty.          *)
Popped(s) == SubSeq(s, 1, Len(s) - 1)

(* The filename that the top of a context stack stands for.                *)
FilenameOf(s) == IF s = <<>> THEN TopFilename ELSE s[Len(s)]

PushContext(c) ==
    /\ filename' = c
    /\ stack' = Append(stack, c)
    /\ UNCHANGED lineno

(* A mutant of PopContext: back to the root filename from any depth.       *)
PopToRoot ==
    /\ stack' = Popped(stack)
    /\ filename' = TopFilename
    /\ UNCHANGED lineno

(* The stack loses its last element, if any; the filename becomes the one  *)
(* of the element that is last now, or the root filename.                  *)
PopContext ==
    /\ stack' = Popped(stack)
    /\ filename' = FilenameOf(stack')
    /\ UNCHANGED lineno

ResetParser ==
    /\ lineno' = 1
    /\ filename' = TopFilename
    /\ stack' = <<>>

(* n calls of add_fetch_lineno(1), up to the first that fails: a sum is    *)
(* checked against u16 before it is stored, so a failing call stores none. *)
LinenoFits(n) == lineno + n <= MaxLineno

(* A mutant of CountLines: the C field wraps.                              *)
CountLinesModulo(n) ==
    /\ lineno' = (lineno + n) % (MaxLineno + 1)
    /\ UNCHANGED <<filename, stack>>

CountLines(n) ==
    /\ lineno' = IF LinenoFits(n) THEN lineno + n ELSE MaxLineno
    /\ UNCHANGED <<filename, stack>>

-----------------------------------------------------------------------------
(* __FILE__ of the next source to be parsed is the filename of the context *)
(* on top of the stack, after any sequence of pushes, pops and resets: the *)
(* C copy of the name never goes stale against the Rust stack.             *)
FilenameIsTop == filename = FilenameOf(stack)

=============================================================================

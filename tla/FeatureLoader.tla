----------------------------- MODULE FeatureLoader -----------------------------
(***************************************************************************)
(* Kernel#require, require_relative and load, the LoadSources calls under  *)
(* them, and the eval entry points of the interpreter (load.rs, eval.rs,   *)
(* extn/core/kernel/require.rs, ruby.rs). Evaluating a source runs Ruby    *)
(* code, which may require again, so the calls in progress form a stack.   *)
(* What a source or a hook does is arbitrary: any sequence of calls, ended *)
(* by a return or by an exception, which the caller may rescue.            *)
(***************************************************************************)
EXTENDS LoadPath, ParserContext

CONSTANTS
    Requests,       \* paths given to require and load
    Relatives,      \* paths given to require_relative
    Programs,       \* paths given to eval_file
    Definitions,    \* files that may be defined while the interpreter runs
    InlineFilename, \* "-e"
    MaxCalls,       \* bound: calls in progress
    MaxContexts     \* bound: pushed contexts

ASSUME FeatureLoaderAssumption ==
    /\ Filename = Paths
    /\ Requests \subseteq Paths
    /\ Relatives \subseteq {p \in Paths : p.kind = "explicit" => p.dir = Cwd}
    /\ Programs \subseteq Paths
    /\ Definitions \subseteq MemoryFiles
    /\ InlineFilename \in Paths
    /\ MaxCalls \in Nat
    /\ MaxContexts \in Nat

VARIABLES
    calls,          \* the Rust calls that are running a hook or a source, innermost last
    answer,         \* how the last require or load ended
    done            \* history: what require has answered Success for

vars == <<loadPathVars, parserVars, calls, answer, done>>

Answers == {"none", "true", "false", "raise"}
Pushes == {<<>>} \cup {<<c>> : c \in Paths}

Calls == [op : {"require", "load", "eval"},
          path : Paths,             \* as requested
          target : Paths,           \* the path that is read and marked
          stage : {"hook", "body"},
          ctx : Pushes,             \* the context it pushed, if it did
          base : Nat,               \* the height of the context stack before that
          file : Paths]             \* __FILE__ of the source it evaluates

TypeOK ==
    /\ LoadPathTypeOK
    /\ ParserTypeOK
    /\ calls \in Seq(Calls)
    /\ answer \in Answers
    /\ done \subseteq [path : Paths, target : Paths]

Init ==
    /\ LoadPathInit
    /\ ParserInit
    /\ calls = <<>>
    /\ answer = "none"
    /\ done = {}

-----------------------------------------------------------------------------
Top == calls[Len(calls)]

(* Ruby code runs in the body of a source; Rust code that may use the      *)
(* interpreter is the embedder's, when no call is in progress, or a hook's.*)
RubyRuns == calls # <<>> /\ Top.stage = "body"
HostRuns == IF calls = <<>> THEN TRUE ELSE Top.stage = "hook"

MayCall == Len(calls) < MaxCalls /\ Len(stack) < MaxContexts

Enter(op, p, t, stage, ctx) ==
    /\ IF ctx = <<>> THEN UNCHANGED parserVars ELSE PushContext(ctx[1])
    /\ calls' = Append(calls, [op |-> op, path |-> p, target |-> t, stage |-> stage,
                               ctx |-> ctx, base |-> Len(stack), file |-> filename'])
    /\ UNCHANGED <<loadPathVars, answer, done>>

(* A call that ends before it runs any Ruby or hook: a context it pushed   *)
(* has been popped again.                                                  *)
AnswerNow(a) ==
    /\ answer' = a
    /\ UNCHANGED <<loadPathVars, parserVars, calls, done>>

(* Run the hook of t if it has one, else read t and evaluate it.           *)
RunTarget(op, p, t, ctx) ==
    \/ HasHook(t) /\ Enter(op, p, t, "hook", ctx)
    \/ ~HasHook(t) /\ Readable(t) /\ Enter(op, p, t, "body", ctx)
    \/ ~HasHook(t) /\ ~Readable(t) /\ AnswerNow("raise")

RequireSource(p, ctx) ==
    \/ AlreadyRequired(p) /\ AnswerNow("false")
    \/ ~AlreadyRequired(p) /\ RunTarget("require", p, RequireTarget(p), ctx)

LoadSource(p, ctx) == RunTarget("load", p, p, ctx)

-----------------------------------------------------------------------------
(* Calls that start.                                                       *)

KernelRequire(p) ==
    /\ RubyRuns /\ MayCall
    /\ \/ Resolves(p) /\ RequireSource(p, <<ResolvedName(p)>>)
       \/ ~Resolves(p) /\ AnswerNow("raise")

KernelLoad(p) ==
    /\ RubyRuns /\ MayCall
    /\ \/ Resolves(p) /\ LoadSource(p, <<ResolvedName(p)>>)
       \/ ~Resolves(p) /\ AnswerNow("raise")

(* Relative to the context on top of the stack, which is the source that   *)
(* runs if that was loaded by a call that pushed a context.                *)
KernelRequireRelative(p) ==
    /\ RubyRuns /\ MayCall
    /\ \/ stack = <<>> /\ AnswerNow("raise")
       \/ /\ stack # <<>>
          /\ LET q == JoinParent(stack[Len(stack)], p) IN
             \/ Resolves(q) /\ RequireSource(q, <<ResolvedName(q)>>)
             \/ ~Resolves(q) /\ AnswerNow("raise")

(* The LoadSources calls of an embedder push no context.                   *)
HostRequire(p) == HostRuns /\ MayCall /\ RequireSource(p, <<>>)
HostLoad(p) == HostRuns /\ MayCall /\ LoadSource(p, <<>>)

Eval == HostRuns /\ MayCall /\ Enter("eval", TopFilename, TopFilename, "body", <<>>)

(* Only the command line evaluates a file, with no call in progress. A     *)
(* program that cannot be read is an early return after the push, without  *)
(* the pop.                                                                *)
FailToRead(p) ==
    /\ ~Readable(p)
    /\ PushContext(p)
    /\ answer' = "raise"
    /\ UNCHANGED <<loadPathVars, calls, done>>

EvalFile(p) ==
    /\ calls = <<>> /\ MayCall
    /\ \/ Readable(p) /\ Enter("eval", p, p, "body", <<p>>)
       \/ FailToRead(p)

(* execute_inline_eval replaces the top context by "-e" for good; without  *)
(* its fixture nothing is evaluated.                                       *)
InlineEval ==
    /\ calls = <<>> /\ MayCall
    /\ stack' = Append(Popped(stack), InlineFilename)
    /\ filename' = InlineFilename
    /\ \/ calls' = <<[op |-> "eval", path |-> InlineFilename, target |-> InlineFilename,
                      stage |-> "body", ctx |-> <<>>, base |-> Len(stack'),
                      file |-> InlineFilename]>>
       \/ UNCHANGED calls
    /\ UNCHANGED <<loadPathVars, lineno, answer, done>>

Define(f) ==
    /\ HostRuns
    /\ DefRbSourceFile(f) \/ DefFileForType(f)
    /\ UNCHANGED <<parserVars, calls, answer, done>>

-----------------------------------------------------------------------------
(* Calls that go on or end.                                                *)

(* A mutant of Unwind: a context is popped for the host's calls too.       *)
UnwindAlwaysPops == calls' = Popped(calls) /\ PopContext

Unwind ==
    /\ calls' = Popped(calls)
    /\ IF Top.ctx = <<>> THEN UNCHANGED parserVars ELSE PopContext

(* The hook came back: the source is read and evaluated after it.          *)
HookReturns ==
    /\ calls # <<>> /\ Top.stage = "hook" /\ Readable(Top.target)
    /\ calls' = [calls EXCEPT ![Len(calls)].stage = "body",
                              ![Len(calls)].file = filename]
    /\ UNCHANGED <<loadPathVars, parserVars, answer, done>>

(* Mutants of Raises: the early return skips the pop; the feature of a     *)
(* require that fails is marked.                                           *)
RaisesWithoutPop ==
    /\ calls # <<>>
    /\ calls' = Popped(calls)
    /\ answer' = "raise"
    /\ UNCHANGED <<loadPathVars, parserVars, done>>

RaisesMarked ==
    /\ calls # <<>>
    /\ Unwind
    /\ answer' = "raise"
    /\ IF Top.op = "require" THEN MarkRequired(Top.target) ELSE UNCHANGED featureVars
    /\ UNCHANGED <<disk, entries, hooks, done>>

Raises ==
    /\ calls # <<>>
    /\ Unwind
    /\ answer' = "raise"
    /\ UNCHANGED <<loadPathVars, done>>

RequireReturns ==
    /\ RubyRuns /\ Top.op = "require"
    /\ MarkRequired(Top.target)
    /\ done' = done \cup {[path |-> Top.path, target |-> Top.target]}
    /\ answer' = "true"
    /\ Unwind
    /\ UNCHANGED <<disk, entries, hooks>>

LoadReturns ==
    /\ RubyRuns /\ Top.op = "load"
    /\ answer' = "true"
    /\ Unwind
    /\ UNCHANGED <<loadPathVars, done>>

EvalReturns ==
    /\ RubyRuns /\ Top.op = "eval"
    /\ Unwind
    /\ UNCHANGED <<loadPathVars, answer, done>>

Next ==
    \/ \E p \in Requests : KernelRequire(p) \/ KernelLoad(p) \/ HostRequire(p) \/ HostLoad(p)
    \/ \E p \in Relatives : KernelRequireRelative(p)
    \/ Eval
    \/ \E p \in Programs : EvalFile(p)
    \/ InlineEval
    \/ \E f \in Definitions : Define(f)
    \/ HookReturns
    \/ Raises
    \/ RequireReturns
    \/ LoadReturns
    \/ EvalReturns

Spec == Init /\ [][Next]_vars

-----------------------------------------------------------------------------
(* Properties.                                                             *)

(* Where the context stack stands while a call runs.                       *)
Height(c) == c.base + Len(c.ctx)

(* Pushes and pops of contexts pair up across nested, rescued and failed   *)
(* requires: each running call finds its context where it pushed it, right *)
(* above those of the calls around it, and the innermost one on top.       *)
ContextsBalanced ==
    \A i \in DOMAIN calls :
        /\ calls[i].ctx # <<>> => /\ Height(calls[i]) \in DOMAIN stack
                                  /\ stack[Height(calls[i])] = calls[i].ctx[1]
        /\ Height(calls[i]) = IF i = Len(calls) THEN Len(stack) ELSE calls[i + 1].base

(* While Ruby code runs, require_relative resolves against the source that *)
(* the code is in, if that has a context: the top of the stack is not left *)
(* over from a call that returned or raised.                               *)
RunsInOwnContext ==
    RubyRuns => /\ Top.file = filename
                /\ Top.ctx # <<>> => filename = Top.ctx[1]

(* What is left on the stack below the calls in progress are the contexts  *)
(* of programs that could not be read, one for each attempt, and that of   *)
(* "-e": eval_file leaves no other, and require and load none, whether     *)
(* their sources return or raise. (Such a program may have been defined    *)
(* since.)                                                                 *)
Unread(c) ==
    \/ c = InlineFilename
    \/ c \in Programs /\ (Readable(c) => MemFile(c) \in Definitions)

BelowCalls(cs, st) == IF cs = <<>> THEN Len(st) ELSE cs[1].base

OnlyUnreadLeft == \A i \in 1 .. BelowCalls(calls, stack) : Unread(stack[i])

(* require is idempotent through three loaders, all spellings of a path    *)
(* and any nesting: after require(p) has answered true, require(p) answers *)
(* false from then on. The one way out is a hook defined at p itself since *)
(* p was found as p.rb.                                                    *)
RequiredStaysRequired ==
    \A d \in done :
        Markable(d.path) => \/ AlreadyRequired(d.path)
                            \/ /\ HasHook(d.path)
                               /\ d.target # d.path

(* A feature is in a loader's set only because require evaluated a source  *)
(* to its end: a load, a source that raised and a failed hook leave no     *)
(* mark.                                                                   *)
MarkedWasEvaluated ==
    /\ \A f \in memFeatures : \E d \in done : InMemory(d.target) /\ MemFile(d.target) = f
    /\ \A f \in natFeatures : \E d \in done : NatFile(d.target) = f
    /\ \A f \in libFeatures : \E d \in done : f \in LibHandles(d.target)

(* "Implementations should ensure that this method returns                 *)
(* Ok(Required::Success) at most once" (artichoke-core/src/load.rs): no    *)
(* require answers Success for a path that one has answered it for before. *)
SuccessOnce == [][RequireReturns => \A d \in done : d.path # Top.path]_vars

-----------------------------------------------------------------------------
(* Refinement: the loaders together do what RequireOnce says, for          *)
(* programs that give require only paths that can be marked, on a file     *)
(* system whose hooks are defined at names with the rb extension.          *)

RefinementScope ==
    /\ \A p \in Requests : Markable(p)
    /\ LibDirs # <<>> => Relatives = {}
    /\ \A f \in Definitions : f.ext = "rb"

Loaded == {p \in Paths : Markable(p) /\ AlreadyRequired(p)}

Requiring == {i \in DOMAIN calls : calls[i].op = "require"}
Active == {calls[i].path : i \in Requiring}

Once == INSTANCE RequireOnce WITH
            Feature <- {p \in Paths : Markable(p)},
            loaded <- Loaded,
            active <- Active

KeepsRequireOnce == Once!Spec

=============================================================================

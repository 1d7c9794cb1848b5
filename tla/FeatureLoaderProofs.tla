-------------------------- MODULE FeatureLoaderProofs --------------------------
(***************************************************************************)
(* Theorems about FeatureLoader and the loaders of LoadPath, for any file  *)
(* system, RUBYLIB, set of requested paths and depth of nesting: what the  *)
(* lookups return, that a mark is found again by the lookup that is made   *)
(* before a source is loaded, and that it is never lost; that the context  *)
(* stack is balanced, the C copy of the filename agrees with it, and each  *)
(* source runs in the context it was parsed in; and that FeatureLoader     *)
(* implements RequireOnce, for programs within RefinementScope.            *)
(***************************************************************************)
EXTENDS FeatureLoader, SequenceTheorems, WellFoundedInduction, TLAPS

-----------------------------------------------------------------------------
(* Paths and files.                                                        *)

(* A path with its extension is a path, and every loader makes files of    *)
(* paths.                                                                  *)
LEMMA PathTypes ==
    ASSUME NEW p \in Paths
    PROVE  /\ WithRb(p) \in Paths
           /\ HasRb(WithRb(p))
           /\ WithRb(p).kind = p.kind
           /\ NatFile(p) \in Files
           /\ MemFile(p) \in Files
           /\ \A d \in Dirs : At(d, p) \in Files
  BY LoadPathAssumption DEF Paths, Files, Kinds, Exts, WithRb, HasRb, NatFile, MemFile, At

(* The absolute path of a file is a path.                                  *)
LEMMA AbsolutePathType ==
    ASSUME NEW f \in Files
    PROVE  AbsolutePath(f) \in Paths
  BY DEF Files, Paths, Kinds, AbsolutePath

(* A path resolved against the directory of another is a path.             *)
LEMMA JoinParentType ==
    ASSUME NEW b \in Paths, NEW p \in Paths
    PROVE  JoinParent(b, p) \in Paths
  <1>1. CASE p.kind = "absolute" \/ b.kind = "plain"
    BY <1>1 DEF JoinParent
  <1>2. CASE ~(p.kind = "absolute" \/ b.kind = "plain")
    <2>1. JoinParent(b, p) = [kind |-> b.kind, dir |-> b.dir, stem |-> p.stem, ext |-> p.ext]
      BY <1>2 DEF JoinParent, Paths
    <2>2. QED
      BY <1>2, <2>1 DEF Paths
  <1>3. QED
    BY <1>1, <1>2

(* The first of a set of positions exists.                                 *)
LEMMA FirstExists ==
    ASSUME NEW S \in SUBSET Nat, S # {}
    PROVE  First(S) \in S
  <1> DEFINE R == {ss \in Nat \X Nat : ss[1] < ss[2]}
  <1>1. IsWellFoundedOn(R, Nat)
    BY NatLessThanWellFounded DEF OpToRel
  <1> HIDE DEF R
  <1>2. \E i \in S : \A j \in S : <<j, i>> \notin R
    BY <1>1, WFMin
  <1>3. \A i, j \in Nat : <<j, i>> \notin R <=> i <= j
    BY DEF R
  <1>4. \E i \in S : \A j \in S : i <= j
    BY <1>2, <1>3
  <1>5. QED
    BY <1>4 DEF First

(* The first hit in RUBYLIB is a file.                                     *)
LEMMA LibFileType ==
    ASSUME NEW p \in Paths, LibHits(p) # {}
    PROVE  LibFile(p) \in Files
  <1>1. LibHits(p) \in SUBSET Nat /\ LibHits(p) \subseteq DOMAIN LibDirs
    BY LoadPathAssumption DEF LibHits
  <1>2. First(LibHits(p)) \in DOMAIN LibDirs
    BY <1>1, FirstExists
  <1>3. LibDirs[First(LibHits(p))] \in Dirs
    BY <1>2, LoadPathAssumption, ElementOfSeq, LenProperties
  <1>4. QED
    BY <1>3, PathTypes DEF LibFile

(* The handles that Rubylib marks are files.                               *)
LEMMA LibHandlesType ==
    ASSUME NEW p \in Paths
    PROVE  LibHandles(p) \subseteq Files
  BY LibFileType, PathTypes DEF LibHandles

(* The names that the loaders answer are paths.                            *)
LEMMA NameTypes ==
    ASSUME NEW p \in Paths
    PROVE  FileName(p) \in Paths /\ ResolvedName(p) \in Paths
  <1>1. \A q \in Paths : FileName(q) \in Paths
    BY LibFileType, PathTypes, AbsolutePathType DEF FileName
  <1>2. QED
    BY <1>1, PathTypes DEF ResolvedName

(* require reads and marks the path as given, or with rb added to a path   *)
(* that has no hook.                                                       *)
LEMMA RequireTargetType ==
    ASSUME NEW p \in Paths
    PROVE  /\ RequireTarget(p) \in Paths
           /\ RequireTarget(p) \in {p, WithRb(p)}
           /\ RequireTarget(p) # p => ~HasRb(p) /\ ~HasHook(p)
  BY PathTypes DEF RequireTarget

-----------------------------------------------------------------------------
(* Marks.                                                                  *)

(* mark_required and is_required agree on where the mark of a path is kept,*)
(* although each goes through the loaders in a way of its own.             *)
THEOREM MarkIsFound ==
    ASSUME NEW p \in Paths, Markable(p), MarkRequired(p), UNCHANGED disk
    PROVE  IsRequired(p)'
  <1>1. LibHits(p)' = LibHits(p) /\ LibFile(p)' = LibFile(p)
    BY DEF LibHits, LibFile, Exists
  <1>2. CASE LibHits(p) # {}
    <2>1. LibHandles(p) = {LibFile(p)}
      BY <1>2 DEF LibHandles, LibHits
    <2>2. LibFile(p) \in libFeatures'
      BY <2>1 DEF MarkRequired, MarkInRubylib, MarkInMemory, MarkInNative, LibAccepts
    <2>3. QED
      BY <1>1, <1>2, <2>2 DEF IsRequired
  <1>3. CASE LibHits(p) = {}
    <2>1. LibHandles(p) = {}
      BY <1>3 DEF LibHandles, Markable
    <2>2. IF InMemory(p) THEN MemFile(p) \in memFeatures' ELSE NatFile(p) \in natFeatures'
      BY <2>1 DEF MarkRequired, MarkInRubylib, MarkInMemory, MarkInNative, LibAccepts
    <2>3. QED
      BY <1>1, <1>3, <2>2 DEF IsRequired
  <1>4. QED
    BY <1>2, <1>3

(* A mark that is found stays found while the host's files do not change.  *)
FeaturesGrow ==
    /\ UNCHANGED disk
    /\ memFeatures \subseteq memFeatures'
    /\ natFeatures \subseteq natFeatures'
    /\ libFeatures \subseteq libFeatures'

(* Marking takes no mark away.                                             *)
LEMMA MarkRequiredGrows ==
    ASSUME NEW p, MarkRequired(p), UNCHANGED disk
    PROVE  FeaturesGrow
  BY DEF FeaturesGrow, MarkRequired, MarkInRubylib, MarkInMemory, MarkInNative

(* What is required stays required while marks are only added.             *)
LEMMA MarkStaysFound ==
    ASSUME NEW p, IsRequired(p), FeaturesGrow
    PROVE  IsRequired(p)'
  <1>1. LibHits(p)' = LibHits(p) /\ LibFile(p)' = LibFile(p)
    BY DEF FeaturesGrow, LibHits, LibFile, Exists
  <1>2. QED
    BY <1>1 DEF FeaturesGrow, IsRequired

(* Marks are files.                                                        *)
LEMMA MarkRequiredTypes ==
    ASSUME NEW p \in Paths, LoadPathTypeOK, MarkRequired(p), UNCHANGED <<disk, entries, hooks>>
    PROVE  LoadPathTypeOK'
  <1>1. LibHandles(p) \subseteq Files /\ MemFile(p) \in Files /\ NatFile(p) \in Files
    BY LibHandlesType, PathTypes
  <1>2. QED
    BY <1>1 DEF LoadPathTypeOK, MarkRequired, MarkInRubylib, MarkInMemory, MarkInNative

-----------------------------------------------------------------------------
USE LoadPathAssumption, ParserContextAssumption, FeatureLoaderAssumption

-----------------------------------------------------------------------------
(* The stacks.                                                             *)

(* A stack without its last element.                                       *)
LEMMA PoppedProperties ==
    ASSUME NEW S, NEW s \in Seq(S)
    PROVE  /\ Popped(s) \in Seq(S)
           /\ s = <<>> => Popped(s) = <<>>
           /\ s # <<>> => Len(Popped(s)) = Len(s) - 1
           /\ \A i \in 1 .. Len(s) - 1 : Popped(s)[i] = s[i]
  <1>1. Len(s) \in Nat /\ \A i \in 1 .. Len(s) - 1 : s[i] \in S
    BY ElementOfSeq, LenProperties
  <1>2. /\ SubSeq(s, 1, Len(s) - 1) \in Seq(S)
        /\ Len(SubSeq(s, 1, Len(s) - 1)) = IF 1 <= Len(s) - 1 THEN Len(s) - 1 - 1 + 1 ELSE 0
        /\ \A i \in 1 .. Len(s) - 1 - 1 + 1 : SubSeq(s, 1, Len(s) - 1)[i] = s[1 + i - 1]
    BY <1>1, SubSeqProperties
  <1>3. s = <<>> => SubSeq(s, 1, Len(s) - 1) = <<>>
    BY <1>2, EmptySeq
  <1>4. s # <<>> => Len(s) >= 1
    BY <1>1, EmptySeq
  <1>5. ASSUME s # <<>>
        PROVE  /\ Len(Popped(s)) = Len(s) - 1
               /\ \A i \in 1 .. Len(s) - 1 : Popped(s)[i] = s[i]
    <2> DEFINE n == Len(s)
    <2>1. n \in Nat /\ n >= 1
      BY <1>1, <1>4, <1>5
    <2>2. n - 1 - 1 + 1 = n - 1 /\ \A i \in 1 .. n - 1 : 1 + i - 1 = i
      BY <2>1
    <2>3. Len(Popped(s)) = IF 1 <= n - 1 THEN n - 1 ELSE 0
      BY <1>2, <2>2 DEF Popped
    <2>4. QED
      BY <1>2, <2>1, <2>2, <2>3 DEF Popped
  <1>6. CASE s = <<>>
    BY <1>1, <1>2, <1>3, <1>6, EmptySeq DEF Popped
  <1>7. QED
    BY <1>2, <1>5, <1>6 DEF Popped

(* What a step can be: a call that starts or is answered at once, one of   *)
(* the host's own steps, or the end of a call or of its hook.              *)
EntersRequire(p, t) ==
    /\ ~AlreadyRequired(p)
    /\ t = RequireTarget(p)
    /\ p \in Requests \/ Relatives # {}

Enters ==
    \E op \in {"require", "load", "eval"}, p \in Paths, t \in Paths,
       stage \in {"hook", "body"}, ctx \in Pushes :
        /\ Enter(op, p, t, stage, ctx)
        /\ op = "require" => EntersRequire(p, t)

(* To run a target is to enter a call, or to raise at once.                *)
LEMMA RunTargetCases ==
    ASSUME NEW op \in {"require", "load"}, NEW p \in Paths, NEW t \in Paths, NEW ctx \in Pushes,
           op = "require" => EntersRequire(p, t),
           RunTarget(op, p, t, ctx)
    PROVE  Enters \/ AnswerNow("raise")
  BY DEF RunTarget, Enters

(* require enters a call, or answers at once.                              *)
LEMMA RequireCases ==
    ASSUME NEW p \in Paths, p \in Requests \/ Relatives # {}, NEW ctx \in Pushes,
           RequireSource(p, ctx)
    PROVE  Enters \/ \E a \in Answers : AnswerNow(a)
  <1>1. RequireTarget(p) \in Paths
    BY RequireTargetType
  <1>2. CASE AlreadyRequired(p) /\ AnswerNow("false")
    BY <1>2 DEF Answers
  <1>3. CASE ~AlreadyRequired(p) /\ RunTarget("require", p, RequireTarget(p), ctx)
    BY <1>1, <1>3, RunTargetCases DEF EntersRequire, Answers
  <1>4. QED
    BY <1>2, <1>3 DEF RequireSource

(* The steps of the loader, by what they do to the calls.                  *)
LEMMA StepCases ==
    ASSUME TypeOK, Next
    PROVE  \/ Enters
           \/ \E a \in Answers : AnswerNow(a)
           \/ \E p \in Programs : calls = <<>> /\ FailToRead(p)
           \/ InlineEval
           \/ \E f \in Definitions : Define(f)
           \/ HookReturns
           \/ Raises
           \/ RequireReturns
           \/ LoadReturns
           \/ EvalReturns
  <1> DEFINE Goal == Enters \/ \E a \in Answers : AnswerNow(a)
  <1>0. \A p \in Paths : <<ResolvedName(p)>> \in Pushes
    BY NameTypes DEF Pushes
  <1>1. \A p \in Paths, ctx \in Pushes : LoadSource(p, ctx) => Goal
    BY RunTargetCases DEF LoadSource, Answers
  <1>2. \A a \in Answers : AnswerNow(a) => Goal
    OBVIOUS
  <1>3. "raise" \in Answers /\ <<>> \in Pushes
    BY DEF Answers, Pushes
  <1> HIDE DEF Goal
  <1>4. ASSUME NEW p \in Requests, KernelRequire(p)
        PROVE  Goal
    BY <1>0, <1>2, <1>3, <1>4, RequireCases DEF KernelRequire, Goal
  <1>5. ASSUME NEW p \in Requests, KernelLoad(p)
        PROVE  Goal
    BY <1>0, <1>1, <1>2, <1>3, <1>5 DEF KernelLoad
  <1>6. ASSUME NEW p \in Requests, HostRequire(p)
        PROVE  Goal
    BY <1>3, <1>6, RequireCases DEF HostRequire, Goal
  <1>7. ASSUME NEW p \in Requests, HostLoad(p)
        PROVE  Goal
    BY <1>1, <1>3, <1>7 DEF HostLoad
  <1>8. ASSUME NEW p \in Relatives, KernelRequireRelative(p)
        PROVE  Goal
    <2>1. CASE stack = <<>> /\ AnswerNow("raise")
      BY <1>2, <1>3, <2>1
    <2>2. CASE stack # <<>>
      <3> DEFINE q == JoinParent(stack[Len(stack)], p)
      <3>1. stack[Len(stack)] \in Paths
        BY <2>2, EmptySeq, ElementOfSeq DEF TypeOK, ParserTypeOK
      <3>2. q \in Paths
        BY <3>1, JoinParentType
      <3>3. \/ Resolves(q) /\ RequireSource(q, <<ResolvedName(q)>>)
            \/ ~Resolves(q) /\ AnswerNow("raise")
        BY <1>8, <2>2 DEF KernelRequireRelative
      <3> HIDE DEF q
      <3>4. QED
        BY <1>0, <1>2, <1>3, <3>2, <3>3, RequireCases DEF Goal
    <2>3. QED
      BY <1>8, <2>1, <2>2 DEF KernelRequireRelative
  <1>9. Eval => Goal
    BY <1>3 DEF Eval, Goal, Enters
  <1>10. ASSUME NEW p \in Programs, EvalFile(p)
         PROVE  Goal \/ (calls = <<>> /\ FailToRead(p))
    BY <1>10 DEF EvalFile, Goal, Enters, Pushes
  <1>11. QED
    BY <1>4, <1>5, <1>6, <1>7, <1>8, <1>9, <1>10 DEF Next, Goal

-----------------------------------------------------------------------------
(* Types.                                                                  *)

(* The innermost call is a call.                                           *)
LEMMA TopType ==
    ASSUME calls \in Seq(Calls), calls # <<>>
    PROVE  /\ Len(calls) \in Nat \ {0}
           /\ Top \in Calls
           /\ Top.path \in Paths /\ Top.target \in Paths
  <1>1. Len(calls) \in Nat \ {0} /\ Top \in Calls
    BY EmptySeq, ElementOfSeq DEF Top
  <1>2. QED
    BY <1>1 DEF Calls

(* Entering a call keeps the types.                                        *)
LEMMA EnterTypes ==
    ASSUME TypeOK,
           NEW op \in {"require", "load", "eval"}, NEW p \in Paths, NEW t \in Paths,
           NEW stage \in {"hook", "body"}, NEW ctx \in Pushes,
           Enter(op, p, t, stage, ctx)
    PROVE  TypeOK'
  <1>1. stack \in Seq(Paths) /\ Len(stack) \in Nat
    BY LenProperties DEF TypeOK, ParserTypeOK
  <1>2. ParserTypeOK'
    <2>1. CASE ctx = <<>>
      BY <2>1 DEF TypeOK, ParserTypeOK, Enter, parserVars
    <2>2. ASSUME NEW c \in Paths, ctx = <<c>>
          PROVE  ParserTypeOK'
      <3>1. PushContext(c)
        BY <2>2 DEF Enter
      <3>2. Append(stack, c) \in Seq(Paths)
        BY <1>1, AppendProperties
      <3>3. QED
        BY <3>1, <3>2 DEF TypeOK, ParserTypeOK, PushContext
    <2>3. QED
      BY <2>1, <2>2 DEF Pushes
  <1>3. [op |-> op, path |-> p, target |-> t, stage |-> stage, ctx |-> ctx,
         base |-> Len(stack), file |-> filename'] \in Calls
    BY <1>1, <1>2 DEF Calls, ParserTypeOK
  <1>4. calls' \in Seq(Calls)
    BY <1>3, AppendProperties DEF Enter, TypeOK
  <1>5. QED
    BY <1>2, <1>4 DEF Enter, TypeOK, LoadPathTypeOK, loadPathVars

(* A stack of filenames names one, and so does what a pop leaves.          *)
LEMMA FilenameOfType ==
    ASSUME NEW s \in Seq(Paths)
    PROVE  FilenameOf(s) \in Paths /\ FilenameOf(Popped(s)) \in Paths
  <1>1. ASSUME NEW r \in Seq(Paths)
        PROVE  FilenameOf(r) \in Paths
    BY <1>1, EmptySeq, ElementOfSeq DEF FilenameOf
  <1>2. QED
    BY <1>1, PoppedProperties

(* Leaving a call keeps the types of calls and contexts.                   *)
LEMMA UnwindTypes ==
    ASSUME TypeOK, Unwind
    PROVE  calls' \in Seq(Calls) /\ ParserTypeOK'
  <1>1. calls' \in Seq(Calls)
    BY PoppedProperties DEF TypeOK, Unwind
  <1>2. CASE UNCHANGED parserVars
    BY <1>1, <1>2 DEF TypeOK, ParserTypeOK, parserVars
  <1>3. CASE PopContext
    BY <1>1, <1>3, PoppedProperties, FilenameOfType DEF TypeOK, ParserTypeOK, PopContext
  <1>4. QED
    BY <1>2, <1>3 DEF Unwind

(* Every variable keeps its type through every step.                       *)
LEMMA TypeStep ==
    ASSUME TypeOK, [Next]_vars
    PROVE  TypeOK'
  <1>1. CASE Enters
    BY <1>1, EnterTypes DEF Enters
  <1>2. ASSUME NEW a \in Answers, AnswerNow(a)
        PROVE  TypeOK'
    BY <1>2 DEF AnswerNow, TypeOK, LoadPathTypeOK, ParserTypeOK, loadPathVars, parserVars
  <1>3. ASSUME NEW p \in Programs, FailToRead(p)
        PROVE  TypeOK'
    <2>1. ParserTypeOK'
      BY <1>3, AppendProperties DEF FailToRead, PushContext, TypeOK, ParserTypeOK
    <2>2. QED
      BY <1>3, <2>1 DEF FailToRead, TypeOK, LoadPathTypeOK, loadPathVars, Answers
  <1>4. CASE InlineEval
    <2>1. Popped(stack) \in Seq(Paths)
      BY PoppedProperties DEF TypeOK, ParserTypeOK
    <2>2. ParserTypeOK'
      BY <1>4, <2>1, AppendProperties DEF InlineEval, TypeOK, ParserTypeOK
    <2>3. Len(stack') \in Nat
      BY <2>2, LenProperties DEF ParserTypeOK
    <2>4. CASE UNCHANGED calls
      BY <1>4, <2>2, <2>4 DEF InlineEval, TypeOK, LoadPathTypeOK, loadPathVars
    <2>5. CASE ~UNCHANGED calls
      <3> DEFINE c == [op |-> "eval", path |-> InlineFilename, target |-> InlineFilename,
                       stage |-> "body", ctx |-> <<>>, base |-> Len(stack'),
                       file |-> InlineFilename]
      <3>1. c \in Calls
        BY <2>3 DEF Calls, Pushes
      <3>2. calls' = <<c>>
        BY <1>4, <2>5 DEF InlineEval
      <3>3. calls' \in Seq(Calls)
        BY <3>1, <3>2
      <3>4. QED
        BY <1>4, <2>2, <3>3 DEF InlineEval, TypeOK, LoadPathTypeOK, loadPathVars
    <2>6. QED
      BY <2>4, <2>5
  <1>5. ASSUME NEW f \in Definitions, Define(f)
        PROVE  TypeOK'
    <2>1. f \in Files
      BY LoadPathAssumption, FeatureLoaderAssumption DEF Files
    <2>2. LoadPathTypeOK'
      BY <1>5, <2>1 DEF Define, DefRbSourceFile, DefFileForType, TypeOK, LoadPathTypeOK, featureVars
    <2>3. QED
      BY <1>5, <2>2 DEF Define, TypeOK, ParserTypeOK, parserVars
  <1>6. CASE HookReturns
    <2>1. Len(calls) \in 1 .. Len(calls) /\ Top \in Calls
      BY <1>6, TopType DEF HookReturns, TypeOK
    <2>2. filename \in Paths
      BY DEF TypeOK, ParserTypeOK
    <2> DEFINE c == [Top EXCEPT !.stage = "body", !.file = filename]
    <2>3. c \in Calls
      BY <2>1, <2>2 DEF Calls
    <2>4. calls' = [calls EXCEPT ![Len(calls)] = c]
      BY <1>6, <2>1 DEF HookReturns, Top, TypeOK
    <2>5. calls' \in Seq(Calls)
      BY <2>1, <2>3, <2>4, ExceptSeq DEF TypeOK
    <2>6. QED
      BY <1>6, <2>5 DEF HookReturns, TypeOK, LoadPathTypeOK, ParserTypeOK, loadPathVars, parserVars
  <1>7. CASE Raises
    BY <1>7, UnwindTypes DEF Raises, TypeOK, LoadPathTypeOK, loadPathVars, Answers
  <1>8. CASE RequireReturns
    <2>1. Top.path \in Paths /\ Top.target \in Paths
      BY <1>8, TopType DEF RequireReturns, RubyRuns, TypeOK
    <2>2. LoadPathTypeOK'
      BY <1>8, <2>1, MarkRequiredTypes DEF RequireReturns, TypeOK
    <2>3. QED
      BY <1>8, <2>1, <2>2, UnwindTypes DEF RequireReturns, TypeOK, Answers
  <1>9. CASE LoadReturns
    BY <1>9, UnwindTypes DEF LoadReturns, TypeOK, LoadPathTypeOK, loadPathVars, Answers
  <1>10. CASE EvalReturns
    BY <1>10, UnwindTypes DEF EvalReturns, TypeOK, LoadPathTypeOK, loadPathVars
  <1>11. CASE UNCHANGED vars
    BY <1>11 DEF vars, TypeOK, LoadPathTypeOK, ParserTypeOK, loadPathVars, parserVars
  <1>12. QED
    BY <1>1, <1>2, <1>3, <1>4, <1>5, <1>6, <1>7, <1>8, <1>9, <1>10, <1>11, StepCases

(* The type invariant of the loaders, the context stack and the calls.     *)
THEOREM TypeCorrect == Spec => []TypeOK
  <1>1. Init => TypeOK
    <2>1. Init => LoadPathTypeOK
      BY DEF Init, LoadPathInit, LoadPathTypeOK, Files, Exts
    <2>2. Init => ParserTypeOK
      BY EmptySeq DEF Init, ParserInit, ParserTypeOK
    <2>3. QED
      BY <2>1, <2>2, EmptySeq DEF Init, TypeOK, Answers
  <1>2. QED
    BY <1>1, TypeStep, PTL DEF Spec

-----------------------------------------------------------------------------
(* Required features stay required.                                        *)

(* The name that require falls back to has the rb extension.               *)
FallsBackToRb(c) ==
    /\ c.target \in {c.path, WithRb(c.path)}
    /\ c.target # c.path => ~HasRb(c.path)

(* The invariant that makes RequiredStaysRequired inductive: each Success  *)
(* has left a mark at the path that was read, which is the path requested  *)
(* or its fallback.                                                        *)
MarksInv ==
    /\ \A i \in DOMAIN calls : calls[i].op = "require" => FallsBackToRb(calls[i])
    /\ \A d \in done : FallsBackToRb(d) /\ (Markable(d.path) => IsRequired(d.target))

(* The inductive invariant gives RequiredStaysRequired.                    *)
LEMMA MarksInvImplies == TypeOK /\ MarksInv => RequiredStaysRequired
  <1> SUFFICES ASSUME TypeOK, MarksInv, NEW d \in done, Markable(d.path)
               PROVE  \/ AlreadyRequired(d.path)
                      \/ HasHook(d.path) /\ d.target # d.path
    BY DEF RequiredStaysRequired
  <1>1. FallsBackToRb(d) /\ IsRequired(d.target)
    BY DEF MarksInv
  <1>2. CASE d.target = d.path
    BY <1>1, <1>2 DEF AlreadyRequired
  <1>3. CASE d.target # d.path
    BY <1>1, <1>3 DEF AlreadyRequired, FallsBackToRb
  <1>4. QED
    BY <1>2, <1>3

(* A step that leaves the marks and the history alone, and whose calls are *)
(* those that were there or fit.                                           *)
LEMMA MarksKept ==
    ASSUME MarksInv, UNCHANGED <<disk, featureVars, done>>,
           \A i \in DOMAIN calls' : calls'[i].op = "require" => FallsBackToRb(calls'[i])
    PROVE  MarksInv'
  <1>1. FeaturesGrow
    BY DEF FeaturesGrow, featureVars
  <1>2. ASSUME NEW d \in done
        PROVE  Markable(d.path) => IsRequired(d.target)'
    BY <1>1, MarkStaysFound DEF MarksInv
  <1>3. QED
    BY <1>2 DEF MarksInv, FallsBackToRb, HasRb, WithRb, Markable

(* Leaving the innermost call keeps the others.                            *)
LEMMA UnwindKeepsCalls ==
    ASSUME TypeOK, calls # <<>>, Unwind
    PROVE  /\ Len(calls') = Len(calls) - 1
           /\ Len(calls) \in Nat \ {0}
           /\ DOMAIN calls = 1 .. Len(calls)
           /\ DOMAIN calls' = 1 .. Len(calls) - 1
           /\ \A i \in DOMAIN calls' : i \in DOMAIN calls /\ calls'[i] = calls[i]
  <1>1. calls' \in Seq(Calls)
    BY UnwindTypes
  <1>2. Len(calls') = Len(calls) - 1 /\ \A i \in 1 .. Len(calls) - 1 : calls'[i] = calls[i]
    BY PoppedProperties DEF TypeOK, Unwind
  <1>3. Len(calls) \in Nat \ {0} /\ DOMAIN calls = 1 .. Len(calls)
    BY EmptySeq, LenProperties DEF TypeOK
  <1>4. DOMAIN calls' = 1 .. Len(calls) - 1
    BY <1>1, <1>2, LenProperties
  <1>5. QED
    BY <1>2, <1>3, <1>4

(* Each step keeps MarksInv.                                               *)
LEMMA MarksStep ==
    ASSUME TypeOK, MarksInv, [Next]_vars
    PROVE  MarksInv'
  <1> DEFINE Fit(s) == \A i \in DOMAIN s : s[i].op = "require" => FallsBackToRb(s[i])
  <1>0. Fit(calls)
    BY DEF MarksInv
  <1>a. calls \in Seq(Calls) /\ DOMAIN calls = 1 .. Len(calls) /\ Len(calls) \in Nat
    BY LenProperties DEF TypeOK
  <1>b. ASSUME calls # <<>>, Unwind
        PROVE  Fit(calls')
    BY <1>0, <1>b, UnwindKeepsCalls
  <1>1. ASSUME NEW op \in {"require", "load", "eval"}, NEW p \in Paths, NEW t \in Paths,
               NEW stage \in {"hook", "body"}, NEW ctx \in Pushes,
               Enter(op, p, t, stage, ctx), op = "require" => EntersRequire(p, t)
        PROVE  MarksInv'
    <2> DEFINE c == [op |-> op, path |-> p, target |-> t, stage |-> stage, ctx |-> ctx,
                     base |-> Len(stack), file |-> filename']
    <2>1. op = "require" => FallsBackToRb(c)
      BY <1>1, RequireTargetType DEF EntersRequire, FallsBackToRb
    <2>2. calls' = Append(calls, c) /\ calls' \in Seq(Calls)
      BY <1>1, EnterTypes DEF Enter, TypeOK
    <2>3. c \in Calls
      <3>1. TypeOK'
        BY <1>1, EnterTypes
      <3>2. filename' \in Paths /\ Len(stack) \in Nat
        BY <3>1, LenProperties DEF TypeOK, ParserTypeOK
      <3>3. QED
        BY <3>2 DEF Calls
    <2>4. /\ DOMAIN calls' = 1 .. Len(calls) + 1
          /\ calls'[Len(calls) + 1] = c
          /\ \A i \in 1 .. Len(calls) : calls'[i] = calls[i]
      BY <1>a, <2>2, <2>3, AppendProperties, LenProperties
    <2>5. ASSUME NEW i \in DOMAIN calls', calls'[i].op = "require"
          PROVE  FallsBackToRb(calls'[i])
      <3>1. CASE i = Len(calls) + 1
        BY <2>1, <2>4, <2>5, <3>1
      <3>2. CASE i \in 1 .. Len(calls)
        BY <1>0, <1>a, <2>4, <2>5, <3>2
      <3>3. QED
        BY <1>a, <2>4, <3>1, <3>2
    <2>6. QED
      BY <1>1, <2>5, MarksKept DEF Enter, loadPathVars, featureVars
  <1>2. ASSUME UNCHANGED calls, UNCHANGED <<disk, featureVars, done>>
        PROVE  MarksInv'
    BY <1>0, <1>2, MarksKept
  <1>3. CASE InlineEval
    <2>1. UNCHANGED calls \/ calls' = <<[op |-> "eval", path |-> InlineFilename,
              target |-> InlineFilename, stage |-> "body", ctx |-> <<>>,
              base |-> Len(stack'), file |-> InlineFilename]>>
      BY <1>3 DEF InlineEval
    <2>2. Fit(calls')
      BY <1>0, <2>1
    <2>3. QED
      BY <1>3, <2>2, MarksKept DEF InlineEval, loadPathVars, featureVars
  <1>4. ASSUME NEW f \in Definitions, Define(f)
        PROVE  MarksInv'
    BY <1>2, <1>4 DEF Define, DefRbSourceFile, DefFileForType, featureVars
  <1>5. CASE HookReturns
    <2>1. Len(calls) \in 1 .. Len(calls) /\ Top \in Calls
      BY <1>5, TopType DEF HookReturns, TypeOK
    <2>2. DOMAIN calls' = DOMAIN calls
      BY <1>5 DEF HookReturns
    <2>3. \A i \in DOMAIN calls : /\ calls'[i].op = calls[i].op
                                  /\ calls'[i].path = calls[i].path
                                  /\ calls'[i].target = calls[i].target
      <3>1. calls' = [calls EXCEPT ![Len(calls)] =
                         [Top EXCEPT !.stage = "body", !.file = filename]]
        BY <1>5, <2>1 DEF HookReturns, Top, TypeOK
      <3>2. \A i \in DOMAIN calls : calls'[i] = IF i = Len(calls)
                         THEN [Top EXCEPT !.stage = "body", !.file = filename] ELSE calls[i]
        BY <3>1
      <3>3. Top = calls[Len(calls)]
        BY DEF Top
      <3>4. LET c == [Top EXCEPT !.stage = "body", !.file = filename] IN
            c.op = Top.op /\ c.path = Top.path /\ c.target = Top.target
        BY <2>1 DEF Calls
      <3>5. QED
        BY <3>2, <3>3, <3>4
    <2>4. Fit(calls')
      BY <1>0, <2>2, <2>3 DEF FallsBackToRb
    <2>5. QED
      BY <1>5, <2>4, MarksKept DEF HookReturns, loadPathVars, featureVars
  <1>6. CASE (Raises \/ LoadReturns \/ EvalReturns) /\ calls # <<>>
    BY <1>6, <1>b, MarksKept
       DEF Raises, LoadReturns, EvalReturns, loadPathVars, featureVars
  <1>7. CASE RequireReturns
    <2> DEFINE new == [path |-> Top.path, target |-> Top.target]
    <2>1. /\ calls # <<>> /\ Unwind /\ Top.op = "require"
          /\ MarkRequired(Top.target) /\ UNCHANGED disk
          /\ done' = done \cup {new}
      BY <1>7 DEF RequireReturns, RubyRuns
    <2>2. Top.path \in Paths /\ Top.target \in Paths /\ FallsBackToRb(Top)
      BY <1>0, <1>a, <2>1, TopType DEF Top
    <2>3. FeaturesGrow
      BY <2>1, MarkRequiredGrows
    <2>4. ASSUME NEW d \in done
          PROVE  FallsBackToRb(d) /\ (Markable(d.path) => IsRequired(d.target)')
      BY <2>3, MarkStaysFound DEF MarksInv
    <2>5. ASSUME NEW d, d = new
          PROVE  FallsBackToRb(d) /\ (Markable(d.path) => IsRequired(d.target)')
      <3>1. d.path = Top.path /\ d.target = Top.target
        BY <2>5
      <3>2. FallsBackToRb(d) /\ d.path \in Paths /\ d.target \in Paths
        BY <2>2, <3>1 DEF FallsBackToRb
      <3>3. Markable(d.path) => Markable(d.target)
        BY <3>2, PathTypes DEF FallsBackToRb, Markable
      <3>4. MarkRequired(d.target) /\ UNCHANGED disk
        BY <2>1, <3>1
      <3>5. QED
        BY <3>2, <3>3, <3>4, MarkIsFound
    <2>6. Fit(calls')
      BY <1>b, <2>1
    <2>7. QED
      BY <2>1, <2>4, <2>5, <2>6 DEF MarksInv, FallsBackToRb, HasRb, WithRb, Markable
  <1>8. CASE UNCHANGED vars
    BY <1>2, <1>8 DEF vars, loadPathVars, featureVars
  <1>9. CASE \E a \in Answers : AnswerNow(a)
    BY <1>2, <1>9 DEF AnswerNow, loadPathVars, featureVars
  <1>10. CASE \E p \in Programs : FailToRead(p)
    BY <1>2, <1>10 DEF FailToRead, loadPathVars, featureVars
  <1>11. CASE Enters
    BY <1>1, <1>11 DEF Enters
  <1>12. (Raises \/ LoadReturns \/ EvalReturns) => calls # <<>>
    BY DEF Raises, LoadReturns, EvalReturns, RubyRuns
  <1>13. QED
    BY <1>3, <1>4, <1>5, <1>6, <1>7, <1>8, <1>9, <1>10, <1>11, <1>12, StepCases

(* require is idempotent for good: after any nesting of requires, loads,   *)
(* evals, failures and definitions, through any of the loaders, a path that*)
(* has been required with success is answered false.                       *)
THEOREM RequiredStays == Spec => []RequiredStaysRequired
  <1>1. Init => MarksInv
    BY DEF Init, MarksInv
  <1>2. TypeOK /\ TypeOK' /\ MarksInv /\ [Next]_vars => MarksInv'
    BY MarksStep
  <1>3. TypeOK /\ MarksInv => RequiredStaysRequired
    BY MarksInvImplies
  <1>4. QED
    BY <1>1, <1>2, <1>3, TypeCorrect, PTL DEF Spec

-----------------------------------------------------------------------------
(* A mark is the trace of a Success.                                       *)

(* Each step keeps MarkedWasEvaluated: only RequireReturns marks, and it   *)
(* answers Success.                                                        *)
LEMMA MarkedStep ==
    ASSUME TypeOK, MarkedWasEvaluated, [Next]_vars
    PROVE  MarkedWasEvaluated'
  <1>1. ASSUME UNCHANGED <<disk, featureVars, done>>
        PROVE  MarkedWasEvaluated'
    BY <1>1 DEF MarkedWasEvaluated, LibHandles, LibHits, LibFile, Exists, featureVars
  <1>2. CASE RequireReturns
    <2> DEFINE new == [path |-> Top.path, target |-> Top.target]
    <2>1. MarkRequired(Top.target) /\ UNCHANGED disk /\ done' = done \cup {new}
      BY <1>2 DEF RequireReturns
    <2>2. PICK t : t = Top.target
      OBVIOUS
    <2>3. \E d \in done' : d.target = t
      <3>1. new \in done' /\ new.target = t
        BY <2>1, <2>2
      <3> HIDE DEF new
      <3>2. QED
        BY <3>1
    <2>4. \A q : LibHandles(q)' = LibHandles(q)
      BY <2>1 DEF LibHandles, LibHits, LibFile, Exists
    <2>5. /\ memFeatures' = memFeatures \/ (InMemory(t) /\ memFeatures' = memFeatures \cup {MemFile(t)})
          /\ natFeatures' = natFeatures \/ natFeatures' = natFeatures \cup {NatFile(t)}
          /\ libFeatures' = libFeatures \/ libFeatures' = libFeatures \cup LibHandles(t)
      BY <2>1, <2>2 DEF MarkRequired, MarkInRubylib, MarkInMemory, MarkInNative
    <2>6. done \subseteq done'
      BY <2>1
    <2> HIDE DEF new
    <2>7. /\ \A f \in memFeatures' : \E d \in done' : InMemory(d.target) /\ MemFile(d.target) = f
          /\ \A f \in natFeatures' : \E d \in done' : NatFile(d.target) = f
          /\ \A f \in libFeatures' : \E d \in done' : f \in LibHandles(d.target)
      BY <2>3, <2>5, <2>6 DEF MarkedWasEvaluated
    <2>8. QED
      BY <2>4, <2>7 DEF MarkedWasEvaluated, InMemory, MemFile, NatFile, At
  <1>3. CASE \E a \in Answers : AnswerNow(a)
    BY <1>1, <1>3 DEF AnswerNow, loadPathVars, featureVars
  <1>4. CASE \E p \in Programs : FailToRead(p)
    BY <1>1, <1>4 DEF FailToRead, loadPathVars, featureVars
  <1>5. CASE Enters
    BY <1>1, <1>5 DEF Enters, Enter, loadPathVars, featureVars
  <1>6. CASE \E f \in Definitions : Define(f)
    BY <1>1, <1>6 DEF Define, DefRbSourceFile, DefFileForType, featureVars
  <1>7. CASE InlineEval \/ HookReturns \/ Raises \/ LoadReturns \/ EvalReturns
    BY <1>1, <1>7 DEF InlineEval, HookReturns, Raises, LoadReturns, EvalReturns,
                      loadPathVars, featureVars
  <1>8. CASE UNCHANGED vars
    BY <1>1, <1>8 DEF vars, loadPathVars, featureVars
  <1>9. QED
    BY <1>2, <1>3, <1>4, <1>5, <1>6, <1>7, <1>8, StepCases

(* No loader calls a feature loaded that was not evaluated to its end by a *)
(* require.                                                                *)
THEOREM MarksAreEarned == Spec => []MarkedWasEvaluated
  <1>1. Init => MarkedWasEvaluated
    BY DEF Init, LoadPathInit, MarkedWasEvaluated
  <1>2. QED
    BY <1>1, MarkedStep, TypeCorrect, PTL DEF Spec

-----------------------------------------------------------------------------
(* A stack of calls framed by a stack of contexts.                         *)

HIDE LoadPathAssumption
HIDE ParserContextAssumption
HIDE FeatureLoaderAssumption

FilenameAt(st, n) == IF n = 0 THEN TopFilename ELSE st[n]

(* Each call has its context at its height, which is where the next call   *)
(* starts and is not above where any later one starts; a running source    *)
(* was parsed under the filename that is there.                            *)
Framed(cs, st) ==
    \A i \in 1 .. Len(cs) :
        /\ cs[i].ctx # <<>> => st[Height(cs[i])] = cs[i].ctx[1]
        /\ Height(cs[i]) = IF i = Len(cs) THEN Len(st) ELSE cs[i + 1].base
        /\ Height(cs[i]) <= Len(st)
        /\ \A j \in i + 1 .. Len(cs) : Height(cs[i]) <= cs[j].base
        /\ cs[i].stage = "body" => cs[i].file = FilenameAt(st, Height(cs[i]))

(* The height of the stack while a call runs.                              *)
LEMMA CallHeight ==
    ASSUME NEW c \in Calls
    PROVE  /\ c.base \in Nat /\ Height(c) \in Nat
           /\ c.ctx = <<>> => Height(c) = c.base
           /\ c.ctx # <<>> => Height(c) = c.base + 1
  <1>1. c.base \in Nat /\ c.ctx \in Pushes
    BY DEF Calls
  <1>2. CASE c.ctx = <<>>
    BY <1>1, <1>2 DEF Height
  <1>3. ASSUME NEW x \in Paths, c.ctx = <<x>>
        PROVE  Len(c.ctx) = 1 /\ c.ctx # <<>>
    BY <1>3
  <1>4. c.ctx = <<>> \/ \E x \in Paths : c.ctx = <<x>>
    BY <1>1 DEF Pushes
  <1>5. c.ctx # <<>> => Height(c) = c.base + 1
    BY <1>3, <1>4 DEF Height
  <1>6. QED
    BY <1>1, <1>2, <1>5

(* A call that starts frames itself and leaves the others framed.          *)
LEMMA FramedPush ==
    ASSUME NEW cs \in Seq(Calls), NEW st \in Seq(Paths), Framed(cs, st),
           NEW c \in Calls, NEW st2 \in Seq(Paths),
           c.base = Len(st), Height(c) = Len(st2), Len(st) <= Len(st2),
           \A n \in 1 .. Len(st) : st2[n] = st[n],
           c.ctx # <<>> => st2[Height(c)] = c.ctx[1],
           c.stage = "body" => c.file = FilenameAt(st2, Height(c))
    PROVE  Framed(Append(cs, c), st2)
  <1> DEFINE ds == Append(cs, c)
             m == Len(cs)
  <1>1. /\ m \in Nat /\ Len(st) \in Nat /\ Len(st2) \in Nat
        /\ Len(ds) = m + 1
        /\ ds[m + 1] = c
        /\ \A i \in 1 .. m : ds[i] = cs[i] /\ cs[i] \in Calls
    BY AppendProperties, LenProperties, ElementOfSeq
  <1> SUFFICES ASSUME NEW i \in 1 .. Len(ds)
               PROVE  /\ ds[i].ctx # <<>> => st2[Height(ds[i])] = ds[i].ctx[1]
                      /\ Height(ds[i]) = IF i = Len(ds) THEN Len(st2) ELSE ds[i + 1].base
                      /\ Height(ds[i]) <= Len(st2)
                      /\ \A j \in i + 1 .. Len(ds) : Height(ds[i]) <= ds[j].base
                      /\ ds[i].stage = "body" => ds[i].file = FilenameAt(st2, Height(ds[i]))
    BY DEF Framed
  <1> HIDE DEF ds
  <1>2. CASE i = m + 1
    BY <1>1, <1>2
  <1>3. CASE i \in 1 .. m
    <2> DEFINE e == cs[i]
    <2>1. e \in Calls /\ ds[i] = e
      BY <1>1, <1>3
    <2>2. /\ e.ctx # <<>> => st[Height(e)] = e.ctx[1]
          /\ Height(e) = IF i = m THEN Len(st) ELSE cs[i + 1].base
          /\ Height(e) <= Len(st)
          /\ \A j \in i + 1 .. m : Height(e) <= cs[j].base
          /\ e.stage = "body" => e.file = FilenameAt(st, Height(e))
      BY <1>3 DEF Framed
    <2>3. /\ Height(e) \in Nat
          /\ e.ctx # <<>> => Height(e) \in 1 .. Len(st)
          /\ Height(e) # 0 => Height(e) \in 1 .. Len(st)
      <3>1. /\ e.base \in Nat /\ Height(e) \in Nat
            /\ e.ctx # <<>> => Height(e) = e.base + 1
        BY <2>1, CallHeight
      <3>2. Height(e) <= Len(st)
        BY <2>2
      <3> HIDE DEF e
      <3>3. QED
        BY <1>1, <3>1, <3>2
    <2> HIDE DEF e
    <2>4. Height(e) = ds[i + 1].base
      <3>1. CASE i = m
        BY <1>1, <2>2, <3>1
      <3>2. CASE i # m
        <4>1. i + 1 \in 1 .. m
          BY <1>1, <1>3, <3>2
        <4>2. QED
          BY <1>1, <2>2, <3>2, <4>1
      <3>3. QED
        BY <3>1, <3>2
    <2>5. ASSUME NEW j \in i + 1 .. m + 1
          PROVE  Height(e) <= ds[j].base
      <3>1. CASE j = m + 1
        BY <1>1, <2>2, <3>1
      <3>2. CASE j # m + 1
        <4>1. j \in i + 1 .. m /\ j \in 1 .. m
          BY <1>1, <1>3, <3>2
        <4>2. QED
          BY <1>1, <2>2, <4>1
      <3>3. QED
        BY <3>1, <3>2
    <2>6. /\ e.ctx # <<>> => st2[Height(e)] = e.ctx[1]
          /\ e.stage = "body" => e.file = FilenameAt(st2, Height(e))
      BY <2>2, <2>3 DEF FilenameAt
    <2>7. i # Len(ds) /\ Height(e) <= Len(st2)
      BY <1>1, <1>3, <2>2, <2>3
    <2>8. QED
      BY <1>1, <2>1, <2>4, <2>5, <2>6, <2>7
  <1>4. QED
    BY <1>1, <1>2, <1>3

(* The innermost call leaves the others framed by the stack it found.      *)
LEMMA FramedPop ==
    ASSUME NEW cs \in Seq(Calls), cs # <<>>, NEW st \in Seq(Paths), Framed(cs, st),
           NEW st2 \in Seq(Paths), Len(st2) = cs[Len(cs)].base,
           \A n \in 1 .. Len(st2) : st2[n] = st[n]
    PROVE  Framed(Popped(cs), st2)
  <1> DEFINE ds == Popped(cs)
             m == Len(cs)
  <1>1. /\ m \in Nat \ {0} /\ Len(st2) \in Nat
        /\ Len(ds) = m - 1
        /\ \A i \in 1 .. m - 1 : ds[i] = cs[i] /\ cs[i] \in Calls
    BY PoppedProperties, EmptySeq, LenProperties, ElementOfSeq
  <1> SUFFICES ASSUME NEW i \in 1 .. m - 1
               PROVE  /\ ds[i].ctx # <<>> => st2[Height(ds[i])] = ds[i].ctx[1]
                      /\ Height(ds[i]) = IF i = m - 1 THEN Len(st2) ELSE ds[i + 1].base
                      /\ Height(ds[i]) <= Len(st2)
                      /\ \A j \in i + 1 .. m - 1 : Height(ds[i]) <= ds[j].base
                      /\ ds[i].stage = "body" => ds[i].file = FilenameAt(st2, Height(ds[i]))
    BY <1>1 DEF Framed
  <1> HIDE DEF ds
  <1> DEFINE e == cs[i]
  <1>2. e \in Calls /\ ds[i] = e /\ i \in 1 .. m /\ i # m /\ m \in i + 1 .. m
    BY <1>1
  <1>3. /\ e.ctx # <<>> => st[Height(e)] = e.ctx[1]
        /\ Height(e) = cs[i + 1].base
        /\ \A j \in i + 1 .. m : Height(e) <= cs[j].base
        /\ e.stage = "body" => e.file = FilenameAt(st, Height(e))
    BY <1>2 DEF Framed
  <1>4. /\ e.base \in Nat /\ Height(e) \in Nat
        /\ e.ctx # <<>> => Height(e) = e.base + 1
    BY <1>2, CallHeight
  <1> HIDE DEF e
  <1>5. /\ Height(e) <= Len(st2)
        /\ e.ctx # <<>> => Height(e) \in 1 .. Len(st2)
        /\ Height(e) # 0 => Height(e) \in 1 .. Len(st2)
    <2>1. Height(e) <= Len(st2)
      BY <1>2, <1>3
    <2>2. QED
      BY <1>1, <1>4, <2>1
  <1>6. Height(e) = IF i = m - 1 THEN Len(st2) ELSE ds[i + 1].base
    <2>1. CASE i = m - 1
      BY <1>1, <1>3, <2>1
    <2>2. CASE i # m - 1
      <3>1. i + 1 \in 1 .. m - 1
        BY <1>1, <2>2
      <3>2. QED
        BY <1>1, <1>3, <2>2, <3>1
    <2>3. QED
      BY <2>1, <2>2
  <1>7. ASSUME NEW j \in i + 1 .. m - 1
        PROVE  Height(e) <= ds[j].base
    <2>1. j \in 1 .. m - 1 /\ j \in i + 1 .. m
      BY <1>1
    <2>2. QED
      BY <1>1, <1>3, <2>1
  <1>8. /\ e.ctx # <<>> => st2[Height(e)] = e.ctx[1]
        /\ e.stage = "body" => e.file = FilenameAt(st2, Height(e))
    BY <1>3, <1>5 DEF FilenameAt
  <1>9. QED
    BY <1>2, <1>5, <1>6, <1>7, <1>8

-----------------------------------------------------------------------------
(* The invariant.                                                          *)

USE ParserContextAssumption, FeatureLoaderAssumption

ContextInv == FilenameIsTop /\ Framed(calls, stack)

(* The inductive invariant gives both properties of contexts.              *)
LEMMA ContextInvImplies == TypeOK /\ ContextInv => ContextsBalanced /\ RunsInOwnContext
  <1> SUFFICES ASSUME TypeOK, ContextInv
               PROVE  ContextsBalanced /\ RunsInOwnContext
    OBVIOUS
  <1>1. DOMAIN calls = 1 .. Len(calls) /\ Len(calls) \in Nat /\ Len(stack) \in Nat
    BY LenProperties DEF TypeOK, ParserTypeOK
  <1>2. ContextsBalanced
    <2> SUFFICES ASSUME NEW i \in DOMAIN calls
                 PROVE  /\ calls[i].ctx # <<>> => /\ Height(calls[i]) \in DOMAIN stack
                                                  /\ stack[Height(calls[i])] = calls[i].ctx[1]
                        /\ Height(calls[i]) = IF i = Len(calls) THEN Len(stack) ELSE calls[i + 1].base
      BY DEF ContextsBalanced
    <2>1. calls[i] \in Calls
      BY <1>1, ElementOfSeq DEF TypeOK
    <2>2. Height(calls[i]) <= Len(stack)
      BY <1>1 DEF ContextInv, Framed
    <2>3. DOMAIN stack = 1 .. Len(stack)
      BY LenProperties DEF TypeOK, ParserTypeOK
    <2>4. calls[i].base \in Nat /\ (calls[i].ctx # <<>> => Height(calls[i]) = calls[i].base + 1)
      BY <2>1, CallHeight
    <2>5. calls[i].ctx # <<>> => Height(calls[i]) \in DOMAIN stack
      BY <1>1, <2>2, <2>3, <2>4
    <2>6. QED
      BY <1>1, <2>5 DEF ContextInv, Framed
  <1>3. ASSUME RubyRuns
        PROVE  /\ Top.file = filename
               /\ Top.ctx # <<>> => filename = Top.ctx[1]
    <2>1. calls # <<>> /\ Top.stage = "body" /\ Top \in Calls /\ Len(calls) \in 1 .. Len(calls)
      BY <1>3, TopType DEF RubyRuns, TypeOK
    <2>2. /\ Height(Top) = Len(stack)
          /\ Top.file = FilenameAt(stack, Height(Top))
          /\ Top.ctx # <<>> => stack[Height(Top)] = Top.ctx[1]
      BY <2>1 DEF ContextInv, Framed, Top
    <2>3. stack = <<>> <=> Len(stack) = 0
      BY EmptySeq DEF TypeOK, ParserTypeOK
    <2>4. FilenameAt(stack, Len(stack)) = filename
      BY <2>3 DEF ContextInv, FilenameIsTop, FilenameOf, FilenameAt
    <2>5. Top.ctx # <<>> => Len(stack) # 0
      BY <2>1, <2>2, CallHeight
    <2>6. QED
      BY <2>2, <2>3, <2>4, <2>5 DEF ContextInv, FilenameIsTop, FilenameOf
  <1>4. QED
    BY <1>2, <1>3 DEF RunsInOwnContext

(* Leaving a call pops what it pushed, and nothing else.                   *)
LEMMA UnwindKeepsContexts ==
    ASSUME TypeOK, ContextInv, calls # <<>>, Unwind
    PROVE  ContextInv'
  <1>1. calls' = Popped(calls) /\ stack \in Seq(Paths) /\ Len(stack) \in Nat
    BY LenProperties DEF Unwind, TypeOK, ParserTypeOK
  <1>2. Top \in Calls /\ Len(calls) \in 1 .. Len(calls)
    BY TopType DEF TypeOK
  <1>3. Height(Top) = Len(stack)
    BY <1>2 DEF ContextInv, Framed, Top
  <1>4. CASE Top.ctx = <<>>
    <2>1. UNCHANGED <<stack, filename>> /\ Len(stack) = Top.base
      BY <1>2, <1>3, <1>4, CallHeight DEF Unwind, parserVars
    <2>2. Framed(Popped(calls), stack)
      BY <1>1, <2>1, FramedPop DEF ContextInv, Top, TypeOK
    <2>3. QED
      BY <1>1, <2>1, <2>2 DEF ContextInv, FilenameIsTop
  <1>5. CASE Top.ctx # <<>>
    <2>1. stack' = Popped(stack) /\ filename' = FilenameOf(stack')
      BY <1>5 DEF Unwind, PopContext
    <2>2. Len(stack) - 1 = Top.base /\ Top.base \in Nat
      BY <1>1, <1>2, <1>3, <1>5, CallHeight
    <2>3. stack # <<>>
      BY <2>2, EmptySeq
    <2>4. /\ stack' \in Seq(Paths)
          /\ Len(stack') = Top.base
          /\ \A n \in 1 .. Len(stack') : stack'[n] = stack[n]
      BY <1>1, <2>1, <2>2, <2>3, PoppedProperties
    <2>5. Framed(Popped(calls), stack')
      BY <1>1, <2>4, FramedPop DEF ContextInv, Top, TypeOK
    <2>6. QED
      BY <1>1, <2>1, <2>5 DEF ContextInv, FilenameIsTop
  <1>6. QED
    BY <1>4, <1>5

(* Entering a call pushes on top of the contexts of all others.            *)
LEMMA EnterKeepsContexts ==
    ASSUME TypeOK, ContextInv,
           NEW op \in {"require", "load", "eval"}, NEW p \in Paths, NEW t \in Paths,
           NEW stage \in {"hook", "body"}, NEW ctx \in Pushes,
           Enter(op, p, t, stage, ctx)
    PROVE  ContextInv'
  <1> DEFINE c == [op |-> op, path |-> p, target |-> t, stage |-> stage, ctx |-> ctx,
                   base |-> Len(stack), file |-> filename']
  <1>1. TypeOK' /\ stack \in Seq(Paths) /\ Len(stack) \in Nat
    BY EnterTypes, LenProperties DEF TypeOK, ParserTypeOK
  <1>2. stack' \in Seq(Paths) /\ filename' \in Paths
    BY <1>1 DEF TypeOK, ParserTypeOK
  <1>3. c \in Calls /\ c.ctx = ctx /\ c.base = Len(stack) /\ c.file = filename'
    BY <1>1, <1>2 DEF Calls
  <1>4. calls' = Append(calls, c)
    BY DEF Enter
  <1>5. /\ FilenameIsTop'
        /\ Height(c) = Len(stack')
        /\ Len(stack) <= Len(stack')
        /\ \A n \in 1 .. Len(stack) : stack'[n] = stack[n]
        /\ ctx # <<>> => stack'[Len(stack')] = ctx[1]
    <2>1. CASE ctx = <<>>
      BY <1>1, <1>3, <2>1, CallHeight DEF Enter, parserVars, ContextInv, FilenameIsTop
    <2>2. ASSUME NEW x \in Paths, ctx = <<x>>
          PROVE  /\ FilenameIsTop'
                 /\ Height(c) = Len(stack')
                 /\ Len(stack) <= Len(stack')
                 /\ \A n \in 1 .. Len(stack) : stack'[n] = stack[n]
                 /\ ctx # <<>> => stack'[Len(stack')] = ctx[1]
      <3>1. stack' = Append(stack, x) /\ filename' = x /\ ctx # <<>> /\ ctx[1] = x
        BY <2>2 DEF Enter, PushContext
      <3>2. /\ Len(stack') = Len(stack) + 1
            /\ stack' # <<>>
            /\ stack'[Len(stack) + 1] = x
            /\ \A n \in 1 .. Len(stack) : stack'[n] = stack[n]
        BY <1>1, <3>1, AppendProperties
      <3>3. Height(c) = Len(stack) + 1
        BY <1>3, <3>1, CallHeight
      <3> HIDE DEF c
      <3>4. QED
        BY <1>1, <3>1, <3>2, <3>3 DEF FilenameIsTop, FilenameOf
    <2>3. QED
      BY <2>1, <2>2 DEF Pushes
  <1>6. filename' = FilenameAt(stack', Len(stack'))
    <2>1. stack' = <<>> <=> Len(stack') = 0
      BY <1>2, EmptySeq
    <2>2. QED
      BY <1>5, <2>1 DEF FilenameIsTop, FilenameOf, FilenameAt
  <1> HIDE DEF c
  <1>7. Framed(Append(calls, c), stack')
    BY <1>1, <1>2, <1>3, <1>5, <1>6, FramedPush DEF ContextInv, TypeOK
  <1>8. QED
    BY <1>4, <1>5, <1>7 DEF ContextInv

(* Each step keeps ContextInv.                                             *)
LEMMA ContextStep ==
    ASSUME TypeOK, TypeOK', ContextInv, [Next]_vars
    PROVE  ContextInv'
  <1>1. CASE UNCHANGED <<stack, filename, calls>>
    BY <1>1 DEF ContextInv, FilenameIsTop
  <1>2. CASE Enters
    BY <1>2, EnterKeepsContexts DEF Enters
  <1>3. ASSUME NEW p \in Programs, calls = <<>>, FailToRead(p)
        PROVE  ContextInv'
    <2>1. stack' = Append(stack, p) /\ filename' = p /\ calls' = <<>>
      BY <1>3 DEF FailToRead, PushContext
    <2>2. stack' # <<>> /\ stack'[Len(stack')] = p
      <3>1. stack \in Seq(Paths) /\ p \in Paths
        BY DEF TypeOK, ParserTypeOK
      <3>2. QED
        BY <2>1, <3>1, AppendProperties, LenProperties
    <2>3. QED
      BY <2>1, <2>2 DEF ContextInv, FilenameIsTop, FilenameOf, Framed
  <1>4. CASE InlineEval
    <2>1. /\ stack' = Append(Popped(stack), InlineFilename) /\ filename' = InlineFilename
          /\ stack' \in Seq(Paths) /\ calls = <<>>
      BY <1>4 DEF InlineEval, TypeOK, ParserTypeOK
    <2>2. Popped(stack) \in Seq(Paths)
      BY PoppedProperties DEF TypeOK, ParserTypeOK
    <2>3. stack' # <<>> /\ stack'[Len(stack')] = InlineFilename /\ Len(stack') \in Nat \ {0}
      BY <2>1, <2>2, AppendProperties, LenProperties, EmptySeq
    <2>4. FilenameIsTop'
      BY <2>1, <2>3 DEF FilenameIsTop, FilenameOf
    <2>5. CASE UNCHANGED calls
      BY <2>1, <2>4, <2>5 DEF ContextInv, Framed
    <2>6. CASE ~UNCHANGED calls
      <3> DEFINE c == [op |-> "eval", path |-> InlineFilename, target |-> InlineFilename,
                       stage |-> "body", ctx |-> <<>>, base |-> Len(stack'),
                       file |-> InlineFilename]
      <3>1. calls' = <<c>>
        BY <1>4, <2>6 DEF InlineEval
      <3>2. c \in Calls
        BY <2>3 DEF Calls, Pushes
      <3>3. Height(c) = Len(stack') /\ c.ctx = <<>> /\ c.file = InlineFilename
        BY <3>2, CallHeight
      <3>4. FilenameAt(stack', Len(stack')) = InlineFilename
        BY <2>3 DEF FilenameAt
      <3> HIDE DEF c
      <3>5. Len(calls') = 1 /\ calls'[1] = c
        BY <3>1
      <3>6. Framed(calls', stack')
        BY <2>3, <3>3, <3>4, <3>5 DEF Framed
      <3>7. QED
        BY <2>4, <3>6 DEF ContextInv
    <2>7. QED
      BY <2>5, <2>6
  <1>5. CASE HookReturns
    <2>1. /\ calls # <<>> /\ Top \in Calls /\ Len(calls) \in 1 .. Len(calls)
          /\ UNCHANGED <<stack, filename>>
      BY <1>5, TopType DEF HookReturns, TypeOK, parserVars
    <2> DEFINE c == [Top EXCEPT !.stage = "body", !.file = filename]
    <2>2. /\ Len(calls') = Len(calls) /\ Len(calls) \in Nat
          /\ \A i \in 1 .. Len(calls) : calls'[i] = IF i = Len(calls) THEN c ELSE calls[i]
      <3>1. calls' = [calls EXCEPT ![Len(calls)] = c]
        BY <1>5, <2>1 DEF HookReturns, Top, TypeOK
      <3>2. filename \in Paths
        BY DEF TypeOK, ParserTypeOK
      <3>3. c \in Calls
        BY <2>1, <3>2 DEF Calls
      <3>4. QED
        BY <2>1, <3>1, <3>3, ExceptSeq, LenProperties DEF TypeOK
    <2>3. /\ c.base = Top.base /\ c.ctx = Top.ctx /\ Height(c) = Height(Top)
          /\ c.file = filename
      BY <2>1 DEF Calls, Height
    <2>4. Height(Top) = Len(stack)
      BY <2>1 DEF ContextInv, Framed, Top
    <2>5. FilenameAt(stack, Len(stack)) = filename
      BY EmptySeq DEF ContextInv, FilenameIsTop, FilenameOf, FilenameAt, TypeOK, ParserTypeOK
    <2> HIDE DEF c
    <2>6. \A i \in 1 .. Len(calls) : /\ calls'[i].base = calls[i].base
                                     /\ calls'[i].ctx = calls[i].ctx
                                     /\ Height(calls'[i]) = Height(calls[i])
      BY <2>2, <2>3 DEF Top
    <2>7. \A i \in 1 .. Len(calls) :
              calls'[i].stage = "body" => calls'[i].file = FilenameAt(stack, Height(calls'[i]))
      <3>1. FilenameAt(stack, Height(c)) = c.file
        BY <2>3, <2>4, <2>5
      <3>2. QED
        BY <2>2, <3>1 DEF ContextInv, Framed
    <2>8. \A i \in 1 .. Len(calls) : /\ i # Len(calls) => i + 1 \in 1 .. Len(calls)
                                     /\ \A j \in i + 1 .. Len(calls) : j \in 1 .. Len(calls)
      BY <2>2
    <2>9. Framed(calls', stack)
      BY <2>2, <2>6, <2>7, <2>8 DEF ContextInv, Framed
    <2>10. QED
      BY <2>1, <2>9 DEF ContextInv, FilenameIsTop
  <1>6. CASE Raises \/ RequireReturns \/ LoadReturns \/ EvalReturns
    BY <1>6, UnwindKeepsContexts DEF Raises, RequireReturns, LoadReturns, EvalReturns, RubyRuns
  <1>7. CASE \E a \in Answers : AnswerNow(a)
    BY <1>1, <1>7 DEF AnswerNow, parserVars
  <1>8. CASE \E f \in Definitions : Define(f)
    BY <1>1, <1>8 DEF Define, parserVars
  <1>9. CASE UNCHANGED vars
    BY <1>1, <1>9 DEF vars, parserVars
  <1>10. QED
    BY <1>2, <1>3, <1>4, <1>5, <1>6, <1>7, <1>8, <1>9, StepCases

(* The contexts follow the calls in all reachable states.                  *)
LEMMA ContextInvariant == Spec => []ContextInv
  <1>1. Init => ContextInv
    BY DEF Init, ParserInit, ContextInv, FilenameIsTop, FilenameOf, Framed
  <1>2. QED
    BY <1>1, ContextStep, TypeCorrect, PTL DEF Spec

(* Whatever is required, loaded, evaluated and rescued, and however deep,  *)
(* every running call finds the context it pushed where it pushed it.      *)
THEOREM BalancedContexts == Spec => []ContextsBalanced
  BY ContextInvariant, ContextInvImplies, TypeCorrect, PTL

(* A source runs, and require_relative in it resolves, in the context that *)
(* was pushed for it.                                                      *)
THEOREM OwnContext == Spec => []RunsInOwnContext
  BY ContextInvariant, ContextInvImplies, TypeCorrect, PTL

(* The filename in the mruby parser is never stale against the Rust stack. *)
THEOREM FilenameNeverStale == Spec => []FilenameIsTop
  BY ContextInvariant, PTL DEF ContextInv

-----------------------------------------------------------------------------
(* What is left on the context stack.                                      *)

(* The calls in progress are above what is below them.                     *)
LEMMA BelowCallsHeight ==
    ASSUME NEW cs \in Seq(Calls), NEW st \in Seq(Paths), Framed(cs, st)
    PROVE  /\ BelowCalls(cs, st) \in 0 .. Len(st)
           /\ cs # <<>> => BelowCalls(cs, st) <= cs[Len(cs)].base
  <1>1. Len(cs) \in Nat /\ Len(st) \in Nat
    BY LenProperties
  <1>2. CASE cs = <<>>
    BY <1>1, <1>2 DEF BelowCalls
  <1>3. CASE cs # <<>>
    <2>1. Len(cs) \in 1 .. Len(cs) /\ 1 \in 1 .. Len(cs)
      BY <1>1, <1>3, EmptySeq
    <2>2. cs[1] \in Calls /\ cs[Len(cs)] \in Calls
      BY <2>1, ElementOfSeq
    <2>3. /\ cs[1].base \in Nat /\ Height(cs[1]) \in Nat /\ cs[1].base <= Height(cs[1])
          /\ cs[Len(cs)].base \in Nat
      BY <2>2, CallHeight
    <2>4. Height(cs[1]) <= Len(st)
      BY <2>1 DEF Framed
    <2>5. Len(cs) # 1 => Height(cs[1]) <= cs[Len(cs)].base
      <3>1. Len(cs) # 1 => Len(cs) \in 1 + 1 .. Len(cs)
        BY <1>1, <2>1
      <3>2. QED
        BY <2>1, <3>1 DEF Framed
    <2>6. cs[1].base \in 0 .. Len(st) /\ cs[1].base <= cs[Len(cs)].base
      BY <1>1, <2>3, <2>4, <2>5
    <2>7. QED
      BY <1>3, <2>6 DEF BelowCalls
  <1>4. QED
    BY <1>2, <1>3

(* A context that is left stays one, since the only sources that turn up   *)
(* are those that are defined.                                             *)
LEMMA UnreadStays ==
    ASSUME NEW c, Unread(c), disk' = disk,
           entries' = entries \/ \E f \in Definitions : entries' = entries \cup {f}
    PROVE  Unread(c)'
  <1>1. LibReads(c)' = LibReads(c) /\ IsRegular(NatFile(c))' = IsRegular(NatFile(c))
    BY DEF LibReads, LibHandles, LibHits, IsRegular, Exists
  <1>2. Readable(c)' => Readable(c) \/ MemFile(c) \in Definitions
    BY <1>1 DEF Readable, HasEntry
  <1>3. QED
    BY <1>2 DEF Unread

(* A step that leaves what is below the calls as it was, or puts what was  *)
(* not read there.                                                         *)
LEMMA LeftBelow ==
    ASSUME OnlyUnreadLeft, disk' = disk,
           entries' = entries \/ \E f \in Definitions : entries' = entries \cup {f},
           \A i \in 1 .. BelowCalls(calls, stack)' :
              \/ i \in 1 .. BelowCalls(calls, stack) /\ stack'[i] = stack[i]
              \/ Unread(stack'[i])
    PROVE  OnlyUnreadLeft'
  <1> SUFFICES ASSUME NEW i \in 1 .. BelowCalls(calls, stack)'
               PROVE  Unread(stack[i])'
    BY DEF OnlyUnreadLeft
  <1>1. PICK c : c = stack'[i]
    OBVIOUS
  <1>2. Unread(c)
    BY <1>1 DEF OnlyUnreadLeft
  <1>3. Unread(c)'
    BY <1>2, UnreadStays
  <1>4. QED
    BY <1>1, <1>3

(* Each step keeps OnlyUnreadLeft.                                         *)
LEMMA LeftStep ==
    ASSUME TypeOK, TypeOK', ContextInv, ContextInv', OnlyUnreadLeft, [Next]_vars
    PROVE  OnlyUnreadLeft'
  <1>0. /\ calls \in Seq(Calls) /\ calls' \in Seq(Calls)
        /\ stack \in Seq(Paths) /\ stack' \in Seq(Paths)
        /\ Len(calls) \in Nat /\ Len(stack) \in Nat /\ Len(stack') \in Nat
        /\ BelowCalls(calls, stack) \in 0 .. Len(stack)
        /\ calls # <<>> => BelowCalls(calls, stack) <= Top.base
    BY LenProperties, BelowCallsHeight DEF TypeOK, ParserTypeOK, ContextInv, Top
  <1>1. CASE UNCHANGED <<stack, calls, disk>> /\ (entries' = entries \/ \E f \in Definitions : entries' = entries \cup {f})
    BY <1>1, LeftBelow DEF BelowCalls
  <1>2. ASSUME NEW op \in {"require", "load", "eval"}, NEW p \in Paths, NEW t \in Paths,
               NEW stage \in {"hook", "body"}, NEW ctx \in Pushes, Enter(op, p, t, stage, ctx)
        PROVE  OnlyUnreadLeft'
    <2> DEFINE c == [op |-> op, path |-> p, target |-> t, stage |-> stage, ctx |-> ctx,
                     base |-> Len(stack), file |-> filename']
    <2>1. calls' = Append(calls, c) /\ UNCHANGED <<disk, entries>>
      BY <1>2 DEF Enter, loadPathVars
    <2>2. c \in Calls /\ c.base = Len(stack)
      BY <1>0 DEF Calls, TypeOK, ParserTypeOK
    <2> HIDE DEF c
    <2>3. \A n \in 1 .. Len(stack) : stack'[n] = stack[n]
      <3>1. CASE ctx = <<>>
        BY <1>2, <3>1 DEF Enter, parserVars
      <3>2. ASSUME NEW x \in Paths, ctx = <<x>>
            PROVE  \A n \in 1 .. Len(stack) : stack'[n] = stack[n]
        BY <1>0, <1>2, <3>2, AppendProperties DEF Enter, PushContext
      <3>3. QED
        BY <3>1, <3>2 DEF Pushes
    <2>4. calls' # <<>> /\ BelowCalls(calls, stack)' = BelowCalls(calls, stack)
      <3>1. Len(calls') = Len(calls) + 1 /\ calls'[Len(calls) + 1] = c
            /\ \A i \in 1 .. Len(calls) : calls'[i] = calls[i]
        BY <1>0, <2>1, <2>2, AppendProperties
      <3>2. calls' # <<>>
        BY <1>0, <3>1, EmptySeq
      <3>3. CASE calls = <<>>
        BY <2>2, <3>1, <3>2, <3>3, EmptySeq DEF BelowCalls
      <3>4. CASE calls # <<>>
        <4>1. 1 \in 1 .. Len(calls)
          BY <1>0, <3>4, EmptySeq
        <4>2. QED
          BY <3>1, <3>2, <3>4, <4>1 DEF BelowCalls
      <3>5. QED
        BY <3>2, <3>3, <3>4
    <2>5. QED
      BY <1>0, <2>1, <2>3, <2>4, LeftBelow
  <1>3. ASSUME NEW p \in Programs, calls = <<>>, FailToRead(p)
        PROVE  OnlyUnreadLeft'
    <2>1. /\ stack' = Append(stack, p) /\ calls' = <<>> /\ UNCHANGED <<disk, entries>>
          /\ ~Readable(p) /\ p \in Paths
      BY <1>3 DEF FailToRead, PushContext, loadPathVars
    <2>2. /\ Len(stack') = Len(stack) + 1 /\ stack'[Len(stack) + 1] = p
          /\ \A n \in 1 .. Len(stack) : stack'[n] = stack[n]
      BY <1>0, <2>1, AppendProperties
    <2>3. BelowCalls(calls, stack) = Len(stack) /\ BelowCalls(calls, stack)' = Len(stack) + 1
      BY <1>3, <2>1, <2>2 DEF BelowCalls
    <2>4. Unread(p)
      BY <2>1 DEF Unread
    <2>5. QED
      BY <1>0, <2>1, <2>2, <2>3, <2>4, LeftBelow
  <1>4. CASE InlineEval
    <2>1. /\ stack' = Append(Popped(stack), InlineFilename) /\ calls = <<>>
          /\ UNCHANGED <<disk, entries>>
      BY <1>4 DEF InlineEval, loadPathVars
    <2> DEFINE s == Popped(stack)
    <2>2. /\ s \in Seq(Paths) /\ Len(s) \in Nat /\ Len(s) <= Len(stack)
          /\ \A n \in 1 .. Len(s) : s[n] = stack[n]
      <3>1. /\ s \in Seq(Paths) /\ Len(s) \in Nat
            /\ stack = <<>> => s = <<>>
            /\ stack # <<>> => Len(s) = Len(stack) - 1
            /\ \A i \in 1 .. Len(stack) - 1 : s[i] = stack[i]
        BY <1>0, PoppedProperties, LenProperties
      <3> HIDE DEF s
      <3>2. CASE stack = <<>>
        BY <1>0, <3>1, <3>2, EmptySeq
      <3>3. CASE stack # <<>>
        BY <1>0, <3>1, <3>3
      <3>4. QED
        BY <3>2, <3>3
    <2> HIDE DEF s
    <2>3. /\ stack' = Append(s, InlineFilename) /\ InlineFilename \in Paths
      BY <2>1 DEF s
    <2>4. /\ Len(stack') = Len(s) + 1 /\ stack'[Len(s) + 1] = InlineFilename
          /\ \A n \in 1 .. Len(s) : stack'[n] = stack[n]
      BY <2>2, <2>3, AppendProperties
    <2>5. BelowCalls(calls, stack)' = Len(stack')
      BY <1>4, <2>1 DEF InlineEval, BelowCalls
    <2>6. BelowCalls(calls, stack) = Len(stack)
      BY <2>1 DEF BelowCalls
    <2>7. Unread(InlineFilename)
      BY DEF Unread
    <2>8. QED
      BY <1>0, <2>1, <2>2, <2>4, <2>5, <2>6, <2>7, LeftBelow
  <1>5. CASE HookReturns
    <2>1. /\ calls # <<>> /\ Len(calls) \in 1 .. Len(calls) /\ Top \in Calls
          /\ UNCHANGED <<stack, disk, entries>>
      BY <1>5, TopType DEF HookReturns, TypeOK, parserVars, loadPathVars
    <2>2. /\ calls' = [calls EXCEPT ![Len(calls)] = [Top EXCEPT !.stage = "body", !.file = filename]]
      BY <1>5, <2>1 DEF HookReturns, Top, TypeOK
    <2>3. 1 \in 1 .. Len(calls) /\ DOMAIN calls = 1 .. Len(calls)
      BY <1>0, <2>1, LenProperties
    <2>4. calls'[1].base = calls[1].base
      <3>1. CASE Len(calls) = 1
        BY <2>1, <2>2, <2>3, <3>1 DEF Top, Calls
      <3>2. CASE Len(calls) # 1
        BY <2>2, <2>3, <3>2
      <3>3. QED
        BY <3>1, <3>2
    <2>5. calls' # <<>>
      BY <2>2, <2>3, LenProperties, EmptySeq
    <2>6. BelowCalls(calls, stack)' = BelowCalls(calls, stack)
      BY <2>1, <2>4, <2>5 DEF BelowCalls
    <2>7. QED
      BY <2>1, <2>6, LeftBelow
  <1>6. CASE Raises \/ RequireReturns \/ LoadReturns \/ EvalReturns
    <2>1. calls # <<>> /\ Unwind /\ UNCHANGED <<disk, entries>>
      BY <1>6 DEF Raises, RequireReturns, LoadReturns, EvalReturns, RubyRuns, loadPathVars
    <2>2. /\ Len(calls') = Len(calls) - 1
          /\ \A i \in 1 .. Len(calls) - 1 : calls'[i] = calls[i]
      BY <2>1, UnwindKeepsCalls
    <2>3. Top \in Calls /\ Len(calls) \in 1 .. Len(calls)
      BY <2>1, TopType DEF TypeOK
    <2>4. /\ Top.base \in Nat
          /\ Top.ctx = <<>> => Len(stack) = Top.base
          /\ Top.ctx # <<>> => Len(stack) = Top.base + 1
      <3>1. Height(Top) = Len(stack)
        BY <2>3 DEF ContextInv, Framed, Top
      <3>2. QED
        BY <2>3, <3>1, CallHeight
    <2>5. /\ Len(stack') = Top.base
          /\ \A n \in 1 .. Len(stack') : stack'[n] = stack[n]
      <3>1. CASE Top.ctx = <<>>
        <4>1. stack' = stack /\ Len(stack) = Top.base
          BY <2>1, <2>4, <3>1 DEF Unwind, parserVars
        <4>2. QED
          BY <4>1
      <3>2. CASE Top.ctx # <<>>
        <4>1. stack' = Popped(stack) /\ Len(stack) = Top.base + 1
          BY <2>1, <2>4, <3>2 DEF Unwind, PopContext
        <4>2. stack # <<>>
          BY <2>4, <4>1, EmptySeq
        <4>3. /\ Len(Popped(stack)) = Len(stack) - 1
              /\ \A i \in 1 .. Len(stack) - 1 : Popped(stack)[i] = stack[i]
          BY <1>0, <4>2, PoppedProperties
        <4>4. Len(stack) - 1 = Top.base
          BY <2>4, <4>1
        <4>5. QED
          BY <4>1, <4>3, <4>4
      <3>3. QED
        BY <3>1, <3>2
    <2>6. BelowCalls(calls, stack)' = BelowCalls(calls, stack)
      <3>1. CASE Len(calls) = 1
        <4>1. calls' = <<>> /\ calls[1] = Top
          BY <1>0, <2>2, <3>1, EmptySeq DEF Top
        <4>2. QED
          BY <2>1, <2>5, <4>1 DEF BelowCalls
      <3>2. CASE Len(calls) # 1
        <4>1. calls' # <<>> /\ 1 \in 1 .. Len(calls) - 1
          BY <1>0, <2>2, <2>3, <3>2, EmptySeq
        <4>2. QED
          BY <2>1, <2>2, <4>1 DEF BelowCalls
      <3>3. QED
        BY <3>1, <3>2
    <2>7. BelowCalls(calls, stack) <= Len(stack')
      BY <1>0, <2>1, <2>5
    <2>8. QED
      BY <1>0, <2>1, <2>5, <2>6, <2>7, LeftBelow
  <1>7. CASE \E a \in Answers : AnswerNow(a)
    BY <1>1, <1>7 DEF AnswerNow, parserVars, loadPathVars
  <1>8. CASE \E f \in Definitions : Define(f)
    BY <1>1, <1>8 DEF Define, parserVars, DefRbSourceFile, DefFileForType
  <1>9. CASE UNCHANGED vars
    BY <1>1, <1>9 DEF vars, parserVars, loadPathVars
  <1>10. QED
    BY <1>2, <1>3, <1>4, <1>5, <1>6, <1>7, <1>8, <1>9, StepCases DEF Enters

(* However many sources have run, nested, raised and been rescued, what is *)
(* left on the context stack below the calls in progress are programs that *)
(* could not be read, the early return of eval_file (eval.rs:58), and "-e".*)
THEOREM LeftOnlyUnread == Spec => []OnlyUnreadLeft
  <1>1. Init => OnlyUnreadLeft
    BY DEF Init, ParserInit, OnlyUnreadLeft, BelowCalls
  <1>2. QED
    BY <1>1, LeftStep, TypeCorrect, ContextInvariant, PTL DEF Spec

-----------------------------------------------------------------------------
(* What the calls of a program in scope keep, beside MarksInv.             *)

(* A running require has a path that can be marked, and if it fell back to *)
(* the rb name, the path itself still has no hook.                         *)
InScope(c) ==
    /\ Markable(c.path)
    /\ c.target # c.path => ~HasHook(c.path)

ScopeInv == \A i \in Requiring : InScope(calls[i])

(* Definitions in scope do not change which paths without rb have a hook.  *)
HooksKept == \A p \in Paths : ~HasRb(p) => HasHook(p)' = HasHook(p)

(* In scope, Define adds hooks for paths with an extension only.           *)
LEMMA DefineKeepsHooks ==
    ASSUME RefinementScope, NEW f \in Definitions, Define(f)
    PROVE  HooksKept
  <1>1. f.ext = "rb" /\ (UNCHANGED hooks \/ hooks' = hooks \cup {f})
    BY DEF RefinementScope, Define, DefRbSourceFile, DefFileForType
  <1>2. QED
    BY <1>1 DEF HooksKept, HasHook, HasRb, MemFile, At

(* Steps that define nothing keep all hooks.                               *)
LEMMA SameHooks ==
    ASSUME UNCHANGED hooks
    PROVE  HooksKept
  BY DEF HooksKept, HasHook

(* A step that marks nothing loads nothing.                                *)
LEMMA LoadedKept ==
    ASSUME HooksKept, UNCHANGED <<disk, featureVars>>
    PROVE  UNCHANGED Loaded
  <1>1. \A p \in Paths : IsRequired(p)' = IsRequired(p)
    BY DEF IsRequired, LibHits, LibFile, Exists, featureVars
  <1>2. ASSUME NEW p \in Paths
        PROVE  AlreadyRequired(p)' = AlreadyRequired(p)
    <2>1. WithRb(p) \in Paths /\ IsRequired(WithRb(p))' = IsRequired(WithRb(p))
      BY <1>1, PathTypes
    <2>2. IsRequired(p)' = IsRequired(p) /\ (~HasRb(p) => HasHook(p)' = HasHook(p))
      BY <1>1 DEF HooksKept
    <2>3. QED
      BY <2>1, <2>2 DEF AlreadyRequired, HasRb
  <1>3. QED
    BY <1>2 DEF Loaded, Markable

(* A step that only adds marks keeps what is loaded.                       *)
LEMMA LoadedGrows ==
    ASSUME UNCHANGED hooks, FeaturesGrow
    PROVE  Loaded \subseteq Loaded'
  <1> SUFFICES ASSUME NEW p \in Paths, Markable(p), AlreadyRequired(p)
               PROVE  AlreadyRequired(p)'
    BY DEF Loaded, Markable
  <1>1. CASE IsRequired(p)
    BY <1>1, MarkStaysFound DEF AlreadyRequired
  <1>2. CASE ~HasHook(p) /\ ~HasRb(p) /\ IsRequired(WithRb(p))
    BY <1>2, MarkStaysFound DEF AlreadyRequired, HasHook, HasRb
  <1>3. QED
    BY <1>1, <1>2 DEF AlreadyRequired

-----------------------------------------------------------------------------
(* Steps.                                                                  *)

Same == UNCHANGED <<Loaded, Active>>
Step == \/ ScopeInv' /\ Same
        \/ ScopeInv' /\ \E p \in {q \in Paths : Markable(q)} :
                            Once!Begin(p) \/ Once!Finish(p) \/ Once!Abort(p)

(* The innermost call ends, and may have been a require.                   *)
LEMMA UnwindLeaves ==
    ASSUME TypeOK, ScopeInv, calls # <<>>, Unwind, UNCHANGED hooks
    PROVE  /\ ScopeInv'
           /\ Top.op # "require" => UNCHANGED Active
           /\ Top.op = "require" => /\ Top.path \in Active
                                    /\ Active' \in {Active, Active \ {Top.path}}
  <1> DEFINE n == Len(calls)
  <1>1. /\ n \in Nat \ {0} /\ DOMAIN calls = 1 .. n /\ DOMAIN calls' = 1 .. n - 1
        /\ \A i \in 1 .. n - 1 : i \in 1 .. n /\ calls'[i] = calls[i]
    BY UnwindKeepsCalls
  <1>2. Requiring' = Requiring \ {n}
    BY <1>1 DEF Requiring
  <1>3. \A i \in Requiring' : calls'[i] = calls[i] /\ i \in Requiring
    BY <1>1, <1>2 DEF Requiring
  <1>4. ScopeInv'
    BY <1>3 DEF ScopeInv, InScope, Markable, HasHook
  <1>5. n \in Requiring <=> Top.op = "require"
    BY <1>1 DEF Requiring, Top
  <1>6. Active' = {calls[i].path : i \in Requiring \ {n}}
    BY <1>2, <1>3 DEF Active
  <1>7. QED
    BY <1>4, <1>5, <1>6 DEF Active, Top

(* Entering a call is Begin of RequireOnce, or a stutter.                  *)
LEMMA EnterBegins ==
    ASSUME RefinementScope, TypeOK, ScopeInv,
           NEW op \in {"require", "load", "eval"}, NEW p \in Paths, NEW t \in Paths,
           NEW stage \in {"hook", "body"}, NEW ctx \in Pushes,
           Enter(op, p, t, stage, ctx), op = "require" => EntersRequire(p, t)
    PROVE  Step
  <1> DEFINE c == [op |-> op, path |-> p, target |-> t, stage |-> stage, ctx |-> ctx,
                   base |-> Len(stack), file |-> filename']
             n == Len(calls)
  <1>1. /\ UNCHANGED hooks
        /\ UNCHANGED <<disk, featureVars>>
        /\ calls' = Append(calls, c)
    BY DEF Enter, loadPathVars, featureVars
  <1>2. UNCHANGED Loaded
    BY <1>1, SameHooks, LoadedKept
  <1>3. c \in Calls
    <2>1. TypeOK' /\ Len(stack) \in Nat
      BY EnterTypes, LenProperties DEF TypeOK, ParserTypeOK
    <2>2. QED
      BY <2>1 DEF Calls, TypeOK, ParserTypeOK
  <1>4. /\ DOMAIN calls = 1 .. n /\ n \in Nat
        /\ DOMAIN calls' = 1 .. n + 1
        /\ calls'[n + 1] = c
        /\ \A i \in 1 .. n : calls'[i] = calls[i]
    BY <1>1, <1>3, AppendProperties, LenProperties DEF TypeOK
  <1>5. c.op = op /\ c.path = p /\ c.target = t
    OBVIOUS
  <1> HIDE DEF c
  <1>6. CASE op # "require"
    <2>1. Requiring' = Requiring
      BY <1>4, <1>5, <1>6 DEF Requiring
    <2>2. \A i \in Requiring : calls'[i] = calls[i]
      BY <1>4 DEF Requiring
    <2>3. ScopeInv'
      BY <1>1, <2>1, <2>2 DEF ScopeInv, InScope, Markable, HasHook
    <2>4. QED
      BY <1>2, <2>1, <2>2, <2>3 DEF Step, Same, Active
  <1>7. CASE op = "require"
    <2>1. Requiring' = Requiring \cup {n + 1}
      BY <1>4, <1>5, <1>7 DEF Requiring
    <2>2. \A i \in Requiring : calls'[i] = calls[i]
      BY <1>4 DEF Requiring
    <2>3. ~AlreadyRequired(p) /\ t = RequireTarget(p) /\ (p \in Requests \/ Relatives # {})
      BY <1>7 DEF EntersRequire
    <2>4. Markable(p)
      BY <2>3 DEF RefinementScope, Markable
    <2>5. InScope(c)
      BY <1>5, <2>3, <2>4, RequireTargetType DEF InScope
    <2>6. ScopeInv'
      BY <1>1, <1>4, <2>1, <2>2, <2>5 DEF ScopeInv, InScope, Markable, HasHook
    <2>7. Active' = Active \cup {p}
      BY <1>4, <1>5, <2>1, <2>2 DEF Active
    <2>8. p \notin Loaded
      BY <2>3 DEF Loaded
    <2>9. Once!Begin(p)
      BY <1>2, <2>7, <2>8 DEF Once!Begin
    <2>10. QED
      BY <2>4, <2>6, <2>9 DEF Step
  <1>8. QED
    BY <1>6, <1>7

(* Each step of the loader is a step of RequireOnce, or a stutter.         *)
LEMMA RefinementStep ==
    ASSUME RefinementScope, TypeOK, TypeOK', MarksInv, MarksInv', ScopeInv, [Next]_vars
    PROVE  Step
  <1>1. ASSUME UNCHANGED calls, UNCHANGED loadPathVars
        PROVE  Step
    <2>1. UNCHANGED hooks /\ UNCHANGED <<disk, featureVars>>
      BY <1>1 DEF loadPathVars, featureVars
    <2>2. UNCHANGED Loaded
      BY <2>1, SameHooks, LoadedKept
    <2>3. QED
      BY <1>1, <2>1, <2>2 DEF Step, Same, Active, Requiring, ScopeInv, InScope, Markable, HasHook
  <1>2. CASE Enters
    BY <1>2, EnterBegins DEF Enters
  <1>3. CASE InlineEval
    <2>1. calls = <<>> /\ Requiring = {}
      BY <1>3 DEF InlineEval, Requiring
    <2>2. UNCHANGED calls \/ calls' = <<[op |-> "eval", path |-> InlineFilename,
              target |-> InlineFilename, stage |-> "body", ctx |-> <<>>,
              base |-> Len(stack'), file |-> InlineFilename]>>
      BY <1>3 DEF InlineEval
    <2>3. Requiring' = {}
      BY <2>1, <2>2 DEF Requiring
    <2>4. UNCHANGED hooks /\ UNCHANGED <<disk, featureVars>>
      BY <1>3 DEF InlineEval, loadPathVars, featureVars
    <2>5. UNCHANGED Loaded
      BY <2>4, SameHooks, LoadedKept
    <2>6. QED
      BY <2>1, <2>3, <2>5 DEF Step, Same, Active, ScopeInv
  <1>4. ASSUME NEW f \in Definitions, Define(f)
        PROVE  Step
    <2>1. HooksKept /\ UNCHANGED <<disk, featureVars, calls>>
      BY <1>4, DefineKeepsHooks DEF Define, DefRbSourceFile, DefFileForType, featureVars
    <2>2. UNCHANGED Loaded
      BY <2>1, LoadedKept DEF featureVars
    <2>3. ScopeInv'
      <3>1. \A i \in Requiring : calls[i] \in Calls /\ FallsBackToRb(calls[i])
        BY ElementOfSeq, LenProperties DEF Requiring, MarksInv, TypeOK
      <3>2. \A i \in Requiring : calls[i].path \in Paths
        BY <3>1 DEF Calls
      <3>3. \A i \in Requiring : InScope(calls[i])'
        BY <2>1, <3>1, <3>2 DEF ScopeInv, InScope, FallsBackToRb, HooksKept, Markable
      <3>4. QED
        BY <2>1, <3>3 DEF ScopeInv, Requiring
    <2>4. QED
      BY <2>1, <2>2, <2>3 DEF Step, Same, Active, Requiring
  <1>5. CASE HookReturns
    <2>1. calls # <<>> /\ Len(calls) \in 1 .. Len(calls) /\ Top \in Calls
      BY <1>5, TopType DEF HookReturns, TypeOK
    <2>2. calls' = [calls EXCEPT ![Len(calls)] =
                        [Top EXCEPT !.stage = "body", !.file = filename]]
      BY <1>5, <2>1 DEF HookReturns, Top, TypeOK
    <2>3. DOMAIN calls' = DOMAIN calls
      BY <2>2
    <2>4. \A i \in DOMAIN calls : /\ calls'[i].op = calls[i].op
                                  /\ calls'[i].path = calls[i].path
                                  /\ calls'[i].target = calls[i].target
      <3>1. \A i \in DOMAIN calls : calls'[i] = IF i = Len(calls)
                THEN [Top EXCEPT !.stage = "body", !.file = filename] ELSE calls[i]
        BY <2>2
      <3>2. Top = calls[Len(calls)]
        BY DEF Top
      <3>3. LET c == [Top EXCEPT !.stage = "body", !.file = filename] IN
            c.op = Top.op /\ c.path = Top.path /\ c.target = Top.target
        BY <2>1 DEF Calls
      <3>4. QED
        BY <3>1, <3>2, <3>3
    <2>5. Requiring' = Requiring
      BY <2>3, <2>4 DEF Requiring
    <2>6. \A i \in Requiring : calls'[i].path = calls[i].path /\ calls'[i].target = calls[i].target
      BY <2>4 DEF Requiring
    <2>7. UNCHANGED hooks /\ UNCHANGED <<disk, featureVars>>
      BY <1>5 DEF HookReturns, loadPathVars, featureVars
    <2>8. UNCHANGED Loaded
      BY <2>7, SameHooks, LoadedKept
    <2>9. QED
      BY <2>5, <2>6, <2>7, <2>8 DEF Step, Same, Active, ScopeInv, InScope, Markable, HasHook
  <1>6. CASE (Raises \/ LoadReturns \/ EvalReturns) /\ calls # <<>>
    <2>1. Unwind /\ UNCHANGED hooks /\ UNCHANGED <<disk, featureVars>>
      BY <1>6 DEF Raises, LoadReturns, EvalReturns, loadPathVars, featureVars
    <2>2. UNCHANGED Loaded
      BY <2>1, SameHooks, LoadedKept
    <2>3. CASE Top.op # "require"
      BY <1>6, <2>1, <2>2, <2>3, UnwindLeaves DEF Step, Same
    <2>4. CASE Top.op = "require"
      <3>1. PICK p : p = Top.path
        OBVIOUS
      <3>2. ScopeInv' /\ p \in Active /\ Active' \in {Active, Active \ {p}}
        BY <1>6, <2>1, <2>4, <3>1, UnwindLeaves
      <3>3. p \in Paths /\ Markable(p)
        <4>1. Len(calls) \in DOMAIN calls
          BY <1>6, EmptySeq, LenProperties DEF TypeOK
        <4>2. QED
          BY <1>6, <2>4, <3>1, <4>1, TopType DEF ScopeInv, InScope, Requiring, Top, TypeOK
      <3>4. Once!Abort(p)
        BY <2>2, <3>2 DEF Once!Abort, Once!Leave
      <3>5. QED
        BY <3>2, <3>3, <3>4 DEF Step
    <2>5. QED
      BY <2>3, <2>4
  <1>7. CASE RequireReturns
    <2>1. /\ calls # <<>> /\ Unwind /\ Top.op = "require" /\ UNCHANGED <<disk, entries, hooks>>
          /\ MarkRequired(Top.target)
      BY <1>7 DEF RequireReturns, RubyRuns
    <2>2. PICK p, t : p = Top.path /\ t = Top.target
      OBVIOUS
    <2>3. p \in Paths /\ t \in Paths /\ Len(calls) \in DOMAIN calls
      BY <2>1, <2>2, TopType, EmptySeq, LenProperties DEF TypeOK
    <2>4. /\ Markable(p) /\ (t # p => ~HasHook(p))
          /\ t \in {p, WithRb(p)} /\ (t # p => ~HasRb(p))
      BY <2>1, <2>2, <2>3 DEF ScopeInv, InScope, Requiring, Top, MarksInv, FallsBackToRb
    <2>5. IsRequired(t)'
      <3>1. Markable(t)
        BY <2>3, <2>4, PathTypes DEF Markable
      <3>2. QED
        BY <2>1, <2>2, <2>3, <3>1, MarkIsFound
    <2>6. AlreadyRequired(p)'
      BY <2>1, <2>4, <2>5 DEF AlreadyRequired, HasHook, HasRb
    <2>7. p \in Loaded'
      BY <2>3, <2>4, <2>6 DEF Loaded, Markable
    <2>8. Loaded \subseteq Loaded'
      BY <2>1, MarkRequiredGrows, LoadedGrows
    <2>9. Loaded' \subseteq {q \in Paths : Markable(q)}
      BY DEF Loaded, Markable
    <2>10. ScopeInv' /\ p \in Active /\ Active' \in {Active, Active \ {p}}
      BY <2>1, <2>2, UnwindLeaves
    <2>11. Once!Finish(p)
      BY <2>7, <2>8, <2>9, <2>10 DEF Once!Finish, Once!Leave
    <2>12. QED
      BY <2>3, <2>4, <2>10, <2>11 DEF Step
  <1>8. CASE UNCHANGED vars
    BY <1>1, <1>8 DEF vars
  <1>9. CASE \E a \in Answers : AnswerNow(a)
    BY <1>1, <1>9 DEF AnswerNow
  <1>10. CASE \E p \in Programs : calls = <<>> /\ FailToRead(p)
    BY <1>1, <1>10 DEF FailToRead
  <1>11. (Raises \/ LoadReturns \/ EvalReturns) => calls # <<>>
    BY DEF Raises, LoadReturns, EvalReturns, RubyRuns
  <1>12. QED
    BY <1>2, <1>3, <1>4, <1>5, <1>6, <1>7, <1>8, <1>9, <1>10, <1>11, StepCases

(* The three loaders, the fallback to the rb name, the hooks and the calls *)
(* in progress implement require's promise: nothing that is loaded is run  *)
(* again, and only what ran to its end is loaded.                          *)
THEOREM ImplementsRequireOnce ==
    ASSUME RefinementScope
    PROVE  Spec => KeepsRequireOnce
  <1>1. Init => Once!Init /\ ScopeInv
    <2>1. Init => Loaded = {}
      BY DEF Init, LoadPathInit, Loaded, AlreadyRequired, IsRequired
    <2>2. Init => Requiring = {}
      BY DEF Init, Requiring
    <2>3. QED
      BY <2>1, <2>2 DEF Once!Init, Active, ScopeInv
  <1>2. Init => MarksInv
    BY DEF Init, MarksInv
  <1>3. TypeOK /\ MarksInv /\ [Next]_vars => MarksInv'
    BY MarksStep
  <1>4. TypeOK /\ TypeOK' /\ MarksInv /\ MarksInv' /\ ScopeInv /\ [Next]_vars
        => ScopeInv' /\ [Once!Next]_<<Loaded, Active>>
    <2>1. Step => ScopeInv' /\ [Once!Next]_<<Loaded, Active>>
      BY DEF Step, Same, Once!Next
    <2>2. QED
      BY <2>1, RefinementStep
  <1>5. QED
    BY <1>1, <1>2, <1>3, <1>4, TypeCorrect, PTL DEF Spec, KeepsRequireOnce, Once!Spec

=============================================================================

------------------------------ MODULE MCPrograms ------------------------------
(***************************************************************************)
(* The programs that drive one interpreter and its parser context, on small*)
(* file systems for TLC: either an embedder or the artichoke command, which*)
(* evaluate, load and require (FeatureLoader), or the airb loop (Repl).    *)
(***************************************************************************)
EXTENDS FeatureLoader, Repl

-----------------------------------------------------------------------------
(* Paths and files.                                                        *)

ThreeDirs == {"vroot", "cwd", "lib"}
TwoStems == {"a", "b", "(eval)", "(airb)", "-e"}

Plain(s, e) == [kind |-> "plain", dir |-> "cwd", stem |-> s, ext |-> e]
Dotted(d, s, e) == [kind |-> "explicit", dir |-> d, stem |-> s, ext |-> e]
Rooted(d, s, e) == [kind |-> "absolute", dir |-> d, stem |-> s, ext |-> e]
File(d, s, e) == [dir |-> d, stem |-> s, ext |-> e]

MCTop == Plain("(eval)", "none")
MCInline == Plain("-e", "none")
MCAirb == Plain("(airb)", "none")

OneRubylib == <<"lib">>

(* A feature a that may be on disk, in RUBYLIB and, also later, in memory, *)
(* under three spellings; and a source b in memory, which is run as a program*)
(* and required from a. Each may have a hook.                              *)
MCRequests == {Plain("a", "none"), Dotted("cwd", "a", "rb"), Rooted("cwd", "a", "rb")}
MCRelatives == {Dotted("cwd", "b", "none")}
MCProgramFiles == {Plain("b", "rb")}
MCLib == File("lib", "a", "rb")
MCDisk == {File("cwd", "a", "rb"), MCLib}
MCMemory == {File("vroot", "a", "rb"), File("vroot", "b", "rb")}
MCDefinitions == {File("vroot", "a", "rb")}

-----------------------------------------------------------------------------
(* The programs.                                                           *)

VARIABLE program      \* which of them runs

loaderVars == <<loadPathVars, calls, answer, done>>

(* A file in RUBYLIB is there or not; airb evaluates no file.              *)
ProgramsInit ==
    /\ program \in {"artichoke", "airb"}
    /\ Init
    /\ disk[MCLib] # "dir"
    /\ program = "airb" => disk = [f \in DiskFiles |-> "absent"] /\ entries = {}
    /\ ReplInit

ProgramsNext ==
    \/ program = "artichoke" /\ Next /\ UNCHANGED <<program, replVars>>
    \/ program = "airb" /\ ReplNext /\ UNCHANGED <<program, loaderVars>>

ProgramsSpec == ProgramsInit /\ [][ProgramsNext]_<<program, vars, replVars>>

(* What a program leaves on the context stack is what OnlyUnreadLeft says; *)
(* the context that airb pushes for its lines stays for all of them.       *)
LeftoversUnread == program = "artichoke" => OnlyUnreadLeft

=============================================================================

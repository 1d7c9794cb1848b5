------------------------------- MODULE LoadPath -------------------------------
(***************************************************************************)
(* The virtual file system behind Kernel#require (load_path.rs and its     *)
(* Memory, Native and Hybrid adapters, and the Rubylib loader): three file *)
(* systems stacked on each other, each with its own set of loaded          *)
(* features.                                                               *)
(*                                                                         *)
(* A path is abstracted to what the loaders tell apart: whether it is      *)
(* absolute, starts with ./ or ../, or is neither; the directory it        *)
(* names; its stem; and whether its extension is rb, another one or none.  *)
(* A file is a path with its spelling forgotten.                           *)
(***************************************************************************)
EXTENDS Naturals, Sequences

CONSTANTS
    Dirs,           \* directories that paths name
    VRoot,          \* RUBY_LOAD_PATH, where the Memory file system is mounted
    Cwd,            \* the working directory of the process
    LibDirs,        \* the directories in RUBYLIB, in order; <<>> when it is unset
    Stems,          \* file names without their extension
    DiskFiles,      \* the files that may be present on the host
    MemoryFiles     \* the files that may be defined in memory

Exts == {"none", "rb", "other"}
Kinds == {"plain", "explicit", "absolute"}

Files == [dir : Dirs, stem : Stems, ext : Exts]
Paths == {p \in [kind : Kinds, dir : Dirs, stem : Stems, ext : Exts] :
             p.kind = "plain" => p.dir = Cwd}

ASSUME LoadPathAssumption ==
    /\ VRoot \in Dirs
    /\ Cwd \in Dirs
    /\ LibDirs \in Seq(Dirs)
    /\ DiskFiles \subseteq Files
    /\ MemoryFiles \subseteq [dir : {VRoot}, stem : Stems, ext : Exts]

VARIABLES
    disk,           \* what the host has at each file; it does not change
    entries,        \* Memory.fs: the files that have an entry
    hooks,          \* Memory.fs: the entries that have an extension hook
    memFeatures,    \* Memory.loaded_features
    natFeatures,    \* Native.loaded_features
    libFeatures     \* Rubylib.loaded_features

featureVars == <<memFeatures, natFeatures, libFeatures>>
loadPathVars == <<disk, entries, hooks, memFeatures, natFeatures, libFeatures>>

LoadPathTypeOK ==
    /\ disk \in [DiskFiles -> {"absent", "dir", "file"}]
    /\ entries \subseteq Files
    /\ hooks \subseteq entries
    /\ memFeatures \subseteq Files
    /\ natFeatures \subseteq Files
    /\ libFeatures \subseteq Files

LoadPathInit ==
    /\ disk \in [DiskFiles -> {"absent", "dir", "file"}]
    /\ entries \in SUBSET MemoryFiles
    /\ hooks \in SUBSET entries
    /\ memFeatures = {}
    /\ natFeatures = {}
    /\ libFeatures = {}

-----------------------------------------------------------------------------
(* Paths.                                                                  *)

At(d, p) == [dir |-> d, stem |-> p.stem, ext |-> p.ext]
WithRb(p) == [p EXCEPT !.ext = "rb"]
AbsolutePath(f) == [kind |-> "absolute", dir |-> f.dir, stem |-> f.stem, ext |-> f.ext]

(* base.join(p), for the parent directory of the file named base.          *)
JoinParent(base, p) ==
    IF p.kind = "absolute" \/ base.kind = "plain"
    THEN p
    ELSE [p EXCEPT !.kind = base.kind, !.dir = base.dir]

(* A path made absolute against the working directory of a file system.    *)
(* Memory works in VRoot and has nothing outside of it.                    *)
InMemory(p) ==
    \/ p.kind = "plain"
    \/ (p.kind = "explicit" /\ p.dir = Cwd)
    \/ (p.kind = "absolute" /\ p.dir = VRoot)

MemFile(p) == At(VRoot, p)
NatFile(p) == At(p.dir, p)

-----------------------------------------------------------------------------
(* Host file system. A directory can be opened but not read.               *)

Exists(f) == f \in DiskFiles /\ disk[f] # "absent"
IsRegular(f) == f \in DiskFiles /\ disk[f] = "file"

(* The positions in RUBYLIB at which a path can be opened, or read. Only a *)
(* path that is neither absolute nor explicitly relative gets here.        *)
LibHits(p) == {i \in DOMAIN LibDirs : p.kind = "plain" /\ Exists(At(LibDirs[i], p))}
LibReads(p) == {i \in LibHits(p) : IsRegular(At(LibDirs[i], p))}

First(S) == CHOOSE i \in S : \A j \in S : i <= j
LibFile(p) == At(LibDirs[First(LibHits(p))], p)

-----------------------------------------------------------------------------
(* Hybrid: Rubylib, then Memory, then Native.                              *)

HasEntry(p) == InMemory(p) /\ MemFile(p) \in entries
HasHook(p) == InMemory(p) /\ MemFile(p) \in hooks

(* resolve_file: whether a loader knows the path, and the name it gives it.*)
(* Rubylib and Memory name the absolute file, Native repeats the path.     *)
FileResolves(p) == LibHits(p) # {} \/ HasEntry(p) \/ Exists(NatFile(p))

FileName(p) ==
    CASE LibHits(p) # {} -> AbsolutePath(LibFile(p))
      [] LibHits(p) = {} /\ HasEntry(p) -> AbsolutePath(MemFile(p))
      [] OTHER -> p

(* read_file: whether a loader can read the path, and the file it reads.   *)
Readable(p) == LibReads(p) # {} \/ HasEntry(p) \/ IsRegular(NatFile(p))

SourceFile(p) ==
    CASE LibReads(p) # {} -> At(LibDirs[First(LibReads(p))], p)
      [] LibReads(p) = {} /\ HasEntry(p) -> MemFile(p)
      [] OTHER -> NatFile(p)

(* is_required: the first loader with an opinion decides. Rubylib has one  *)
(* on the paths it can open, Memory on the paths below VRoot.              *)
IsRequired(p) ==
    CASE LibHits(p) # {} -> LibFile(p) \in libFeatures
      [] LibHits(p) = {} /\ InMemory(p) -> MemFile(p) \in memFeatures
      [] OTHER -> NatFile(p) \in natFeatures

(* mark_required: the first loader to accept the mark keeps it. Rubylib    *)
(* does not reject absolute paths here, as its other methods do: joining   *)
(* one to a load path gives the absolute path back. It refuses a file that *)
(* it has marked before.                                                   *)
LibHandles(p) ==
    CASE LibHits(p) # {} -> {LibFile(p)}
      [] p.kind = "absolute" /\ LibDirs # <<>> /\ Exists(NatFile(p)) -> {NatFile(p)}
      [] OTHER -> {}

LibAccepts(p) == LibHandles(p) \ libFeatures # {}

MarkInRubylib(p) ==
    /\ LibAccepts(p)
    /\ libFeatures' = libFeatures \cup LibHandles(p)
    /\ UNCHANGED <<memFeatures, natFeatures>>

MarkInMemory(p) ==
    /\ ~LibAccepts(p) /\ InMemory(p)
    /\ memFeatures' = memFeatures \cup {MemFile(p)}
    /\ UNCHANGED <<natFeatures, libFeatures>>

MarkInNative(p) ==
    /\ ~LibAccepts(p) /\ ~InMemory(p)
    /\ natFeatures' = natFeatures \cup {NatFile(p)}
    /\ UNCHANGED <<memFeatures, libFeatures>>

(* A path whose mark is_required finds again: with RUBYLIB set, the mark of*)
(* an absolute path may be left where nobody looks for it.                 *)
Markable(p) == LibDirs = <<>> \/ p.kind # "absolute"

(* A mutant of MarkRequired: Memory is asked before Rubylib.               *)
MarkInMemoryFirst(p) ==
    \/ /\ InMemory(p)
       /\ memFeatures' = memFeatures \cup {MemFile(p)}
       /\ UNCHANGED <<natFeatures, libFeatures>>
    \/ ~InMemory(p) /\ (MarkInRubylib(p) \/ MarkInNative(p))

MarkRequired(p) == MarkInRubylib(p) \/ MarkInMemory(p) \/ MarkInNative(p)

-----------------------------------------------------------------------------
(* LoadSources: the lookups of load.rs, which retry with the rb extension. *)

HasRb(p) == p.ext = "rb"

(* resolve_source_path *)
Resolves(p) == FileResolves(p) \/ (~HasRb(p) /\ FileResolves(WithRb(p)))
ResolvedName(p) == IF FileResolves(p) THEN FileName(p) ELSE FileName(WithRb(p))

(* A mutant of AlreadyRequired: the rb name is not tried.                  *)
RequiredAsGiven(p) == IsRequired(p)

(* require_source: whether it answers AlreadyRequired, and otherwise the   *)
(* path it runs the hook of, reads, evaluates and marks.                   *)
AlreadyRequired(p) ==
    \/ IsRequired(p)
    \/ ~HasHook(p) /\ ~HasRb(p) /\ IsRequired(WithRb(p))

RequireTarget(p) ==
    IF \/ HasHook(p)
       \/ HasRb(p)
       \/ ~HasHook(WithRb(p)) /\ Readable(p)
    THEN p
    ELSE WithRb(p)

(* def_rb_source_file and def_file_for_type: only Memory is writable.      *)
DefRbSourceFile(f) ==
    /\ entries' = entries \cup {f}
    /\ UNCHANGED <<disk, hooks, featureVars>>

DefFileForType(f) ==
    /\ entries' = entries \cup {f}
    /\ hooks' = hooks \cup {f}
    /\ UNCHANGED <<disk, featureVars>>

=============================================================================

# A verification of Artichoke

Artichoke is a Ruby made with Rust: the mruby virtual machine, a Rust
interpreter around it (`artichoke-backend`) that implements Ruby Core, the
crates that Ruby Core is made of (`spinoso-*`, `scolapasta-*`), and a command
line with a REPL (`src/`). This directory holds TLA+ models of the parts of it
that keep state over time, the TLC runs that check them, and TLAPS proofs of
the theorems that matter most. `PROJECT.json` lists components, runs, mutants,
the source lines behind each definition, findings, hazards and theorems.

Everything runs in one thread. What makes the system hard is re-entrance: Rust
calls into the VM, the VM runs Ruby code, and that code calls back into Rust,
while the Rust call below it is half done. `require` runs a source that
requires; `scan` yields to a block that scans; each crossing moves the one
`State` of the interpreter, and an exception jumps over any number of frames.

## Inventory

| Part | State | Operations | What makes it correct |
|---|---|---|---|
| Load paths (`load_path.rs`, `load_path/`, `artichoke-load-path`) | three file systems, each with a set of loaded features; hooks in memory | resolve, read, is_required, mark_required, write_file, register_extension | a mark is found again by each spelling that led to it, and only evaluated sources are marked |
| Feature loading (`load.rs`, `eval.rs`, `extn/core/kernel/require.rs`, `src/ruby.rs`) | the calls in progress | require, require_relative, load, eval, eval_file, inline eval | require succeeds once; contexts are pushed and popped in pairs over returns and exceptions |
| Parser state (`state/parser.rs`) | a stack of contexts, and a filename and line number in C | push, pop, reset, add_fetch_lineno | the C copy never goes stale; the 16 bit line number never wraps |
| REPL (`src/repl.rs`, `src/parser.rs`) | buffer, verdict on the buffer, the C parser state | a line, Ctrl-C, Ctrl-D, errors | the prompt tells whether there is code in the buffer; a new input is judged by itself |
| Rust and mruby boundary (`artichoke.rs`, `ffi.rs`, `macros.rs`, `error.rs`, `sys/protect.rs`, `gc/arena.rs`) | the `Box<State>`, `mrb_state.ud` and `allocf_ud`, the native stack, the GC arena, `mrb->exc` | calls into C, trampolines, raise, savepoints, open, close, into_raw | the State is where control is; savepoints restore the arena; no exception is left over |
| Regexp globals (`extn/core/regexp`, `state/regexp.rs`, `String#scan`) | `$~ $& $1 ...` and a count of them | match, =~, ===, scan with and without a block | all globals are of one match; a block sees its own |
| Strings shared with C (`spinoso-string/src/buf`, `extn/core/string`, `convert/boxing.rs`) | raw parts in each RString, allocations, the buffer sprintf fills | make, read, change, resize, C string, free; sprintf in C | parts and buffers agree, one owner each, C finds a NUL, writes stay inside |
| Objects that own a Rust value (`convert/boxing.rs`, `class.rs`, `class/registry.rs`, `Artichoke::close`) | the heap of mruby, the boxes that its objects point at, the Specs with the free functions, the constants that name the classes | allocate, dup, initialize, unbox, alloc_value, collect, define a class, close | a box is freed once and as its own type, no later than the close; what a trampoline holds stays alive |
| Arrays shared with C (`extn/core/array`, `spinoso-array`) | raw parts in each RArray, allocations, the calls that run Ruby code while they hold the parts | the C API, `[]=`, push, pop, shift, concat, insert, replace, initialize, free | parts and buffers agree whenever other code runs; a call changes its receiver as Ruby says, or not at all |
| Array methods in Ruby (`array.rb`), positions and ranges (`trampoline.rs`) | none: functions of their arguments | select, delete, sort, bsearch, set operations, combinations, flatten, insert, slice!, fill; `[]`, `[]=` | the same elements in the right order; no index outside |
| Strings of characters (`spinoso-string/src/enc`, `extn/core/string`, `string.rb`) | none | characters, chr, chop, chomp, reverse, center, index, byteslice, inspect; in Ruby strip, split, each_line, sub, gsub, tr, delete, upto, ... | all ways of counting characters agree, in invalid strings too; what is cut apart adds up to the string |
| Symbols, escapes, integers (`spinoso-symbol`, `scolapasta-string-escape`, `scolapasta-int-parse`) | none; an iterator has a cursor | identifier types, inspect, `Integer()`, `to_i` | every text of one kind is read, and only those |
| Time (`spinoso-time`) | seconds and nanoseconds, in two implementations | at, compare, subtract, succ, add, round | nanoseconds are within their second, instants are exact |
| Env (`spinoso-env`, `extn/core/env`) | the values of the variables by name, in a map or in the process | get, put, merge!, replace, delete_if, select!, shift, ... | methods that do the same thing agree; a Hash that is refused leaves its first pairs, and no others |
| StringScanner (`strscan.rb`) | the string, a position, the last match and where it ended | scan, check, skip, match?, their `_until` forms, get_byte, getch, pos=, `<<`, unscan, ... | the scanner goes on by the bytes it matched; what is before and behind a match adds up to the string |
| Thread and Mutex (`thread.rb`) | a stack of threads, the exceptions that unwind them, the owner of a Mutex | new, lock, unlock, try_lock, sleep, synchronize | the current thread is the innermost; a failure ends what it should and no more; a Mutex is given back |
| Hash methods in Ruby (`hash.rb`) | none: functions of their arguments | `[]`, merge, select, reject, delete_if, invert, transform_keys, ... | order of keys and last values are kept; no pair is passed over |
| Random, Math, exceptions, output, `mezzaluna-feature-loader`, the command line | tables, values | see "Not modelled" | |

How they interact: the command line and the REPL push a context and evaluate
code (`eval.rs`). The VM runs it and calls trampolines, which take the `State`
out of `mrb_state` (`macros.rs`), and call the code of a component with it.
`Kernel#require` asks the load paths in the `State` and evaluates what it
reads, under a context that it pushes; so do hooks of built-in features. Regexp
methods set globals of the VM and a count in the `State`, and may yield. mruby's
C code reads and writes the raw parts of the Strings and Arrays that Rust code
packed, and its collector frees the values of Rust that objects own, through
the functions of Specs that the `State` keeps.

## Modules

| Module | Models | Composed with |
|---|---|---|
| `LoadPath` | the three loaders and the lookups of `load.rs` | extended by `FeatureLoader` |
| `ParserContext` | `state/parser.rs` | extended by `FeatureLoader` and by `Repl` |
| `FeatureLoader` | require, load and eval as a stack of calls | `LoadPath`, `ParserContext` |
| `RequireOnce` | abstract: what require keeps, which is less than it promises | implemented by `FeatureLoader` (theorem) |
| `Repl` | the interactive loop and its parser | `ParserContext` |
| `FfiBoundary` | State, frames, exceptions, arena | |
| `OneState` | abstract: one State that moves with control | implemented by `FfiBoundary` |
| `RegexpGlobals` | the globals of Regexp methods | |
| `NulTerminatedVec` | the byte buffer of `spinoso-string`, as operators on Vecs | extended by `BoxedString` |
| `BoxedString` | RStrings, their buffers, the calls on them, sprintf | `NulTerminatedVec` |
| `RubyString` | abstract: strings with texts of their own | implemented by `BoxedString` |
| `ArrayOps` | the methods of the three Arrays of `spinoso-array`, on sequences | extended by `BoxedArray`, an instance in `Positions` |
| `BoxedArray` | RArrays, their buffers, the calls on them and the conversions in the middle | `ArrayOps` |
| `RubyArray` | abstract: arrays with elements of their own | implemented by `BoxedArray` |
| `DataObjects` | objects that own Rust values, Specs, the collector, closing | |
| `Utf8`, `SpinosoString` | characters in bytes, and the methods on them | each extends the one before |
| `Positions` | positions and ranges; `[]` and `[]=` of Array and MatchData | `ArrayOps`; extended by `Indexing` and `ArrayLaws` |
| `ArrayLaws` | what Ruby documents of Arrays and the positions in them, and the inputs of `algorithms` | extends `Positions`; extended by `MCAlgorithms` and `AlgorithmProofs` |
| `Indexing` | `[]`, `index` and the like of String | extends `SpinosoString` and `Positions` |
| `ArrayMethods` | the methods of `array.rb` | extends `Indexing` |
| `StringMethods` | the methods of `string.rb` | extends `Indexing`, an instance in `MCAlgorithms` |
| `Env` | the two stores of variables and the methods of `env.rb` | an instance in `MCAlgorithms` |
| `HashMethods` | the methods of `hash.rb` | an instance in `MCAlgorithms` |
| `StringScanner` | the scanner of `strscan.rb` | extends `Indexing`, an instance in `MCAlgorithms` |
| `Threads` | Thread and Mutex of `thread.rb` | an instance in `MCAlgorithms` |
| `SymbolIdent`, `Inspect` | identifier types; the states of the inspect iterators | extend `Utf8` and each other |
| `IntegerParse` | `Kernel#Integer`, `String#to_i` | an instance in `MCAlgorithms` |
| `TimeOps` | the two implementations of Time | an instance in `MCAlgorithms` and `AlgorithmProofs` |
| `FeatureLoaderProofs`, `ReplProofs`, `FfiBoundaryProofs`, `RegexpProofs`, `BoxedStringProofs`, `BoxedArrayProofs`, `DataObjectsProofs` | theorems | the modules they are named for; the first has the lemmas on `LoadPath`, the theorems on contexts and the refinement of `RequireOnce` |
| `AlgorithmProofs` | theorems about operators, and those of `ArrayLaws` | extends `ArrayLaws`, `Threads`; `ArrayOps`, `TimeOps` |
| `MCPrograms` (programs that load features, and the airb loop), `MCFfiBoundary`, `MCRegexpGlobals`, `MCBoxedString`, `MCBoxedArray`, `MCDataObjects`, `MCAlgorithms` | small instances for TLC | |

### LoadPath and FeatureLoader

`entries`, `hooks` and `memFeatures` are the `Memory` file system (a file with
an entry, an extension hook, a place in `loaded_features`), `natFeatures` and
`libFeatures` the sets of `Native` and `Rubylib`, `disk` what the host has at a
path. `IsRequired`, `MarkRequired`, `FileResolves` and `Readable` are the
methods of `Hybrid`, with the order in which it asks its loaders;
`AlreadyRequired`, `RequireTarget` and `ResolvedName` are the lookups in
`load.rs`, with their retry under the `rb` extension. A path is a record of what
the loaders tell apart: absolute, explicitly relative (`./`, `../`) or plain,
its directory, stem and extension. All layouts of the disk and of the memory
that the configuration admits are initial states. The disk does not change.

`calls` is the stack of calls of `load_source`, `require_source` and `eval` that
are running a hook or a source. `KernelRequire` and its like are one trampoline
each: the lookups, the push of the context, and the answers that come at once.
`RequireReturns`, `LoadReturns`, `EvalReturns` and `Raises` are the rest of the
call after the hook or the source ended: the mark, the pop, the answer. What a
source does is arbitrary, so each action that Ruby code can take is enabled
while a body runs. `Host...` actions and `Eval` are for embedders and hooks, who
use the `LoadSources` and `Eval` traits directly and push no context.
`answer` and `done` are history.

Left out: symbolic and hard links (the handle of a file is the file),
directories within relative paths (`./` names the working directory, `../`
another one outside of the memory file system), files without read permission
(they count as absent), paths with NUL bytes or in other encodings, and
`source_is_file`, which no path of `require` calls. `eval_file` is called by the
command line only, with no call in progress.

### ParserContext and Repl

`filename` and `lineno` are fields of the C `mrbc_context`, `stack` is the Rust
stack. `Popped` leaves the empty stack empty, as `Vec::pop` does. `CountLines(n)`
is the loop of the REPL over `add_fetch_lineno(1)`.

`Hold`, `Evaluate`, `Interrupt` and `Stop` are the ways through one turn of
`repl_loop`; `Parse` is `Parser::parse`, and `Verdict` the order of its tests.
The text in the buffer is abstracted to what a fresh parser would find in it.
`heredoc` is the field `parsing_heredoc` of the one `mrb_parser_state` that
serves all lines: `mrb_parser_parse` resets other fields, not this one. Some
verdicts cannot occur (`CodeTooLong`, `UnterminatedBlock`, and the ends and
regexps that need a captured message); the model has their names only. The
model does not follow the effects of evaluated code: `BalancedContexts` in
`FeatureLoaderProofs` shows that it leaves the context stack as it was.

### FfiBoundary

`frames` is the native stack. A frame of Rust is all Rust code that shares one
`Artichoke`: the embedder's, or a trampoline's; `held` is whether its `state` is
`Some`, `saves` its live `ArenaIndex`es. A frame of C is a call to the VM, under
`mrb_protect` or not, or `mrb_open_allocf`. `CallC` and `CReturns` are the two
halves of `with_ffi_boundary` and `Extract` is `from_user_data`; `Enter` and
`Return` are `unwrap_interpreter!` and the drop of its locals in reverse order;
`Raise(i)` is `error::raise`, with a longjmp that lands in frame `i`. What C code
does is external: it may call trampolines, allocate, restore the arena to where
it was when it was called, raise, and rescue.

Left out: errors while the interpreter is opened, finalizers that run while it
is closed, and an exception with no landing pad at all, which aborts the process.

### RegexpGlobals

`nth` is `$1, $2, ...`, `whole` is `$&`, `around` the match that `` $` `` and `$'`
are of, `last` is `$~`, `active` the count in the `State`. `Finds` and `Misses` are
the branches of `match_`; both backends do the same, up to `Numbered`: the
Oniguruma backend numbers captures from the whole match. `blocks` are the
methods that have yielded, so that any Ruby code, which means any other action,
runs between two matches of a scan. `SetForBlock` is what a scan sets before it
yields, `BlockReturns` what follows. `scanned` is history: whether a Regexp has
been scanned for. A haystack that is not UTF-8 raises before
anything changes; errors of conversions within a method are left out, and a
group that takes no part in a match counts as set to its text.

### NulTerminatedVec, BoxedString and RubyString

The interpreter builds `spinoso-string` with a buffer that keeps NUL bytes at both
ends of the spare capacity of a `Vec`. A Vec is a record of its allocation and
its length, and an operation is the set of Vecs it may leave: the allocator may
give more than it was asked for, and bytes that nothing has written are any.

`string` holds the raw parts of each RString, `memory` what is allocated at each
address. `Unbox` is `unbox_from_value`, which makes a String of the parts and
ensures the terminator; `Box` is `box_into_value`, where the buffer may have
moved because it grew. A call that only reads wraps the String in an
`UnboxedValueGuard` and forgets it: `Reading` is the memory after that, and a
buffer that moved then would leave the parts with a dangling pointer. Each
action is one call, from the C API (`ffi.rs`) or from Ruby (`trampoline.rs`).

`fill` is a `sprintf` in progress. `mrb_str_format` writes through the pointer of
an empty String, behind its length, and between its writes it converts values,
which runs any other call. `Push` is the macro of that name with the `CHECK` in
it, which doubles the room and calls `mrb_str_resize`; a `CHECK` on its own is a
`Push` of nothing. Its first room of 120 bytes is any in the model.

`RubyString` is what a program sees: texts, and calls that change their
receiver only; a new string may be empty, as that of sprintf is. `mrb_str_resize` cuts there, and never extends: that is what the
code does, and `FormatReturnsText` is about what C code makes of it. `call` is
history, so that each step must be what the call it names promises.

Left out: an RString between its allocation and `initialize`; a String appended to
itself that has to grow for it, where the slice that is copied may be freed before it
is read (`GrowsUnderItself`; as long as it need not grow `s << s` is in the model); a
String that C code concatenates to itself (`mrb_str_cat_str`); frozen strings, which stay as they are; encodings and their bits in the flags; operations made of those modelled.
Running out of memory is an error in `mrb_str_resize` only, as in the code;
elsewhere a call that would need more than `MaxCapacity` is not taken.

### ArrayOps, BoxedArray and RubyArray

`ArrayOps` has one operator per method of `spinoso-array`; the interpreter is
built with the Array on a `Vec`. Those on `SmallVec` and `TinyVec` have operators of their
own where their code differs, and `BackendsAgree` compares the three.

`array` holds the raw parts of each RArray, `memory` the capacity and elements at
each address. A call that only reads or that changes at once is one action.
`calls` are those that convert an argument, or run a block, while they hold the
parts: `Enter` begins one, and `Answer`, `AsetEnds`, `ShiftEnds`, `ConcatGathers` and
their like go on with it. Between the halves any Ruby code runs, so any other call may
come by, return or fail, and the half-finished call ends with the parts that it took
at its start. `leaked` is history: the
buffers that a second `initialize` leaves behind. `TouchHeld` says whether
Ruby code changes an array that a call below it holds the parts of. Rust states
that as an obligation of the caller (`boxing.rs:60`, "Safety" of `as_inner_mut`), which
nothing keeps Ruby code from breaking: the code has no guard against it. So there are two runs:
`boxed_arrays`, without such calls, shows that nothing else goes wrong, and `array_stale`, with
them, that the parts then describe no buffer any more: the count of a shift is converted by code that appends
to the array, the buffer moves, and shift packs the old parts again.

`RubyArray` is what a program sees: elements, and calls that change their receiver
only, and by what they say. `call` and the results are history.

Left out: frozen arrays; an RArray between its allocation and `initialize`; a
receiver that is its own argument (`a[0] = a` does nothing); the output of join;
a block that changes the receiver; `flatten` of a recursive array.

### DataObjects

`objects` are the data objects on the heap of mruby, with their class, whether
they have a singleton class, and the two pointers, to the box and to the type.
`boxes` are the values of Rust in the order they were boxed, each with
the types it was freed as. `registry` are the Specs in the `State`, `constant` the
classes that their constants name, which Ruby code may assign. `CanUnbox` is the
order of tests of `unbox_from_value`: a registered Spec, a class under its name,
that class itself (neither a subclass nor a singleton class), the type, a pointer. `held` are the
values that trampolines hold while they run Ruby code; the receiver of a
trampoline is on the VM stack, so that `Collect` leaves it. `Initialize` points the
object at a new box and forgets the old one (`orphans`), which is never freed;
`Regexp#initialize` refuses what it can unbox. `AllocValue` boxes first, and allocates in the class
that the constant names now. mruby gives the object any class whose instances have no tag of their
own, so one of Ruby's `Class.new` (`Plain`), or another Spec's, gets a live object that owns the box with the
Spec's type, and that can be unboxed as long as the constant names that class; only a class of another
kind of instances (`Core`, such as String) raises, and the box is an orphan.

`Close`, `CloseFree` and `DropSpecs` are `Artichoke::close`: the free functions are in the
Specs, so the registry has to outlive the heap.

Left out: the order in which the collector goes (any), modules, method tables,
instance variables, and the finalizers of other libraries.

### Utf8, SpinosoString, Positions, Indexing, ArrayMethods, StringMethods and Env

A string is a sequence of bytes, a byte is named by its ASCII character or its
hexadecimal value. `Utf8` decodes as the crates `bstr` and `simdutf8` do, which are external: the
longest valid prefix is one invalid character. `SpinosoString` has the five ways
in which the crate finds characters, and the methods that cut, turn, pad and search. Its other
encodings, ASCII and binary, have a character for each byte.

`Positions` is what the trampolines make of Integers and Ranges: `Resolve` of a
negative index, `BegLen` of a range in C, with its overflow, and the slices and
assignments of Array and MatchData that follow; `Indexing` has those of String. `ArrayMethods` are the methods of `array.rb`; one that
changes its receiver answers with the array it leaves. A block is the function of its
answers. `StringMethods` are the methods of `string.rb`, made of `[]`, `length`, `chars` and
`index` as `Indexing` has them. Patterns are Strings, or Regexps that match
just one text; the methods that take a block or a Hash, and the `!` versions, which
assign the result, are left out.

`Env` has the two stores, which differ only in what they were started with: a
process may have names that begin with `=`, which `put` refuses. The methods of
`env.rb` go through a copy of the store in the order of a Hash, any order in the
model, while their block may change the store: a block says for which names it
answers true, and sets one variable at one of them. Left out are conversions
of arguments, the other threads of the process, and the platform's strings.

### HashMethods, StringScanner and Threads

A Hash is the sequence of its pairs; what mruby does itself (lookup, `[]=`, keys and
the deletion of one key) is external. `DeleteAt` is `each` with a block that deletes:
it counts positions of a Hash that gets shorter. Defaults of a Hash, `inspect`, `dig` and
blocks that add keys are left out.

`StringScanner` has an operator for each method, from the scanner and what the Regexp
matches behind its position to the scanner and the answer it leaves. A Regexp is a text
that it matches, or `/./`; a MatchData counts characters from its own beginning, the
scanner counts bytes. Groups, `inspect` and the obsolete names are left out.

`Threads` is the interpreter's stack of threads as a record. A `frame` is a block in
progress: of a Thread, which runs when it is made and on top of its maker, or of
`synchronize`. An event begins a frame, ends the innermost one (with a value, an
exception that `rescue` takes, or one that it does not) or calls a Mutex; code that
gets an exception rescues it or ends with it, which is the next event. Left out are
names, priorities, locals and the other attributes of a Thread.

### SymbolIdent, Inspect, IntegerParse and TimeOps

`SymbolIdent` is `parse_ident`; `Inspect` the iterators of `inspect`, as a string of what they
still have to give; `IntegerParse` the state machine of `Kernel#Integer` with the
collection of digits and the prefix, and the loop of `String#to_i`. `MaxInt` stands for
`i64::MAX`. `TimeOps` has the arithmetic of both Times, with wrapped and
checked additions where the code has them; calendars and zones are left out.

## Runs

Only `data_objects` has fairness, `WF_vars(Closing)`: `close` is one Rust function that
runs no Ruby code, so once it has begun nothing but the end of the process
stops it. Otherwise nothing in the code schedules, and a program, a user or a
caller may stop at any point, so the checked properties are safety properties,
and `CHECK_DEADLOCK FALSE` says that a behaviour may end (strings never do: one
can always be read).

| Run | Shows | Bounds, and why they are enough |
|---|---|---|
| `programs` | of loading: `MarkedWasEvaluated`, `RequiredStaysRequired`, `ContextsBalanced`, `RunsInOwnContext`, `FilenameIsTop`, `LeftoversUnread`; of airb: `PromptIsHonest`, `LinesCounted` | a feature under three spellings and a source that it may require, which is also run as a program; the feature on disk (as a file, a directory or not at all), in RUBYLIB or not, in memory with or without a hook, and defined there also between two calls: all three loaders, one of which shadows another; three calls deep: a call, one within it, and one within that which fails and is rescued in the middle; three contexts. Of airb line numbers up to 6 and 8 lines, so that the count overflows in the middle of a buffer of 3. A program is either one that loads or airb, chosen at the start |
| `ffi_boundary` | `StateFollowsControl`, `KeepsOneState` | six frames: host, C, Rust, C, Rust, C, so that an exception jumps over a Rust frame and its C code is called again after it; two savepoints a frame |
| `regexp_globals` | `DerivedFromOneMatch`, `BlockSeesItsCaptures` | Regexps of 0, 1 and 2 groups, of both backends: shorter matches after longer ones; two matches in a string, so that a scan goes on after a block; blocks two deep: scans within scans |
| `boxed_strings` | `PartsDescribeBuffer`, `OneOwner`, `NulFollows`, `FormatStaysInside`, `KeepsTexts` | three strings, so that two are added into a third or used while sprintf fills one; three addresses, so that a buffer can move while another is in use; allocations of up to three bytes: full, one spare byte, several; bytes 0 and 1; a String is appended to itself while that does not make it grow. Strings and addresses are symmetric: no property names one, and there is no fairness |
| `boxed_arrays` | `PartsDescribeBuffer`, `OneOwner`, `KeepsElements` | three arrays, so that one is the receiver, one the argument and one a result; three addresses, so that a buffer moves while another is in use; nil and one other value, at most two of them: empty, full and one place to spare; one call that runs Ruby code in its middle, and any sequence of calls within it, but those that change an array which the call holds (`TouchHeld`). Arrays and addresses are symmetric; the history of calls is no part of a state's identity (`VIEW`), but of its steps |
| `data_objects` | `OneOwner`, `FreedAsBoxed`, `HeldIsLive`, `SpecsOutlive`, `CloseFreesAll` | two types, one of them with Regexp's check, so that one's constant may name the other's class, a plain class or one of another kind of instances; two objects, so that one is a copy; two boxes, so that an object is initialized again or two have one each; two values held. No symmetry: it is not sound for liveness |
| `algorithms` | twelve properties, below | every input up to a length that covers each branch: texts of 4 bytes over an alphabet with one of each kind of UTF-8 byte, 6 over a smaller one; names of 3 and 5; numbers of 3 and 6; arrays of 4; times of 4 numbers; words of 4; 3 assignments of variables, and of the pairs of a Hash; 3 calls of a scanner on texts of up to 5 bytes, with one that is not UTF-8; 4 events of threads with all calls of a Mutex, 6 without those but synchronize: threads within threads within threads, or sections within them |

In `algorithms` an input grows by a symbol at a time, and each property compares
what the code computes with a definition that does not scan:

* `CharsAgree`: the iterator, `char_len`, `get_char`, `get_char_slice` and `chr` have
  the same characters, which together are the string, valid or not; chop, reverse, center
  and chomp move whole characters; `[]`, `byteslice`, `getbyte`, `setbyte`, `index`, `rindex` and
  `<<` find the characters or bytes at their positions, in texts of up to 5 bytes.
* `SymbolTypes`: `parse_ident` gives the documented types of identifiers, but for
  names that the comment at `TakenForVariable` lists.
* `InspectReadsBack`: what `inspect` writes reads back as the string or the symbol.
* `IntegersParse`: `Kernel#Integer` reads what Ruby's grammar of integers has and
  refuses the rest, but for `LeftOut`; `to_i` reads the longest prefix, but for
  numbers that overflow.
* `BackendsAgree`: the three Arrays, and reference definitions on sequences, up to `Beyond`
  positions behind the end, which is where nil fills up, and with up to `Given` values: fewer and
  more than what is drained.
* `TimesExact`: instants in nanoseconds are what the parts add up to, in order. It says nothing of
  `Time.at` of whole seconds, nor of sums on tz-rs whose nanoseconds come to exactly a second:
  the code gets both wrong, see below.
* `IndexesResolve`: parts of Arrays and MatchData are the elements at the positions that were
  asked for, and what is assigned to them is read there, for indexes around both ends of the
  array and of the Integers (`Indexes`).
* `MethodsAgree`: the methods of Array in Ruby select, order and arrange the elements
  they were given, and lose none; those of Hash keep the order of keys, and delete, merge and
  rename what they should, with the exceptions listed below.
* `StringMethodsAgree`: prefixes, suffixes and whitespace leave what is between them;
  lines and chunks add up to the string; `sub`, `gsub`, `tr`, `delete` and `upto` against
  definitions on sets and positions, with the exceptions listed below.
* `EnvsAgree`: methods that do the same thing in two ways agree; a Hash is put up to the
  first pair that is refused; blocks that set variables as they go.
* `ScannerKeepsPlace`: the scanner moves by the bytes of what it matched and answers them,
  `pre_match`, `matched` and `post_match` add up to the string, a failure moves nothing, and
  unscan goes back to where the last match was looked for.
* `ThreadsNest`: `Thread.current` is the innermost thread in progress; a thread's end
  raises exactly if it is next to the main one and a thread that aborts failed in it; a
  section of a Mutex ends as its block does and gives it back, unless another was begun in it.

Nothing in the other models depends on more: deeper stacks repeat the same frames,
and the theorems below are for all of them.

Violation runs show where the code and its own words differ:

| Run | The code does |
|---|---|
| `repl_heredoc` | after one open heredoc all later input is taken for one |
| `require_twice` | a source that requires itself is evaluated twice, and each require answers Success |
| `array_stale` | shift takes the parts of an array, runs Ruby code that moves its buffer, and packs the old parts again |
| `ffi_savepoint` | a trampoline's savepoint is dropped after its Guard, and restores nothing |
| `format_text` | `mrb_str_resize` never extends, so sprintf returns a String without its text |

`PROJECT.json` has the lines of code and the words they differ from. Each
property of a passing run has a mutant: a change of one definition, such as a
dropped guard or a missing pop, with which TLC finds the property violated.

Further places where the models follow the code and not its words, without a
run of their own. The passing runs state none of them as right: a property is about the other
cases, or says where it makes an exception.

* A directory next to a source and of the same name resolves first, and becomes
  the `__FILE__` of the source (`native.rs:32`; `FileName` and `SourceFile`).
* require_relative from a program named by a bare file name asks RUBYLIB and the
  virtual file system before the directory of the program (`require.rs:142`;
  `JoinParent`).
* The REPL takes each syntax error for an open code block, so that its branch for
  a fatal parser state is never reached (`src/parser.rs:52`; `StateOf`).
* An exception out of a call without `mrb_protect` may stay pending, and unwinds
  frames of Rust that are not entry points (`class_registry.rs:78`; `Unprotected`).
* A failed match leaves `$&`; a scan for a Regexp without groups leaves it as it
  was while its block runs; a scan without a block sets `$1, $2, ...` to Arrays
  (`utf8.rs:309`, `467`, `521`; `Misses`, `SetForBlock`, `ScanCollects`).
* `eval_file` of a file that cannot be read leaves its context on the stack, against
  the test `root_context_is_not_pushed_after_eval` (`eval.rs:58`; `FailToRead`). `LeftoversUnread`
  says that nothing else is left there but the context of an inline program.
* The Oniguruma backend counts captures from the whole match, which is then `$1`
  (`onig.rs:174`; `Numbered`, `Finds`).
* `mrb_str_substr` takes all of the string from its offset, whatever the length it
  is given (`ffi.rs:394`; `StrSubstr`); there and in `mrb_str_index` a negative
  offset has the length of the string subtracted from it, not added
  (`ffi.rs:114`, `386`).
* `mrb_string_cstr` appends its NUL to the contents, so the string is longer
  afterwards (`ffi.rs:467`; `StringCstr`).
* With RUBYLIB set, an absolute path is marked and never found again: it is evaluated on
  every require (`rubylib.rs:257`, `294`; `MarkRequired`, `IsRequired`; `Markable` keeps
  such paths out of the theorems).
* A scan sets groups beyond the count that a match in its block left, and they are
  not cleared later (`utf8.rs:454`; `SetForBlock`).
* A required source counts its lines on from the REPL's (`state/parser.rs:76`; `PushContext`).
* `Time.at` of a whole second is the full end of the second before: `Time.at(10).to_i` is
  9, its nanoseconds are 10^9, and `==` does not hold for other ways to the same
  instant, against `chrono/build.rs:70-97`, where `Time.at(10, 1_000_000)` is `[11, 0]` and the
  remainder is less than the nanoseconds of a second; `Time.at` of the least second is refused
  (`At`; no property asserts it). On tz-rs an addition can leave 10^9 nanoseconds (`math.rs:111` tests `>`).
  Differences and succ wrap at the ends of i64 (`Difference`).
* `Integer("00")`, `"0x0"` and `"0_7"` are refused (`LeftOut`). `to_i` drops the digit that
  overflows, reads a sign after zeros (`"0-1"` is -1) and stops at underscores (`ToI`).
* `@1a=` and `$==` count as variables, against the docs at `ident.rs:171`
  (`TakenForVariable`). `inspect` does not escape `#{`.
* A negative index of `String#[]` counts bytes of a UTF-8 string, a Range counts characters;
  `index` answers a byte position, and searches from the start with an offset below the
  length; `rindex` counts its offset from the end (`Indexing`).
* The range from the first element to `i64::MAX` is empty, since the C code adds one to its end
  (`BegLen`); any other that overflows comes out right, as `RangesHavePositions` says.
* `setbyte` of a negative byte panics: the remainder of a negative number is
  negative, against the comments at `string/trampoline.rs:1519-1547`, where such a byte wraps and
  `setbyte(-3, -1)` writes `\xFF` (`SetByte`; no property asserts it).
* `<<` makes a UTF-8 receiver binary or US-ASCII where Ruby raises, and raises a
  SyntaxError for a US-ASCII receiver, since the code it evaluates lacks a quote
  (`trampoline.rs:220`; `Pushed`). `center` repeats its padding by bytes.
* `initialize` of an array that has elements leaks its buffer, and `initialize_copy` with
  itself empties it. `mrb_ary_ref` takes a negative offset for 0, and so does
  `mrb_ary_set` one before the first element (`BoxedArray`).
* `array.rb`: rotate answers the length and rotate! raises; drop, take and drop_while
  change their receiver; rindex counts from the end; filter and find_index want exactly
  true; `<=>` compares lengths first; bsearch raises when it finds nothing; permutation of
  a negative number yields; union without arguments keeps duplicates; insert before the
  first element counts again from the end; fill with a block wraps (`ArrayMethods`).
* `string.rb`: strip, lstrip and rstrip that would leave one character leave none
  (`"a".strip` is empty), and rstrip leaves a string of only white as it is; ljust
  and rjust stay too short when the padding does not go into the width;
  partition raises without a match; an empty pattern makes `sub` raise for an empty
  string and `gsub` lose the characters; split by a Regexp drops an empty last part,
  split by a String does not; `delete` of several sets deletes all of any of them, and raises
  for `"^a"`; `tr` counts `a-a` twice; each_line and split take byte positions for
  characters, and `end` of a MatchData adds characters to bytes (`StringMethods`, `Indexing`).
* ENV: names that begin with `=` are listed, answer nil, and stay whatever deletes
  them, so shift answers the same one forever; replace answers nil
  when it has nothing to delete; a variable that a block sets after it answered for it stays
  with delete_if, and goes with select!, which deletes afterwards (`Env`).
* `hash.rb`: delete_if and keep_if pass over the pair behind each that they delete; merge
  with a block calls it and merges nothing; compact! always raises (it asks a variable
  that is not there); replace of a Hash with itself empties it; transform_keys! takes a key
  it has just given for the one that had the name before (`HashMethods`).
* `strscan.rb`: a match that begins behind characters that are not ASCII is taken to
  end too far, since `end` adds characters to bytes; getch answers nothing at a newline; `pos=`
  refuses the end of the string; after check and match? pre_match and post_match are not
  those of the match; `skip_until` alone of the `_until` forms clears the
  last match when it fails (`StringScanner`).
* `thread.rb`: `Mutex#lock` and synchronize take a Mutex that an enclosing thread holds,
  against "can never be contended" (`thread.rb:320`), and the outer section raises at
  its end; a synchronize within one of the same thread is refused and yet gives the
  Mutex back; try_lock raises where it should answer false; a Thread without a block pops
  one that is not its own, after which `Thread.current` may be nil and each lock is
  refused (`Threads`).
* `initialize` of a Random again leaves the old generator to the calls that
  hold it. A value whose constant was assigned a class with another kind of instances, such as
  String, raises over its box; one whose constant was assigned a plain class becomes
  an object of that class (`AllocValue`). Subclasses cannot be unboxed (`CanUnbox`).

Seen while reading, in code that is not modelled: a MatchData matches its own region again, so anchors may not match; `Hex::last` ignores
a dangling character; chrono's Time plus a negative float adds its magnitude.

## Proofs

The theorems about components with state are of the form `Spec => []P` or
`Spec => Once!Spec`, those of `AlgorithmProofs` about operators, but for `BackendsAlwaysAgree` and
`IndexesAlwaysResolve`, which are about all inputs of `ArrayLaws`; all are for all values
of the constants that the named assumptions admit, and the bounds on depths, lines
and savepoints are constants too. The assumptions say only what kind of values
the constants are (in `RegexpGlobals` also that the bound on globals covers the
groups of each Regexp, which is what keeps the arrays of the model finite). Two
are stated in the theorems themselves: `~TouchHeld` in `BoxedArrayProofs`, and
`TimeNumbers` in `AlgorithmProofs`.

* `MarkIsFound`, `RequiredStays`: `MarksInv` adds to `RequiredStaysRequired` that a
  running require whose target is not its path fell back to the `rb` name.
  Without that the mark that `RequireReturns` leaves says nothing about the path
  that was asked for. It rests on `MarkIsFound`: of three loaders, the one that
  takes the mark is one that `is_required` asks, for the paths that `Markable`
  admits (with RUBYLIB set, the paths that are not absolute).
* `MarksAreEarned`: only `RequireReturns` marks, and it answers Success.
* `BalancedContexts`, `OwnContext`, `FilenameNeverStale`: `ContextInv` says where on
  the context stack each call in progress stands, from the innermost call,
  whose context is on top, down to the outermost.
* `ImplementsRequireOnce`: each step of the loaders is a step of `RequireOnce` or a
  stutter, with the features for which require answers false as `loaded`. It
  needs `RefinementScope`: paths that can be marked, hooks at names with `rb`, and
  no require_relative while RUBYLIB is set. A circular require is within the
  scope, and so `RequireOnce` is less than `artichoke-core/src/load.rs:233` asks for: its `Begin` may start an
  active feature again, and then require succeeds twice, which is the finding of `require_twice`. What is
  left is that a source starts only while its feature is not loaded, and that a feature is loaded
  only by a source that ended well, and for good. The theorem has no run of its own.
* `LeftOnlyUnread`: of the stack below the contexts of the calls in progress (`BelowCalls`); from `ContextInv` each
  call pops what it pushed, so that a context is left only where `eval_file` or an inline program pushes it.
* `HonestPrompt`, `CountedLines`: `BootInv` fixes what holds before the first prompt.
* `FreshWithoutHeredoc`, `NothingAfterHeredoc` say how far the finding of `repl_heredoc` goes:
  until a line opens a heredoc, each verdict is that of a fresh parser; from then on
  no line is evaluated any more, since nothing clears `heredoc` and `Parse` asks it first.
* `StateIsWhereControlIs`: the invariant says that at most the
  innermost frame holds the State, and that every trampoline lies on a frame of C
  (so that each landing pad finds the State in `mrb_state`).
* `ImplementsOneState`: `Places` maps the frames that hold the State, and the two fields of
  `mrb_state`, to the places of `OneState`; `StateFollowsControl`, at each depth, is what makes each
  step a move of the one State. A raise that drops any number of frames is one `Jump`; saving and restoring the arena and allocating are
  stutters. `OnePlaceAtATime` is proved of `OneState` itself: it follows for whatever implements it.
* `OneMatch`: until a Regexp is scanned for, since a scan within the block of a
  scan breaks it. The invariant adds that all scans in progress are for
  Strings until then. The count matters: `Cleared` clears as many as `active` says, so
  `OfOneMatch` must itself say that no more are set.
* `CapturesSeen` is the action property of `regexp_globals`. It needs no
  more than the types: what a block left is overwritten, whatever it was, by
  `SetForBlock` (`StepSees`).
* `PartsAreTrue`, `BuffersHaveOneOwner`, `AlwaysNulTerminated`, `FormatInside`: one invariant, the
  conjunction of what the run checks, is inductive. The argument goes in a
  circle over time: each operation on a Vec leaves a terminated one with a spare
  byte (the lemmas on Vecs), hence the next String made of the parts is
  terminated already and reading moves nothing (`ReadingMovesNothing`), hence the
  parts stay true while only readers come by; and a call that packs a terminated
  Vec into one string touches no other, since no two share a buffer (`Owners`,
  `Refilling`, `Calling`). sprintf keeps inside because resizing leaves more
  room than it was asked for, whatever the length of the string was (`Resizing`).
* `ImplementsRubyString`: a string is mapped to the bytes of its buffer up to its length,
  and each call to the call of `RubyString` that it names. One more invariant is needed,
  `NothingSaid`: until sprintf returns, its result has the length 0, since it writes
  behind the length and resizing never extends. So what it wrote is never seen as a text:
  `FormatReturnsNothing`, which is the finding of `format_text` for every format.
* `PartsAlwaysDescribe`, `OneOwnerEach`: the invariant is `Heap`, which is the
  properties of the memory as the run checks them, and `Frames`, which says of each call in progress
  that its receiver is alive, that the parts it took are the ones its receiver has now, and
  what it has gathered. Each call that
  moves a buffer moves that of its own receiver, which no call in progress holds: that is
  `~TouchHeld`, the same as in the run, and the obligation that Rust states of the caller and that the
  code does not enforce. The theorems say that where it is kept nothing else goes wrong, at any
  depth of calls within calls; where it is not, `PartsDescribeBuffer` is violated (`array_stale`).
* `ImplementsRubyArray`: an array is mapped to its elements. A call of two halves does to the
  elements what it says at its second half, from the elements at that moment. For
  concat, which replaces the contents by what it gathered, the invariant has to say that
  what is gathered begins with the elements that the receiver has.
* `OwnedOnce`, `FreedOnce`, `HeldAlive`, `SpecsOutliveHeap`, `NothingLeft`: the invariant of
  `DataObjects` is the types, what the phase says of the rest (`PhaseInv`: no
  frames while closing, no Specs and no objects after it), the heap (`HeapInv`: an object has both pointers or
  neither, its box is of its type, one owner each, freed as boxed, orphans
  not freed), that what is held is the box of its object or an orphan
  (`HeldKept`), and that the Specs outlive the objects. `HeldKept` is the one that the properties do
  not say: a held box may lose its object only to `Initialize`, which
  makes it an orphan, and no other way, since the object is rooted. `NothingLeft` is the
  safety half of `CloseFreesAll`: once closed, what is not an orphan is freed. Orphans are made by
  `Initialize`, and by `AllocValue` in a class that mruby refuses to allocate data in; a plain class is not one.
* `SetSliceSplices`, `TinySetSliceSplices`, `SmallSetSliceSplices`, `InsertSlicesSplice`, `SetWithDrainSplices`:
  what the three Arrays do by splitting, shifting, overwriting and resizing is
  compared with one definition, `Spliced`, which says for each position where its element
  comes from. The SmallVec backend has four cases by how many values there are for how many
  drained; that fewer values than drained elements leave no gap is `ReplacedByFewer`.
* `BackendsAlwaysAgree`: `BackendsAgree` of every array, of any elements, length and bounds. The
  invariant is that an input of the subject `arrays` is a sequence of elements no longer than
  `Lengths` says (`IsArray`); the rest are the theorems on the operators. `InputsAssumption` says
  that this length is no more than `MaxInt`, as that of an Array is, that what is passed as an
  index is an i64, and that nil is no Integer.
* `RangesHavePositions`: the positions that a Range means (`InRange`) are defined without sums that
  can overflow. The two sums of `BegLen` wrap, and cancel out: that of an end at the largest Integer
  leaves a size that wraps back (`RubyWraps`), except where the start is 0. It is the proof that
  found which Ranges these are.
* `AssignedIsReadBack`: `[]=` with an index and a length, for all Integers, is refused for a
  negative length and for an index before the first element, and else `Spliced`; `[]` with the
  position it had and the number of values answers these values.
* `IndexesAlwaysResolve`: `IndexesResolve` of every array and every i64, from the same invariant. Reading: that the
  trampoline of Array, which slices, and that of MatchData, which drops and takes from an
  iterator, have the same `Part`, and that the part of a Range has the positions of
  `RangesHavePositions`. Assigning: `ReplacedReads` says where each position of `Spliced` is read from, and
  a Range that was read is assigned without changing anything, since it drains as much as it reads.
* `AtIsExact`, `CmpIsTheOrder`, `DifferenceIsExact`, `CheckedSubIsExact`, `CheckedAddIsExact`, `WholeSecondsAreExact`:
  an instant is its `Total` of nanoseconds, and `OneInstant` says that it can be written in one way
  only, but for full seconds. No sum or difference wraps (`WrappedIs`) without being out of
  the range of years. The exceptions are in the statements: where `Time.at` or a sum has come to a whole second,
  and where whole seconds written in two ways are compared. `TimeNumbers` assumes that the
  nanoseconds of a second, 10^9, are a positive number, since no prover knows powers, and
  that the last second of a 32-bit year is less than half of `i64::MAX` (6.8 * 10^16 and
  9.2 * 10^18).
* `ThreadsStayNested`, `OwnersRun`: with a rank for each block, the height of the stack when it is
  innermost, `Nested` is preserved by each call that Ruby code can make, and by each end of a block, for any
  number of threads and Mutexes. The owner of a Mutex is always the thread of one of its sections
  in progress; where an inner section has taken the Mutex over, the owner is its thread. Left out of `Calls` are
  what breaks it, a Thread without a block, and lock and try_lock, which hold a Mutex beyond a block.
* `AbortsUnwind`: what a thread with `abort_on_exception` that fails does to the others. The invariant adds to
  `Nested` that the stack is in the order in which its threads were made (`Ages`), so that only one of two
  threads is the main one, and that with each thread that unwinds all those around it do. Without
  the latter a thread that fails while it unwinds already, and therefore marks nobody, could
  leave some out.
* `TypeCorrect`, `BoundaryTypes`, `GlobalTypes`, `BoxTypes`, `HeapTypes`, `ArrayTypesKept`: type correctness, which
  is proved and not repeated in the runs.

Only model-checked: `CloseFreesAll`, which is liveness; the properties of `algorithms` as they
stand, but for `BackendsAgree` and `IndexesResolve`, most of which are about operators that recurse over sequences
(`TimesExact` and `ThreadsNest` are about some that do not, and those have the
theorems above; Round and the fractions of seconds need powers of ten, and what has been
begun within a section is told from the whole sequence of calls); and all findings. Out of reach of the provers: liveness under
fairness, ENABLED, induction over data, RECURSIVE operators.

## Not modelled

* Random and SecureRandom: a Mersenne Twister, whose outputs are beyond TLC.
* Math, Float: functions on floating point numbers. Integer: checked operations
  of one line each.
* Exceptions: generated classes with a message. How they travel is in `FfiBoundary`.
* Output, globals, warnings: I/O and lookups in tables of mruby.
* Attributes of Threads; groups and `inspect` of a StringScanner.
* `enumerator.rb`, `comparable.rb` and other methods in Ruby but those of `array.rb`, `hash.rb`,
  `string.rb` and `env.rb`;
  the implicit conversions (functions of one value, and Ruby code in the middle
  of `BoxedArray`'s calls); hexadecimal; case mapping; names of groups of a MatchData.
* The table of symbols (the crate intaglio), the Oniguruma and regex engines, mruby itself.
* `mezzaluna-feature-loader`'s LoadedFeatures and loaders, which nothing here calls.
* The command line, spec-runner, fuzz targets, generators, vendored Ruby sources.

## Plan

1. Done: feature loading and its abstract specification, parser state, REPL,
   boundary, Regexp globals, boxed strings, data objects, with their proofs; boxed arrays
   and their abstract specification; the pure algorithms; the methods of String in
   Ruby and those of Hash; Env; StringScanner; Thread and Mutex.
2. Done: the proofs that `BoxedString` implements `RubyString` and `BoxedArray` `RubyArray`.
   Done too: that `FfiBoundary` implements `OneState`, that the three Arrays agree, what `[]` and `[]=`
   of Array and MatchData do with positions and Ranges, and how threads that abort unwind.
3. `AllSymbols`; Enumerator of `enumerator.rb`.
4. Registries and definitions: method tables and enclosing scopes.

# typeshare in TLA+

typeshare reads annotated Rust items from source trees and generates the same
types in Swift, Kotlin, Scala, Go, TypeScript and Python. This directory holds
TLA+ modules of the whole way from the command line to the generated modules,
TLC configurations that check them on small instances, and proofs for every
instance. Paths are relative to `src/`.

`PROJECT.json` says which definition stands for which lines of the code, which
hazards the properties are for, and, for each property, one plausible bug in the
code that breaks it ("mutants": each is an operator in the module, next to the
one it replaces).

## The system

A run of `typeshare` is one call of `generate_types` (`cli/src/main.rs`), which
goes through the parts in this order:

    files --> file visitor --> ParsedData --channel--> collector: crate -> ParsedData
                                                              |
              written files <-- writer <-- Language <-- reconcile_aliases, all_types
                                              |
                                           topsort

| part | code | state | operations |
|---|---|---|---|
| parallel walk and parse | `cli/src/parse.rs` | walker threads (the `ignore` crate), a channel bounded at 100, a collector thread with the map crate → `ParsedData` | `parallel_parse`, `parse_dir_entry`, `all_types`, `check_parse_errors` |
| file visitor | `core/src/visitors.rs` | `ParsedData` and the imports found in `use` items and in paths | `visit_*`, `ItemUseIter`, `reconcile_referenced_types`, `parsed_data` |
| parsed data, item parsers | `core/src/parser.rs` | items by class, `import_types`, `type_names`, `errors` | `push`, `+=`, `parse_struct`, `parse_enum`, `parse_type_alias`, `parse_const` |
| target_os filter | `core/src/target_os_check.rs` | stack of the attribute walk | `accept_target_os` |
| item model | `core/src/rust_types.rs` | the items | conversion from `syn` types, equality and order |
| case conversions | `core/src/rename.rs` | – | `rename_all` |
| reconciliation | `core/src/reconcile.rs` | map of `serde(rename)`s | `reconcile_aliases` |
| ordering | `core/src/topsort.rs` | dependency lists, `seen`, `processed`, `res`; the slice and its indices | `topsort`, `toposort_impl`, `sort_by_indices` |
| Language trait | `core/src/language/mod.rs` | per instance, see the backends | `generate_types`, `used_imports`, `find_crate_name` |
| backends | `core/src/language/*.rs` | helpers that generated types need: Swift's `CodableVoid` flag, imports of Go and Python, JSON functions of TypeScript and Python | `write_*`, `begin_file`, `end_file`, `post_generation` |
| writer | `cli/src/writer.rs` | the output files | `write_generated`, `check_write_file` |
| configuration | `cli/src/config.rs`, `cli/src/args.rs` | – | `load_config`, `store_config`, overrides by arguments |
| integers, JSON dates | `lib/src` | – | `I54`, `U53` and their conversions |
| attribute macro | `annotation/src` | – | strips `#[typeshare]` |

How they interact: the walker threads and the collector share only the channel
and the walk's quit flag. The map of crates is passed on by value. `topsort`
calls `toposort_impl` and `sort_by_indices`. One Language instance is passed to
every module of a run, so what it remembers of one module is there for the next.
The generated files outlive the run; the next run compares with them.

What is hard, and what makes each part correct:

* **Walk.** Threads finish in any order, the collector stops at the first error
  while threads still send, the caller waits for threads that may block on a
  full channel; the parser may panic in a thread, which tells nobody. Correct: an
  Ok result has every file's data once in its crate; nothing but such a panic
  keeps the call from ending; a failure is reported and not masked.
* **Reconciliation and imports.** Files of a crate are merged in the order they
  arrive, and hash sets and maps are searched for "the first" match. References
  are matched with imports by name after the files' imports were merged, by
  names some of which are before and some after renaming. Correct: references
  name types that exist, modules import what their types refer to, and only what
  exists, in every order.
* **Ordering.** A recursive traversal with an early return on cycles, and an
  in-place permutation that destroys its index vector. Correct: no item lost or
  doubled on any graph, dependencies first wherever no cycle prevents it.
* **Writer.** A run may stop anywhere and its files stay. Correct: a run that
  succeeds repairs whatever was there and touches nothing that is right.
* **Parsing of one file.** Nested `use` trees, `cfg` trees, attribute
  combinations. Correct: items of other platforms are left out and leave no
  trace, imports are those that the `use` items mean, each item is in the module
  of its crate or stops the run with an error.
* **Backends.** Six programs that write the same items, each of which finds in
  two places what a type is called (where it is declared, where it is referred
  to) and in two places what it needs (where it is used, in the head or end of
  the file). Correct: the two agree.
* **Configuration.** Defaults, a file that is searched for, options, and a file
  that is generated from options. Correct: a fixed precedence, and a stored
  configuration that does what its options did.

## Modules

| module | extends/instances | models |
|---|---|---|
| `ParseDirs` | – | abstract: what `parallel_parse` promises its caller |
| `ParallelParse` | instances `ParseDirs` | threads, channel and caller of `parallel_parse` |
| `ParallelParseProofs` | `ParallelParse` | proofs |
| `Toposort` | – | `toposort_impl` |
| `ToposortProofs` | `Toposort` | proofs |
| `SortByIndices` | – | `sort_by_indices` |
| `Topsort` | instances `Toposort`, `SortByIndices` | dependency lists, and `topsort` as the composition of the two |
| `MultiFile` | – | the pipeline between the parsed files and the imports of the modules |
| `MultiFileProofs` | `MultiFile` | proofs |
| `Writer` | – | a series of runs over one output folder or file |
| `WriterProofs` | `Writer` | proofs |
| `TopsortProofs` | `Topsort`, instances `ToposortProofs`, `AlgorithmProofs` | proofs |
| `RenameExt` | – | the case conversions, on strings |
| `Attributes` | – | readers of attributes, and the `cfg` filter |
| `Outcomes` | – | what the parts hand to one another: failures, imports, texts |
| `RustTypes` | `RenameExt`, `Outcomes` | types: conversion from syntax, what they contain |
| `Parser` | `Attributes`, `RustTypes` | the item parsers |
| `Imports` | `Parser` | imports in the syntax of an item, references of a parsed item |
| `Language` | `Parser` | default methods of the trait; the abstraction of what is written |
| `Swift`, `Kotlin`, `Scala`, `Go`, `Python`, `TypeScript` | `Language` | the backends |
| `Backends` | the six backends | each operation of a backend by the language of the run |
| `Config` | `Outcomes` | configuration files and options |
| `Visitor` | `Config`, `Imports` | the walk and the visitor: variables and actions |
| `Typeshare` | `Visitor`, `Backends` | runs of the tool, and what they promise whatever the backends write |
| `TypeshareProperties` | `Typeshare` | what runs promise from the syntax to the modules, with the cases in which they do not |
| `TypeshareProofs` | `TypeshareProperties` | proofs: the way from the sources to the items of a crate and through a run |
| `TypeshareModuleProofs` | `TypeshareProofs` | proofs: what is in the modules, in each language |
| `Integers53` | – | `U53` and `I54` |
| `AlgorithmProofs` | `SortByIndices`, `Integers53` | proofs |
| `MC*` | the module named after MC (`MCTypeshare`: `TypeshareProperties`) | the instance TLC checks |

### ParallelParse and ParseDirs

`outcome` is the input: what `parse_dir_entry` does with each entry of the
tree, `Ok(None)`, `Ok(Some(data))`, an error, or a panic: the parser runs in the
walker's closure and has its own `expect`s and `unwrap`s (`visitors.rs`, 402;
`parser.rs`, 257, 428, 781; `rust_types.rs`, 357), which `Parser` and `Visitor`
reach from the syntax. A walker thread is at `pc[w]`:
`idle` (in the `ignore` crate), `visiting` (parsing the entry `work[w]`),
`sending` (in `tx.send`), `quitting` (returning `WalkState::Quit`), `done` or
`panicked`. `chan` is the crossbeam channel. The collector goes from
`collecting` to `ok`, or to `failing` and `failed`: between these two it has
decided to return the error but the receiver is not dropped, so that sends may
still succeed. `main` is the calling thread: `walking` until all threads
stopped, `joining`, then the result.

The `ignore` crate is not in the repository. Its walk is modelled as external:
an entry can be taken once its directory was visited, a thread stops when it
sees the quit flag or when all threads are idle and nothing is left, and a
panicked thread is not idle, so that the others wait for the flag. That makes the
two panics of a walker different. One whose `send` fails has lost the receiver to
an error, and the walker that sent that error raises the flag: the call ends. One
that the parser takes down has sent nothing and raises no flag. Unless an error of
another entry does, or no other walker is left, the rest poll for work for ever,
the collector waits for their senders and the caller for the threads (`Hangs`, a
state that nothing leaves): **a panic of the parser hangs the program**. `CallEnds`
says just this: every call ends or gets there, it ends if the parser panics on no
entry, and it ends once the flag was raised, whatever panicked.

`ParseDirs` has no threads and no channel: in one step a call returns Ok with
everything merged, returns the error of a failing entry, or unwinds, which it
may only do if the parser panicked on an entry, or if an entry failed and another
had a result. It does not promise that there is a verdict. `ParallelParse`
implements it (`ImplementsParseDirs`) under a refinement mapping that hides the
collector's data until the call returns.

### Toposort, SortByIndices, Topsort

`Toposort` models the recursive closure `inner` as a stack of activations with
the position each has reached, so that the early return on a cycle (which
abandons the rest of the list of the activation) is a step like any other.
`processed` and `res` always get the same nodes and are one variable.

`SortByIndices` has one step per turn of the two loops, with the swaps done in
place on `data` while `indices` is overwritten.

`Topsort` adds what `topsort` does around them. Items are records of a kind, the
name in Rust, the generated name and the references of their fields (`RustItem`,
over any set `Ids` of names). `FromType` and `GetDependencies` are the dependency
functions; a reference is the head of a type and the `id()` of each of its
parameters, which is as deep as `get_dependencies_from_type` looks (it looks
through `Vec`, `Option` and `HashMap` around a type, not within its parameters).
Names nested deeper are in `nested`: they are uses that no dependency list has,
and `PlainItemsAfterUses` leaves out items with any that is known. Type parameters
of an alias are taken not to be called like an item of the file
(`get_type_alias_dependencies` would look that item's fields up). Their
recursion collapses: `get_dependencies` puts its item into `seen` and returns at
once if it is there, and `get_dependencies_from_type` inserts the type in `seen`
before it calls `get_dependencies` on it, so dependencies of dependencies are
never followed. `Toposort!Step` and `SortByIndices!Step` are then the steps of
the composition, the second started with what the first returned.

### MultiFile

Input is a `world`: for each file its items by class, the imports its `use`
items and paths stand for, and whether an item failed to parse. Actions, in the
order of the phases:

* `MergeFile(f)`: the visitor drops the imports that no type of the file needs
  (`RetainedImports`), and the collector appends the file to its crate, in any
  order of files.
* `ReconcileCrate`: `reconcile_aliases` for one crate, in map order: references
  resolved (`Resolve`), lists sorted, consts left alone. What earlier crates
  became does not matter for later ones, since the renames were collected
  before. `SerdeRenamed` reads names and generated names only, which no step
  changes.
* `AllTypes`: the type names are taken out of the crates, and parse errors end
  the run.
* `LookupWildcard`, `LookupDeclared`, `LookupFallback`: one import of the
  current crate is looked up in `used_imports`, in any order, as a `HashSet`
  yields them. `NextCrate` goes on to the next module.

The iteration order of the `HashMap` of all types is chosen once, in `Init`,
because its hasher is seeded once per map and the map does not change. The
search in a `HashSet` by name is a choice among the matches.

What a reference means is only clear in some sources, and the properties speak of
those (`Means`): one type of the name that the file can see, and in the crate no
other item, a const included, that is called like it or generated under its name,
since `type_names` holds the names of both and hides the import.

With a single output file there is one crate and no imports, and this module
says nothing beyond the order of items. Go and Python override `generate_types`
and write no imports of other modules; `used_imports` matters for the other
four.

### Writer

A run starts from any member of `Sources` (crates, what their modules contain,
which helpers they need, which fail to generate), generates in map order
(`Before`), compares and writes. Creating a file and writing it are two steps,
because `fs::write` truncates first, and an error or a kill may come between.
`output` is `"file"`, `"folder"`, or `"apart"` for Swift with a folder, where
`CodableVoid` goes to `Codable.swift` after all modules. `disk`, `mtime` survive
runs; `carried` is the state of the Language instance and starts empty in every
run. `before` is a history variable: the disk at the start of the run. `Codable.swift`
goes to an unbuffered file with `writeln!`, that is in two writes, the text
(`WriteCodable`) and the newline (`EndCodable`). A run that stops between them
leaves the one content that the next run's comparison accepts.

`check_write_file` does nothing for empty contents. A module is generated from
at least one item or is given a header, so this guard does not decide anything
and is not modelled.

### Typeshare, from the command line to the modules

`ParallelParse`, `Topsort`, `MultiFile` and `Writer` take what flows between the
parts as given. `Typeshare` has what flows: it starts from syntax and ends with
what the modules say. It is sequential where those modules are not: files are
taken in any order but one after the other, since only the results of walker
threads meet (`ParallelParse`); items of a module are written in any order,
since their order is `Topsort`'s; modules are made in any order. What a panic of
the parser does to the other threads is taken over from `ParallelParse`: the run
ends in phase `panicked` or is left `hanging` (`LoseWalker`), in which case there
is no next run. It cannot hang while a file that is not Rust is still to be
taken, because that raises the quit flag; and such a file may itself end the run
by unwinding (`FailToParse`).

A `world` is the input: files with their path, attributes and items, the
directory the tool runs in, the configuration files there are, and the arguments
of a series of runs. Items that are never parsed (functions, impls) are items
without the attribute: the visitor takes their paths, as it takes those in
attributes, bounds and expressions of any item (`paths`). Syntax is what `syn` yields, as records: a type is its form
with the first and last segment of its path and the types in it, an attribute is
a tree of `Meta`s, a `use` item is a tree. Actions:

* `GenerateConfig` (`--generate-config`) stores the options in a file;
  `GenerateTypes` loads the configuration, applies the options (`Config`) and
  starts the walk.
* `PassOver`, `FailToParse`, `VisitFile` (`parse_file_context`, `parse`,
  `visit_file`) take a file; `VisitItem`, `VisitItemUse`, `VisitItemMod` visit
  one item of it, with `Parse` for a typeshared one, which yields an item, an
  error that is kept, or a panic that costs the walker; `EndVisit` is `parsed_data`
  and the collector's `+=`.
* `Reconcile` is `reconcile_aliases` on whole items, `CheckParseErrors` the one
  place where kept errors count.
* `BeginModule`, `WriteNextItem`, `EndModule` write the module of a crate with
  the backend of the run; `Finish` is `post_generation` and the check for a
  single file without data. `RunAgain` starts the next run, which has the
  configuration files that are there by then.

Items, types, `cfg` predicates and `use` trees are constants: the sets of those
there may be (`Items`, `SynTypes` and `Types`, `Metas`, `Trees`), each with the
parts of what is in it, so that what the code does by recursion is a recursive
function on such a set (`TryFrom`, `TargetOsIterator`, `ItemUseIter`, ...). The
backends are modules that `Backends` extends, their operations with the language
in the name (`SwiftWriteItem`), and the dispatch of the trait object is a `CASE`
(`WriteItemIn`). The named assumptions say what the input is like: there are
finitely many files, each with a name, which is not `src`, and items of the
syntax (`FilesAssumption`); a configuration file parses or not, and a parsed one
has all settings, since serde fills in defaults (`TomlsAssumption`; an acronym
without letters stands for itself in `IsConfig`, as replacing the empty string by
the empty string changes nothing); there are
runs, with options that exist (`RunsAssumption`); modules, predicates and trees
are nested to some depth, so that what is in them, and how much that is, is well
defined (`ItemsAssumption`, `MetasAssumption`, `TreesAssumption`, and
`TypesAssumption` of types); items have the parts that the visitor and the parsers
take apart (`SyntaxAssumption`: what `syn` yields); and `Types`, the set of the
types there may be, has those in the parsed items, also after others were renamed
(`VersionsAssumption`, which says that the set is large enough and nothing about
the code). Nothing is assumed of how the parsers or the backends go about their
work. TLC evaluates all of the assumptions on the instance.

What a backend writes is a `Text`: the types it declares and refers to (each as
the parts its name is made of, with the number of its parameters), the helpers
it needs (imports, type variables, conversion functions, aliases, closing
braces), what the instance of the backend remembers of it, and whether writing
it fails or panics. What a module provides comes from the head and end of the
file, which is other code than that of the items. Names of members, keys of
encoders, comments, keyword escapes and layout are left out. Identifiers are
strings and converted by `RenameExt` as the code does, since renaming decides
which names agree.

Not every promise holds in every case. The properties name the cases in which
the code is known to do otherwise, and claim all others; each of these
exceptions was found necessary, that is, without it TLC shows a counterexample:

* `SkippingIsErasing` is for the usual forms of `cfg` (`IsUsual`). The filter
  rejects everything below a `not`, whatever is between, and combines `all` and
  `any` of positive systems alike, so `not(not(..))`, `not(all(..))`, `any` with
  something else than a system, and two positive systems that must hold both are
  read otherwise than `cfg` means them. With several targets, `not` rejects what
  is not for all of them.
* `UseImports` is for `use` items with one first segment (`HasUsualUses`): in
  `use {a::X, b::Y}` the iterator takes `b` for the base of both. Renamed imports
  are dropped, and a `use` item without any path panics with a folder as output.
  Paths are taken from everywhere in an item, and the property takes them by the
  operator the visitor uses (`PathsOfItem`): of paths it only says that none is
  lost or added between the file and the crate.
* `ReferencesDeclared` is for sources that define what they refer to
  (`IsClosed`): with as many parameters as they give it, under its new name, or
  under its name in Rust if `reconcile_aliases` finds the new one, that is in the
  crate itself or through an import of the name (not through `*`), and not in a
  constant, whose type it does not look at. It leaves out a crate called like the
  module of `post_generation`, and `IsMisdeclared`: the head of a generic type is
  not renamed; Go ignores the parameters of aliases and enums and their new
  names, and acronyms in the type of an alias or a constant; Kotlin and Scala
  declare an alias, and refer to an enum from its variants, by the name in Rust;
  both drop the parameters of a struct without fields, Scala those of a unit
  enum, Kotlin those of an inline alias, Python those of any enum.
* `HelpersProvided` leaves out `LeftOut`: without a package Kotlin has no
  imports; Scala closes a brace it did not open if its package has no dot, and
  looks for unsigned integers one level deep; Python records the conversion
  functions of a field with a default under its `Optional` and so never writes
  them, and declares no type variable for an alias. Neither this nor
  `HelpersFound` says that a module has nothing it does not need: Go, Python and
  TypeScript carry imports and functions over from the modules of earlier crates
  (`core/src/language/go.rs`, 528), which Go rejects.
* `StoredConfigReproduces` is about the settings that are stored.
  `--target-os` is not (`cli/src/config.rs`, 78: `serde(skip)`).
* `EveryItemDeclared`: Scala drops constants.
* `EveryItemWritten` leaves out a crate called like the module that
  `post_generation` adds, which takes the place of its own.

### Integers53

`As` is the language's `as` between integers, the low bits of the value;
`TryFrom`, `From`, `TryInto` and `Saturated` are the conversions. Their values
need 64 bits and TLC's have 32, so nothing of this module is model-checked;
`AlgorithmProofs` has theorems about it over all values.

## Runs

Every run uses all constants as in its cfg; the MC module explains the input
set. Passing runs check deadlock, except `writer`, whose system stops when the
bound on runs is reached; `generate` has a step of its own for the state in
which all runs have ended or one hangs, and so has `parallel_parse` (`Stopped`).

| run | question | bounds, and why they are enough |
|---|---|---|
| `parallel_parse` | does every interleaving give the caller a right answer, and an answer at all unless the parser panics? | 3 walkers, a directory with a file and a directory of 2 files in 2 crates, all outcomes, channel of 1. Three walkers are needed to have one that failed, one that blocks on a full channel and one that is idle; the smallest channel is the one that fills most. |
| `send_unwrap` | can a walker's `send` fail? (violation) | same |
| `sort_by_indices` | does the in-place algorithm sort? | all permutations of 6 positions: every cycle structure up to three 2-cycles or two 3-cycles |
| `toposort` | is every node listed once, and in order off the cycles? | all graphs of 4 nodes with up to 2 ordered dependencies: cycles next to and below acyclic parts, and abandoned lists |
| `topsort` | do the parts fit together on items? | lists of 3 items of all kinds: structured, ambiguous and renamed names |
| `enum_order` | does an algebraic enum follow what it holds? (violation) | 2 enums |
| `multi_file` | are references and imports right in every order? | 3 crates, 4 files, 4 names, up to 2 imports per file including globs and a crate outside the run; two files in one crate show merging, the third crate shows ambiguity |
| `generic_rename` | does a reference to a renamed type always follow? (violation) | same |
| `renamed_import` | is a type used from another crate always imported? (violation) | same |
| `writer` | is the output right after any history? | 3 crates (one called `codable`), 3 runs with sources that change: one to leave something, one to be stopped, one to repair it |
| `codable_kept` | is `Codable.swift` left alone when it does not change? (violation) | same |
| `generate` | does what the sources say arrive in the modules, and nothing else? | 3320 worlds of up to 2 files and 3 runs, see below |

The worlds of `generate` are enumerated by what they are about, and each is one
initial state; larger ones would combine cases that the code treats one by one:

* every kind of item and of type, in groups that refer to one another, with
  renames, type parameters, type mappings, overrides and skipped parts, in all
  six languages, with a file and with a folder, with and without prefix, package
  and acronyms;
* every parse error and every panic of the parser, next to an item that parses;
* two crates of which one needs what the other declares or remembers;
* two files in the same, in nested, in other or in no crate, with and without
  the word typeshare, one of which may not be Rust;
* thirteen forms of `cfg` and the two forms of `skip`, on items, fields,
  variants, fields of variants and files, with none, one and two targets;
* twelve `use` trees, alone and after another one, and paths in types and in a
  function;
* no, one or several configuration files, one that is malformed and one that is
  named, with runs that generate one before.

What the passing runs show:

* `OkMeansAllMerged`, `PanicOnlyMasksAnError`, `CallEnds`,
  `ImplementsParseDirs`: no schedule loses, doubles or misplaces a result. The
  call hangs only if the parser panics and no error tells the other threads to
  quit. Any other panic happens only after an error, which it masks.
* `InOrder`, `SettledStays`, `Ends`: `sort_by_indices` is right for
  permutations.
* `ListsAllOnce`, `DependenciesFirst`: cycles cost the order only of nodes that
  reach a cycle.
* `SortPrecondition`: the unchecked precondition of `sort_by_indices` holds,
  also when two crates in one file use the same name (`get_index` finds the
  first equal item).
* `PlainItemsAfterUses`: items that use each other without recursion, through
  unique names that the code sees, and without algebraic enums, are declared
  after what they use.
* `ReferencesResolve`, `ImportsReal`, `ImportsExact`, `DeterministicOrder`:
  within the conditions the properties state, modules refer to and import the
  right names in every order of files and hash tables.
* `DoneMeansWritten`, `HelpersFound`, `KeepsUnchanged`, `AbortLeavesPrefix`: see
  the writer's requirements above.
* `ErrorsStopTheRun`, `EveryItemWritten`, `EveryItemDeclared`: an item that
  cannot be parsed, in any file, stops the run before it writes; else what the
  backend writes for each item, as parsed and reconciled, is in the module of the
  crate of its file, and that is a declaration under its name or the new one.
* `SkippingIsErasing`: what is skipped or not for the targets might as well have
  been deleted from the sources: the filter agrees with the meaning of `cfg`, and
  no check of the rest of an item sees what was skipped.
* `CratesByDirectory`, `UseImports`: types and imports come from where paths and
  `use` items say, for nested directories and nested trees.
* `HelpersProvided`, `ReferencesDeclared`: modules have the helpers, and the
  modules together the types, that each of them uses, in every language.
* `ConfigPrecedence`, `StoredConfigReproduces`, `ConfigsStay`: options win over
  the nearest file, which wins over defaults; a generated file does what its
  options did (of several runs that would store one in a place, those of the
  first); no run changes a file there is.
* `EachStepLeadsOn`: a measure of what is left to do, seven natural numbers in
  lexicographic order, gets smaller with each step, so that no run goes on for
  ever; and one hangs only if a file of it makes the parser panic and none is not
  Rust (`HangHasCause`). Without deadlock, all other runs end.

The five runs that end in a violation each show a place where the program does
not do what a comment, an assertion or the changelog says. PROJECT.json quotes
them under "findings":

1. `tx.send(..).unwrap()` (`cli/src/parse.rs`, 160 and 165) does fail: a walker
   with a result after the collector returned an error panics, and the error is
   never reported.
2. An algebraic enum lists itself as its first dependency
   (`core/src/topsort.rs`, 75), which reads as a cycle, so its other
   dependencies do not count.
3. `check_type` (`core/src/reconcile.rs`, 134) does not rename a reference to a
   renamed type that has parameters.
4. A renamed type of another crate is not imported (`core/src/language/mod.rs`,
   479): the types are known by their generated names and imports have the Rust
   ones.
5. `Codable.swift` is compared without, and written with, a final newline
   (`core/src/language/swift.rs`, 783), and so written anew by every run.

## Fairness

* `ParallelParse`: weak fairness of each walker thread, of the collector and of
  the caller: operating systems schedule runnable threads. No fairness of single
  steps of a thread, and none of which entry a thread takes.
* `Toposort`, `SortByIndices`, `Topsort`: weak fairness of the whole step:
  sequential code runs on.
* `MultiFile`, `Writer`: none. Their properties are about what is there when
  they end; that they end is plain from their loops over finite collections.
* `Typeshare`: none. That its runs end is stated without fairness, by a measure
  that each step makes smaller (`EachStepLeadsOn`) together with the check for
  deadlock; one in which the parser panics may hang instead.

## Proofs

All proofs are for arbitrary constants that satisfy the named assumption of the
module (`ParallelParseAssumption`, `GraphAssumption`, ...), which TLC also
evaluates on the instances.

* **ParallelParseProofs.** `TypeCorrect`, `ParsedAll`, `PanicOnlyAfterError`,
  `HangNeedsParserPanic`, `Refinement`. `OkMeansAllMerged` alone is not inductive: it says nothing until
  the call is over. The invariant adds where an entry can be (`WorkIsOwn`,
  `ChanIsOwn`, `DataIsOwn`: unvisited, with one walker, once in the channel, or
  once in its crate's data), that as long as the collector met no error every
  result is in one of these places (`NothingLost`), and why threads stop: the
  quit flag comes from an error that was sent (`QuitHasCause`), a thread that
  leaves without it leaves nothing behind (`DoneHasCause`), a thread that panics
  still holds its entry, on which the parser panicked or with which it came after
  the collector had failed (`PanicHasCause`), and the collector then has an
  error that is nowhere else (`ErrorIsReal`). So no thread of a call that hangs
  lost the receiver. The refinement maps `FinishWalk`
  and `Join` to steps of `ParseDirs`, all else to stuttering.
* **AlgorithmProofs** about `sort_by_indices`: `SortsByIndices`, `SettledForGood`, `TypeCorrect`. In
  the middle of a cycle the index vector is half overwritten. The invariant says
  that an index is the caller's until its position is settled (`IndexKept`),
  that settled positions hold their final value and others their own, except
  that the value displaced from the start of the cycle travels with the inner
  loop (`Placed`), and that cycles are settled as a whole but for the one the
  inner loop is in (`CyclesClosed`, `CameFrom`), so that the loop ends just
  where it started.
* **ToposortProofs.** `AllListedOnce`, `Ordered`, `TypeCorrect`. The invariant
  says that the nodes in `seen` are those the callers wait at, all different
  (`SeenPath`), and that none of them is finished while all an activation has
  passed are (`Progress`). For `Ordered`: if the early return met a node of a
  set that reaches no cycle, the nodes that the activations from that node
  upwards wait at would be a cycle in the set.
* **TopsortProofs.** `TypeCorrect`, `SortIsSafe` (`SortPrecondition`),
  `PlainInOrder` (`PlainItemsAfterUses`). The invariants of `ToposortProofs` and
  `AlgorithmProofs`, taken by `INSTANCE` on the graph of the items and on the
  items themselves, compose: the traversal is done before the sort begins, and
  nothing touches its result after. That the result is then a permutation is a
  matter of counting (an injective list of all N nodes has length N). What is
  new is the dependency lists: `FlattenFacts` says what `FlattenSeq` of the
  community modules returns (that the recursive function it is defined by
  exists, and what its values are, both by a least counterexample), from which
  `DependencyFacts` and `PlainEdges` get that a plain item depends on exactly
  the items it uses. So the plain items are an acyclic set of nodes, and
  `DependenciesFirst` orders them.
* **MultiFileProofs.** `ImportsExist` (`ImportsReal`), `TypeCorrect`,
  `OrderIsDeterministic` (`DeterministicOrder`), `ImportsAreExact`
  (`ImportsExact`), `ReferencesAreResolved` (`ReferencesResolve`). Three
  invariants, each on top of the one before. `TInv`: types, with the imports
  among those of the files. `OInv`: the items of a crate are those of its files
  merged so far (`ItemsCarried`), sorted once the crate is reconciled
  (`ItemsSorted`), all of them after the walk (`AllDelivered`), and its imports
  are its own files' (`ImportsOwn`). `MInv`: after the walk `allTypes` has each
  file's names (`NamesKnown`), no import a type needs was lost (`ImportsKept`),
  and an import that `used_imports` has looked at is in `used` as what it stands
  for (`ImportsLookedUp`) while those pending are foreign (`PendingForeign`).
  `ReferencesResolve` and `ImportsExact` then say that a name with one meaning
  leads to one type along every order. That `Min` and `Max` of a nonempty set of
  positions are in it comes from the well-foundedness of `<`.
* **WriterProofs.** `DoneWritten`, `AbortPrefix`, `TypeCorrect`, `HelpersThere`
  (`HelpersFound`), `UnchangedKept` (`KeepsUnchanged`). At any time of a run the
  modules of the crates it is done with are on disk, and the others' files are
  as they were, but for the one being written. This needs that files are
  different (`FilesApart`) and that `Codable.swift` is only written in the mode
  in which no module has it. `SInv` adds that a module on disk has the helpers
  its text needs, that the backend remembers those of the crates it is done
  with, and that a file whose time is new did not have the text that was
  written.

* **AlgorithmProofs** about integers: `TruncatedInBounds`, `NarrowingExact`,
  `SaturatedExact`, from the lemma that `as` changes no value of its target
  (`AsIsExact`) and the bounds of the types.

* **TypeshareProofs.** For any sources, configurations and series of runs. That
  the parsers keep the name, the kind and the shape of an item
  (`ParsedKeepsNames`) is proved of them first. Each theorem has the part of the
  invariant it needs:
  - `TypeCorrect`: `DataInv` (what the visitor and the collector hold consists of
    what the parsers returned; a current file has a crate) and `ModuleInv` (no
    module before the errors are checked, none from a text that went wrong).
  - `ErrorsEndTheRun` (`ErrorsStopTheRun`): the property is about modules, and by
    then everything it is about is gone. `NothingMissed` says it from the first
    file on: a failing item of a file that was taken is an error of a crate, or
    of the current file, or is still on the visitor's stack, in which items of
    nested modules are replaced by what is in them (`AllItemsOfModule`).
    `WalkInv` adds that nothing is left of the walk when errors are checked.
  - `ItemsAreWritten` (`EveryItemWritten`): the same for the items that do parse
    (`ItemsArrive`), through `+=` (`AmongBoth`) and `reconcile_aliases`, which
    keeps names and kinds (`CheckedIsSame`); then `TextsInv`: the text of a module
    has what the backend wrote for each item of the crate that is not left.
  - `CratesAreDirectories` (`CratesByDirectory`): `CratesInv` has it of each file's
    data before they are merged. That the last `src` of a path is the one with
    no other below it is `CrateIsAbove`.
  - `ConfigurationsStay` (`ConfigsStay`), from the steps alone.
  - `SettingsHavePrecedence` (`ConfigPrecedence`) and `StoredConfigsReproduce`
    (`StoredConfigReproduces`): the search goes up one directory at a time;
    `SearchFinds` shows that it returns the longest prefix of the path with a
    file (a recursive function over the length of the path, by the least
    counterexample), which `NearestAbove` identifies with the nearest file of the
    property. `StoredInv` remembers for each new file the run that stored it,
    that it was the first, and that runs which store nothing changed nothing.
  - `RunsLeadOn` (`EachStepLeadsOn`): the measure counts runs, the parts of a run,
    waiting files, the items on the visitor's stack with all that is in them,
    crates without a module and items not yet written. That it has natural
    numbers needs `FiniteInv`: there are finitely many crates, each with finitely
    many items, and the module being written is one there is not yet. A module
    on the stack is replaced by fewer items than it counts for (`SizeOfHead`,
    `SizeOfBoth`), from what a sum of a concatenation is (`TotalOfBoth`), by
    induction over numbers in the form of a set (`Induction`). So no run goes on
    for ever, whatever the order of files, crates and items. `SourceInv` says
    that the items on the visitor's stack are those of one of the sources, and
    `HangInv` with it and `ErrorsInv` that a run left hanging has a cause there.
    That none blocks before its end is a matter of `ENABLED`, for which there is the model
    checker's search for deadlocks.

  The last two compare what the code computes by recursion with a definition that
  says what is meant. Recursive functions are by definition some function that
  satisfies the equation, if there is one; `Recursion` shows that there is, for a
  step that only looks at what has a smaller weight, and so `ItemUseIter`,
  `Leaves`, `TargetOsIterator` and `Values` are the functions their definitions
  say.

  - `ImportsAreFound` (`UseImports`): an iterator over a stack of trees yields
    their leaves, whatever its base was before (`ItersYieldLeaves`, by induction
    over the weight of the stack), so that a `use` item with one first segment
    yields what it declares (`ImportsOfUseAre`). `UsesInv` then says that the
    imports so far and what the items still to be visited mean are together what
    the file means.
  - `SkippedIsErased` (`SkippingIsErasing`): `FilterIsMeaning` says that on usual
    attributes the filter, which collects accepted and rejected systems off a
    stack, decides what `cfg` means, the possible values of a predicate;
    `ErasedParses` that parsing an item without its skipped parts for no target
    is parsing it for the targets. `SkipInv` says of each crate that what it has,
    what the current file has and what is to come in that file are the results of
    parsing all files visited.

* **TypeshareModuleProofs.** About what the six backends write, by a lemma for
  each of their functions.
  - `ItemsAreDeclared` (`EveryItemDeclared`): what `ItemsAreWritten` says of the
    text of an item, with what each of the six backends declares for one
    (`DeclaredInv` adds that the backend is made from a configuration, so that it
    has a prefix).
  - `HelpersAreProvided` (`HelpersProvided`): needing and providing are in
    different places of a backend, and what it records is what links them.
    `WholeInv` keeps the shape of items that the parsers gave them; `TextNeeds`
    says of the module being written, and `ModulesNeed` of those written, that
    what the text needs is left out for one of the items (`LeftOut`), or is in
    the module, or will be by what the backend has recorded by now, which only
    grows. Under it are, for each backend, what an item makes it need and record.
  - `ReferencesAreDeclared` (`ReferencesDeclared`): a reference and the
    declaration it needs come from different items, often of different crates,
    that are parsed, renamed and written at different times. What links them are
    three facts. `Versions` is what a type may become when other types are
    renamed; by induction over the number of types in a type, renaming a type
    yields one of its versions (`Recursion` again), and the types in it are those
    that were in it, renamed or, if they have parameters, with their own name. So
    `reconcile_aliases` makes items in which each simple type has a new name, or
    one for which there is no new name to be found from its crate (`SettledInv`:
    `IsSound` and `IsSettled` of every item of every crate, from there to the end
    of the run). Second, whatever a backend
    writes for an item refers only to types of the item that are neither mapped,
    nor special, nor parameters of it, or to what the text itself declares, and
    declares the item by the name and with the number of parameters by which
    others refer to it, unless it is misdeclared (`ItemRefers`: `Keeps`, from
    `SwiftItemRefers` and the like of the other languages). Third, text and
    modules refer to nothing that no item of their crate refers to (`TextRefers`,
    `ModulesRefer`). The property follows with `DeclaredInv`, by which each item's
    declaration is in the module of its crate (`DefinedAreDeclared`). In Go the
    names pass through the acronyms of the configuration, on both sides by the
    same function, which must not make a name of the empty prefix
    (`AcronymsKept`).

Only model-checked:

* `CallEnds` and `Ends`: liveness, which the prover does not do.
* That `Typeshare` never blocks but where it hangs, by the search for deadlocks.

Every other property of the passing runs is a theorem.

## Not modelled

* The attribute macro (`annotation/src`), which strips attributes from token
  streams, and the RFC 3339 dates of `lib`, which are the `time` library's.
* Which files the `ignore` crate finds: `--follow-links`, ignore files, file
  types. The walk's order by file path does not bind parallel threads and is left
  out as well. Completions, logging and the texts of errors.
* The toml and Rust syntax: a configuration or a file parses or does not.
  Identifiers are ASCII. The file system fails in `Writer` only.
* In `Text`s: everything but the names of types, helpers and failures, see above.
  What is in a module of `Writer` is a member of its `Texts`; what a file of
  `MultiFile` says is given in its `Worlds`.

Hazards without a property are in PROJECT.json with the reason: among them that
consts are not sorted after the merge (the changelog promises deterministic
output), that helpers of earlier modules are carried into later ones, and that a
crate called `codable` loses its module to `Codable.swift`. Modules of crates
that are gone stay in the folder; nothing in the repository says otherwise.

## Plan

Done, in this order: the walk (`ParseDirs`, `ParallelParse`), the ordering
(`SortByIndices`, `Toposort`, `Topsort`), the pipeline (`MultiFile`), the writer
(`Writer`), the parsers, the backends, the configuration and their composition
(`Typeshare` and the modules it extends), the integers (`Integers53`), each with
its runs, mutants and proofs.

Next: the attribute macro, if it is given more to do than to strip attributes.

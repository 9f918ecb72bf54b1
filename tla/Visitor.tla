------------------------------- MODULE Visitor -------------------------------
(***************************************************************************)
(* How the files of a run become the parsed data of crates: parse_dir_entry *)
(* of cli/src/parse.rs, parse of core/src/parser.rs and the syntax visitor *)
(* of core/src/visitors.rs. Files are taken in any order, one after the    *)
(* other: ParallelParse has the threads, and only their results meet, but  *)
(* a parser that panics may leave the run hanging.                         *)
(*                                                                         *)
(* A file has a path, whether it holds the word typeshare, whether it is   *)
(* Rust, the attributes of the file, and items: those of Parser, `use`     *)
(* items, and `mod`, which stands for whatever has items in it. Of items   *)
(* that are never parsed, functions or impls say, the visitor only takes   *)
(* the paths, as it does of a struct that is not typeshared: they are      *)
(* items without the attribute here.                                       *)
(***************************************************************************)
EXTENDS Config, Imports

CONSTANT Items   \* the items there may be in a file or a module

VARIABLES
  world,      \* the files and the runs
  phase,      \* where the run is
  multiFile, targetOs, ignoredTypes,   \* the ParseContext
  waiting,    \* files the walk has not come to
  todo,       \* items of the current file the visitor has not come to
  data,       \* the ParsedData of the current file
  crates      \* crate -> ParsedData

parseVars == <<waiting, todo, data, crates>>
contextVars == <<world, multiFile, targetOs, ignoredTypes>>

SingleFile == "single file"   \* SINGLE_FILE_CRATE_NAME
NoData == [crate |-> NoCrate, items |-> <<>>, imports |-> {}, errors |-> <<>>]

(* Errors that are not merged, and items that replace those there are. *)
MergeWithoutErrors(parsed, rhs) ==
  [parsed EXCEPT !.items = @ \o rhs.items, !.imports = @ \cup rhs.imports]
MergeReplacing(parsed, rhs) ==
  [parsed EXCEPT !.items = rhs.items, !.imports = @ \cup rhs.imports, !.errors = @ \o rhs.errors]

(* AddAssign of ParsedData *)
Merge(parsed, rhs) ==
  [parsed EXCEPT !.items = @ \o rhs.items, !.imports = @ \cup rhs.imports,
                 !.errors = @ \o rhs.errors]

(* The directory the first src is in. *)
FindOuterCrateName(path) ==
  LET first == Min({i \in DOMAIN path : path[i] = "src"} \cup {Len(path) + 1})
  IN  IF first \in {1, Len(path) + 1} THEN NoCrate ELSE path[first - 1]

(* find_crate_name: the directory the last src is in. *)
FindCrateName(path) ==
  LET srcs == {i \in DOMAIN path : path[i] = "src"}
      last == Max(srcs)
  IN  IF srcs = {} \/ last = 1 THEN NoCrate ELSE path[last - 1]

CrateOfFile(file) == IF multiFile THEN FindCrateName(file.path) ELSE SingleFile

-----------------------------------------------------------------------------
(* reconcile_referenced_types: of the imports, those of types the file refers
   to and does not define, one for each in the order of a HashSet, and those
   of everything in a crate. *)
References(parsed) ==
  UNION {ReferenceNames(parsed.items[i]) : i \in DOMAIN parsed.items}
TypeNames(parsed) == {parsed.items[i].id.renamed : i \in DOMAIN parsed.items}

Retained(parsed) ==
  LET Found(name) == {imp \in parsed.imports : imp.name = name}
      names == {n \in References(parsed) \ TypeNames(parsed) : Found(n) # {}}
      choices == {c \in [names -> parsed.imports] : \A n \in names : c[n] \in Found(n)}
  IN  {Range(c) \cup Found("*") : c \in choices}

IsEmpty(parsed) == parsed.items = <<>> /\ parsed.errors = <<>>

-----------------------------------------------------------------------------
StartWalk(files) == waiting = files /\ todo = <<>> /\ data = NoData /\ crates = <<>>

Walking == phase = "parsing" /\ data = NoData

(* A file outside of all crates, or without the word, yields nothing. *)
PassOver(file) ==
  /\ Walking /\ file \in waiting
  /\ CrateOfFile(file) = NoCrate \/ ~file.marked
  /\ waiting' = waiting \ {file}
  /\ UNCHANGED <<phase, todo, data, crates>>

(* One file that is not Rust ends the run, with its error or, if another
   walker has a result to send, by unwinding. *)
IsNotRust(file) == CrateOfFile(file) # NoCrate /\ file.marked /\ ~file.parses
FailToParse(file) ==
  /\ Walking /\ file \in waiting /\ IsNotRust(file)
  /\ phase' \in {"failed", "panicked"}
  /\ UNCHANGED parseVars

VisitFile(file) ==
  /\ Walking /\ file \in waiting
  /\ CrateOfFile(file) # NoCrate /\ file.marked /\ file.parses
  /\ waiting' = waiting \ {file}
  /\ data' = [NoData EXCEPT !.crate = CrateOfFile(file)]
  /\ todo' = IF AcceptTargetOs(file.attrs, targetOs) THEN file.items ELSE <<>>
  /\ UNCHANGED <<phase, crates>>

Visiting(kinds) == phase = "parsing" /\ todo # <<>> /\ Head(todo).kind \in kinds

IsTypeshared(item) == HasTypeshareAnnotation(item.attrs) /\ AcceptTargetOs(item.attrs, targetOs)

(* A panic of the parser takes its walker thread with it. The run unwinds if
   that was the last walker, or if a file that is not Rust makes the others
   quit; otherwise they wait for more work for ever (module ParallelParse). *)
LoseWalker ==
  phase' \in {"panicked"} \cup IF \E file \in waiting : IsNotRust(file) THEN {} ELSE {"hanging"}

(* visit_item_struct, _enum, _type and _const; the paths in an item are taken
   from all items. *)
VisitItem ==
  /\ Visiting({"struct", "enum", "type", "const"})
  /\ LET item    == Head(todo)
         shared  == IsTypeshared(item)
         parsed  == Parse(item, targetOs)
         imports == IF multiFile THEN ImportsOfPaths(item, data.crate, ignoredTypes) ELSE {}
     IN  /\ IF shared /\ parsed = Panic THEN LoseWalker ELSE UNCHANGED phase
         /\ data' = [data EXCEPT
              !.imports = @ \cup imports,
              !.items  = IF shared /\ ~IsFailure(parsed) THEN Append(@, parsed) ELSE @,
              !.errors = IF shared /\ IsFailure(parsed) THEN Append(@, parsed.failure) ELSE @]
  /\ todo' = Tail(todo)
  /\ UNCHANGED <<waiting, crates>>

(* Each use item forgets the imports of those before it. *)
VisitItemUseAlone ==
  /\ Visiting({"use"})
  /\ LET imports == IF multiFile THEN ImportsOfUse(Head(todo).tree, data.crate) ELSE {}
     IN  /\ IF \E imp \in imports : imp.base = NoCrate THEN LoseWalker ELSE UNCHANGED phase
         /\ data' = [data EXCEPT !.imports = {imp \in imports : imp.name \notin ignoredTypes}]
  /\ todo' = Tail(todo)
  /\ UNCHANGED <<waiting, crates>>

VisitItemUse ==
  /\ Visiting({"use"})
  /\ LET imports == IF multiFile THEN ImportsOfUse(Head(todo).tree, data.crate) ELSE {}
     IN  /\ IF \E imp \in imports : imp.base = NoCrate THEN LoseWalker ELSE UNCHANGED phase
         /\ data' = [data EXCEPT
              !.imports = @ \cup {imp \in imports : imp.name \notin ignoredTypes}]
  /\ todo' = Tail(todo)
  /\ UNCHANGED <<waiting, crates>>

(* A module is visited, and visited again with what comes after it. *)
VisitItemModAgain ==
  /\ Visiting({"mod"})
  /\ todo' = Head(todo).items \o todo
  /\ UNCHANGED <<phase, waiting, data, crates>>

(* A module is not looked into. *)
VisitItemModAlone ==
  /\ Visiting({"mod"})
  /\ todo' = Tail(todo)
  /\ UNCHANGED <<phase, waiting, data, crates>>

(* Whatever a cfg attribute says of the module. *)
VisitItemMod ==
  /\ Visiting({"mod"})
  /\ todo' = Head(todo).items \o Tail(todo)
  /\ UNCHANGED <<phase, waiting, data, crates>>

(* parsed_data, and the collector adds it to its crate. *)
EndVisit ==
  /\ phase = "parsing" /\ data # NoData /\ todo = <<>>
  /\ data' = NoData
  /\ \E imports \in IF multiFile THEN Retained(data) ELSE {data.imports} :
       LET crate == data.crate
           old   == IF crate \in DOMAIN crates THEN crates[crate]
                    ELSE [NoData EXCEPT !.crate = crate]
       IN  crates' = IF IsEmpty(data) THEN crates
                     ELSE Put(crates, crate, Merge(old, [data EXCEPT !.imports = imports]))
  /\ UNCHANGED <<phase, waiting, todo>>

Walk ==
  /\ \/ \E file \in waiting : PassOver(file) \/ FailToParse(file) \/ VisitFile(file)
     \/ VisitItem \/ VisitItemUse \/ VisitItemMod \/ EndVisit
  /\ UNCHANGED contextVars
=============================================================================

------------------------------ MODULE Typeshare ------------------------------
(***************************************************************************)
(* The command line tool from its arguments to the generated modules       *)
(* (cli/src/main.rs): runs of it one after the other, each of which finds  *)
(* its configuration, walks and parses the sources (module Visitor),       *)
(* reconciles renamed references (core/src/reconcile.rs) and has the       *)
(* backend of its language write the module of each crate.                 *)
(*                                                                         *)
(* A world is the files, the directory the tool runs in, the configuration *)
(* files there are at first, and the arguments of the runs. The order of   *)
(* crates and of items, which modules MultiFile and Topsort are about, is  *)
(* any order here. Module Writer has what happens to the module on disk.   *)
(***************************************************************************)
EXTENDS Visitor, Backends

CONSTANT Worlds

Arguments == UNION {Range(w.runs) : w \in Worlds}
TargetSets == {args.targetOs : args \in Arguments}

(* The name of a source file ends in .rs. *)
ASSUME FilesAssumption ==
  \A w \in Worlds :
    /\ IsFiniteSet(w.files)
    /\ \A file \in w.files : /\ file.path \in Seq(Names) \ {<<>>} /\ Last(file.path) # "src"
                            /\ file.items \in Seq(Items)

ASSUME TomlsAssumption ==
  \A w \in Worlds :
    /\ w.cwd \in Seq(Names)
    /\ \A path \in DOMAIN w.tomls :
         /\ path \in Seq(Names) \ {<<>>}
         /\ IsFailure(w.tomls[path]) \/ IsConfig(w.tomls[path])

ASSUME RunsAssumption ==
  /\ \A w \in Worlds : w.runs \in Seq(Arguments) \ {<<>>}
  /\ \A args \in Arguments :
       /\ DOMAIN args.options \subseteq Options /\ args.configFile \in Seq(Names)
       /\ args.generateConfig \/ args.language \in Languages

(* The items an item stands for, itself or those in a module, and all items
   of a file. *)
Within[item \in Items] ==
  IF item.kind = "mod" THEN UNION {Within[item.items[i]] : i \in DOMAIN item.items} ELSE {item}
AllItems(items) == UNION {Within[items[i]] : i \in DOMAIN items}

(* The number of items, those of modules included. *)
Weight[item \in Items] ==
  IF item.kind = "mod" THEN 1 + Total([i \in DOMAIN item.items |-> Weight[item.items[i]]]) ELSE 1
Size(items) == Total([i \in DOMAIN items |-> Weight[items[i]]])

(* Modules are nested to some depth, so that what is in them, and how many
   items that are, is well defined. *)
ASSUME ItemsAssumption ==
  \A item \in Items :
    /\ Weight[item] \in Nat
    /\ IF item.kind = "mod"
       THEN /\ item.items \in Seq(Items)
            /\ Within[item] = AllItems(item.items) /\ Weight[item] = 1 + Size(item.items)
       ELSE Within[item] = {item} /\ Weight[item] = 1

(* What the visitor and the parsers take apart: attributes, fields and
   variants with attributes, and use trees. *)
IsAttributes(attrs) == \A attr \in ToSet(attrs) : GetMetaItems(attr, "cfg") \in Seq(Metas)
AreParts(parts) ==
  /\ parts \in Seq(ToSet(parts))
  /\ \A part \in ToSet(parts) : "attrs" \in DOMAIN part /\ IsAttributes(part.attrs)
AreFields(fields) ==
  /\ {"style", "list"} \subseteq DOMAIN fields /\ AreParts(fields.list)
  /\ fields.style \in {"Named", "Unnamed", "Unit"} /\ (fields.style = "Unit" => fields.list = <<>>)
IsSyntax(item) ==
  /\ item.kind \in {"struct", "enum", "type", "const"}
  /\ {"kind", "ident", "attrs", "generics", "paths"} \subseteq DOMAIN item /\ IsAttributes(item.attrs)
  /\ item.generics \in Seq(ToSet(item.generics))
  /\ CASE item.kind = "struct" -> "fields" \in DOMAIN item /\ AreFields(item.fields)
       [] item.kind = "enum" ->
            /\ "variants" \in DOMAIN item /\ AreParts(item.variants)
            /\ \A variant \in ToSet(item.variants) :
                 {"ident", "fields"} \subseteq DOMAIN variant /\ AreFields(variant.fields)
       [] item.kind \in {"type", "const"} -> TRUE

ASSUME SyntaxAssumption ==
  /\ \A item \in Items :
       /\ item.kind \in {"mod", "use"} \/ IsSyntax(item)
       /\ item.kind = "use" => item.tree \in Trees
  /\ \A w \in Worlds : \A file \in w.files : IsAttributes(file.attrs)

(* What the parsers make of items, the new names there are for one of them,
   and what a type may become when others are renamed. *)
Parsables == {item \in Items : item.kind \notin {"mod", "use"}}
Results == {Parse(item, targets) : item \in Parsables, targets \in TargetSets}
ParsedItems == {result \in Results : ~IsFailure(result)}
ParsedIds == {parsed.id : parsed \in ParsedItems}
NewNamesOf(name) == {id.renamed : id \in {i \in ParsedIds : i.original = name}}
Renamings(ty, versions) ==
  IF IsSimple(ty) THEN {RustType(name, <<>>) : name \in {ty.id} \cup NewNamesOf(ty.id)}
  ELSE {RustType(ty.id, args) :
          args \in {a \in [DOMAIN versions -> UNION Range(versions)] :
                      \A i \in DOMAIN versions : a[i] \in versions[i]}}
Versions[ty \in Types] ==
  Types \cap Renamings(ty, [i \in DOMAIN ty.args |-> Versions[ty.args[i]]])

(* Types has all the types that items come to have. *)
ASSUME VersionsAssumption ==
  /\ \A parsed \in ParsedItems : TypesOfItem(parsed) \subseteq Types
  /\ \A ty \in Types :
       Renamings(ty, [i \in DOMAIN ty.args |-> Versions[ty.args[i]]]) \subseteq Types

VARIABLES
  run,        \* the run of the world it is
  tomls,      \* path -> configuration, or a failure
  backend,    \* the settings of the backend, as of Config
  at,         \* the crate whose module is being generated
  left,       \* indices of its items not yet written
  text,       \* what has been written of the module
  recorded,   \* what the backend remembers of all modules
  modules     \* crate -> its module: the text with what it provides

backendVars == <<backend, recorded>>
moduleVars == <<at, left, text, modules>>
vars == <<contextVars, phase, parseVars, run, tomls, backendVars, moduleVars>>

Args == world.runs[run]
Lang == Args.language

-----------------------------------------------------------------------------
(* reconcile_aliases. The renamed items of a crate, in the order in which
   they come to be known: the last one of a name counts. *)
RenamesOfKind(items, id, kind) ==
  Chosen(items, {item \in ToSet(items) : /\ item.kind = kind
                                         /\ item.id.serdeRename /\ item.id.original = id})
Renames(crate, id) ==
  LET Of(kind) == RenamesOfKind(crates[crate].items, id, kind)
  IN  Of("struct") \o Of("enum") \o Of("alias")

(* resolve_renamed: through any import of the name that leads to a renamed
   type, or else in the crate itself. *)
ResolveRenamed(crate, id) ==
  LET renaming == {c \in DOMAIN crates : Renames(c, id) # <<>>}
      through  == renaming \cap {imp.base : imp \in {i \in crates[crate].imports : i.name = id}}
      from     == IF through # {} THEN through ELSE renaming \cap {crate}
  IN  IF from = {} THEN {id} ELSE {Last(Renames(c, id)).id.renamed : c \in from}

CheckFields(fields, names) ==
  [i \in DOMAIN fields |-> [fields[i] EXCEPT !.ty = RenamedType(@, names)]]
(* The fields of a variant are not looked at. *)
CheckTupleVariant(variant, names) ==
  IF variant.kind = "Tuple" THEN [variant EXCEPT !.ty = RenamedType(@, names)] ELSE variant
CheckVariant(variant, names) ==
  CASE variant.kind = "Unit"  -> variant
    [] variant.kind = "Tuple" -> [variant EXCEPT !.ty = RenamedType(@, names)]
    [] OTHER -> [variant EXCEPT !.fields = CheckFields(@, names)]
CheckItem(item, names) ==
  CASE item.kind = "struct" -> [item EXCEPT !.fields = CheckFields(@, names)]
    [] item.kind = "enum" ->
         [item EXCEPT !.variants = [i \in DOMAIN @ |-> CheckVariant(@[i], names)]]
    [] item.kind = "alias" -> [item EXCEPT !.ty = RenamedType(@, names)]
    [] item.kind = "const" -> item

(* The new names there may be in a crate, by the order of its import set. *)
NewNames(crate) ==
  LET items == UNION {ToSet(crates[c].items) : c \in DOMAIN crates}
      known == {item.id.original : item \in items}
      all == UNION {ResolveRenamed(crate, id) : id \in known}
  IN  {n \in [known -> all] : \A id \in known : n[id] \in ResolveRenamed(crate, id)}

ReconcileAliases(names) ==
  [c \in DOMAIN crates |->
     [crates[c] EXCEPT !.items = [i \in DOMAIN @ |-> CheckItem(@[i], names[c])]]]

-----------------------------------------------------------------------------
Running == {"starting", "parsing", "reconciling", "generating", "writing"}
Ended == {"done", "failed", "panicked"}   \* but a run may also be "hanging"

PostModule == "Codable"

NoBackend == Backend(DefaultConfig, "go", FALSE)

Init ==
  /\ world \in Worlds
  /\ run = 1 /\ phase = "starting" /\ tomls = world.tomls
  /\ multiFile = FALSE /\ targetOs = {} /\ ignoredTypes = {}
  /\ StartWalk({})
  /\ backend = NoBackend /\ recorded = {}
  /\ at = NoCrate /\ left = {} /\ text = Empty /\ modules = <<>>

(* The file is written whether there is one or not. *)
StoreOver(path, config) == phase' = "done" /\ tomls' = Put(tomls, path, config)

(* store_config: the file is created, never overwritten. *)
StoreConfig(path, config) ==
  IF path \in DOMAIN tomls THEN phase' = "failed" /\ tomls' = tomls
  ELSE phase' = "done" /\ tomls' = Put(tomls, path, config)

(* The options are left out of the file. *)
GenerateDefaultConfig ==
  /\ phase = "starting" /\ Args.generateConfig
  /\ StoreConfig(StorePath(Args.configFile, world.cwd), DefaultConfig)
  /\ UNCHANGED <<contextVars, parseVars, run, backendVars, moduleVars>>

(* --generate-config *)
GenerateConfig ==
  /\ phase = "starting" /\ Args.generateConfig
  /\ LET config == OverrideConfiguration(DefaultConfig, Args)
     IN  IF IsFailure(config) THEN phase' = "failed" /\ tomls' = tomls
         ELSE StoreConfig(StorePath(Args.configFile, world.cwd), config)
  /\ UNCHANGED <<contextVars, parseVars, run, backendVars, moduleVars>>

(* generate_types up to the walk *)
GenerateTypes ==
  /\ phase = "starting" /\ ~Args.generateConfig
  /\ LET loaded == LoadConfig(Args.configFile, world.cwd, tomls)
         config == IF IsFailure(loaded) THEN loaded ELSE OverrideConfiguration(loaded, Args)
     IN  IF IsFailure(config)
         THEN phase' = "failed" /\ UNCHANGED <<contextVars, parseVars, backendVars>>
         ELSE /\ phase' = "parsing"
              /\ multiFile' = Args.multiFile /\ targetOs' = Args.targetOs
              /\ backend' = Backend(config, Lang, Args.multiFile) /\ recorded' = {}
              /\ ignoredTypes' = IgnoredReferenceTypes(Lang, backend')
              /\ waiting' = world.files
              /\ UNCHANGED <<world, todo, data, crates>>
  /\ UNCHANGED <<run, tomls, moduleVars>>

WalkFiles == Walk /\ UNCHANGED <<run, tomls, backendVars, moduleVars>>

Reconcile ==
  /\ Walking /\ waiting = {}
  /\ \E names \in {n \in [DOMAIN crates -> UNION {NewNames(c) : c \in DOMAIN crates}] :
                     \A c \in DOMAIN crates : n[c] \in NewNames(c)} :
       crates' = ReconcileAliases(names)
  /\ phase' = "reconciling"
  /\ UNCHANGED <<contextVars, waiting, todo, data, run, tomls, backendVars, moduleVars>>

ParseErrors == {c \in DOMAIN crates : crates[c].errors # <<>>}

(* check_parse_errors *)
CheckParseErrors ==
  /\ phase = "reconciling"
  /\ phase' = IF ParseErrors = {} THEN "generating" ELSE "failed"
  /\ UNCHANGED <<contextVars, parseVars, run, tomls, backendVars, moduleVars>>

(* The end of a run if writing goes on after a text that went wrong. *)
AddTextRegardless(written, next) ==
  text' = Both(written, next) /\ recorded' = recorded \cup next.recorded /\ phase' = "writing"

(* A text that goes wrong ends the run: its module is not written. *)
AddText(written, next) ==
  /\ text' = Both(written, next)
  /\ recorded' = recorded \cup next.recorded
  /\ phase' = CASE next.fate = "ok" -> "writing"
                [] next.fate = "error" -> "failed"
                [] OTHER -> "panicked"

ItemsAt == crates[at].items

(* A single file is of the crate that all files are in, if there is one. *)
BeginModule(crate) ==
  /\ phase = "generating"
  /\ crate \in DOMAIN crates \ DOMAIN modules
  /\ at' = crate /\ left' = DOMAIN crates[crate].items
  /\ AddText(Empty, BeginModuleIn(Lang, backend, ToSet(crates[crate].items)))
  /\ UNCHANGED <<contextVars, parseVars, run, tomls, backend, modules>>

WriteNextItem ==
  /\ phase = "writing"
  /\ \E i \in left : left' = left \ {i} /\ AddText(text, WriteItemIn(Lang, backend, ItemsAt[i]))
  /\ UNCHANGED <<contextVars, parseVars, run, tomls, backend, at, modules>>

EndModule ==
  /\ phase = "writing" /\ left = {}
  /\ LET provides == BeginModuleIn(Lang, backend, ToSet(ItemsAt)).recorded
                     \cup EndModuleIn(Lang, backend, recorded)
     IN  modules' = Put(modules, at, [text |-> text, provides |-> provides])
  /\ at' = NoCrate /\ text' = Empty /\ phase' = "generating"
  /\ UNCHANGED <<contextVars, parseVars, run, tomls, backendVars, left>>

(* post_generation may add a module to those of the crates. *)
Finish ==
  /\ phase = "generating" /\ DOMAIN modules = DOMAIN crates
  /\ phase' = IF ~multiFile /\ crates = <<>> THEN "failed" ELSE "done"
  /\ LET provides == PostGenerationIn(Lang, backend, recorded)
     IN  modules' = IF provides = {} THEN modules
                    ELSE Put(modules, PostModule, [text |-> Empty, provides |-> provides])
  /\ UNCHANGED <<contextVars, parseVars, run, tomls, backendVars, at, left, text>>

RunAgain ==
  /\ phase \in Ended /\ run < Len(world.runs)
  /\ run' = run + 1 /\ phase' = "starting"
  /\ multiFile' = FALSE /\ targetOs' = {} /\ ignoredTypes' = {}
  /\ waiting' = {} /\ todo' = <<>> /\ data' = NoData /\ crates' = <<>>
  /\ backend' = NoBackend /\ recorded' = {}
  /\ at' = NoCrate /\ left' = {} /\ text' = Empty /\ modules' = <<>>
  /\ UNCHANGED <<world, tomls>>

(* All runs ended, or one of them hangs. *)
Stopped == (phase = "hanging" \/ (run = Len(world.runs) /\ phase \in Ended)) /\ UNCHANGED vars

Next ==
  \/ GenerateConfig \/ GenerateTypes
  \/ WalkFiles \/ Reconcile \/ CheckParseErrors
  \/ \E crate \in DOMAIN crates : BeginModule(crate)
  \/ WriteNextItem \/ EndModule \/ Finish
  \/ RunAgain \/ Stopped

Spec == Init /\ [][Next]_vars

-----------------------------------------------------------------------------
(* What runs promise whatever the parsers and the backends do. *)

TypeOK ==
  /\ run \in DOMAIN world.runs /\ phase \in Running \cup Ended \cup {"hanging"}
  /\ waiting \subseteq world.files
  /\ todo # <<>> => data # NoData
  /\ at \in DOMAIN crates \cup {NoCrate} /\ (at = NoCrate => left = {})
  /\ at # NoCrate => left \subseteq DOMAIN ItemsAt
  /\ DOMAIN modules \subseteq DOMAIN crates \cup {PostModule}
  /\ \A c \in DOMAIN modules : modules[c].text.fate = "ok"
  /\ DOMAIN world.tomls \subseteq DOMAIN tomls

Walked == Walking /\ waiting = {}

(* Files the run reads, and the items of one that it generates types for. *)
Sources == {file \in world.files : file.marked /\ CrateOfFile(file) # NoCrate}
TypesharedItems(file) ==
  IF ~AcceptTargetOs(file.attrs, targetOs) THEN {}
  ELSE {item \in AllItems(file.items) : item.kind # "use" /\ IsTypeshared(item)}

(* No module is begun if any typeshared item anywhere in the sources could
   not be parsed, or a file is not Rust: check_parse_errors comes after all
   crates have been walked and merged, and before the first module. *)
ErrorsStopTheRun ==
  modules # <<>> \/ phase = "writing" =>
    \A file \in Sources :
      file.parses /\ \A item \in TypesharedItems(file) : ~IsFailure(Parse(item, targetOs))

(* A run that ends well has written each typeshared item of the sources in
   the module of the crate of its file, as it was parsed but for the types that
   reconcile_aliases renames in it: none gets lost when files meet in a crate,
   when types are renamed, or from one module to the next. (A crate that is
   called like the module of post_generation loses its own.) *)
Generated == phase = "done" /\ ~Args.generateConfig
IsSame(item, parsed) == item.id = parsed.id /\ item.kind = parsed.kind
HasWritten(module, item) ==
  LET written == WriteItemIn(Lang, backend, item)
  IN  written.fate = "ok" /\ written.names \subseteq module.text.names
EveryItemWritten ==
  Generated =>
    \A file \in {f \in Sources : CrateOfFile(f) # PostModule} : \A item \in TypesharedItems(file) :
      /\ CrateOfFile(file) \in DOMAIN modules \cap DOMAIN crates
      /\ \E written \in Range(crates[CrateOfFile(file)].items) :
           /\ IsSame(written, Parse(item, targetOs))
           /\ HasWritten(modules[CrateOfFile(file)], written)

(* With an output folder the types of a file are those of the crate in whose
   src directory the file is, directly or below; of nested ones the inner. *)
IsBelow(path, crate) ==
  \E i \in 2..Len(path) - 1 : /\ path[i - 1] = crate /\ path[i] = "src"
                              /\ \A j \in i + 1..Len(path) : path[j] # "src"
CratesByDirectory ==
  Walked /\ multiFile =>
    \A c \in DOMAIN crates :
      {item.id.original : item \in ToSet(crates[c].items)} \subseteq
        {item.ident : item \in {i \in UNION {AllItems(file.items) :
                                               file \in {f \in world.files : IsBelow(f.path, c)}} :
                                  i.kind # "use"}}

(* The settings of a run are its options, or else those of the configuration
   file nearest to the directory it runs in, or the one it is given, or else
   the defaults. *)
ConfigsAbove == {path \in DOMAIN tomls : /\ Last(path) = FileName
                                         /\ IsPrefix(Front(path), world.cwd)}
NearestConfig ==
  LET above == IF Args.configFile # <<>> THEN {Args.configFile} ELSE ConfigsAbove
  IN  IF above = {} THEN DefaultConfig
      ELSE tomls[CHOOSE path \in above : \A other \in above : Len(other) <= Len(path)]
ConfigPrecedence ==
  phase \in Running \ {"starting"} =>
    backend = Backend([NearestConfig EXCEPT !.settings = Over(Args.options, @)], Lang, Args.multiFile)

(* What --generate-config stores for a run, the first one that is to store
   something in the place, unless there was a file, is such that any later run
   there without options has the settings a run with these options and no
   configuration has. Targets are not settings: --target-os is never stored. *)
Stores(k, path) ==
  /\ world.runs[k].generateConfig /\ StorePath(world.runs[k].configFile, world.cwd) = path
  /\ ~IsFailure(OverrideConfiguration(DefaultConfig, world.runs[k]))
StoredConfigReproduces ==
  LET path == StorePath(Args.configFile, world.cwd)
  IN  phase \in Running \ {"starting"} /\ Args.options = NoMappings
      /\ path \in DOMAIN tomls \ DOMAIN world.tomls =>
        \E k \in 1..run - 1 :
          /\ Stores(k, path) /\ \A j \in 1..k - 1 : ~Stores(j, path)
          /\ backend = Backend([DefaultConfig EXCEPT !.settings = Over(world.runs[k].options, @)],
                               Lang, Args.multiFile)

(* No run changes a configuration file there is. *)
ConfigsStay ==
  [][\A path \in DOMAIN tomls : path \in DOMAIN tomls' /\ tomls'[path] = tomls[path]]_vars

(* A run hangs only if the parser panics on one of its files, or the visitor on
   a use item without a path, and all of them are Rust. *)
MakesParserPanic(file) ==
  \/ \E item \in TypesharedItems(file) : Parse(item, targetOs) = Panic
  \/ /\ multiFile /\ AcceptTargetOs(file.attrs, targetOs)
     /\ \E item \in {i \in AllItems(file.items) : i.kind = "use"} :
          \E imp \in ImportsOfUse(item.tree, CrateOfFile(file)) : imp.base = NoCrate
HangHasCause ==
  phase = "hanging" =>
    /\ \A file \in Sources : file.parses
    /\ \E file \in Sources : MakesParserPanic(file)

(* No run goes on for ever, and none waits for ever unless the parser panicked
   in it: each step makes a measure of what is left to do smaller, in
   lexicographic order, and no part of it negative, so that there is a last
   one; as the runs never block (the model checker looks for deadlocks), all
   of them have ended then, or one hangs, and that has a cause. *)
Rank == CASE phase = "starting" -> 4 [] phase = "parsing" -> 3 [] phase = "reconciling" -> 2
          [] phase \in {"generating", "writing"} -> 1 [] phase \in Ended \cup {"hanging"} -> 0
ToVisit == IF data = NoData THEN 0 ELSE 1 + Size(todo)
ToBegin == IF phase = "generating" THEN 1 ELSE 0
Measure ==
  <<Len(world.runs) - run, Rank, Cardinality(waiting), ToVisit,
    Cardinality(DOMAIN crates \ DOMAIN modules), ToBegin, Cardinality(left)>>
EachStepLeadsOn ==
  /\ [][\E i \in DOMAIN Measure : /\ Measure'[i] \in 0..Measure[i] - 1
                                  /\ \A j \in 1..i - 1 : Measure'[j] = Measure[j]]_vars
  /\ []HangHasCause
=============================================================================

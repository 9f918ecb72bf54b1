------------------------------ MODULE MultiFile ------------------------------
(***************************************************************************)
(* generate_types of cli/src/main.rs from the parsed files to the imports  *)
(* of the generated modules: each file keeps the imports its types refer   *)
(* to (visitors.rs), files are merged by crate in the order in which the   *)
(* parallel walk delivers them (module ParallelParse), references are      *)
(* renamed after serde(rename) and items sorted (reconcile.rs), and each   *)
(* crate's imports are looked up among the types of all crates             *)
(* (used_imports of language/mod.rs).                                      *)
(*                                                                         *)
(* A file is a record of its items by class, of the imports its `use`      *)
(* items and paths stand for, and of whether an item failed to parse. An   *)
(* item has its name in Rust, the name it is generated under, which        *)
(* differs only by serde(rename), and its references; a reference is the   *)
(* name of a type or, if generic, the name in front of the parameters,     *)
(* which are references of their own. With a single output file there is   *)
(* one crate and no import.                                                *)
(***************************************************************************)
EXTENDS Naturals, Sequences, SequencesExt

CONSTANTS Files, Names, Worlds,
          CrateSeq,   \* crate names in the order of the BTreeMap
          CrateOf,    \* crate of a file
          HashOrders, \* iteration orders a HashMap keyed by crates may have
          Rank,       \* order of names
          Wildcard    \* the name "*"

Crates == Range(CrateSeq)
Classes == {"alias", "struct", "enum", "const"}
Sorted == Classes \ {"const"}

References == [id : Names, generic : BOOLEAN]
Items == [name : Names, shown : Names, refs : Seq(References)]
\* an import may name a crate that has no typeshared type
IsImport(imp) == imp.name \in Names \cup {Wildcard}

ASSUME MultiFileAssumption ==
  /\ CrateSeq \in Seq(Range(CrateSeq)) \ {<<>>} /\ IsInjective(CrateSeq)
  /\ CrateOf \in [Files -> Crates]
  /\ \A o \in HashOrders : o \in [DOMAIN CrateSeq -> Crates] /\ Range(o) = Crates
  /\ Rank \in [Names -> Nat] /\ IsInjective(Rank)
  /\ Wildcard \notin Names
  /\ \A world \in Worlds : \A f \in Files :
       /\ world[f].items \in [Classes -> Seq(Items)]
       /\ \A imp \in world[f].uses : IsImport(imp)

VARIABLES
  world,      \* the files
  waiting,    \* files not yet merged
  items,      \* crate -> class -> the items parsed
  imports,    \* crate -> import_types
  typeNames,  \* crate -> type_names
  failed,     \* files with ErrorInfo in the crates' errors
  phase,      \* where generate_types is
  at,         \* position in CrateSeq of the crate being worked on
  allTypes,   \* all_types: crate -> names of its generated types
  order,      \* iteration order of the all_types HashMap
  pending,    \* imports used_imports has not yet looked at
  used        \* crate -> other crate -> names its module imports from it

vars == <<world, waiting, items, imports, typeNames, failed, phase, at,
          allTypes, order, pending, used>>

TypeOK ==
  /\ waiting \in SUBSET Files /\ failed \in SUBSET Files
  /\ items \in [Crates -> [Classes -> Seq(Items)]]
  /\ \A c \in Crates : \A imp \in imports[c] \cup pending : IsImport(imp)
  /\ typeNames \in [Crates -> SUBSET Names]
  /\ allTypes \in [Crates -> SUBSET Names]
  /\ phase \in {"parsing", "reconciling", "importing", "done", "failed"}
  /\ at \in 1..Len(CrateSeq) + 1
  /\ phase = "importing" => at <= Len(CrateSeq)
  /\ used \in [Crates -> [Crates -> SUBSET Names]]

NoNames == [c \in Crates |-> {}]

Init ==
  /\ world \in Worlds
  /\ waiting = Files /\ failed = {}
  /\ items = [c \in Crates |-> [k \in Classes |-> <<>>]]
  /\ imports = NoNames /\ typeNames = NoNames /\ allTypes = NoNames
  /\ phase = "parsing" /\ at = 1
  /\ order \in HashOrders
  /\ pending = {}
  /\ used = [c \in Crates |-> NoNames]

-----------------------------------------------------------------------------
(* One file: the visitor *)

ItemsIn(byClass) == UNION {Range(byClass[k]) : k \in Classes}
RefIds(byClass) == {ref.id : ref \in UNION {Range(item.refs) : item \in ItemsIn(byClass)}}
ShownNames(byClass) == {item.shown : item \in ItemsIn(byClass)}

Named(imps, id) == {imp \in imps : imp.name = id}

(* A file keeps every import, whether its types refer to it or not. *)
RetainedAll(file) == {file.uses}

(* reconcile_referenced_types: of the imports the file keeps the wildcards,
   and one import, whichever the HashSet yields first, for each name that is
   referred to and is not the generated name of a type of the file. *)
RetainedImports(file) ==
  LET wanted == {id \in RefIds(file.items) \ ShownNames(file.items) :
                   Named(file.uses, id) # {}}
      picks  == {pick \in [wanted -> file.uses] : \A id \in wanted : pick[id].name = id}
  IN  {Range(pick) \cup Named(file.uses, Wildcard) : pick \in picks}

IsEmpty(file) == ItemsIn(file.items) = {} /\ ~file.errors

(* A file of another thread replaces what its crate has. *)
MergedOver(old, new) == new

(* AddAssign of ParsedData. *)
Merged(old, new) == old \o new

(* The collector merges the ParsedData of the next file into that of its
   crate; a file without items yields none. *)
MergeFile(f) ==
  LET c == CrateOf[f] IN
  /\ phase = "parsing" /\ f \in waiting
  /\ waiting' = waiting \ {f}
  /\ IF IsEmpty(world[f])
     THEN UNCHANGED <<items, imports, typeNames, failed>>
     ELSE /\ items' = [items EXCEPT ![c] = [k \in Classes |-> Merged(@[k], world[f].items[k])]]
          /\ \E kept \in RetainedImports(world[f]) :
               imports' = [imports EXCEPT ![c] = @ \cup kept]
          /\ typeNames' = [typeNames EXCEPT ![c] = @ \cup ShownNames(world[f].items)]
          /\ failed' = IF world[f].errors THEN failed \cup {f} ELSE failed
  /\ UNCHANGED <<world, phase, at, allTypes, order, pending, used>>

StartReconcile ==
  /\ phase = "parsing" /\ waiting = {}
  /\ phase' = "reconciling"
  /\ UNCHANGED <<world, waiting, items, imports, typeNames, failed, at, allTypes,
                 order, pending, used>>

-----------------------------------------------------------------------------
(* reconcile_aliases *)

(* collect_serde_renames, as the names a type of crate c called id has been
   renamed to: of several the last one counts, aliases after enums after
   structs. Consts are not looked at. *)
SerdeRenamed(c, id) ==
  LET all == items[c]["struct"] \o items[c]["enum"] \o items[c]["alias"]
      ren == {i \in DOMAIN all : all[i].name = id /\ all[i].shown # id}
  IN  IF ren = {} THEN {} ELSE {all[Max(ren)].shown}

RenamedImports(c, id) ==
  UNION {SerdeRenamed(imp.crate, id) : imp \in {i \in Named(imports[c], id) : i.crate \in Crates}}

(* Only the imports are searched for a renamed type. *)
ResolveImported(c, id) ==
  IF RenamedImports(c, id) # {} THEN RenamedImports(c, id) ELSE {id}

(* resolve_renamed: what a reference id of crate c may become. The renamed
   type of an import comes first, whichever the HashSet yields first, then
   that of the crate itself. *)
Resolve(c, id) ==
  IF RenamedImports(c, id) # {} THEN RenamedImports(c, id)
  ELSE IF SerdeRenamed(c, id) # {} THEN SerdeRenamed(c, id) ELSE {id}

(* check_type: the name of a generic type stays. *)
CheckType(ref, new) == IF ref.generic THEN ref ELSE [ref EXCEPT !.id = new[ref.id]]

CheckItem(item, new) ==
  [item EXCEPT !.refs = [k \in DOMAIN @ |-> CheckType(@[k], new)]]

(* Items stay as the walk delivered them. *)
LeaveUnsorted(seq) == {seq}

(* Vec::sort, stable, by original name: the one sequence it may leave. *)
SortByName(seq) ==
  LET Before(i, j) == \/ Rank[seq[i].name] < Rank[seq[j].name]
                      \/ seq[i].name = seq[j].name /\ i < j
      perms == {perm \in [DOMAIN seq -> DOMAIN seq] :
                  \A i, j \in DOMAIN seq : i < j => Before(perm[i], perm[j])}
  IN  {[k \in DOMAIN seq |-> seq[perm[k]]] : perm \in perms}

(* The references of aliases, structs and enums of the next crate are
   checked and these three lists sorted; consts are left alone. *)
ReconcileCrate ==
  /\ phase = "reconciling" /\ at <= Len(CrateSeq)
  /\ LET c == CrateSeq[at]
         ids == RefIds(items[c])
         Checked(k, new) == [i \in DOMAIN items[c][k] |-> CheckItem(items[c][k][i], new)]
     IN  \E new \in [ids -> Names] :
           /\ \A id \in ids : new[id] \in Resolve(c, id)
           /\ \E structs \in SortByName(Checked("struct", new)),
                 enums \in SortByName(Checked("enum", new)),
                 aliases \in SortByName(Checked("alias", new)) :
                items' = [items EXCEPT ![c] = [@ EXCEPT !["struct"] = structs,
                                                        !["enum"] = enums,
                                                        !["alias"] = aliases]]
  /\ at' = at + 1
  /\ UNCHANGED <<world, waiting, imports, typeNames, failed, phase, allTypes, order,
                 pending, used>>

-----------------------------------------------------------------------------
(* all_types and check_parse_errors *)

(* Imports that refer to the crate itself are not looked up. *)
Foreign(c) == {imp \in imports[c] : imp.crate # c}

(* all_types takes the type names out of the crates; any parse error ends
   the run. *)
AllTypes ==
  /\ phase = "reconciling" /\ at > Len(CrateSeq)
  /\ allTypes' = typeNames /\ typeNames' = NoNames
  /\ at' = 1
  /\ IF failed # {} THEN phase' = "failed" /\ UNCHANGED pending
                    ELSE phase' = "importing" /\ pending' = Foreign(CrateSeq[1])
  /\ UNCHANGED <<world, waiting, items, imports, failed, order, used>>

-----------------------------------------------------------------------------
(* used_imports *)

Current == CrateSeq[at]

Use(crate, ids) == used' = [used EXCEPT ![Current][crate] = @ \cup ids]

Declares(imp) == imp.crate \in Crates /\ imp.name \in allTypes[imp.crate]

(* The HashSet yields some import next. *)
Lookup(imp) ==
  /\ phase = "importing" /\ imp \in pending
  /\ pending' = pending \ {imp}
  /\ UNCHANGED <<world, waiting, items, imports, typeNames, failed, phase, at,
                 allTypes, order>>

(* A wildcard goes into the imports like a name. *)
LookupWildcardByName(imp) ==
  /\ Lookup(imp) /\ imp.name = Wildcard
  /\ IF imp.crate \in Crates THEN Use(imp.crate, {imp.name}) ELSE UNCHANGED used

(* A wildcard adds the crate's types to those that are imported from it, if
   any are: `entry().and_modify()` without `or_insert()`. *)
LookupWildcard(imp) ==
  /\ Lookup(imp) /\ imp.name = Wildcard
  /\ IF imp.crate \in Crates /\ used[Current][imp.crate] # {}
     THEN Use(imp.crate, allTypes[imp.crate])
     ELSE UNCHANGED used

(* The crate named in the import declares the type. *)
LookupDeclared(imp) ==
  /\ Lookup(imp) /\ imp.name # Wildcard /\ Declares(imp)
  /\ Use(imp.crate, {imp.name})

(* Crates the fallback may take a type from, the current one included. *)
AnyCandidates(imp) == {i \in DOMAIN order : imp.name \in allTypes[order[i]]}

(* Positions in the HashMap of the other crates that declare the type. *)
Candidates(imp) ==
  {i \in DOMAIN order : order[i] # Current /\ imp.name \in allTypes[order[i]]}

(* It does not: the type may be a re-export, and the first other crate of
   the HashMap that declares one of that name is taken. *)
LookupFallback(imp) ==
  /\ Lookup(imp) /\ imp.name # Wildcard /\ ~Declares(imp)
  /\ IF Candidates(imp) # {}
     THEN Use(order[Min(Candidates(imp))], {imp.name})
     ELSE UNCHANGED used

NextCrate ==
  /\ phase = "importing" /\ pending = {}
  /\ IF at < Len(CrateSeq)
     THEN /\ at' = at + 1 /\ pending' = Foreign(CrateSeq[at + 1])
          /\ UNCHANGED phase
     ELSE phase' = "done" /\ UNCHANGED <<at, pending>>
  /\ UNCHANGED <<world, waiting, items, imports, typeNames, failed, allTypes, order, used>>

-----------------------------------------------------------------------------

Finished == phase \in {"done", "failed"} /\ UNCHANGED vars

Next ==
  \/ \E f \in Files : MergeFile(f)
  \/ StartReconcile \/ ReconcileCrate \/ AllTypes
  \/ \E imp \in pending :
       LookupWildcard(imp) \/ LookupDeclared(imp) \/ LookupFallback(imp)
  \/ NextCrate
  \/ Finished

Spec == Init /\ [][Next]_vars

-----------------------------------------------------------------------------
(* Properties *)

FilesOf(c) == {f \in Files : CrateOf[f] = c}
Refers(f, id) == id \in RefIds(world[f].items)

(* The types of crate c called id in Rust. *)
Declared(c, id) ==
  UNION {{item \in Range(world[f].items[k]) : item.name = id} :
           f \in FilesOf(c), k \in Sorted}

(* The crates a reference id in some file of c may mean. *)
Meanings(c, id) ==
  {imp.crate : imp \in UNION {Named(world[f].uses, id) : f \in FilesOf(c)}}
  \cup {d \in {c} : Declared(c, id) # {}}

Sees(f, d, id) ==
  \/ [crate |-> d, name |-> id] \in world[f].uses
  \/ d = CrateOf[f] /\ \E item \in ItemsIn(world[f].items) : item.name = id

(* A reference id of file f that can only mean `target`, a type of crate d:
   f imports or declares it, no file of f's crate means another type by that
   name or generates another one, or a const, under it, and d has just one of
   the name. A const that is called like an imported type hides the import:
   type_names holds the names of both. *)
Means(f, id, d, target) ==
  LET c == CrateOf[f] IN
  /\ Meanings(c, id) = {d} /\ Sees(f, d, id)
  /\ Declared(d, id) = {target}
  /\ \A g \in FilesOf(c) : \A h \in Classes : \A item \in Range(world[g].items[h]) :
       item.shown \in {id, target.shown} => item.name = id /\ h \in Sorted
  /\ \A g \in FilesOf(d) : \A item \in ItemsIn(world[g].items) :
       item.name = id => item = target

(* Every reference with one meaning, whatever the form of it, where
   P(f, k, item, m, d, target) is said of the m-th reference of an item of
   class k in file f. *)
ForClear(P(_, _, _, _, _, _)) ==
  \A f \in Files : \A k \in Sorted : \A item \in Range(world[f].items[k]) :
    \A m \in DOMAIN item.refs : \A d \in Crates :
      \A target \in Declared(d, item.refs[m].id) :
        Means(f, item.refs[m].id, d, target) => P(f, k, item, m, d, target)

(* The module generated for f's crate has the item, with its m-th reference
   to the target's generated name. *)
Follows(f, k, item, m, target) ==
  \E g \in Range(items[CrateOf[f]][k]) :
    g.name = item.name /\ g.shown = item.shown /\ g.refs[m].id = target.shown

ImportsTarget(f, d, target) ==
  d # CrateOf[f] => target.shown \in used[CrateOf[f]][d]

(* A reference that has one meaning in its crate is generated as the name its
   type is generated under, and the module imports that name if it is another
   crate's, whatever the order of files and hash sets. The type must be used
   without parameters or not be renamed, and not be renamed and another
   crate's at once: RenamesFollowed and UsedTypesImported show why. *)
ReferencesResolve ==
  phase = "done" =>
    ForClear(LAMBDA f, k, item, m, d, target :
      (\/ target.shown = target.name
       \/ d = CrateOf[f] /\ ~item.refs[m].generic)
      => Follows(f, k, item, m, target) /\ ImportsTarget(f, d, target))

(* A module imports only types that another crate of the run generates. *)
ImportsReal ==
  \A c, d \in Crates : \A t \in used[c][d] :
    d # c /\ \E f \in FilesOf(d) : t \in ShownNames(world[f].items)

(* The other crates that generate a type of this name. *)
Generating(c, id) ==
  {d \in Crates \ {c} : \E f \in FilesOf(d) : id \in ShownNames(world[f].items)}

Expected(c, d) ==
  {id \in Names : \E f \in FilesOf(c) :
     /\ Refers(f, id) /\ id \notin ShownNames(world[f].items)
     /\ \E imp \in Named(world[f].uses, id) :
          /\ imp.crate # c
          /\ d = imp.crate \/ imp.crate \notin Generating(c, id)
          /\ d \in Generating(c, id)}

(* No wildcard, no name that a file imports twice, and no re-exported name
   that several crates generate. *)
Unambiguous(c) ==
  \A f \in FilesOf(c) : \A imp, other \in world[f].uses :
    /\ imp.name # Wildcard
    /\ imp.name = other.name => imp = other
    /\ imp.crate \in Generating(c, imp.name) \/ Cardinality(Generating(c, imp.name)) <= 1

(* Such a crate's module imports exactly what the types of the crate's files
   refer to through their imports: no import is lost when files are merged,
   none is there that no type needs, and no order changes them. *)
ImportsExact ==
  phase = "done" => \A c, d \in Crates : Unambiguous(c) => used[c][d] = Expected(c, d)

(* Aliases, structs and enums of a module are those of the crate's files,
   each once, in the order of their names, whatever the order of the files. *)
DeterministicOrder ==
  phase = "done" => \A c \in Crates : \A k \in Sorted :
    LET gen == items[c][k]
        declared == UNION {{f} \X DOMAIN world[f].items[k] : f \in FilesOf(c)}
    IN  /\ \A i, j \in DOMAIN gen : i < j => Rank[gen[i].name] <= Rank[gen[j].name]
        /\ \A id \in Names :
             Cardinality({i \in DOMAIN gen : gen[i].name = id}) =
             Cardinality({fi \in declared : world[fi[1]].items[k][fi[2]].name = id})

(* "Update any type references that have the refenced type renamed via
   `serde(rename)`" (reconcile.rs line 21). *)
RenamesFollowed ==
  phase = "done" => ForClear(LAMBDA f, k, item, m, d, target : Follows(f, k, item, m, target))

(* "Lookup any refeferences to other typeshared types in order to build a list
   of imports for the generated module" (language/mod.rs line 431). *)
UsedTypesImported ==
  phase = "done" => ForClear(LAMBDA f, k, item, m, d, target : ImportsTarget(f, d, target))
=============================================================================

------------------------ MODULE TypeshareProperties -------------------------
(***************************************************************************)
(* What runs of the command line tool promise: properties of module        *)
(* Typeshare, from the configuration and the sources of a run to what its  *)
(* modules declare, refer to and need. Where the code is known to fall     *)
(* short, the case is named and left out.                                  *)
(***************************************************************************)
EXTENDS Typeshare

(* A run that ends well has declared each typeshared item of the sources in
   the module of the crate of its file, under its name or the new one. Scala
   drops constants, and a crate called like the module of post_generation
   loses its own. *)
NamesOf(item, id) ==
  LET Prefixed(name) == <<backend.prefix, name>>
  IN  IF item.kind = "const"
      THEN {Prefixed(IF Lang = "go" THEN ToPascalCase(id.renamed)
                     ELSE ToScreamingSnakeCase(id.renamed))}
      ELSE {IF Lang = "go" THEN GoAcronymsToUppercase(backend, Prefixed(name))
            ELSE Prefixed(name) : name \in {id.original, id.renamed}}
EveryItemDeclared ==
  Generated =>
    \A file \in {f \in Sources : CrateOfFile(f) # PostModule} : \A item \in TypesharedItems(file) :
      \/ Lang = "scala" /\ item.kind = "const"
      \/ /\ CrateOfFile(file) \in DOMAIN modules
         /\ \E name \in modules[CrateOfFile(file)].text.names :
              name[1] \in NamesOf(item, GetIdent(item.ident, item.attrs, <<>>))

-----------------------------------------------------------------------------
(* What cfg means: the values a predicate can have on a target, whatever the
   features are. *)
IsOs(meta) == meta.kind = "NameValue" /\ meta.name = "target_os"
Values(meta, os) ==
  LET Of[m \in Metas] ==
        IF IsOs(m) THEN {m.value = os}
        ELSE IF m.kind # "List" THEN BOOLEAN
        ELSE LET nested == DOMAIN m.nested
                 all == {v \in [nested -> BOOLEAN] : \A i \in nested : v[i] \in Of[m.nested[i]]}
             IN  CASE m.name = "not" -> {~v[1] : v \in all}
                   [] m.name = "any" -> {\E i \in nested : v[i] : v \in all}
                   [] m.name = "all" -> {\A i \in nested : v[i] : v \in all}
                   [] OTHER -> BOOLEAN
  IN  Of[meta]

CfgsOf(attrs) == UNION {ToSet(GetMetaItems(attrs[a], "cfg")) : a \in DOMAIN attrs}

(* An item is for the targets if it is for one of them, or none are given. *)
IsForTargets(attrs) ==
  targetOs # {} => \E os \in targetOs : \A meta \in CfgsOf(attrs) : TRUE \in Values(meta, os)

(* The forms of cfg that are read as they are meant: an operating system, any
   of several, none of one or several, and all of such and of other things,
   with one that is positive at most. With several targets `not` rejects what
   is not for all of them. *)
IsLeaf(meta) == meta.kind \in {"Path", "NameValue"}
IsList(meta, name) == meta.kind = "List" /\ meta.name = name
IsAnyOs(meta) ==
  IsOs(meta) \/ (/\ IsList(meta, "any") /\ meta.nested # <<>>
                 /\ \A i \in DOMAIN meta.nested : IsOs(meta.nested[i]))
IsNotOs(meta) ==
  /\ IsList(meta, "not") /\ Len(meta.nested) = 1
  /\ IsLeaf(meta.nested[1]) \/ IsAnyOs(meta.nested[1])
Clauses(meta) == IF IsList(meta, "all") THEN ToSet(meta.nested) ELSE {meta}
IsUsual(attrs) ==
  LET clauses == UNION {Clauses(meta) : meta \in CfgsOf(attrs)}
  IN  /\ \A clause \in clauses : IsLeaf(clause) \/ IsAnyOs(clause) \/ IsNotOs(clause)
      /\ \A clause, other \in {c \in clauses : IsAnyOs(c)} : clause = other
      /\ (\E os \in targetOs : targetOs = {os}) \/ \A clause \in clauses : ~IsNotOs(clause)

AttrsIn(item) ==
  {item.attrs} \cup
  CASE item.kind = "struct" -> {item.fields.list[i].attrs : i \in DOMAIN item.fields.list}
    [] item.kind = "enum" ->
         UNION {{v.attrs} \cup {v.fields.list[i].attrs : i \in DOMAIN v.fields.list} :
                  v \in ToSet(item.variants)}
    [] OTHER -> {}

(* An item without the fields and variants that are skipped or not for the
   targets; the attributes of what is in a tuple do not count. *)
Erase(list) ==
  Chosen(list, {part \in ToSet(list) : /\ IsForTargets(part.attrs)
                                       /\ ~HasWord(part.attrs, "serde", "skip")
                                       /\ ~HasWord(part.attrs, "typeshare", "skip")})
EraseFields(fields) ==
  IF fields.style = "Named" THEN [fields EXCEPT !.list = Erase(@)] ELSE fields
Erased(item) ==
  CASE item.kind = "struct" -> [item EXCEPT !.fields = EraseFields(@)]
    [] item.kind = "enum" ->
         [item EXCEPT !.variants =
            LET kept == Erase(@)
            IN  [i \in DOMAIN kept |-> [kept[i] EXCEPT !.fields = EraseFields(@)]]]
    [] OTHER -> item

(* After the walk a crate has what parsing its sources for all targets would
   yield had everything skipped, and everything that cfg keeps from the
   targets, been deleted from them: the filter is the meaning of cfg, and
   nothing of a skipped part leaks into the kind of an enum, its checks or
   its errors. *)
SkippingIsErasing ==
  Walked /\ (\A file \in Sources : \A item \in AllItems(file.items) :
               item.kind # "use" =>
                 \A attrs \in AttrsIn(item) \cup {file.attrs} : IsUsual(attrs)) =>
    \A c \in {CrateOfFile(file) : file \in Sources} :
      LET meant == {Parse(Erased(item), {}) :
                      item \in UNION {{i \in AllItems(file.items) :
                                         /\ i.kind # "use" /\ HasTypeshareAnnotation(i.attrs)
                                         /\ IsForTargets(i.attrs) /\ IsForTargets(file.attrs)} :
                                        file \in {f \in Sources : CrateOfFile(f) = c}}}
          parsed == IF c \in DOMAIN crates THEN crates[c] ELSE NoData
      IN  /\ ToSet(parsed.items) = {m \in meant : ~IsFailure(m)}
          /\ ToSet(parsed.errors) = {m.failure : m \in {n \in meant : IsFailure(n)}}

-----------------------------------------------------------------------------
(* The leaves of a use tree with the first segment of their own path. What is
   imported under a new name is left out; "" stands for that, and for nothing. *)
Leaves[tree \in Trees] ==
  LET Leaf(name) == Import(NoCrate, name)
  IN  CASE tree.kind = "Path"   -> {[leaf EXCEPT !.base = tree.name] : leaf \in Leaves[tree.tree]}
        [] tree.kind = "Group"  -> IF tree.items = <<>> THEN {Leaf("")}
                                   ELSE UNION {Leaves[tree.items[i]] : i \in DOMAIN tree.items}
        [] tree.kind = "Glob"   -> {Leaf("*")}
        [] tree.kind = "Name"   -> {Leaf(tree.name)}
        [] tree.kind = "Rename" -> {Leaf("")}

(* What a file imports: by the leaves of its use items what may be typeshared
   in crates that may have such types, and by the paths in other items. *)
ItemsVisited(file) == IF AcceptTargetOs(file.attrs, targetOs) THEN AllItems(file.items) ELSE {}
ImportsMeant(file) ==
  LET uses == {item \in ItemsVisited(file) : item.kind = "use"}
      crate == CrateOfFile(file)
      imports == {Import(ResolveCrateName(leaf.base, crate), leaf.name) :
                    leaf \in UNION {Leaves[item.tree] : item \in uses}}
  IN  {imp \in imports : /\ AcceptCrate(imp.base)
                         /\ imp.name = "*" \/ AcceptType(imp.name)
                         /\ imp.name \notin ignoredTypes}
      \cup UNION {ImportsOfPaths(item, crate, ignoredTypes) : item \in ItemsVisited(file) \ uses}

(* The visitor finds the imports a file declares, if what a use item names has
   one first segment. *)
HasUsualUses(file) ==
  \A item \in {i \in ItemsVisited(file) : i.kind = "use"} :
    \A leaf, other \in Leaves[item.tree] : leaf.base # NoCrate /\ leaf.base = other.base
UseImports ==
  phase = "parsing" /\ multiFile /\ data # NoData /\ todo = <<>> =>
    \E file \in Sources \ waiting :
      CrateOfFile(file) = data.crate /\ (HasUsualUses(file) => data.imports = ImportsMeant(file))

-----------------------------------------------------------------------------
(* What the backends are known to leave out: what Kotlin imports if there is
   no package; the braces of a Scala package whose name has no dot, and the
   aliases of unsigned integers that are nested deeper than it looks; in
   Python the functions for a field with a default, which it records under
   Optional, datetime if a mapping or an override has that for another type,
   and the type variables of an alias. *)
FieldsIn(item) ==
  CASE item.kind = "struct" -> ToSet(item.fields)
    [] item.kind = "enum" ->
         UNION {ToSet(variant.fields) : variant \in ToSet(AnonymousVariants(item))}
    [] OTHER -> {}
IsNestedUnsigned(ty) ==
  \E t \in Formatted(ty, UserMappings(backend)) \ ScalaLooksAt(ty) : t.id \in ScalaUnsignedIds
IsForeignDatetime(field) ==
  /\ "datetime" \in PythonWrittenTypes(backend, field)
  /\ \/ TypeOverrides(field, "python") # {}
     \/ Key(field.ty) \in DOMAIN backend.mappings /\ field.ty.id # "DateTime"
LeftOut(item) ==
  CASE Lang = "kotlin" -> IF backend.package = "" THEN {"Serializable"} ELSE {}
    [] Lang = "scala" ->
         (IF backend.package # "dotted" THEN {"}"} ELSE {})
         \cup IF \E ty \in TypesOfItem(item) : IsNestedUnsigned(ty) THEN {"UnsignedAliases"} ELSE {}
    [] Lang = "python" ->
         (UNION {PythonFunctions(PythonWrittenTypes(backend, field)) :
                   field \in {f \in FieldsIn(item) : f.hasDefault /\ ~IsOptional(f.ty)}})
         \cup (IF \E field \in FieldsIn(item) : IsForeignDatetime(field)
               THEN PythonImports({"datetime"}) ELSE {})
         \cup IF item.kind = "alias" THEN PythonTypeVars(item.generics) ELSE {}
    [] OTHER -> {}

(* What a module uses besides types is imported or generated in it, or in the
   module that post_generation adds. *)
HelpersProvided ==
  Generated =>
    \A c \in DOMAIN crates :
      modules[c].text.needs \ UNION {LeftOut(item) : item \in ToSet(crates[c].items)}
        \subseteq UNION {modules[d].provides : d \in {c, PostModule} \cap DOMAIN modules}

(* The sources define each type that they refer to, with as many parameters as
   they give it, or the configuration maps it. They may refer to it by its new
   name, or by its name in Rust if reconcile_aliases finds the new one: in the
   crate itself or through an import of the name, and not for a constant, which
   it passes over. *)
TypesReferred(item) == UNION {TypesIn[ty] : ty \in TypesOfItem(item)}
ParametersOf(item) == IF item.kind = "const" THEN {} ELSE ToSet(item.generics)
Finds(crate, other, id) ==
  other = crate \/ \E imp \in crates[crate].imports : imp.base = other /\ imp.name = id
IsDefined(ty, item, crate) ==
  \E c \in DOMAIN crates : \E other \in ToSet(crates[c].items) :
    /\ other.kind # "const" /\ Len(other.generics) = Len(ty.args)
    /\ \/ ty.id = other.id.renamed
       \/ /\ ty.id = other.id.original
          /\ other.id.serdeRename => item.kind # "const" /\ Finds(crate, c, ty.id)
IsClosed ==
  \A crate \in DOMAIN crates : \A item \in ToSet(crates[crate].items) : \A ty \in TypesReferred(item) :
    \/ IsSpecial(ty) \/ ty.id \in ParametersOf(item) \/ <<ty.id>> \in DOMAIN backend.mappings
    \/ IsDefined(ty, item, crate)

(* Items that the backends are known to declare otherwise than others refer to
   them: a generic type that is renamed, as check_type does not rename what it
   is the head of; aliases and enums in Go, of which the parameters and the new
   name are ignored, and the acronyms in the type of an alias or a constant; in
   Kotlin and Scala the new name of an alias and, in its variants, of an
   algebraic enum, and the parameters of a struct without fields, in Scala of a
   unit enum, in Kotlin of an inline alias; in Python the parameters of an
   enum. *)
IsRenamed(item) == item.id.renamed # item.id.original
IsMisdeclared(item) ==
  LET isGeneric   == item.kind # "const" /\ item.generics # <<>>
      isAlgebraic == item.kind = "enum" /\ ~item.unit
      isEmpty     == item.kind = "struct" /\ item.fields = <<>>
      ids         == {ty.id : ty \in TypesReferred(item)}
  IN  \/ isGeneric /\ item.id.serdeRename
      \/ Lang = "go" /\ item.kind \in {"alias", "enum"} /\ (isGeneric \/ IsRenamed(item))
      \/ Lang = "go" /\ item.kind \in {"alias", "const"} /\ ids \cap DOMAIN backend.acronyms # {}
      \/ /\ Lang \in {"kotlin", "scala"}
         /\ \/ IsRenamed(item) /\ (item.kind = "alias" \/ isAlgebraic)
            \/ isGeneric /\ isEmpty
            \/ isGeneric /\ Lang = "kotlin" /\ item.kind = "alias" /\ KotlinIsInline(item)
            \/ isGeneric /\ Lang = "scala" /\ item.kind = "enum" /\ ~isAlgebraic
      \/ Lang = "python" /\ isGeneric /\ item.kind = "enum"

(* The modules together declare the types each of them refers to, with the
   number of parameters it gives them. A crate called like the module of
   post_generation loses what it declares. *)
ReferencesDeclared ==
  LET items == UNION {ToSet(crates[c].items) : c \in DOMAIN crates}
      names == UNION {modules[c].text.names : c \in DOMAIN modules}
  IN  Generated /\ PostModule \notin DOMAIN crates /\ IsClosed
      /\ (\A item \in items : ~IsMisdeclared(item)) =>
        \A c \in DOMAIN modules : modules[c].text.refs \subseteq names

=============================================================================

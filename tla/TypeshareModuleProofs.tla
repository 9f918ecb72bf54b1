------------------------ MODULE TypeshareModuleProofs ------------------------
(***************************************************************************)
(* Proofs about what the modules of a run have, by what each of the six    *)
(* backends writes: the items they declare (EveryItemDeclared), the        *)
(* helpers they use (HelpersProvided), and the types they refer to         *)
(* (ReferencesDeclared), which rests on what reconcile_aliases makes of    *)
(* the types of items.                                                     *)
(***************************************************************************)
EXTENDS TypeshareProofs

-----------------------------------------------------------------------------
(* Texts *)

LEMMA TextsOfAll ==
  \A seq : \A i \in DOMAIN seq :
    seq[i].names \subseteq Texts(seq).names
BY DEF Texts

LEMMA TextsOfThree ==
  ASSUME NEW a, NEW b, NEW c
  PROVE  LET all == Texts(<<a, b, c>>)
         IN  /\ all.names = a.names \cup b.names \cup c.names
             /\ all.needs = a.needs \cup b.needs \cup c.needs
             /\ all.recorded = a.recorded \cup b.recorded \cup c.recorded
<1> DEFINE seq == <<a, b, c>>
<1>1. DOMAIN seq = {1, 2, 3} /\ seq[1] = a /\ seq[2] = b /\ seq[3] = c
  OBVIOUS
<1> HIDE DEF seq
<1> QED
  BY <1>1 DEF Texts, seq

LEMMA TextsOfFour ==
  ASSUME NEW a, NEW b, NEW c, NEW d
  PROVE  LET all == Texts(<<a, b, c, d>>)
         IN  /\ all.names = a.names \cup b.names \cup c.names \cup d.names
             /\ all.needs = a.needs \cup b.needs \cup c.needs \cup d.needs
             /\ all.recorded = a.recorded \cup b.recorded \cup c.recorded \cup d.recorded
<1> DEFINE seq == <<a, b, c, d>>
<1>1. DOMAIN seq = {1, 2, 3, 4} /\ seq[1] = a /\ seq[2] = b /\ seq[3] = c /\ seq[4] = d
  OBVIOUS
<1> HIDE DEF seq
<1> QED
  BY <1>1 DEF Texts, seq

LEMMA TextsOfFive ==
  ASSUME NEW a, NEW b, NEW c, NEW d, NEW e
  PROVE  LET all == Texts(<<a, b, c, d, e>>)
         IN  /\ all.names = a.names \cup b.names \cup c.names \cup d.names \cup e.names
             /\ all.needs = a.needs \cup b.needs \cup c.needs \cup d.needs \cup e.needs
             /\ all.recorded = a.recorded \cup b.recorded \cup c.recorded \cup d.recorded
                               \cup e.recorded
<1> DEFINE seq == <<a, b, c, d, e>>
<1>1. /\ DOMAIN seq = {1, 2, 3, 4, 5}
      /\ seq[1] = a /\ seq[2] = b /\ seq[3] = c /\ seq[4] = d /\ seq[5] = e
  OBVIOUS
<1> HIDE DEF seq
<1> QED
  BY <1>1 DEF Texts, seq

LEMMA TextsOfSix ==
  ASSUME NEW a, NEW b, NEW c, NEW d, NEW e, NEW f
  PROVE  LET all == Texts(<<a, b, c, d, e, f>>)
         IN  /\ all.names = a.names \cup b.names \cup c.names \cup d.names \cup e.names \cup f.names
             /\ all.needs = a.needs \cup b.needs \cup c.needs \cup d.needs \cup e.needs \cup f.needs
             /\ all.recorded = a.recorded \cup b.recorded \cup c.recorded \cup d.recorded
                               \cup e.recorded \cup f.recorded
<1> DEFINE seq == <<a, b, c, d, e, f>>
<1>1. /\ DOMAIN seq = {1, 2, 3, 4, 5, 6}
      /\ seq[1] = a /\ seq[2] = b /\ seq[3] = c /\ seq[4] = d /\ seq[5] = e /\ seq[6] = f
  OBVIOUS
<1> HIDE DEF seq
<1> QED
  BY <1>1 DEF Texts, seq

LEMMA BothAre ==
  \A a, b : /\ Both(a, b).names = a.names \cup b.names
            /\ Both(a, b).needs = a.needs \cup b.needs
            /\ Both(a, b).recorded = a.recorded \cup b.recorded
BY DEF Both

(* What is declared, recorded and needed by the texts there are. *)
LEMMA TextIs ==
  /\ Empty.names = {} /\ Empty.needs = {} /\ Empty.recorded = {}
  /\ \A parts, generics :
       /\ Declares(parts, generics).names = {<<parts, Len(generics)>>}
       /\ Declares(parts, generics).needs = {} /\ Declares(parts, generics).recorded = {}
       /\ RefersTo(parts, generics).needs = {} /\ RefersTo(parts, generics).recorded = {}
  /\ \A helpers :
       /\ Needs(helpers).needs = helpers /\ Needs(helpers).recorded = {}
       /\ Records(helpers).needs = {} /\ Records(helpers).recorded = helpers
       /\ Requires(helpers).needs = helpers /\ Requires(helpers).recorded = helpers
  /\ \A fate : /\ Fails(fate).needs = {} /\ Fails(fate).recorded = {} /\ Fails(fate).fate = fate
BY DEF Empty, Declares, RefersTo, Needs, Records, Requires, Both, Fails

(* The operators of Language, as each backend has them. *)
(* The case conversions, as backends have them. *)
(* What each backend declares for an item. *)
IsGood(item) == item.kind \in {"struct", "enum", "alias", "const"}

Declared(output, parts) == \E name \in output.names : name[1] = parts

LEMMA DeclaredBy ==
  /\ \A parts, generics : Declared(Declares(parts, generics), parts)
  /\ \A a, b, parts : Declared(a, parts) \/ Declared(b, parts) => Declared(Both(a, b), parts)
  /\ \A a, b, c, parts : Declared(a, parts) \/ Declared(b, parts) => Declared(Texts(<<a, b, c>>), parts)
  /\ \A a, b, c, d, parts :
       Declared(b, parts) \/ Declared(c, parts) => Declared(Texts(<<a, b, c, d>>), parts)
  /\ \A a, b, c, d, e, parts : Declared(a, parts) => Declared(Texts(<<a, b, c, d, e>>), parts)
  /\ \A a, b, c, d, e, f, parts : Declared(e, parts) => Declared(Texts(<<a, b, c, d, e, f>>), parts)
<1>1. \A parts, generics : Declared(Declares(parts, generics), parts)
  <2> SUFFICES ASSUME NEW parts, NEW generics PROVE Declared(Declares(parts, generics), parts)
    OBVIOUS
  <2>1. /\ <<parts, Len(generics)>> \in Declares(parts, generics).names
        /\ <<parts, Len(generics)>>[1] = parts
    BY TextIs
  <2> HIDE DEF Declared
  <2> QED
    BY <2>1 DEF Declared
<1>2. \A a, b, parts : Declared(a, parts) \/ Declared(b, parts) => Declared(Both(a, b), parts)
  BY BothAre DEF Declared
<1>3. \A a, b, c, parts : Declared(a, parts) \/ Declared(b, parts) => Declared(Texts(<<a, b, c>>), parts)
  BY TextsOfThree DEF Declared
<1>4. \A a, b, c, d, parts :
        Declared(b, parts) \/ Declared(c, parts) => Declared(Texts(<<a, b, c, d>>), parts)
  BY TextsOfFour DEF Declared
<1>5. \A a, b, c, d, e, parts : Declared(a, parts) => Declared(Texts(<<a, b, c, d, e>>), parts)
  BY TextsOfFive DEF Declared
<1>6. \A a, b, c, d, e, f, parts : Declared(e, parts) => Declared(Texts(<<a, b, c, d, e, f>>), parts)
  BY TextsOfSix DEF Declared
<1> QED
  BY <1>1, <1>2, <1>3, <1>4, <1>5, <1>6

LEMMA SwiftDeclares ==
  ASSUME NEW cfg, NEW item, IsGood(item), SwiftWriteItem(cfg, item).fate = "ok"
  PROVE  /\ item.kind # "const"
         /\ Declared(SwiftWriteItem(cfg, item), <<cfg.prefix, item.id.renamed>>)
<1>0. item.kind # "const"
  <2> SUFFICES ASSUME item.kind = "const" PROVE FALSE
    OBVIOUS
  <2>1. SwiftWriteItem(cfg, item) = Fails("panic")
    BY DEF SwiftWriteItem, SwiftWriteConst
  <2> QED
    BY <2>1, TextIs
<1>2. CASE item.kind = "alias"
  <2>1. SwiftWriteItem(cfg, item) = Both(Declares(<<cfg.prefix, item.id.renamed>>, item.generics),
                                         SwiftFormatType(cfg, item.generics, item.ty))
    BY <1>2 DEF SwiftWriteItem, SwiftWriteTypeAlias
  <2> QED
    BY <1>0, <2>1, DeclaredBy
<1>3. CASE item.kind = "struct"
  <2>1. \E t : SwiftWriteItem(cfg, item) = Both(Declares(<<cfg.prefix, item.id.renamed>>, item.generics), t)
    BY <1>3 DEF SwiftWriteItem, SwiftWriteStruct, SwiftWriteStructNamed
  <2> QED
    BY <1>0, <2>1, DeclaredBy
<1>4. CASE item.kind = "enum"
  <2>1. \E t, u : SwiftWriteItem(cfg, item) =
                    Texts(<<t, Declares(<<cfg.prefix, item.id.renamed>>, item.generics), u>>)
    BY <1>4 DEF SwiftWriteItem, SwiftWriteEnum
  <2> QED
    BY <1>0, <2>1, DeclaredBy
<1> QED
  BY <1>0, <1>2, <1>3, <1>4 DEF IsGood

LEMMA KotlinDeclares ==
  ASSUME NEW cfg, NEW item, IsGood(item), KotlinWriteItem(cfg, item).fate = "ok"
  PROVE  /\ item.kind # "const"
         /\ \/ Declared(KotlinWriteItem(cfg, item), <<cfg.prefix, item.id.original>>)
            \/ Declared(KotlinWriteItem(cfg, item), <<cfg.prefix, item.id.renamed>>)
<1>0. item.kind # "const"
  <2> SUFFICES ASSUME item.kind = "const" PROVE FALSE
    OBVIOUS
  <2>1. KotlinWriteItem(cfg, item) = Fails("panic")
    BY DEF KotlinWriteItem, KotlinWriteConst
  <2> QED
    BY <2>1, TextIs
<1>2. CASE item.kind = "alias" /\ KotlinIsInline(item)
  <2>1. \E t, u : KotlinWriteItem(cfg, item) =
                    Texts(<<t, Declares(<<cfg.prefix, item.id.renamed>>, <<>>), u>>)
    BY <1>2 DEF KotlinWriteItem, KotlinWriteTypeAlias
  <2> QED
    BY <1>0, <2>1, DeclaredBy
<1>3. CASE item.kind = "alias" /\ ~KotlinIsInline(item)
  <2>1. \E t : KotlinWriteItem(cfg, item) =
                 Both(Declares(<<cfg.prefix, item.id.original>>, item.generics), t)
    BY <1>3 DEF KotlinWriteItem, KotlinWriteTypeAlias
  <2> QED
    BY <1>0, <2>1, DeclaredBy
<1>4. CASE item.kind = "struct"
  <2>1. \E t, generics, u : KotlinWriteItem(cfg, item) =
                              Texts(<<t, Declares(<<cfg.prefix, item.id.renamed>>, generics), u>>)
    BY <1>4 DEF KotlinWriteItem, KotlinWriteStruct, KotlinWriteStructNamed
  <2> QED
    BY <1>0, <2>1, DeclaredBy
<1>5. CASE item.kind = "enum"
  <2>1. \E t, u, v : KotlinWriteItem(cfg, item) =
                       Texts(<<t, u, Declares(<<cfg.prefix, item.id.renamed>>, item.generics), v>>)
    BY <1>5 DEF KotlinWriteItem, KotlinWriteEnum
  <2> QED
    BY <1>0, <2>1, DeclaredBy
<1> QED
  BY <1>0, <1>2, <1>3, <1>4, <1>5 DEF IsGood

(* A name without a prefix. *)
Plain(name) == <<"", name>>

LEMMA ScalaDeclares ==
  ASSUME NEW cfg, NEW item, IsGood(item), item.kind # "const"
  PROVE  \/ Declared(ScalaWriteItem(cfg, item), Plain(item.id.original))
         \/ Declared(ScalaWriteItem(cfg, item), Plain(item.id.renamed))
<1>2. CASE item.kind = "alias"
  <2>1. \E t : ScalaWriteItem(cfg, item) =
                 Both(Declares(Plain(item.id.original), item.generics), t)
    BY <1>2 DEF Plain, ScalaWriteItem, ScalaWriteTypeAlias
  <2> QED
    BY <2>1, DeclaredBy
<1>3. CASE item.kind = "struct"
  <2>1. \E generics, t : ScalaWriteItem(cfg, item) =
                           Both(Declares(Plain(item.id.renamed), generics), t)
    BY <1>3 DEF Plain, ScalaWriteItem, ScalaWriteStruct, ScalaWriteStructNamed
  <2> QED
    BY <2>1, DeclaredBy
<1>4. CASE item.kind = "enum"
  <2>1. \E t, u : ScalaWriteItem(cfg, item) =
                    Texts(<<t, Declares(Plain(item.id.renamed), item.generics), u>>)
    BY <1>4 DEF Plain, ScalaWriteItem, ScalaWriteEnum
  <2> QED
    BY <2>1, DeclaredBy
<1> QED
  BY <1>2, <1>3, <1>4 DEF IsGood

LEMMA GoDeclares ==
  ASSUME NEW cfg, NEW item, IsGood(item)
  PROVE  LET Is(parts) == Declared(GoWriteItem(cfg, item), parts)
         IN  IF item.kind = "const" THEN Is(Plain(ToPascalCase(item.id.renamed)))
             ELSE \/ Is(GoAcronymsToUppercase(cfg, Plain(item.id.original)))
                  \/ Is(GoAcronymsToUppercase(cfg, Plain(item.id.renamed)))
<1>2. CASE item.kind = "alias"
  <2>1. \E t : GoWriteItem(cfg, item) =
                 Both(Declares(GoAcronymsToUppercase(cfg, Plain(item.id.original)), <<>>), t)
    BY <1>2 DEF Plain, GoWriteItem, GoWriteTypeAlias
  <2> QED
    BY <1>2, <2>1, DeclaredBy
<1>3. CASE item.kind = "struct"
  <2>1. \E t : GoWriteItem(cfg, item) =
                 Both(Declares(GoAcronymsToUppercase(cfg, Plain(item.id.renamed)), item.generics), t)
    BY <1>3 DEF Plain, GoWriteItem, GoWriteStruct, GoWriteStructNamed
  <2> QED
    BY <1>3, <2>1, DeclaredBy
<1>4. CASE item.kind = "enum"
  <2>1. \E t, u, v : GoWriteItem(cfg, item) =
          Texts(<<t, Declares(GoAcronymsToUppercase(cfg, Plain(item.id.original)), <<>>), u, v>>)
    BY <1>4 DEF Plain, GoWriteItem, GoWriteEnum
  <2> QED
    BY <1>4, <2>1, DeclaredBy
<1>5. CASE item.kind = "const"
  <2>1. \E t : GoWriteItem(cfg, item) =
                 Both(Declares(Plain(ToPascalCase(item.id.renamed)), <<>>), t)
    BY <1>5 DEF Plain, GoWriteItem, GoWriteConst
  <2> QED
    BY <1>5, <2>1, DeclaredBy
<1> QED
  BY <1>2, <1>3, <1>4, <1>5 DEF IsGood

LEMMA TypeScriptDeclares ==
  ASSUME NEW cfg, NEW item, IsGood(item)
  PROVE  Declared(TypeScriptWriteItem(cfg, item),
           IF item.kind = "const" THEN Plain(ToScreamingSnakeCase(item.id.renamed))
           ELSE Plain(item.id.renamed))
<1>2. CASE item.kind # "const"
  <2>1. \E generics, t : TypeScriptWriteItem(cfg, item) =
                           Both(Declares(Plain(item.id.renamed), generics), t)
    BY <1>2
    DEF Plain, TypeScriptWriteItem, TypeScriptWriteTypeAlias, TypeScriptWriteStruct, TypeScriptWriteEnum, IsGood
  <2> QED
    BY <1>2, <2>1, DeclaredBy
<1>3. CASE item.kind = "const"
  <2>1. \E t : TypeScriptWriteItem(cfg, item) =
                 Both(Declares(Plain(ToScreamingSnakeCase(item.id.renamed)), <<>>), t)
    BY <1>3 DEF Plain, TypeScriptWriteItem, TypeScriptWriteConst
  <2> QED
    BY <1>3, <2>1, DeclaredBy
<1> QED
  BY <1>2, <1>3

LEMMA PythonDeclares ==
  ASSUME NEW cfg, NEW item, IsGood(item)
  PROVE  Declared(PythonWriteItem(cfg, item),
           IF item.kind = "const" THEN Plain(ToScreamingSnakeCase(item.id.renamed))
           ELSE Plain(item.id.renamed))
<1>2. CASE item.kind = "alias"
  <2>1. \E t, u : PythonWriteItem(cfg, item) =
                    Texts(<<Declares(Plain(item.id.renamed), item.generics), t, u>>)
    BY <1>2 DEF Plain, PythonWriteItem, PythonWriteTypeAlias
  <2> QED
    BY <1>2, <2>1, DeclaredBy
<1>3. CASE item.kind = "struct"
  <2>1. \E t, u, v, w : PythonWriteItem(cfg, item) =
                          Texts(<<Declares(Plain(item.id.renamed), item.generics), t, u, v, w>>)
    BY <1>3 DEF Plain, PythonWriteItem, PythonWriteStruct, PythonWriteStructNamed
  <2> QED
    BY <1>3, <2>1, DeclaredBy
<1>4. CASE item.kind = "enum" /\ item.unit
  <2>1. \E t, u : PythonWriteItem(cfg, item) =
                    Both(t, Both(Declares(Plain(item.id.renamed), <<>>), u))
    BY <1>4 DEF Plain, PythonWriteItem, PythonWriteEnum
  <2> QED
    BY <1>4, <2>1, DeclaredBy
<1>5. CASE item.kind = "enum" /\ ~item.unit
  <2>1. \E t : PythonWriteItem(cfg, item) = Both(t, PythonWriteAlgebraicEnum(cfg, item))
    BY <1>5 DEF Plain, PythonWriteItem, PythonWriteEnum
  <2>2. \E t, u, v, w, x : PythonWriteAlgebraicEnum(cfg, item) =
          Texts(<<t, u, v, w, Declares(Plain(item.id.renamed), <<>>), x>>)
    BY DEF Plain, PythonWriteAlgebraicEnum
  <2> QED
    BY <1>5, <2>1, <2>2, DeclaredBy
<1>6. CASE item.kind = "const"
  <2>1. \E t : PythonWriteItem(cfg, item) =
                 Both(Declares(Plain(ToScreamingSnakeCase(item.id.renamed)), <<>>), t)
    BY <1>6 DEF Plain, PythonWriteItem, PythonWriteConst
  <2> QED
    BY <1>6, <2>1, DeclaredBy
<1> QED
  BY <1>2, <1>3, <1>4, <1>5, <1>6 DEF IsGood

-----------------------------------------------------------------------------
(* Names *)

LEMMA NamesDeclared ==
  ASSUME Lang \in Languages, NEW config, backend = Backend(config, Lang, Args.multiFile),
         NEW item, IsGood(item), WriteItemIn(Lang, backend, item).fate = "ok",
         ~(Lang = "scala" /\ item.kind = "const")
  PROVE  \E name \in WriteItemIn(Lang, backend, item).names : name[1] \in NamesOf(item, item.id)
<1> DEFINE written == WriteItemIn(Lang, backend, item)
<1>1. Lang \notin {"swift", "kotlin"} => \A name : <<backend.prefix, name>> = Plain(name)
  BY DEF Backend, Plain
<1> SUFFICES \E parts \in NamesOf(item, item.id) : Declared(written, parts)
  BY DEF Declared
<1>2. CASE Lang = "swift"
  <2>1. /\ item.kind # "const"
        /\ Declared(written, <<backend.prefix, item.id.renamed>>)
    BY <1>2, SwiftDeclares DEF WriteItemIn
  <2> QED
    BY <1>2, <2>1 DEF NamesOf
<1>3. CASE Lang = "kotlin"
  <2>1. /\ item.kind # "const"
        /\ \/ Declared(written, <<backend.prefix, item.id.original>>)
           \/ Declared(written, <<backend.prefix, item.id.renamed>>)
    BY <1>3, KotlinDeclares DEF WriteItemIn
  <2> QED
    BY <1>3, <2>1 DEF NamesOf
<1>4. CASE Lang = "scala"
  <2>1. /\ item.kind # "const"
        /\ \/ Declared(written, Plain(item.id.original)) \/ Declared(written, Plain(item.id.renamed))
    BY <1>4, ScalaDeclares DEF WriteItemIn
  <2> QED
    BY <1>1, <1>4, <2>1 DEF NamesOf
<1>5. CASE Lang = "go"
  <2>1. IF item.kind = "const" THEN Declared(written, Plain(ToPascalCase(item.id.renamed)))
        ELSE \/ Declared(written, GoAcronymsToUppercase(backend, Plain(item.id.original)))
             \/ Declared(written, GoAcronymsToUppercase(backend, Plain(item.id.renamed)))
    BY <1>5, GoDeclares DEF WriteItemIn
  <2> QED
    BY <1>1, <1>5, <2>1 DEF NamesOf
<1>6. CASE Lang = "python"
  <2>1. Declared(written, IF item.kind = "const" THEN Plain(ToScreamingSnakeCase(item.id.renamed))
                          ELSE Plain(item.id.renamed))
    BY <1>6, PythonDeclares DEF WriteItemIn
  <2> QED
    BY <1>1, <1>6, <2>1 DEF NamesOf
<1>7. CASE Lang = "typescript"
  <2>1. Declared(written, IF item.kind = "const" THEN Plain(ToScreamingSnakeCase(item.id.renamed))
                          ELSE Plain(item.id.renamed))
    BY <1>7, TypeScriptDeclares DEF WriteItemIn
  <2> QED
    BY <1>1, <1>7, <2>1 DEF NamesOf
<1> QED
  BY <1>2, <1>3, <1>4, <1>5, <1>6, <1>7 DEF Languages

(* When all modules are generated, the backend is one that is made from some
   configuration: it stays as it is from the walk to the end of the run. *)
BackendMade == Generated => \E config : backend = Backend(config, Lang, Args.multiFile)
DeclaredInv == ItemsInv /\ ConfigInv /\ BackendMade

LEMMA BackendStep ==
  ASSUME DeclaredInv, [Next]_vars
  PROVE  BackendMade'
<1> SUFFICES ASSUME Generated' PROVE \E config : backend' = Backend(config, Lang', Args.multiFile')
  BY DEF BackendMade
<1>1. CASE UNCHANGED vars
  <2>1. UNCHANGED <<phase, world, run, backend>>
    BY <1>1 DEF vars, contextVars, backendVars
  <2>2. Generated /\ Lang' = Lang /\ Args' = Args
    BY <2>1 DEF Generated, Lang, Args
  <2> QED
    BY <2>1, <2>2 DEF DeclaredInv, BackendMade
<1>2. CASE phase \in Running \ {"starting"} /\ UNCHANGED <<world, run, backend>>
  <2>1. Lang' = Lang /\ Args' = Args
    BY <1>2 DEF Lang, Args
  <2> QED
    BY <1>2, <2>1 DEF DeclaredInv, ConfigInv, ConfigPrecedence
<1>3. phase' = "done" /\ ~Args.generateConfig'
  BY DEF Generated
<1>4. GenerateConfig => Args.generateConfig /\ Args' = Args
  BY DEF GenerateConfig, contextVars, Args
<1>5. ~RunAgain /\ ~GenerateTypes /\ ~GenerateConfig
  BY <1>3, <1>4 DEF RunAgain, GenerateTypes
<1>6. WalkFiles \/ Reconcile \/ CheckParseErrors \/ Finish \/ WriteNextItem \/ EndModule
      \/ (\E crate \in DOMAIN crates : BeginModule(crate)) \/ Stopped \/ UNCHANGED vars
  BY <1>5 DEF Next
<1>7. WalkFiles => phase = "parsing" /\ UNCHANGED <<world, run, backend>>
  BY DEF WalkFiles, Walk, PassOver, FailToParse, VisitFile, VisitItem, VisitItemUse, LoseWalker, VisitItemMod,
         EndVisit, Walking, Visiting, contextVars, backendVars
<1>8. Reconcile \/ CheckParseErrors \/ Finish \/ WriteNextItem \/ EndModule
        \/ (\E crate \in DOMAIN crates : BeginModule(crate)) =>
        phase \in Running \ {"starting"} /\ UNCHANGED <<world, run, backend>>
  BY DEF Reconcile, CheckParseErrors, Finish, WriteNextItem, EndModule, BeginModule, Walking, Running,
         contextVars, backendVars
<1>9. "parsing" \in Running \ {"starting"}
  BY DEF Running
<1> QED
  BY <1>1, <1>2, <1>6, <1>7, <1>8, <1>9 DEF Stopped

LEMMA SharedAreParsables ==
  ASSUME DeclaredInv, NEW file \in Sources
  PROVE  TypesharedItems(file) \subseteq Parsables
<1>1. file.items \in Seq(Items)
  BY FilesAssumption DEF FilesAssumption, Sources, DeclaredInv, ItemsInv, ErrorsInv, ModulesInv, DataInv
<1> QED
  BY <1>1, AllAreFlat DEF TypesharedItems, Flat, Parsables

(* What is declared of an item has its name, or the one it is given. *)
LEMMA AllAreDeclared == DeclaredInv => EveryItemDeclared
<1> SUFFICES ASSUME DeclaredInv, Generated,
                    NEW file \in {f \in Sources : CrateOfFile(f) # PostModule},
                    NEW item \in TypesharedItems(file), ~(Lang = "scala" /\ item.kind = "const")
             PROVE  /\ CrateOfFile(file) \in DOMAIN modules
                    /\ \E name \in modules[CrateOfFile(file)].text.names :
                         name[1] \in NamesOf(item, GetIdent(item.ident, item.attrs, <<>>))
  BY DEF EveryItemDeclared
<1> DEFINE crate == CrateOfFile(file)
           parsed == Parse(item, targetOs)
<1>1. /\ crate \in DOMAIN modules \cap DOMAIN crates
      /\ \E written \in Range(crates[crate].items) :
           IsSame(written, parsed) /\ HasWritten(modules[crate], written)
  BY AllAreWritten DEF DeclaredInv, EveryItemWritten
<1>2. PICK written \in Range(crates[crate].items) :
        IsSame(written, parsed) /\ HasWritten(modules[crate], written)
  BY <1>1
<1>3. ~IsFailure(parsed)
  BY DEF DeclaredInv, ItemsInv, TextsInv
<1>4. IsParsed(parsed, item)
  BY <1>3, SharedAreParsables, ParsedKeepsNames
<1>5. /\ IsGood(written) /\ (written.kind = "const" <=> item.kind = "const")
      /\ written.id = GetIdent(item.ident, item.attrs, <<>>)
  <2> HIDE DEF parsed
  <2> QED
    BY <1>2, <1>4 DEF IsSame, IsParsed, IsGood
<1>6. Lang \in Languages
  BY RunsAssumption, WorldTypes DEF RunsAssumption, Generated, Lang, DeclaredInv, ConfigInv
<1>7. PICK config : backend = Backend(config, Lang, Args.multiFile)
  BY DEF DeclaredInv, BackendMade
<1>8. /\ WriteItemIn(Lang, backend, written).fate = "ok"
      /\ WriteItemIn(Lang, backend, written).names \subseteq modules[crate].text.names
  BY <1>2 DEF HasWritten
<1>9. \E name \in WriteItemIn(Lang, backend, written).names : name[1] \in NamesOf(written, written.id)
  BY <1>5, <1>6, <1>7, <1>8, NamesDeclared
<1>10. NamesOf(written, written.id) = NamesOf(item, GetIdent(item.ident, item.attrs, <<>>))
  BY <1>5 DEF NamesOf
<1> QED
  BY <1>1, <1>8, <1>9, <1>10

(* Whoever refers to a typeshared item finds it declared in the module of the
   crate of its file, by its own name or the one it is given: on its whole way,
   through the parsers, the merging of files, the renaming of references and
   the writer of each language, none loses it or calls it otherwise. *)
THEOREM ItemsAreDeclared == Spec => []EveryItemDeclared
<1>1. Init => DeclaredInv
  <2>1. Init => ~Generated
    BY DEF Init, Generated
  <2> QED
    BY <2>1, ItemsInitially, ConfigInitially DEF DeclaredInv, BackendMade
<1>2. DeclaredInv /\ [Next]_vars => DeclaredInv'
  BY ItemsStep, ConfigStep, BackendStep DEF DeclaredInv
<1> QED
  BY <1>1, <1>2, AllAreDeclared, PTL DEF Spec

-----------------------------------------------------------------------------
(* Helpers *)

(* What a text needs it records, or else it is in a set. *)
Covered(output, set) == output.needs \subseteq output.recorded \cup set
NeedsOnly(output, set) == output.needs \subseteq set

LEMMA CoveredTexts ==
  /\ \A seq, set : (\A i \in DOMAIN seq : Covered(seq[i], set)) => Covered(Texts(seq), set)
  /\ \A a, b, set : Covered(a, set) /\ Covered(b, set) => Covered(Both(a, b), set)
  /\ \A seq, set : (\A i \in DOMAIN seq : NeedsOnly(seq[i], set)) => NeedsOnly(Texts(seq), set)
  /\ \A a, b, set : NeedsOnly(a, set) /\ NeedsOnly(b, set) => NeedsOnly(Both(a, b), set)
<1>1. \A seq, set : (\A i \in DOMAIN seq : Covered(seq[i], set)) => Covered(Texts(seq), set)
  BY DEF Covered, Texts
<1>2. \A a, b, set : Covered(a, set) /\ Covered(b, set) => Covered(Both(a, b), set)
  BY BothAre DEF Covered
<1>3. \A seq, set : (\A i \in DOMAIN seq : NeedsOnly(seq[i], set)) => NeedsOnly(Texts(seq), set)
  BY DEF NeedsOnly, Texts
<1>4. \A a, b, set : NeedsOnly(a, set) /\ NeedsOnly(b, set) => NeedsOnly(Both(a, b), set)
  BY BothAre DEF NeedsOnly
<1> QED
  BY <1>1, <1>2, <1>3, <1>4

LEMMA CoveredThree ==
  ASSUME NEW a, NEW b, NEW c, NEW set
  PROVE  /\ Covered(a, set) /\ Covered(b, set) /\ Covered(c, set) => Covered(Texts(<<a, b, c>>), set)
         /\ NeedsOnly(a, set) /\ NeedsOnly(b, set) /\ NeedsOnly(c, set) =>
              NeedsOnly(Texts(<<a, b, c>>), set)
<1> DEFINE t == Texts(<<a, b, c>>)
<1>1. /\ t.needs = a.needs \cup b.needs \cup c.needs
      /\ t.recorded = a.recorded \cup b.recorded \cup c.recorded
  BY TextsOfThree
<1> HIDE DEF t
<1>2. /\ Covered(a, set) /\ Covered(b, set) /\ Covered(c, set) => Covered(t, set)
      /\ NeedsOnly(a, set) /\ NeedsOnly(b, set) /\ NeedsOnly(c, set) =>
           NeedsOnly(t, set)
  BY <1>1 DEF Covered, NeedsOnly
<1> QED
  BY <1>2 DEF t

LEMMA CoveredFour ==
  ASSUME NEW a, NEW b, NEW c, NEW d, NEW set
  PROVE  /\ Covered(a, set) /\ Covered(b, set) /\ Covered(c, set) /\ Covered(d, set) =>
              Covered(Texts(<<a, b, c, d>>), set)
         /\ NeedsOnly(a, set) /\ NeedsOnly(b, set) /\ NeedsOnly(c, set) /\ NeedsOnly(d, set) =>
              NeedsOnly(Texts(<<a, b, c, d>>), set)
<1> DEFINE t == Texts(<<a, b, c, d>>)
<1>1. /\ t.needs = a.needs \cup b.needs \cup c.needs \cup d.needs
      /\ t.recorded = a.recorded \cup b.recorded \cup c.recorded \cup d.recorded
  BY TextsOfFour
<1> HIDE DEF t
<1>2. /\ Covered(a, set) /\ Covered(b, set) /\ Covered(c, set) /\ Covered(d, set) =>
           Covered(t, set)
      /\ NeedsOnly(a, set) /\ NeedsOnly(b, set) /\ NeedsOnly(c, set) /\ NeedsOnly(d, set) =>
           NeedsOnly(t, set)
  BY <1>1 DEF Covered, NeedsOnly
<1> QED
  BY <1>2 DEF t

LEMMA CoveredFive ==
  ASSUME NEW a, NEW b, NEW c, NEW d, NEW e, NEW set
  PROVE  Covered(a, set) /\ Covered(b, set) /\ Covered(c, set) /\ Covered(d, set) /\ Covered(e, set) =>
           Covered(Texts(<<a, b, c, d, e>>), set)
<1> DEFINE t == Texts(<<a, b, c, d, e>>)
<1>1. /\ t.needs = a.needs \cup b.needs \cup c.needs \cup d.needs \cup e.needs
      /\ t.recorded = a.recorded \cup b.recorded \cup c.recorded \cup d.recorded \cup e.recorded
  BY TextsOfFive
<1> HIDE DEF t
<1>2. Covered(a, set) /\ Covered(b, set) /\ Covered(c, set) /\ Covered(d, set) /\ Covered(e, set) =>
        Covered(t, set)
  BY <1>1 DEF Covered
<1> QED
  BY <1>2 DEF t

LEMMA CoveredSix ==
  ASSUME NEW a, NEW b, NEW c, NEW d, NEW e, NEW f, NEW set
  PROVE  /\ Covered(a, set) /\ Covered(b, set) /\ Covered(c, set) /\ Covered(d, set) /\ Covered(e, set)
            /\ Covered(f, set) =>
              Covered(Texts(<<a, b, c, d, e, f>>), set)
<1> DEFINE t == Texts(<<a, b, c, d, e, f>>)
<1>1. /\ t.needs = a.needs \cup b.needs \cup c.needs \cup d.needs \cup e.needs \cup f.needs
      /\ t.recorded = a.recorded \cup b.recorded \cup c.recorded \cup d.recorded \cup e.recorded
                      \cup f.recorded
  BY TextsOfSix
<1> HIDE DEF t
<1>2. /\ Covered(a, set) /\ Covered(b, set) /\ Covered(c, set) /\ Covered(d, set) /\ Covered(e, set)
         /\ Covered(f, set) =>
           Covered(t, set)
  BY <1>1 DEF Covered
<1> QED
  BY <1>2 DEF t

(* What all backends write without needing anything, and what provides for itself. *)
LEMMA CoveredIs ==
  /\ \A set : Covered(Empty, set) /\ NeedsOnly(Empty, set)
  /\ \A parts, generics, set :
       /\ Covered(Declares(parts, generics), set) /\ NeedsOnly(Declares(parts, generics), set)
       /\ Covered(RefersTo(parts, generics), set) /\ NeedsOnly(RefersTo(parts, generics), set)
  /\ \A helpers, set : /\ Covered(Records(helpers), set) /\ NeedsOnly(Records(helpers), set)
                       /\ Covered(Requires(helpers), set)
                       /\ helpers \subseteq set => Covered(Needs(helpers), set)
                       /\ helpers \subseteq set => NeedsOnly(Needs(helpers), set)
                       /\ helpers \subseteq set => NeedsOnly(Requires(helpers), set)
  /\ \A fate, set : Covered(Fails(fate), set) /\ NeedsOnly(Fails(fate), set)
BY TextIs DEF Covered, NeedsOnly

-----------------------------------------------------------------------------
(* Swift *)

LEMMA SwiftTypesNeed ==
  \A cfg, generics, ty : /\ Covered(SwiftFormatType(cfg, generics, ty), {})
                         /\ NeedsOnly(SwiftFormatType(cfg, generics, ty), {"CodableVoid"})
<1> SUFFICES ASSUME NEW cfg, NEW generics, NEW ty
             PROVE  /\ Covered(SwiftFormatType(cfg, generics, ty), {})
                    /\ NeedsOnly(SwiftFormatType(cfg, generics, ty), {"CodableVoid"})
  OBVIOUS
<1>1. \A types, prefix, mapped :
        /\ Covered(FormatUserTypes(types, prefix, mapped, generics), {})
        /\ NeedsOnly(FormatUserTypes(types, prefix, mapped, generics), {"CodableVoid"})
  BY DEF FormatUserTypes, Empty, Covered, NeedsOnly
<1>2. \E types, mapped, a, b :
        SwiftFormatType(cfg, generics, ty) =
          Texts(<<FormatUserTypes(types, cfg.prefix, mapped, generics),
                  IF a THEN Requires({"CodableVoid"}) ELSE Empty, IF b THEN Fails("error") ELSE Empty>>)
  BY DEF SwiftFormatType
<1>3. PICK types, mapped, a, b :
        SwiftFormatType(cfg, generics, ty) =
          Texts(<<FormatUserTypes(types, cfg.prefix, mapped, generics),
                  IF a THEN Requires({"CodableVoid"}) ELSE Empty, IF b THEN Fails("error") ELSE Empty>>)
  BY <1>2
<1> DEFINE w == FormatUserTypes(types, cfg.prefix, mapped, generics)
           x == IF a THEN Requires({"CodableVoid"}) ELSE Empty
           y == IF b THEN Fails("error") ELSE Empty
<1>4. /\ Covered(x, {}) /\ NeedsOnly(x, {"CodableVoid"})
      /\ Covered(y, {}) /\ NeedsOnly(y, {"CodableVoid"})
  BY CoveredIs
<1>5. /\ SwiftFormatType(cfg, generics, ty) = Texts(<<w, x, y>>)
      /\ Covered(w, {}) /\ NeedsOnly(w, {"CodableVoid"})
  BY <1>1, <1>3
<1> HIDE DEF w, x, y
<1> QED
  BY <1>4, <1>5, CoveredThree

(* A text needs nothing but what is in a set, and records it or else it is in another set. *)
Fine(output, set, other) == NeedsOnly(output, set) /\ Covered(output, other)

LEMMA FineTexts ==
  /\ \A seq, set, other : (\A i \in DOMAIN seq : Fine(seq[i], set, other)) => Fine(Texts(seq), set, other)
  /\ \A a, b, set, other :
       Fine(a, set, other) /\ Fine(b, set, other) => Fine(Both(a, b), set, other)
  /\ \A a, b, c, set, other :
       Fine(a, set, other) /\ Fine(b, set, other) /\ Fine(c, set, other) =>
         Fine(Texts(<<a, b, c>>), set, other)
  /\ \A a, b, c, d, set, other :
       Fine(a, set, other) /\ Fine(b, set, other) /\ Fine(c, set, other) /\ Fine(d, set, other) =>
         Fine(Texts(<<a, b, c, d>>), set, other)
BY CoveredTexts, CoveredThree, CoveredFour DEF Fine

LEMMA FineIs ==
  /\ \A set, other : Fine(Empty, set, other)
  /\ \A parts, generics, set, other : /\ Fine(Declares(parts, generics), set, other)
                                      /\ Fine(RefersTo(parts, generics), set, other)
  /\ \A helpers, set, other :
       helpers \subseteq set /\ helpers \subseteq other => Fine(Needs(helpers), set, other)
  /\ \A fate, set, other : Fine(Fails(fate), set, other)
BY CoveredIs DEF Fine

(* What the backends take apart: the variants of an enum are a sequence. *)
IsWhole(item) ==
  /\ item.kind \in {"struct", "enum", "alias", "const"}
  /\ item.kind = "enum" => item.variants \in Seq(ToSet(item.variants))

LEMMA AnonymousAre ==
  ASSUME NEW enum, enum.kind = "enum", IsWhole(enum), NEW i \in DOMAIN AnonymousVariants(enum)
  PROVE  /\ AnonymousVariants(enum)[i] \in ToSet(AnonymousVariants(enum))
         /\ AnonymousVariants(enum)[i] \in ToSet(enum.variants)
         /\ AnonymousVariants(enum)[i].kind = "AnonymousStruct"
         /\ TypesOfFields(AnonymousVariants(enum)[i].fields) \subseteq TypesOfItem(enum)
<1> DEFINE all == ToSet(enum.variants)
           kept == {variant \in all : variant.kind = "AnonymousStruct"}
           variants == AnonymousVariants(enum)
           variant == variants[i]
<1>1. variants = Chosen(enum.variants, kept) /\ enum.variants \in Seq(all)
  BY DEF AnonymousVariants, IsWhole
<1>2. variant \in ToSet(variants)
  BY DEF ToSet
<1>3. ToSet(variants) = ToSet(enum.variants) \cap kept
  <2> HIDE DEF kept, variants, all
  <2> QED
    BY <1>1, ChosenAre
<1>4. variant \in all /\ variant.kind = "AnonymousStruct"
  BY <1>2, <1>3
<1>5. TypesOfVariant(variant) = TypesOfFields(variant.fields)
  <2> HIDE DEF variant
  <2> QED
    BY <1>4 DEF TypesOfVariant
<1>6. TypesOfItem(enum) = UNION {TypesOfVariant(v) : v \in all}
  BY DEF TypesOfItem
<1> HIDE DEF variant, variants, all
<1> QED
  BY <1>2, <1>4, <1>5, <1>6 DEF all, variants, variant


LEMMA SwiftFieldsNeed ==
  ASSUME NEW language, NEW fields, NEW format, NEW set, NEW other,
         \A i \in DOMAIN fields : Fine(format[fields[i].ty], set, other)
  PROVE  Fine(WriteFields(language, fields, format), set, other)
<1> DEFINE seq == [i \in DOMAIN fields |->
                     IF TypeOverrides(fields[i], language) # {} THEN Empty
                     ELSE format[fields[i].ty]]
<1>1. WriteFields(language, fields, format) = Texts(seq)
  BY DEF WriteFields
<1>2. \A i \in DOMAIN seq : Fine(seq[i], set, other)
  BY FineIs
<1> HIDE DEF seq
<1> QED
  BY <1>1, <1>2, FineTexts

LEMMA SwiftStructNeeds ==
  ASSUME NEW cfg, NEW parts, NEW fields, NEW generics, NEW set, NEW other,
         \A ty \in TypesOfFields(fields) : Fine(SwiftFormatType(cfg, generics, ty), set, other)
  PROVE  Fine(SwiftWriteStructNamed(cfg, parts, fields, generics), set, other)
<1> DEFINE types == TypesOfFields(fields)
           format == SwiftFormatTypes(cfg, generics, types)
           written == WriteFields("swift", fields, format)
<1>1. types = TypesOfFields(fields)
  BY Zenon DEF TypesOfFields
<1>2. \A ty \in types : format[ty] = SwiftFormatType(cfg, generics, ty)
  BY DEF SwiftFormatTypes
<1>3. \A i \in DOMAIN fields : fields[i].ty \in types
  BY DEF TypesOfFields
<1> HIDE DEF types, format
<1>4. Fine(written, set, other)
  BY <1>1, <1>2, <1>3, SwiftFieldsNeed
<1> HIDE DEF written
<1>5. \E declared : SwiftWriteStructNamed(cfg, parts, fields, generics) =
                      Both(Declares(parts, declared), written)
  BY DEF SwiftWriteStructNamed, written, format, types
<1> QED
  BY <1>4, <1>5, FineIs, FineTexts

LEMMA SwiftAnonymousNeed ==
  ASSUME NEW cfg, NEW enum, enum.kind = "enum", IsWhole(enum), NEW parts, NEW set, NEW other,
         \A generics : \A ty \in TypesOfItem(enum) :
           Fine(SwiftFormatType(cfg, generics, ty), set, other)
  PROVE  Fine(SwiftWriteAnonymousStructs(cfg, enum, parts), set, other)
<1> DEFINE variants == AnonymousVariants(enum)
           structs == AnonymousStructs(enum)
           seq == [i \in DOMAIN structs |->
                     SwiftWriteStructNamed(cfg, parts \o structs[i].name, structs[i].fields,
                                         structs[i].generics)]
<1>1. AnonymousVariants(enum) = variants
  BY Zenon DEF AnonymousVariants, Chosen, ToSet
<1>2. DOMAIN structs = DOMAIN variants /\ \A i \in DOMAIN variants : structs[i].fields = variants[i].fields
  <2> HIDE DEF variants
  <2> QED
    BY <1>1 DEF AnonymousStructs
<1>3. SwiftWriteAnonymousStructs(cfg, enum, parts) = Texts(seq)
  BY DEF SwiftWriteAnonymousStructs
<1>4. ASSUME NEW i \in DOMAIN structs
      PROVE  Fine(SwiftWriteStructNamed(cfg, parts \o structs[i].name, structs[i].fields,
                                      structs[i].generics), set, other)
  <2> DEFINE fields == structs[i].fields
             generics == structs[i].generics
             name == parts \o structs[i].name
  <2>1. TypesOfFields(fields) \subseteq TypesOfItem(enum)
    BY <1>2, AnonymousAre
  <2> HIDE DEF fields, generics, name, structs
  <2>2. \A ty \in TypesOfFields(fields) : Fine(SwiftFormatType(cfg, generics, ty), set, other)
    BY <2>1
  <2>3. Fine(SwiftWriteStructNamed(cfg, name, fields, generics), set, other)
    BY <2>2, SwiftStructNeeds
  <2> QED
    BY <2>3 DEF fields, generics, name
<1>5. \A i \in DOMAIN seq : Fine(seq[i], set, other)
  BY <1>4
<1> HIDE DEF seq
<1> QED
  BY <1>3, <1>5, FineTexts

LEMMA SwiftVariantsNeed ==
  ASSUME NEW enum, enum.kind = "enum", NEW parts, NEW format, NEW set, NEW other,
         \A ty \in TypesOfItem(enum) : Fine(format[ty], set, other)
  PROVE  Fine(WriteVariants(enum, parts, format), set, other)
<1> DEFINE Of(variant) ==
             CASE variant.kind = "Unit"  -> Empty
               [] variant.kind = "Tuple" -> format[variant.ty]
               [] OTHER -> RefersTo(parts \o InnerName(variant),
                                    GenericsIn(variant.fields, enum.generics))
           seq == [i \in DOMAIN enum.variants |-> Of(enum.variants[i])]
<1>1. WriteVariants(enum, parts, format) = Texts(seq)
  BY DEF WriteVariants
<1>2. ASSUME NEW i \in DOMAIN enum.variants PROVE Fine(Of(enum.variants[i]), set, other)
  <2> DEFINE variant == enum.variants[i]
  <2>1. variant \in ToSet(enum.variants)
    BY DEF ToSet
  <2>2. TypesOfVariant(variant) \subseteq TypesOfItem(enum)
    BY <2>1 DEF TypesOfItem
  <2> HIDE DEF variant
  <2>3. variant.kind = "Tuple" => variant.ty \in TypesOfItem(enum)
    BY <2>2 DEF TypesOfVariant
  <2>4. Fine(Of(variant), set, other)
    BY <2>3, FineIs
  <2> QED
    BY <2>4 DEF variant
<1>3. \A i \in DOMAIN seq : Fine(seq[i], set, other)
  <2> HIDE DEF Of
  <2> QED
    BY <1>2
<1> HIDE DEF seq
<1> QED
  BY <1>1, <1>3, FineTexts

LEMMA SwiftEnumTypes ==
  ASSUME NEW cfg, NEW enum, enum.kind = "enum", NEW parts, NEW set, NEW other,
         \A generics : \A ty \in TypesOfItem(enum) :
           Fine(SwiftFormatType(cfg, generics, ty), set, other)
  PROVE  Fine(WriteVariants(enum, parts,
                SwiftFormatTypes(cfg, enum.generics, TypesOfItem(enum))), set, other)
<1> DEFINE types == TypesOfItem(enum)
           format == SwiftFormatTypes(cfg, enum.generics, types)
<1>1. types = TypesOfItem(enum)
  BY Zenon DEF TypesOfItem, TypesOfFields, TypesOfVariant, ToSet
<1>2. \A ty \in types : format[ty] = SwiftFormatType(cfg, enum.generics, ty)
  BY DEF SwiftFormatTypes
<1> HIDE DEF types
<1>3. \A ty \in TypesOfItem(enum) : Fine(format[ty], set, other)
  <2> HIDE DEF format
  <2> QED
    BY <1>1, <1>2
<1> HIDE DEF format
<1>4. Fine(WriteVariants(enum, parts, format), set, other)
  BY <1>3, SwiftVariantsNeed
<1> QED
  BY <1>4 DEF format, types


LEMMA KotlinFieldsNeed ==
  ASSUME NEW language, NEW fields, NEW format, NEW set, NEW other,
         \A i \in DOMAIN fields : Fine(format[fields[i].ty], set, other)
  PROVE  Fine(WriteFields(language, fields, format), set, other)
<1> DEFINE seq == [i \in DOMAIN fields |->
                     IF TypeOverrides(fields[i], language) # {} THEN Empty
                     ELSE format[fields[i].ty]]
<1>1. WriteFields(language, fields, format) = Texts(seq)
  BY DEF WriteFields
<1>2. \A i \in DOMAIN seq : Fine(seq[i], set, other)
  BY FineIs
<1> HIDE DEF seq
<1> QED
  BY <1>1, <1>2, FineTexts

LEMMA KotlinStructNeeds ==
  ASSUME NEW cfg, NEW parts, NEW fields, NEW generics, NEW set, NEW other, "Serializable" \in set \cap other,
         \A ty \in TypesOfFields(fields) : Fine(KotlinFormatType(cfg, generics, ty), set, other)
  PROVE  Fine(KotlinWriteStructNamed(cfg, parts, fields, generics), set, other)
<1> DEFINE types == TypesOfFields(fields)
           format == KotlinFormatTypes(cfg, generics, types)
           written == WriteFields("kotlin", fields, format)
<1>1. types = TypesOfFields(fields)
  BY Zenon DEF TypesOfFields
<1>2. \A ty \in types : format[ty] = KotlinFormatType(cfg, generics, ty)
  BY DEF KotlinFormatTypes
<1>3. \A i \in DOMAIN fields : fields[i].ty \in types
  BY DEF TypesOfFields
<1> HIDE DEF types, format
<1>4. Fine(written, set, other)
  BY <1>1, <1>2, <1>3, KotlinFieldsNeed
<1> HIDE DEF written
<1>5. \E declared : KotlinWriteStructNamed(cfg, parts, fields, generics) =
                      Texts(<<Needs({"Serializable"}), Declares(parts, declared), written>>)
  BY DEF KotlinWriteStructNamed, KotlinSerializable, written, format, types
<1>6. Fine(Needs({"Serializable"}), set, other)
  BY FineIs
<1>7. PICK declared : KotlinWriteStructNamed(cfg, parts, fields, generics) =
                        Texts(<<Needs({"Serializable"}), Declares(parts, declared), written>>)
  BY <1>5
<1>8. Fine(Declares(parts, declared), set, other)
  BY FineIs
<1> DEFINE needed == Needs({"Serializable"})
<1> HIDE DEF needed
<1> QED
  BY <1>4, <1>6, <1>7, <1>8, FineTexts DEF needed

LEMMA KotlinAnonymousNeed ==
  ASSUME NEW cfg, NEW enum, enum.kind = "enum", IsWhole(enum), NEW parts,
         NEW set, NEW other, "Serializable" \in set \cap other,
         \A generics : \A ty \in TypesOfItem(enum) :
           Fine(KotlinFormatType(cfg, generics, ty), set, other)
  PROVE  Fine(KotlinWriteAnonymousStructs(cfg, enum, parts), set, other)
<1> DEFINE variants == AnonymousVariants(enum)
           structs == AnonymousStructs(enum)
           seq == [i \in DOMAIN structs |->
                     KotlinWriteStructNamed(cfg, parts \o structs[i].name, structs[i].fields,
                                         structs[i].generics)]
<1>1. AnonymousVariants(enum) = variants
  BY Zenon DEF AnonymousVariants, Chosen, ToSet
<1>2. DOMAIN structs = DOMAIN variants /\ \A i \in DOMAIN variants : structs[i].fields = variants[i].fields
  <2> HIDE DEF variants
  <2> QED
    BY <1>1 DEF AnonymousStructs
<1>3. KotlinWriteAnonymousStructs(cfg, enum, parts) = Texts(seq)
  BY DEF KotlinWriteAnonymousStructs
<1>4. ASSUME NEW i \in DOMAIN structs
      PROVE  Fine(KotlinWriteStructNamed(cfg, parts \o structs[i].name, structs[i].fields,
                                      structs[i].generics), set, other)
  <2> DEFINE fields == structs[i].fields
             generics == structs[i].generics
             name == parts \o structs[i].name
  <2>1. TypesOfFields(fields) \subseteq TypesOfItem(enum)
    BY <1>2, AnonymousAre
  <2> HIDE DEF fields, generics, name, structs
  <2>2. \A ty \in TypesOfFields(fields) : Fine(KotlinFormatType(cfg, generics, ty), set, other)
    BY <2>1
  <2>3. Fine(KotlinWriteStructNamed(cfg, name, fields, generics), set, other)
    BY <2>2, KotlinStructNeeds
  <2> QED
    BY <2>3 DEF fields, generics, name
<1>5. \A i \in DOMAIN seq : Fine(seq[i], set, other)
  BY <1>4
<1> HIDE DEF seq
<1> QED
  BY <1>3, <1>5, FineTexts

LEMMA KotlinVariantsNeed ==
  ASSUME NEW enum, enum.kind = "enum", NEW parts, NEW format, NEW set, NEW other,
         \A ty \in TypesOfItem(enum) : Fine(format[ty], set, other)
  PROVE  Fine(WriteVariants(enum, parts, format), set, other)
<1> DEFINE Of(variant) ==
             CASE variant.kind = "Unit"  -> Empty
               [] variant.kind = "Tuple" -> format[variant.ty]
               [] OTHER -> RefersTo(parts \o InnerName(variant),
                                    GenericsIn(variant.fields, enum.generics))
           seq == [i \in DOMAIN enum.variants |-> Of(enum.variants[i])]
<1>1. WriteVariants(enum, parts, format) = Texts(seq)
  BY DEF WriteVariants
<1>2. ASSUME NEW i \in DOMAIN enum.variants PROVE Fine(Of(enum.variants[i]), set, other)
  <2> DEFINE variant == enum.variants[i]
  <2>1. variant \in ToSet(enum.variants)
    BY DEF ToSet
  <2>2. TypesOfVariant(variant) \subseteq TypesOfItem(enum)
    BY <2>1 DEF TypesOfItem
  <2> HIDE DEF variant
  <2>3. variant.kind = "Tuple" => variant.ty \in TypesOfItem(enum)
    BY <2>2 DEF TypesOfVariant
  <2>4. Fine(Of(variant), set, other)
    BY <2>3, FineIs
  <2> QED
    BY <2>4 DEF variant
<1>3. \A i \in DOMAIN seq : Fine(seq[i], set, other)
  <2> HIDE DEF Of
  <2> QED
    BY <1>2
<1> HIDE DEF seq
<1> QED
  BY <1>1, <1>3, FineTexts

LEMMA KotlinEnumTypes ==
  ASSUME NEW cfg, NEW enum, enum.kind = "enum", NEW parts, NEW set, NEW other,
         \A generics : \A ty \in TypesOfItem(enum) :
           Fine(KotlinFormatType(cfg, generics, ty), set, other)
  PROVE  Fine(WriteVariants(enum, parts,
                KotlinFormatTypes(cfg, enum.generics, TypesOfItem(enum))), set, other)
<1> DEFINE types == TypesOfItem(enum)
           format == KotlinFormatTypes(cfg, enum.generics, types)
<1>1. types = TypesOfItem(enum)
  BY Zenon DEF TypesOfItem, TypesOfFields, TypesOfVariant, ToSet
<1>2. \A ty \in types : format[ty] = KotlinFormatType(cfg, enum.generics, ty)
  BY DEF KotlinFormatTypes
<1> HIDE DEF types
<1>3. \A ty \in TypesOfItem(enum) : Fine(format[ty], set, other)
  <2> HIDE DEF format
  <2> QED
    BY <1>1, <1>2
<1> HIDE DEF format
<1>4. Fine(WriteVariants(enum, parts, format), set, other)
  BY <1>3, KotlinVariantsNeed
<1> QED
  BY <1>4 DEF format, types


LEMMA ScalaFieldsNeed ==
  ASSUME NEW language, NEW fields, NEW format, NEW set, NEW other,
         \A i \in DOMAIN fields : Fine(format[fields[i].ty], set, other)
  PROVE  Fine(WriteFields(language, fields, format), set, other)
<1> DEFINE seq == [i \in DOMAIN fields |->
                     IF TypeOverrides(fields[i], language) # {} THEN Empty
                     ELSE format[fields[i].ty]]
<1>1. WriteFields(language, fields, format) = Texts(seq)
  BY DEF WriteFields
<1>2. \A i \in DOMAIN seq : Fine(seq[i], set, other)
  BY FineIs
<1> HIDE DEF seq
<1> QED
  BY <1>1, <1>2, FineTexts

LEMMA ScalaStructNeeds ==
  ASSUME NEW cfg, NEW parts, NEW fields, NEW generics, NEW set, NEW other,
         \A ty \in TypesOfFields(fields) : Fine(ScalaFormatType(cfg, generics, ty), set, other)
  PROVE  Fine(ScalaWriteStructNamed(cfg, parts, fields, generics), set, other)
<1> DEFINE types == TypesOfFields(fields)
           format == ScalaFormatTypes(cfg, generics, types)
           written == WriteFields("scala", fields, format)
<1>1. types = TypesOfFields(fields)
  BY Zenon DEF TypesOfFields
<1>2. \A ty \in types : format[ty] = ScalaFormatType(cfg, generics, ty)
  BY DEF ScalaFormatTypes
<1>3. \A i \in DOMAIN fields : fields[i].ty \in types
  BY DEF TypesOfFields
<1> HIDE DEF types, format
<1>4. Fine(written, set, other)
  BY <1>1, <1>2, <1>3, ScalaFieldsNeed
<1> HIDE DEF written
<1>5. \E declared : ScalaWriteStructNamed(cfg, parts, fields, generics) =
                      Both(Declares(parts, declared), written)
  BY DEF ScalaWriteStructNamed, written, format, types
<1> QED
  BY <1>4, <1>5, FineIs, FineTexts

LEMMA ScalaAnonymousNeed ==
  ASSUME NEW cfg, NEW enum, enum.kind = "enum", IsWhole(enum), NEW parts, NEW set, NEW other,
         \A generics : \A ty \in TypesOfItem(enum) :
           Fine(ScalaFormatType(cfg, generics, ty), set, other)
  PROVE  Fine(ScalaWriteAnonymousStructs(cfg, enum, parts), set, other)
<1> DEFINE variants == AnonymousVariants(enum)
           structs == AnonymousStructs(enum)
           seq == [i \in DOMAIN structs |->
                     ScalaWriteStructNamed(cfg, parts \o structs[i].name, structs[i].fields,
                                         structs[i].generics)]
<1>1. AnonymousVariants(enum) = variants
  BY Zenon DEF AnonymousVariants, Chosen, ToSet
<1>2. DOMAIN structs = DOMAIN variants /\ \A i \in DOMAIN variants : structs[i].fields = variants[i].fields
  <2> HIDE DEF variants
  <2> QED
    BY <1>1 DEF AnonymousStructs
<1>3. ScalaWriteAnonymousStructs(cfg, enum, parts) = Texts(seq)
  BY DEF ScalaWriteAnonymousStructs
<1>4. ASSUME NEW i \in DOMAIN structs
      PROVE  Fine(ScalaWriteStructNamed(cfg, parts \o structs[i].name, structs[i].fields,
                                      structs[i].generics), set, other)
  <2> DEFINE fields == structs[i].fields
             generics == structs[i].generics
             name == parts \o structs[i].name
  <2>1. TypesOfFields(fields) \subseteq TypesOfItem(enum)
    BY <1>2, AnonymousAre
  <2> HIDE DEF fields, generics, name, structs
  <2>2. \A ty \in TypesOfFields(fields) : Fine(ScalaFormatType(cfg, generics, ty), set, other)
    BY <2>1
  <2>3. Fine(ScalaWriteStructNamed(cfg, name, fields, generics), set, other)
    BY <2>2, ScalaStructNeeds
  <2> QED
    BY <2>3 DEF fields, generics, name
<1>5. \A i \in DOMAIN seq : Fine(seq[i], set, other)
  BY <1>4
<1> HIDE DEF seq
<1> QED
  BY <1>3, <1>5, FineTexts

LEMMA ScalaVariantsNeed ==
  ASSUME NEW enum, enum.kind = "enum", NEW parts, NEW format, NEW set, NEW other,
         \A ty \in TypesOfItem(enum) : Fine(format[ty], set, other)
  PROVE  Fine(WriteVariants(enum, parts, format), set, other)
<1> DEFINE Of(variant) ==
             CASE variant.kind = "Unit"  -> Empty
               [] variant.kind = "Tuple" -> format[variant.ty]
               [] OTHER -> RefersTo(parts \o InnerName(variant),
                                    GenericsIn(variant.fields, enum.generics))
           seq == [i \in DOMAIN enum.variants |-> Of(enum.variants[i])]
<1>1. WriteVariants(enum, parts, format) = Texts(seq)
  BY DEF WriteVariants
<1>2. ASSUME NEW i \in DOMAIN enum.variants PROVE Fine(Of(enum.variants[i]), set, other)
  <2> DEFINE variant == enum.variants[i]
  <2>1. variant \in ToSet(enum.variants)
    BY DEF ToSet
  <2>2. TypesOfVariant(variant) \subseteq TypesOfItem(enum)
    BY <2>1 DEF TypesOfItem
  <2> HIDE DEF variant
  <2>3. variant.kind = "Tuple" => variant.ty \in TypesOfItem(enum)
    BY <2>2 DEF TypesOfVariant
  <2>4. Fine(Of(variant), set, other)
    BY <2>3, FineIs
  <2> QED
    BY <2>4 DEF variant
<1>3. \A i \in DOMAIN seq : Fine(seq[i], set, other)
  <2> HIDE DEF Of
  <2> QED
    BY <1>2
<1> HIDE DEF seq
<1> QED
  BY <1>1, <1>3, FineTexts

LEMMA ScalaEnumTypes ==
  ASSUME NEW cfg, NEW enum, enum.kind = "enum", NEW parts, NEW set, NEW other,
         \A generics : \A ty \in TypesOfItem(enum) :
           Fine(ScalaFormatType(cfg, generics, ty), set, other)
  PROVE  Fine(WriteVariants(enum, parts,
                ScalaFormatTypes(cfg, enum.generics, TypesOfItem(enum))), set, other)
<1> DEFINE types == TypesOfItem(enum)
           format == ScalaFormatTypes(cfg, enum.generics, types)
<1>1. types = TypesOfItem(enum)
  BY Zenon DEF TypesOfItem, TypesOfFields, TypesOfVariant, ToSet
<1>2. \A ty \in types : format[ty] = ScalaFormatType(cfg, enum.generics, ty)
  BY DEF ScalaFormatTypes
<1> HIDE DEF types
<1>3. \A ty \in TypesOfItem(enum) : Fine(format[ty], set, other)
  <2> HIDE DEF format
  <2> QED
    BY <1>1, <1>2
<1> HIDE DEF format
<1>4. Fine(WriteVariants(enum, parts, format), set, other)
  BY <1>3, ScalaVariantsNeed
<1> QED
  BY <1>4 DEF format, types

(* Swift: the struct for the type without values, which the end of the module
   or post_generation writes if the backend remembers it. *)
LEMMA SwiftItemNeeds ==
  ASSUME NEW cfg, NEW item, IsWhole(item)
  PROVE  Fine(SwiftWriteItem(cfg, item), {"CodableVoid"}, {})
<1> DEFINE set == {"CodableVoid"}
<1>1. \A generics, ty : Fine(SwiftFormatType(cfg, generics, ty), set, {})
  BY SwiftTypesNeed DEF Fine
<1> HIDE DEF set
<1>2. CASE item.kind = "alias"
  <2>1. \E parts : SwiftWriteItem(cfg, item) = Both(Declares(parts, item.generics),
                                                    SwiftFormatType(cfg, item.generics, item.ty))
    BY <1>2 DEF SwiftWriteItem, SwiftWriteTypeAlias
  <2> QED
    BY <1>1, <2>1, FineIs, FineTexts DEF set
<1>3. CASE item.kind = "struct"
  <2>1. \E parts : SwiftWriteItem(cfg, item) =
                     SwiftWriteStructNamed(cfg, parts, item.fields, item.generics)
    BY <1>3 DEF SwiftWriteItem, SwiftWriteStruct
  <2> QED
    BY <1>1, <2>1, SwiftStructNeeds DEF set
<1>4. CASE item.kind = "enum"
  <2> DEFINE parts == <<cfg.prefix, item.id.renamed>>
             structs == SwiftWriteAnonymousStructs(cfg, item, parts)
             declared == Declares(parts, item.generics)
             variants == WriteVariants(item, parts,
                           SwiftFormatTypes(cfg, item.generics, TypesOfItem(item)))
  <2>1. SwiftWriteItem(cfg, item) = Texts(<<structs, declared, variants>>)
    BY <1>4 DEF SwiftWriteItem, SwiftWriteEnum
  <2>2. Fine(structs, set, {})
    BY <1>1, <1>4, SwiftAnonymousNeed
  <2>3. Fine(declared, set, {})
    BY FineIs
  <2>4. Fine(variants, set, {})
    BY <1>1, <1>4, SwiftEnumTypes
  <2> HIDE DEF structs, declared, variants
  <2> QED
    BY <2>1, <2>2, <2>3, <2>4, FineTexts DEF set
<1>5. CASE item.kind = "const"
  <2>1. SwiftWriteItem(cfg, item) = Fails("panic")
    BY <1>5 DEF SwiftWriteItem, SwiftWriteConst
  <2> QED
    BY <2>1, FineIs
<1> QED
  BY <1>2, <1>3, <1>4, <1>5 DEF IsWhole

(* Kotlin: what @Serializable is imported from. *)
LEMMA KotlinTypesNeed ==
  ASSUME NEW cfg, NEW generics, NEW ty, NEW set, NEW other
  PROVE  Fine(KotlinFormatType(cfg, generics, ty), set, other)
<1>1. \A types, prefix, mapped :
        Fine(FormatUserTypes(types, prefix, mapped, generics), set, other)
  BY DEF FormatUserTypes, Empty, Fine, Covered, NeedsOnly
<1>2. \E types, mapped, a :
        KotlinFormatType(cfg, generics, ty) =
          Both(FormatUserTypes(types, cfg.prefix, mapped, generics),
               IF a THEN Fails("error") ELSE Empty)
  BY DEF KotlinFormatType
<1>3. \A a : Fine(IF a THEN Fails("error") ELSE Empty, set, other)
  BY FineIs
<1> QED
  BY <1>1, <1>2, <1>3, FineTexts

LEMMA KotlinItemNeeds ==
  ASSUME NEW cfg, NEW item, IsWhole(item)
  PROVE  Fine(KotlinWriteItem(cfg, item), {"Serializable"}, {"Serializable"})
<1> DEFINE set == {"Serializable"}
           helper == Needs(set)
<1>1. \A generics, ty : Fine(KotlinFormatType(cfg, generics, ty), set, set)
  BY KotlinTypesNeed
<1>2. Fine(helper, set, set) /\ KotlinSerializable = helper /\ "Serializable" \in set \cap set
  BY FineIs DEF KotlinSerializable
<1> HIDE DEF set, helper
<1>3. CASE item.kind = "alias" /\ KotlinIsInline(item)
  <2> DEFINE declared == Declares(<<cfg.prefix, item.id.renamed>>, <<>>)
             type == KotlinFormatType(cfg, <<>>, item.ty)
  <2>1. KotlinWriteItem(cfg, item) = Texts(<<helper, declared, type>>)
    BY <1>2, <1>3 DEF KotlinWriteItem, KotlinWriteTypeAlias
  <2>2. Fine(declared, set, set) /\ Fine(type, set, set)
    BY <1>1, FineIs
  <2> HIDE DEF declared, type
  <2> QED
    BY <1>2, <2>1, <2>2, FineTexts DEF set
<1>4. CASE item.kind = "alias" /\ ~KotlinIsInline(item)
  <2>1. \E parts : KotlinWriteItem(cfg, item) = Both(Declares(parts, item.generics),
                                                     KotlinFormatType(cfg, item.generics, item.ty))
    BY <1>4 DEF KotlinWriteItem, KotlinWriteTypeAlias
  <2> QED
    BY <1>1, <2>1, FineIs, FineTexts DEF set
<1>5. CASE item.kind = "struct"
  <2>1. \E parts : KotlinWriteItem(cfg, item) =
                     KotlinWriteStructNamed(cfg, parts, item.fields, item.generics)
    BY <1>5 DEF KotlinWriteItem, KotlinWriteStruct
  <2> QED
    BY <1>1, <1>2, <2>1, KotlinStructNeeds DEF set
<1>6. CASE item.kind = "enum"
  <2> DEFINE parts == <<cfg.prefix, item.id.renamed>>
             original == <<cfg.prefix, item.id.original>>
             structs == KotlinWriteAnonymousStructs(cfg, item, parts)
             declared == Declares(parts, item.generics)
             written == WriteVariants(item, original,
                          KotlinFormatTypes(cfg, item.generics, TypesOfItem(item)))
             variants == KotlinWriteEnumVariants(cfg, item)
  <2>1. KotlinWriteItem(cfg, item) = Texts(<<structs, helper, declared, variants>>)
    BY <1>2, <1>6 DEF KotlinWriteItem, KotlinWriteEnum
  <2>2. Fine(structs, set, set) /\ Fine(declared, set, set)
    BY <1>1, <1>2, <1>6, KotlinAnonymousNeed, FineIs
  <2>3. Fine(written, set, set)
    BY <1>1, <1>6, KotlinEnumTypes
  <2>4. variants = Empty \/ variants = Both(written, RefersTo(original, item.generics))
    BY DEF KotlinWriteEnumVariants
  <2> HIDE DEF structs, declared, written, variants
  <2>5. Fine(variants, set, set)
    BY <2>3, <2>4, FineIs, FineTexts
  <2> QED
    BY <1>2, <2>1, <2>2, <2>5, FineTexts DEF set
<1>7. CASE item.kind = "const"
  <2>1. KotlinWriteItem(cfg, item) = Fails("panic")
    BY <1>7 DEF KotlinWriteItem, KotlinWriteConst
  <2> QED
    BY <2>1, FineIs
<1> QED
  BY <1>3, <1>4, <1>5, <1>6, <1>7 DEF IsWhole

(* Scala: the aliases of unsigned integers, if a type that is written has one. *)
IsUnsigned(ty) == \E t \in Formatted(ty, UserMappings(backend)) : IsSpecial(t) /\ t.id \in ScalaUnsignedIds

LEMMA ScalaTypesNeed ==
  ASSUME NEW generics, NEW ty
  PROVE  LET needed == IF IsUnsigned(ty) THEN {"UnsignedAliases"} ELSE {}
         IN  Fine(ScalaFormatType(backend, generics, ty), needed, needed)
<1> DEFINE needed == IF IsUnsigned(ty) THEN {"UnsignedAliases"} ELSE {}
           mapped == UserMappings(backend)
           types == Formatted(ty, mapped)
           special == Special(types, mapped)
           users == FormatUserTypes(types, "", mapped, generics)
           aliases == IF special \cap ScalaUnsignedIds = {} THEN Empty ELSE Needs({"UnsignedAliases"})
           error == IF "OffsetDateTime" \in special THEN Fails("error") ELSE Empty
<1>6. ScalaFormatType(backend, generics, ty) = Texts(<<users, aliases, error>>)
  BY DEF ScalaFormatType
<1>7. Fine(users, needed, needed)
  BY DEF FormatUserTypes, Empty, Fine, Covered, NeedsOnly
<1>8. special \cap ScalaUnsignedIds # {} => IsUnsigned(ty)
  BY DEF Special, IsUnsigned
<1>9. Fine(aliases, needed, needed)
  <2> HIDE DEF special
  <2> QED
    BY <1>8, FineIs
<1>10. Fine(error, needed, needed)
  BY FineIs
<1> HIDE DEF users, aliases, error, needed
<1>11. Fine(ScalaFormatType(backend, generics, ty), needed, needed)
  BY <1>6, <1>7, <1>9, <1>10, FineTexts
<1> QED
  BY <1>11 DEF needed

LEMMA FineMore ==
  ASSUME NEW text_, NEW set, NEW other, Fine(text_, set, other),
         NEW all, NEW others, set \subseteq all, other \subseteq others
  PROVE  Fine(text_, all, others)
BY DEF Fine, NeedsOnly, Covered

UnsignedIn(item) ==
  IF item.kind # "const" /\ \E ty \in TypesOfItem(item) : IsUnsigned(ty) THEN {"UnsignedAliases"} ELSE {}

LEMMA ScalaItemNeeds ==
  ASSUME NEW item, IsWhole(item)
  PROVE  Fine(ScalaWriteItem(backend, item), UnsignedIn(item), UnsignedIn(item))
<1> DEFINE set == UnsignedIn(item)
<1>1. ASSUME item.kind # "const", NEW generics, NEW ty \in TypesOfItem(item)
      PROVE  Fine(ScalaFormatType(backend, generics, ty), set, set)
  <2> DEFINE needed == IF IsUnsigned(ty) THEN {"UnsignedAliases"} ELSE {}
  <2>1. needed \subseteq set
    BY <1>1 DEF UnsignedIn
  <2>2. Fine(ScalaFormatType(backend, generics, ty), needed, needed)
    BY ScalaTypesNeed
  <2> HIDE DEF needed, set
  <2> QED
    BY <2>1, <2>2, FineMore
<1> HIDE DEF set
<1>2. CASE item.kind = "alias"
  <2>1. \E parts : ScalaWriteItem(backend, item) =
                     Both(Declares(parts, item.generics),
                          ScalaFormatType(backend, item.generics, item.ty))
    BY <1>2 DEF ScalaWriteItem, ScalaWriteTypeAlias
  <2>2. item.ty \in TypesOfItem(item)
    BY <1>2 DEF TypesOfItem
  <2> QED
    BY <1>1, <1>2, <2>1, <2>2, FineIs, FineTexts DEF set
<1>3. CASE item.kind = "struct"
  <2>1. \E parts : ScalaWriteItem(backend, item) =
                     ScalaWriteStructNamed(backend, parts, item.fields, item.generics)
    BY <1>3 DEF ScalaWriteItem, ScalaWriteStruct
  <2>2. TypesOfItem(item) = TypesOfFields(item.fields)
    BY <1>3 DEF TypesOfItem
  <2>3. \A ty \in TypesOfFields(item.fields) :
          Fine(ScalaFormatType(backend, item.generics, ty), set, set)
    BY <1>1, <1>3, <2>2
  <2> QED
    BY <2>1, <2>3, ScalaStructNeeds DEF set
<1>4. CASE item.kind = "enum"
  <2> DEFINE parts == <<"", item.id.renamed>>
             original == <<"", item.id.original>>
             structs == ScalaWriteAnonymousStructs(backend, item, parts)
             declared == Declares(parts, item.generics)
             written == WriteVariants(item, original,
                          ScalaFormatTypes(backend, item.generics, TypesOfItem(item)))
             variants == ScalaWriteEnumVariants(backend, item)
  <2>1. ScalaWriteItem(backend, item) = Texts(<<structs, declared, variants>>)
    BY <1>4 DEF ScalaWriteItem, ScalaWriteEnum
  <2>0. \A generics : \A ty \in TypesOfItem(item) :
          Fine(ScalaFormatType(backend, generics, ty), set, set)
    BY <1>1, <1>4
  <2>2. Fine(structs, set, set) /\ Fine(declared, set, set)
    BY <2>0, <1>4, ScalaAnonymousNeed, FineIs
  <2>3. Fine(written, set, set)
    BY <2>0, <1>4, ScalaEnumTypes
  <2>4. \/ variants = Empty \/ variants = RefersTo(parts, <<>>)
        \/ variants = Both(written, RefersTo(original, item.generics))
    <3> DEFINE none == Empty
               unit == RefersTo(parts, <<>>)
               algebraic == Both(written, RefersTo(original, item.generics))
    <3>1. variants = CASE item.variants = <<>> -> none [] item.unit -> unit [] OTHER -> algebraic
      BY DEF ScalaWriteEnumVariants
    <3>2. /\ none = Empty /\ unit = RefersTo(parts, <<>>)
          /\ algebraic = Both(written, RefersTo(original, item.generics))
      OBVIOUS
    <3> HIDE DEF none, unit, algebraic, variants
    <3>3. variants \in {none, unit, algebraic}
      BY <3>1
    <3> HIDE DEF parts, original, written
    <3> QED
      BY <3>2, <3>3
  <2> HIDE DEF structs, declared, written, variants, parts, original
  <2>5. Fine(variants, set, set)
    BY <2>3, <2>4, FineIs, FineTexts
  <2> QED
    BY <2>1, <2>2, <2>5, FineTexts DEF set
<1>5. CASE item.kind = "const"
  <2>1. ScalaWriteItem(backend, item) = Empty
    BY <1>5 DEF ScalaWriteItem
  <2> QED
    BY <2>1, FineIs
<1> QED
  BY <1>2, <1>3, <1>4, <1>5 DEF IsWhole

(* The beginning of a Scala module: braces, and the aliases if a type looks unsigned. *)
LEMMA ScalaHead ==
  ASSUME NEW items
  PROVE  LET begun == ScalaBeginFile(backend, items)
         IN  /\ begun.needs \subseteq {"}"}
             /\ begun.needs # {} => items # {}
             /\ backend.package = "dotted" => begun.needs \subseteq begun.recorded
             /\ ScalaUnsignedIntegerUsed(items) => "UnsignedAliases" \in begun.recorded
<1> DEFINE unsigned == ScalaUnsignedIntegerUsed(items)
           HasKind(kinds) == \E item \in items : item.kind \in kinds
           brace == ScalaPackage(backend)
           a == IF backend.package = "" THEN Fails("panic") ELSE Empty
           b == IF unsigned \/ HasKind({"alias"}) THEN brace ELSE Empty
           c == IF unsigned THEN Records({"UnsignedAliases"}) ELSE Empty
           d == IF HasKind({"struct", "enum"}) THEN brace ELSE Empty
           begun == ScalaBeginFile(backend, items)
<1>1. begun = Texts(<<a, b, c, d>>)
  BY DEF ScalaBeginFile
<1>2. /\ begun.needs = a.needs \cup b.needs \cup c.needs \cup d.needs
      /\ begun.recorded = a.recorded \cup b.recorded \cup c.recorded \cup d.recorded
  <2> HIDE DEF a, b, c, d, begun
  <2> QED
    BY <1>1, TextsOfFour
<1>3. /\ brace.needs = {"}"}
      /\ brace.recorded = IF backend.package = "dotted" THEN {"}"} ELSE {}
  <2> DEFINE n == Needs({"}"})
             r == IF backend.package = "dotted" THEN Records({"}"}) ELSE Empty
  <2>1. brace = Both(n, r)
    BY DEF ScalaPackage
  <2>2. /\ n.needs = {"}"} /\ n.recorded = {} /\ r.needs = {}
        /\ r.recorded = IF backend.package = "dotted" THEN {"}"} ELSE {}
    BY TextIs
  <2> HIDE DEF n, r, brace
  <2>3. brace.needs = n.needs \cup r.needs /\ brace.recorded = n.recorded \cup r.recorded
    BY <2>1, BothAre
  <2> QED
    BY <2>2, <2>3
<1>4. unsigned => items # {}
  BY DEF ScalaUnsignedIntegerUsed
<1>5. (\A kinds : HasKind(kinds) => items # {})
  OBVIOUS
<1> HIDE DEF brace, unsigned, HasKind
<1>6. /\ a.needs = {} /\ a.recorded = {} /\ c.needs = {}
      /\ c.recorded = IF unsigned THEN {"UnsignedAliases"} ELSE {}
  BY TextIs
<1>7. /\ b.needs \subseteq {"}"} /\ (b.needs # {} => items # {})
      /\ backend.package = "dotted" => b.needs \subseteq b.recorded
  BY <1>3, <1>4, <1>5, TextIs
<1>8. /\ d.needs \subseteq {"}"} /\ (d.needs # {} => items # {})
      /\ backend.package = "dotted" => d.needs \subseteq d.recorded
  BY <1>3, <1>5, TextIs
<1> HIDE DEF a, b, c, d, begun
<1>9. /\ begun.needs \subseteq {"}"} /\ (begun.needs # {} => items # {})
      /\ backend.package = "dotted" => begun.needs \subseteq begun.recorded
      /\ unsigned => "UnsignedAliases" \in begun.recorded
  BY <1>2, <1>6, <1>7, <1>8
<1> QED
  BY <1>9 DEF begun, unsigned

LEMMA CoveredMore ==
  ASSUME NEW text_, NEW set, Covered(text_, set), NEW all, set \subseteq all
  PROVE  Covered(text_, all)
BY DEF Covered

(* Go: what is imported. *)
LEMMA GoTypesNeed ==
  ASSUME NEW cfg, NEW generics, NEW ty, NEW set
  PROVE  /\ Covered(GoFormatType(cfg, generics, ty), set)
         /\ Covered(GoFormatUppercase(cfg, generics, ty), set)
<1>1. \A types, mapped : Covered(FormatUserTypes(types, "", mapped, generics), set)
  BY DEF FormatUserTypes, Empty, Covered
<1>2. \E types, mapped, a :
        GoFormatType(cfg, generics, ty) =
          Both(FormatUserTypes(types, "", mapped, generics),
               IF a THEN Requires({"time"}) ELSE Empty)
  BY DEF GoFormatType
<1>3. \A a : Covered(IF a THEN Requires({"time"}) ELSE Empty, set)
  BY CoveredIs
<1>4. Covered(GoFormatType(cfg, generics, ty), set)
  <2>1. PICK types, mapped, a :
          GoFormatType(cfg, generics, ty) =
            Both(FormatUserTypes(types, "", mapped, generics),
                 IF a THEN Requires({"time"}) ELSE Empty)
    BY <1>2
  <2> DEFINE u == FormatUserTypes(types, "", mapped, generics)
             x == IF a THEN Requires({"time"}) ELSE Empty
  <2>2. Covered(u, set) /\ Covered(x, set) /\ GoFormatType(cfg, generics, ty) = Both(u, x)
    BY <1>1, <1>3, <2>1
  <2> HIDE DEF u, x
  <2> QED
    BY <2>2, CoveredTexts
<1>5. /\ GoFormatUppercase(cfg, generics, ty).needs = GoFormatType(cfg, generics, ty).needs
      /\ GoFormatUppercase(cfg, generics, ty).recorded = GoFormatType(cfg, generics, ty).recorded
  <2> DEFINE t == GoFormatType(cfg, generics, ty)
  <2>1. \E x, y : t = Both(x, y)
    BY <1>2
  <2>2. {"refs", "needs", "recorded"} \subseteq DOMAIN t
    BY <2>1 DEF Both
  <2>3. \E refs : GoFormatUppercase(cfg, generics, ty) = [t EXCEPT !.refs = refs]
    BY DEF GoFormatUppercase
  <2> HIDE DEF t
  <2>4. /\ GoFormatUppercase(cfg, generics, ty).needs = t.needs
        /\ GoFormatUppercase(cfg, generics, ty).recorded = t.recorded
    BY <2>2, <2>3
  <2> QED
    BY <2>4 DEF t
<1> QED
  BY <1>4, <1>5 DEF Covered

LEMMA GoStructNeeds ==
  ASSUME NEW cfg, NEW parts, NEW fields, NEW generics, NEW set
  PROVE  Covered(GoWriteStructNamed(cfg, parts, fields, generics), set)
<1> DEFINE types == TypesOfFields(fields)
           format == [ty \in types |-> GoFormatUppercase(cfg, generics, ty)]
           seq == [i \in DOMAIN fields |-> IF TypeOverrides(fields[i], "go") # {} THEN Empty
                                           ELSE format[fields[i].ty]]
           written == Texts(seq)
<1>1. \A i \in DOMAIN fields : fields[i].ty \in types
  BY DEF TypesOfFields
<1>2. WriteFields("go", fields, format) = written
  BY DEF WriteFields
<1>3. \E declared : GoWriteStructNamed(cfg, parts, fields, generics) =
                      Both(Declares(declared, generics), WriteFields("go", fields, format))
  BY DEF GoWriteStructNamed
<1>4. \A i \in DOMAIN fields : Covered(format[fields[i].ty], set)
  <2> HIDE DEF types
  <2> QED
    BY <1>1, GoTypesNeed
<1>5. \A i \in DOMAIN seq : Covered(seq[i], set)
  <2> HIDE DEF format
  <2> QED
    BY <1>4, CoveredIs
<1> HIDE DEF seq
<1>6. Covered(written, set)
  BY <1>5, CoveredTexts
<1> HIDE DEF written, format
<1> QED
  BY <1>2, <1>3, <1>6, CoveredIs, CoveredTexts

LEMMA GoItemNeeds ==
  ASSUME NEW cfg, NEW item, IsWhole(item)
  PROVE  Covered(GoWriteItem(cfg, item), {"encoding/json"})
<1> DEFINE set == {"encoding/json"}
<1>1. \A generics, ty : Covered(GoFormatType(cfg, generics, ty), set)
  BY GoTypesNeed
<1>2. CASE item.kind \in {"alias", "const"}
  <2>1. \E parts : GoWriteItem(cfg, item) = Both(Declares(parts, <<>>),
                                                 GoFormatType(cfg, <<>>, item.ty))
    BY <1>2 DEF GoWriteItem, GoWriteTypeAlias, GoWriteConst
  <2> HIDE DEF set
  <2> QED
    BY <1>1, <2>1, CoveredIs, CoveredTexts DEF set
<1>3. CASE item.kind = "struct"
  BY <1>3, GoStructNeeds DEF GoWriteItem, GoWriteStruct
<1>4. CASE item.kind = "enum"
  <2> DEFINE parts == <<"", item.id.original>>
             structs == AnonymousStructs(item)
             all == [i \in DOMAIN structs |->
                       GoWriteStructNamed(cfg, parts \o structs[i].name, structs[i].fields,
                                          structs[i].generics)]
             Content(variant) ==
               CASE variant.kind = "Unit"  -> Empty
                 [] variant.kind = "Tuple" -> GoFormatUppercase(cfg, <<>>, variant.ty)
                 [] OTHER -> RefersTo(GoAcronymsToUppercase(cfg, parts \o InnerName(variant)), <<>>)
             seq == [i \in DOMAIN item.variants |-> Content(item.variants[i])]
             a == Texts(all)
             b == Declares(GoAcronymsToUppercase(cfg, parts), <<>>)
             c == IF item.unit THEN Empty ELSE Needs({"encoding/json"})
             d == Texts(seq)
  <2>1. GoWriteAnonymousStructs(cfg, item, parts) = a
    BY DEF GoWriteAnonymousStructs
  <2>2. GoWriteItem(cfg, item) = Texts(<<a, b, c, d>>)
    <3> HIDE DEF a
    <3> QED
      BY <1>4, <2>1 DEF GoWriteItem, GoWriteEnum
  <2>3. \A i \in DOMAIN all : Covered(all[i], set)
    BY GoStructNeeds
  <2>4. \A variant : Covered(Content(variant), set)
    BY GoTypesNeed, CoveredIs
  <2>5. \A i \in DOMAIN seq : Covered(seq[i], set)
    <3> HIDE DEF Content
    <3> QED
      BY <2>4
  <2>6. Covered(b, set) /\ Covered(c, set)
    BY CoveredIs
  <2> HIDE DEF all, seq
  <2>7. Covered(a, set) /\ Covered(d, set)
    BY <2>3, <2>5, CoveredTexts
  <2> HIDE DEF a, b, c, d
  <2> QED
    BY <2>2, <2>6, <2>7, CoveredFour DEF set
<1> QED
  BY <1>2, <1>3, <1>4 DEF IsWhole

(* TypeScript: the functions for dates and bytes. *)
LEMMA TypeScriptTypesNeed ==
  ASSUME NEW cfg, NEW generics, NEW ty
  PROVE  Covered(TypeScriptFormatType(cfg, generics, ty), {})
<1>1. \A types, mapped : Covered(FormatUserTypes(types, "", mapped, generics), {})
  BY DEF FormatUserTypes, Empty, Covered
<1>2. \E types, mapped, helpers, a :
        TypeScriptFormatType(cfg, generics, ty) =
          Texts(<<FormatUserTypes(types, "", mapped, generics), Records(helpers),
                  IF a THEN Fails("error") ELSE Empty>>)
  BY DEF TypeScriptFormatType
<1>3. PICK types, mapped, helpers, a :
        TypeScriptFormatType(cfg, generics, ty) =
          Texts(<<FormatUserTypes(types, "", mapped, generics), Records(helpers),
                  IF a THEN Fails("error") ELSE Empty>>)
  BY <1>2
<1> DEFINE u == FormatUserTypes(types, "", mapped, generics)
           r == Records(helpers)
           e == IF a THEN Fails("error") ELSE Empty
<1>4. /\ TypeScriptFormatType(cfg, generics, ty) = Texts(<<u, r, e>>)
      /\ Covered(u, {}) /\ Covered(r, {}) /\ Covered(e, {})
  BY <1>1, <1>3, CoveredIs
<1> HIDE DEF u, r, e
<1> QED
  BY <1>4, CoveredThree

LEMMA TypeScriptFieldsNeed ==
  ASSUME NEW cfg, NEW fields, NEW generics
  PROVE  Covered(TypeScriptWriteStructFields(cfg, fields, generics), {})
<1> DEFINE seq == [i \in DOMAIN fields |-> TypeScriptWriteField(cfg, fields[i], generics)]
<1>1. TypeScriptWriteStructFields(cfg, fields, generics) = Texts(seq)
  BY DEF TypeScriptWriteStructFields
<1>2. \A field : Covered(TypeScriptWriteField(cfg, field, generics), {})
  <2> SUFFICES ASSUME NEW field PROVE Covered(TypeScriptWriteField(cfg, field, generics), {})
    OBVIOUS
  <2> DEFINE overridden == TypeOverrides(field, "typescript") # {}
             type == IF overridden THEN Empty ELSE TypeScriptFormatType(cfg, generics, field.ty)
  <2>1. \E helpers : TypeScriptWriteField(cfg, field, generics) = Both(type, Requires(helpers))
    BY DEF TypeScriptWriteField
  <2>2. Covered(type, {})
    BY TypeScriptTypesNeed, CoveredIs
  <2> HIDE DEF type
  <2> QED
    BY <2>1, <2>2, CoveredIs, CoveredTexts
<1>3. \A i \in DOMAIN seq : Covered(seq[i], {})
  BY <1>2
<1> HIDE DEF seq
<1> QED
  BY <1>1, <1>3, CoveredTexts

LEMMA TypeScriptItemNeeds ==
  ASSUME NEW cfg, NEW item, IsWhole(item)
  PROVE  Covered(TypeScriptWriteItem(cfg, item), {})
<1>1. CASE item.kind \in {"alias", "const"}
  <2>1. \E parts, declared, generics :
          TypeScriptWriteItem(cfg, item) =
            Both(Declares(parts, declared), TypeScriptFormatType(cfg, generics, item.ty))
    BY <1>1 DEF TypeScriptWriteItem, TypeScriptWriteTypeAlias, TypeScriptWriteConst
  <2> QED
    BY <2>1, TypeScriptTypesNeed, CoveredIs, CoveredTexts
<1>2. CASE item.kind = "struct"
  <2>1. \E parts, declared, generics :
          TypeScriptWriteItem(cfg, item) =
            Both(Declares(parts, declared), TypeScriptWriteStructFields(cfg, item.fields, generics))
    BY <1>2 DEF TypeScriptWriteItem, TypeScriptWriteStruct
  <2> QED
    BY <2>1, TypeScriptFieldsNeed, CoveredIs, CoveredTexts
<1>3. CASE item.kind = "enum"
  <2> DEFINE Of(variant) == TypeScriptWriteEnumVariant(cfg, variant, item.generics)
             seq == [i \in DOMAIN item.variants |-> Of(item.variants[i])]
             variants == Texts(seq)
  <2>1. \E parts : TypeScriptWriteItem(cfg, item) = Both(Declares(parts, item.generics), variants)
    BY <1>3 DEF TypeScriptWriteItem, TypeScriptWriteEnum
  <2>2. \A variant : Covered(Of(variant), {})
    BY TypeScriptTypesNeed, TypeScriptFieldsNeed, CoveredIs DEF TypeScriptWriteEnumVariant
  <2>3. \A i \in DOMAIN seq : Covered(seq[i], {})
    <3> HIDE DEF Of
    <3> QED
      BY <2>2
  <2> HIDE DEF seq
  <2>4. Covered(variants, {})
    BY <2>3, CoveredTexts
  <2> HIDE DEF variants
  <2> QED
    BY <2>1, <2>4, CoveredIs, CoveredTexts
<1> QED
  BY <1>1, <1>2, <1>3 DEF IsWhole

(* Python: what is imported, and the functions that convert values. *)
LEMMA ImportsAre ==
  \A names, more : names \subseteq more => PythonImports(names) \subseteq PythonImports(more)
BY Zenon DEF PythonImports

(* A type records the import of datetime if it is one that is written so. *)
LEMMA PythonTypeNeeds ==
  ASSUME NEW cfg, NEW generics, NEW ty
  PROVE  LET text_ == PythonFormatType(cfg, generics, ty)
         IN  /\ Covered(text_, {})
             /\ (ty.id = "DateTime" \/ (ty.id = "OffsetDateTime" /\ Key(ty) \notin DOMAIN cfg.mappings)) =>
                  PythonImports({"datetime"}) \subseteq text_.recorded
<1> DEFINE mapped == DOMAIN cfg.mappings
           types == Formatted(ty, mapped)
           special == {t \in types : IsSpecial(t) /\ Key(t) \in mapped}
           ids == PythonImportsOf(Special(types, mapped))
           names == PythonImportsOfUserTypes(types)
           a == FormatUserTypes(types, "", mapped, generics)
           b == Requires(PythonImports(ids))
           c == Records(PythonImports(names))
           d == Records(PythonFunctions({cfg.mappings[Key(t)] : t \in special}))
           e == IF GenericKeyForbidden(types, mapped, generics) THEN Fails("error") ELSE Empty
           whole == PythonFormatType(cfg, generics, ty)
<1>1. whole = Texts(<<a, b, c, d, e>>)
  BY DEF PythonFormatType
<1>2. Covered(a, {})
  BY DEF FormatUserTypes, Empty, Covered
<1>3. Covered(b, {}) /\ Covered(c, {}) /\ Covered(d, {}) /\ Covered(e, {})
  BY CoveredIs
<1>4. ty \in types
  BY DEF Formatted
<1>5. ty.id = "DateTime" => "datetime" \in names
  <2> HIDE DEF types
  <2> QED
    BY <1>4 DEF PythonImportsOfUserTypes
<1>6. ty.id = "OffsetDateTime" /\ Key(ty) \notin mapped => "datetime" \in ids
  <2> HIDE DEF types
  <2> SUFFICES ASSUME ty.id = "OffsetDateTime", Key(ty) \notin mapped PROVE "datetime" \in ids
    OBVIOUS
  <2>1. IsSpecial(ty) /\ Key(ty) \notin mapped
    BY DEF IsSpecial, SpecialIds, Wrappers, Numbers
  <2>2. "OffsetDateTime" \in Special(types, mapped)
    BY <1>4, <2>1 DEF Special
  <2> QED
    BY <2>2 DEF PythonImportsOf
<1>7. /\ b.recorded = PythonImports(ids) /\ c.recorded = PythonImports(names)
  BY TextIs
<1> HIDE DEF ids, names
<1>8. (ty.id = "DateTime" \/ (ty.id = "OffsetDateTime" /\ Key(ty) \notin DOMAIN cfg.mappings)) =>
        PythonImports({"datetime"}) \subseteq b.recorded \cup c.recorded
  BY <1>5, <1>6, <1>7, ImportsAre
<1> HIDE DEF a, b, c, d, e, whole
<1>9. Covered(whole, {})
  BY <1>1, <1>2, <1>3, CoveredFive
<1>10. b.recorded \cup c.recorded \subseteq whole.recorded
  BY <1>1, TextsOfFive
<1> QED
  BY <1>8, <1>9, <1>10 DEF whole

LeftOutOf(field) ==
  (IF field.hasDefault /\ ~IsOptional(field.ty)
   THEN PythonFunctions(PythonWrittenTypes(backend, field)) ELSE {})
  \cup IF IsForeignDatetime(field) THEN PythonImports({"datetime"}) ELSE {}

LEMMA PythonFieldNeeds ==
  ASSUME NEW field, NEW generics
  PROVE  Covered(PythonWriteField(backend, field, generics), LeftOutOf(field))
<1> DEFINE overridden == TypeOverrides(field, "python") # {}
           a == IF overridden THEN Empty ELSE PythonFormatType(backend, generics, field.ty)
           types == PythonWrittenTypes(backend, field)
           functions == PythonFunctions(types)
           datetime == PythonImports({"datetime"})
           dates == PythonImports(types \cap {"datetime"})
           c == Needs(functions)
           d == Needs(dates)
           default == field.hasDefault /\ ~IsOptional(field.ty)
           e == IF default THEN Empty ELSE Records(functions)
           set == LeftOutOf(field)
           whole == PythonWriteField(backend, field, generics)
<1>1. \E helpers : whole = Texts(<<a, Requires(helpers), c, d, e>>)
  <2> DEFINE both == (IsOptional(field.ty) \/ field.hasDefault) /\ ~IsOptional(field.ty)
             e1 == IF both THEN Empty ELSE Records(functions)
  <2>1. e1 = e
    OBVIOUS
  <2>2. \E helpers : whole = Texts(<<a, Requires(helpers), c, d, e1>>)
    BY DEF PythonWriteField
  <2> HIDE DEF a, c, d, e, e1, whole
  <2> QED
    BY <2>1, <2>2
<1>2. PICK helpers : whole = Texts(<<a, Requires(helpers), c, d, e>>)
  BY <1>1
<1> DEFINE b == Requires(helpers)
<1>3. Covered(a, {})
  BY PythonTypeNeeds, CoveredIs
<1>4. Covered(b, {})
  BY CoveredIs
<1>5. c.needs = functions /\ d.needs = dates
  BY TextIs
<1>6. e.recorded = IF default THEN {} ELSE functions
  BY TextIs
<1>7. functions \subseteq e.recorded \cup set
  BY <1>6 DEF LeftOutOf
<1>8. dates \subseteq a.recorded \cup set
  <2>1. CASE "datetime" \notin types
    <3>1. types \cap {"datetime"} = {}
      BY <2>1
    <3> QED
      BY <3>1 DEF PythonImports
  <2>2. CASE IsForeignDatetime(field)
    <3>1. dates \subseteq datetime
      BY ImportsAre
    <3> QED
      BY <2>2, <3>1 DEF LeftOutOf
  <2>3. CASE "datetime" \in types /\ ~IsForeignDatetime(field)
    <3>1. /\ TypeOverrides(field, "python") = {}
          /\ Key(field.ty) \in DOMAIN backend.mappings => field.ty.id = "DateTime"
      BY <2>3 DEF IsForeignDatetime
    <3>2. ~overridden
      BY <3>1
    <3>3. types = {PythonWritten(backend, field.ty)}
      BY <3>2 DEF PythonWrittenTypes
    <3>4. PythonWritten(backend, field.ty) = "datetime"
      BY <2>3, <3>3
    <3>5. \/ Key(field.ty) \in DOMAIN backend.mappings
          \/ field.ty.id = "OffsetDateTime"
      BY <3>4 DEF PythonWritten
    <3>6. \/ field.ty.id = "DateTime"
          \/ field.ty.id = "OffsetDateTime" /\ Key(field.ty) \notin DOMAIN backend.mappings
      BY <3>1, <3>5
    <3>7. datetime \subseteq a.recorded
      <4> DEFINE type == PythonFormatType(backend, generics, field.ty)
      <4>1. a = type
        BY <3>2
      <4>2. datetime \subseteq type.recorded
        <5> HIDE DEF a
        <5> QED
          BY <3>6, PythonTypeNeeds
      <4> HIDE DEF a, type
      <4> QED
        BY <4>1, <4>2
    <3>8. dates \subseteq datetime
      BY ImportsAre
    <3> QED
      BY <3>7, <3>8
  <2> QED
    BY <2>1, <2>2, <2>3
<1>9. /\ whole.needs = a.needs \cup b.needs \cup c.needs \cup d.needs \cup e.needs
      /\ whole.recorded = a.recorded \cup b.recorded \cup c.recorded \cup d.recorded \cup e.recorded
  <2> HIDE DEF a, b, c, d, e, whole
  <2> QED
    BY <1>2, TextsOfFive DEF b
<1>10. e.needs = {}
  BY TextIs
<1> HIDE DEF a, b, c, d, e, whole, functions, dates, set
<1>11. Covered(whole, set)
  BY <1>3, <1>4, <1>5, <1>7, <1>8, <1>9, <1>10 DEF Covered
<1> QED
  BY <1>11 DEF whole, set

LEMMA FieldsAreLeftOut ==
  ASSUME Lang = "python", NEW item, NEW field \in FieldsIn(item)
  PROVE  LeftOutOf(field) \subseteq LeftOut(item)
<1> DEFINE functions == UNION {PythonFunctions(PythonWrittenTypes(backend, f)) :
                                 f \in {g \in FieldsIn(item) : g.hasDefault /\ ~IsOptional(g.ty)}}
           dates == IF \E f \in FieldsIn(item) : IsForeignDatetime(f)
                    THEN PythonImports({"datetime"}) ELSE {}
           more == IF item.kind = "alias" THEN PythonTypeVars(item.generics) ELSE {}
<1>1. LeftOut(item) = functions \cup dates \cup more
  BY DEF LeftOut
<1>2. IsForeignDatetime(field) => PythonImports({"datetime"}) \subseteq dates
  OBVIOUS
<1>3. field.hasDefault /\ ~IsOptional(field.ty) =>
        PythonFunctions(PythonWrittenTypes(backend, field)) \subseteq functions
  OBVIOUS
<1> HIDE DEF functions, dates, more
<1> QED
  BY <1>1, <1>2, <1>3 DEF LeftOutOf

LEMMA PythonStructNeeds ==
  ASSUME NEW parts, NEW fields, NEW generics, NEW set,
         \A i \in DOMAIN fields : LeftOutOf(fields[i]) \subseteq set
  PROVE  Covered(PythonWriteStructNamed(backend, parts, fields, generics), set)
<1> DEFINE whole == PythonWriteStructNamed(backend, parts, fields, generics)
           seq == [i \in DOMAIN fields |-> PythonWriteField(backend, fields[i], generics)]
           a == Declares(parts, generics)
           b == Requires(PythonImports({"BaseModel"}) \cup PythonTypeVars(generics))
           c == IF generics = <<>> THEN Empty ELSE Requires(PythonImports({"Generic"}))
           d == IF \E i \in DOMAIN fields : PythonIsAliased(fields[i])
                THEN Requires(PythonImports({"ConfigDict"})) ELSE Empty
           e == Texts(seq)
<1>1. whole = Texts(<<a, b, c, d, e>>)
  BY DEF PythonWriteStructNamed
<1>2. Covered(a, set) /\ Covered(b, set) /\ Covered(c, set) /\ Covered(d, set)
  BY CoveredIs
<1>3. \A i \in DOMAIN seq : Covered(seq[i], set)
  <2> SUFFICES ASSUME NEW i \in DOMAIN fields
               PROVE  Covered(PythonWriteField(backend, fields[i], generics), set)
    OBVIOUS
  <2> DEFINE field == fields[i]
             text_ == PythonWriteField(backend, field, generics)
  <2>1. Covered(text_, LeftOutOf(field))
    BY PythonFieldNeeds
  <2> HIDE DEF text_
  <2>2. Covered(text_, set)
    BY <2>1, CoveredMore
  <2> QED
    BY <2>2 DEF text_
<1> HIDE DEF seq
<1>4. Covered(e, set)
  BY <1>3, CoveredTexts
<1> HIDE DEF a, b, c, d, e, whole
<1>5. Covered(whole, set)
  BY <1>1, <1>2, <1>4, CoveredFive
<1> QED
  BY <1>5 DEF whole

LEMMA PythonAnonymousNeed ==
  ASSUME Lang = "python", NEW enum, enum.kind = "enum", IsWhole(enum), NEW parts
  PROVE  Covered(PythonWriteAnonymousStructs(backend, enum, parts), LeftOut(enum))
<1> DEFINE variants == AnonymousVariants(enum)
           structs == AnonymousStructs(enum)
           set == LeftOut(enum)
           seq == [i \in DOMAIN structs |->
                     PythonWriteStructNamed(backend, parts \o structs[i].name, structs[i].fields,
                                            structs[i].generics)]
<1>1. AnonymousVariants(enum) = variants
  OBVIOUS
<1>2. DOMAIN structs = DOMAIN variants /\ \A i \in DOMAIN variants : structs[i].fields = variants[i].fields
  <2> HIDE DEF variants
  <2> QED
    BY <1>1 DEF AnonymousStructs
<1>3. PythonWriteAnonymousStructs(backend, enum, parts) = Texts(seq)
  BY DEF PythonWriteAnonymousStructs
<1>4. ASSUME NEW i \in DOMAIN structs
      PROVE  Covered(PythonWriteStructNamed(backend, parts \o structs[i].name, structs[i].fields,
                                            structs[i].generics), set)
  <2> DEFINE fields == structs[i].fields
             generics == structs[i].generics
             name == parts \o structs[i].name
             variant == variants[i]
  <2>1. variant \in ToSet(variants)
    BY <1>2, AnonymousAre
  <2>2. fields = variant.fields
    BY <1>2
  <2> HIDE DEF fields, generics, name, structs, variant
  <2>3. ToSet(fields) \subseteq FieldsIn(enum)
    BY <2>1, <2>2 DEF FieldsIn
  <2>4. \A j \in DOMAIN fields : fields[j] \in FieldsIn(enum)
    BY <2>3 DEF ToSet
  <2>5. \A j \in DOMAIN fields : LeftOutOf(fields[j]) \subseteq set
    BY <2>4, FieldsAreLeftOut
  <2> HIDE DEF set
  <2>6. Covered(PythonWriteStructNamed(backend, name, fields, generics), set)
    BY <2>5, PythonStructNeeds
  <2> QED
    BY <2>6 DEF fields, generics, name
<1>5. \A i \in DOMAIN seq : Covered(seq[i], set)
  BY <1>4
<1> HIDE DEF seq
<1> QED
  BY <1>3, <1>5, CoveredTexts

LEMMA PythonVariantsNeed ==
  ASSUME NEW enum, NEW set
  PROVE  Covered(PythonWriteAlgebraicEnum(backend, enum), set)
<1> DEFINE parts == <<"", enum.id.renamed>>
           Class(variant) == Append(parts, variant.id.original)
           Content(variant) ==
             CASE variant.kind = "Unit"  -> Empty
               [] variant.kind = "Tuple" -> PythonFormatType(backend, enum.generics, variant.ty)
               [] OTHER -> RefersTo(parts \o InnerName(variant), <<>>)
           Of(variant) == Texts(<<Declares(Class(variant), <<>>),
                                  Requires(PythonImports({"Literal"})), Content(variant)>>)
           classes == [i \in DOMAIN enum.variants |-> Of(enum.variants[i])]
           members == [i \in DOMAIN enum.variants |-> RefersTo(Class(enum.variants[i]), <<>>)]
           a == Requires(PythonImports({"BaseModel", "Enum"}) \cup PythonTypeVars(enum.generics))
           b == Declares(Append(parts, "Types"), <<>>)
           c == Texts(classes)
           d == Texts(members)
           e == Declares(parts, <<>>)
           f == IF Len(members) = 1 THEN Empty ELSE Requires(PythonImports({"Union"}))
           whole == PythonWriteAlgebraicEnum(backend, enum)
<1>1. whole = Texts(<<a, b, c, d, e, f>>)
  BY DEF PythonWriteAlgebraicEnum
<1>2. Covered(a, set) /\ Covered(b, set) /\ Covered(e, set) /\ Covered(f, set)
  BY CoveredIs
<1>3. ASSUME NEW variant PROVE Covered(Of(variant), set)
  <2> DEFINE x == Declares(Class(variant), <<>>)
             y == Requires(PythonImports({"Literal"}))
             z == Content(variant)
             type == PythonFormatType(backend, enum.generics, variant.ty)
  <2>1. Covered(type, set)
    <3>1. Covered(type, {})
      BY PythonTypeNeeds
    <3> HIDE DEF type
    <3> QED
      BY <3>1, CoveredMore
  <2>2. Covered(x, set) /\ Covered(y, set)
    BY CoveredIs
  <2>3. Covered(z, set)
    <3> HIDE DEF type
    <3>1. \E p : z \in {Empty, type, RefersTo(p, <<>>)}
      BY DEF type
    <3> HIDE DEF z
    <3> QED
      BY <2>1, <3>1, CoveredIs
  <2> HIDE DEF x, y, z
  <2>4. Covered(Texts(<<x, y, z>>), set)
    BY <2>2, <2>3, CoveredThree
  <2> QED
    BY <2>4 DEF x, y, z
<1>4. \A i \in DOMAIN classes : Covered(classes[i], set)
  <2> HIDE DEF Of
  <2> QED
    BY <1>3
<1>5. \A i \in DOMAIN members : Covered(members[i], set)
  BY CoveredIs
<1> HIDE DEF classes, members
<1>6. Covered(c, set) /\ Covered(d, set)
  BY <1>4, <1>5, CoveredTexts
<1> HIDE DEF a, b, c, d, e, f, whole
<1>7. Covered(whole, set)
  BY <1>1, <1>2, <1>6, CoveredSix
<1> QED
  BY <1>7 DEF whole

LEMMA PythonItemNeeds ==
  ASSUME Lang = "python", NEW item, IsWhole(item)
  PROVE  Covered(PythonWriteItem(backend, item), LeftOut(item))
<1> DEFINE set == LeftOut(item)
<1>1. \A generics, ty : Covered(PythonFormatType(backend, generics, ty), set)
  <2> SUFFICES ASSUME NEW generics, NEW ty PROVE Covered(PythonFormatType(backend, generics, ty), set)
    OBVIOUS
  <2> DEFINE type == PythonFormatType(backend, generics, ty)
  <2>1. Covered(type, {})
    BY PythonTypeNeeds
  <2> HIDE DEF type, set
  <2>2. Covered(type, set)
    BY <2>1, CoveredMore
  <2> QED
    BY <2>2 DEF type
<1>2. CASE item.kind = "alias"
  <2> DEFINE vars_ == PythonTypeVars(item.generics)
             b == Needs(vars_)
             c == PythonFormatType(backend, item.generics, item.ty)
  <2>1. \E parts : PythonWriteItem(backend, item) = Texts(<<Declares(parts, item.generics), b, c>>)
    BY <1>2 DEF PythonWriteItem, PythonWriteTypeAlias
  <2>2. vars_ \subseteq set
    BY <1>2 DEF LeftOut
  <2>3. Covered(b, set)
    <3> HIDE DEF vars_, set
    <3> QED
      BY <2>2, CoveredIs
  <2>4. Covered(c, set)
    BY <1>1
  <2>5. PICK parts : PythonWriteItem(backend, item) = Texts(<<Declares(parts, item.generics), b, c>>)
    BY <2>1
  <2> DEFINE a == Declares(parts, item.generics)
  <2>6. Covered(a, set)
    BY CoveredIs
  <2> HIDE DEF a, b, c, set
  <2> QED
    BY <2>3, <2>4, <2>5, <2>6, CoveredThree DEF a, set
<1>3. CASE item.kind = "struct"
  <2> DEFINE fields == item.fields
  <2>1. \E parts : PythonWriteItem(backend, item) =
                     PythonWriteStructNamed(backend, parts, fields, item.generics)
    BY <1>3 DEF PythonWriteItem, PythonWriteStruct
  <2>2. FieldsIn(item) = ToSet(fields)
    BY <1>3 DEF FieldsIn
  <2> HIDE DEF fields
  <2>3. \A i \in DOMAIN fields : fields[i] \in FieldsIn(item)
    BY <2>2 DEF ToSet
  <2>4. \A i \in DOMAIN fields : LeftOutOf(fields[i]) \subseteq set
    BY <2>3, FieldsAreLeftOut
  <2> HIDE DEF set
  <2> QED
    BY <2>1, <2>4, PythonStructNeeds DEF set
<1>4. CASE item.kind = "enum"
  <2> DEFINE parts == <<"", item.id.renamed>>
             structs == PythonWriteAnonymousStructs(backend, item, parts)
             unit == Both(Declares(parts, <<>>), Requires(PythonImports({"Enum"})))
             algebraic == PythonWriteAlgebraicEnum(backend, item)
             variants == IF item.unit THEN unit ELSE algebraic
  <2>1. PythonWriteItem(backend, item) = Both(structs, variants)
    BY <1>4 DEF PythonWriteItem, PythonWriteEnum
  <2>2. Covered(structs, set)
    BY <1>4, PythonAnonymousNeed
  <2>3. Covered(unit, set)
    <3> DEFINE declared == Declares(parts, <<>>)
               imported == Requires(PythonImports({"Enum"}))
    <3>1. Covered(declared, set) /\ Covered(imported, set)
      BY CoveredIs
    <3> HIDE DEF declared, imported, set
    <3>2. Covered(Both(declared, imported), set)
      BY <3>1, CoveredTexts
    <3> QED
      BY <3>2 DEF declared, imported
  <2>4. Covered(algebraic, set)
    BY PythonVariantsNeed
  <2> HIDE DEF unit, algebraic, set
  <2>5. Covered(variants, set)
    BY <2>3, <2>4
  <2> HIDE DEF structs, variants
  <2> QED
    BY <2>1, <2>2, <2>5, CoveredTexts DEF set
<1>5. CASE item.kind = "const"
  <2>1. \E parts : PythonWriteItem(backend, item) =
                     Both(Declares(parts, <<>>), PythonFormatType(backend, <<>>, item.ty))
    BY <1>5 DEF PythonWriteItem, PythonWriteConst
  <2> HIDE DEF set
  <2> QED
    BY <1>1, <2>1, CoveredIs, CoveredTexts DEF set
<1> QED
  BY <1>2, <1>3, <1>4, <1>5 DEF IsWhole

(* What is there for the module of some items, if the backend has recorded something. *)
Beginning(items) == BeginModuleIn(Lang, backend, items).recorded
Ending(helpers) == EndModuleIn(Lang, backend, helpers) \cup PostGenerationIn(Lang, backend, helpers)

LEMMA ProvidedMore ==
  ASSUME Lang \in Languages, NEW helpers, NEW more, helpers \subseteq more
  PROVE  /\ EndModuleIn(Lang, backend, helpers) \subseteq EndModuleIn(Lang, backend, more)
         /\ PostGenerationIn(Lang, backend, helpers) \subseteq PostGenerationIn(Lang, backend, more)
         /\ Ending(helpers) \subseteq Ending(more)
BY DEF Languages, Ending, EndModuleIn, PostGenerationIn, SwiftEndFile, SwiftPostGeneration,
       KotlinEndFile, KotlinPostGeneration, ScalaEndFile, ScalaPostGeneration,
       GoEndFile, GoPostGeneration, PythonEndFile, PythonPostGeneration,
       TypeScriptEndFile, TypeScriptPostGeneration

LEMMA ScalaLooks ==
  ASSUME Lang = "scala", NEW items, NEW item \in items
  PROVE  UnsignedIn(item) \subseteq Beginning(items) \cup LeftOut(item)
<1> SUFFICES ASSUME item.kind # "const", NEW ty \in TypesOfItem(item), IsUnsigned(ty)
             PROVE  "UnsignedAliases" \in Beginning(items) \cup LeftOut(item)
  BY DEF UnsignedIn
<1>1. PICK t \in Formatted(ty, UserMappings(backend)) : t.id \in ScalaUnsignedIds
  BY DEF IsUnsigned
<1>2. CASE t \in ScalaLooksAt(ty)
  <2>1. ScalaUnsignedIntegerUsed(items)
    BY <1>1, <1>2 DEF ScalaUnsignedIntegerUsed
  <2>2. "UnsignedAliases" \in ScalaBeginFile(backend, items).recorded
    BY <2>1, ScalaHead
  <2> QED
    BY <2>2 DEF Beginning, BeginModuleIn
<1>3. CASE t \notin ScalaLooksAt(ty)
  <2>1. IsNestedUnsigned(ty)
    BY <1>1, <1>3 DEF IsNestedUnsigned
  <2>2. LeftOut(item) = (IF backend.package # "dotted" THEN {"}"} ELSE {}) \cup {"UnsignedAliases"}
    BY <2>1 DEF LeftOut
  <2> QED
    BY <2>2
<1> QED
  BY <1>2, <1>3

(* What an item needs is left out, or there if the backend recorded what the item made it record. *)
LEMMA ItemIsProvided ==
  ASSUME Lang \in Languages, NEW items, NEW item \in items, IsWhole(item), NEW helpers,
         WriteItemIn(Lang, backend, item).recorded \subseteq helpers
  PROVE  WriteItemIn(Lang, backend, item).needs
           \subseteq LeftOut(item) \cup Beginning(items) \cup Ending(helpers)
<1> DEFINE text_ == WriteItemIn(Lang, backend, item)
<1>1. CASE Lang = "swift"
  <2> DEFINE written == SwiftWriteItem(backend, item)
  <2>1. Fine(written, {"CodableVoid"}, {}) /\ text_ = written
    BY <1>1, SwiftItemNeeds DEF WriteItemIn
  <2> HIDE DEF written, text_
  <2>2. text_.needs \subseteq helpers \cap {"CodableVoid"}
    BY <2>1 DEF Fine, NeedsOnly, Covered, text_
  <2>3. Ending(helpers) = helpers \cap {"CodableVoid"}
    BY <1>1 DEF Ending, EndModuleIn, PostGenerationIn, SwiftEndFile, SwiftPostGeneration
  <2> QED
    BY <2>2, <2>3 DEF text_
<1>2. CASE Lang = "kotlin"
  <2> DEFINE written == KotlinWriteItem(backend, item)
  <2>1. Fine(written, {"Serializable"}, {"Serializable"}) /\ text_ = written
    BY <1>2, KotlinItemNeeds DEF WriteItemIn
  <2> HIDE DEF written, text_
  <2>2. text_.needs \subseteq {"Serializable"}
    BY <2>1 DEF Fine, NeedsOnly
  <2>3. CASE backend.package = ""
    <3>1. LeftOut(item) = {"Serializable"}
      BY <1>2, <2>3 DEF LeftOut
    <3> QED
      BY <2>2, <3>1 DEF text_
  <2>4. CASE backend.package # ""
    <3>1. KotlinBeginFile(backend) = Records({"Serializable"})
      BY <2>4 DEF KotlinBeginFile
    <3>2. Beginning(items) = {"Serializable"}
      BY <1>2, <3>1, TextIs DEF Beginning, BeginModuleIn
    <3> QED
      BY <2>2, <3>2 DEF text_
  <2> QED
    BY <2>3, <2>4
<1>3. CASE Lang = "scala"
  <2> DEFINE written == ScalaWriteItem(backend, item)
             set == UnsignedIn(item)
  <2>1. Fine(written, set, set) /\ text_ = written
    BY <1>3, ScalaItemNeeds DEF WriteItemIn
  <2> HIDE DEF written, text_, set
  <2>2. text_.needs \subseteq set
    BY <2>1 DEF Fine, NeedsOnly
  <2> QED
    BY <1>3, <2>2, ScalaLooks DEF text_, set
<1>4. CASE Lang = "go"
  <2> DEFINE written == GoWriteItem(backend, item)
  <2>1. Covered(written, {"encoding/json"}) /\ text_ = written
    BY <1>4, GoItemNeeds DEF WriteItemIn
  <2>2. GoBeginFile(backend) = Records({"encoding/json"})
    BY DEF GoBeginFile
  <2>3. Beginning(items) = {"encoding/json"}
    BY <1>4, <2>2, TextIs DEF Beginning, BeginModuleIn
  <2>4. helpers \subseteq Ending(helpers)
    BY <1>4 DEF Ending, EndModuleIn, GoEndFile
  <2> HIDE DEF written
  <2> QED
    BY <2>1, <2>3, <2>4 DEF Covered
<1>5. CASE Lang = "python"
  <2> DEFINE written == PythonWriteItem(backend, item)
  <2>1. Covered(written, LeftOut(item)) /\ text_ = written
    BY <1>5, PythonItemNeeds DEF WriteItemIn
  <2>2. helpers \subseteq Ending(helpers)
    BY <1>5 DEF Ending, EndModuleIn, PythonEndFile
  <2> HIDE DEF written
  <2> QED
    BY <2>1, <2>2 DEF Covered
<1>6. CASE Lang = "typescript"
  <2> DEFINE written == TypeScriptWriteItem(backend, item)
  <2>1. Covered(written, {}) /\ text_ = written
    BY <1>6, TypeScriptItemNeeds DEF WriteItemIn
  <2>2. helpers \subseteq Ending(helpers)
    BY <1>6 DEF Ending, EndModuleIn, TypeScriptEndFile
  <2> HIDE DEF written
  <2> QED
    BY <2>1, <2>2 DEF Covered
<1> QED
  BY <1>1, <1>2, <1>3, <1>4, <1>5, <1>6 DEF Languages

(* What the beginning of a module needs is there, or the items in it leave it out. *)
LEMMA HeadIsProvided ==
  ASSUME Lang \in Languages, NEW items
  PROVE  BeginModuleIn(Lang, backend, items).needs
           \subseteq Beginning(items) \cup UNION {LeftOut(item) : item \in items}
<1> DEFINE begun == BeginModuleIn(Lang, backend, items)
<1>1. CASE Lang = "scala"
  <2>1. begun = ScalaBeginFile(backend, items)
    BY <1>1 DEF BeginModuleIn
  <2>2. /\ begun.needs \subseteq {"}"}
        /\ begun.needs # {} => items # {}
        /\ backend.package = "dotted" => begun.needs \subseteq begun.recorded
    <3> HIDE DEF begun
    <3> QED
      BY <2>1, ScalaHead
  <2>3. backend.package # "dotted" => \A item \in items : "}" \in LeftOut(item)
    BY <1>1 DEF LeftOut
  <2> HIDE DEF begun
  <2> QED
    BY <2>2, <2>3 DEF begun, Beginning
<1>2. CASE Lang # "scala"
  <2>1. SwiftBeginFile(backend) = Empty
    BY DEF SwiftBeginFile
  <2>2. KotlinBeginFile(backend) \in {Empty, Records({"Serializable"})}
    BY DEF KotlinBeginFile
  <2>3. GoBeginFile(backend) = Records({"encoding/json"})
    BY DEF GoBeginFile
  <2>4. PythonBeginFile(backend) = Empty /\ TypeScriptBeginFile(backend) = Empty
    BY DEF PythonBeginFile, TypeScriptBeginFile
  <2>5. begun \in {Empty, Records({"Serializable"}), Records({"encoding/json"})}
    BY <1>2, <2>1, <2>2, <2>3, <2>4 DEF BeginModuleIn, Languages
  <2>6. begun.needs = {}
    <3> HIDE DEF begun
    <3> QED
      BY <2>5, TextIs
  <2> QED
    BY <2>6
<1> QED
  BY <1>1, <1>2

(* What is parsed, and what reconcile_aliases makes of it, is whole. *)
LEMMA CheckedIsWhole ==
  ASSUME NEW parsed \in ParsedItems, NEW names
  PROVE  IsWhole(CheckItem(parsed, names))
<1>1. /\ {"kind", "id"} \subseteq DOMAIN parsed
      /\ parsed.kind \in {"struct", "enum", "alias", "const"}
      /\ parsed.kind = "enum" => /\ "variants" \in DOMAIN parsed
                                 /\ parsed.variants \in Seq(ToSet(parsed.variants))
  BY ParsedKeepsNames DEF IsParsed, IsTyped, ParsedItems, Results
<1>2. CASE parsed.kind # "enum"
  <2>1. \/ CheckItem(parsed, names) = parsed
        \/ \E fields : CheckItem(parsed, names) = [parsed EXCEPT !.fields = fields]
        \/ \E ty : CheckItem(parsed, names) = [parsed EXCEPT !.ty = ty]
    BY <1>1, <1>2 DEF CheckItem
  <2> QED
    BY <1>1, <1>2, <2>1 DEF IsWhole
<1>3. CASE parsed.kind = "enum"
  <2> DEFINE variants == parsed.variants
             checked == [i \in DOMAIN variants |-> CheckVariant(variants[i], names)]
  <2>1. CheckItem(parsed, names) = [parsed EXCEPT !.variants = checked]
    BY <1>3 DEF CheckItem
  <2>2. checked \in Seq(ToSet(checked))
    <3>1. DOMAIN variants = 1..Len(variants) /\ Len(variants) \in Nat
      BY <1>1, <1>3, LenProperties
    <3>2. DOMAIN checked = 1..Len(variants) /\ checked = [i \in 1..Len(variants) |-> checked[i]]
      BY <3>1
    <3> HIDE DEF checked
    <3>3. \A i \in 1..Len(variants) : checked[i] \in ToSet(checked)
      BY <3>2 DEF ToSet
    <3> QED
      BY <3>1, <3>2, <3>3
  <2> HIDE DEF checked
  <2>3. /\ CheckItem(parsed, names).kind = "enum"
        /\ CheckItem(parsed, names).variants = checked
    BY <1>1, <1>3, <2>1
  <2> QED
    BY <2>2, <2>3 DEF IsWhole
<1> QED
  BY <1>2, <1>3

(* The items of all crates are whole while modules are made of them. *)
WholeInv ==
  phase \in {"reconciling", "generating", "writing"} =>
    \A c \in DOMAIN crates : \A i \in DOMAIN crates[c].items : IsWhole(crates[c].items[i])

(* What a module needs is left out for some item of its crate, or there: in
   the module or, by what the backend has recorded by now, in the end. *)
LeftOuts(items) == UNION {LeftOut(item) : item \in items}
TextNeeds ==
  phase = "writing" =>
    /\ at \in DOMAIN crates /\ left \subseteq DOMAIN ItemsAt
    /\ text.needs \subseteq LeftOuts(ToSet(ItemsAt)) \cup Beginning(ToSet(ItemsAt)) \cup Ending(recorded)
ModulesNeed ==
  phase \in {"generating", "writing"} =>
    \A c \in DOMAIN modules :
      /\ c \in DOMAIN crates
      /\ modules[c].text.needs \subseteq LeftOuts(ToSet(crates[c].items)) \cup modules[c].provides
                                         \cup PostGenerationIn(Lang, backend, recorded)
HelpersInv == /\ ItemsInv /\ ConfigInv
              /\ WholeInv /\ TextNeeds /\ ModulesNeed /\ HelpersProvided

LEMMA GeneratingKnowsLanguage ==
  ASSUME HelpersInv, phase \in {"generating", "writing"}
  PROVE  Lang \in Languages
<1>1. ~Args.generateConfig
  BY DEF HelpersInv, ConfigInv, StoredInv, Running
<1>2. Args \in Arguments
  BY TargetsOfRuns DEF HelpersInv, ConfigInv, DataInv
<1> QED
  BY <1>1, <1>2, RunsAssumption DEF RunsAssumption, Lang

LEMMA SettingsStay ==
  ASSUME UNCHANGED <<world, run, backend>>
  PROVE  /\ Args' = Args /\ Lang' = Lang
         /\ \A items : LeftOuts(items)' = LeftOuts(items) /\ Beginning(items)' = Beginning(items)
         /\ \A helpers : /\ Ending(helpers)' = Ending(helpers)
                         /\ PostGenerationIn(Lang, backend, helpers)' = PostGenerationIn(Lang, backend, helpers)
<1>1. Args' = Args /\ Lang' = Lang
  BY DEF Args, Lang
<1>2. \A field : IsForeignDatetime(field)' = IsForeignDatetime(field)
  BY DEF IsForeignDatetime
<1>3. \A ty : IsNestedUnsigned(ty)' = IsNestedUnsigned(ty)
  BY DEF IsNestedUnsigned
<1>4. \A item : LeftOut(item)' = LeftOut(item)
  BY <1>1, <1>2, <1>3 DEF LeftOut
<1>5. \A items : LeftOuts(items)' = LeftOuts(items) /\ Beginning(items)' = Beginning(items)
  BY <1>1, <1>4 DEF LeftOuts, Beginning
<1>6. \A helpers : /\ Ending(helpers)' = Ending(helpers)
                   /\ PostGenerationIn(Lang, backend, helpers)' = PostGenerationIn(Lang, backend, helpers)
  BY <1>1 DEF Ending
<1> QED
  BY <1>1, <1>5, <1>6

LEMMA ReconcileMakesWhole ==
  ASSUME HelpersInv, Reconcile
  PROVE  WholeInv'
<1>1. PICK names : crates' = ReconcileAliases(names)
  BY DEF Reconcile
<1>2. DOMAIN crates' = DOMAIN crates
  BY <1>1 DEF ReconcileAliases
<1>3. ASSUME NEW c \in DOMAIN crates, NEW j \in DOMAIN crates'[c].items
      PROVE  IsWhole(crates'[c].items[j])
  <2> DEFINE items == crates[c].items
             checked == [i \in DOMAIN items |-> CheckItem(items[i], names[c])]
  <2>1. items \in Seq(ParsedItems) /\ "items" \in DOMAIN crates[c]
    BY DEF HelpersInv, ConfigInv, DataInv, Reconcile, Walking, NoData
  <2>2. crates'[c].items = checked
    BY <1>1, <2>1 DEF ReconcileAliases
  <2>3. items[j] \in ParsedItems /\ checked[j] = CheckItem(items[j], names[c])
    BY <1>3, <2>1, <2>2
  <2> QED
    BY <2>2, <2>3, CheckedIsWhole
<1> QED
  BY <1>2, <1>3 DEF WholeInv

LEMMA WholeStays ==
  ASSUME HelpersInv, phase \in {"reconciling", "generating", "writing"}, UNCHANGED crates
  PROVE  WholeInv'
BY DEF HelpersInv, WholeInv

(* What a module needs and has, once its items are those of a crate. *)
LEMMA NeedsAt ==
  ASSUME UNCHANGED <<world, run, backend>>, NEW items, ToSet(ItemsAt)' = items
  PROVE  /\ LeftOuts(ToSet(ItemsAt))' = LeftOuts(items)
         /\ Beginning(ToSet(ItemsAt))' = Beginning(items)
         /\ Ending(recorded)' = EndModuleIn(Lang, backend, recorded')
                                \cup PostGenerationIn(Lang, backend, recorded')
<1>1. /\ Lang' = Lang
      /\ LeftOuts(items)' = LeftOuts(items) /\ Beginning(items)' = Beginning(items)
  BY SettingsStay
<1>2. LeftOuts(ToSet(ItemsAt))' = LeftOuts(items)'
  BY DEF LeftOuts
<1>3. Beginning(ToSet(ItemsAt))' = Beginning(items)'
  BY DEF Beginning
<1>4. Ending(recorded)' = EndModuleIn(Lang, backend, recorded') \cup PostGenerationIn(Lang, backend, recorded')
  BY <1>1 DEF Ending
<1> QED
  BY <1>1, <1>2, <1>3, <1>4

LEMMA OthersNeed ==
  ASSUME HelpersInv, phase \in {"generating", "writing"},
         UNCHANGED <<world, run, backend, crates>>, recorded \subseteq recorded',
         NEW c \in DOMAIN modules
  PROVE  /\ c \in DOMAIN crates
         /\ modules[c].text.needs \subseteq LeftOuts(ToSet(crates[c].items))' \cup modules[c].provides
                                            \cup PostGenerationIn(Lang, backend, recorded)'
<1>1. PICK items : items = ToSet(crates[c].items)
  OBVIOUS
<1>2. PICK helpers, more : helpers = recorded /\ more = recorded'
  OBVIOUS
<1>3. /\ LeftOuts(items)' = LeftOuts(items)
      /\ PostGenerationIn(Lang, backend, more)' = PostGenerationIn(Lang, backend, more)
  BY SettingsStay
<1>4. /\ c \in DOMAIN crates
      /\ modules[c].text.needs \subseteq LeftOuts(items) \cup modules[c].provides
                                         \cup PostGenerationIn(Lang, backend, helpers)
  BY <1>1, <1>2 DEF HelpersInv, ModulesNeed
<1>5. PostGenerationIn(Lang, backend, helpers) \subseteq PostGenerationIn(Lang, backend, more)
  <2>1. Lang \in Languages
    BY GeneratingKnowsLanguage
  <2> QED
    BY <1>2, <2>1, ProvidedMore
<1>6. LeftOuts(ToSet(crates[c].items))' = LeftOuts(items)'
  BY <1>1 DEF LeftOuts
<1>7. PostGenerationIn(Lang, backend, recorded)' = PostGenerationIn(Lang, backend, more)'
  BY <1>2
<1> QED
  BY <1>3, <1>4, <1>5, <1>6, <1>7

LEMMA BeginModuleNeeds ==
  ASSUME HelpersInv, NEW crate \in DOMAIN crates, BeginModule(crate)
  PROVE  TextNeeds' /\ ModulesNeed'
<1>1. /\ phase = "generating" /\ at' = crate /\ left' = DOMAIN crates[crate].items
      /\ UNCHANGED <<world, run, backend, crates, modules>>
  BY DEF BeginModule, contextVars, parseVars
<1>2. PICK items : items = ToSet(crates[crate].items)
  OBVIOUS
<1>3. PICK begun : begun = BeginModuleIn(Lang, backend, items)
  OBVIOUS
<1>4. text' = Both(Empty, begun) /\ recorded' = recorded \cup begun.recorded
  BY <1>2, <1>3 DEF BeginModule, AddText
<1>5. Lang \in Languages
  BY <1>1, GeneratingKnowsLanguage
<1>6. begun.needs \subseteq Beginning(items) \cup LeftOuts(items)
  BY <1>3, <1>5, HeadIsProvided DEF LeftOuts
<1>7. text'.needs = begun.needs
  <2>1. Both(Empty, begun).needs = Empty.needs \cup begun.needs
    BY BothAre
  <2> QED
    BY <1>4, <2>1, TextIs
<1>8. ItemsAt' = crates[crate].items
  BY <1>1 DEF ItemsAt
<1>9. /\ LeftOuts(ToSet(ItemsAt))' = LeftOuts(items) /\ Beginning(ToSet(ItemsAt))' = Beginning(items)
  BY <1>1, <1>2, <1>8, NeedsAt
<1>10. TextNeeds'
  BY <1>1, <1>6, <1>7, <1>8, <1>9 DEF TextNeeds
<1>11. ModulesNeed'
  BY <1>1, <1>4, OthersNeed DEF ModulesNeed
<1> QED
  BY <1>10, <1>11

LEMMA WriteNextItemNeeds ==
  ASSUME HelpersInv, WriteNextItem
  PROVE  TextNeeds' /\ ModulesNeed'
<1>1. PICK i \in left : left' = left \ {i} /\ AddText(text, WriteItemIn(Lang, backend, ItemsAt[i]))
  BY DEF WriteNextItem
<1>2. /\ phase = "writing" /\ phase' # "done"
      /\ UNCHANGED <<world, run, backend, crates, at, modules>>
  BY DEF WriteNextItem, AddText, contextVars, parseVars
<1>3. ItemsAt' = ItemsAt /\ at \in DOMAIN crates /\ left \subseteq DOMAIN ItemsAt
  BY <1>2 DEF ItemsAt, HelpersInv, TextNeeds
<1>4. PICK items, item : items = ToSet(ItemsAt) /\ item = ItemsAt[i]
  OBVIOUS
<1>5. PICK written, helpers, more :
        written = WriteItemIn(Lang, backend, item) /\ helpers = recorded /\ more = recorded'
  OBVIOUS
<1>6. text' = Both(text, written) /\ more = helpers \cup written.recorded
  BY <1>1, <1>4, <1>5 DEF AddText
<1>7. Lang \in Languages
  BY <1>2, GeneratingKnowsLanguage
<1>8. item \in items
  BY <1>3, <1>4 DEF ToSet
<1>9. IsWhole(item)
  BY <1>2, <1>3, <1>4 DEF HelpersInv, WholeInv, ItemsAt
<1>10. written.needs \subseteq LeftOut(item) \cup Beginning(items) \cup Ending(more)
  <2>1. written.recorded \subseteq more
    BY <1>6
  <2> QED
    BY <1>5, <1>7, <1>8, <1>9, <2>1, ItemIsProvided
<1>11. LeftOut(item) \subseteq LeftOuts(items)
  BY <1>8 DEF LeftOuts
<1>12. text.needs \subseteq LeftOuts(items) \cup Beginning(items) \cup Ending(helpers)
  BY <1>2, <1>4, <1>5 DEF HelpersInv, TextNeeds
<1>13. Ending(helpers) \subseteq Ending(more)
  BY <1>6, <1>7, ProvidedMore
<1>14. text'.needs \subseteq LeftOuts(items) \cup Beginning(items) \cup Ending(more)
  <2>1. text'.needs = text.needs \cup written.needs
    BY <1>6, BothAre
  <2> QED
    BY <2>1, <1>10, <1>11, <1>12, <1>13
<1>15. /\ LeftOuts(ToSet(ItemsAt))' = LeftOuts(items) /\ Beginning(ToSet(ItemsAt))' = Beginning(items)
       /\ Ending(recorded)' = Ending(more)
  BY <1>2, <1>3, <1>4, <1>5, NeedsAt DEF Ending
<1>16. TextNeeds'
  BY <1>1, <1>2, <1>3, <1>14, <1>15 DEF TextNeeds
<1>17. recorded \subseteq recorded'
  BY <1>5, <1>6
<1>18. ModulesNeed'
  BY <1>2, <1>17, OthersNeed DEF ModulesNeed
<1> QED
  BY <1>16, <1>18

LEMMA EndModuleNeeds ==
  ASSUME HelpersInv, EndModule
  PROVE  TextNeeds' /\ ModulesNeed'
<1>1. /\ phase = "writing" /\ phase' = "generating"
      /\ UNCHANGED <<world, run, backend, crates, recorded>>
  BY DEF EndModule, contextVars, parseVars, backendVars
<1>2. PICK items, crate, helpers : items = ToSet(ItemsAt) /\ crate = at /\ helpers = recorded
  OBVIOUS
<1>3. PICK provides : provides = Beginning(items) \cup EndModuleIn(Lang, backend, helpers)
  OBVIOUS
<1>4. modules' = Put(modules, crate, [text |-> text, provides |-> provides])
  BY <1>2, <1>3 DEF EndModule, Beginning
<1>5. /\ DOMAIN modules' = DOMAIN modules \cup {crate}
      /\ modules'[crate].text = text /\ modules'[crate].provides = provides
      /\ \A c \in DOMAIN modules \ {crate} : modules'[c] = modules[c]
  BY <1>4 DEF Put, Over
<1>6. crate \in DOMAIN crates /\ items = ToSet(crates[crate].items)
  BY <1>1, <1>2 DEF HelpersInv, TextNeeds, ItemsAt
<1>7. text.needs \subseteq LeftOuts(items) \cup provides \cup PostGenerationIn(Lang, backend, helpers)
  BY <1>1, <1>2, <1>3 DEF HelpersInv, TextNeeds, Ending
<1>8. LeftOuts(ToSet(crates[crate].items))' = LeftOuts(items)
  <2>1. LeftOuts(items)' = LeftOuts(items)
    BY <1>1, SettingsStay
  <2> QED
    BY <1>1, <1>6, <2>1 DEF LeftOuts
<1>9. PostGenerationIn(Lang, backend, recorded)' = PostGenerationIn(Lang, backend, helpers)
  <2>1. Lang' = Lang
    BY <1>1, SettingsStay
  <2> QED
    BY <1>1, <1>2, <2>1
<1>10. ModulesNeed'
  <2> SUFFICES ASSUME NEW c \in DOMAIN modules'
               PROVE  /\ c \in DOMAIN crates'
                      /\ modules'[c].text.needs \subseteq
                           LeftOuts(ToSet(crates[c].items))' \cup modules'[c].provides
                           \cup PostGenerationIn(Lang, backend, recorded)'
    BY DEF ModulesNeed
  <2>1. CASE c = crate
    BY <1>1, <1>5, <1>6, <1>7, <1>8, <1>9, <2>1
  <2>2. CASE c # crate
    <3>1. c \in DOMAIN modules /\ modules'[c] = modules[c]
      BY <1>5, <2>2
    <3> QED
      BY <1>1, <3>1, OthersNeed
  <2> QED
    BY <2>1, <2>2
<1> QED
  BY <1>1, <1>10 DEF TextNeeds

LEMMA FinishProvides ==
  ASSUME HelpersInv, Finish
  PROVE  HelpersProvided'
<1>1. /\ phase = "generating" /\ phase' \in {"done", "failed"} /\ DOMAIN modules = DOMAIN crates
      /\ UNCHANGED <<world, run, backend, crates, recorded>>
  BY DEF Finish, contextVars, parseVars, backendVars
<1>2. PICK provides : provides = PostGenerationIn(Lang, backend, recorded)
  OBVIOUS
<1>3. modules' = IF provides = {} THEN modules
                 ELSE Put(modules, PostModule, [text |-> Empty, provides |-> provides])
  BY <1>2 DEF Finish
<1>4. /\ DOMAIN modules \subseteq DOMAIN modules'
      /\ \A c \in DOMAIN modules \ {PostModule} : modules'[c] = modules[c]
      /\ provides = {} => modules' = modules
      /\ provides # {} => /\ PostModule \in DOMAIN modules'
                          /\ modules'[PostModule].text = Empty
                          /\ modules'[PostModule].provides = provides
  BY <1>3 DEF Put, Over
<1>5. ASSUME NEW c \in DOMAIN crates
      PROVE  modules'[c].text.needs \ UNION {LeftOut(item)' : item \in ToSet(crates'[c].items)}
               \subseteq UNION {modules'[d].provides : d \in {c, PostModule} \cap DOMAIN modules'}
  <2>1. PICK items : items = ToSet(crates[c].items)
    OBVIOUS
  <2>2. LeftOuts(items)' = LeftOuts(items)
    BY <1>1, SettingsStay
  <2>3. UNION {LeftOut(item)' : item \in ToSet(crates'[c].items)} = LeftOuts(items)
    BY <1>1, <2>1, <2>2 DEF LeftOuts
  <2>4. c \in DOMAIN modules
    BY <1>1
  <2>5. modules[c].text.needs \subseteq LeftOuts(items) \cup modules[c].provides \cup provides
    BY <1>1, <1>2, <2>1, <2>4 DEF HelpersInv, ModulesNeed
  <2>6. c \in DOMAIN modules'
    BY <1>4, <2>4
  <2>7. CASE provides = {}
    <3>1. modules'[c] = modules[c]
      BY <1>4, <2>7
    <3> QED
      BY <2>3, <2>5, <2>6, <2>7, <3>1
  <2>8. CASE provides # {} /\ c # PostModule
    <3>1. /\ modules'[c] = modules[c] /\ PostModule \in DOMAIN modules'
          /\ modules'[PostModule].provides = provides
      BY <1>4, <2>4, <2>8
    <3> QED
      BY <2>3, <2>5, <2>6, <3>1
  <2>9. CASE provides # {} /\ c = PostModule
    <3>1. modules'[c].text.needs = {}
      BY <1>4, <2>9, TextIs
    <3> QED
      BY <3>1
  <2> QED
    BY <2>7, <2>8, <2>9
<1>6. DOMAIN crates' = DOMAIN crates
  BY <1>1
<1> QED
  BY <1>5, <1>6 DEF HelpersProvided

LEMMA HelpersStep ==
  ASSUME HelpersInv, [Next]_vars
  PROVE  HelpersInv'
<1>1. ItemsInv' /\ ConfigInv'
  BY ItemsStep, ConfigStep DEF HelpersInv
<1>2. CASE phase' \notin {"reconciling", "generating", "writing"} /\ ~Generated'
  BY <1>1, <1>2 DEF HelpersInv, WholeInv, TextNeeds, ModulesNeed, HelpersProvided
<1>3. CASE GenerateConfig \/ GenerateTypes
  <2>1. /\ UNCHANGED <<world, run>>
        /\ \/ phase' \in {"done", "failed"} /\ Args.generateConfig
           \/ phase' \in {"parsing", "failed"}
    BY <1>3 DEF GenerateConfig, StoreConfig, GenerateTypes, contextVars
  <2> QED
    BY <1>2, <2>1 DEF Generated, Args
<1>4. CASE WalkFiles
  <2>1. phase' \in {"parsing", "failed", "panicked", "hanging"}
    BY <1>4 DEF WalkFiles, Walk, PassOver, FailToParse, VisitFile, VisitItem, VisitItemUse, LoseWalker, VisitItemMod,
                EndVisit, Walking, Visiting
  <2> QED
    BY <1>2, <2>1 DEF Generated
<1>5. CASE Reconcile
  <2>1. phase' = "reconciling"
    BY <1>5 DEF Reconcile
  <2>2. WholeInv'
    BY <1>5, ReconcileMakesWhole
  <2> QED
    BY <1>1, <2>1, <2>2 DEF HelpersInv, TextNeeds, ModulesNeed, HelpersProvided, Generated
<1>6. CASE CheckParseErrors
  <2>1. /\ phase = "reconciling" /\ phase' \in {"generating", "failed"} /\ UNCHANGED <<crates, modules>>
    BY <1>6 DEF CheckParseErrors, parseVars, moduleVars
  <2>2. WholeInv'
    BY <2>1, WholeStays
  <2>3. modules' = <<>>
    BY <2>1 DEF HelpersInv, ItemsInv, ErrorsInv, ModulesInv, ModuleInv
  <2>4. ModulesNeed' /\ TextNeeds' /\ HelpersProvided'
    BY <2>1, <2>3 DEF ModulesNeed, TextNeeds, HelpersProvided, Generated
  <2> QED
    BY <1>1, <2>2, <2>4 DEF HelpersInv
<1>7. CASE WriteNextItem \/ EndModule \/ \E crate \in DOMAIN crates : BeginModule(crate)
  <2>1. /\ phase \in {"generating", "writing"} /\ phase' # "done" /\ UNCHANGED crates
    BY <1>7 DEF WriteNextItem, EndModule, BeginModule, AddText, parseVars
  <2>2. WholeInv'
    BY <2>1, WholeStays
  <2>3. TextNeeds' /\ ModulesNeed'
    BY <1>7, WriteNextItemNeeds, EndModuleNeeds, BeginModuleNeeds
  <2> QED
    BY <1>1, <2>1, <2>2, <2>3 DEF HelpersInv, HelpersProvided, Generated
<1>8. CASE Finish
  <2>1. phase' \in {"done", "failed"}
    BY <1>8 DEF Finish
  <2> QED
    BY <1>1, <1>8, <2>1, FinishProvides DEF HelpersInv, WholeInv, TextNeeds, ModulesNeed
<1>9. CASE RunAgain
  <2>1. phase' = "starting"
    BY <1>9 DEF RunAgain
  <2> QED
    BY <1>2, <2>1 DEF Generated
<1>10. CASE UNCHANGED vars
  <2>1. UNCHANGED <<phase, world, run, backend, crates, at, left, text, recorded, modules>>
    BY <1>10 DEF vars, parseVars, contextVars, backendVars, moduleVars
  <2>2. WholeInv'
    BY <2>1 DEF HelpersInv, WholeInv
  <2>3. PICK x : x = ToSet(ItemsAt)
    OBVIOUS
  <2>4. Args' = Args /\ Lang' = Lang /\ ItemsAt' = ItemsAt
    BY <2>1 DEF Args, Lang, ItemsAt
  <2>5. /\ LeftOuts(ToSet(ItemsAt))' = LeftOuts(x) /\ Beginning(ToSet(ItemsAt))' = Beginning(x)
        /\ Ending(recorded)' = Ending(recorded)
    BY <2>1, <2>3, <2>4, NeedsAt DEF Ending
  <2>6. TextNeeds'
    BY <2>1, <2>3, <2>4, <2>5 DEF HelpersInv, TextNeeds
  <2>7. ModulesNeed'
    BY <2>1, OthersNeed DEF ModulesNeed
  <2>8. \A items : LeftOuts(items)' = LeftOuts(items)
    BY <2>1, SettingsStay
  <2>9. HelpersProvided'
    BY <2>1, <2>4, <2>8 DEF HelpersInv, HelpersProvided, Generated, LeftOuts
  <2> QED
    BY <1>1, <2>2, <2>6, <2>7, <2>9 DEF HelpersInv
<1> QED
  BY <1>3, <1>4, <1>5, <1>6, <1>7, <1>8, <1>9, <1>10 DEF Next, Stopped

(* Whatever a backend writes that is neither a type nor its own syntax is there
   when the run ends: imported or defined in the module that uses it, or in the
   one that is added in the end, but for what is named as left out. What a
   backend remembers of one module carries over to the next and is never lost. *)
THEOREM HelpersAreProvided == Spec => []HelpersProvided
<1>1. Init => HelpersInv
  <2>1. Init => ~Generated /\ phase = "starting"
    BY DEF Init, Generated
  <2> QED
    BY <2>1, ItemsInitially, ConfigInitially
    DEF HelpersInv, WholeInv, TextNeeds, ModulesNeed, HelpersProvided
<1>2. HelpersInv /\ [Next]_vars => HelpersInv'
  BY HelpersStep
<1>3. HelpersInv => HelpersProvided
  BY DEF HelpersInv
<1> QED
  BY <1>1, <1>2, <1>3, PTL DEF Spec

-----------------------------------------------------------------------------
(* The types in a type *)

(* What is below a type is lighter, so that recursion over types is well founded. *)
LEMMA TypesAre ==
  ASSUME NEW ty \in Types
  PROVE  /\ ty = RustType(ty.id, ty.args) /\ ty.args \in Seq(Types) /\ TypeWeight[ty] \in Nat
         /\ \A i \in DOMAIN ty.args : ty.args[i] \in Types /\ TypeWeight[ty.args[i]] < TypeWeight[ty]
<1>1. AreWeights(TypeWeight, Types)
  BY TypesAssumption DEF TypesAssumption, AreWeights
<1>2. /\ ty = RustType(ty.id, ty.args) /\ ty.args \in Seq(Types) /\ TypeWeight[ty] \in Nat
      /\ TypeWeight[ty] = 1 + SumOf(TypeWeight, ty.args)
  BY TypesAssumption DEF TypesAssumption, SumOf, WeightsOf
<1>3. SumOf(TypeWeight, ty.args) \in Nat
  BY <1>1, <1>2, SumIsNat
<1>4. ASSUME NEW i \in DOMAIN ty.args PROVE ty.args[i] \in Types /\ TypeWeight[ty.args[i]] < TypeWeight[ty]
  <2>1. ty.args[i] \in ToSet(ty.args) /\ ToSet(ty.args) \subseteq Types
    BY <1>2, ToSetIs DEF ToSet
  <2>2. TypeWeight[ty.args[i]] <= SumOf(TypeWeight, ty.args) /\ TypeWeight[ty.args[i]] \in Nat
    BY <1>1, <1>2, <2>1, PartOfSum DEF AreWeights
  <2> QED
    BY <1>2, <1>3, <2>1, <2>2
<1> QED
  BY <1>2, <1>4

(* Induction over types. *)
LEMMA InductionOnTypes ==
  ASSUME NEW T, \A ty \in Types : (\A i \in DOMAIN ty.args : ty.args[i] \in T) => ty \in T
  PROVE  Types \subseteq T
<1> DEFINE Good == {n \in Nat : \A ty \in Types : TypeWeight[ty] < n => ty \in T}
<1>1. \A ty \in Types : TypeWeight[ty] \in Nat
  BY TypesAre
<1>2. 0 \in Good
  BY <1>1
<1>3. ASSUME NEW n \in Nat, n \in Good PROVE n + 1 \in Good
  <2> SUFFICES ASSUME NEW ty \in Types, TypeWeight[ty] < n + 1 PROVE ty \in T
    OBVIOUS
  <2>1. ASSUME NEW i \in DOMAIN ty.args PROVE ty.args[i] \in T
    <3>1. ty.args[i] \in Types /\ TypeWeight[ty.args[i]] < TypeWeight[ty]
      BY TypesAre
    <3> QED
      BY <1>1, <1>3, <3>1
  <2> QED
    BY <2>1
<1>4. Nat \subseteq Good
  <2> HIDE DEF Good
  <2> QED
    BY <1>2, <1>3, Induction
<1> QED
  <2> SUFFICES ASSUME NEW ty \in Types PROVE ty \in T
    OBVIOUS
  <2>1. TypeWeight[ty] + 1 \in Good /\ TypeWeight[ty] < TypeWeight[ty] + 1
    BY <1>1, <1>4
  <2> QED
    BY <2>1

(* A function of types that only looks at the parameters of a type there is. *)
LEMMA RecursionOnTypes ==
  ASSUME NEW V, NEW v \in V, NEW G \in [Types \X [Types -> V] -> V],
         \A ty \in Types : \A f, g \in [Types -> V] :
           (\A i \in DOMAIN ty.args : f[ty.args[i]] = g[ty.args[i]]) => G[<<ty, f>>] = G[<<ty, g>>]
  PROVE  \E f \in [Types -> V] : f = [ty \in Types |-> G[<<ty, f>>]]
<1> DEFINE m == [ty \in Types |-> TypeWeight[ty]]
<1>1. m \in [Types -> Nat]
  BY TypesAre
<1>2. DependsOnSmaller(G, m, Types, V)
  <2> SUFFICES ASSUME NEW ty \in Types, NEW f \in [Types -> V], NEW g \in [Types -> V],
                      \A other \in Types : m[other] < m[ty] => f[other] = g[other]
               PROVE  G[<<ty, f>>] = G[<<ty, g>>]
    BY DEF DependsOnSmaller
  <2>1. \A i \in DOMAIN ty.args : f[ty.args[i]] = g[ty.args[i]]
    BY TypesAre
  <2> QED
    BY <2>1
<1>3. \E f \in [Types -> V] : IsRecursive(f, G, Types)
  <2> HIDE DEF m
  <2> QED
    BY <1>1, <1>2, Recursion
<1> QED
  BY <1>3 DEF IsRecursive

(* What is in a type is itself and what is in its parameters, all of them types. *)
LEMMA TypesInAre ==
  \A ty \in Types : /\ TypesIn[ty] = {ty} \cup UNION {TypesIn[ty.args[i]] : i \in DOMAIN ty.args}
                    /\ TypesIn[ty] \subseteq Types
<1> DEFINE V == SUBSET Types
           Step(ty, f) == {ty} \cup UNION {f[ty.args[i]] : i \in DOMAIN ty.args}
           G == [p \in Types \X [Types -> V] |-> Step(p[1], p[2])]
           Is(f) == f = [ty \in Types |-> Step(ty, f)]
           none == {}
<1>1. ASSUME NEW ty \in Types, NEW f \in [Types -> V] PROVE Step(ty, f) \in V
  <2>1. \A i \in DOMAIN ty.args : f[ty.args[i]] \subseteq Types
    BY TypesAre
  <2> QED
    BY <2>1
<1>2. ASSUME NEW ty, NEW f, NEW g, \A i \in DOMAIN ty.args : f[ty.args[i]] = g[ty.args[i]]
      PROVE  Step(ty, f) = Step(ty, g)
  BY <1>2
<1>3. G \in [Types \X [Types -> V] -> V] /\ none \in V
  BY <1>1
<1>4. \A ty \in Types : \A f \in [Types -> V] : G[<<ty, f>>] = Step(ty, f)
  OBVIOUS
<1> HIDE DEF Step, V, none
<1>5. \A ty \in Types : \A f, g \in [Types -> V] :
        (\A i \in DOMAIN ty.args : f[ty.args[i]] = g[ty.args[i]]) => G[<<ty, f>>] = G[<<ty, g>>]
  BY <1>2, <1>4
<1> HIDE DEF G
<1>6. PICK f \in [Types -> V] : f = [ty \in Types |-> G[<<ty, f>>]]
  BY <1>3, <1>5, RecursionOnTypes
<1>7. Is(f)
  BY <1>4, <1>6
<1>8. TypesIn = CHOOSE g : Is(g)
  BY DEF TypesIn, Step
<1>9. Is(TypesIn)
  <2> HIDE DEF Is
  <2> QED
    BY <1>7, <1>8
<1>10. \A ty \in Types : TypesIn[ty] = Step(ty, TypesIn)
  BY <1>9
<1>11. \A ty \in Types : TypesIn[ty] = {ty} \cup UNION {TypesIn[ty.args[i]] : i \in DOMAIN ty.args}
  BY <1>10 DEF Step
<1> DEFINE T == {ty \in Types : TypesIn[ty] \subseteq Types}
<1>12. ASSUME NEW ty \in Types, \A i \in DOMAIN ty.args : ty.args[i] \in T PROVE ty \in T
  BY <1>11, <1>12
<1>13. Types \subseteq T
  <2> HIDE DEF T
  <2> QED
    BY <1>12, InductionOnTypes
<1> QED
  BY <1>11, <1>13

(* What formatting a type comes to is in it. *)
LEMMA FormattedAre ==
  ASSUME NEW mapped, NEW ty \in Types
  PROVE  Formatted(ty, mapped) \subseteq TypesIn[ty]
<1> DEFINE V == SUBSET Types
           Step(t, f) == IF Key(t) \in mapped THEN {}
                         ELSE UNION {{t.args[i]} \cup f[t.args[i]] : i \in DOMAIN t.args}
           G == [p \in Types \X [Types -> V] |-> Step(p[1], p[2])]
           Is(f) == f = [t \in Types |-> Step(t, f)]
           none == {}
           inside == CHOOSE f : Is(f)
<1>1. ASSUME NEW t \in Types, NEW f \in [Types -> V] PROVE Step(t, f) \in V
  <2>1. \A i \in DOMAIN t.args : {t.args[i]} \cup f[t.args[i]] \subseteq Types
    BY TypesAre
  <2> QED
    BY <2>1
<1>2. ASSUME NEW t, NEW f, NEW g, \A i \in DOMAIN t.args : f[t.args[i]] = g[t.args[i]]
      PROVE  Step(t, f) = Step(t, g)
  BY <1>2
<1>3. G \in [Types \X [Types -> V] -> V] /\ none \in V
  BY <1>1
<1>4. \A t \in Types : \A f \in [Types -> V] : G[<<t, f>>] = Step(t, f)
  OBVIOUS
<1>5. Formatted(ty, mapped) = {ty} \cup inside[ty]
  BY DEF Formatted
<1> DEFINE T == {t \in Types : inside[t] \subseteq TypesIn[t]}
<1>6. ASSUME \A t \in Types : inside[t] = Step(t, inside),
             NEW t \in Types, \A i \in DOMAIN t.args : t.args[i] \in T
      PROVE  t \in T
  <2> HIDE DEF inside
  <2>1. inside[t] \subseteq UNION {{t.args[i]} \cup inside[t.args[i]] : i \in DOMAIN t.args}
    BY <1>6
  <2>2. ASSUME NEW i \in DOMAIN t.args PROVE {t.args[i]} \cup inside[t.args[i]] \subseteq TypesIn[t.args[i]]
    <3>1. t.args[i] \in Types /\ t.args[i] \in TypesIn[t.args[i]]
      BY TypesAre, TypesInAre
    <3> QED
      BY <1>6, <3>1
  <2>3. \A i \in DOMAIN t.args : TypesIn[t.args[i]] \subseteq TypesIn[t]
    BY TypesInAre
  <2> QED
    BY <2>1, <2>2, <2>3
<1> HIDE DEF Step, V, none
<1>7. \A t \in Types : \A f, g \in [Types -> V] :
        (\A i \in DOMAIN t.args : f[t.args[i]] = g[t.args[i]]) => G[<<t, f>>] = G[<<t, g>>]
  BY <1>2, <1>4
<1> HIDE DEF G
<1>8. PICK f \in [Types -> V] : f = [t \in Types |-> G[<<t, f>>]]
  BY <1>3, <1>7, RecursionOnTypes
<1>9. Is(f)
  BY <1>4, <1>8
<1>10. Is(inside)
  <2> HIDE DEF Is
  <2> QED
    BY <1>9
<1> HIDE DEF inside
<1>11. \A t \in Types : inside[t] = Step(t, inside)
  BY <1>10
<1>12. Types \subseteq T
  <2> HIDE DEF T
  <2> QED
    BY <1>6, <1>11, InductionOnTypes
<1> QED
  BY <1>5, <1>12, TypesInAre

-----------------------------------------------------------------------------
(* What a type may become when others are renamed *)

LEMMA NoneInDomain ==
  ASSUME NEW S, NEW s \in Seq(S), DOMAIN s = {}
  PROVE  s = <<>>
<1>1. Len(s) \in Nat /\ DOMAIN s = 1..Len(s)
  OBVIOUS
<1>2. Len(s) = 0
  BY <1>1
<1> QED
  BY <1>2, EmptySeq

(* The versions of a type are those its parameters have, and are types. *)
LEMMA VersionsAre ==
  \A ty \in Types :
    /\ Versions[ty] = Types \cap Renamings(ty, [i \in DOMAIN ty.args |-> Versions[ty.args[i]]])
    /\ Versions[ty] \subseteq Types
<1> DEFINE V == SUBSET Types
           Step(ty, f) == Types \cap Renamings(ty, [i \in DOMAIN ty.args |-> f[ty.args[i]]])
           G == [p \in Types \X [Types -> V] |-> Step(p[1], p[2])]
           Is(f) == f = [ty \in Types |-> Step(ty, f)]
           none == {}
<1>1. ASSUME NEW ty, NEW f, NEW g, \A i \in DOMAIN ty.args : f[ty.args[i]] = g[ty.args[i]]
      PROVE  Step(ty, f) = Step(ty, g)
  <2>1. [i \in DOMAIN ty.args |-> f[ty.args[i]]] = [i \in DOMAIN ty.args |-> g[ty.args[i]]]
    BY <1>1
  <2> QED
    BY <2>1
<1>2. G \in [Types \X [Types -> V] -> V] /\ none \in V
  OBVIOUS
<1>3. \A ty \in Types : \A f \in [Types -> V] : G[<<ty, f>>] = Step(ty, f)
  OBVIOUS
<1>4. \A ty : \A f : Step(ty, f) \subseteq Types
  OBVIOUS
<1>5. Versions = CHOOSE g : Is(g)
  BY DEF Versions
<1>6. \A f : Is(f) => \A ty \in Types : f[ty] = Step(ty, f)
  OBVIOUS
<1> HIDE DEF V, none, Step
<1>7. \A ty \in Types : \A f, g \in [Types -> V] :
        (\A i \in DOMAIN ty.args : f[ty.args[i]] = g[ty.args[i]]) => G[<<ty, f>>] = G[<<ty, g>>]
  BY <1>1, <1>3
<1> HIDE DEF G
<1>8. PICK f \in [Types -> V] : f = [ty \in Types |-> G[<<ty, f>>]]
  BY <1>2, <1>7, RecursionOnTypes
<1>9. Is(f)
  BY <1>3, <1>8
<1> HIDE DEF Is
<1>10. Is(Versions)
  BY <1>5, <1>9
<1>11. \A ty \in Types : Versions[ty] = Step(ty, Versions)
  BY <1>6, <1>10
<1> QED
  BY <1>4, <1>11 DEF Step

(* What check_type makes of a type, one level of it. *)
RenamedOnce(t, names, f) ==
  IF IsSimple(t)
  THEN IF t.id \in DOMAIN names THEN [t EXCEPT !.id = names[t.id]] ELSE t
  ELSE [t EXCEPT !.args = [i \in DOMAIN t.args |-> f[t.args[i]]]]

(* New names there may be. *)
AreNames(names) == \A id \in DOMAIN names : names[id] \in {id} \cup NewNamesOf(id)

LEMMA RenamedOnceIs ==
  ASSUME NEW names, AreNames(names), NEW t \in Types, NEW f,
         \A i \in DOMAIN t.args : f[t.args[i]] \in Versions[t.args[i]]
  PROVE  RenamedOnce(t, names, f) \in Versions[t] \cap Types
<1> DEFINE versions == [i \in DOMAIN t.args |-> Versions[t.args[i]]]
           args == [i \in DOMAIN t.args |-> f[t.args[i]]]
<1>1. t = RustType(t.id, t.args)
  BY TypesAre
<1>2. RenamedOnce(t, names, f) \in Renamings(t, versions)
  <2>1. CASE IsSimple(t)
    <3>1. t.args = <<>>
      BY <2>1 DEF IsSimple
    <3>2. t = RustType(t.id, <<>>) /\ [t EXCEPT !.id = names[t.id]] = RustType(names[t.id], <<>>)
      BY <1>1, <3>1 DEF RustType
    <3>3. \E name \in {t.id} \cup NewNamesOf(t.id) : RenamedOnce(t, names, f) = RustType(name, <<>>)
      BY <2>1, <3>2 DEF RenamedOnce, AreNames
    <3> QED
      BY <2>1, <3>3 DEF Renamings
  <2>2. CASE ~IsSimple(t)
    <3>1. args \in [DOMAIN versions -> UNION Range(versions)] /\ \A i \in DOMAIN versions : args[i] \in versions[i]
      BY DEF Range
    <3>2. RenamedOnce(t, names, f) = [t EXCEPT !.args = args]
      BY <2>2 DEF RenamedOnce
    <3> HIDE DEF args, versions
    <3>3. [t EXCEPT !.args = args] = RustType(t.id, args)
      BY <1>1 DEF RustType
    <3> QED
      BY <2>2, <3>1, <3>2, <3>3 DEF Renamings
  <2> QED
    BY <2>1, <2>2
<1>3. Renamings(t, versions) \subseteq Types
  BY VersionsAssumption DEF VersionsAssumption
<1>4. Versions[t] = Types \cap Renamings(t, versions)
  BY VersionsAre
<1> QED
  BY <1>2, <1>3, <1>4

(* What check_type makes of a type is one there is. *)
LEMMA RenamedTypeIs ==
  ASSUME NEW names, AreNames(names), NEW ty \in Types
  PROVE  /\ RenamedType(ty, names) \in Types
         /\ RenamedType(ty, names) =
              IF IsSimple(ty)
              THEN IF ty.id \in DOMAIN names THEN [ty EXCEPT !.id = names[ty.id]] ELSE ty
              ELSE [ty EXCEPT !.args = [i \in DOMAIN ty.args |-> RenamedType(ty.args[i], names)]]
<1> DEFINE Step(t, f) == RenamedOnce(t, names, f)
           H(t, f) == IF Step(t, f) \in Types THEN Step(t, f) ELSE t
           G == [p \in Types \X [Types -> Types] |-> H(p[1], p[2])]
           Is(f) == f = [t \in Types |-> Step(t, f)]
           renamed == CHOOSE f : Is(f)
<1>1. ASSUME NEW t \in Types, NEW f, NEW g, \A i \in DOMAIN t.args : f[t.args[i]] = g[t.args[i]]
      PROVE  H(t, f) = H(t, g)
  <2>1. [i \in DOMAIN t.args |-> f[t.args[i]]] = [i \in DOMAIN t.args |-> g[t.args[i]]]
    BY <1>1
  <2> QED
    BY <2>1 DEF RenamedOnce
<1>2. G \in [Types \X [Types -> Types] -> Types]
  OBVIOUS
<1>3. \A t \in Types : \A f \in [Types -> Types] : G[<<t, f>>] = H(t, f)
  OBVIOUS
<1>4. RenamedType(ty, names) = renamed[ty]
  BY DEF RenamedType, RenamedOnce
<1>5. \A t \in Types : RenamedType(t, names) = renamed[t]
  BY DEF RenamedType, RenamedOnce
<1>6. \A f : Is(f) => \A t \in Types : f[t] = Step(t, f)
  OBVIOUS
<1>7. ASSUME NEW f, NEW t \in Types, \A i \in DOMAIN t.args : f[t.args[i]] \in Versions[t.args[i]]
      PROVE  Step(t, f) \in Versions[t] \cap Types
  BY <1>7, RenamedOnceIs
<1> HIDE DEF Step
<1>8. \A t \in Types : \A f, g \in [Types -> Types] :
        (\A i \in DOMAIN t.args : f[t.args[i]] = g[t.args[i]]) => G[<<t, f>>] = G[<<t, g>>]
  BY <1>1, <1>3
<1>9. \A f : \A t : Step(t, f) \in Types => H(t, f) = Step(t, f)
  OBVIOUS
<1> HIDE DEF G, H
<1>10. PICK f \in [Types -> Types] : f = [t \in Types |-> G[<<t, f>>]]
  <2> DEFINE V == Types
  <2>1. ty \in V /\ G \in [Types \X [Types -> V] -> V]
    BY <1>2
  <2>2. \A t \in Types : \A f, g \in [Types -> V] :
          (\A i \in DOMAIN t.args : f[t.args[i]] = g[t.args[i]]) => G[<<t, f>>] = G[<<t, g>>]
    BY <1>8
  <2> HIDE DEF V
  <2>3. \E f \in [Types -> V] : f = [t \in Types |-> G[<<t, f>>]]
    BY <2>1, <2>2, RecursionOnTypes
  <2> QED
    BY <2>3 DEF V
<1>11. \A t \in Types : f[t] = H(t, f)
  BY <1>3, <1>10
<1>12. Types \subseteq {t \in Types : f[t] \in Versions[t] /\ f[t] = Step(t, f)}
  <2> DEFINE T == {t \in Types : f[t] \in Versions[t] /\ f[t] = Step(t, f)}
  <2>1. ASSUME NEW t \in Types, \A i \in DOMAIN t.args : t.args[i] \in T PROVE t \in T
    BY <1>7, <1>9, <1>11, <2>1
  <2> HIDE DEF T
  <2>2. Types \subseteq T
    BY <2>1, InductionOnTypes
  <2> QED
    BY <2>2 DEF T
<1>13. Is(f)
  BY <1>10, <1>12
<1> HIDE DEF Is
<1>14. Is(renamed)
  BY <1>13
<1> HIDE DEF renamed
<1>15. \A t \in Types : renamed[t] = Step(t, renamed)
  BY <1>6, <1>14
<1>16. Types \subseteq {t \in Types : renamed[t] \in Versions[t] /\ renamed[t] \in Types}
  <2> DEFINE T == {t \in Types : renamed[t] \in Versions[t] /\ renamed[t] \in Types}
  <2>1. ASSUME NEW t \in Types, \A i \in DOMAIN t.args : t.args[i] \in T PROVE t \in T
    <3>1. Step(t, renamed) \in Versions[t] \cap Types
      BY <1>7, <2>1
    <3> QED
      BY <1>15, <3>1
  <2> HIDE DEF T
  <2>2. Types \subseteq T
    BY <2>1, InductionOnTypes
  <2> QED
    BY <2>2 DEF T
<1>17. \A i \in DOMAIN ty.args : RenamedType(ty.args[i], names) = renamed[ty.args[i]]
  BY <1>5, TypesAre
<1>18. [i \in DOMAIN ty.args |-> RenamedType(ty.args[i], names)] = [i \in DOMAIN ty.args |-> renamed[ty.args[i]]]
  BY <1>17
<1>19. renamed[ty] = RenamedOnce(ty, names, renamed)
  BY <1>15 DEF Step
<1> QED
  BY <1>4, <1>16, <1>18, <1>19 DEF RenamedOnce

(* A simple type in what check_type makes of a type has a new name if there is one. *)
LEMMA SimpleAreRenamed ==
  ASSUME NEW names, AreNames(names), NEW ty \in Types,
         NEW u \in TypesIn[RenamedType(ty, names)], IsSimple(u)
  PROVE  \E id : u.id = IF id \in DOMAIN names THEN names[id] ELSE id
<1> DEFINE IsNew(name) == \E id : name = IF id \in DOMAIN names THEN names[id] ELSE id
           T == {t \in Types : \A v \in TypesIn[RenamedType(t, names)] : IsSimple(v) => IsNew(v.id)}
<1>1. ASSUME NEW t \in Types, \A i \in DOMAIN t.args : t.args[i] \in T PROVE t \in T
  <2> DEFINE new == RenamedType(t, names)
  <2>1. /\ new \in Types /\ TypesIn[new] = {new} \cup UNION {TypesIn[new.args[i]] : i \in DOMAIN new.args}
        /\ t = RustType(t.id, t.args)
    BY RenamedTypeIs, TypesInAre, TypesAre
  <2>2. CASE IsSimple(t)
    <3>1. new = IF t.id \in DOMAIN names THEN [t EXCEPT !.id = names[t.id]] ELSE t
      BY <2>2, RenamedTypeIs
    <3>2. new.args = <<>> /\ new.id = IF t.id \in DOMAIN names THEN names[t.id] ELSE t.id
      BY <2>1, <2>2, <3>1 DEF IsSimple, RustType
    <3> HIDE DEF new
    <3>3. TypesIn[new] = {new} /\ IsNew(new.id)
      BY <2>1, <3>2
    <3> QED
      BY <3>3 DEF new
  <2>3. CASE ~IsSimple(t)
    <3> DEFINE args == [i \in DOMAIN t.args |-> RenamedType(t.args[i], names)]
    <3>1. new = [t EXCEPT !.args = args]
      BY <2>3, RenamedTypeIs
    <3>2. new.id = t.id /\ new.args = args
      BY <2>1, <3>1 DEF RustType
    <3>3. DOMAIN args = DOMAIN t.args /\ (t.args = <<>> => args = <<>>) /\ (args = <<>> => t.args = <<>>)
      <4>1. t.args \in Seq(Types)
        BY TypesAre
      <4>2. DOMAIN t.args = 1..Len(t.args) /\ Len(t.args) \in Nat
        BY <4>1
      <4>3. args = <<>> => DOMAIN args = {}
        OBVIOUS
      <4>4. DOMAIN t.args = {} => t.args = <<>>
        BY <4>1, NoneInDomain
      <4> QED
        BY <4>3, <4>4
    <3>4. ~IsSimple(new)
      BY <2>3, <3>2, <3>3 DEF IsSimple, IsSpecial
    <3>5. \A i \in DOMAIN args : \A v \in TypesIn[args[i]] : IsSimple(v) => IsNew(v.id)
      BY <1>1
    <3> HIDE DEF args, new
    <3> SUFFICES ASSUME NEW v \in TypesIn[new], IsSimple(v) PROVE IsNew(v.id)
      BY DEF new
    <3>6. PICK i \in DOMAIN args : v \in TypesIn[args[i]]
      BY <2>1, <3>2, <3>4
    <3> HIDE DEF IsNew
    <3> QED
      BY <3>5, <3>6
  <2> QED
    BY <2>2, <2>3
<1>2. Types \subseteq T
  <2> HIDE DEF T
  <2> QED
    BY <1>1, InductionOnTypes
<1> QED
  BY <1>2

-----------------------------------------------------------------------------
(* What reconcile_aliases makes of items *)

(* An item as it is parsed, whatever its types are renamed to. *)
IsSound(item) ==
  /\ {"kind", "id", "generics"} \subseteq DOMAIN item
  /\ item.kind \in {"struct", "enum", "alias", "const"} /\ IsTyped(item)
  /\ item.generics \in Seq(ToSet(item.generics))
  /\ item.id.serdeRename \/ item.id.renamed = item.id.original
  /\ TypesOfItem(item) \subseteq Types

(* The parsers make sound items, *)
LEMMA ParsedAreSound == \A parsed \in ParsedItems : IsSound(parsed)
<1> SUFFICES ASSUME NEW parsed \in ParsedItems PROVE IsSound(parsed)
  OBVIOUS
<1>1. PICK item \in Parsables, targets \in TargetSets : parsed = Parse(item, targets) /\ ~IsFailure(parsed)
  BY DEF ParsedItems, Results
<1>2. IsParsed(parsed, item)
  BY <1>1, ParsedKeepsNames
<1>3. item.generics \in Seq(ToSet(item.generics))
  BY SyntaxAssumption DEF SyntaxAssumption, Parsables, IsSyntax
<1>4. parsed.id.serdeRename \/ parsed.id.renamed = parsed.id.original
  <2> DEFINE id == GetIdent(item.ident, item.attrs, <<>>)
             renames == GetNameValueMetaItems(item.attrs, "rename", "serde")
  <2>1. RenameAllToCase(item.ident, <<>>) = item.ident
    BY DEF RenameAllToCase
  <2> HIDE DEF renames
  <2>2. id.serdeRename = (renames # <<>>) /\ id.original = item.ident
        /\ (renames = <<>> => id.renamed = item.ident)
    BY <2>1 DEF GetIdent, renames
  <2> QED
    BY <1>2, <2>2 DEF IsParsed
<1>5. TypesOfItem(parsed) \subseteq Types
  BY VersionsAssumption DEF VersionsAssumption
<1> QED
  BY <1>2, <1>3, <1>4, <1>5 DEF IsParsed, IsSound

(* What check_type is called for: the types of fields, of variants and of aliases. *)
RenamedTypes(types, names) == {RenamedType(ty, names) : ty \in types}

LEMMA CheckedFieldsAre ==
  ASSUME NEW fields, AreTyped(fields), NEW names
  PROVE  /\ AreTyped(CheckFields(fields, names))
         /\ TypesOfFields(CheckFields(fields, names)) = RenamedTypes(TypesOfFields(fields), names)
<1> DEFINE checked == CheckFields(fields, names)
<1>1. /\ DOMAIN checked = DOMAIN fields
      /\ \A i \in DOMAIN fields : checked[i] = [fields[i] EXCEPT !.ty = RenamedType(fields[i].ty, names)]
  BY DEF CheckFields
<1>2. \A i \in DOMAIN fields : "ty" \in DOMAIN checked[i] /\ checked[i].ty = RenamedType(fields[i].ty, names)
  BY <1>1 DEF AreTyped
<1> HIDE DEF checked
<1>3. AreTyped(checked) /\ TypesOfFields(checked) = RenamedTypes(TypesOfFields(fields), names)
  BY <1>1, <1>2 DEF AreTyped, TypesOfFields, RenamedTypes
<1> QED
  BY <1>3 DEF checked

LEMMA CheckedVariantIs ==
  ASSUME NEW variant, IsTypedVariant(variant), NEW names
  PROVE  /\ IsTypedVariant(CheckVariant(variant, names))
         /\ TypesOfVariant(CheckVariant(variant, names)) = RenamedTypes(TypesOfVariant(variant), names)
<1> DEFINE checked == CheckVariant(variant, names)
<1>1. CASE variant.kind = "Unit"
  <2>1. checked = variant /\ TypesOfVariant(variant) = {}
    BY <1>1 DEF CheckVariant, TypesOfVariant
  <2> QED
    BY <2>1 DEF RenamedTypes
<1>2. CASE variant.kind = "Tuple"
  <2>1. checked = [variant EXCEPT !.ty = RenamedType(variant.ty, names)]
    BY <1>2 DEF CheckVariant
  <2>2. /\ "kind" \in DOMAIN checked /\ checked.kind = "Tuple"
        /\ "ty" \in DOMAIN checked /\ checked.ty = RenamedType(variant.ty, names)
    BY <1>2, <2>1 DEF IsTypedVariant
  <2> HIDE DEF checked
  <2>3. IsTypedVariant(checked) /\ TypesOfVariant(checked) = {checked.ty} /\ TypesOfVariant(variant) = {variant.ty}
    BY <1>2, <2>2 DEF IsTypedVariant, TypesOfVariant
  <2>4. TypesOfVariant(checked) = RenamedTypes(TypesOfVariant(variant), names)
    BY <2>2, <2>3 DEF RenamedTypes
  <2> QED
    BY <2>3, <2>4 DEF checked
<1>3. CASE variant.kind = "AnonymousStruct"
  <2> DEFINE fields == CheckFields(variant.fields, names)
  <2>1. checked = [variant EXCEPT !.fields = fields]
    BY <1>3 DEF CheckVariant
  <2> HIDE DEF fields
  <2>2. /\ "kind" \in DOMAIN checked /\ checked.kind = "AnonymousStruct"
        /\ "fields" \in DOMAIN checked /\ checked.fields = fields
    BY <1>3, <2>1 DEF IsTypedVariant
  <2>3. AreTyped(fields) /\ TypesOfFields(fields) = RenamedTypes(TypesOfFields(variant.fields), names)
    BY <1>3, CheckedFieldsAre DEF fields, IsTypedVariant
  <2> HIDE DEF checked
  <2>4. /\ IsTypedVariant(checked) /\ TypesOfVariant(checked) = TypesOfFields(fields)
        /\ TypesOfVariant(variant) = TypesOfFields(variant.fields)
    BY <1>3, <2>2, <2>3 DEF IsTypedVariant, TypesOfVariant
  <2> QED
    BY <2>3, <2>4 DEF checked
<1> QED
  BY <1>1, <1>2, <1>3 DEF IsTypedVariant

LEMMA CheckedItemIs ==
  ASSUME NEW item, IsSound(item), NEW names
  PROVE  /\ IsTyped(CheckItem(item, names)) /\ {"kind", "id", "generics"} \subseteq DOMAIN CheckItem(item, names)
         /\ CheckItem(item, names).kind = item.kind /\ CheckItem(item, names).id = item.id
         /\ CheckItem(item, names).generics = item.generics
         /\ TypesOfItem(CheckItem(item, names)) =
              IF item.kind = "const" THEN TypesOfItem(item) ELSE RenamedTypes(TypesOfItem(item), names)
<1> DEFINE checked == CheckItem(item, names)
           Keeping(new) == /\ {"kind", "id", "generics"} \subseteq DOMAIN new
                        /\ new.kind = item.kind /\ new.id = item.id /\ new.generics = item.generics
<1>1. CASE item.kind = "const"
  <2>1. checked = item
    BY <1>1 DEF CheckItem
  <2> QED
    BY <1>1, <2>1 DEF IsSound
<1>2. CASE item.kind = "alias"
  <2>1. checked = [item EXCEPT !.ty = RenamedType(item.ty, names)]
    BY <1>2 DEF CheckItem
  <2>2. Keeping(checked) /\ "ty" \in DOMAIN checked /\ checked.ty = RenamedType(item.ty, names)
    BY <1>2, <2>1 DEF IsSound, IsTyped
  <2> HIDE DEF checked
  <2>3. IsTyped(checked) /\ TypesOfItem(checked) = {checked.ty} /\ TypesOfItem(item) = {item.ty}
    BY <1>2, <2>2 DEF IsTyped, TypesOfItem
  <2>4. TypesOfItem(checked) = RenamedTypes(TypesOfItem(item), names)
    BY <2>2, <2>3 DEF RenamedTypes
  <2> QED
    BY <1>2, <2>2, <2>3, <2>4 DEF checked
<1>3. CASE item.kind = "struct"
  <2> DEFINE fields == CheckFields(item.fields, names)
  <2>1. checked = [item EXCEPT !.fields = fields]
    BY <1>3 DEF CheckItem
  <2>2. AreTyped(fields) /\ TypesOfFields(fields) = RenamedTypes(TypesOfFields(item.fields), names)
    BY <1>3, CheckedFieldsAre DEF IsSound, IsTyped
  <2> HIDE DEF fields
  <2>3. Keeping(checked) /\ "fields" \in DOMAIN checked /\ checked.fields = fields
    BY <1>3, <2>1 DEF IsSound, IsTyped
  <2> HIDE DEF checked
  <2>4. /\ IsTyped(checked) /\ TypesOfItem(checked) = TypesOfFields(fields)
        /\ TypesOfItem(item) = TypesOfFields(item.fields)
    BY <1>3, <2>2, <2>3 DEF IsTyped, TypesOfItem
  <2> QED
    BY <1>3, <2>2, <2>3, <2>4 DEF checked
<1>4. CASE item.kind = "enum"
  <2> DEFINE variants == [i \in DOMAIN item.variants |-> CheckVariant(item.variants[i], names)]
  <2>1. checked = [item EXCEPT !.variants = variants]
    BY <1>4 DEF CheckItem
  <2>2. DOMAIN item.variants = 1..Len(item.variants) /\ Len(item.variants) \in Nat
    BY <1>4, LenProperties DEF IsSound, IsTyped
  <2>3. variants \in Seq(ToSet(variants))
    <3>1. DOMAIN variants = 1..Len(item.variants) /\ variants = [i \in 1..Len(item.variants) |-> variants[i]]
      BY <2>2
    <3> HIDE DEF variants
    <3>2. \A i \in 1..Len(item.variants) : variants[i] \in ToSet(variants)
      BY <3>1 DEF ToSet
    <3> QED
      BY <2>2, <3>1, <3>2
  <2>4. \A i \in DOMAIN item.variants :
          /\ IsTypedVariant(variants[i])
          /\ TypesOfVariant(variants[i]) = RenamedTypes(TypesOfVariant(item.variants[i]), names)
    BY <1>4, CheckedVariantIs DEF IsSound, IsTyped
  <2>5. DOMAIN variants = DOMAIN item.variants
    OBVIOUS
  <2> HIDE DEF variants
  <2>6. Keeping(checked) /\ "variants" \in DOMAIN checked /\ checked.variants = variants
    BY <1>4, <2>1 DEF IsSound, IsTyped
  <2> HIDE DEF checked
  <2>7. IsTyped(checked)
    BY <1>4, <2>3, <2>4, <2>5, <2>6 DEF IsTyped
  <2>8. /\ TypesOfItem(checked) = UNION {TypesOfVariant(variants[i]) : i \in DOMAIN variants}
        /\ TypesOfItem(item) = UNION {TypesOfVariant(item.variants[i]) : i \in DOMAIN item.variants}
    BY <1>4, <2>6 DEF TypesOfItem, ToSet
  <2>9. TypesOfItem(checked) = RenamedTypes(TypesOfItem(item), names)
    BY <2>4, <2>5, <2>8 DEF RenamedTypes
  <2> QED
    BY <1>4, <2>6, <2>7, <2>9 DEF checked
<1> QED
  BY <1>1, <1>2, <1>3, <1>4 DEF IsSound

(* and checking their types keeps them sound. *)
LEMMA CheckedIsSound ==
  ASSUME NEW item, IsSound(item), NEW names, AreNames(names)
  PROVE  IsSound(CheckItem(item, names))
<1>1. \A ty \in Types : RenamedType(ty, names) \in Types
  BY RenamedTypeIs
<1>2. TypesOfItem(CheckItem(item, names)) \subseteq Types
  BY <1>1, CheckedItemIs DEF IsSound, RenamedTypes
<1> QED
  BY <1>2, CheckedItemIs DEF IsSound

-----------------------------------------------------------------------------
(* What reconcile_aliases finds *)

IsGivenName(item, id) == item.kind # "const" /\ item.id.serdeRename /\ item.id.original = id

(* The items of a crate that are renamed from a name, in any order. *)
LEMMA RenamesAre ==
  ASSUME NEW crate \in DOMAIN crates, crates[crate].items \in Seq(ParsedItems), NEW id
  PROVE  /\ Renames(crate, id) \in Seq(ParsedItems)
         /\ ToSet(Renames(crate, id)) = {item \in ToSet(crates[crate].items) : IsGivenName(item, id)}
<1> DEFINE items == crates[crate].items
           Of(kind) == RenamesOfKind(items, id, kind)
           Are(kind) == {item \in ToSet(items) : item.kind = kind /\ item.id.serdeRename /\ item.id.original = id}
<1>1. \A kind : Of(kind) = Chosen(items, Are(kind))
  BY DEF RenamesOfKind
<1>2. Renames(crate, id) = Of("struct") \o Of("enum") \o Of("alias")
  BY DEF Renames
<1>3. \A kind : Are(kind) \subseteq ToSet(items)
  OBVIOUS
<1>4. \A item \in ToSet(items) : item.kind \in {"struct", "enum", "alias", "const"}
  BY ToSetIs, ParsedAreSound DEF IsSound
<1>5. Are("struct") \cup Are("enum") \cup Are("alias") = {item \in ToSet(items) : IsGivenName(item, id)}
  BY <1>4 DEF IsGivenName
<1>6. items \in Seq(ParsedItems)
  OBVIOUS
<1> HIDE DEF Are, Of, items
<1>7. ASSUME NEW kind PROVE Of(kind) \in Seq(ParsedItems) /\ ToSet(Of(kind)) = Are(kind)
  <2> DEFINE A == Are(kind)
  <2>1. Of(kind) = Chosen(items, A) /\ A \subseteq ToSet(items)
    BY <1>1, <1>3
  <2> HIDE DEF A
  <2>2. Chosen(items, A) \in Seq(ParsedItems) /\ ToSet(Chosen(items, A)) = ToSet(items) \cap A
    BY <1>6, ChosenAre
  <2> QED
    BY <2>1, <2>2 DEF A
<1> DEFINE s == Of("struct")
           e == Of("enum")
           a == Of("alias")
<1>8. /\ s \in Seq(ParsedItems) /\ e \in Seq(ParsedItems) /\ a \in Seq(ParsedItems)
      /\ ToSet(s) = Are("struct") /\ ToSet(e) = Are("enum") /\ ToSet(a) = Are("alias")
  BY <1>7
<1>9. Renames(crate, id) = (s \o e) \o a
  BY <1>2
<1> HIDE DEF s, e, a
<1>10. s \o e \in Seq(ParsedItems) /\ ToSet(s \o e) = ToSet(s) \cup ToSet(e)
  BY <1>8, ToSetOfBoth, ConcatProperties
<1> DEFINE both == s \o e
<1>11. both \in Seq(ParsedItems) /\ ToSet(both) = ToSet(s) \cup ToSet(e) /\ Renames(crate, id) = both \o a
  BY <1>9, <1>10
<1> HIDE DEF both
<1>12. both \o a \in Seq(ParsedItems) /\ ToSet(both \o a) = ToSet(both) \cup ToSet(a)
  BY <1>8, <1>11, ToSetOfBoth, ConcatProperties
<1> QED
  BY <1>5, <1>8, <1>11, <1>12 DEF items

(* A name is that of a renamed item, or it is the one in Rust and no item that
   the crate finds under it is renamed. *)
IsNewName(name) ==
  \E c \in DOMAIN crates : \E item \in ToSet(crates[c].items) :
    item.kind # "const" /\ item.id.serdeRename /\ item.id.renamed = name
NoneFound(crate, id) ==
  \A c \in DOMAIN crates : Finds(crate, c, id) =>
    \A item \in ToSet(crates[c].items) : ~IsGivenName(item, id)

AreCrates == \A c \in DOMAIN crates : crates[c].items \in Seq(ParsedItems)

LEMMA ResolvedAre ==
  ASSUME AreCrates, NEW crate \in DOMAIN crates, NEW id, NEW name \in ResolveRenamed(crate, id)
  PROVE  /\ IsNewName(name) \/ (name = id /\ NoneFound(crate, id))
         /\ name \in {id} \cup NewNamesOf(id)
<1> DEFINE RenamedFrom(c) == {item \in ToSet(crates[c].items) : IsGivenName(item, id)}
           renaming == {c \in DOMAIN crates : Renames(c, id) # <<>>}
           through  == renaming \cap {imp.base : imp \in {i \in crates[crate].imports : i.name = id}}
           from     == IF through # {} THEN through ELSE renaming \cap {crate}
<1>1. \A c \in DOMAIN crates : Renames(c, id) \in Seq(ParsedItems) /\ ToSet(Renames(c, id)) = RenamedFrom(c)
  BY RenamesAre DEF AreCrates
<1>2. ResolveRenamed(crate, id) = IF from = {} THEN {id} ELSE {Last(Renames(c, id)).id.renamed : c \in from}
  BY DEF ResolveRenamed
<1>3. \A c \in DOMAIN crates : ToSet(crates[c].items) \subseteq ParsedItems
  BY ToSetIs DEF AreCrates
<1>4. from \subseteq renaming
  OBVIOUS
<1>5. CASE from = {}
  <2>1. renaming \cap {crate} = {} /\ renaming \cap {imp.base : imp \in {i \in crates[crate].imports : i.name = id}} = {}
    BY <1>5
  <2>2. \A c \in DOMAIN crates : Finds(crate, c, id) => Renames(c, id) = <<>>
    BY <2>1 DEF Finds
  <2>3. \A c \in DOMAIN crates : Finds(crate, c, id) => RenamedFrom(c) = {}
    BY <1>1, <2>2, ToSetOfNone
  <2>4. NoneFound(crate, id)
    BY <2>3 DEF NoneFound
  <2> QED
    BY <1>2, <1>5, <2>4
<1>6. CASE from # {}
  <2>1. PICK c \in from : name = Last(Renames(c, id)).id.renamed
    BY <1>2, <1>6
  <2>2. c \in DOMAIN crates /\ Renames(c, id) # <<>>
    BY <1>4, <2>1
  <2> DEFINE item == Last(Renames(c, id))
  <2>3. item \in RenamedFrom(c)
    <3>1. Renames(c, id) \in Seq(RenamedFrom(c))
      BY <1>1, <2>2, ToSetIs
    <3> HIDE DEF RenamedFrom
    <3> QED
      BY <2>2, <3>1, FrontAndLast
  <2> HIDE DEF item
  <2>4. item \in ToSet(crates[c].items) /\ IsGivenName(item, id) /\ name = item.id.renamed
    BY <2>1, <2>3 DEF item
  <2>5. IsNewName(name)
    BY <2>2, <2>4 DEF IsNewName, IsGivenName
  <2>6. item \in ParsedItems
    BY <1>3, <2>2, <2>4
  <2>7. name \in NewNamesOf(id)
    BY <2>4, <2>6 DEF NewNamesOf, ParsedIds, IsGivenName
  <2> QED
    BY <2>5, <2>7
<1> QED
  BY <1>5, <1>6

(* A simple type in an item, once reconciled. *)
IsSettled(item, crate) ==
  item.kind # "const" =>
    \A t \in TypesReferred(item) : IsSimple(t) => IsNewName(t.id) \/ NoneFound(crate, t.id)

LEMMA NewNamesAre ==
  ASSUME AreCrates, NEW crate \in DOMAIN crates, NEW names \in NewNames(crate)
  PROVE  AreNames(names)
BY ResolvedAre DEF NewNames, AreNames

LEMMA CheckedIsSettled ==
  ASSUME AreCrates, NEW crate \in DOMAIN crates, NEW names \in NewNames(crate),
         NEW item, IsSound(item)
  PROVE  IsSettled(CheckItem(item, names), crate)
<1> DEFINE checked == CheckItem(item, names)
           known == {i.id.original : i \in UNION {ToSet(crates[c].items) : c \in DOMAIN crates}}
<1>1. /\ DOMAIN names = known /\ \A id \in known : names[id] \in ResolveRenamed(crate, id)
      /\ AreNames(names)
  BY NewNamesAre DEF NewNames
<1> SUFFICES ASSUME item.kind # "const", NEW t \in TypesReferred(checked), IsSimple(t)
             PROVE  IsNewName(t.id) \/ NoneFound(crate, t.id)
  BY CheckedItemIs DEF IsSettled
<1>2. PICK ty \in TypesOfItem(item) : t \in TypesIn[RenamedType(ty, names)]
  BY CheckedItemIs DEF TypesReferred, RenamedTypes
<1>3. ty \in Types
  BY DEF IsSound
<1>4. PICK id : t.id = IF id \in DOMAIN names THEN names[id] ELSE id
  BY <1>1, <1>2, <1>3, SimpleAreRenamed
<1>5. CASE id \in known
  BY <1>1, <1>4, <1>5, ResolvedAre
<1>6. CASE id \notin known
  <2>1. t.id = id
    BY <1>1, <1>4, <1>6
  <2>2. \A c \in DOMAIN crates : \A i \in ToSet(crates[c].items) : ~IsGivenName(i, id)
    BY <1>6 DEF IsGivenName
  <2> QED
    BY <2>1, <2>2 DEF NoneFound
<1> QED
  BY <1>5, <1>6

(* After reconcile_aliases, and until the run ends. *)
SettledInv ==
  phase \in {"reconciling", "generating", "writing"} \/ Generated =>
    \A c \in DOMAIN crates : \A item \in ToSet(crates[c].items) : IsSound(item) /\ IsSettled(item, c)

(* reconcile_aliases settles all items of all crates, *)
LEMMA ReconcileSettles ==
  ASSUME DataInv, Reconcile
  PROVE  SettledInv'
<1>1. AreCrates /\ phase = "parsing" /\ \A c \in DOMAIN crates : {"items", "imports"} \subseteq DOMAIN crates[c]
  BY DEF DataInv, Reconcile, Walking, AreCrates, NoData
<1>2. PICK names : /\ crates' = ReconcileAliases(names)
                   /\ \A c \in DOMAIN crates : names[c] \in NewNames(c)
  BY DEF Reconcile
<1>3. DOMAIN crates' = DOMAIN crates
  BY <1>2 DEF ReconcileAliases
<1> DEFINE Checked(c) == [i \in DOMAIN crates[c].items |-> CheckItem(crates[c].items[i], names[c])]
<1>4. ASSUME NEW c \in DOMAIN crates PROVE crates'[c].items = Checked(c) /\ crates'[c].imports = crates[c].imports
  <2>1. crates'[c] = [crates[c] EXCEPT !.items = Checked(c)]
    BY <1>2 DEF ReconcileAliases
  <2> HIDE DEF Checked
  <2> QED
    BY <1>1, <2>1
<1>5. ASSUME NEW c \in DOMAIN crates
      PROVE  /\ \A i \in ToSet(crates[c].items) : IsSound(i)
             /\ ToSet(crates'[c].items) = {CheckItem(i, names[c]) : i \in ToSet(crates[c].items)}
  <2>1. ToSet(crates[c].items) \subseteq ParsedItems
    BY <1>1, ToSetIs DEF AreCrates
  <2>2. ToSet(Checked(c)) = {CheckItem(i, names[c]) : i \in ToSet(crates[c].items)}
    BY DEF ToSet
  <2> QED
    BY <1>4, <2>1, <2>2, ParsedAreSound
<1> HIDE DEF Checked
<1>6. ASSUME NEW name, IsNewName(name) PROVE IsNewName(name)'
  <2>1. PICK c \in DOMAIN crates :
          \E i \in ToSet(crates[c].items) : i.kind # "const" /\ i.id.serdeRename /\ i.id.renamed = name
    BY <1>6 DEF IsNewName
  <2>2. PICK item \in ToSet(crates[c].items) :
          item.kind # "const" /\ item.id.serdeRename /\ item.id.renamed = name
    BY <2>1
  <2> DEFINE checked == CheckItem(item, names[c])
  <2>3. checked \in ToSet(crates'[c].items) /\ checked.kind = item.kind /\ checked.id = item.id
    BY <1>5, CheckedItemIs
  <2> HIDE DEF checked
  <2> QED
    BY <1>3, <2>2, <2>3 DEF IsNewName
<1>7. ASSUME NEW crate \in DOMAIN crates, NEW id, NoneFound(crate, id) PROVE NoneFound(crate, id)'
  <2> SUFFICES ASSUME NEW c \in DOMAIN crates, Finds(crate, c, id)', NEW checked \in ToSet(crates'[c].items)
               PROVE  ~IsGivenName(checked, id)
    BY <1>3 DEF NoneFound
  <2>1. Finds(crate, c, id)
    BY <1>4 DEF Finds
  <2>2. PICK item \in ToSet(crates[c].items) : checked = CheckItem(item, names[c])
    BY <1>5
  <2>3. checked.kind = item.kind /\ checked.id = item.id
    BY <1>5, <2>2, CheckedItemIs
  <2>4. ~IsGivenName(item, id)
    BY <1>7, <2>1 DEF NoneFound
  <2> QED
    BY <2>3, <2>4 DEF IsGivenName
<1>8. ASSUME NEW c \in DOMAIN crates, NEW checked \in ToSet(crates'[c].items)
      PROVE  IsSound(checked) /\ IsSettled(checked, c)'
  <2>1. PICK item \in ToSet(crates[c].items) : checked = CheckItem(item, names[c])
    BY <1>5
  <2>2. IsSound(item) /\ AreNames(names[c])
    BY <1>1, <1>2, <1>5, NewNamesAre
  <2>3. IsSettled(checked, c)
    BY <1>1, <1>2, <2>1, <2>2, CheckedIsSettled
  <2>4. IsSettled(checked, c)'
    BY <1>6, <1>7, <2>3 DEF IsSettled
  <2> QED
    BY <2>1, <2>2, <2>4, CheckedIsSound
<1> QED
  BY <1>3, <1>8 DEF SettledInv

(* and nothing changes them after it. *)
LEMMA SettledStays ==
  ASSUME SettledInv, UNCHANGED <<world, run, crates>>,
         phase \in {"reconciling", "generating", "writing"} \/ phase' \notin {"reconciling", "generating", "writing"},
         Generated' => phase \in {"reconciling", "generating", "writing"} \/ Generated
  PROVE  SettledInv'
<1>1. crates' = crates
  OBVIOUS
<1>2. \A name : IsNewName(name)' = IsNewName(name)
  BY <1>1 DEF IsNewName
<1>3. \A crate, id : NoneFound(crate, id)' = NoneFound(crate, id)
  BY <1>1 DEF NoneFound, Finds
<1>4. \A item, crate : IsSettled(item, crate)' = IsSettled(item, crate)
  BY <1>2, <1>3 DEF IsSettled
<1> QED
  BY <1>1, <1>4 DEF SettledInv

-----------------------------------------------------------------------------
(* What texts refer to *)

(* What a text refers to is in a set. *)
RefersOnly(output, set) == output.refs \subseteq set

LEMMA RefersOnlyIs ==
  /\ \A set : RefersOnly(Empty, set)
  /\ \A parts, generics, set :
       /\ RefersOnly(Declares(parts, generics), set)
       /\ <<parts, Len(generics)>> \in set => RefersOnly(RefersTo(parts, generics), set)
  /\ \A helpers, set : /\ RefersOnly(Needs(helpers), set) /\ RefersOnly(Records(helpers), set)
                       /\ RefersOnly(Requires(helpers), set)
  /\ \A fate, set : RefersOnly(Fails(fate), set)
BY DEF RefersOnly, Empty, Declares, RefersTo, Needs, Records, Requires, Both, Fails

LEMMA TextsReferOnly ==
  /\ \A seq, set : (\A i \in DOMAIN seq : RefersOnly(seq[i], set)) => RefersOnly(Texts(seq), set)
  /\ \A a, b, set : RefersOnly(a, set) /\ RefersOnly(b, set) => RefersOnly(Both(a, b), set)
<1>1. \A seq : Texts(seq).refs = UNION {seq[i].refs : i \in DOMAIN seq}
  BY DEF Texts
<1>2. \A a, b : Both(a, b).refs = a.refs \cup b.refs
  BY DEF Both
<1> QED
  BY <1>1, <1>2 DEF RefersOnly

LEMMA ThreeReferOnly ==
  ASSUME NEW a, NEW b, NEW c, NEW set, RefersOnly(a, set), RefersOnly(b, set), RefersOnly(c, set)
  PROVE  RefersOnly(Texts(<<a, b, c>>), set)
<1> DEFINE seq == <<a, b, c>>
<1>1. DOMAIN seq = {1, 2, 3} /\ seq[1] = a /\ seq[2] = b /\ seq[3] = c
  OBVIOUS
<1> HIDE DEF seq
<1>2. RefersOnly(Texts(seq), set)
  BY <1>1, TextsReferOnly
<1> QED
  BY <1>2 DEF seq

LEMMA FourReferOnly ==
  ASSUME NEW a, NEW b, NEW c, NEW d, NEW set,
         RefersOnly(a, set), RefersOnly(b, set), RefersOnly(c, set), RefersOnly(d, set)
  PROVE  RefersOnly(Texts(<<a, b, c, d>>), set)
<1> DEFINE seq == <<a, b, c, d>>
<1>1. DOMAIN seq = {1, 2, 3, 4} /\ seq[1] = a /\ seq[2] = b /\ seq[3] = c /\ seq[4] = d
  OBVIOUS
<1> HIDE DEF seq
<1>2. RefersOnly(Texts(seq), set)
  BY <1>1, TextsReferOnly
<1> QED
  BY <1>2 DEF seq

LEMMA FiveReferOnly ==
  ASSUME NEW a, NEW b, NEW c, NEW d, NEW e, NEW set, RefersOnly(a, set), RefersOnly(b, set),
         RefersOnly(c, set), RefersOnly(d, set), RefersOnly(e, set)
  PROVE  RefersOnly(Texts(<<a, b, c, d, e>>), set)
<1> DEFINE seq == <<a, b, c, d, e>>
<1>1. /\ DOMAIN seq = {1, 2, 3, 4, 5}
      /\ seq[1] = a /\ seq[2] = b /\ seq[3] = c /\ seq[4] = d /\ seq[5] = e
  OBVIOUS
<1> HIDE DEF seq
<1>2. RefersOnly(Texts(seq), set)
  BY <1>1, TextsReferOnly
<1> QED
  BY <1>2 DEF seq

LEMMA SixReferOnly ==
  ASSUME NEW a, NEW b, NEW c, NEW d, NEW e, NEW f, NEW set, RefersOnly(a, set), RefersOnly(b, set),
         RefersOnly(c, set), RefersOnly(d, set), RefersOnly(e, set), RefersOnly(f, set)
  PROVE  RefersOnly(Texts(<<a, b, c, d, e, f>>), set)
<1> DEFINE seq == <<a, b, c, d, e, f>>
<1>1. /\ DOMAIN seq = {1, 2, 3, 4, 5, 6}
      /\ seq[1] = a /\ seq[2] = b /\ seq[3] = c /\ seq[4] = d /\ seq[5] = e /\ seq[6] = f
  OBVIOUS
<1> HIDE DEF seq
<1>2. RefersOnly(Texts(seq), set)
  BY <1>1, TextsReferOnly
<1> QED
  BY <1>2 DEF seq

-----------------------------------------------------------------------------
(* Types that are neither mapped nor parameters, and how they are referred to. *)
UserTypes(cfg, types, parameters) ==
  {t \in types : ~IsSpecial(t) /\ <<t.id>> \notin DOMAIN cfg.mappings /\ t.id \notin parameters}
Referred(prefix, types) == {<<<<prefix, t.id>>, Len(t.args)>> : t \in types}

(* A formatted type refers to the user types in it. *)
LEMMA UserTypesRefer ==
  ASSUME NEW cfg, NEW ty \in Types, NEW prefix, NEW generics,
         NEW mapped \in {DOMAIN cfg.mappings, UserMappings(cfg)}
  PROVE  FormatUserTypes(Formatted(ty, mapped), prefix, mapped, generics).refs
           \subseteq Referred(prefix, UserTypes(cfg, TypesIn[ty], ToSet(generics)))
<1> DEFINE types == Formatted(ty, mapped)
           users == {u \in types : /\ ~IsSpecial(u) /\ Key(u) \notin mapped
                                   /\ u.id \notin ToSet(generics)}
<1>1. FormatUserTypes(types, prefix, mapped, generics).refs = Referred(prefix, users)
  BY DEF FormatUserTypes, Referred, Empty
<1>2. types \subseteq TypesIn[ty]
  BY FormattedAre
<1>3. ASSUME NEW u \in users PROVE u \in UserTypes(cfg, TypesIn[ty], ToSet(generics))
  <2>1. Key(u) = <<u.id>> /\ <<u.id>> \notin mapped
    BY DEF Key
  <2>2. Head(<<u.id>>) = u.id
    OBVIOUS
  <2>3. <<u.id>> \notin DOMAIN cfg.mappings
    BY <2>1, <2>2 DEF UserMappings, IsSpecial
  <2> QED
    BY <1>2, <2>3 DEF UserTypes
<1> HIDE DEF users, types
<1>4. Referred(prefix, users) \subseteq Referred(prefix, UserTypes(cfg, TypesIn[ty], ToSet(generics)))
  BY <1>3 DEF Referred
<1> QED
  BY <1>1, <1>4 DEF types

(* A parameter of an item that occurs in a type is among those given. *)
KnowsParameters(generics, ty, item) ==
  \A t \in TypesIn[ty] : ~IsSpecial(t) /\ t.id \in ParametersOf(item) => t.id \in ToSet(generics)

(* What an item refers to that it does not declare itself. *)
TypesOfOthers(cfg, item) == UserTypes(cfg, TypesReferred(item), ParametersOf(item))

(* If the parameters are known, these are types of others. *)
LEMMA KnownRefer ==
  ASSUME NEW cfg, NEW prefix, NEW item, NEW ty \in TypesOfItem(item), NEW generics,
         KnowsParameters(generics, ty, item)
  PROVE  Referred(prefix, UserTypes(cfg, TypesIn[ty], ToSet(generics)))
           \subseteq Referred(prefix, TypesOfOthers(cfg, item))
<1>1. TypesIn[ty] \subseteq TypesReferred(item)
  BY DEF TypesReferred
<1>2. UserTypes(cfg, TypesIn[ty], ToSet(generics)) \subseteq TypesOfOthers(cfg, item)
  BY <1>1 DEF UserTypes, TypesOfOthers, KnowsParameters
<1> QED
  BY <1>2 DEF Referred

(* An item knows its own parameters, and if there are none, none need be known, *)
LEMMA KnowsOwn ==
  ASSUME NEW item, NEW ty
  PROVE  /\ item.kind # "const" => KnowsParameters(item.generics, ty, item)
         /\ item.kind = "const" \/ item.generics = <<>> => KnowsParameters(<<>>, ty, item)
BY ToSetOfNone DEF KnowsParameters, ParametersOf

LEMMA GenericsInAre ==
  ASSUME NEW fields, NEW generics, generics \in Seq(ToSet(generics))
  PROVE  /\ ToSet(GenericsIn(fields, generics)) =
              {g \in ToSet(generics) : \E i \in DOMAIN fields : ContainsType(fields[i].ty, g)}
         /\ generics = <<>> \/ fields = <<>> => GenericsIn(fields, generics) = <<>>
<1> DEFINE used == {g \in ToSet(generics) : \E i \in DOMAIN fields : ContainsType(fields[i].ty, g)}
<1>1. GenericsIn(fields, generics) = Chosen(generics, used) /\ used \subseteq ToSet(generics)
  BY DEF GenericsIn
<1>2. fields = <<>> => used = {}
  <2>1. fields = <<>> => DOMAIN fields = {}
    OBVIOUS
  <2> QED
    BY <2>1
<1> HIDE DEF used
<1>3. /\ ToSet(Chosen(generics, used)) = used
      /\ Chosen(generics, used) \in Seq(ToSet(generics))
  BY <1>1, ChosenAre
<1>4. generics = <<>> => Chosen(generics, used) = <<>>
  BY ChosenOfNone
<1>5. used = {} => Chosen(generics, used) = <<>>
  BY <1>3, ToSetIs
<1> QED
  BY <1>1, <1>2, <1>3, <1>4, <1>5 DEF used

(* and the struct for an anonymous variant knows those in its fields. *)
LEMMA KnowsThoseInFields ==
  ASSUME NEW item, item.kind # "const", item.generics \in Seq(ToSet(item.generics)),
         NEW fields, NEW i \in DOMAIN fields
  PROVE  KnowsParameters(GenericsIn(fields, item.generics), fields[i].ty, item)
BY GenericsInAre DEF KnowsParameters, ParametersOf, ContainsType

LEMMA SoundIsWhole == \A item : IsSound(item) => IsWhole(item)
BY DEF IsSound, IsTyped, IsWhole

(* The structs for the variants of an enum: their types are those of the enum,
   they have the parameters that occur in them, and each variant has one. *)
LEMMA AnonymousStructsAre ==
  ASSUME NEW enum, enum.kind = "enum", IsSound(enum)
  PROVE  /\ \A i \in DOMAIN AnonymousStructs(enum) :
              LET struct == AnonymousStructs(enum)[i]
              IN  /\ \A ty \in TypesOfFields(struct.fields) :
                       ty \in TypesOfItem(enum) /\ KnowsParameters(struct.generics, ty, enum)
                  /\ struct.fields = <<>> \/ enum.generics = <<>> => struct.generics = <<>>
         /\ \A variant \in ToSet(enum.variants) : variant.kind = "AnonymousStruct" =>
              \E i \in DOMAIN AnonymousStructs(enum) :
                /\ AnonymousStructs(enum)[i].name = InnerName(variant)
                /\ AnonymousStructs(enum)[i].generics = GenericsIn(variant.fields, enum.generics)
<1> DEFINE variants == AnonymousVariants(enum)
           structs == AnonymousStructs(enum)
           kept == {variant \in ToSet(enum.variants) : variant.kind = "AnonymousStruct"}
<1>1. /\ DOMAIN structs = DOMAIN variants
      /\ \A i \in DOMAIN variants :
           structs[i] = [name |-> InnerName(variants[i]), fields |-> variants[i].fields,
                         generics |-> GenericsIn(variants[i].fields, enum.generics)]
  BY DEF AnonymousStructs
<1>2. \A i \in DOMAIN variants : TypesOfFields(variants[i].fields) \subseteq TypesOfItem(enum)
  BY SoundIsWhole, AnonymousAre
<1>3. variants = Chosen(enum.variants, kept) /\ enum.variants \in Seq(ToSet(enum.variants))
  BY DEF AnonymousVariants, IsSound, IsTyped
<1>4. kept \subseteq ToSet(variants)
  <2>1. kept \subseteq ToSet(enum.variants)
    OBVIOUS
  <2> HIDE DEF kept, variants
  <2> QED
    BY <1>3, <2>1, ChosenAre
<1>5. enum.generics \in Seq(ToSet(enum.generics)) /\ enum.kind # "const"
  BY DEF IsSound
<1> HIDE DEF variants, structs, kept
<1>6. ASSUME NEW i \in DOMAIN structs
      PROVE  /\ \A ty \in TypesOfFields(structs[i].fields) :
                  ty \in TypesOfItem(enum) /\ KnowsParameters(structs[i].generics, ty, enum)
             /\ structs[i].fields = <<>> \/ enum.generics = <<>> => structs[i].generics = <<>>
  <2> DEFINE fields == variants[i].fields
             generics == GenericsIn(fields, enum.generics)
  <2>1. structs[i].fields = fields /\ structs[i].generics = generics
    BY <1>1
  <2> HIDE DEF fields, generics
  <2>2. TypesOfFields(fields) \subseteq TypesOfItem(enum)
    BY <1>1, <1>2 DEF fields
  <2>3. \A j \in DOMAIN fields : KnowsParameters(generics, fields[j].ty, enum)
    BY <1>5, KnowsThoseInFields DEF generics
  <2>4. fields = <<>> \/ enum.generics = <<>> => generics = <<>>
    BY <1>5, GenericsInAre DEF generics
  <2> QED
    BY <2>1, <2>2, <2>3, <2>4 DEF TypesOfFields
<1>7. ASSUME NEW variant \in ToSet(enum.variants), variant.kind = "AnonymousStruct"
      PROVE  \E i \in DOMAIN structs :
               /\ structs[i].name = InnerName(variant)
               /\ structs[i].generics = GenericsIn(variant.fields, enum.generics)
  <2>1. PICK i \in DOMAIN variants : variants[i] = variant
    BY <1>4, <1>7 DEF kept, ToSet
  <2> QED
    BY <1>1, <2>1
<1> QED
  BY <1>6, <1>7 DEF structs

(* What variants refer to: their types, and the structs for the anonymous ones. *)
Inner(enum, variant, parts) ==
  <<parts \o InnerName(variant), Len(GenericsIn(variant.fields, enum.generics))>>
DeclaresInner(enum, parts, names) ==
  \A variant \in ToSet(enum.variants) :
    variant.kind = "AnonymousStruct" => Inner(enum, variant, parts) \in names

(* Fields refer to what their types do. *)
LEMMA FieldsRefer ==
  ASSUME NEW language, NEW fields, NEW format, NEW set,
         \A i \in DOMAIN fields : RefersOnly(format[fields[i].ty], set)
  PROVE  RefersOnly(WriteFields(language, fields, format), set)
<1> DEFINE seq == [i \in DOMAIN fields |->
                     IF TypeOverrides(fields[i], language) # {} THEN Empty
                     ELSE format[fields[i].ty]]
<1>1. WriteFields(language, fields, format) = Texts(seq)
  BY DEF WriteFields
<1>2. \A i \in DOMAIN seq : RefersOnly(seq[i], set)
  BY RefersOnlyIs
<1> HIDE DEF seq
<1> QED
  BY <1>1, <1>2, TextsReferOnly

LEMMA VariantsAre ==
  ASSUME NEW enum, enum.kind = "enum", IsSound(enum), NEW i \in DOMAIN enum.variants
  PROVE  /\ enum.variants[i] \in ToSet(enum.variants)
         /\ enum.variants[i].kind \in {"Unit", "Tuple", "AnonymousStruct"}
         /\ enum.variants[i].kind = "Tuple" => enum.variants[i].ty \in TypesOfItem(enum)
         /\ enum.variants[i].kind = "AnonymousStruct" =>
              TypesOfFields(enum.variants[i].fields) \subseteq TypesOfItem(enum)
<1> DEFINE variant == enum.variants[i]
<1>1. variant \in ToSet(enum.variants) /\ variant.kind \in {"Unit", "Tuple", "AnonymousStruct"}
  BY DEF ToSet, IsSound, IsTyped, IsTypedVariant
<1>2. TypesOfVariant(variant) \subseteq TypesOfItem(enum)
  BY <1>1 DEF TypesOfItem
<1> HIDE DEF variant
<1>3. /\ variant.kind = "Tuple" => TypesOfVariant(variant) = {variant.ty}
      /\ variant.kind = "AnonymousStruct" => TypesOfVariant(variant) = TypesOfFields(variant.fields)
  BY DEF TypesOfVariant
<1> QED
  BY <1>1, <1>2, <1>3 DEF variant

LEMMA VariantsRefer ==
  ASSUME NEW enum, enum.kind = "enum", IsSound(enum), NEW parts, NEW format, NEW set,
         \A ty \in TypesOfItem(enum) : RefersOnly(format[ty], set),
         DeclaresInner(enum, parts, set)
  PROVE  RefersOnly(WriteVariants(enum, parts, format), set)
<1> DEFINE Of(variant) ==
             CASE variant.kind = "Unit"  -> Empty
               [] variant.kind = "Tuple" -> format[variant.ty]
               [] OTHER -> RefersTo(parts \o InnerName(variant),
                                    GenericsIn(variant.fields, enum.generics))
           seq == [i \in DOMAIN enum.variants |-> Of(enum.variants[i])]
<1>1. WriteVariants(enum, parts, format) = Texts(seq)
  BY DEF WriteVariants
<1>2. ASSUME NEW variant \in ToSet(enum.variants),
             variant.kind = "Tuple" => variant.ty \in TypesOfItem(enum),
             variant.kind \in {"Unit", "Tuple", "AnonymousStruct"}
      PROVE  RefersOnly(Of(variant), set)
  <2>1. CASE variant.kind = "Unit"
    <3>1. Of(variant) = Empty
      BY <2>1
    <3> HIDE DEF Of
    <3> QED
      BY <3>1, RefersOnlyIs
  <2>2. CASE variant.kind = "Tuple"
    <3>1. Of(variant) = format[variant.ty]
      BY <2>2
    <3> HIDE DEF Of
    <3> QED
      BY <1>2, <2>2, <3>1
  <2>3. CASE variant.kind = "AnonymousStruct"
    <3> DEFINE ref == RefersTo(parts \o InnerName(variant), GenericsIn(variant.fields, enum.generics))
    <3>1. Of(variant) = ref
      BY <2>3
    <3>2. Inner(enum, variant, parts) \in set
      BY <2>3 DEF DeclaresInner
    <3>3. RefersOnly(ref, set)
      BY <3>2, RefersOnlyIs DEF Inner
    <3> HIDE DEF Of, ref
    <3> QED
      BY <3>1, <3>3
  <2> HIDE DEF Of
  <2> QED
    BY <1>2, <2>1, <2>2, <2>3
<1>3. \A i \in DOMAIN seq : RefersOnly(seq[i], set)
  <2> HIDE DEF Of
  <2> QED
    BY <1>2, VariantsAre
<1> HIDE DEF seq
<1> QED
  BY <1>1, <1>3, TextsReferOnly

DeclaresAs(output, parts, generics) == <<parts, Len(generics)>> \in output.names
(* A text refers to what it declares itself, or to some types of others. *)
RefersToOthers(output, prefix, cfg, item) ==
  RefersOnly(output, output.names \cup Referred(prefix, TypesOfOthers(cfg, item)))

LEMMA DeclaresAsIs == \A parts, generics : DeclaresAs(Declares(parts, generics), parts, generics)
BY TextIs DEF DeclaresAs

(* The structs for the variants of an enum, if each refers to the types of its
   fields, and declares itself with its parameters. *)
LEMMA StructsRefer ==
  ASSUME NEW enum, enum.kind = "enum", IsSound(enum), NEW parts, NEW set, NEW seq,
         DOMAIN seq = DOMAIN AnonymousStructs(enum),
         \A i \in DOMAIN seq :
           LET struct == AnonymousStructs(enum)[i]
           IN  RefersOnly(seq[i], set) /\ DeclaresAs(seq[i], parts \o struct.name, struct.generics)
  PROVE  RefersOnly(Texts(seq), set) /\ DeclaresInner(enum, parts, Texts(seq).names)
<1> DEFINE structs == AnonymousStructs(enum)
<1>1. RefersOnly(Texts(seq), set)
  BY TextsReferOnly
<1>2. ASSUME NEW variant \in ToSet(enum.variants), variant.kind = "AnonymousStruct"
      PROVE  Inner(enum, variant, parts) \in Texts(seq).names
  <2>1. PICK i \in DOMAIN structs : /\ structs[i].name = InnerName(variant)
                                    /\ structs[i].generics = GenericsIn(variant.fields, enum.generics)
    BY <1>2, AnonymousStructsAre
  <2>2. Inner(enum, variant, parts) \in seq[i].names
    BY <2>1 DEF DeclaresAs, Inner
  <2> QED
    BY <2>2, TextsOfAll
<1> QED
  BY <1>1, <1>2 DEF DeclaresInner

-----------------------------------------------------------------------------
(* What Swift refers to *)

LEMMA SwiftTypesRefer ==
  ASSUME NEW cfg, NEW item, NEW ty \in TypesOfItem(item), ty \in Types, NEW generics,
         KnowsParameters(generics, ty, item), NEW set, Referred(cfg.prefix, TypesOfOthers(cfg, item)) \subseteq set
  PROVE  RefersOnly(SwiftFormatType(cfg, generics, ty), set)
<1> DEFINE mapped == UserMappings(cfg)
           types == Formatted(ty, mapped)
           users == FormatUserTypes(types, cfg.prefix, mapped, generics)
           void == "()" \in Special(types, mapped)
           time == "OffsetDateTime" \in Special(types, mapped)
<1>1. SwiftFormatType(cfg, generics, ty) =
        Texts(<<users, IF void THEN Requires({"CodableVoid"}) ELSE Empty, IF time THEN Fails("error") ELSE Empty>>)
  BY DEF SwiftFormatType
<1>2. mapped \in {DOMAIN cfg.mappings, UserMappings(cfg)}
  OBVIOUS
<1>3. RefersOnly(users, set)
  <2> HIDE DEF mapped
  <2>1. users.refs \subseteq Referred(cfg.prefix, UserTypes(cfg, TypesIn[ty], ToSet(generics)))
    BY <1>2, UserTypesRefer
  <2> QED
    BY <2>1, KnownRefer DEF RefersOnly
<1> HIDE DEF users, void, time
<1>4. /\ RefersOnly(IF void THEN Requires({"CodableVoid"}) ELSE Empty, set)
      /\ RefersOnly(IF time THEN Fails("error") ELSE Empty, set)
  BY RefersOnlyIs
<1> QED
  BY <1>1, <1>3, <1>4, ThreeReferOnly

LEMMA SwiftStructRefers ==
  ASSUME NEW cfg, NEW parts, NEW fields, NEW generics, NEW set,
         \A ty \in TypesOfFields(fields) : RefersOnly(SwiftFormatType(cfg, generics, ty), set)
  PROVE  /\ RefersOnly(SwiftWriteStructNamed(cfg, parts, fields, generics), set)
         /\ DeclaresAs(SwiftWriteStructNamed(cfg, parts, fields, generics), parts, generics)
<1> DEFINE types == TypesOfFields(fields)
           format == SwiftFormatTypes(cfg, generics, types)
           written == WriteFields("swift", fields, format)
<1>1. types = TypesOfFields(fields)
  BY Zenon DEF TypesOfFields
<1>2. \A ty \in types : format[ty] = SwiftFormatType(cfg, generics, ty)
  BY DEF SwiftFormatTypes
<1>3. \A i \in DOMAIN fields : fields[i].ty \in types
  BY DEF TypesOfFields
<1> HIDE DEF types, format
<1>4. RefersOnly(written, set)
  BY <1>1, <1>2, <1>3, FieldsRefer
<1> HIDE DEF written
<1>5. SwiftWriteStructNamed(cfg, parts, fields, generics) = Both(Declares(parts, generics), written)
  BY DEF SwiftWriteStructNamed, written, format, types
<1>6. RefersOnly(Both(Declares(parts, generics), written), set)
  BY <1>4, RefersOnlyIs, TextsReferOnly
<1>7. DeclaresAs(Both(Declares(parts, generics), written), parts, generics)
  BY TextIs, BothAre DEF DeclaresAs
<1> QED
  BY <1>5, <1>6, <1>7

LEMMA SwiftAnonymousRefer ==
  ASSUME NEW cfg, NEW enum, enum.kind = "enum", IsSound(enum), NEW parts, NEW set,
         Referred(cfg.prefix, TypesOfOthers(cfg, enum)) \subseteq set
  PROVE  /\ RefersOnly(SwiftWriteAnonymousStructs(cfg, enum, parts), set)
         /\ DeclaresInner(enum, parts, SwiftWriteAnonymousStructs(cfg, enum, parts).names)
<1> DEFINE structs == AnonymousStructs(enum)
           seq == [i \in DOMAIN structs |->
                     SwiftWriteStructNamed(cfg, parts \o structs[i].name, structs[i].fields,
                                           structs[i].generics)]
<1>1. SwiftWriteAnonymousStructs(cfg, enum, parts) = Texts(seq)
  BY DEF SwiftWriteAnonymousStructs
<1>2. ASSUME NEW i \in DOMAIN structs
      PROVE  /\ RefersOnly(seq[i], set)
             /\ DeclaresAs(seq[i], parts \o structs[i].name, structs[i].generics)
  <2> DEFINE fields == structs[i].fields
             generics == structs[i].generics
             name == parts \o structs[i].name
  <2>1. \A ty \in TypesOfFields(fields) : ty \in TypesOfItem(enum) /\ KnowsParameters(generics, ty, enum)
    BY AnonymousStructsAre
  <2>2. seq[i] = SwiftWriteStructNamed(cfg, name, fields, generics)
    OBVIOUS
  <2> HIDE DEF fields, generics, name, structs, seq
  <2>3. \A ty \in TypesOfFields(fields) : RefersOnly(SwiftFormatType(cfg, generics, ty), set)
    BY <2>1, SwiftTypesRefer DEF IsSound
  <2>4. RefersOnly(seq[i], set) /\ DeclaresAs(seq[i], name, generics)
    BY <2>2, <2>3, SwiftStructRefers
  <2> QED
    BY <2>4 DEF name, generics
<1>3. DOMAIN seq = DOMAIN structs
  OBVIOUS
<1> HIDE DEF seq
<1>4. RefersOnly(Texts(seq), set) /\ DeclaresInner(enum, parts, Texts(seq).names)
  BY <1>2, <1>3, StructsRefer
<1> QED
  BY <1>1, <1>4

LEMMA SwiftEnumRefers ==
  ASSUME NEW cfg, NEW enum, enum.kind = "enum", IsSound(enum), NEW parts, NEW set,
         Referred(cfg.prefix, TypesOfOthers(cfg, enum)) \subseteq set, DeclaresInner(enum, parts, set)
  PROVE  RefersOnly(WriteVariants(enum, parts, SwiftFormatTypes(cfg, enum.generics, TypesOfItem(enum))), set)
<1> DEFINE types == TypesOfItem(enum)
           format == SwiftFormatTypes(cfg, enum.generics, types)
<1>1. types = TypesOfItem(enum)
  BY Zenon DEF TypesOfItem, TypesOfFields, TypesOfVariant, ToSet
<1>2. \A ty \in types : format[ty] = SwiftFormatType(cfg, enum.generics, ty)
  BY DEF SwiftFormatTypes
<1> HIDE DEF types
<1>3. \A ty \in TypesOfItem(enum) : RefersOnly(SwiftFormatType(cfg, enum.generics, ty), set)
  BY KnowsOwn, SwiftTypesRefer DEF IsSound
<1>4. \A ty \in TypesOfItem(enum) : RefersOnly(format[ty], set)
  <2> HIDE DEF format
  <2> QED
    BY <1>1, <1>2, <1>3
<1> HIDE DEF format
<1>5. RefersOnly(WriteVariants(enum, parts, format), set)
  BY <1>4, VariantsRefer
<1> QED
  BY <1>5 DEF format, types

(* Items refer to what is declared with them, or to types of others, and
   declare themselves under the new name with all parameters. *)
LEMMA SwiftItemRefers ==
  ASSUME NEW cfg, NEW item, IsSound(item)
  PROVE  /\ RefersToOthers(SwiftWriteItem(cfg, item), cfg.prefix, cfg, item)
         /\ item.kind # "const" =>
              DeclaresAs(SwiftWriteItem(cfg, item), <<cfg.prefix, item.id.renamed>>, item.generics)
<1> DEFINE parts == <<cfg.prefix, item.id.renamed>>
           output == SwiftWriteItem(cfg, item)
           set == output.names \cup Referred(cfg.prefix, TypesOfOthers(cfg, item))
<1>1. Referred(cfg.prefix, TypesOfOthers(cfg, item)) \subseteq set /\ output.names \subseteq set
  OBVIOUS
<1>2. item.kind # "const" =>
        \A ty \in TypesOfItem(item) : RefersOnly(SwiftFormatType(cfg, item.generics, ty), set)
  <2> HIDE DEF set
  <2> QED
    BY <1>1, KnowsOwn, SwiftTypesRefer DEF IsSound
<1> SUFFICES RefersOnly(output, set) /\ (item.kind # "const" => DeclaresAs(output, parts, item.generics))
  BY DEF RefersToOthers
<1> HIDE DEF set, parts
<1>3. CASE item.kind = "alias"
  <2> DEFINE declared == Declares(parts, item.generics)
             type == SwiftFormatType(cfg, item.generics, item.ty)
  <2>1. output = Both(declared, type)
    BY <1>3 DEF SwiftWriteItem, SwiftWriteTypeAlias, parts
  <2>2. item.ty \in TypesOfItem(item)
    BY <1>3 DEF TypesOfItem
  <2>3. RefersOnly(type, set) /\ RefersOnly(declared, set) /\ DeclaresAs(declared, parts, item.generics)
    BY <1>2, <1>3, <2>2, RefersOnlyIs, DeclaresAsIs
  <2> HIDE DEF declared, type, output
  <2> QED
    BY <2>1, <2>3, TextsReferOnly, BothAre DEF DeclaresAs
<1>4. CASE item.kind = "struct"
  <2>1. output = SwiftWriteStructNamed(cfg, parts, item.fields, item.generics)
    BY <1>4 DEF SwiftWriteItem, SwiftWriteStruct, parts
  <2>2. TypesOfItem(item) = TypesOfFields(item.fields)
    BY <1>4 DEF TypesOfItem
  <2> HIDE DEF output
  <2> QED
    BY <1>2, <1>4, <2>1, <2>2, SwiftStructRefers
<1>5. CASE item.kind = "enum"
  <2> DEFINE structs == SwiftWriteAnonymousStructs(cfg, item, parts)
             declared == Declares(parts, item.generics)
             variants == WriteVariants(item, parts, SwiftFormatTypes(cfg, item.generics, TypesOfItem(item)))
  <2>1. output = Texts(<<structs, declared, variants>>)
    BY <1>5 DEF SwiftWriteItem, SwiftWriteEnum, parts
  <2>2. RefersOnly(structs, set) /\ DeclaresInner(item, parts, structs.names)
    BY <1>1, <1>5, SwiftAnonymousRefer
  <2>3. output.names = structs.names \cup declared.names \cup variants.names
    <3> HIDE DEF structs, declared, variants, output
    <3> QED
      BY <2>1, TextsOfThree
  <2> HIDE DEF output
  <2>4. DeclaresInner(item, parts, set)
    BY <1>1, <2>2, <2>3 DEF DeclaresInner
  <2>5. RefersOnly(variants, set)
    BY <1>1, <1>5, <2>4, SwiftEnumRefers
  <2>6. RefersOnly(declared, set) /\ DeclaresAs(declared, parts, item.generics)
    BY RefersOnlyIs, DeclaresAsIs
  <2> HIDE DEF structs, declared, variants
  <2> QED
    BY <2>1, <2>2, <2>3, <2>5, <2>6, ThreeReferOnly DEF DeclaresAs
<1>6. CASE item.kind = "const"
  <2>1. output = Fails("panic")
    BY <1>6 DEF SwiftWriteItem, SwiftWriteConst
  <2> QED
    BY <1>6, <2>1, RefersOnlyIs
<1> QED
  BY <1>3, <1>4, <1>5, <1>6 DEF IsSound

-----------------------------------------------------------------------------
(* What Kotlin refers to *)

LEMMA KotlinTypesRefer ==
  ASSUME NEW cfg, NEW item, NEW ty \in TypesOfItem(item), ty \in Types, NEW generics,
         KnowsParameters(generics, ty, item), NEW set, Referred(cfg.prefix, TypesOfOthers(cfg, item)) \subseteq set
  PROVE  RefersOnly(KotlinFormatType(cfg, generics, ty), set)
<1> DEFINE mapped == UserMappings(cfg)
           types == Formatted(ty, mapped)
           users == FormatUserTypes(types, cfg.prefix, mapped, generics)
           time == "OffsetDateTime" \in Special(types, mapped)
<1>1. KotlinFormatType(cfg, generics, ty) = Both(users, IF time THEN Fails("error") ELSE Empty)
  BY DEF KotlinFormatType
<1>2. mapped \in {DOMAIN cfg.mappings, UserMappings(cfg)}
  OBVIOUS
<1>3. RefersOnly(users, set)
  <2> HIDE DEF mapped
  <2>1. users.refs \subseteq Referred(cfg.prefix, UserTypes(cfg, TypesIn[ty], ToSet(generics)))
    BY <1>2, UserTypesRefer
  <2> QED
    BY <2>1, KnownRefer DEF RefersOnly
<1> HIDE DEF users, time
<1>4. RefersOnly(IF time THEN Fails("error") ELSE Empty, set)
  BY RefersOnlyIs
<1> QED
  BY <1>1, <1>3, <1>4, TextsReferOnly

LEMMA KotlinStructRefers ==
  ASSUME NEW cfg, NEW parts, NEW fields, NEW generics, NEW set, fields = <<>> => generics = <<>>,
         \A ty \in TypesOfFields(fields) : RefersOnly(KotlinFormatType(cfg, generics, ty), set)
  PROVE  /\ RefersOnly(KotlinWriteStructNamed(cfg, parts, fields, generics), set)
         /\ DeclaresAs(KotlinWriteStructNamed(cfg, parts, fields, generics), parts, generics)
<1> DEFINE types == TypesOfFields(fields)
           format == KotlinFormatTypes(cfg, generics, types)
           written == WriteFields("kotlin", fields, format)
           declared == Declares(parts, generics)
<1>1. types = TypesOfFields(fields)
  BY Zenon DEF TypesOfFields
<1>2. \A ty \in types : format[ty] = KotlinFormatType(cfg, generics, ty)
  BY DEF KotlinFormatTypes
<1>3. \A i \in DOMAIN fields : fields[i].ty \in types
  BY DEF TypesOfFields
<1> HIDE DEF types, format
<1>4. RefersOnly(written, set)
  BY <1>1, <1>2, <1>3, FieldsRefer
<1>5. (IF fields = <<>> THEN <<>> ELSE generics) = generics
  OBVIOUS
<1> HIDE DEF written, declared
<1>6. KotlinWriteStructNamed(cfg, parts, fields, generics) = Texts(<<KotlinSerializable, declared, written>>)
  BY <1>5 DEF KotlinWriteStructNamed, written, declared, format, types
<1>7. RefersOnly(KotlinSerializable, set) /\ RefersOnly(declared, set) /\ DeclaresAs(declared, parts, generics)
  BY RefersOnlyIs, DeclaresAsIs DEF KotlinSerializable, declared
<1>8. RefersOnly(Texts(<<KotlinSerializable, declared, written>>), set)
  BY <1>4, <1>7, ThreeReferOnly
<1>9. DeclaresAs(Texts(<<KotlinSerializable, declared, written>>), parts, generics)
  BY <1>7, TextsOfThree DEF DeclaresAs
<1> QED
  BY <1>6, <1>8, <1>9

LEMMA KotlinAnonymousRefer ==
  ASSUME NEW cfg, NEW enum, enum.kind = "enum", IsSound(enum), NEW parts, NEW set,
         Referred(cfg.prefix, TypesOfOthers(cfg, enum)) \subseteq set
  PROVE  /\ RefersOnly(KotlinWriteAnonymousStructs(cfg, enum, parts), set)
         /\ DeclaresInner(enum, parts, KotlinWriteAnonymousStructs(cfg, enum, parts).names)
<1> DEFINE structs == AnonymousStructs(enum)
           seq == [i \in DOMAIN structs |->
                     KotlinWriteStructNamed(cfg, parts \o structs[i].name, structs[i].fields,
                                           structs[i].generics)]
<1>1. KotlinWriteAnonymousStructs(cfg, enum, parts) = Texts(seq)
  BY DEF KotlinWriteAnonymousStructs
<1>2. ASSUME NEW i \in DOMAIN structs
      PROVE  /\ RefersOnly(seq[i], set)
             /\ DeclaresAs(seq[i], parts \o structs[i].name, structs[i].generics)
  <2> DEFINE fields == structs[i].fields
             generics == structs[i].generics
             name == parts \o structs[i].name
  <2>1. /\ \A ty \in TypesOfFields(fields) : ty \in TypesOfItem(enum) /\ KnowsParameters(generics, ty, enum)
        /\ fields = <<>> => generics = <<>>
    BY AnonymousStructsAre
  <2>2. seq[i] = KotlinWriteStructNamed(cfg, name, fields, generics)
    OBVIOUS
  <2> HIDE DEF fields, generics, name, structs, seq
  <2>3. \A ty \in TypesOfFields(fields) : RefersOnly(KotlinFormatType(cfg, generics, ty), set)
    BY <2>1, KotlinTypesRefer DEF IsSound
  <2>4. RefersOnly(seq[i], set) /\ DeclaresAs(seq[i], name, generics)
    BY <2>1, <2>2, <2>3, KotlinStructRefers
  <2> QED
    BY <2>4 DEF name, generics
<1>3. DOMAIN seq = DOMAIN structs
  OBVIOUS
<1> HIDE DEF seq
<1>4. RefersOnly(Texts(seq), set) /\ DeclaresInner(enum, parts, Texts(seq).names)
  BY <1>2, <1>3, StructsRefer
<1> QED
  BY <1>1, <1>4

LEMMA KotlinEnumRefers ==
  ASSUME NEW cfg, NEW enum, enum.kind = "enum", IsSound(enum), NEW parts, NEW set,
         Referred(cfg.prefix, TypesOfOthers(cfg, enum)) \subseteq set, DeclaresInner(enum, parts, set)
  PROVE  RefersOnly(WriteVariants(enum, parts, KotlinFormatTypes(cfg, enum.generics, TypesOfItem(enum))), set)
<1> DEFINE types == TypesOfItem(enum)
           format == KotlinFormatTypes(cfg, enum.generics, types)
<1>1. types = TypesOfItem(enum)
  BY Zenon DEF TypesOfItem, TypesOfFields, TypesOfVariant, ToSet
<1>2. \A ty \in types : format[ty] = KotlinFormatType(cfg, enum.generics, ty)
  BY DEF KotlinFormatTypes
<1> HIDE DEF types
<1>3. \A ty \in TypesOfItem(enum) : RefersOnly(KotlinFormatType(cfg, enum.generics, ty), set)
  BY KnowsOwn, KotlinTypesRefer DEF IsSound
<1>4. \A ty \in TypesOfItem(enum) : RefersOnly(format[ty], set)
  <2> HIDE DEF format
  <2> QED
    BY <1>1, <1>2, <1>3
<1> HIDE DEF format
<1>5. RefersOnly(WriteVariants(enum, parts, format), set)
  BY <1>4, VariantsRefer
<1> QED
  BY <1>5 DEF format, types

(* So do those of Kotlin that are not known to be misdeclared, *)
LEMMA KotlinItemRefers ==
  ASSUME Lang = "kotlin", NEW cfg, NEW item, IsSound(item), ~IsMisdeclared(item)
  PROVE  /\ RefersToOthers(KotlinWriteItem(cfg, item), cfg.prefix, cfg, item)
         /\ item.kind # "const" =>
              DeclaresAs(KotlinWriteItem(cfg, item), <<cfg.prefix, item.id.renamed>>, item.generics)
<1> DEFINE parts == <<cfg.prefix, item.id.renamed>>
           output == KotlinWriteItem(cfg, item)
           set == output.names \cup Referred(cfg.prefix, TypesOfOthers(cfg, item))
<1>1. Referred(cfg.prefix, TypesOfOthers(cfg, item)) \subseteq set /\ output.names \subseteq set
  OBVIOUS
<1>2. item.kind # "const" =>
        \A ty \in TypesOfItem(item) : RefersOnly(KotlinFormatType(cfg, item.generics, ty), set)
  <2> HIDE DEF set
  <2> QED
    BY <1>1, KnowsOwn, KotlinTypesRefer DEF IsSound
<1>3. /\ item.kind = "alias" \/ (item.kind = "enum" /\ ~item.unit) => item.id.original = item.id.renamed
      /\ item.kind = "struct" /\ item.fields = <<>> => item.generics = <<>>
      /\ item.kind = "alias" /\ KotlinIsInline(item) => item.generics = <<>>
  BY DEF IsMisdeclared, IsRenamed
<1> SUFFICES RefersOnly(output, set) /\ (item.kind # "const" => DeclaresAs(output, parts, item.generics))
  BY DEF RefersToOthers
<1> HIDE DEF set, parts
<1>4. CASE item.kind = "alias"
  <2> DEFINE declared == Declares(parts, item.generics)
             type == KotlinFormatType(cfg, item.generics, item.ty)
  <2>1. output \in {Texts(<<KotlinSerializable, declared, type>>), Both(declared, type)}
    BY <1>3, <1>4 DEF KotlinWriteItem, KotlinWriteTypeAlias, parts
  <2>2. item.ty \in TypesOfItem(item)
    BY <1>4 DEF TypesOfItem
  <2>3. RefersOnly(type, set) /\ RefersOnly(declared, set) /\ DeclaresAs(declared, parts, item.generics)
    BY <1>2, <1>4, <2>2, RefersOnlyIs, DeclaresAsIs
  <2>4. RefersOnly(KotlinSerializable, set)
    BY RefersOnlyIs DEF KotlinSerializable
  <2> HIDE DEF declared, type, output
  <2>5. RefersOnly(Texts(<<KotlinSerializable, declared, type>>), set)
    BY <2>3, <2>4, ThreeReferOnly
  <2>6. DeclaresAs(Texts(<<KotlinSerializable, declared, type>>), parts, item.generics)
    BY <2>3, TextsOfThree DEF DeclaresAs
  <2>7. RefersOnly(Both(declared, type), set) /\ DeclaresAs(Both(declared, type), parts, item.generics)
    BY <2>3, TextsReferOnly, BothAre DEF DeclaresAs
  <2> QED
    BY <2>1, <2>5, <2>6, <2>7
<1>5. CASE item.kind = "struct"
  <2>1. output = KotlinWriteStructNamed(cfg, parts, item.fields, item.generics)
    BY <1>5 DEF KotlinWriteItem, KotlinWriteStruct, parts
  <2>2. TypesOfItem(item) = TypesOfFields(item.fields)
    BY <1>5 DEF TypesOfItem
  <2> HIDE DEF output
  <2> QED
    BY <1>2, <1>3, <1>5, <2>1, <2>2, KotlinStructRefers
<1>6. CASE item.kind = "enum"
  <2> DEFINE structs == KotlinWriteAnonymousStructs(cfg, item, parts)
             declared == Declares(parts, item.generics)
             variants == KotlinWriteEnumVariants(cfg, item)
             format == KotlinFormatTypes(cfg, item.generics, TypesOfItem(item))
             content == WriteVariants(item, parts, format)
             extended == RefersTo(parts, item.generics)
  <2>1. output = Texts(<<structs, KotlinSerializable, declared, variants>>)
    BY <1>6 DEF KotlinWriteItem, KotlinWriteEnum, parts
  <2>2. RefersOnly(structs, set) /\ DeclaresInner(item, parts, structs.names)
    BY <1>1, <1>6, KotlinAnonymousRefer
  <2>3. output.names = structs.names \cup KotlinSerializable.names \cup declared.names \cup variants.names
    <3> HIDE DEF structs, declared, variants, output
    <3> QED
      BY <2>1, TextsOfFour
  <2>4. /\ RefersOnly(declared, set) /\ RefersOnly(KotlinSerializable, set)
        /\ DeclaresAs(declared, parts, item.generics)
    BY RefersOnlyIs, DeclaresAsIs DEF KotlinSerializable
  <2>5. variants \in {Empty, Both(content, extended)}
    BY <1>3, <1>6 DEF KotlinWriteEnumVariants, parts
  <2> HIDE DEF output, declared
  <2>6. DeclaresInner(item, parts, set) /\ <<parts, Len(item.generics)>> \in set
    BY <1>1, <2>2, <2>3, <2>4 DEF DeclaresInner, DeclaresAs
  <2>7. RefersOnly(content, set) /\ RefersOnly(extended, set)
    BY <1>1, <1>6, <2>6, KotlinEnumRefers, RefersOnlyIs
  <2> HIDE DEF content, extended
  <2>8. RefersOnly(variants, set)
    BY <2>5, <2>7, TextsReferOnly, RefersOnlyIs
  <2> HIDE DEF structs, variants
  <2> QED
    BY <2>1, <2>2, <2>3, <2>4, <2>8, FourReferOnly DEF DeclaresAs
<1>7. CASE item.kind = "const"
  <2>1. output = Fails("panic")
    BY <1>7 DEF KotlinWriteItem, KotlinWriteConst
  <2> QED
    BY <1>7, <2>1, RefersOnlyIs
<1> QED
  BY <1>4, <1>5, <1>6, <1>7 DEF IsSound

-----------------------------------------------------------------------------
(* What Scala refers to *)

LEMMA ScalaTypesRefer ==
  ASSUME NEW cfg, NEW item, NEW ty \in TypesOfItem(item), ty \in Types, NEW generics,
         KnowsParameters(generics, ty, item), NEW set, Referred("", TypesOfOthers(cfg, item)) \subseteq set
  PROVE  RefersOnly(ScalaFormatType(cfg, generics, ty), set)
<1> DEFINE mapped == UserMappings(cfg)
           types == Formatted(ty, mapped)
           users == FormatUserTypes(types, "", mapped, generics)
           unsigned == Special(types, mapped) \cap ScalaUnsignedIds = {}
           time == "OffsetDateTime" \in Special(types, mapped)
<1>1. ScalaFormatType(cfg, generics, ty) =
        Texts(<<users, IF unsigned THEN Empty ELSE Needs({"UnsignedAliases"}),
                IF time THEN Fails("error") ELSE Empty>>)
  BY DEF ScalaFormatType
<1>2. mapped \in {DOMAIN cfg.mappings, UserMappings(cfg)}
  OBVIOUS
<1>3. RefersOnly(users, set)
  <2> HIDE DEF mapped
  <2>1. users.refs \subseteq Referred("", UserTypes(cfg, TypesIn[ty], ToSet(generics)))
    BY <1>2, UserTypesRefer
  <2> QED
    BY <2>1, KnownRefer DEF RefersOnly
<1> HIDE DEF users, unsigned, time
<1>4. /\ RefersOnly(IF unsigned THEN Empty ELSE Needs({"UnsignedAliases"}), set)
      /\ RefersOnly(IF time THEN Fails("error") ELSE Empty, set)
  BY RefersOnlyIs
<1> QED
  BY <1>1, <1>3, <1>4, ThreeReferOnly

LEMMA ScalaStructRefers ==
  ASSUME NEW cfg, NEW parts, NEW fields, NEW generics, NEW set, fields = <<>> => generics = <<>>,
         \A ty \in TypesOfFields(fields) : RefersOnly(ScalaFormatType(cfg, generics, ty), set)
  PROVE  /\ RefersOnly(ScalaWriteStructNamed(cfg, parts, fields, generics), set)
         /\ DeclaresAs(ScalaWriteStructNamed(cfg, parts, fields, generics), parts, generics)
<1> DEFINE types == TypesOfFields(fields)
           format == ScalaFormatTypes(cfg, generics, types)
           written == WriteFields("scala", fields, format)
           declared == Declares(parts, generics)
<1>1. types = TypesOfFields(fields)
  BY Zenon DEF TypesOfFields
<1>2. \A ty \in types : format[ty] = ScalaFormatType(cfg, generics, ty)
  BY DEF ScalaFormatTypes
<1>3. \A i \in DOMAIN fields : fields[i].ty \in types
  BY DEF TypesOfFields
<1> HIDE DEF types, format
<1>4. RefersOnly(written, set)
  BY <1>1, <1>2, <1>3, FieldsRefer
<1>5. (IF fields = <<>> THEN <<>> ELSE generics) = generics
  OBVIOUS
<1> HIDE DEF written, declared
<1>6. ScalaWriteStructNamed(cfg, parts, fields, generics) = Both(declared, written)
  BY <1>5 DEF ScalaWriteStructNamed, written, declared, format, types
<1>7. RefersOnly(declared, set) /\ DeclaresAs(declared, parts, generics)
  BY RefersOnlyIs, DeclaresAsIs DEF declared
<1>8. RefersOnly(Both(declared, written), set)
  BY <1>4, <1>7, TextsReferOnly
<1>9. DeclaresAs(Both(declared, written), parts, generics)
  BY <1>7, BothAre DEF DeclaresAs
<1> QED
  BY <1>6, <1>8, <1>9

LEMMA ScalaAnonymousRefer ==
  ASSUME NEW cfg, NEW enum, enum.kind = "enum", IsSound(enum), NEW parts, NEW set,
         Referred("", TypesOfOthers(cfg, enum)) \subseteq set
  PROVE  /\ RefersOnly(ScalaWriteAnonymousStructs(cfg, enum, parts), set)
         /\ DeclaresInner(enum, parts, ScalaWriteAnonymousStructs(cfg, enum, parts).names)
<1> DEFINE structs == AnonymousStructs(enum)
           seq == [i \in DOMAIN structs |->
                     ScalaWriteStructNamed(cfg, parts \o structs[i].name, structs[i].fields,
                                           structs[i].generics)]
<1>1. ScalaWriteAnonymousStructs(cfg, enum, parts) = Texts(seq)
  BY DEF ScalaWriteAnonymousStructs
<1>2. ASSUME NEW i \in DOMAIN structs
      PROVE  /\ RefersOnly(seq[i], set)
             /\ DeclaresAs(seq[i], parts \o structs[i].name, structs[i].generics)
  <2> DEFINE fields == structs[i].fields
             generics == structs[i].generics
             name == parts \o structs[i].name
  <2>1. /\ \A ty \in TypesOfFields(fields) : ty \in TypesOfItem(enum) /\ KnowsParameters(generics, ty, enum)
        /\ fields = <<>> => generics = <<>>
    BY AnonymousStructsAre
  <2>2. seq[i] = ScalaWriteStructNamed(cfg, name, fields, generics)
    OBVIOUS
  <2> HIDE DEF fields, generics, name, structs, seq
  <2>3. \A ty \in TypesOfFields(fields) : RefersOnly(ScalaFormatType(cfg, generics, ty), set)
    BY <2>1, ScalaTypesRefer DEF IsSound
  <2>4. RefersOnly(seq[i], set) /\ DeclaresAs(seq[i], name, generics)
    BY <2>1, <2>2, <2>3, ScalaStructRefers
  <2> QED
    BY <2>4 DEF name, generics
<1>3. DOMAIN seq = DOMAIN structs
  OBVIOUS
<1> HIDE DEF seq
<1>4. RefersOnly(Texts(seq), set) /\ DeclaresInner(enum, parts, Texts(seq).names)
  BY <1>2, <1>3, StructsRefer
<1> QED
  BY <1>1, <1>4

LEMMA ScalaEnumRefers ==
  ASSUME NEW cfg, NEW enum, enum.kind = "enum", IsSound(enum), NEW parts, NEW set,
         Referred("", TypesOfOthers(cfg, enum)) \subseteq set, DeclaresInner(enum, parts, set)
  PROVE  RefersOnly(WriteVariants(enum, parts, ScalaFormatTypes(cfg, enum.generics, TypesOfItem(enum))), set)
<1> DEFINE types == TypesOfItem(enum)
           format == ScalaFormatTypes(cfg, enum.generics, types)
<1>1. types = TypesOfItem(enum)
  BY Zenon DEF TypesOfItem, TypesOfFields, TypesOfVariant, ToSet
<1>2. \A ty \in types : format[ty] = ScalaFormatType(cfg, enum.generics, ty)
  BY DEF ScalaFormatTypes
<1> HIDE DEF types
<1>3. \A ty \in TypesOfItem(enum) : RefersOnly(ScalaFormatType(cfg, enum.generics, ty), set)
  BY KnowsOwn, ScalaTypesRefer DEF IsSound
<1>4. \A ty \in TypesOfItem(enum) : RefersOnly(format[ty], set)
  <2> HIDE DEF format
  <2> QED
    BY <1>1, <1>2, <1>3
<1> HIDE DEF format
<1>5. RefersOnly(WriteVariants(enum, parts, format), set)
  BY <1>4, VariantsRefer
<1> QED
  BY <1>5 DEF format, types

(* as those of Scala, *)
LEMMA ScalaItemRefers ==
  ASSUME Lang = "scala", NEW cfg, NEW item, IsSound(item), ~IsMisdeclared(item)
  PROVE  /\ RefersToOthers(ScalaWriteItem(cfg, item), "", cfg, item)
         /\ item.kind # "const" =>
              DeclaresAs(ScalaWriteItem(cfg, item), <<"", item.id.renamed>>, item.generics)
<1> DEFINE parts == <<"", item.id.renamed>>
           output == ScalaWriteItem(cfg, item)
           set == output.names \cup Referred("", TypesOfOthers(cfg, item))
<1>1. Referred("", TypesOfOthers(cfg, item)) \subseteq set /\ output.names \subseteq set
  OBVIOUS
<1>2. item.kind # "const" =>
        \A ty \in TypesOfItem(item) : RefersOnly(ScalaFormatType(cfg, item.generics, ty), set)
  <2> HIDE DEF set
  <2> QED
    BY <1>1, KnowsOwn, ScalaTypesRefer DEF IsSound
<1>3. /\ item.kind = "alias" \/ (item.kind = "enum" /\ ~item.unit) => item.id.original = item.id.renamed
      /\ item.kind = "struct" /\ item.fields = <<>> => item.generics = <<>>
      /\ item.kind = "enum" /\ item.unit => item.generics = <<>>
  BY DEF IsMisdeclared, IsRenamed
<1> SUFFICES RefersOnly(output, set) /\ (item.kind # "const" => DeclaresAs(output, parts, item.generics))
  BY DEF RefersToOthers
<1> HIDE DEF set, parts
<1>4. CASE item.kind = "alias"
  <2> DEFINE declared == Declares(parts, item.generics)
             type == ScalaFormatType(cfg, item.generics, item.ty)
  <2>1. output = Both(declared, type)
    BY <1>3, <1>4 DEF ScalaWriteItem, ScalaWriteTypeAlias, parts
  <2>2. item.ty \in TypesOfItem(item)
    BY <1>4 DEF TypesOfItem
  <2>3. RefersOnly(type, set) /\ RefersOnly(declared, set) /\ DeclaresAs(declared, parts, item.generics)
    BY <1>2, <1>4, <2>2, RefersOnlyIs, DeclaresAsIs
  <2> HIDE DEF declared, type, output
  <2> QED
    BY <2>1, <2>3, TextsReferOnly, BothAre DEF DeclaresAs
<1>5. CASE item.kind = "struct"
  <2>1. output = ScalaWriteStructNamed(cfg, parts, item.fields, item.generics)
    BY <1>5 DEF ScalaWriteItem, ScalaWriteStruct, parts
  <2>2. TypesOfItem(item) = TypesOfFields(item.fields)
    BY <1>5 DEF TypesOfItem
  <2> HIDE DEF output
  <2> QED
    BY <1>2, <1>3, <1>5, <2>1, <2>2, ScalaStructRefers
<1>6. CASE item.kind = "enum"
  <2> DEFINE structs == ScalaWriteAnonymousStructs(cfg, item, parts)
             declared == Declares(parts, item.generics)
             variants == ScalaWriteEnumVariants(cfg, item)
             format == ScalaFormatTypes(cfg, item.generics, TypesOfItem(item))
             content == WriteVariants(item, parts, format)
             extended == RefersTo(parts, item.generics)
  <2>1. output = Texts(<<structs, declared, variants>>)
    BY <1>6 DEF ScalaWriteItem, ScalaWriteEnum, parts
  <2>2. RefersOnly(structs, set) /\ DeclaresInner(item, parts, structs.names)
    BY <1>1, <1>6, ScalaAnonymousRefer
  <2>3. output.names = structs.names \cup declared.names \cup variants.names
    <3> HIDE DEF structs, declared, variants, output
    <3> QED
      BY <2>1, TextsOfThree
  <2>4. RefersOnly(declared, set) /\ DeclaresAs(declared, parts, item.generics)
    BY RefersOnlyIs, DeclaresAsIs
  <2>5. variants \in {Empty, extended, Both(content, extended)}
    BY <1>3, <1>6, Zenon DEF ScalaWriteEnumVariants, parts
  <2> HIDE DEF output, declared
  <2>6. DeclaresInner(item, parts, set) /\ <<parts, Len(item.generics)>> \in set
    BY <1>1, <2>2, <2>3, <2>4 DEF DeclaresInner, DeclaresAs
  <2>7. RefersOnly(content, set) /\ RefersOnly(extended, set)
    BY <1>1, <1>6, <2>6, ScalaEnumRefers, RefersOnlyIs
  <2> HIDE DEF content, extended
  <2>8. RefersOnly(variants, set)
    BY <2>5, <2>7, TextsReferOnly, RefersOnlyIs
  <2> HIDE DEF structs, variants
  <2> QED
    BY <2>1, <2>2, <2>3, <2>4, <2>8, ThreeReferOnly DEF DeclaresAs
<1>7. CASE item.kind = "const"
  <2>1. output = Empty
    BY <1>7 DEF ScalaWriteItem
  <2> QED
    BY <1>7, <2>1, RefersOnlyIs
<1> QED
  BY <1>4, <1>5, <1>6, <1>7 DEF IsSound

-----------------------------------------------------------------------------
(* What Go refers to *)

GoCalled(cfg, id) == GoAcronymsToUppercase(cfg, <<"", id>>)
GoReferred(cfg, types) == {<<GoCalled(cfg, t.id), Len(t.args)>> : t \in types}
GoDeclaresInner(cfg, enum, parts, names) ==
  \A variant \in ToSet(enum.variants) :
    variant.kind = "AnonymousStruct" =>
      <<GoAcronymsToUppercase(cfg, parts \o InnerName(variant)), Len(<<>>)>> \in names

LEMMA GoFormatRefers ==
  ASSUME NEW cfg, NEW item, NEW ty \in TypesOfItem(item), ty \in Types, NEW generics,
         KnowsParameters(generics, ty, item)
  PROVE  GoFormatType(cfg, generics, ty).refs \subseteq Referred("", TypesOfOthers(cfg, item))
<1> DEFINE mapped == DOMAIN cfg.mappings
           types == Formatted(ty, mapped)
           users == FormatUserTypes(types, "", mapped, generics)
           time == "OffsetDateTime" \in Special(types, mapped)
           set == Referred("", TypesOfOthers(cfg, item))
<1>1. GoFormatType(cfg, generics, ty) = Both(users, IF time THEN Requires({"time"}) ELSE Empty)
  BY DEF GoFormatType
<1>2. mapped \in {DOMAIN cfg.mappings, UserMappings(cfg)}
  OBVIOUS
<1>3. RefersOnly(users, set)
  <2> HIDE DEF mapped
  <2>1. users.refs \subseteq Referred("", UserTypes(cfg, TypesIn[ty], ToSet(generics)))
    BY <1>2, UserTypesRefer
  <2> QED
    BY <2>1, KnownRefer DEF RefersOnly
<1> HIDE DEF users, time, set
<1>4. RefersOnly(IF time THEN Requires({"time"}) ELSE Empty, set)
  BY RefersOnlyIs
<1>5. RefersOnly(GoFormatType(cfg, generics, ty), set)
  BY <1>1, <1>3, <1>4, TextsReferOnly
<1> QED
  BY <1>5 DEF RefersOnly, set

LEMMA GoTypesRefer ==
  ASSUME NEW cfg, NEW item, NEW ty \in TypesOfItem(item), ty \in Types, NEW generics,
         KnowsParameters(generics, ty, item), NEW set, GoReferred(cfg, TypesOfOthers(cfg, item)) \subseteq set
  PROVE  RefersOnly(GoFormatUppercase(cfg, generics, ty), set)
<1> DEFINE plain == GoFormatType(cfg, generics, ty)
           refs == {<<GoAcronymsToUppercase(cfg, ref[1]), ref[2]>> : ref \in plain.refs}
           types == TypesOfOthers(cfg, item)
<1>1. plain.refs \subseteq Referred("", types)
  BY GoFormatRefers
<1>2. "refs" \in DOMAIN plain
  BY DEF GoFormatType, Both
<1>3. GoFormatUppercase(cfg, generics, ty) = [plain EXCEPT !.refs = refs]
  BY DEF GoFormatUppercase
<1> HIDE DEF plain, types
<1>4. ASSUME NEW ref \in plain.refs
      PROVE  <<GoAcronymsToUppercase(cfg, ref[1]), ref[2]>> \in GoReferred(cfg, types)
  <2>1. PICK t \in types : ref = <<<<"", t.id>>, Len(t.args)>>
    BY <1>1 DEF Referred
  <2>2. ref[1] = <<"", t.id>> /\ ref[2] = Len(t.args)
    BY <2>1
  <2> QED
    BY <2>2 DEF GoReferred, GoCalled
<1>5. refs \subseteq GoReferred(cfg, types)
  BY <1>4
<1> HIDE DEF refs
<1>6. [plain EXCEPT !.refs = refs].refs = refs
  BY <1>2
<1> QED
  BY <1>3, <1>5, <1>6 DEF RefersOnly, types

(* The type of an alias or a constant, if no acronym is in it. *)
LEMMA GoPlainRefers ==
  ASSUME NEW cfg, KeepsEmpty(cfg.acronyms), NEW item, NEW ty \in TypesOfItem(item), ty \in Types,
         {t.id : t \in TypesReferred(item)} \cap DOMAIN cfg.acronyms = {}, NEW generics,
         KnowsParameters(generics, ty, item), NEW set, GoReferred(cfg, TypesOfOthers(cfg, item)) \subseteq set
  PROVE  RefersOnly(GoFormatType(cfg, generics, ty), set)
<1> DEFINE types == TypesOfOthers(cfg, item)
<1>1. GoFormatType(cfg, generics, ty).refs \subseteq Referred("", types)
  BY GoFormatRefers
<1>2. ASSUME NEW t \in types PROVE GoCalled(cfg, t.id) = <<"", t.id>>
  <2>1. t.id \notin DOMAIN cfg.acronyms
    BY DEF TypesOfOthers, UserTypes
  <2>2. "" \in DOMAIN cfg.acronyms => cfg.acronyms[""] = ""
    BY DEF KeepsEmpty
  <2> DEFINE parts == <<"", t.id>>
             called == [i \in DOMAIN parts |->
                          IF parts[i] \in DOMAIN cfg.acronyms THEN cfg.acronyms[parts[i]] ELSE parts[i]]
  <2>3. DOMAIN parts = {1, 2} /\ parts[1] = "" /\ parts[2] = t.id
    OBVIOUS
  <2>4. GoCalled(cfg, t.id) = called
    BY DEF GoCalled, GoAcronymsToUppercase
  <2> HIDE DEF parts
  <2>5. ASSUME NEW i \in DOMAIN parts PROVE called[i] = parts[i]
    <3>1. called[i] = IF parts[i] \in DOMAIN cfg.acronyms THEN cfg.acronyms[parts[i]] ELSE parts[i]
      OBVIOUS
    <3>2. i = 1 \/ i = 2
      BY <2>3
    <3> HIDE DEF called
    <3> QED
      BY <2>1, <2>2, <2>3, <3>1, <3>2
  <2>6. parts = [i \in DOMAIN parts |-> parts[i]]
    BY DEF parts
  <2>7. called = parts
    BY <2>5, <2>6
  <2> QED
    BY <2>4, <2>7 DEF parts
<1> HIDE DEF types
<1>3. Referred("", types) \subseteq GoReferred(cfg, types)
  BY <1>2 DEF Referred, GoReferred
<1> QED
  BY <1>1, <1>3 DEF RefersOnly, types

LEMMA GoStructRefers ==
  ASSUME NEW cfg, NEW parts, NEW fields, NEW generics, NEW set,
         \A ty \in TypesOfFields(fields) : RefersOnly(GoFormatUppercase(cfg, generics, ty), set)
  PROVE  /\ RefersOnly(GoWriteStructNamed(cfg, parts, fields, generics), set)
         /\ DeclaresAs(GoWriteStructNamed(cfg, parts, fields, generics),
                       GoAcronymsToUppercase(cfg, parts), generics)
<1> DEFINE types == TypesOfFields(fields)
           format == [ty \in types |-> GoFormatUppercase(cfg, generics, ty)]
           written == WriteFields("go", fields, format)
           declared == Declares(GoAcronymsToUppercase(cfg, parts), generics)
<1>1. types = TypesOfFields(fields)
  BY Zenon DEF TypesOfFields
<1>2. \A ty \in types : format[ty] = GoFormatUppercase(cfg, generics, ty)
  OBVIOUS
<1>3. \A i \in DOMAIN fields : fields[i].ty \in types
  BY DEF TypesOfFields
<1> HIDE DEF types, format
<1>4. RefersOnly(written, set)
  BY <1>1, <1>2, <1>3, FieldsRefer
<1> HIDE DEF written, declared
<1>5. GoWriteStructNamed(cfg, parts, fields, generics) = Both(declared, written)
  BY DEF GoWriteStructNamed, written, declared, format, types
<1>6. RefersOnly(declared, set) /\ DeclaresAs(declared, GoAcronymsToUppercase(cfg, parts), generics)
  BY RefersOnlyIs, DeclaresAsIs DEF declared
<1> QED
  BY <1>4, <1>5, <1>6, TextsReferOnly, BothAre DEF DeclaresAs

LEMMA GoAnonymousRefer ==
  ASSUME NEW cfg, NEW enum, enum.kind = "enum", IsSound(enum), enum.generics = <<>>, NEW parts,
         NEW set, GoReferred(cfg, TypesOfOthers(cfg, enum)) \subseteq set
  PROVE  /\ RefersOnly(GoWriteAnonymousStructs(cfg, enum, parts), set)
         /\ GoDeclaresInner(cfg, enum, parts, GoWriteAnonymousStructs(cfg, enum, parts).names)
<1> DEFINE structs == AnonymousStructs(enum)
           seq == [i \in DOMAIN structs |->
                     GoWriteStructNamed(cfg, parts \o structs[i].name, structs[i].fields,
                                        structs[i].generics)]
<1>1. GoWriteAnonymousStructs(cfg, enum, parts) = Texts(seq)
  BY DEF GoWriteAnonymousStructs
<1>2. ASSUME NEW i \in DOMAIN structs
      PROVE  /\ RefersOnly(seq[i], set)
             /\ DeclaresAs(seq[i], GoAcronymsToUppercase(cfg, parts \o structs[i].name), <<>>)
  <2> DEFINE fields == structs[i].fields
             generics == structs[i].generics
             name == parts \o structs[i].name
  <2>1. /\ \A ty \in TypesOfFields(fields) : ty \in TypesOfItem(enum) /\ KnowsParameters(generics, ty, enum)
        /\ generics = <<>>
    BY AnonymousStructsAre
  <2>2. seq[i] = GoWriteStructNamed(cfg, name, fields, generics)
    OBVIOUS
  <2> HIDE DEF fields, generics, name, structs, seq
  <2>3. \A ty \in TypesOfFields(fields) : RefersOnly(GoFormatUppercase(cfg, generics, ty), set)
    BY <2>1, GoTypesRefer DEF IsSound
  <2>4. RefersOnly(seq[i], set) /\ DeclaresAs(seq[i], GoAcronymsToUppercase(cfg, name), generics)
    BY <2>2, <2>3, GoStructRefers
  <2> QED
    BY <2>1, <2>4 DEF name
<1>3. DOMAIN seq = DOMAIN structs
  OBVIOUS
<1> HIDE DEF seq
<1>4. RefersOnly(Texts(seq), set)
  BY <1>2, <1>3, TextsReferOnly
<1>5. ASSUME NEW variant \in ToSet(enum.variants), variant.kind = "AnonymousStruct"
      PROVE  <<GoAcronymsToUppercase(cfg, parts \o InnerName(variant)), Len(<<>>)>> \in Texts(seq).names
  <2>1. PICK i \in DOMAIN structs : structs[i].name = InnerName(variant)
    BY <1>5, AnonymousStructsAre
  <2>2. <<GoAcronymsToUppercase(cfg, parts \o InnerName(variant)), Len(<<>>)>> \in seq[i].names
    BY <1>2, <2>1 DEF DeclaresAs
  <2> QED
    BY <1>3, <2>2, TextsOfAll
<1> QED
  BY <1>1, <1>4, <1>5 DEF GoDeclaresInner

(* those of Go, acronyms in uppercase, *)
LEMMA GoItemRefers ==
  ASSUME Lang = "go", KeepsEmpty(backend.acronyms), NEW item, IsSound(item), ~IsMisdeclared(item)
  PROVE  LET output == GoWriteItem(backend, item)
         IN  /\ RefersOnly(output, output.names \cup GoReferred(backend, TypesOfOthers(backend, item)))
             /\ item.kind # "const" => DeclaresAs(output, GoCalled(backend, item.id.renamed), item.generics)
<1> DEFINE cfg == backend
           called == GoCalled(cfg, item.id.renamed)
           output == GoWriteItem(cfg, item)
           set == output.names \cup GoReferred(cfg, TypesOfOthers(cfg, item))
<1>1. GoReferred(cfg, TypesOfOthers(cfg, item)) \subseteq set /\ output.names \subseteq set
  OBVIOUS
<1>2. /\ item.kind \in {"alias", "enum"} => item.generics = <<>> /\ item.id.original = item.id.renamed
      /\ item.kind \in {"alias", "const"} =>
           {t.id : t \in TypesReferred(item)} \cap DOMAIN cfg.acronyms = {}
  BY DEF IsMisdeclared, IsRenamed
<1> SUFFICES RefersOnly(output, set) /\ (item.kind # "const" => DeclaresAs(output, called, item.generics))
  OBVIOUS
<1> HIDE DEF set, called
<1>3. CASE item.kind = "alias"
  <2> DEFINE declared == Declares(called, <<>>)
             type == GoFormatType(cfg, <<>>, item.ty)
  <2>1. output = Both(declared, type)
    BY <1>2, <1>3 DEF GoWriteItem, GoWriteTypeAlias, called, GoCalled
  <2>2. item.ty \in TypesOfItem(item) /\ KnowsParameters(<<>>, item.ty, item)
    BY <1>2, <1>3, KnowsOwn DEF TypesOfItem
  <2>3. RefersOnly(type, set)
    BY <1>1, <1>2, <1>3, <2>2, GoPlainRefers DEF IsSound
  <2>4. RefersOnly(declared, set) /\ DeclaresAs(declared, called, item.generics)
    BY <1>2, <1>3, RefersOnlyIs, DeclaresAsIs
  <2> HIDE DEF declared, type, output
  <2> QED
    BY <2>1, <2>3, <2>4, TextsReferOnly, BothAre DEF DeclaresAs
<1>4. CASE item.kind = "struct"
  <2>1. output = GoWriteStructNamed(cfg, <<"", item.id.renamed>>, item.fields, item.generics)
    BY <1>4 DEF GoWriteItem, GoWriteStruct
  <2>2. \A ty \in TypesOfFields(item.fields) : ty \in TypesOfItem(item)
    BY <1>4 DEF TypesOfItem
  <2>3. \A ty \in TypesOfFields(item.fields) : RefersOnly(GoFormatUppercase(cfg, item.generics, ty), set)
    BY <1>1, <1>4, <2>2, KnowsOwn, GoTypesRefer DEF IsSound
  <2> HIDE DEF output
  <2> QED
    BY <2>1, <2>3, GoStructRefers DEF called, GoCalled
<1>5. CASE item.kind = "enum"
  <2> DEFINE parts == <<"", item.id.original>>
             Content(variant) ==
               CASE variant.kind = "Unit"  -> Empty
                 [] variant.kind = "Tuple" -> GoFormatUppercase(cfg, <<>>, variant.ty)
                 [] OTHER -> RefersTo(GoAcronymsToUppercase(cfg, parts \o InnerName(variant)), <<>>)
             structs == GoWriteAnonymousStructs(cfg, item, parts)
             declared == Declares(called, <<>>)
             json == IF item.unit THEN Empty ELSE Needs({"encoding/json"})
             seq == [i \in DOMAIN item.variants |-> Content(item.variants[i])]
             variants == Texts(seq)
  <2>1. output = Texts(<<structs, declared, json, variants>>)
    BY <1>2, <1>5 DEF GoWriteItem, GoWriteEnum, called, GoCalled
  <2>2. RefersOnly(structs, set) /\ GoDeclaresInner(cfg, item, parts, structs.names)
    BY <1>1, <1>2, <1>5, GoAnonymousRefer
  <2>3. output.names = structs.names \cup declared.names \cup json.names \cup variants.names
    <3> HIDE DEF structs, declared, json, variants, output
    <3> QED
      BY <2>1, TextsOfFour
  <2>4. /\ RefersOnly(declared, set) /\ RefersOnly(json, set)
        /\ DeclaresAs(declared, called, item.generics)
    BY <1>2, <1>5, RefersOnlyIs, DeclaresAsIs
  <2> HIDE DEF output, declared, json
  <2>5. GoDeclaresInner(cfg, item, parts, set)
    BY <1>1, <2>2, <2>3 DEF GoDeclaresInner
  <2>6. \A ty \in TypesOfItem(item) : RefersOnly(GoFormatUppercase(cfg, <<>>, ty), set)
    BY <1>1, <1>2, <1>5, KnowsOwn, GoTypesRefer DEF IsSound
  <2> HIDE DEF parts
  <2>7. ASSUME NEW i \in DOMAIN item.variants PROVE RefersOnly(Content(item.variants[i]), set)
    <3> DEFINE variant == item.variants[i]
               type == GoFormatUppercase(cfg, <<>>, variant.ty)
               inner == RefersTo(GoAcronymsToUppercase(cfg, parts \o InnerName(variant)), <<>>)
    <3>1. /\ variant \in ToSet(item.variants) /\ variant.kind \in {"Unit", "Tuple", "AnonymousStruct"}
          /\ variant.kind = "Tuple" => variant.ty \in TypesOfItem(item)
      BY <1>5, VariantsAre
    <3>2. /\ variant.kind = "Unit" => Content(variant) = Empty
          /\ variant.kind = "Tuple" => Content(variant) = type
          /\ variant.kind = "AnonymousStruct" => Content(variant) = inner
      OBVIOUS
    <3> HIDE DEF Content, variant
    <3>3. variant.kind = "Tuple" => RefersOnly(type, set)
      BY <2>6, <3>1
    <3>4. variant.kind = "AnonymousStruct" => RefersOnly(inner, set)
      BY <2>5, <3>1, RefersOnlyIs DEF GoDeclaresInner
    <3> HIDE DEF type, inner
    <3>5. RefersOnly(Content(variant), set)
      BY <3>1, <3>2, <3>3, <3>4, RefersOnlyIs
    <3> QED
      BY <3>5 DEF variant
  <2>8. RefersOnly(variants, set)
    <3> HIDE DEF Content
    <3>1. \A i \in DOMAIN seq : RefersOnly(seq[i], set)
      BY <2>7
    <3> HIDE DEF seq
    <3> QED
      BY <3>1, TextsReferOnly
  <2> HIDE DEF structs, variants
  <2> QED
    BY <2>1, <2>2, <2>3, <2>4, <2>8, FourReferOnly DEF DeclaresAs
<1>6. CASE item.kind = "const"
  <2> DEFINE declared == Declares(<<"", ToPascalCase(item.id.renamed)>>, <<>>)
             type == GoFormatType(cfg, <<>>, item.ty)
  <2>1. output = Both(declared, type)
    BY <1>6 DEF GoWriteItem, GoWriteConst
  <2>2. item.ty \in TypesOfItem(item) /\ KnowsParameters(<<>>, item.ty, item)
    BY <1>6, KnowsOwn DEF TypesOfItem
  <2>3. RefersOnly(type, set)
    BY <1>1, <1>2, <1>6, <2>2, GoPlainRefers DEF IsSound
  <2>4. RefersOnly(declared, set)
    BY RefersOnlyIs
  <2> HIDE DEF declared, type, output
  <2> QED
    BY <1>6, <2>1, <2>3, <2>4, TextsReferOnly
<1> QED
  BY <1>3, <1>4, <1>5, <1>6 DEF IsSound

-----------------------------------------------------------------------------
(* What TypeScript refers to *)

LEMMA TypeScriptTypesRefer ==
  ASSUME NEW cfg, NEW item, NEW ty \in TypesOfItem(item), ty \in Types, NEW generics,
         KnowsParameters(generics, ty, item), NEW set, Referred("", TypesOfOthers(cfg, item)) \subseteq set
  PROVE  RefersOnly(TypeScriptFormatType(cfg, generics, ty), set)
<1> DEFINE mapped == DOMAIN cfg.mappings
           types == Formatted(ty, mapped)
           special == {t \in types : IsSpecial(t) /\ Key(t) \in mapped}
           users == FormatUserTypes(types, "", mapped, generics)
           custom == Records({cfg.mappings[Key(t)] : t \in special} \cap TypeScriptCustomTranslations)
           forbidden == GenericKeyForbidden(types, mapped, generics)
<1>1. TypeScriptFormatType(cfg, generics, ty) =
        Texts(<<users, custom, IF forbidden THEN Fails("error") ELSE Empty>>)
  BY DEF TypeScriptFormatType
<1>2. mapped \in {DOMAIN cfg.mappings, UserMappings(cfg)}
  OBVIOUS
<1>3. RefersOnly(users, set)
  <2> HIDE DEF mapped
  <2>1. users.refs \subseteq Referred("", UserTypes(cfg, TypesIn[ty], ToSet(generics)))
    BY <1>2, UserTypesRefer
  <2> QED
    BY <2>1, KnownRefer DEF RefersOnly
<1>4. RefersOnly(custom, set)
  BY RefersOnlyIs
<1> HIDE DEF users, custom, forbidden
<1>5. RefersOnly(IF forbidden THEN Fails("error") ELSE Empty, set)
  BY RefersOnlyIs
<1> QED
  BY <1>1, <1>3, <1>4, <1>5, ThreeReferOnly

LEMMA TypeScriptFieldsRefer ==
  ASSUME NEW cfg, NEW fields, NEW generics, NEW set,
         \A ty \in TypesOfFields(fields) : RefersOnly(TypeScriptFormatType(cfg, generics, ty), set)
  PROVE  RefersOnly(TypeScriptWriteStructFields(cfg, fields, generics), set)
<1> DEFINE seq == [i \in DOMAIN fields |-> TypeScriptWriteField(cfg, fields[i], generics)]
<1>1. ASSUME NEW i \in DOMAIN fields
      PROVE  RefersOnly(TypeScriptWriteField(cfg, fields[i], generics), set)
  <2> DEFINE overrides == TypeOverrides(fields[i], "typescript")
             format == TypeScriptFormatType(cfg, generics, fields[i].ty)
             written == IF overrides # {} THEN Empty ELSE format
             type == IF overrides # {} THEN overrides ELSE {TypeScriptWritten(cfg, fields[i].ty)}
             custom == Requires(type \cap TypeScriptCustomTranslations)
  <2>1. TypeScriptWriteField(cfg, fields[i], generics) = Both(written, custom)
    BY DEF TypeScriptWriteField
  <2>2. fields[i].ty \in TypesOfFields(fields)
    BY DEF TypesOfFields
  <2>3. RefersOnly(format, set)
    BY <2>2
  <2>4. RefersOnly(custom, set)
    BY RefersOnlyIs
  <2> HIDE DEF overrides, format, custom
  <2>5. RefersOnly(written, set)
    BY <2>3, RefersOnlyIs
  <2> HIDE DEF written
  <2> QED
    BY <2>1, <2>4, <2>5, TextsReferOnly
<1>2. TypeScriptWriteStructFields(cfg, fields, generics) = Texts(seq)
  BY DEF TypeScriptWriteStructFields
<1>3. \A i \in DOMAIN seq : RefersOnly(seq[i], set)
  BY <1>1
<1> HIDE DEF seq
<1> QED
  BY <1>2, <1>3, TextsReferOnly

LEMMA TypeScriptEnumRefers ==
  ASSUME NEW cfg, NEW enum, enum.kind = "enum", IsSound(enum), NEW set,
         \A ty \in TypesOfItem(enum) : RefersOnly(TypeScriptFormatType(cfg, enum.generics, ty), set),
         NEW i \in DOMAIN enum.variants
  PROVE  RefersOnly(TypeScriptWriteEnumVariant(cfg, enum.variants[i], enum.generics), set)
<1> DEFINE variant == enum.variants[i]
           type == TypeScriptFormatType(cfg, enum.generics, variant.ty)
           fields == TypeScriptWriteStructFields(cfg, variant.fields, enum.generics)
           content == TypeScriptWriteEnumVariant(cfg, variant, enum.generics)
<1>1. /\ variant.kind \in {"Unit", "Tuple", "AnonymousStruct"}
      /\ variant.kind = "Tuple" => variant.ty \in TypesOfItem(enum)
      /\ variant.kind = "AnonymousStruct" => TypesOfFields(variant.fields) \subseteq TypesOfItem(enum)
  BY VariantsAre
<1>2. /\ variant.kind = "Unit" => content = Empty
      /\ variant.kind = "Tuple" => content = type
      /\ variant.kind = "AnonymousStruct" => content = fields
  BY DEF TypeScriptWriteEnumVariant
<1> HIDE DEF variant, content
<1>3. variant.kind = "Tuple" => RefersOnly(type, set)
  BY <1>1
<1>4. variant.kind = "AnonymousStruct" => RefersOnly(fields, set)
  BY <1>1, TypeScriptFieldsRefer
<1> HIDE DEF type, fields
<1>5. RefersOnly(content, set)
  BY <1>1, <1>2, <1>3, <1>4, RefersOnlyIs
<1> QED
  BY <1>5 DEF content, variant

(* all of TypeScript, *)
LEMMA TypeScriptItemRefers ==
  ASSUME NEW cfg, NEW item, IsSound(item)
  PROVE  /\ RefersToOthers(TypeScriptWriteItem(cfg, item), "", cfg, item)
         /\ item.kind # "const" =>
              DeclaresAs(TypeScriptWriteItem(cfg, item), <<"", item.id.renamed>>, item.generics)
<1> DEFINE parts == <<"", item.id.renamed>>
           output == TypeScriptWriteItem(cfg, item)
           set == output.names \cup Referred("", TypesOfOthers(cfg, item))
           declared == Declares(parts, item.generics)
<1>1. Referred("", TypesOfOthers(cfg, item)) \subseteq set
  OBVIOUS
<1>2. item.kind # "const" =>
        \A ty \in TypesOfItem(item) : RefersOnly(TypeScriptFormatType(cfg, item.generics, ty), set)
  <2> HIDE DEF set
  <2> QED
    BY <1>1, KnowsOwn, TypeScriptTypesRefer DEF IsSound
<1> SUFFICES RefersOnly(output, set) /\ (item.kind # "const" => DeclaresAs(output, parts, item.generics))
  BY DEF RefersToOthers
<1> HIDE DEF set, parts
<1>3. RefersOnly(declared, set) /\ DeclaresAs(declared, parts, item.generics)
  BY RefersOnlyIs, DeclaresAsIs
<1>4. ASSUME NEW content, output = Both(declared, content), RefersOnly(content, set)
      PROVE  RefersOnly(output, set) /\ DeclaresAs(output, parts, item.generics)
  <2> HIDE DEF output, declared
  <2> QED
    BY <1>3, <1>4, TextsReferOnly, BothAre DEF DeclaresAs
<1>5. CASE item.kind = "alias"
  <2> DEFINE type == TypeScriptFormatType(cfg, item.generics, item.ty)
  <2>1. output = Both(declared, type)
    BY <1>5 DEF TypeScriptWriteItem, TypeScriptWriteTypeAlias, parts
  <2>2. RefersOnly(type, set)
    BY <1>2, <1>5 DEF TypesOfItem
  <2> HIDE DEF declared, type, output
  <2> QED
    BY <1>4, <2>1, <2>2
<1>6. CASE item.kind = "struct"
  <2> DEFINE fields == TypeScriptWriteStructFields(cfg, item.fields, item.generics)
  <2>1. output = Both(declared, fields)
    BY <1>6 DEF TypeScriptWriteItem, TypeScriptWriteStruct, parts
  <2>2. TypesOfItem(item) = TypesOfFields(item.fields)
    BY <1>6 DEF TypesOfItem
  <2>3. RefersOnly(fields, set)
    <3> HIDE DEF output
    <3> QED
      BY <1>2, <1>6, <2>2, TypeScriptFieldsRefer
  <2> HIDE DEF declared, fields, output
  <2> QED
    BY <1>4, <2>1, <2>3
<1>7. CASE item.kind = "enum"
  <2> DEFINE seq == [i \in DOMAIN item.variants |->
                       TypeScriptWriteEnumVariant(cfg, item.variants[i], item.generics)]
             variants == Texts(seq)
  <2>1. output = Both(declared, variants)
    BY <1>7 DEF TypeScriptWriteItem, TypeScriptWriteEnum, parts
  <2>2. \A i \in DOMAIN seq : RefersOnly(seq[i], set)
    <3> HIDE DEF output
    <3> QED
      BY <1>2, <1>7, TypeScriptEnumRefers
  <2> HIDE DEF declared, output, seq
  <2>3. RefersOnly(variants, set)
    BY <2>2, TextsReferOnly
  <2> HIDE DEF variants
  <2> QED
    BY <1>4, <2>1, <2>3
<1>8. CASE item.kind = "const"
  <2> DEFINE own == Declares(<<"", ToScreamingSnakeCase(item.id.renamed)>>, <<>>)
             type == TypeScriptFormatType(cfg, <<>>, item.ty)
  <2>1. output = Both(own, type)
    BY <1>8 DEF TypeScriptWriteItem, TypeScriptWriteConst
  <2>2. item.ty \in TypesOfItem(item) /\ KnowsParameters(<<>>, item.ty, item)
    BY <1>8, KnowsOwn DEF TypesOfItem
  <2>3. RefersOnly(type, set)
    BY <1>1, <2>2, TypeScriptTypesRefer DEF IsSound
  <2>4. RefersOnly(own, set)
    BY RefersOnlyIs
  <2> HIDE DEF own, type, output
  <2> QED
    BY <1>8, <2>1, <2>3, <2>4, TextsReferOnly
<1> QED
  BY <1>5, <1>6, <1>7, <1>8 DEF IsSound

-----------------------------------------------------------------------------
(* What Python refers to *)

LEMMA PythonTypesRefer ==
  ASSUME NEW cfg, NEW item, NEW ty \in TypesOfItem(item), ty \in Types, NEW generics,
         KnowsParameters(generics, ty, item), NEW set, Referred("", TypesOfOthers(cfg, item)) \subseteq set
  PROVE  RefersOnly(PythonFormatType(cfg, generics, ty), set)
<1> DEFINE mapped == DOMAIN cfg.mappings
           types == Formatted(ty, mapped)
           special == {t \in types : IsSpecial(t) /\ Key(t) \in mapped}
           users == FormatUserTypes(types, "", mapped, generics)
           imports == Requires(PythonImports(PythonImportsOf(Special(types, mapped))))
           known == Records(PythonImports(PythonImportsOfUserTypes(types)))
           custom == Records(PythonFunctions({cfg.mappings[Key(t)] : t \in special}))
           forbidden == GenericKeyForbidden(types, mapped, generics)
<1>1. PythonFormatType(cfg, generics, ty) =
        Texts(<<users, imports, known, custom, IF forbidden THEN Fails("error") ELSE Empty>>)
  BY DEF PythonFormatType
<1>2. mapped \in {DOMAIN cfg.mappings, UserMappings(cfg)}
  OBVIOUS
<1>3. RefersOnly(users, set)
  <2> HIDE DEF mapped
  <2>1. users.refs \subseteq Referred("", UserTypes(cfg, TypesIn[ty], ToSet(generics)))
    BY <1>2, UserTypesRefer
  <2> QED
    BY <2>1, KnownRefer DEF RefersOnly
<1>4. RefersOnly(imports, set) /\ RefersOnly(known, set) /\ RefersOnly(custom, set)
  BY RefersOnlyIs
<1> HIDE DEF users, imports, known, custom, forbidden
<1>5. RefersOnly(IF forbidden THEN Fails("error") ELSE Empty, set)
  BY RefersOnlyIs
<1> QED
  BY <1>1, <1>3, <1>4, <1>5, FiveReferOnly

LEMMA PythonFieldRefers ==
  ASSUME NEW cfg, NEW field, NEW generics, NEW set,
         RefersOnly(PythonFormatType(cfg, generics, field.ty), set)
  PROVE  RefersOnly(PythonWriteField(cfg, field, generics), set)
<1> DEFINE overridden == TypeOverrides(field, "python") # {}
           type == PythonFormatType(cfg, generics, field.ty)
           written == IF overridden THEN Empty ELSE type
           types == PythonWrittenTypes(cfg, field)
           custom == PythonFunctions(types) # {}
           optional == IsOptional(field.ty) \/ field.hasDefault
           common == (IF optional THEN {"Optional"} ELSE {})
                \cup (IF custom THEN {"BeforeValidator", "PlainSerializer", "Annotated"} ELSE {})
                \cup (IF optional \/ PythonIsAliased(field) THEN {"Field"} ELSE {})
           imports == Requires(PythonImports(common))
           functions == Needs(PythonFunctions(types))
           datetime == Needs(PythonImports(types \cap {"datetime"}))
           default == optional /\ ~IsOptional(field.ty)
           memo == Records(PythonFunctions(types))
<1>1. PythonWriteField(cfg, field, generics) =
        Texts(<<written, imports, functions, datetime, IF default THEN Empty ELSE memo>>)
  BY DEF PythonWriteField
<1>2. /\ RefersOnly(imports, set) /\ RefersOnly(functions, set) /\ RefersOnly(datetime, set)
      /\ RefersOnly(memo, set)
  BY RefersOnlyIs
<1> HIDE DEF overridden, type, imports, functions, datetime, default, memo
<1>3. RefersOnly(written, set) /\ RefersOnly(IF default THEN Empty ELSE memo, set)
  BY <1>2, RefersOnlyIs DEF type
<1> HIDE DEF written
<1> QED
  BY <1>1, <1>2, <1>3, FiveReferOnly

LEMMA PythonStructRefers ==
  ASSUME NEW cfg, NEW parts, NEW fields, NEW generics, NEW set,
         \A ty \in TypesOfFields(fields) : RefersOnly(PythonFormatType(cfg, generics, ty), set)
  PROVE  /\ RefersOnly(PythonWriteStructNamed(cfg, parts, fields, generics), set)
         /\ DeclaresAs(PythonWriteStructNamed(cfg, parts, fields, generics), parts, generics)
<1> DEFINE declared == Declares(parts, generics)
           imports == Requires(PythonImports({"BaseModel"}) \cup PythonTypeVars(generics))
           generic == IF generics = <<>> THEN Empty ELSE Requires(PythonImports({"Generic"}))
           aliased == \E i \in DOMAIN fields : PythonIsAliased(fields[i])
           config == IF aliased THEN Requires(PythonImports({"ConfigDict"})) ELSE Empty
           seq == [i \in DOMAIN fields |-> PythonWriteField(cfg, fields[i], generics)]
           written == Texts(seq)
<1>1. PythonWriteStructNamed(cfg, parts, fields, generics) =
        Texts(<<declared, imports, generic, config, written>>)
  BY DEF PythonWriteStructNamed
<1>2. \A i \in DOMAIN seq : RefersOnly(seq[i], set)
  BY PythonFieldRefers DEF TypesOfFields
<1> HIDE DEF seq, aliased
<1>3. RefersOnly(written, set)
  BY <1>2, TextsReferOnly
<1>4. /\ RefersOnly(declared, set) /\ DeclaresAs(declared, parts, generics)
      /\ RefersOnly(imports, set) /\ RefersOnly(generic, set) /\ RefersOnly(config, set)
  BY RefersOnlyIs, DeclaresAsIs
<1> HIDE DEF declared, imports, generic, config, written
<1> QED
  BY <1>1, <1>3, <1>4, FiveReferOnly, TextsOfFive DEF DeclaresAs

LEMMA PythonAnonymousRefer ==
  ASSUME NEW cfg, NEW enum, enum.kind = "enum", IsSound(enum), NEW parts, NEW set,
         Referred("", TypesOfOthers(cfg, enum)) \subseteq set
  PROVE  /\ RefersOnly(PythonWriteAnonymousStructs(cfg, enum, parts), set)
         /\ DeclaresInner(enum, parts, PythonWriteAnonymousStructs(cfg, enum, parts).names)
<1> DEFINE structs == AnonymousStructs(enum)
           seq == [i \in DOMAIN structs |->
                     PythonWriteStructNamed(cfg, parts \o structs[i].name, structs[i].fields,
                                           structs[i].generics)]
<1>1. PythonWriteAnonymousStructs(cfg, enum, parts) = Texts(seq)
  BY DEF PythonWriteAnonymousStructs
<1>2. ASSUME NEW i \in DOMAIN structs
      PROVE  /\ RefersOnly(seq[i], set)
             /\ DeclaresAs(seq[i], parts \o structs[i].name, structs[i].generics)
  <2> DEFINE fields == structs[i].fields
             generics == structs[i].generics
             name == parts \o structs[i].name
  <2>1. \A ty \in TypesOfFields(fields) : ty \in TypesOfItem(enum) /\ KnowsParameters(generics, ty, enum)
    BY AnonymousStructsAre
  <2>2. seq[i] = PythonWriteStructNamed(cfg, name, fields, generics)
    OBVIOUS
  <2> HIDE DEF fields, generics, name, structs, seq
  <2>3. \A ty \in TypesOfFields(fields) : RefersOnly(PythonFormatType(cfg, generics, ty), set)
    BY <2>1, PythonTypesRefer DEF IsSound
  <2>4. RefersOnly(seq[i], set) /\ DeclaresAs(seq[i], name, generics)
    BY <2>2, <2>3, PythonStructRefers
  <2> QED
    BY <2>4 DEF name, generics
<1>3. DOMAIN seq = DOMAIN structs
  OBVIOUS
<1> HIDE DEF seq
<1>4. RefersOnly(Texts(seq), set) /\ DeclaresInner(enum, parts, Texts(seq).names)
  BY <1>2, <1>3, StructsRefer
<1> QED
  BY <1>1, <1>4

PythonParts(enum) == <<"", enum.id.renamed>>

LEMMA PythonAlgebraicRefers ==
  ASSUME NEW cfg, NEW enum, enum.kind = "enum", IsSound(enum), enum.generics = <<>>,
         NEW set, PythonWriteAlgebraicEnum(cfg, enum).names \subseteq set,
         \A ty \in TypesOfItem(enum) : RefersOnly(PythonFormatType(cfg, enum.generics, ty), set),
         DeclaresInner(enum, PythonParts(enum), set)
  PROVE  /\ RefersOnly(PythonWriteAlgebraicEnum(cfg, enum), set)
         /\ DeclaresAs(PythonWriteAlgebraicEnum(cfg, enum), PythonParts(enum), enum.generics)
<1> DEFINE parts == PythonParts(enum)
           VariantClass(variant) == Append(parts, variant.id.original)
           Content(variant) ==
             CASE variant.kind = "Unit"  -> Empty
               [] variant.kind = "Tuple" -> PythonFormatType(cfg, enum.generics, variant.ty)
               [] OTHER -> RefersTo(parts \o InnerName(variant), <<>>)
           class(variant) == Declares(VariantClass(variant), <<>>)
           literal == Requires(PythonImports({"Literal"}))
           classes == [i \in DOMAIN enum.variants |->
                         Texts(<<class(enum.variants[i]), literal, Content(enum.variants[i])>>)]
           members == [i \in DOMAIN enum.variants |-> RefersTo(VariantClass(enum.variants[i]), <<>>)]
           imports == Requires(PythonImports({"BaseModel", "Enum"}) \cup PythonTypeVars(enum.generics))
           tags == Declares(Append(parts, "Types"), <<>>)
           declared == Declares(parts, <<>>)
           union == IF Len(members) = 1 THEN Empty ELSE Requires(PythonImports({"Union"}))
           output == PythonWriteAlgebraicEnum(cfg, enum)
<1>1. output = Texts(<<imports, tags, Texts(classes), Texts(members), declared, union>>)
  BY DEF PythonWriteAlgebraicEnum, PythonParts
<1>0. DeclaresInner(enum, parts, set)
  OBVIOUS
<1> HIDE DEF parts
<1>2. output.names = imports.names \cup tags.names \cup Texts(classes).names \cup Texts(members).names
                     \cup declared.names \cup union.names
  <2> DEFINE first == Texts(classes)
             second == Texts(members)
  <2>1. output = Texts(<<imports, tags, first, second, declared, union>>)
    BY <1>1
  <2> HIDE DEF output, imports, tags, first, second, declared, union, classes, members, VariantClass,
              Content, class, literal
  <2>2. output.names = imports.names \cup tags.names \cup first.names \cup second.names
                       \cup declared.names \cup union.names
    BY <2>1, TextsOfSix
  <2> QED
    BY <2>2 DEF first, second
<1>3. /\ RefersOnly(imports, set) /\ RefersOnly(tags, set) /\ RefersOnly(union, set)
      /\ RefersOnly(declared, set) /\ DeclaresAs(declared, parts, enum.generics)
  BY RefersOnlyIs, DeclaresAsIs
<1> HIDE DEF output, imports, tags, declared, union
<1>5. ASSUME NEW i \in DOMAIN enum.variants PROVE RefersOnly(Content(enum.variants[i]), set)
  <2> DEFINE variant == enum.variants[i]
             type == PythonFormatType(cfg, enum.generics, variant.ty)
             inner == RefersTo(parts \o InnerName(variant), <<>>)
  <2>1. /\ variant \in ToSet(enum.variants) /\ variant.kind \in {"Unit", "Tuple", "AnonymousStruct"}
        /\ variant.kind = "Tuple" => variant.ty \in TypesOfItem(enum)
    BY VariantsAre
  <2>2. /\ variant.kind = "Unit" => Content(variant) = Empty
        /\ variant.kind = "Tuple" => Content(variant) = type
        /\ variant.kind = "AnonymousStruct" => Content(variant) = inner
    OBVIOUS
  <2> HIDE DEF Content, variant
  <2>3. variant.kind = "Tuple" => RefersOnly(type, set)
    BY <2>1
  <2>4. GenericsIn(variant.fields, enum.generics) = <<>>
    BY GenericsInAre DEF IsSound
  <2>5. variant.kind = "AnonymousStruct" => RefersOnly(inner, set)
    BY <1>0, <2>1, <2>4, RefersOnlyIs DEF DeclaresInner, Inner
  <2> HIDE DEF type, inner
  <2>6. RefersOnly(Content(variant), set)
    BY <2>1, <2>2, <2>3, <2>5, RefersOnlyIs
  <2> QED
    BY <2>6 DEF variant
<1> HIDE DEF Content
<1>6. ASSUME NEW i \in DOMAIN enum.variants
      PROVE  /\ RefersOnly(classes[i], set)
             /\ <<VariantClass(enum.variants[i]), Len(<<>>)>> \in classes[i].names
  <2> DEFINE own == class(enum.variants[i])
             content == Content(enum.variants[i])
  <2>1. classes[i] = Texts(<<own, literal, content>>)
    OBVIOUS
  <2>2. /\ RefersOnly(own, set) /\ RefersOnly(literal, set) /\ RefersOnly(content, set)
        /\ <<VariantClass(enum.variants[i]), Len(<<>>)>> \in own.names
    BY <1>5, RefersOnlyIs, TextIs
  <2> HIDE DEF own, literal, content, classes, members, VariantClass, class, Content
  <2>3. RefersOnly(Texts(<<own, literal, content>>), set)
    BY <2>2, ThreeReferOnly
  <2>4. \A name \in own.names : name \in Texts(<<own, literal, content>>).names
    BY TextsOfThree
  <2> QED
    BY <2>1, <2>2, <2>3, <2>4
<1>7. DOMAIN classes = DOMAIN enum.variants /\ DOMAIN members = DOMAIN enum.variants
  OBVIOUS
<1>8. \A i \in DOMAIN members : members[i] = RefersTo(VariantClass(enum.variants[i]), <<>>)
  OBVIOUS
<1> HIDE DEF classes, members, VariantClass
<1>9. \A i \in DOMAIN members : RefersOnly(members[i], set)
  <2> SUFFICES ASSUME NEW i \in DOMAIN members PROVE RefersOnly(members[i], set)
    OBVIOUS
  <2>1. <<VariantClass(enum.variants[i]), Len(<<>>)>> \in set
    BY <1>2, <1>6, <1>7, TextsOfAll DEF output
  <2> QED
    BY <1>8, <2>1, RefersOnlyIs
<1>10. RefersOnly(Texts(classes), set) /\ RefersOnly(Texts(members), set)
  BY <1>6, <1>7, <1>9, TextsReferOnly
<1>11. RefersOnly(output, set)
  BY <1>1, <1>3, <1>10, SixReferOnly
<1>12. DeclaresAs(output, parts, enum.generics)
  BY <1>2, <1>3 DEF DeclaresAs
<1> QED
  BY <1>11, <1>12 DEF output, parts

(* and those of Python. *)
LEMMA PythonItemRefers ==
  ASSUME Lang = "python", NEW cfg, NEW item, IsSound(item), ~IsMisdeclared(item)
  PROVE  /\ RefersToOthers(PythonWriteItem(cfg, item), "", cfg, item)
         /\ item.kind # "const" =>
              DeclaresAs(PythonWriteItem(cfg, item), <<"", item.id.renamed>>, item.generics)
<1> DEFINE parts == <<"", item.id.renamed>>
           output == PythonWriteItem(cfg, item)
           set == output.names \cup Referred("", TypesOfOthers(cfg, item))
<1>1. Referred("", TypesOfOthers(cfg, item)) \subseteq set /\ output.names \subseteq set
  OBVIOUS
<1>2. item.kind # "const" =>
        \A ty \in TypesOfItem(item) : RefersOnly(PythonFormatType(cfg, item.generics, ty), set)
  <2> HIDE DEF set
  <2> QED
    BY <1>1, KnowsOwn, PythonTypesRefer DEF IsSound
<1>3. item.kind = "enum" => item.generics = <<>>
  BY DEF IsMisdeclared
<1> SUFFICES RefersOnly(output, set) /\ (item.kind # "const" => DeclaresAs(output, parts, item.generics))
  BY DEF RefersToOthers
<1> HIDE DEF set
<1>4. CASE item.kind = "alias"
  <2> DEFINE declared == Declares(parts, item.generics)
             variables == Needs(PythonTypeVars(item.generics))
             type == PythonFormatType(cfg, item.generics, item.ty)
  <2>1. output = Texts(<<declared, variables, type>>)
    BY <1>4 DEF PythonWriteItem, PythonWriteTypeAlias
  <2>2. RefersOnly(type, set)
    BY <1>2, <1>4 DEF TypesOfItem
  <2>3. RefersOnly(declared, set) /\ RefersOnly(variables, set) /\ DeclaresAs(declared, parts, item.generics)
    BY RefersOnlyIs, DeclaresAsIs
  <2> HIDE DEF declared, variables, type, output, parts
  <2> QED
    BY <2>1, <2>2, <2>3, ThreeReferOnly, TextsOfThree DEF DeclaresAs
<1>5. CASE item.kind = "struct"
  <2>1. output = PythonWriteStructNamed(cfg, parts, item.fields, item.generics)
    BY <1>5 DEF PythonWriteItem, PythonWriteStruct
  <2>2. TypesOfItem(item) = TypesOfFields(item.fields)
    BY <1>5 DEF TypesOfItem
  <2> HIDE DEF output, parts
  <2> QED
    BY <1>2, <1>5, <2>1, <2>2, PythonStructRefers
<1>6. CASE item.kind = "enum"
  <2> DEFINE structs == PythonWriteAnonymousStructs(cfg, item, parts)
             declared == Declares(parts, <<>>)
             imports == Requires(PythonImports({"Enum"}))
             unit == Both(declared, imports)
             algebraic == PythonWriteAlgebraicEnum(cfg, item)
             content == IF item.unit THEN unit ELSE algebraic
  <2>1. output = Both(structs, content)
    BY <1>6 DEF PythonWriteItem, PythonWriteEnum
  <2> HIDE DEF parts
  <2>2. RefersOnly(structs, set) /\ DeclaresInner(item, parts, structs.names)
    BY <1>1, <1>6, PythonAnonymousRefer
  <2>3. RefersOnly(unit, set) /\ DeclaresAs(unit, parts, item.generics)
    <3>1. /\ RefersOnly(declared, set) /\ RefersOnly(imports, set)
          /\ DeclaresAs(declared, parts, item.generics)
      BY <1>3, <1>6, RefersOnlyIs, DeclaresAsIs
    <3> HIDE DEF declared, imports
    <3> QED
      BY <3>1, TextsReferOnly, BothAre DEF DeclaresAs
  <2> HIDE DEF structs, unit, algebraic, output
  <2>4. output.names = structs.names \cup content.names
    <3> HIDE DEF content
    <3> QED
      BY <2>1, BothAre
  <2>5. DeclaresInner(item, parts, set)
    BY <1>1, <2>2, <2>4 DEF DeclaresInner
  <2>6. ~item.unit => RefersOnly(algebraic, set) /\ DeclaresAs(algebraic, parts, item.generics)
    <3> SUFFICES ASSUME ~item.unit PROVE RefersOnly(algebraic, set) /\ DeclaresAs(algebraic, parts, item.generics)
      OBVIOUS
    <3>1. algebraic.names \subseteq set
      BY <1>1, <2>4
    <3> QED
      BY <1>2, <1>3, <1>6, <2>5, <3>1, PythonAlgebraicRefers DEF algebraic, parts, PythonParts
  <2>7. RefersOnly(content, set) /\ DeclaresAs(content, parts, item.generics)
    BY <2>3, <2>6
  <2> HIDE DEF content
  <2> QED
    BY <2>1, <2>2, <2>7, TextsReferOnly, BothAre DEF DeclaresAs
<1>7. CASE item.kind = "const"
  <2> DEFINE own == Declares(<<"", ToScreamingSnakeCase(item.id.renamed)>>, <<>>)
             type == PythonFormatType(cfg, <<>>, item.ty)
  <2>1. output = Both(own, type)
    BY <1>7 DEF PythonWriteItem, PythonWriteConst
  <2>2. item.ty \in TypesOfItem(item) /\ KnowsParameters(<<>>, item.ty, item)
    BY <1>7, KnowsOwn DEF TypesOfItem
  <2>3. RefersOnly(type, set)
    BY <1>1, <2>2, PythonTypesRefer DEF IsSound
  <2>4. RefersOnly(own, set)
    BY RefersOnlyIs
  <2> HIDE DEF own, type, output
  <2> QED
    BY <1>7, <2>1, <2>3, <2>4, TextsReferOnly
<1> QED
  BY <1>4, <1>5, <1>6, <1>7 DEF IsSound

-----------------------------------------------------------------------------
(* References in the modules *)

(* How the backend of the run calls a type in the modules. *)
Called(id) ==
  IF Lang = "go" THEN GoAcronymsToUppercase(backend, <<backend.prefix, id>>) ELSE <<backend.prefix, id>>

(* What the backends promise of an item they do not misdeclare. *)
Keeps(output, item) ==
  /\ \A ref \in output.refs :
       \/ ref \in output.names
       \/ \E t \in TypesOfOthers(backend, item) : ref = <<Called(t.id), Len(t.args)>>
  /\ item.kind # "const" => <<Called(item.id.renamed), Len(item.generics)>> \in output.names

LEMMA PrefixedKeep ==
  ASSUME Lang # "go", NEW item, NEW output, RefersToOthers(output, backend.prefix, backend, item),
         item.kind # "const" => DeclaresAs(output, <<backend.prefix, item.id.renamed>>, item.generics)
  PROVE  Keeps(output, item)
<1>1. \A id : Called(id) = <<backend.prefix, id>>
  BY DEF Called
<1>2. Referred(backend.prefix, TypesOfOthers(backend, item)) =
        {<<Called(t.id), Len(t.args)>> : t \in TypesOfOthers(backend, item)}
  BY <1>1 DEF Referred
<1> QED
  BY <1>1, <1>2 DEF Keeps, RefersToOthers, RefersOnly, DeclaresAs

(* The promise holds of each backend. *)
LEMMA ItemRefers ==
  ASSUME Lang \in Languages, Lang \notin {"swift", "kotlin"} => backend.prefix = "",
         KeepsEmpty(backend.acronyms), NEW item, IsSound(item), ~IsMisdeclared(item)
  PROVE  Keeps(WriteItemIn(Lang, backend, item), item)
<1>1. CASE Lang = "swift"
  BY <1>1, SwiftItemRefers, PrefixedKeep DEF WriteItemIn
<1>2. CASE Lang = "kotlin"
  BY <1>2, KotlinItemRefers, PrefixedKeep DEF WriteItemIn
<1>3. CASE Lang = "scala"
  BY <1>3, ScalaItemRefers, PrefixedKeep DEF WriteItemIn
<1>4. CASE Lang = "python"
  BY <1>4, PythonItemRefers, PrefixedKeep DEF WriteItemIn
<1>5. CASE Lang = "typescript"
  BY <1>5, TypeScriptItemRefers, PrefixedKeep DEF WriteItemIn
<1>6. CASE Lang = "go"
  <2> DEFINE output == GoWriteItem(backend, item)
             types == TypesOfOthers(backend, item)
  <2>1. WriteItemIn(Lang, backend, item) = output
    BY <1>6 DEF WriteItemIn
  <2>2. \A id : Called(id) = GoCalled(backend, id)
    BY <1>6 DEF Called, GoCalled
  <2>3. /\ RefersOnly(output, output.names \cup GoReferred(backend, types))
        /\ item.kind # "const" => DeclaresAs(output, GoCalled(backend, item.id.renamed), item.generics)
    BY <1>6, GoItemRefers
  <2> HIDE DEF output
  <2>4. GoReferred(backend, types) = {<<Called(t.id), Len(t.args)>> : t \in types}
    BY <2>2 DEF GoReferred
  <2>5. Keeps(output, item)
    BY <2>2, <2>3, <2>4 DEF Keeps, RefersOnly, DeclaresAs
  <2> QED
    BY <2>1, <2>5
<1> QED
  BY <1>1, <1>2, <1>3, <1>4, <1>5, <1>6 DEF Languages

-----------------------------------------------------------------------------
(* What modules refer to is referred to by an item of their crate. *)
ReferredBy(ref, items) == \E item \in items : ref \in WriteItemIn(Lang, backend, item).refs
TextRefers ==
  phase = "writing" =>
    at \in DOMAIN crates /\ \A ref \in text.refs : ReferredBy(ref, ToSet(crates[at].items))
ModulesRefer ==
  phase \in {"generating", "writing"} \/ Generated =>
    \A c \in DOMAIN modules : \A ref \in modules[c].text.refs :
      c \in DOMAIN crates /\ ReferredBy(ref, ToSet(crates[c].items))

AcronymsKept == KeepsEmpty(backend.acronyms)
ReferencesInv == DeclaredInv /\ SettledInv /\ AcronymsKept /\ TextRefers /\ ModulesRefer

LEMMA AcronymsStep ==
  ASSUME ReferencesInv, [Next]_vars
  PROVE  AcronymsKept'
<1>1. ConfigInv /\ AcronymsKept /\ DataInv /\ DataInv'
  BY ItemsStep DEF ReferencesInv, DeclaredInv, ItemsInv, ErrorsInv, ModulesInv
<1>2. CASE UNCHANGED backend
  BY <1>1, <1>2 DEF AcronymsKept
<1>3. CASE RunAgain
  <2>1. backend' = NoBackend
    BY <1>3 DEF RunAgain
  <2>2. NoBackend.acronyms = <<>>
    BY DEF NoBackend, Backend, DefaultConfig, NoMappings
  <2>3. DOMAIN <<>> = {}
    OBVIOUS
  <2> QED
    BY <2>1, <2>2, <2>3 DEF AcronymsKept, KeepsEmpty
<1>4. CASE GenerateTypes /\ phase' = "parsing"
  <2> DEFINE loaded == LoadConfig(Args.configFile, world.cwd, tomls)
             config == OverrideConfiguration(loaded, Args)
  <2>1. /\ phase = "starting" /\ ~Args.generateConfig
        /\ ~IsFailure(loaded) /\ ~IsFailure(config) /\ backend' = Backend(config, Lang, Args.multiFile)
    BY <1>4 DEF GenerateTypes
  <2>2. loaded = NearestConfig /\ IsConfig(NearestConfig)
    BY <1>1, <2>1, LoadedIsNearest DEF ConfigInv
  <2>3. config = [NearestConfig EXCEPT !.settings = Over(Args.options, NearestConfig.settings)]
    BY <1>1, <2>1, <2>2, WorldTypes, OverrideIsOver DEF ConfigInv
  <2>4. config.acronyms = NearestConfig.acronyms
    BY <2>2, <2>3 DEF IsConfig, IsComplete
  <2>5. backend'.acronyms = config.acronyms
    BY <2>1 DEF Backend
  <2> QED
    BY <2>2, <2>4, <2>5 DEF AcronymsKept, IsConfig
<1> QED
  BY <1>2, <1>3, <1>4 DEF Next, GenerateConfig, GenerateTypes, WalkFiles, Reconcile, CheckParseErrors, Finish,
     WriteNextItem, EndModule, BeginModule, Stopped, vars, backendVars

LEMMA ReferredByStays ==
  ASSUME UNCHANGED <<world, run, backend>>
  PROVE  \A ref, items : ReferredBy(ref, items)' = ReferredBy(ref, items)
BY DEF ReferredBy, Lang, Args

LEMMA OthersRefer ==
  ASSUME ReferencesInv, phase \in {"generating", "writing"}, UNCHANGED <<world, run, backend, crates>>,
         NEW c \in DOMAIN modules, NEW ref \in modules[c].text.refs
  PROVE  c \in DOMAIN crates /\ ReferredBy(ref, ToSet(crates[c].items))'
<1>1. PICK items : items = ToSet(crates[c].items)
  OBVIOUS
<1>2. c \in DOMAIN crates /\ ReferredBy(ref, items)
  BY <1>1 DEF ReferencesInv, ModulesRefer
<1>3. ReferredBy(ref, items)'
  BY <1>2, ReferredByStays
<1> QED
  BY <1>1, <1>2, <1>3 DEF ReferredBy

(* The head of a module refers to nothing, *)
LEMMA BeginningRefers == Lang \in Languages => \A items : BeginModuleIn(Lang, backend, items).refs = {}
<1> SUFFICES ASSUME Lang \in Languages, NEW items PROVE BeginModuleIn(Lang, backend, items).refs = {}
  OBVIOUS
<1>1. ASSUME NEW a PROVE RefersOnly(a, {}) <=> a.refs = {}
  BY DEF RefersOnly
<1>2. /\ RefersOnly(SwiftBeginFile(backend), {}) /\ RefersOnly(KotlinBeginFile(backend), {})
      /\ RefersOnly(GoBeginFile(backend), {}) /\ RefersOnly(PythonBeginFile(backend), {})
      /\ RefersOnly(TypeScriptBeginFile(backend), {})
  BY RefersOnlyIs DEF SwiftBeginFile, KotlinBeginFile, GoBeginFile, PythonBeginFile, TypeScriptBeginFile
<1>3. RefersOnly(ScalaBeginFile(backend, items), {})
  <2> DEFINE unsigned == ScalaUnsignedIntegerUsed(items)
             aliases == unsigned \/ \E item \in items : item.kind \in {"alias"}
             types == \E item \in items : item.kind \in {"struct", "enum"}
             a == IF backend.package = "" THEN Fails("panic") ELSE Empty
             b == IF aliases THEN ScalaPackage(backend) ELSE Empty
             c == IF unsigned THEN Records({"UnsignedAliases"}) ELSE Empty
             d == IF types THEN ScalaPackage(backend) ELSE Empty
  <2>1. ScalaBeginFile(backend, items) = Texts(<<a, b, c, d>>)
    BY DEF ScalaBeginFile
  <2>2. RefersOnly(ScalaPackage(backend), {})
    <3> DEFINE braces == IF backend.package = "dotted" THEN Records({"}"}) ELSE Empty
    <3>1. RefersOnly(Needs({"}"}), {}) /\ RefersOnly(braces, {})
      BY RefersOnlyIs
    <3>2. ScalaPackage(backend) = Both(Needs({"}"}), braces)
      BY DEF ScalaPackage
    <3> HIDE DEF braces
    <3> QED
      BY <3>1, <3>2, TextsReferOnly
  <2> HIDE DEF unsigned, aliases, types
  <2>3. RefersOnly(a, {}) /\ RefersOnly(b, {}) /\ RefersOnly(c, {}) /\ RefersOnly(d, {})
    BY <2>2, RefersOnlyIs
  <2> HIDE DEF a, b, c, d
  <2> QED
    BY <2>1, <2>3, FourReferOnly
<1> QED
  BY <1>1, <1>2, <1>3 DEF BeginModuleIn, Languages

LEMMA GeneratingHasLanguage ==
  ASSUME ConfigInv, phase \in {"generating", "writing"} \/ Generated
  PROVE  Lang \in Languages
<1>1. ~Args.generateConfig
  BY DEF ConfigInv, StoredInv, Running, Generated
<1>2. Args \in Arguments
  BY WorldTypes DEF ConfigInv
<1> QED
  BY <1>1, <1>2, RunsAssumption DEF RunsAssumption, Lang

(* so that a module refers to what the items written to it do, *)
LEMMA BeginModuleRefers ==
  ASSUME ReferencesInv, NEW crate \in DOMAIN crates, BeginModule(crate)
  PROVE  TextRefers' /\ ModulesRefer'
<1>1. /\ phase = "generating" /\ at' = crate /\ phase' # "done"
      /\ UNCHANGED <<world, run, backend, crates, modules>>
  BY DEF BeginModule, AddText, contextVars, parseVars
<1>2. PICK begun : begun = BeginModuleIn(Lang, backend, ToSet(crates[crate].items))
  OBVIOUS
<1>3. begun.refs = {}
  BY <1>1, <1>2, BeginningRefers, GeneratingHasLanguage DEF ReferencesInv, DeclaredInv
<1>4. text' = Both(Empty, begun)
  BY <1>2 DEF BeginModule, AddText
<1>5. RefersOnly(begun, {}) /\ RefersOnly(Empty, {})
  BY <1>3, RefersOnlyIs DEF RefersOnly
<1>6. RefersOnly(Both(Empty, begun), {})
  BY <1>5, TextsReferOnly
<1>7. text'.refs = {}
  BY <1>4, <1>6 DEF RefersOnly
<1> QED
  BY <1>1, <1>7, OthersRefer DEF TextRefers, ModulesRefer, Generated

LEMMA WriteNextItemRefers ==
  ASSUME ReferencesInv, WriteNextItem
  PROVE  TextRefers' /\ ModulesRefer'
<1>1. PICK i \in left : AddText(text, WriteItemIn(Lang, backend, ItemsAt[i]))
  BY DEF WriteNextItem
<1>2. /\ phase = "writing" /\ phase' # "done" /\ at \in DOMAIN crates
      /\ UNCHANGED <<world, run, backend, crates, at, modules>>
  BY DEF WriteNextItem, AddText, contextVars, parseVars, ReferencesInv, TextRefers
<1>3. left \subseteq DOMAIN ItemsAt
  BY <1>2 DEF ReferencesInv, DeclaredInv, ItemsInv, ErrorsInv, ModulesInv, TypeOK, ModuleInv
<1>4. PICK items, item : items = ToSet(crates[at].items) /\ item = ItemsAt[i]
  OBVIOUS
<1>5. item \in items
  BY <1>3, <1>4 DEF ToSet, ItemsAt
<1>6. PICK written : written = WriteItemIn(Lang, backend, item)
  OBVIOUS
<1>7. text' = Both(text, written)
  BY <1>1, <1>4, <1>6 DEF AddText
<1>8. text'.refs = text.refs \cup written.refs
  BY <1>7 DEF Both
<1>9. \A ref \in text.refs : ReferredBy(ref, items)
  BY <1>2, <1>4 DEF ReferencesInv, TextRefers
<1>10. \A ref \in written.refs : ReferredBy(ref, items)
  BY <1>5, <1>6 DEF ReferredBy
<1>11. \A ref \in text'.refs : ReferredBy(ref, items)'
  BY <1>2, <1>8, <1>9, <1>10, ReferredByStays
<1>12. \A ref \in text'.refs : ReferredBy(ref, ToSet(crates[at].items))'
  BY <1>2, <1>4, <1>11 DEF ReferredBy
<1> QED
  BY <1>2, <1>12, OthersRefer DEF TextRefers, ModulesRefer, Generated

(* also when it is written, *)
LEMMA EndModuleRefers ==
  ASSUME ReferencesInv, EndModule
  PROVE  TextRefers' /\ ModulesRefer'
<1>1. /\ phase = "writing" /\ phase' = "generating" /\ at \in DOMAIN crates
      /\ UNCHANGED <<world, run, backend, crates>>
  BY DEF EndModule, contextVars, parseVars, backendVars, ReferencesInv, TextRefers
<1>2. PICK items, crate : items = ToSet(crates[at].items) /\ crate = at
  OBVIOUS
<1>3. PICK provides : modules' = Put(modules, crate, [text |-> text, provides |-> provides])
  BY <1>2 DEF EndModule
<1>4. /\ DOMAIN modules' = DOMAIN modules \cup {crate} /\ modules'[crate].text = text
      /\ \A c \in DOMAIN modules \ {crate} : modules'[c] = modules[c]
  BY <1>3 DEF Put, Over
<1>5. ASSUME NEW ref \in text.refs PROVE ReferredBy(ref, ToSet(crates[crate].items))'
  <2>1. ReferredBy(ref, items)
    BY <1>1, <1>2 DEF ReferencesInv, TextRefers
  <2>2. ReferredBy(ref, items)'
    BY <1>1, <2>1, ReferredByStays
  <2> QED
    BY <1>1, <1>2, <2>2 DEF ReferredBy
<1>6. ASSUME NEW c \in DOMAIN modules', NEW ref \in modules'[c].text.refs
      PROVE  c \in DOMAIN crates /\ ReferredBy(ref, ToSet(crates[c].items))'
  <2>1. CASE c = crate
    BY <1>1, <1>2, <1>4, <1>5, <2>1
  <2>2. CASE c # crate
    <3>1. c \in DOMAIN modules /\ modules'[c] = modules[c]
      BY <1>4, <2>2
    <3> QED
      BY <1>1, <3>1, OthersRefer
  <2> QED
    BY <2>1, <2>2
<1> QED
  BY <1>1, <1>6 DEF TextRefers, ModulesRefer

(* and what post_generation adds refers to nothing. *)
LEMMA FinishRefers ==
  ASSUME ReferencesInv, Finish
  PROVE  TextRefers' /\ ModulesRefer'
<1>1. /\ phase = "generating" /\ phase' \in {"done", "failed"} /\ UNCHANGED <<world, run, backend, crates>>
  BY DEF Finish, contextVars, parseVars, backendVars
<1>2. PICK provides : modules' = IF provides = {} THEN modules
                                 ELSE Put(modules, PostModule, [text |-> Empty, provides |-> provides])
  BY DEF Finish
<1>3. /\ DOMAIN modules' \subseteq DOMAIN modules \cup {PostModule}
      /\ \A c \in DOMAIN modules' : modules'[c].text = Empty \/ (c \in DOMAIN modules /\ modules'[c] = modules[c])
  BY <1>2 DEF Put, Over
<1>4. Empty.refs = {}
  BY DEF Empty
<1>5. ASSUME NEW c \in DOMAIN modules', NEW ref \in modules'[c].text.refs
      PROVE  c \in DOMAIN crates /\ ReferredBy(ref, ToSet(crates[c].items))'
  <2>1. c \in DOMAIN modules /\ modules'[c] = modules[c]
    BY <1>3, <1>4
  <2> QED
    BY <1>1, <2>1, OthersRefer
<1> QED
  BY <1>1, <1>5 DEF TextRefers, ModulesRefer

LEMMA ReferencesStep ==
  ASSUME ReferencesInv, [Next]_vars
  PROVE  ReferencesInv'
<1>1. DeclaredInv' /\ AcronymsKept'
  BY ItemsStep, ConfigStep, BackendStep, AcronymsStep DEF DeclaredInv, ReferencesInv
<1>2. CASE phase' \notin {"reconciling", "generating", "writing"} /\ ~Generated'
  BY <1>1, <1>2 DEF ReferencesInv, SettledInv, TextRefers, ModulesRefer
<1>3. CASE GenerateConfig \/ GenerateTypes
  <2>1. /\ UNCHANGED <<world, run>>
        /\ \/ phase' \in {"done", "failed"} /\ Args.generateConfig
           \/ phase' \in {"parsing", "failed"}
    BY <1>3 DEF GenerateConfig, StoreConfig, GenerateTypes, contextVars
  <2> QED
    BY <1>2, <2>1 DEF Generated, Args
<1>4. CASE WalkFiles
  <2>1. phase' \in {"parsing", "failed", "panicked", "hanging"}
    BY <1>4 DEF WalkFiles, Walk, PassOver, FailToParse, VisitFile, VisitItem, VisitItemUse, LoseWalker, VisitItemMod,
                EndVisit, Walking, Visiting
  <2> QED
    BY <1>2, <2>1 DEF Generated
<1>5. CASE Reconcile
  <2>1. phase' = "reconciling"
    BY <1>5 DEF Reconcile
  <2>2. SettledInv'
    BY <1>5, ReconcileSettles DEF ReferencesInv, DeclaredInv, ConfigInv
  <2> QED
    BY <1>1, <2>1, <2>2 DEF ReferencesInv, TextRefers, ModulesRefer, Generated
<1>6. CASE CheckParseErrors
  <2>1. /\ phase = "reconciling" /\ phase' \in {"generating", "failed"}
        /\ UNCHANGED <<world, run, crates, modules>>
    BY <1>6 DEF CheckParseErrors, parseVars, moduleVars, contextVars
  <2>2. SettledInv'
    BY <2>1, SettledStays DEF ReferencesInv, Generated
  <2>3. modules' = <<>>
    BY <2>1 DEF ReferencesInv, DeclaredInv, ItemsInv, ErrorsInv, ModulesInv, ModuleInv
  <2>4. ModulesRefer' /\ TextRefers'
    BY <2>1, <2>3 DEF ModulesRefer, TextRefers
  <2> QED
    BY <1>1, <2>2, <2>4 DEF ReferencesInv
<1>7. CASE WriteNextItem \/ EndModule \/ \E crate \in DOMAIN crates : BeginModule(crate)
  <2>1. phase \in {"generating", "writing"} /\ UNCHANGED <<world, run, crates>>
    BY <1>7 DEF WriteNextItem, EndModule, BeginModule, parseVars, contextVars
  <2>2. SettledInv'
    BY <2>1, SettledStays DEF ReferencesInv
  <2>3. TextRefers' /\ ModulesRefer'
    BY <1>7, WriteNextItemRefers, EndModuleRefers, BeginModuleRefers
  <2> QED
    BY <1>1, <2>2, <2>3 DEF ReferencesInv
<1>8. CASE Finish
  <2>1. phase = "generating" /\ UNCHANGED <<world, run, crates>>
    BY <1>8 DEF Finish, parseVars, contextVars
  <2>2. SettledInv'
    BY <2>1, SettledStays DEF ReferencesInv
  <2> QED
    BY <1>1, <1>8, <2>2, FinishRefers DEF ReferencesInv
<1>9. CASE RunAgain
  <2>1. phase' = "starting"
    BY <1>9 DEF RunAgain
  <2> QED
    BY <1>2, <2>1 DEF Generated
<1>10. CASE UNCHANGED vars
  <2>1. UNCHANGED <<phase, world, run, backend, crates, at, text, modules>>
    BY <1>10 DEF vars, parseVars, contextVars, backendVars, moduleVars
  <2>2. Generated' = Generated
    BY <2>1 DEF Generated, Args
  <2>3. SettledInv'
    BY <2>1, <2>2, SettledStays DEF ReferencesInv
  <2>4. \A ref, items : ReferredBy(ref, items)' = ReferredBy(ref, items)
    BY <2>1, ReferredByStays
  <2>5. ASSUME NEW ref, NEW c
        PROVE  ReferredBy(ref, ToSet(crates[c].items)) => ReferredBy(ref, ToSet(crates[c].items))'
    <3>1. PICK items : items = ToSet(crates[c].items)
      OBVIOUS
    <3>2. ReferredBy(ref, items)' = ReferredBy(ref, items)
      BY <2>4
    <3> QED
      BY <2>1, <3>1, <3>2 DEF ReferredBy
  <2>6. TextRefers'
    BY <2>1, <2>5 DEF ReferencesInv, TextRefers
  <2>7. ModulesRefer'
    BY <2>1, <2>2, <2>5 DEF ReferencesInv, ModulesRefer
  <2> QED
    BY <1>1, <2>3, <2>6, <2>7 DEF ReferencesInv
<1> QED
  BY <1>3, <1>4, <1>5, <1>6, <1>7, <1>8, <1>9, <1>10 DEF Next, Stopped

(* A type that items refer to, if it is defined, is declared as it is called. *)
DeclaredSomewhere(names, t) == <<Called(t.id), Len(t.args)>> \in names

(* A reference by the new name meets it, one by the name in Rust has either
   been renamed, or is to an item that is not: a renamed generic type, which
   check_type leaves alone, is misdeclared. *)
LEMMA DefinedAreDeclared ==
  ASSUME SettledInv, Generated,
         \A c \in DOMAIN crates : \A item \in ToSet(crates[c].items) : ~IsMisdeclared(item),
         NEW names,
         \A c \in DOMAIN crates : \A item \in ToSet(crates[c].items) :
           item.kind # "const" => <<Called(item.id.renamed), Len(item.generics)>> \in names,
         NEW crate \in DOMAIN crates, NEW item \in ToSet(crates[crate].items),
         NEW t \in TypesReferred(item), t \in Types, ~IsSpecial(t), IsDefined(t, item, crate)
  PROVE  DeclaredSomewhere(names, t)
<1>1. PICK c \in DOMAIN crates :
        \E other \in ToSet(crates[c].items) :
          /\ other.kind # "const" /\ Len(other.generics) = Len(t.args)
          /\ \/ t.id = other.id.renamed
             \/ /\ t.id = other.id.original
                /\ other.id.serdeRename => item.kind # "const" /\ Finds(crate, c, t.id)
  BY DEF IsDefined
<1>2. PICK other \in ToSet(crates[c].items) :
        /\ other.kind # "const" /\ Len(other.generics) = Len(t.args)
        /\ \/ t.id = other.id.renamed
           \/ /\ t.id = other.id.original
              /\ other.id.serdeRename => item.kind # "const" /\ Finds(crate, c, t.id)
  BY <1>1
<1>3. IsSound(other) /\ IsSettled(item, crate) /\ ~IsMisdeclared(other)
  BY DEF SettledInv
<1>4. ASSUME t.id = other.id.renamed PROVE DeclaredSomewhere(names, t)
  BY <1>2, <1>4 DEF DeclaredSomewhere
<1>5. ASSUME t.id = other.id.original, ~other.id.serdeRename PROVE DeclaredSomewhere(names, t)
  BY <1>3, <1>4, <1>5 DEF IsSound
<1>6. ASSUME t.id = other.id.original, other.id.serdeRename, item.kind # "const", Finds(crate, c, t.id)
      PROVE  DeclaredSomewhere(names, t)
  <2>1. other.generics = <<>>
    BY <1>2, <1>3, <1>6 DEF IsMisdeclared
  <2>2. t.args = <<>>
    <3>1. Len(t.args) = 0 /\ t.args \in Seq(Types)
      BY <1>2, <2>1, TypesAssumption DEF TypesAssumption
    <3> QED
      BY <3>1
  <2>3. IsSimple(t)
    BY <2>2 DEF IsSimple, IsGeneric
  <2>4. IsGivenName(other, t.id)
    BY <1>2, <1>6 DEF IsGivenName
  <2>5. ~NoneFound(crate, t.id)
    BY <1>6, <2>4 DEF NoneFound
  <2>6. IsNewName(t.id)
    BY <1>3, <1>6, <2>3, <2>5 DEF IsSettled
  <2>7. PICK d \in DOMAIN crates :
          \E new \in ToSet(crates[d].items) : new.kind # "const" /\ new.id.serdeRename /\ new.id.renamed = t.id
    BY <2>6 DEF IsNewName
  <2>8. PICK new \in ToSet(crates[d].items) :
          new.kind # "const" /\ new.id.serdeRename /\ new.id.renamed = t.id
    BY <2>7
  <2>9. new.generics = <<>>
    BY <2>8 DEF IsMisdeclared
  <2> QED
    BY <2>2, <2>8, <2>9 DEF DeclaredSomewhere
<1> QED
  BY <1>2, <1>4, <1>5, <1>6

LEMMA AllAreReferredTo ==
  ASSUME ReferencesInv
  PROVE  ReferencesDeclared
<1> DEFINE items == UNION {ToSet(crates[c].items) : c \in DOMAIN crates}
           names == UNION {modules[c].text.names : c \in DOMAIN modules}
<1> SUFFICES ASSUME Generated, PostModule \notin DOMAIN crates, IsClosed,
                    \A item \in items : ~IsMisdeclared(item),
                    NEW c \in DOMAIN modules, NEW ref \in modules[c].text.refs
             PROVE  ref \in names
  BY DEF ReferencesDeclared
<1>1. /\ Lang \in Languages /\ KeepsEmpty(backend.acronyms)
      /\ Lang \notin {"swift", "kotlin"} => backend.prefix = ""
  <2>1. PICK config : backend = Backend(config, Lang, Args.multiFile)
    BY DEF ReferencesInv, DeclaredInv, BackendMade
  <2>2. Lang \notin {"swift", "kotlin"} => Backend(config, Lang, Args.multiFile).prefix = ""
    BY DEF Backend
  <2> QED
    BY <2>1, <2>2, GeneratingHasLanguage DEF ReferencesInv, DeclaredInv, AcronymsKept
<1>2. ASSUME NEW d \in DOMAIN crates, NEW item \in ToSet(crates[d].items)
      PROVE  IsSound(item) /\ ~IsMisdeclared(item) /\ Keeps(WriteItemIn(Lang, backend, item), item)
  <2>1. IsSound(item) /\ ~IsMisdeclared(item)
    BY DEF ReferencesInv, SettledInv
  <2> QED
    BY <1>1, <2>1, ItemRefers
<1>3. ASSUME NEW d \in DOMAIN crates, NEW item \in ToSet(crates[d].items)
      PROVE  WriteItemIn(Lang, backend, item).names \subseteq names
  <2>1. d \in DOMAIN modules /\ d # PostModule
    BY DEF ReferencesInv, DeclaredInv, ItemsInv, TextsInv
  <2>2. PICK i \in DOMAIN crates[d].items : item = crates[d].items[i]
    BY DEF ToSet
  <2>3. HasWritten(modules[d], item)
    BY <2>1, <2>2 DEF ReferencesInv, DeclaredInv, ItemsInv, TextsInv
  <2>4. WriteItemIn(Lang, backend, item).names \subseteq modules[d].text.names
    BY <2>3 DEF HasWritten
  <2> QED
    BY <2>1, <2>4
<1>4. c \in DOMAIN crates /\ ReferredBy(ref, ToSet(crates[c].items))
  BY DEF ReferencesInv, ModulesRefer
<1>5. PICK item \in ToSet(crates[c].items) : ref \in WriteItemIn(Lang, backend, item).refs
  BY <1>4 DEF ReferredBy
<1>6. CASE ref \in WriteItemIn(Lang, backend, item).names
  BY <1>3, <1>4, <1>6
<1>7. CASE \E t \in TypesOfOthers(backend, item) : ref = <<Called(t.id), Len(t.args)>>
  <2>1. PICK t \in TypesOfOthers(backend, item) : ref = <<Called(t.id), Len(t.args)>>
    BY <1>7
  <2>2. /\ t \in TypesReferred(item) /\ ~IsSpecial(t) /\ t.id \notin ParametersOf(item)
        /\ <<t.id>> \notin DOMAIN backend.mappings
    BY DEF TypesOfOthers, UserTypes
  <2>3. IsDefined(t, item, c)
    BY <1>4, <2>2 DEF IsClosed
  <2>4. t \in Types
    BY <1>2, <1>4, <2>2, TypesInAre DEF IsSound, TypesReferred
  <2>5. \A d \in DOMAIN crates : \A i \in ToSet(crates[d].items) :
          i.kind # "const" => <<Called(i.id.renamed), Len(i.generics)>> \in names
    BY <1>2, <1>3 DEF Keeps
  <2>6. \A d \in DOMAIN crates : \A i \in ToSet(crates[d].items) : ~IsMisdeclared(i)
    BY <1>2
  <2> HIDE DEF names, items
  <2>7. DeclaredSomewhere(names, t)
    BY <1>4, <2>2, <2>3, <2>4, <2>5, <2>6, DefinedAreDeclared DEF ReferencesInv
  <2> QED
    BY <2>1, <2>7 DEF DeclaredSomewhere
<1> QED
  BY <1>2, <1>4, <1>5, <1>6, <1>7 DEF Keeps

(* The modules together declare each type that one of them refers to, with the
   number of parameters it gives it, if the sources define what they refer to
   and no item is one that its backend is known to misdeclare: whatever new
   names items have, and in whatever order reconcile_aliases finds them, the
   name in a reference is the one in the declaration. *)
THEOREM ReferencesAreDeclared == Spec => []ReferencesDeclared
<1>1. Init => ReferencesInv
  <2>1. Init => /\ ~Generated /\ phase = "starting"
                /\ backend = NoBackend
    BY DEF Init, Generated
  <2>2. NoBackend.acronyms = <<>> /\ DOMAIN <<>> = {}
    BY DEF NoBackend, Backend, DefaultConfig, NoMappings
  <2> QED
    BY <2>1, <2>2, ItemsInitially, ConfigInitially
    DEF ReferencesInv, DeclaredInv, BackendMade, SettledInv, AcronymsKept, KeepsEmpty, TextRefers, ModulesRefer
<1>2. ReferencesInv /\ [Next]_vars => ReferencesInv'
  BY ReferencesStep
<1>3. ReferencesInv => ReferencesDeclared
  BY AllAreReferredTo
<1> QED
  BY <1>1, <1>2, <1>3, PTL DEF Spec

==============================================================================

----------------------------- MODULE MCTypeshare -----------------------------
(***************************************************************************)
(* Worlds for module Typeshare: small sources, each with the items that    *)
(* make one thing happen, in all languages, and sources, directories and   *)
(* arguments that only differ in what the configuration, the attributes    *)
(* and the imports are about.                                              *)
(***************************************************************************)
EXTENDS TypeshareProperties

-----------------------------------------------------------------------------
(* Syntax *)
T(id) == SynType("Path", id, id, <<>>)
Of(id, args) == SynType("Path", id, id, args)
VecOf(ty) == Of("Vec", <<ty>>)
OptionOf(ty) == Of("Option", <<ty>>)
ArrayOf(ty) == SynType("Array", "", "", <<ty>>)
Unit == SynType("Tuple", "", "", <<>>)

Marked == Path("typeshare")
Serde(metas) == List("serde", metas)
Tagged == Serde(<<NameValue("tag", "t"), NameValue("content", "c")>>)
Rename(name) == Serde(<<NameValue("rename", name)>>)
Skip == Serde(<<Path("skip")>>)
Default == Serde(<<Path("default")>>)
ForTypeshare(metas) == List("typeshare", metas)
With(syntax, attrs) == [syntax EXCEPT !.attrs = attrs \o @]

Field(ident, ty) == [ident |-> ident, attrs |-> <<>>, ty |-> ty]
Fields(style, list) == [style |-> style, list |-> list]
Struct(ident, generics, list) ==
  [kind |-> "struct", ident |-> ident, attrs |-> <<Marked>>, paths |-> {}, generics |-> generics,
   fields |-> Fields("Named", list)]
Tuple(ident, list) == [Struct(ident, <<>>, list) EXCEPT !.fields.style = "Unnamed"]
Variant(ident, style, list) == [ident |-> ident, attrs |-> <<>>, fields |-> Fields(style, list)]
Enum(ident, generics, variants) ==
  [kind |-> "enum", ident |-> ident, attrs |-> <<Marked>>, paths |-> {}, generics |-> generics,
   variants |-> variants]
Algebraic(ident, generics, variants) == With(Enum(ident, generics, variants), <<Tagged>>)
TypeItem(ident, generics, ty) ==
  [kind |-> "type", ident |-> ident, attrs |-> <<Marked>>, paths |-> {}, generics |-> generics, ty |-> ty]
Const(ident, ty, expr) ==
  [kind |-> "const", ident |-> ident, attrs |-> <<Marked>>, paths |-> {}, generics |-> <<>>, ty |-> ty,
   expr |-> expr]
Mentions(ident, paths) ==
  [Struct(ident, <<>>, <<>>) EXCEPT !.attrs = <<>>, !.paths = paths]
Mod(items) == [kind |-> "mod", items |-> items]
Use(tree) == [kind |-> "use", tree |-> tree]

FooU8 == Struct("Foo", <<>>, <<Field("a", T("u8"))>>)
BarOf(ty) == Struct("Bar", <<>>, <<Field("bC", ty)>>)
FooOf(ty) == Struct("Foo", <<>>, <<Field("a", ty)>>)
Variants(ty) == <<Variant("A", "Unit", <<>>), Variant("B", "Unnamed", <<Field("", ty)>>),
                  Variant("C", "Named", <<Field("a", ty)>>)>>

VariantOfT == Variant("B", "Unnamed", <<Field("", T("T"))>>)

(* Items that refer to one another, all that they refer to among them. *)
Closed ==
  LET G == Struct("Foo", <<"T">>, <<Field("a", VecOf(T("T")))>>)
      E == Algebraic("Baz", <<>>, Variants(T("Foo")))
      GE == Algebraic("Baz", <<"T">>, Append(Variants(T("T")),
                        Variant("Foo", "Named", <<Field("a", T("u16"))>>)))
  IN  {<<FooOf(OptionOf(T("String"))), BarOf(T("Foo"))>>,
       <<G, BarOf(Of("Foo", <<T("u8")>>))>>,
       <<G, E, FooU8>>, <<E, FooU8>>, <<GE>>, <<GE, BarOf(Of("Baz", <<T("bool")>>))>>,
       <<Enum("Foo", <<>>, <<Variant("A", "Unit", <<>>), Variant("B", "Unit", <<>>)>>),
         BarOf(OptionOf(T("Foo")))>>,
       <<Enum("Foo", <<"T">>, <<Variant("A", "Unit", <<>>),
                               With(VariantOfT, <<Skip>>)>>)>>,
       <<TypeItem("Id", <<>>, T("u32")), BarOf(T("Id")), TypeItem("Item", <<>>, VecOf(T("Id")))>>,
       <<TypeItem("Id", <<"T">>, VecOf(T("T"))), BarOf(Of("Id", <<T("bool")>>))>>,
       <<Tuple("Id", <<Field("", T("String"))>>), FooOf(T("Id"))>>,
       <<With(Tuple("Id", <<Field("", T("String"))>>),
              <<ForTypeshare(<<NameValue("kotlin", {"JvmInline"})>>)>>), FooOf(T("Id"))>>,
       <<Struct("Foo", <<>>, <<>>), BarOf(T("Foo"))>>,
       <<Struct("Foo", <<"T">>, <<With(Field("a", T("T")), <<Skip>>)>>),
         BarOf(Of("Foo", <<T("u8")>>))>>,
       <<FooOf(Of("Box", <<T("Bar")>>)), BarOf(SynType("Slice", "", "", <<T("bool")>>))>>,
       <<FooOf(Of("HashMap", <<T("String"), T("Bar")>>)), BarOf(T("i32"))>>,
       <<With(FooU8, <<Rename("Renamed")>>), BarOf(VecOf(T("Foo")))>>,
       <<With(FooU8, <<Rename("Renamed")>>), TypeItem("Id", <<>>, T("Foo"))>>,
       <<With(FooU8, <<Rename("Renamed")>>), E>>,
       <<With(TypeItem("Id", <<"T">>, VecOf(T("T"))),
              <<ForTypeshare(<<NameValue("kotlin", {"JvmInline"})>>)>>),
         BarOf(Of("Id", <<T("u8")>>))>>,
       <<With(G, <<Rename("Renamed")>>), BarOf(Of("Foo", <<T("bool")>>))>>,
       <<With(Algebraic("Foo", <<>>, Variants(T("bool"))), <<Rename("Renamed")>>),
         BarOf(T("Foo"))>>,
       <<With(TypeItem("Foo", <<>>, T("bool")), <<Rename("Renamed")>>), BarOf(T("Foo"))>>,
       <<Struct("Foo", <<"T">>, <<Field("a", Of("HashMap", <<T("T"), T("u8")>>))>>)>>,
       <<With(FooU8, <<ForTypeshare(<<NameValue("serialized_as", T("String"))>>)>>),
         BarOf(T("Foo"))>>,
       <<Const("MAX", T("u32"), <<"Int">>), FooU8>>, <<Const("Id", T("bool"), <<"Int">>)>>}

(* Items of types that are special to some backend. *)
Exotic ==
  {<<FooOf(ty)>> : ty \in {Unit, VecOf(Unit), VecOf(T("u8")), VecOf(VecOf(T("u8"))),
                           OptionOf(T("u32")), OptionOf(OptionOf(T("bool"))), T("Url"),
                           ArrayOf(T("u16")), VecOf(ArrayOf(T("U53"))),
                           SynType("Reference", "", "", <<SynType("Slice", "", "", <<T("u8")>>)>>),
                           T("OffsetDateTime"), OptionOf(T("OffsetDateTime")), T("DateTime"),
                           T("Date")}}
  \cup {<<Struct("Foo", <<>>, <<With(Field("a", ty), <<Default>>)>>)>> :
          ty \in {T("bool"), T("OffsetDateTime")}}
  \cup {<<With(item, <<Serde(<<NameValue("rename_all", case)>>)>>)>> :
          item \in {BarOf(T("bool")), Algebraic("Foo", <<>>, Variants(T("bool")))},
          case \in {"lowercase", "camelCase", "snake_case", "kebab-case", "PascalCase",
                   "SCREAMING_SNAKE_CASE", "Train-Case"}}
  \cup {<<Algebraic("Foo", <<>>, Variants(ty))>> : ty \in {Unit, T("u8"), T("OffsetDateTime")}}
  \cup {<<TypeItem("Foo", <<>>, ty)>> : ty \in {Unit, VecOf(T("u8")), T("OffsetDateTime")}}
  \cup {<<Struct("Foo", <<>>, <<With(Field("a", T("Bar")),
           <<ForTypeshare(<<List(language, <<NameValue("type", "bytes")>>)>>)>>)>>),
           BarOf(T("bool"))>> :
          language \in Languages}

(* Items that do not parse, and items that make the parser panic. *)
Wrong ==
  {<<item, BarOf(T("bool"))>> : item \in
     {Tuple("Foo", <<Field("", T("u8")), Field("", T("u8"))>>), FooOf(T("u64")),
      FooOf(SynType("Tuple", "", "", <<T("u8")>>)), FooOf(SynType("Never", "", "", <<>>)),
      Struct("Foo", <<>>, <<With(Field("a", T("Bar")), <<Serde(<<Path("flatten")>>)>>)>>),
      Enum("Foo", <<>>, Variants(T("u8"))),
      With(Enum("Foo", <<>>, Variants(T("u8"))), <<Serde(<<NameValue("tag", "t")>>)>>),
      Algebraic("Foo", <<>>, <<Variant("A", "Unit", <<>>)>>),
      With(Enum("Foo", <<>>, <<>>), <<Serde(<<NameValue("content", "c")>>)>>),
      Algebraic("Foo", <<>>,
                <<Variant("A", "Unnamed", <<Field("", T("u8")), Field("", T("u8"))>>)>>),
      Algebraic("Foo", <<>>, <<Variant("A", "Named", <<Field("a", T("i64"))>>)>>),
      TypeItem("Foo", <<>>, T("usize")), Const("MAX", T("String"), <<"Str">>),
      Const("MAX", VecOf(T("u8")), <<"Int">>), Const("MAX", T("u64"), <<"Int">>),
      Tuple("Foo", <<>>), FooOf(T("Vec")),
      Algebraic("Foo", <<>>, <<Variant("A", "Unnamed", <<>>)>>),
      Struct("Foo", <<>>, <<With(Field("a", T("u8")), <<ForTypeshare(<<List("rust", <<>>)>>)>>)>>)}}

-----------------------------------------------------------------------------
(* cfg attributes and the skipping of parts of items *)
Os(name) == NameValue("target_os", name)
Feature == NameValue("feature", "x")
Not(meta) == List("not", <<meta>>)
AnyOf(metas) == List("any", metas)
AllOf(metas) == List("all", metas)
Cfg(meta) == List("cfg", <<meta>>)

Ios == Os("ios")
Android == Os("android")
CfgMetas == {Ios, Android, Feature, AnyOf(<<Ios, Android>>), Not(Ios), Not(AnyOf(<<Ios, Android>>)),
          AllOf(<<Feature, Ios>>), AllOf(<<Not(Ios), Not(Android)>>), AllOf(<<Ios, Not(Android)>>),
          AnyOf(<<Feature, Ios>>), Not(Not(Ios)), Not(AllOf(<<Ios, Feature>>)), Not(Feature),
             AnyOf(<<>>), AllOf(<<>>), AllOf(<<AnyOf(<<Ios, Android>>), Path("unix"), Not(Path("test"))>>),
             AllOf(<<Literal, Ios>>)}
Targets == {{}, {"ios"}, {"android"}, {"linux"}, {"ios", "android"}}

FieldA == Field("a", T("u8"))
VariantA == Variant("A", "Unit", <<>>)
VariantB == Variant("B", "Unnamed", <<Field("", T("u8"))>>)
PartlySkipped(attrs) ==
  {<<With(FooU8, attrs)>>, <<With(Const("MAX", T("u8"), <<"Int">>), attrs)>>,
   <<Struct("Foo", <<>>, <<Field("bC", T("bool")), With(FieldA, attrs)>>)>>,
   <<Struct("Foo", <<>>, <<With(Field("a", T("u64")), attrs)>>)>>,
   <<Enum("Foo", <<>>, <<VariantA, With(VariantB, attrs)>>)>>,
   <<Algebraic("Foo", <<>>, <<VariantA, With(VariantB, attrs)>>)>>,
   <<Algebraic("Foo", <<>>,
       <<Variant("C", "Named", <<FieldA, With(Field("bC", T("Bar")), attrs)>>)>>),
     Struct("Bar", <<>>, <<>>)>>,
   <<Algebraic("Foo", <<>>, <<Variant("B", "Unnamed", <<With(Field("", T("u8")), attrs)>>)>>)>>,
   <<Tuple("Foo", <<With(Field("", T("u8")), attrs)>>)>>}

-----------------------------------------------------------------------------
(* use items *)
PathTo(name, tree) == [kind |-> "Path", name |-> name, tree |-> tree]
Name(name) == [kind |-> "Name", name |-> name]
Renamed(name) == [kind |-> "Rename", name |-> name]
Glob == [kind |-> "Glob"]
Group(items) == [kind |-> "Group", items |-> items]

UseTrees ==
  {PathTo("other", Name("Foo")), PathTo("other", PathTo("inner", Name("Foo"))),
   PathTo("other", PathTo("inner", Glob)), PathTo("std", Name("Foo")),
   PathTo("other", Group(<<Name("Foo"), PathTo("inner", Name("Baz")), Name("a"), Name("Vec")>>)),
   PathTo("other", Group(<<PathTo("std", Name("Foo")), Glob,
                           PathTo("b", Group(<<Name("Url")>>))>>)),
   PathTo("crate", PathTo("inner", Name("Foo"))), PathTo("super", Group(<<Name("Foo"), Glob>>)),
   PathTo("other", Renamed("Foo")), PathTo("other", Group(<<Renamed("Foo"), Name("Baz"), Group(<<>>)>>)),
   PathTo("other", Group(<<>>)), Group(<<PathTo("other", Name("Foo")), Group(<<>>)>>),
   Group(<<PathTo("other", Name("Foo")), PathTo("b", Name("Baz"))>>),
   Name("other"), Glob}

-----------------------------------------------------------------------------
File(path, items) ==
  [path |-> path, marked |-> TRUE, parses |-> TRUE, attrs |-> <<>>, items |-> items]
Lib(crate) == <<crate, "src", "lib.rs">>

Run(language, isMultiFile) ==
  [generateConfig |-> FALSE, configFile |-> <<>>, language |-> language,
   multiFile |-> isMultiFile, options |-> NoMappings, targetOs |-> {}]
For(targets, r) == [r EXCEPT !.targetOs = targets]
WithOptions(given, r) == [r EXCEPT !.options = given]
GenerateConfigRun(given) ==
  [WithOptions(given, Run("none", FALSE)) EXCEPT !.generateConfig = TRUE]

Cwd == <<"home", "work">>
Here == Append(Cwd, FileName)
World(files, config, runs) ==
  [files |-> files, cwd |-> Cwd, tomls |-> Here :> config, runs |-> runs]

Plain ==
  [DefaultConfig EXCEPT !.settings["scala-package"] = "plain", !.settings["go-package"] = "plain"]
Full ==
  [settings |-> "java-package" :> "plain" @@ "scala-package" :> "dotted" @@ "go-package" :> "plain"
                @@ "swift-prefix" :> "Pre" @@ "kotlin-prefix" :> "Pre" @@ DefaultConfig.settings,
   mappings |-> [language \in Languages |->
                   <<"Url">> :> "other" @@ <<"DateTime">> :> "datetime" @@ <<"Date">> :> "datetime" @@
                   CASE language = "typescript" -> <<"Vec", "u8">> :> "Uint8Array"
                     [] language = "python" -> <<"Vec", "u8">> :> "bytes"
                     [] OTHER -> NoMappings],
   acronyms |-> "Id" :> "ID"]

ItemWorlds ==
  {World({File(Lib("b"), items)}, config, <<Run(language, isMultiFile)>>) :
     items \in Closed \cup Exotic, config \in {Plain, Full}, language \in Languages,
     isMultiFile \in BOOLEAN}
  \cup {World({File(Lib("b"), items)}, DefaultConfig, <<Run(language, FALSE)>>) :
          items \in Wrong \cup {<<FooU8>>}, language \in {"swift", "scala"}}

(* Two crates, the second of which may have what the first one needs. *)
CrateWorlds ==
  {World({File(Lib("b"), items), File(Lib("other"), <<other>>)}, Full, <<Run(language, TRUE)>>) :
     items \in {<<Use(PathTo("other", Name("Foo"))), BarOf(T("Foo"))>>, <<BarOf(T("bool"))>>,
               <<BarOf(SynType("Path", "other", "Foo", <<>>))>>},
     other \in {FooOf(Unit), FooOf(T("OffsetDateTime")), FooOf(VecOf(T("u8"))),
               With(FooOf(T("bool")), <<Rename("Renamed")>>)},
     language \in Languages}
  \cup {World({File(Lib("b"), <<FooOf(Unit)>>), File(Lib("Codable"), <<BarOf(T("bool"))>>)}, Full,
              <<Run(language, TRUE)>>) : language \in Languages}

(* Two files, one of them with items in a module or not Rust, in one or two
   crates. *)
PathWorlds ==
  {World({File(path, <<FooU8>>),
          [File(other, <<Mod(<<BarOf(T("bool"))>>), Const("MAX", T("u8"), <<"Int">>)>>)
             EXCEPT !.marked = m, !.parses = p]}, Full, <<Run("go", isMultiFile)>>) :
     path \in {<<"b", "src", "lib.rs">>, <<"src", "lib.rs">>},
     other \in {<<"b", "src", "inner", "mod.rs">>, <<"b", "src", "other", "src", "lib.rs">>,
                <<"b", "tests", "main.rs">>},
     m \in BOOLEAN, p \in BOOLEAN, isMultiFile \in BOOLEAN}
  \cup {World({File(Lib("b"), <<Tuple("Foo", <<>>)>>),
                [File(Lib("other"), <<FooU8>>) EXCEPT !.parses = p]}, Full, <<Run("go", FALSE)>>) :
          p \in BOOLEAN}

CfgWorlds ==
  {World({File(Lib("b"), items)}, Full, <<For(targets, Run("typescript", FALSE))>>) :
     items \in UNION {PartlySkipped(attrs) :
                        attrs \in {<<Cfg(tree)>> : tree \in CfgMetas}
                                  \cup {<<Cfg(Not(Ios)), Cfg(Not(Android))>>, <<Skip>>,
                                        <<ForTypeshare(<<Path("skip")>>)>>,
                                        <<Cfg(List("any", <<Literal>>))>>}},
     targets \in Targets}
  \cup {World({[File(Lib("b"), <<FooU8>>) EXCEPT !.attrs = <<Cfg(tree)>>],
               File(Lib("other"), <<With(BarOf(T("bool")), <<Cfg(Feature)>>)>>)}, Full,
              <<For(targets, Run("typescript", TRUE))>>) : tree \in CfgMetas, targets \in Targets}

(* The paths in a function, say. *)
FunctionPaths ==
  {Import("other", "Foo"), Import("other", "a"), Import("std", "Baz"), Import("Foo", "Baz"),
   Import("crate", "Baz")}

UseWorlds ==
  {World({File(Lib("b"), uses \o <<BarOf(ty)>>), File(Lib("other"), <<FooU8>>)}, config,
         <<Run("typescript", TRUE)>>) :
     uses \in {<<Use(tree)>> : tree \in UseTrees} \cup {<<Mentions("Url", FunctionPaths)>>}
              \cup {<<Use(PathTo("inner", Name("Baz"))), Use(tree)>> : tree \in UseTrees},
     config \in {Plain, Full},
     ty \in {T("Foo"), SynType("Path", "other", "Baz", <<>>), SynType("Path", "self", "Baz", <<>>)}}

Home == <<"home", FileName>>
OtherPath == <<"etc", "other.toml">>
NoGo == [DefaultConfig EXCEPT !.settings["swift-prefix"] = "Home"]
ConfigWorlds ==
  {[World({File(Lib("b"), <<FooU8>>)}, DefaultConfig, runs) EXCEPT !.tomls = files] :
     files \in {NoMappings, Home :> NoGo, Here :> Full, Home :> NoGo @@ Here :> Full,
                <<FileName>> :> Full @@ OtherPath :> NoGo, OtherPath :> Full @@ Home :> NoGo,
                Here :> Fail("malformed")},
     runs \in UNION {{<<r>>, <<[r EXCEPT !.configFile = OtherPath]>>,
                      <<GenerateConfigRun(given), r>>,
                      <<[GenerateConfigRun(given) EXCEPT !.language = "go"], r>>,
                      <<GenerateConfigRun(given), GenerateConfigRun(NoMappings), r>>,
                      <<[GenerateConfigRun(given) EXCEPT !.configFile = OtherPath],
                        [r EXCEPT !.configFile = OtherPath]>>} :
                       r \in {Run(language, FALSE) : language \in {"swift", "kotlin", "go"}}
                             \cup {WithOptions("swift-prefix" :> "Arg", Run("swift", TRUE))},
                       given \in {NoMappings, "swift-prefix" :> "Arg" @@ "java-package" :> "plain"
                                                @@ "go-package" :> "plain"}}}

MCWorlds ==
  ItemWorlds \cup CrateWorlds \cup PathWorlds \cup CfgWorlds \cup UseWorlds \cup ConfigWorlds

(* The items of all worlds, with those of their modules. *)
TopItems == UNION {ToSet(file.items) : file \in UNION {w.files : w \in MCWorlds}}
Nested == UNION {ToSet(item.items) : item \in {i \in TopItems : i.kind = "mod"}}
MCItems == TopItems \cup Nested

(* The metas in cfg attributes, the use trees and the types of all items. *)
Parts(item) ==
  CASE item.kind = "struct" -> ToSet(item.fields.list)
    [] item.kind = "enum" ->
         ToSet(item.variants) \cup UNION {ToSet(v.fields.list) : v \in ToSet(item.variants)}
    [] OTHER -> {}
Declared == {item \in MCItems : item.kind \notin {"mod", "use"}}
AllAttrs ==
  UNION {ToSet(file.attrs) : file \in UNION {w.files : w \in MCWorlds}}
  \cup UNION {ToSet(item.attrs) : item \in Declared}
  \cup UNION {ToSet(part.attrs) : part \in UNION {Parts(item) : item \in Declared}}

RECURSIVE MetasIn(_), TreesIn(_), SynTypesIn(_), ArgumentsOf(_), WithRenamed(_)
MetasIn(meta) ==
  {meta} \cup IF meta.kind = "List" THEN UNION {MetasIn(m) : m \in ToSet(meta.nested)} ELSE {}
MCMetas ==
  LET metas == UNION {ToSet(GetMetaItems(attr, "cfg")) : attr \in AllAttrs}
  IN  UNION {MetasIn(meta) : meta \in metas}

TreesIn(tree) ==
  {tree} \cup CASE tree.kind = "Path"  -> TreesIn(tree.tree)
               [] tree.kind = "Group" -> UNION {TreesIn(t) : t \in ToSet(tree.items)}
               [] OTHER -> {}
MCTrees ==
  LET uses == {item \in MCItems : item.kind = "use"}
  IN  UNION {TreesIn(item.tree) : item \in uses}

SynTypesIn(ty) == {ty} \cup UNION {SynTypesIn(arg) : arg \in ToSet(ty.args)}
TypesOf(item) ==
  ToSet(GetNameValueMetaItems(item.attrs, "serialized_as", "typeshare")) \cup
  CASE item.kind \in {"type", "const"} -> {item.ty}
    [] OTHER -> {part.ty : part \in {p \in Parts(item) : "ty" \in DOMAIN p}}
MCSynTypes ==
  LET types == UNION {TypesOf(item) : item \in Declared}
  IN  UNION {SynTypesIn(ty) : ty \in types}

(* Foo is renamed in some of the worlds. *)
ArgumentsOf(ty) == {ty} \cup UNION {ArgumentsOf(arg) : arg \in ToSet(ty.args)}
WithRenamed(ty) ==
  IF ty.args = <<>> THEN {ty} \cup IF ty.id = "Foo" THEN {RustType("Renamed", <<>>)} ELSE {}
  ELSE LET choices == [i \in DOMAIN ty.args |-> WithRenamed(ty.args[i])]
       IN  {RustType(ty.id, args) :
              args \in {a \in [DOMAIN choices -> UNION Range(choices)] :
                          \A i \in DOMAIN choices : a[i] \in choices[i]}}
MCTypes ==
  LET converted == UNION {ArgumentsOf(ty) : ty \in {t \in Range(TryFrom) : ~IsFailure(t)}}
  IN  UNION {WithRenamed(ty) : ty \in converted}
=============================================================================

------------------------------- MODULE Scala --------------------------------
(***************************************************************************)
(* The Scala backend, core/src/language/scala.rs. It writes aliases, then  *)
(* structs, then enums, and no constants. Scala has no unsigned integers:  *)
(* the head of the file declares aliases for them if it finds one used.    *)
(* Packages are of the form "plain" or "dotted" (a.b); the braces of a     *)
(* package are counted as something its end needs and its begin records.   *)
(***************************************************************************)
EXTENDS Language

ScalaUnsignedIds == {"u8", "u16", "u32", "U53"}

ScalaFormatType(cfg, generics, ty) ==
  LET mapped == UserMappings(cfg)
      types == Formatted(ty, mapped)
  IN  Texts(<<FormatUserTypes(types, "", mapped, generics),
              IF Special(types, mapped) \cap ScalaUnsignedIds = {} THEN Empty
              ELSE Needs({"UnsignedAliases"}),
              IF "OffsetDateTime" \in Special(types, mapped) THEN Fails("error") ELSE Empty>>)

ScalaFormatTypes(cfg, generics, types) == [ty \in types |-> ScalaFormatType(cfg, generics, ty)]

(* A type itself, or the parameters of a Vec, Option, HashMap or generic type,
   but not what is in these. *)
ScalaLooksAt(ty) ==
  IF IsGeneric(ty) \/ ty.id \in {"Option", "Vec", "HashMap"} THEN ToSet(ty.args) ELSE {ty}

(* Only the fields of structs are looked at. *)
ScalaUnsignedFieldUsed(items) ==
  \E item \in {i \in items : i.kind = "struct"} : \E ty \in TypesOfItem(item) :
    \E t \in ScalaLooksAt(ty) : t.id \in ScalaUnsignedIds

(* unsigned_integer_used *)
ScalaUnsignedIntegerUsed(items) ==
  \E item \in {i \in items : i.kind # "const"} : \E ty \in TypesOfItem(item) :
    \E t \in ScalaLooksAt(ty) : t.id \in ScalaUnsignedIds

ScalaPackage(cfg) == Both(Needs({"}"}), IF cfg.package = "dotted" THEN Records({"}"}) ELSE Empty)

(* begin_file, and the package objects and packages around the items. *)
ScalaBeginFile(cfg, items) ==
  LET unsigned == ScalaUnsignedIntegerUsed(items)
      HasKind(kinds) == \E item \in items : item.kind \in kinds
  IN  Texts(<<IF cfg.package = "" THEN Fails("panic") ELSE Empty,
              IF unsigned \/ HasKind({"alias"}) THEN ScalaPackage(cfg) ELSE Empty,
              IF unsigned THEN Records({"UnsignedAliases"}) ELSE Empty,
              IF HasKind({"struct", "enum"}) THEN ScalaPackage(cfg) ELSE Empty>>)
ScalaEndFile(cfg, recorded) == {}
ScalaPostGeneration(cfg, recorded) == {}

(* An alias goes by its name in Rust. *)
ScalaWriteTypeAlias(cfg, alias) ==
  Both(Declares(<<"", alias.id.original>>, alias.generics),
       ScalaFormatType(cfg, alias.generics, alias.ty))

ScalaWriteStructNamed(cfg, parts, fields, generics) ==
  Both(Declares(parts, IF fields = <<>> THEN <<>> ELSE generics),
       WriteFields("scala", fields, ScalaFormatTypes(cfg, generics, TypesOfFields(fields))))

ScalaWriteStruct(cfg, struct) ==
  ScalaWriteStructNamed(cfg, <<"", struct.id.renamed>>, struct.fields, struct.generics)

(* write_types_for_anonymous_structs *)
ScalaWriteAnonymousStructs(cfg, enum, parts) ==
  LET structs == AnonymousStructs(enum)
  IN  Texts([i \in DOMAIN structs |->
               ScalaWriteStructNamed(cfg, parts \o structs[i].name, structs[i].fields,
                                     structs[i].generics)])

(* As in Kotlin, the variants refer to the enum by its name in Rust; those of
   a unit enum by the generated name, but without its parameters. *)
ScalaWriteEnumVariants(cfg, enum) ==
  LET parts == <<"", enum.id.original>>
  IN  CASE enum.variants = <<>> -> Empty
        [] enum.unit /\ enum.variants # <<>> -> RefersTo(<<"", enum.id.renamed>>, <<>>)
        [] OTHER ->
             Both(WriteVariants(enum, parts, ScalaFormatTypes(cfg, enum.generics, TypesOfItem(enum))),
                  RefersTo(parts, enum.generics))

ScalaWriteEnum(cfg, enum) ==
  LET parts == <<"", enum.id.renamed>>
  IN  Texts(<<ScalaWriteAnonymousStructs(cfg, enum, parts), Declares(parts, enum.generics),
              ScalaWriteEnumVariants(cfg, enum)>>)

(* generate_types; constants are not written. *)
ScalaWriteItem(cfg, item) ==
  CASE item.kind = "alias"  -> ScalaWriteTypeAlias(cfg, item)
    [] item.kind = "struct" -> ScalaWriteStruct(cfg, item)
    [] item.kind = "enum"   -> ScalaWriteEnum(cfg, item)
    [] item.kind = "const"  -> Empty
=============================================================================

------------------------------- MODULE Kotlin -------------------------------
(***************************************************************************)
(* The Kotlin backend, core/src/language/kotlin.rs. Everything but a plain *)
(* alias is annotated with names imported by the head of the file, which   *)
(* is only there if the module has a package.                              *)
(***************************************************************************)
EXTENDS Language

KotlinFormatType(cfg, generics, ty) ==
  LET mapped == UserMappings(cfg)
      types == Formatted(ty, mapped)
  IN  Both(FormatUserTypes(types, cfg.prefix, mapped, generics),
           IF "OffsetDateTime" \in Special(types, mapped) THEN Fails("error") ELSE Empty)

KotlinFormatTypes(cfg, generics, types) == [ty \in types |-> KotlinFormatType(cfg, generics, ty)]

KotlinSerializable == Needs({"Serializable"})

KotlinBeginFile(cfg) == IF cfg.package = "" THEN Empty ELSE Records({"Serializable"})
KotlinEndFile(cfg, recorded) == {}
KotlinPostGeneration(cfg, recorded) == {}

KotlinIsInline(alias) == "JvmInline" \in alias.decorators["kotlin"]

(* An inline alias is a class without type parameters. The alias of the other
   kind goes by its name in Rust. *)
KotlinWriteTypeAlias(cfg, alias) ==
  IF KotlinIsInline(alias)
  THEN Texts(<<KotlinSerializable, Declares(<<cfg.prefix, alias.id.renamed>>, <<>>),
               KotlinFormatType(cfg, <<>>, alias.ty)>>)
  ELSE Both(Declares(<<cfg.prefix, alias.id.original>>, alias.generics),
            KotlinFormatType(cfg, alias.generics, alias.ty))

KotlinWriteConst(cfg, const) == Fails("panic")

(* A struct without fields is an object, which has no type parameters. *)
KotlinWriteStructNamed(cfg, parts, fields, generics) ==
  Texts(<<KotlinSerializable, Declares(parts, IF fields = <<>> THEN <<>> ELSE generics),
          WriteFields("kotlin", fields, KotlinFormatTypes(cfg, generics, TypesOfFields(fields)))>>)

KotlinWriteStruct(cfg, struct) ==
  KotlinWriteStructNamed(cfg, <<cfg.prefix, struct.id.renamed>>, struct.fields, struct.generics)

(* write_types_for_anonymous_structs *)
KotlinWriteAnonymousStructs(cfg, enum, parts) ==
  LET structs == AnonymousStructs(enum)
  IN  Texts([i \in DOMAIN structs |->
               KotlinWriteStructNamed(cfg, parts \o structs[i].name, structs[i].fields,
                                      structs[i].generics)])

(* The variants of an algebraic enum refer to their structs, and to the enum
   they extend, by its name in Rust. *)
KotlinWriteEnumVariants(cfg, enum) ==
  LET parts == <<cfg.prefix, enum.id.original>>
  IN  IF enum.unit \/ enum.variants = <<>> THEN Empty
      ELSE Both(WriteVariants(enum, parts, KotlinFormatTypes(cfg, enum.generics, TypesOfItem(enum))),
                RefersTo(parts, enum.generics))

KotlinWriteEnum(cfg, enum) ==
  LET parts == <<cfg.prefix, enum.id.renamed>>
  IN  Texts(<<KotlinWriteAnonymousStructs(cfg, enum, parts), KotlinSerializable,
              Declares(parts, enum.generics), KotlinWriteEnumVariants(cfg, enum)>>)

(* An item of generate_types, Language's own. *)
KotlinWriteItem(cfg, item) ==
  CASE item.kind = "alias"  -> KotlinWriteTypeAlias(cfg, item)
    [] item.kind = "struct" -> KotlinWriteStruct(cfg, item)
    [] item.kind = "enum"   -> KotlinWriteEnum(cfg, item)
    [] item.kind = "const"  -> KotlinWriteConst(cfg, item)
=============================================================================

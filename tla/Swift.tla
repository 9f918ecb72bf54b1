------------------------------- MODULE Swift --------------------------------
(***************************************************************************)
(* The Swift backend, core/src/language/swift.rs. Rust's () becomes a      *)
(* struct CodableVoid that the backend remembers to generate. Names of     *)
(* members, coding keys and the protocols of a type are left out.          *)
(***************************************************************************)
EXTENDS Language

SwiftFormatType(cfg, generics, ty) ==
  LET mapped == UserMappings(cfg)
      types == Formatted(ty, mapped)
  IN  Texts(<<FormatUserTypes(types, cfg.prefix, mapped, generics),
              IF "()" \in Special(types, mapped) THEN Requires({"CodableVoid"}) ELSE Empty,
              IF "OffsetDateTime" \in Special(types, mapped) THEN Fails("error") ELSE Empty>>)

SwiftFormatTypes(cfg, generics, types) == [ty \in types |-> SwiftFormatType(cfg, generics, ty)]

SwiftBeginFile(cfg) == Empty

(* In multi-file mode CodableVoid goes into a module of its own, once all
   others are written (post_generation). *)
SwiftEndFile(cfg, recorded) == IF cfg.multiFile THEN {} ELSE recorded \cap {"CodableVoid"}
SwiftPostGeneration(cfg, recorded) == IF cfg.multiFile THEN recorded \cap {"CodableVoid"} ELSE {}

SwiftWriteTypeAlias(cfg, alias) ==
  Both(Declares(<<cfg.prefix, alias.id.renamed>>, alias.generics),
       SwiftFormatType(cfg, alias.generics, alias.ty))

SwiftWriteConst(cfg, const) == Fails("panic")

SwiftWriteStructNamed(cfg, parts, fields, generics) ==
  Both(Declares(parts, generics),
       WriteFields("swift", fields, SwiftFormatTypes(cfg, generics, TypesOfFields(fields))))

SwiftWriteStruct(cfg, struct) ==
  SwiftWriteStructNamed(cfg, <<cfg.prefix, struct.id.renamed>>, struct.fields, struct.generics)

(* write_types_for_anonymous_structs *)
SwiftWriteAnonymousStructs(cfg, enum, parts) ==
  LET structs == AnonymousStructs(enum)
  IN  Texts([i \in DOMAIN structs |->
               SwiftWriteStructNamed(cfg, parts \o structs[i].name, structs[i].fields,
                                     structs[i].generics)])

SwiftWriteEnum(cfg, enum) ==
  LET parts == <<cfg.prefix, enum.id.renamed>>
  IN  Texts(<<SwiftWriteAnonymousStructs(cfg, enum, parts), Declares(parts, enum.generics),
              WriteVariants(enum, parts, SwiftFormatTypes(cfg, enum.generics, TypesOfItem(enum)))>>)

(* An item of generate_types, Language's own. *)
SwiftWriteItem(cfg, item) ==
  CASE item.kind = "alias"  -> SwiftWriteTypeAlias(cfg, item)
    [] item.kind = "struct" -> SwiftWriteStruct(cfg, item)
    [] item.kind = "enum"   -> SwiftWriteEnum(cfg, item)
    [] item.kind = "const"  -> SwiftWriteConst(cfg, item)
=============================================================================

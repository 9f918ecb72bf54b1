----------------------------- MODULE TypeScript -----------------------------
(***************************************************************************)
(* The TypeScript backend, core/src/language/typescript.rs. Anonymous      *)
(* structs are written in place. A field of a type that JSON does not have *)
(* makes the end of the file define functions that convert it; the types   *)
(* they are for are collected in a field that no module clears.            *)
(***************************************************************************)
EXTENDS Language

TypeScriptCustomTranslations == {"Date", "Uint8Array"}

(* What a type is written as, if that is a name in CustomTranslations. *)
TypeScriptWritten(cfg, ty) ==
  LET Type[t \in Types] ==
        IF Key(t) \in DOMAIN cfg.mappings THEN cfg.mappings[Key(t)]
        ELSE CASE t.id = "OffsetDateTime" -> "Date"
               [] IsOptional(t) -> Type[t.args[1]]
               [] OTHER -> "other"
  IN  Type[ty]

TypeScriptFormatType(cfg, generics, ty) ==
  LET mapped == DOMAIN cfg.mappings
      types  == Formatted(ty, mapped)
      special == {t \in types : IsSpecial(t) /\ Key(t) \in mapped}
  IN  Texts(<<FormatUserTypes(types, "", mapped, generics),
              Records({cfg.mappings[Key(t)] : t \in special} \cap TypeScriptCustomTranslations),
              IF GenericKeyForbidden(types, mapped, generics) THEN Fails("error") ELSE Empty>>)

TypeScriptWriteField(cfg, field, generics) ==
  LET overrides == TypeOverrides(field, "typescript")
      text == IF overrides # {} THEN Empty ELSE TypeScriptFormatType(cfg, generics, field.ty)
      type == IF overrides # {} THEN overrides ELSE {TypeScriptWritten(cfg, field.ty)}
  IN  Both(text, Requires(type \cap TypeScriptCustomTranslations))

TypeScriptWriteStructFields(cfg, fields, generics) ==
  Texts([i \in DOMAIN fields |-> TypeScriptWriteField(cfg, fields[i], generics)])

TypeScriptBeginFile(cfg) == Empty
TypeScriptEndFile(cfg, recorded) == recorded
TypeScriptPostGeneration(cfg, recorded) == {}

TypeScriptWriteTypeAlias(cfg, alias) ==
  Both(Declares(<<"", alias.id.renamed>>, alias.generics),
       TypeScriptFormatType(cfg, alias.generics, alias.ty))

TypeScriptWriteConst(cfg, const) ==
  Both(Declares(<<"", ToScreamingSnakeCase(const.id.renamed)>>, <<>>),
       TypeScriptFormatType(cfg, <<>>, const.ty))

TypeScriptWriteStruct(cfg, struct) ==
  Both(Declares(<<"", struct.id.renamed>>, struct.generics),
       TypeScriptWriteStructFields(cfg, struct.fields, struct.generics))

TypeScriptWriteEnumVariant(cfg, variant, generics) ==
  CASE variant.kind = "Unit"  -> Empty
    [] variant.kind = "Tuple" -> TypeScriptFormatType(cfg, generics, variant.ty)
    [] OTHER -> TypeScriptWriteStructFields(cfg, variant.fields, generics)

TypeScriptWriteEnum(cfg, enum) ==
  Both(Declares(<<"", enum.id.renamed>>, enum.generics),
       Texts([i \in DOMAIN enum.variants |->
                TypeScriptWriteEnumVariant(cfg, enum.variants[i], enum.generics)]))

(* An item of generate_types, Language's own. *)
TypeScriptWriteItem(cfg, item) ==
  CASE item.kind = "alias"  -> TypeScriptWriteTypeAlias(cfg, item)
    [] item.kind = "struct" -> TypeScriptWriteStruct(cfg, item)
    [] item.kind = "enum"   -> TypeScriptWriteEnum(cfg, item)
    [] item.kind = "const"  -> TypeScriptWriteConst(cfg, item)
=============================================================================

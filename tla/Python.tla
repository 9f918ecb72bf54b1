------------------------------- MODULE Python -------------------------------
(***************************************************************************)
(* The Python backend, core/src/language/python.rs. It writes the items to *)
(* a buffer first, and then the imports, type variables and conversion     *)
(* functions they turned out to need, which no module clears. A reference  *)
(* without parameters is one to a class of any number of them.             *)
(***************************************************************************)
EXTENDS Language

PythonCustomTranslations == {"bytes", "datetime"}

(* What a type is written as, if that is a name in CustomTranslations. *)
PythonWritten(cfg, ty) ==
  IF Key(ty) \in DOMAIN cfg.mappings THEN cfg.mappings[Key(ty)]
  ELSE IF ty.id = "OffsetDateTime" THEN "datetime" ELSE "other"

(* What generate_types may have to write before the body. *)
PythonImports(names) == {<<"import", name>> : name \in names}
PythonFunctions(types) == {<<"functions", type>> : type \in types \cap PythonCustomTranslations}
PythonTypeVars(generics) ==
  IF generics = <<>> THEN {}
  ELSE PythonImports({"TypeVar"}) \cup {<<"type variable", g>> : g \in ToSet(generics)}

(* The imports of special types, and of two user types known by name. *)
PythonImportsOf(ids) ==
  {CASE id \in {"Vec", "[]", "&[]"} -> "List"
     [] id = "Option"         -> "Optional"
     [] id = "HashMap"        -> "Dict"
     [] id = "OffsetDateTime" -> "datetime" :
     id \in ids \cap {"Vec", "[]", "&[]", "Option", "HashMap", "OffsetDateTime"}}
PythonImportsOfUserTypes(types) ==
  {CASE t.id = "Url" -> "AnyUrl" [] t.id = "DateTime" -> "datetime" :
     t \in {u \in types : u.id \in {"Url", "DateTime"}}}

PythonFormatType(cfg, generics, ty) ==
  LET mapped == DOMAIN cfg.mappings
      types  == Formatted(ty, mapped)
      special == {t \in types : IsSpecial(t) /\ Key(t) \in mapped}
  IN  Texts(<<FormatUserTypes(types, "", mapped, generics),
              Requires(PythonImports(PythonImportsOf(Special(types, mapped)))),
              Records(PythonImports(PythonImportsOfUserTypes(types))),
              Records(PythonFunctions({cfg.mappings[Key(t)] : t \in special})),
              IF GenericKeyForbidden(types, mapped, generics) THEN Fails("error") ELSE Empty>>)

(* python_property_aware_rename, keywords aside *)
PythonIsAliased(field) == ToSnakeCase(field.id.original) # field.id.renamed

(* What the type of a field is written as. *)
PythonWrittenTypes(cfg, field) ==
  LET overrides == TypeOverrides(field, "python")
  IN  IF overrides # {} THEN overrides ELSE {PythonWritten(cfg, field.ty)}

(* The functions a field uses are those of its type, but the type recorded is
   the Optional of it if the field has a default. *)
PythonWriteField(cfg, field, generics) ==
  LET text == IF TypeOverrides(field, "python") # {} THEN Empty
              ELSE PythonFormatType(cfg, generics, field.ty)
      types == PythonWrittenTypes(cfg, field)
      custom == PythonFunctions(types) # {}
      optional == IsOptional(field.ty) \/ field.hasDefault
      common == (IF optional THEN {"Optional"} ELSE {})
           \cup (IF custom THEN {"BeforeValidator", "PlainSerializer", "Annotated"} ELSE {})
           \cup (IF optional \/ PythonIsAliased(field) THEN {"Field"} ELSE {})
  IN  Texts(<<text, Requires(PythonImports(common)), Needs(PythonFunctions(types)),
              Needs(PythonImports(types \cap {"datetime"})),
              IF optional /\ ~IsOptional(field.ty) THEN Empty ELSE Records(PythonFunctions(types))>>)

PythonBeginFile(cfg) == Empty

(* write_all_imports, and the functions of the types that have some. *)
PythonEndFile(cfg, recorded) == recorded
PythonPostGeneration(cfg, recorded) == {}

(* The parameters of an alias are not made type variables. *)
PythonWriteTypeAlias(cfg, alias) ==
  Texts(<<Declares(<<"", alias.id.renamed>>, alias.generics), Needs(PythonTypeVars(alias.generics)),
          PythonFormatType(cfg, alias.generics, alias.ty)>>)

PythonWriteConst(cfg, const) ==
  Both(Declares(<<"", ToScreamingSnakeCase(const.id.renamed)>>, <<>>),
       PythonFormatType(cfg, <<>>, const.ty))

PythonWriteStructNamed(cfg, parts, fields, generics) ==
  Texts(<<Declares(parts, generics), Requires(PythonImports({"BaseModel"}) \cup PythonTypeVars(generics)),
          IF generics = <<>> THEN Empty ELSE Requires(PythonImports({"Generic"})),
          IF \E i \in DOMAIN fields : PythonIsAliased(fields[i]) THEN Requires(PythonImports({"ConfigDict"}))
          ELSE Empty,
          Texts([i \in DOMAIN fields |-> PythonWriteField(cfg, fields[i], generics)])>>)

PythonWriteStruct(cfg, struct) ==
  PythonWriteStructNamed(cfg, <<"", struct.id.renamed>>, struct.fields, struct.generics)

(* write_types_for_anonymous_structs *)
PythonWriteAnonymousStructs(cfg, enum, parts) ==
  LET structs == AnonymousStructs(enum)
  IN  Texts([i \in DOMAIN structs |->
               PythonWriteStructNamed(cfg, parts \o structs[i].name, structs[i].fields,
                                      structs[i].generics)])

(* A class for each variant, and their Union under the name of the enum. *)
PythonWriteAlgebraicEnum(cfg, enum) ==
  LET parts == <<"", enum.id.renamed>>
      VariantClass(variant) == Append(parts, variant.id.original)
      Content(variant) ==
        CASE variant.kind = "Unit"  -> Empty
          [] variant.kind = "Tuple" -> PythonFormatType(cfg, enum.generics, variant.ty)
          [] OTHER -> RefersTo(parts \o InnerName(variant), <<>>)
      classes == [i \in DOMAIN enum.variants |->
                    Texts(<<Declares(VariantClass(enum.variants[i]), <<>>),
                            Requires(PythonImports({"Literal"})),
                            Content(enum.variants[i])>>)]
      members == [i \in DOMAIN enum.variants |-> RefersTo(VariantClass(enum.variants[i]), <<>>)]
  IN  Texts(<<Requires(PythonImports({"BaseModel", "Enum"}) \cup PythonTypeVars(enum.generics)),
              Declares(Append(parts, "Types"), <<>>), Texts(classes),
              Texts(members), Declares(parts, <<>>),
              IF Len(members) = 1 THEN Empty ELSE Requires(PythonImports({"Union"}))>>)

PythonWriteEnum(cfg, enum) ==
  LET parts == <<"", enum.id.renamed>>
  IN  Both(PythonWriteAnonymousStructs(cfg, enum, parts),
           IF enum.unit THEN Both(Declares(parts, <<>>), Requires(PythonImports({"Enum"})))
           ELSE PythonWriteAlgebraicEnum(cfg, enum))

(* An item of generate_types. *)
PythonWriteItem(cfg, item) ==
  CASE item.kind = "alias"  -> PythonWriteTypeAlias(cfg, item)
    [] item.kind = "struct" -> PythonWriteStruct(cfg, item)
    [] item.kind = "enum"   -> PythonWriteEnum(cfg, item)
    [] item.kind = "const"  -> PythonWriteConst(cfg, item)
=============================================================================

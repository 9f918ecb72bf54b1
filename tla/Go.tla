--------------------------------- MODULE Go ---------------------------------
(***************************************************************************)
(* The Go backend, core/src/language/go.rs. It writes the items to a       *)
(* buffer first and then the imports they turned out to need; the set of   *)
(* imports is never cleared. Which types are pointers, and the names of    *)
(* fields, constructors and tag constants, are left out. cfg.acronyms maps *)
(* names to what uppercase_acronyms makes of them, part by part of a name. *)
(***************************************************************************)
EXTENDS Language

GoAcronymsToUppercase(cfg, parts) ==
  [i \in DOMAIN parts |->
     IF parts[i] \in DOMAIN cfg.acronyms THEN cfg.acronyms[parts[i]] ELSE parts[i]]

GoFormatType(cfg, generics, ty) ==
  LET mapped == DOMAIN cfg.mappings
      types == Formatted(ty, mapped)
  IN  Both(FormatUserTypes(types, "", mapped, generics),
           IF "OffsetDateTime" \in Special(types, mapped) THEN Requires({"time"}) ELSE Empty)
(* Types of fields and of tuple variants have their acronyms in uppercase,
   those of aliases and constants have not. *)
GoFormatUppercase(cfg, generics, ty) ==
  LET text == GoFormatType(cfg, generics, ty)
  IN  [text EXCEPT !.refs = {<<GoAcronymsToUppercase(cfg, ref[1]), ref[2]>> : ref \in @}]

GoBeginFile(cfg) == Records({"encoding/json"})

(* write_all_imports *)
GoEndFile(cfg, recorded) == recorded
GoPostGeneration(cfg, recorded) == {}

(* The parameters of an alias are not declared, and its name is the one in
   Rust. *)
GoWriteTypeAlias(cfg, alias) ==
  Both(Declares(GoAcronymsToUppercase(cfg, <<"", alias.id.original>>), <<>>),
       GoFormatType(cfg, <<>>, alias.ty))

GoWriteConst(cfg, const) ==
  Both(Declares(<<"", ToPascalCase(const.id.renamed)>>, <<>>),
       GoFormatType(cfg, <<>>, const.ty))

GoWriteStructNamed(cfg, parts, fields, generics) ==
  Both(Declares(GoAcronymsToUppercase(cfg, parts), generics),
       WriteFields("go", fields, [ty \in TypesOfFields(fields) |->
                                   GoFormatUppercase(cfg, generics, ty)]))

GoWriteStruct(cfg, struct) ==
  GoWriteStructNamed(cfg, <<"", struct.id.renamed>>, struct.fields, struct.generics)

(* write_types_for_anonymous_structs *)
GoWriteAnonymousStructs(cfg, enum, parts) ==
  LET structs == AnonymousStructs(enum)
  IN  Texts([i \in DOMAIN structs |->
               GoWriteStructNamed(cfg, parts \o structs[i].name, structs[i].fields,
                                  structs[i].generics)])

(* An enum goes by its name in Rust and without its parameters; an algebraic
   one has methods that convert it from and to JSON. *)
GoWriteEnum(cfg, enum) ==
  LET parts == <<"", enum.id.original>>
      Content(variant) ==
        CASE variant.kind = "Unit"  -> Empty
          [] variant.kind = "Tuple" -> GoFormatUppercase(cfg, <<>>, variant.ty)
          [] OTHER -> RefersTo(GoAcronymsToUppercase(cfg, parts \o InnerName(variant)), <<>>)
  IN  Texts(<<GoWriteAnonymousStructs(cfg, enum, parts),
              Declares(GoAcronymsToUppercase(cfg, parts), <<>>),
              IF enum.unit THEN Empty ELSE Needs({"encoding/json"}),
              Texts([i \in DOMAIN enum.variants |-> Content(enum.variants[i])])>>)

(* An item of generate_types. *)
GoWriteItem(cfg, item) ==
  CASE item.kind = "alias"  -> GoWriteTypeAlias(cfg, item)
    [] item.kind = "struct" -> GoWriteStruct(cfg, item)
    [] item.kind = "enum"   -> GoWriteEnum(cfg, item)
    [] item.kind = "const"  -> GoWriteConst(cfg, item)
=============================================================================

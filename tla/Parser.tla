------------------------------- MODULE Parser -------------------------------
(***************************************************************************)
(* The item parsers of core/src/parser.rs: from the syntax of an item with *)
(* its attributes to what generators need of it, or to a parse error, or   *)
(* to a panic. Comments and spans are left out.                            *)
(*                                                                         *)
(* Syntax: an item has kind, ident, attrs, generics (its type parameters)  *)
(* and, by kind, fields, variants, ty, or expr, the literals of a const's  *)
(* expression; fields are [style, list], with style Named, Unnamed, Unit.  *)
(***************************************************************************)
EXTENDS Attributes, RustTypes

SerdeRenameAll(attrs) == GetNameValueMetaItems(attrs, "rename_all", "serde")

(* serde(rename) is stronger than the rename_all of what contains it. *)
GetIdent(ident, attrs, renameAll) ==
  LET renames == GetNameValueMetaItems(attrs, "rename", "serde")
  IN  [original |-> ident,
       renamed  |-> IF renames # <<>> THEN Head(renames) ELSE RenameAllToCase(ident, renameAll),
       serdeRename |-> renames # <<>>]

(* The type an item, field or variant is declared with, unless serialized_as
   names another one. *)
SerializedType(attrs, ty) ==
  LET others == GetNameValueMetaItems(attrs, "serialized_as", "typeshare")
  IN  TryFrom[IF others # <<>> THEN Head(others) ELSE ty]

(* The lists in a field's typeshare attributes, which are for a language. *)
DecoratorLists(attrs) ==
  SelectSeq(FlattenSeq([a \in DOMAIN attrs |-> GetMetaItems(attrs[a], "typeshare")]),
            LAMBDA meta : meta.kind = "List")

(* A list that is not words and values is passed over. *)
GetFieldDecorators(attrs) ==
  LET lists == DecoratorLists(attrs)
      Of(list) ==
        IF \E i \in DOMAIN list.nested : list.nested[i].kind \notin {"Path", "NameValue"} THEN {}
        ELSE {[language |-> list.name, name |-> meta.name, isValue |-> meta.kind = "NameValue",
               value |-> IF meta.kind = "NameValue" THEN meta.value ELSE ""] :
                meta \in ToSet(list.nested)}
  IN  IF \E i \in DOMAIN lists : lists[i].name \notin Languages THEN Panic
      ELSE [decorators |-> UNION {Of(lists[i]) : i \in DOMAIN lists}]

(* A field of a struct, or of the variant of an enum; only that of a struct
   may not be flattened. *)
FieldOf(field, id, ty, decorators, inStruct) ==
  IF IsFailure(ty) THEN ty
  ELSE IF inStruct /\ HasWord(field.attrs, "serde", "flatten") THEN Fail("SerdeFlattenNotAllowed")
  ELSE IF IsFailure(decorators) THEN decorators
  ELSE [id |-> id, ty |-> ty, hasDefault |-> HasWord(field.attrs, "serde", "default"),
        decorators |-> decorators.decorators]
ParseField(field, renameAll, inStruct) ==
  FieldOf(field, GetIdent(field.ident, field.attrs, renameAll),
          SerializedType(field.attrs, field.ty), GetFieldDecorators(field.attrs), inStruct)

(* The fields of a list, or variants, that are not skipped. *)
Unskipped(list, targetOs) ==
  Chosen(list, {part \in ToSet(list) : ~IsSkipped(part.attrs, targetOs)})

ParseFields(list, renameAll, targetOs, inStruct) ==
  LET kept == Unskipped(list, targetOs)
  IN  [i \in DOMAIN kept |-> ParseField(kept[i], renameAll, inStruct)]

(* The words of typeshare(kotlin = "..") and its like. *)
GetDecorators(attrs) ==
  [kind \in {"swift", "swiftGenericConstraints", "kotlin"} |->
     UNION ToSet(GetNameValueMetaItems(attrs, kind, "typeshare"))]

(* What structs, enums and aliases have in common. *)
Shared(kind, item) ==
  [kind |-> kind, id |-> GetIdent(item.ident, item.attrs, <<>>), generics |-> item.generics,
   decorators |-> GetDecorators(item.attrs), redacted |-> IsRedacted(item.attrs)]

Alias(item, ty) == IF IsFailure(ty) THEN ty ELSE Over([ty |-> ty], Shared("alias", item))

Only(list) ==
  IF Len(list) = 0 THEN Panic ELSE SerializedType(list[1].attrs, list[1].ty)

IsSerializedAs(item) == HasNameValue(item.attrs, "serialized_as", "typeshare")

WithFields(shared, fields) == FirstFailureOr(fields, Over([fields |-> fields], shared))

ParseStruct(item, targetOs) ==
  IF IsSerializedAs(item) THEN Alias(item, SerializedType(item.attrs, <<>>))
  ELSE IF item.fields.style = "Unnamed"
  THEN IF Len(item.fields.list) > 1 THEN Fail("ComplexTupleStruct")
       ELSE Alias(item, Only(item.fields.list))
  ELSE WithFields(Shared("struct", item),
                  ParseFields(item.fields.list, SerdeRenameAll(item.attrs), targetOs, TRUE))

TupleVariant(id, ty) == IF IsFailure(ty) THEN ty ELSE [kind |-> "Tuple", id |-> id, ty |-> ty]

(* The variant's own rename_all is for its fields, the enum's for its name. *)
VariantOf(variant, id, targetOs) ==
  LET list == variant.fields.list
  IN  CASE variant.fields.style = "Unit" -> [kind |-> "Unit", id |-> id]
        [] variant.fields.style = "Named" ->
             WithFields([kind |-> "AnonymousStruct", id |-> id],
                        ParseFields(list, SerdeRenameAll(variant.attrs), targetOs, FALSE))
        [] variant.fields.style = "Unnamed" ->
             IF Len(list) > 1 THEN Fail("MultipleUnnamedAssociatedTypes")
             ELSE TupleVariant(id, Only(list))
ParseEnumVariant(variant, renameAll, targetOs) ==
  VariantOf(variant, GetIdent(variant.ident, variant.attrs, renameAll), targetOs)

(* The types in fields, in a variant, and in a parsed item. *)
TypesOfFields(fields) == {fields[i].ty : i \in DOMAIN fields}
TypesOfVariant(variant) ==
  CASE variant.kind = "Unit"  -> {}
    [] variant.kind = "Tuple" -> {variant.ty}
    [] OTHER -> TypesOfFields(variant.fields)
TypesOfItem(item) ==
  CASE item.kind \in {"alias", "const"} -> {item.ty}
    [] item.kind = "struct" -> TypesOfFields(item.fields)
    [] item.kind = "enum"   -> UNION {TypesOfVariant(variant) : variant \in ToSet(item.variants)}

(* An enum whose variants are all skipped is a unit enum. *)
EnumOf(item, variants) ==
  LET isUnit == \A i \in DOMAIN variants : variants[i].kind = "Unit"
      tagged == HasNameValue(item.attrs, "tag", "serde")
      hasContent == HasNameValue(item.attrs, "content", "serde")
      recursive == \E i \in DOMAIN variants : \E ty \in TypesOfVariant(variants[i]) :
                     ContainsType(ty, item.ident)
  IN  FirstFailureOr(variants,
        CASE isUnit /\ tagged                 -> Fail("SerdeTagNotAllowed")
          [] isUnit /\ ~tagged /\ hasContent  -> Fail("SerdeContentNotAllowed")
          [] ~isUnit /\ ~tagged               -> Fail("SerdeTagRequired")
          [] ~isUnit /\ tagged /\ ~hasContent -> Fail("SerdeContentRequired")
          [] OTHER -> Over([unit |-> isUnit, variants |-> variants, recursive |-> recursive],
                           Shared("enum", item)))

ParseEnum(item, targetOs) ==
  LET kept == Unskipped(item.variants, targetOs)
  IN  IF IsSerializedAs(item) THEN Alias(item, SerializedType(item.attrs, <<>>))
      ELSE EnumOf(item, [i \in DOMAIN kept |->
                           ParseEnumVariant(kept[i], SerdeRenameAll(item.attrs), targetOs)])

ParseTypeAlias(item) == Alias(item, SerializedType(item.attrs, item.ty))

(* Of the literals in the expression only the first counts. *)
ConstOf(item, ty) ==
  IF item.expr = <<>> \/ Head(item.expr) # "Int" THEN Fail("RustConstTypeInvalid")
  ELSE IF IsFailure(ty) THEN ty
  ELSE IF ty.id \in {"HashMap", "Vec", "Option"} \/ IsGeneric(ty) THEN Fail("RustConstTypeInvalid")
  ELSE Over([ty |-> ty], Shared("const", item))
ParseConst(item) == ConstOf(item, SerializedType(item.attrs, item.ty))

Parse(item, targetOs) ==
  CASE item.kind = "struct" -> ParseStruct(item, targetOs)
    [] item.kind = "enum"   -> ParseEnum(item, targetOs)
    [] item.kind = "type"   -> ParseTypeAlias(item)
    [] item.kind = "const"  -> ParseConst(item)
=============================================================================

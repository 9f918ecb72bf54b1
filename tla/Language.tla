------------------------------ MODULE Language ------------------------------
(***************************************************************************)
(* The default methods of the Language trait (core/src/language/mod.rs),   *)
(* from which the backends are built: what they write as Texts.            *)
(*                                                                         *)
(* The fields of a backend that the configuration sets are a record cfg of *)
(* prefix, package, mappings (type_mappings) and multiFile.                *)
(***************************************************************************)
EXTENDS Parser

(* Texts one after the other: the first one that goes wrong decides. *)
Texts(seq) ==
  LET wrong == {i \in DOMAIN seq : seq[i].fate # "ok"}
  IN  [names |-> UNION {seq[i].names : i \in DOMAIN seq},
       refs  |-> UNION {seq[i].refs : i \in DOMAIN seq},
       needs |-> UNION {seq[i].needs : i \in DOMAIN seq},
       recorded |-> UNION {seq[i].recorded : i \in DOMAIN seq},
       fate  |-> IF wrong = {} THEN "ok"
                 ELSE seq[CHOOSE i \in wrong : \A j \in wrong : i <= j].fate]

Declares(parts, generics) == [Empty EXCEPT !.names = {<<parts, Len(generics)>>}]
RefersTo(parts, generics) == [Empty EXCEPT !.refs = {<<parts, Len(generics)>>}]
Needs(helpers) == [Empty EXCEPT !.needs = helpers]
Records(helpers) == [Empty EXCEPT !.recorded = helpers]
Requires(helpers) == Both(Needs(helpers), Records(helpers))
Fails(fate) == [Empty EXCEPT !.fate = fate]

-----------------------------------------------------------------------------
(* The keys of type_mappings that a backend looks up which does not map the
   special types. *)
UserMappings(cfg) == {key \in DOMAIN cfg.mappings : Head(key) \notin SpecialIds}

(* The types that formatting ty comes to: all in it, save the parameters of
   a type that is mapped to one of the target language. *)
Formatted(ty, mapped) ==
  LET Inside[t \in Types] ==
        IF Key(t) \in mapped THEN {}
        ELSE UNION {{t.args[i]} \cup Inside[t.args[i]] : i \in DOMAIN t.args}
  IN  {ty} \cup Inside[ty]

(* Special types of which a backend formats one itself. *)
Special(types, mapped) == {t.id : t \in {u \in types : IsSpecial(u) /\ Key(u) \notin mapped}}

(* format_simple_type and format_generic_type: a type that is neither mapped
   nor a parameter is referred to, after the prefix. *)
FormatUserTypes(types, prefix, mapped, generics) ==
  [Empty EXCEPT !.refs =
     {<<<<prefix, t.id>>, Len(t.args)>> :
        t \in {u \in types : /\ ~IsSpecial(u) /\ Key(u) \notin mapped
                             /\ u.id \notin ToSet(generics)}}]

(* In TypeScript and Python the key of a map is not a type parameter. *)
GenericKeyForbidden(types, mapped, generics) ==
  \E t \in types : /\ t.id = "HashMap" /\ Key(t) \notin mapped
                   /\ t.args[1].args = <<>> /\ t.args[1].id \in ToSet(generics) \ SpecialIds

(* The fields of a struct, of which format has the types as the language
   writes them; a type given for the language is taken as it is. *)
WriteFields(language, fields, format) ==
  Texts([i \in DOMAIN fields |->
           IF TypeOverrides(fields[i], language) # {} THEN Empty ELSE format[fields[i].ty]])

(* The parameters of the enum that occur in the fields of a variant. *)
GenericsIn(fields, generics) ==
  Chosen(generics, {g \in ToSet(generics) : \E i \in DOMAIN fields : ContainsType(fields[i].ty, g)})

AnonymousVariants(enum) ==
  Chosen(enum.variants, {variant \in ToSet(enum.variants) : variant.kind = "AnonymousStruct"})

InnerName(variant) == <<variant.id.original, "Inner">>

(* write_types_for_anonymous_structs: the structs to write, each with the end
   of its name, which begins with that of the enum. *)
AnonymousStructs(enum) ==
  LET variants == AnonymousVariants(enum)
  IN  [i \in DOMAIN variants |->
         [name |-> InnerName(variants[i]), fields |-> variants[i].fields,
          generics |-> GenericsIn(variants[i].fields, enum.generics)]]

(* How the variants of an enum refer to types: to that of a tuple variant and
   to the struct generated for an anonymous one, after the enum's name. *)
WriteVariants(enum, parts, format) ==
  Texts([i \in DOMAIN enum.variants |->
           LET variant == enum.variants[i]
           IN  CASE variant.kind = "Unit"  -> Empty
                 [] variant.kind = "Tuple" -> format[variant.ty]
                 [] OTHER -> RefersTo(parts \o InnerName(variant),
                                      GenericsIn(variant.fields, enum.generics))])
=============================================================================

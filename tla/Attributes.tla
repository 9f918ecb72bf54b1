----------------------------- MODULE Attributes -----------------------------
(***************************************************************************)
(* How typeshare reads attributes (parser.rs, target_os_check.rs). An      *)
(* attribute is a syn Meta: a path, a list of nested Metas or a name with  *)
(* a value. A list that holds anything else, a literal, does not parse.    *)
(***************************************************************************)
EXTENDS Outcomes, SequencesExt

CONSTANT Metas   \* what there may be in a cfg attribute

(* The number of Metas in one, itself included. *)
MetaWeight[meta \in Metas] ==
  1 + IF meta.kind = "List" THEN Total([i \in DOMAIN meta.nested |-> MetaWeight[meta.nested[i]]])
      ELSE 0

(* Lists are nested to some depth, so that this number is well defined. *)
ASSUME MetasAssumption ==
  \A meta \in Metas :
    /\ MetaWeight[meta] \in Nat
    /\ IF meta.kind = "List"
       THEN /\ meta.nested \in Seq(Metas)
            /\ MetaWeight[meta] = 1 + Total([i \in DOMAIN meta.nested |-> MetaWeight[meta.nested[i]]])
       ELSE MetaWeight[meta] = 1

Path(name) == [kind |-> "Path", name |-> name]
NameValue(name, value) == [kind |-> "NameValue", name |-> name, value |-> value]
List(name, nested) == [kind |-> "List", name |-> name, nested |-> nested]
Literal == [kind |-> "Literal", name |-> ""]

Parses(list) == \A i \in DOMAIN list.nested : list.nested[i].kind # "Literal"

(* The arguments of attr if it is #[ident(...)]. *)
GetMetaItems(attr, ident) ==
  IF attr.name = ident /\ attr.kind = "List" /\ Parses(attr) THEN attr.nested ELSE <<>>

(* #[ident(.., word, ..)] *)
HasWord(attrs, ident, word) ==
  \E a \in DOMAIN attrs :
    LET metas == GetMetaItems(attrs[a], ident)
    IN  \E i \in DOMAIN metas : metas[i].kind = "Path" /\ metas[i].name = word

(* The arguments of #[cfg_attr(.., typeshare(..), ..)], list by list. *)
TypeshareInCfgAttr(attr) ==
  SelectSeq(GetMetaItems(attr, "cfg_attr"),
            LAMBDA meta : meta.kind = "List" /\ meta.name = "typeshare" /\ Parses(meta))

(* The values of #[ident(name = value)], those that cfg_attr adds to a
   typeshare attribute after those of the first attribute. *)
GetNameValueMetaItems(attrs, name, ident) ==
  LET Values(metas) ==
        LET named == SelectSeq(metas, LAMBDA meta : meta.kind = "NameValue" /\ meta.name = name)
        IN  [i \in DOMAIN named |-> named[i].value]
      OfCfgAttr(attr) ==
        LET lists == TypeshareInCfgAttr(attr)
        IN  FlattenSeq([i \in DOMAIN lists |-> Values(lists[i].nested)])
      ofCfgAttrs == IF ident # "typeshare" THEN <<>>
                    ELSE FlattenSeq([a \in DOMAIN attrs |-> OfCfgAttr(attrs[a])])
  IN  FlattenSeq([a \in DOMAIN attrs |-> Values(GetMetaItems(attrs[a], ident)) \o ofCfgAttrs])

HasNameValue(attrs, name, ident) == GetNameValueMetaItems(attrs, name, ident) # <<>>

(* A typeshare that cfg_attr gives a value, typeshare = "..", is none. *)
HasTypeshareAnnotation(attrs) ==
  \E a \in DOMAIN attrs :
    \/ attrs[a].name = "typeshare"
    \/ LET metas == GetMetaItems(attrs[a], "cfg_attr")
       IN  \E i \in DOMAIN metas : metas[i].name = "typeshare" /\ metas[i].kind # "NameValue"

IsRedacted(attrs) ==
  \/ HasWord(attrs, "typeshare", "redacted")
  \/ \E a \in DOMAIN attrs : HasWord(TypeshareInCfgAttr(attrs[a]), "typeshare", "redacted")

-----------------------------------------------------------------------------
(* TargetOsIterator: what the stack of Metas still to be looked at yields.
   Nothing below a `not` is in an Accept scope again, whatever is between,
   and the first list that does not parse ends the iteration. *)
Scoped(scope, meta) == [scope |-> scope, meta |-> meta]
Stacks == Seq([scope : {"Accept", "Reject"}, meta : Metas])
TargetOsIterator[stack \in Stacks] ==
  IF stack = <<>> THEN {}
  ELSE LET meta  == Last(stack).meta
           rest  == Front(stack)
           scope == IF meta.name = "not" THEN "Reject" ELSE Last(stack).scope
       IN  CASE meta.kind = "NameValue" ->
                  TargetOsIterator[rest] \cup
                    IF meta.name = "target_os" THEN {[scope |-> scope, os |-> meta.value]} ELSE {}
             [] meta.kind = "List" ->
                  IF ~Parses(meta) THEN {}
                  ELSE TargetOsIterator[rest \o [i \in DOMAIN meta.nested |->
                                                   Scoped(scope, meta.nested[i])]]
             [] OTHER -> TargetOsIterator[rest]

TargetOsIn(meta) == TargetOsIterator[<<Scoped("Accept", meta)>>]
FoundIn(attrs) ==
  UNION {UNION {TargetOsIn(meta) : meta \in ToSet(GetMetaItems(attrs[a], "cfg"))} :
           a \in DOMAIN attrs}

(* A filter that rejects what names no operating system. *)
AcceptNamedTargetOs(attrs, targetOs) ==
  targetOs # {} => \E f \in FoundIn(attrs) : f.scope = "Accept" /\ f.os \in targetOs

(* accept_target_os; without --target-os everything is accepted. *)
AcceptTargetOs(attrs, targetOs) ==
  LET accepted == {f.os : f \in {g \in FoundIn(attrs) : g.scope = "Accept"}}
      rejected == {f.os : f \in {g \in FoundIn(attrs) : g.scope = "Reject"}}
  IN  targetOs # {} => /\ targetOs \cap rejected = {}
                       /\ accepted = {} \/ targetOs \cap accepted # {}

IsSkipped(attrs, targetOs) ==
  \/ HasWord(attrs, "serde", "skip") \/ HasWord(attrs, "typeshare", "skip")
  \/ ~AcceptTargetOs(attrs, targetOs)
=============================================================================

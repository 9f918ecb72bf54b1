------------------------------- MODULE Imports -------------------------------
(***************************************************************************)
(* What the visitor (core/src/visitors.rs) takes for an import in the      *)
(* syntax of an item, and the names that a parsed item refers to.          *)
(***************************************************************************)
EXTENDS Parser

CONSTANT Trees   \* the use trees there may be, with those in them

(* The number of trees in one, itself included. *)
TreeWeight[tree \in Trees] ==
  1 + CASE tree.kind = "Path"  -> TreeWeight[tree.tree]
        [] tree.kind = "Group" -> Total([i \in DOMAIN tree.items |-> TreeWeight[tree.items[i]]])
        [] OTHER -> 0

(* Trees have some depth, so that this number is well defined. *)
ASSUME TreesAssumption ==
  \A tree \in Trees :
    /\ tree.kind \in {"Path", "Group", "Name", "Rename", "Glob"} /\ TreeWeight[tree] \in Nat
    /\ CASE tree.kind = "Path" -> tree.tree \in Trees /\ TreeWeight[tree] = 1 + TreeWeight[tree.tree]
         [] tree.kind = "Group" ->
              /\ tree.items \in Seq(Trees)
              /\ TreeWeight[tree] = 1 + Total([i \in DOMAIN tree.items |-> TreeWeight[tree.items[i]]])
         [] OTHER -> TreeWeight[tree] = 1

ResolveCrateName(base, crate) == IF base \in {"crate", "super", "self"} THEN crate ELSE base

IgnoredBaseCrates ==
  {"std", "serde", "serde_json", "typeshare", "once_cell", "itertools", "anyhow", "thiserror",
   "quote", "syn", "clap", "tokio", "reqwest", "regex", "http", "time", "axum", "either", "chrono",
   "base64", "rayon", "ring", "zip", "neon"}
AcceptCrate(name) == name \notin IgnoredBaseCrates /\ StartsLowercase(name)

(* ItemUseIter: what it comes to with a stack of use trees and the base name.
   The first path segment is the base of all that comes after it. *)
Segments == {NoCrate} \cup {tree.name : tree \in {t \in Trees : t.kind = "Path"}}
Iter(trees, base) == [trees |-> trees, base |-> base]
Iters == [trees : Seq(Trees), base : Segments]
ItemUseIter[iter \in Iters] ==
  IF iter.trees = <<>> THEN {}
  ELSE LET tree == Last(iter.trees)
           rest == Front(iter.trees)
           base == iter.base
       IN  CASE tree.kind = "Path" ->
                  ItemUseIter[Iter(Append(rest, tree.tree),
                                   IF base = NoCrate THEN tree.name ELSE base)]
             [] tree.kind = "Group"  -> ItemUseIter[Iter(rest \o tree.items, base)]
             [] tree.kind = "Rename" -> ItemUseIter[Iter(rest, base)]
             [] tree.kind = "Glob"   -> {Import(base, "*")} \cup ItemUseIter[Iter(rest, base)]
             [] tree.kind = "Name"   -> {Import(base, tree.name)} \cup ItemUseIter[Iter(rest, base)]

(* Those of a crate and of a type that may be typeshared are yielded. At a name
   without a base, as in `use other;`, the iterator panics: it is yielded as an
   import of NoCrate. *)
ImportsOfUse(tree, crate) ==
  {Import(ResolveCrateName(imp.base, crate), imp.name) :
     imp \in {i \in ItemUseIter[Iter(<<tree>>, NoCrate)] :
                \/ i.base = NoCrate
                \/ /\ AcceptCrate(ResolveCrateName(i.base, crate))
                   /\ i.name = "*" \/ AcceptType(i.name)}}

(* The paths in the syntax of a type and of an item. *)
Paths[ty \in SynTypes] ==
  (IF ty.form = "Path" THEN {Import(ty.root, ty.id)} ELSE {})
    \cup UNION {Paths[ty.args[i]] : i \in DOMAIN ty.args}

PathsOfFields(fields) == UNION {Paths[fields.list[i].ty] : i \in DOMAIN fields.list}

(* Besides those of its types an item has paths in attributes, in the bounds
   of its generics and in expressions: item.paths. *)
PathsOfItem(item) ==
  item.paths \cup
  CASE item.kind = "struct" -> PathsOfFields(item.fields)
    [] item.kind = "enum" ->
         UNION {PathsOfFields(variant.fields) : variant \in ToSet(item.variants)}
    [] item.kind \in {"type", "const"} -> Paths[item.ty]

(* visit_path: a path of several segments is an import as well. *)
ImportsOfPaths(item, crate, ignored) ==
  {Import(ResolveCrateName(path.base, crate), path.name) :
     path \in {p \in PathsOfItem(item) : /\ AcceptCrate(p.base) /\ AcceptType(p.name)
                                         /\ p.name \notin ignored /\ p.base # p.name}}

(* The types reconcile_referenced_types collects from a parsed item. *)
ReferenceNames(item) == UNION {AllReferenceTypeNames(ty) : ty \in TypesOfItem(item)}
=============================================================================

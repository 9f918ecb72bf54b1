------------------------------- MODULE Topsort -------------------------------
(***************************************************************************)
(* topsort of core/src/topsort.rs, which orders the items of a generated   *)
(* file: it builds the dependency lists of the items, has toposort_impl    *)
(* order them (module Toposort) and sort_by_indices rearrange them (module *)
(* SortByIndices).                                                         *)
(*                                                                         *)
(* An item is a record of its kind, its name in the Rust source, the name  *)
(* it is generated under, the references its fields make to other types,   *)
(* and the names nested in these deeper than get_dependencies_from_type    *)
(* looks. A reference is a name, or that of a generic type followed by the *)
(* id() of each parameter: of G<Vec<A>, B<C>> they are G, Vec and B, and A *)
(* and C are nested. Around a reference Vec, Option and HashMap are looked *)
(* through and so are absent here; what is not looked at anywhere (arrays, *)
(* slices, anonymous struct variants) is absent as well.                   *)
(***************************************************************************)
EXTENDS Naturals, Sequences, SequencesExt

CONSTANTS N,          \* number of items
          Ids,        \* names of types
          ItemLists   \* the item lists topsort is called with

Nodes == 1..N

Classes == <<"alias", "struct", "enum", "const">>

(* Variants of RustItem: unit and algebraic enums are the same. *)
Class(item) == IF item.kind \in {"unit", "algebraic"} THEN "enum" ELSE item.kind
ClassRank(item) == CHOOSE k \in DOMAIN Classes : Classes[k] = Class(item)

RustItem == [kind : {"alias", "struct", "unit", "algebraic", "const"},
             name : Ids, shown : Ids, refs : Seq(Seq(Ids) \ {<<>>}), nested : SUBSET Ids]

(* generate_types chains the items by class; unit enums carry no types. *)
ASSUME ItemAssumption ==
  /\ N \in Nat
  /\ \A list \in ItemLists :
       /\ list \in [Nodes -> RustItem]
       /\ \A i \in Nodes :
            /\ list[i].kind = "unit" => list[i].refs = <<>>
            /\ list[i].refs = <<>> => list[i].nested = {}
            /\ i < N => ClassRank(list[i]) <= ClassRank(list[i + 1])

AllItems == UNION {Range(list) : list \in ItemLists}

VARIABLES
  things,                    \* the items in the order given
  graph, stack, seen, res,   \* the run of toposort_impl
  sorting,                   \* whether sort_by_indices was called
  data, indices, idx, cur    \* the run of sort_by_indices

vars == <<things, graph, stack, seen, res, sorting, data, indices, idx, cur>>

T == INSTANCE Toposort WITH Graphs <- {}
S == INSTANCE SortByIndices WITH Items <- AllItems, Slices <- {},
                                 input <- things, perm <- res

-----------------------------------------------------------------------------
(* Dependency lists *)

Named(list, id) == {i \in Nodes : list[i].name = id}

(* types: a map from names to items; of several the last one stays. *)
Known(list, id) == Named(list, id) # {}
Lookup(list, id) == Max(Named(list, id))

(* Positions are counted from another end. *)
GetIndexShifted(list, i) ==
  Min({j \in Named(list, list[i].name) : Class(list[j]) = Class(list[i])}) - 1

(* get_index: the first item that is equal, that is of the same variant and
   name. *)
GetIndex(list, i) ==
  Min({j \in Named(list, list[i].name) : Class(list[j]) = Class(list[i])})

(* Parameters of a generic type are not looked at. *)
FromTypeOnly(list, ref, seenIds) ==
  IF Known(list, Head(ref)) /\ Head(ref) \notin seenIds THEN <<Head(ref)>> ELSE <<>>

(* The names get_dependencies_from_type adds for one reference while `seen`
   are being worked on: that of the type, unless it is unknown or seen, and
   with it the id() of each parameter, of which nothing deeper is looked at.
   The dependencies of these are not followed, for get_dependencies finds them
   in `seen` already. *)
FromType(list, ref, seenIds) ==
  LET Fresh(id) == Known(list, id) /\ id \notin seenIds
      Taken(k)  == Fresh(ref[k]) /\ (k = 1 \/ ref[k] # Head(ref))
  IN  IF Fresh(Head(ref))
      THEN FlattenSeq([k \in 1..Len(ref) |-> IF Taken(k) THEN <<ref[k]>> ELSE <<>>])
      ELSE <<>>

(* get_dependencies: the item is seen from the start, but each reference takes
   its own name out of `seen` when it is done, the item's name included; an
   algebraic enum also lists itself, and a unit enum has nothing. *)
GetDependencies(list, item) ==
  LET Seen(k) == {item.name} \ {Head(item.refs[j]) : j \in 1..(k - 1)}
      own     == IF item.kind = "algebraic" THEN <<item.name>> ELSE <<>>
  IN  own \o FlattenSeq([k \in 1..Len(item.refs) |->
                           FromType(list, item.refs[k], Seen(k))])

Dag(list) ==
  [i \in Nodes |->
     LET ids == GetDependencies(list, list[i])
     IN  [k \in 1..Len(ids) |-> GetIndex(list, Lookup(list, ids[k]))]]

-----------------------------------------------------------------------------

Init ==
  /\ things \in ItemLists
  /\ graph = Dag(things) /\ T!Called
  /\ sorting = FALSE
  /\ data = things /\ indices = <<>> /\ idx = 1 /\ cur = 0

(* toposort_impl runs. *)
Toposort ==
  /\ T!Step
  /\ UNCHANGED <<things, sorting, data, indices, idx, cur>>

(* sort_by_indices is called before the order is complete. *)
CallSortEarly ==
  /\ ~sorting
  /\ sorting' = TRUE
  /\ indices' = res
  /\ UNCHANGED <<things, graph, stack, seen, res, data, idx, cur>>

(* It returned, and sort_by_indices is called with what it returned. *)
CallSort ==
  /\ T!Done /\ ~sorting
  /\ sorting' = TRUE
  /\ indices' = res
  /\ UNCHANGED <<things, graph, stack, seen, res, data, idx, cur>>

(* The inner loop of sort_by_indices lacks its break. *)
SortWithoutBreak ==
  /\ sorting /\ (S!Pass \/ S!EnterCycle \/ S!FollowCycle)
  /\ UNCHANGED <<things, graph, stack, seen, res, sorting>>

(* sort_by_indices runs. *)
SortByIndices ==
  /\ sorting /\ S!Step
  /\ UNCHANGED <<things, graph, stack, seen, res, sorting>>

Finished == sorting /\ S!Done

(* topsort returned. *)
Returned == Finished /\ UNCHANGED vars

Step == Toposort \/ CallSort \/ SortByIndices

Next == Step \/ Returned

Spec == Init /\ [][Next]_vars

(* topsort is sequential code that runs on. *)
FairSpec == Spec /\ WF_vars(Step)

-----------------------------------------------------------------------------
(* Properties *)

TypeOK ==
  /\ T!TypeOK
  /\ sorting => S!TypeOK
  /\ Range(data) = Range(things)

(* sort_by_indices is called with a permutation, which it indexes with and
   relies on without checking. *)
SortPrecondition ==
  sorting => /\ res \in [Nodes -> Nodes] /\ IsInjective(res)
             /\ graph = Dag(things)

Uses(i) == {j \in Nodes : \/ things[j].name \in things[i].nested
                          \/ \E ref \in Range(things[i].refs) : things[j].name \in Range(ref)}

(* Aliases, structs, consts and unit enums whose names are unambiguous, that
   use only such items, none of them as the parameter of an unknown type or
   nested in a parameter, and no item that uses itself through them. *)
Plain(P) ==
  /\ \A i \in P :
       /\ things[i].kind # "algebraic"
       /\ Named(things, things[i].name) = {i}
       /\ \A ref \in Range(things[i].refs) : Len(ref) > 1 => Known(things, Head(ref))
       /\ \A id \in things[i].nested : ~Known(things, id)
       /\ Uses(i) \subseteq P
  /\ \A Q \in SUBSET P : Q # {} => \E i \in Q : Uses(i) \cap Q = {}

(* The generated file declares them after everything they use. Recursive
   types and algebraic enums elsewhere in the file do not disturb that. *)
PlainItemsAfterUses ==
  Finished => \A P \in SUBSET Nodes : Plain(P) =>
    \A p \in P : \A u \in Uses(p) : \A i, j \in Nodes :
      data[i] = things[p] /\ data[j] = things[u] => j < i

(* topsort returns, on every kind of item list. *)
Ends == <>Finished

(* "types depending on others will be written after those without
   dependencies" (CHANGELOG.md). *)
DependentsAfterIndependents ==
  Finished => \A i, j \in Nodes :
    /\ \E ref \in Range(data[i].refs) : data[j].shown \in Range(ref)
    /\ data[j].refs = <<>>
    => j < i
=============================================================================

------------------------------ MODULE MCTopsort ------------------------------
(***************************************************************************)
(* Topsort for TLC: lists of N items in the order generate_types gives     *)
(* them, by class and, after reconcile_aliases, by name within a class.    *)
(*   Structured: different names; structs and enums with up to two         *)
(*     references, or one to a generic type with a parameter, which may be *)
(*     a Vec (0) of some type.                                             *)
(*   Ambiguous: items of all kinds, two of which may have the same name,   *)
(*     as happens when several crates are generated into one file.         *)
(*   Renamed: one item is generated under another name, and referred to    *)
(*     by that name after reconcile_aliases.                               *)
(***************************************************************************)
EXTENDS Topsort

CONSTANT Lists    \* which of them

Item(kind, name, shown, refs) ==
  [kind |-> kind, name |-> name, shown |-> shown, refs |-> refs, nested |-> {}]

Rank(item) == 10 * ClassRank(item) + item.name

Chained(lists) ==
  {list \in lists : \A i \in 1..(N - 1) : Rank(list[i]) <= Rank(list[i + 1])}

Apart(list) == \A i, j \in Nodes : list[i].name = list[j].name => i = j

Simple(ids) == {<<id>> : id \in ids}

References ==
  {<<>>} \cup {<<r>> : r \in Simple(Nodes)}
         \cup {<<r, s>> : r, s \in Simple(Nodes)}
         \cup {<<<<1, id>>>> : id \in Nodes} \cup {<<<<0, 1>>>>}

Structured ==
  {list \in Chained([Nodes -> {Item(k, n, n, r) : k \in {"struct", "algebraic"},
                                                  n \in Nodes, r \in References}
                              \cup {[Item("struct", n, n, <<<<1, 0>>>>) EXCEPT !.nested = {id}] :
                                      n \in Nodes, id \in {2, 4}}
                              \cup {Item("unit", n, n, <<>>) : n \in Nodes}]) : Apart(list)}

Ambiguous ==
  Chained([Nodes -> {Item(k, n, n, r) : k \in {"alias", "struct", "algebraic", "const"},
                                        n \in 1..2,
                                        r \in {<<>>} \cup {<<s>> : s \in Simple(1..2)}}
                    \cup {Item("unit", n, n, <<>>) : n \in 1..2}])

Renamed ==
  {list \in Chained([Nodes -> {Item("struct", n, s, r) : n \in Nodes, s \in 1..(N + 1),
                                 r \in {<<>>} \cup {<<t>> : t \in Simple(1..(N + 1))}}]) :
     /\ Apart(list)
     /\ \A i \in Nodes : list[i].shown \in {list[i].name, N + 1}
     /\ \A i, j \in Nodes : list[i].shown = list[j].shown => i = j}

(* Two enums, of which one has the other in a variant. *)
Enums ==
  {list \in Chained([Nodes -> {Item("algebraic", n, n, r) :
                                 n \in Nodes, r \in {<<>>} \cup {<<s>> : s \in Simple(Nodes)}}]) :
     Apart(list)}

MCItemLists == CASE Lists = "all" -> Structured \cup Ambiguous \cup Renamed
                 [] Lists = "enums" -> Enums
=============================================================================

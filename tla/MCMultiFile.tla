----------------------------- MODULE MCMultiFile -----------------------------
(***************************************************************************)
(* Three crates for model checking MultiFile: "a" has two files, whose     *)
(* types refer to what the other file and the crates "b" and "c" declare;  *)
(* "ext" is a crate without typeshared types that may re-export some.      *)
(***************************************************************************)
EXTENDS MultiFile

MCNames == {"P", "Q", "R", "X"}
MCRank == [id \in MCNames |-> CASE id = "R" -> 1 [] id = "P" -> 2 [] id = "Q" -> 3 [] OTHER -> 0]
MCFiles == {"a1", "a2", "b1", "c1"}
MCCrateSeq == <<"a", "b", "c">>
\* any two crates in both orders
MCHashOrders == {MCCrateSeq, <<"c", "b", "a">>}
MCCrateOf == [f \in MCFiles |-> CASE f = "b1" -> "b" [] f = "c1" -> "c" [] OTHER -> "a"]

None == [k \in Classes |-> <<>>]
Only(k, item) == [None EXCEPT ![k] = <<item>>]
Item(id, shown, refs) == [name |-> id, shown |-> shown, refs |-> refs]
To(id) == [id |-> id, generic |-> FALSE]
Of(id) == [id |-> id, generic |-> TRUE]
Imp(c, id) == [crate |-> c, name |-> id]

File(byClass, uses) == [items |-> byClass, uses |-> uses, errors |-> FALSE]
Empty == File(None, {})

\* the imports of a file of crate "a": up to two
AUses == {U \in SUBSET {Imp("a", "P"), Imp("b", "P"), Imp("c", "P"), Imp("ext", "P"),
                        Imp("b", "Q"), Imp("b", "*"), Imp("ext", "*")} : Cardinality(U) <= 2}

A1 == {File(Only("struct", Item("X", "X", refs)), uses) :
         refs \in {<<To("P")>>, <<To("R")>>, <<To("Q"), Of("P")>>}, uses \in AUses}

A2 == {Empty,
       File(Only("struct", Item("P", "P", <<>>)), {}),
       File(Only("struct", Item("P", "R", <<>>)), {Imp("c", "Q")}),
       File(Only("alias", Item("Q", "Q", <<To("P")>>)), {Imp("b", "P")}),
       File(Only("const", Item("R", "R", <<To("P")>>)), {Imp("c", "P")}),
       File(Only("enum", Item("Q", "Q", <<To("X"), To("P")>>)), {Imp("a", "X"), Imp("a", "P")}),
       [File(None, {}) EXCEPT !.errors = TRUE]}

B1 == {Empty,
       File(Only("enum", Item("P", "P", <<To("Q")>>)), {Imp("ext", "Q")}),
       File([None EXCEPT !["alias"] = <<Item("P", "R", <<>>)>>,
                         !["struct"] = <<Item("Q", "Q", <<To("P")>>)>>], {}),
       File([None EXCEPT !["struct"] = <<Item("Q", "Q", <<To("P")>>), Item("P", "P", <<>>)>>], {})}

C1 == {Empty,
       File(Only("struct", Item("P", "P", <<>>)), {}),
       File(Only("struct", Item("Q", "R", <<To("P")>>)), {Imp("a", "P")})}

WorldOf(w1, w2, w3, w4) ==
  [f \in MCFiles |-> CASE f = "a1" -> w1 [] f = "a2" -> w2 [] f = "b1" -> w3 [] f = "c1" -> w4]
AllWorlds == {WorldOf(w1, w2, w3, w4) : w1 \in A1, w2 \in A2, w3 \in B1, w4 \in C1}
=============================================================================

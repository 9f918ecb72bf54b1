------------------------------ MODULE MCWriter ------------------------------
(***************************************************************************)
(* Three crates for model checking Writer, one of which is called codable: *)
(* Swift writes its module to Codable.swift.                               *)
(***************************************************************************)
EXTENDS Writer

MCCrates == {"a", "b", "codable"}
MCBefore == {<<"a", "b">>, <<"a", "codable">>, <<"b", "codable">>}
MCFileOf == [a |-> "A.swift", b |-> "B.swift", codable |-> "Codable.swift"]
MCTexts == {1, 2}
MCHelpers == {"unit"}

MCSources ==
  [crates : {{}, {"a"}, {"a", "b"}, {"b", "codable"}},
   text : {[c \in MCCrates |-> 1], [a |-> 2, b |-> 1, codable |-> 1]},
   needs : {[c \in MCCrates |-> {}], [a |-> {"unit"}, b |-> {}, codable |-> {}],
           [a |-> {}, b |-> {"unit"}, codable |-> {}]},
   failing : {{}, {"b"}}]
=============================================================================

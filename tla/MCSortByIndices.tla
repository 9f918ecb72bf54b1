--------------------------- MODULE MCSortByIndices ---------------------------
(***************************************************************************)
(* SortByIndices for TLC: every permutation of a slice, with all values    *)
(* distinct and with two equal ones.                                       *)
(***************************************************************************)
EXTENDS SortByIndices

MCSlices == {[i \in Positions |-> i], [i \in Positions |-> IF i = N THEN 1 ELSE i]}
=============================================================================

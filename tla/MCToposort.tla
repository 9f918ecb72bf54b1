----------------------------- MODULE MCToposort -----------------------------
(***************************************************************************)
(* Toposort for TLC: every graph of N nodes with dependency lists of up to *)
(* two nodes in either order, the node itself included.                    *)
(***************************************************************************)
EXTENDS Toposort

MCGraphs == [Nodes -> UNION {Injection(1..n, Nodes) : n \in 0..2}]
=============================================================================

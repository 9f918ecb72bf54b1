--------------------------- MODULE MCParallelParse ---------------------------
(***************************************************************************)
(* ParallelParse for TLC: a directory that holds a file and a directory of *)
(* two more files, in two crates, with every combination of outcomes.      *)
(***************************************************************************)
EXTENDS ParallelParse

CONSTANTS src, sub, f1, f2, f3, core, cli

MCParent == [e \in Entries |-> CASE e = src -> Root
                               [] e \in {sub, f1} -> src
                               [] OTHER -> sub]
MCCrateOf == [e \in Entries |-> IF e = f3 THEN cli ELSE core]
=============================================================================

------------------------------ MODULE ParseDirs ------------------------------
(***************************************************************************)
(* What parallel_parse (cli/src/parse.rs) promises its caller, with the    *)
(* threads, the walk and the channel left out: one step from "running" to  *)
(* a verdict.                                                              *)
(*                                                                         *)
(*  - "ok": no entry failed, and the parsed data of every file that holds  *)
(*    typeshared items was appended exactly once to the data of its crate, *)
(*    in an order the caller may not rely on;                              *)
(*  - "err": the error of one entry that failed;                           *)
(*  - "panicked": the call unwound instead of returning, which it may do   *)
(*    only when the parser panicked on an entry, or when an entry failed   *)
(*    and there was more than one result to report.                        *)
(*                                                                         *)
(* A verdict is not promised: when the parser panics on an entry the call  *)
(* may also stay "running" for ever.                                       *)
(***************************************************************************)
EXTENDS Functions

CONSTANTS Entries,      \* directory entries below the directories given
          Crates,       \* keys of the returned map
          CrateOf,      \* the crate an entry's parsed data belongs to
          NoEntry       \* no error

VARIABLES outcome,      \* what parsing each entry yields, or "panic"
          verdict,      \* "running", "ok", "err" or "panicked"
          crates,       \* the returned map: crate -> files merged, in order
          reported      \* the entry whose error is returned

vars == <<outcome, verdict, crates, reported>>

With(o) == {e \in Entries : outcome[e] = o}

Init == /\ outcome \in [Entries -> {"skip", "data", "err", "panic"}]
        /\ verdict = "running"
        /\ crates = [c \in Crates |-> <<>>]
        /\ reported = NoEntry

Succeed == /\ verdict = "running" /\ verdict' = "ok"
           /\ With("err") \cup With("panic") = {}
           /\ \A c \in Crates :
                /\ IsInjective(crates'[c])
                /\ Range(crates'[c]) = {e \in With("data") : CrateOf[e] = c}
           /\ UNCHANGED <<outcome, reported>>

Fail == /\ verdict = "running" /\ verdict' = "err"
        /\ reported' \in With("err")
        /\ UNCHANGED <<outcome, crates>>

Unwind == /\ verdict = "running" /\ verdict' = "panicked"
          /\ \/ With("panic") # {}
             \/ \E e \in With("err") : \E r \in With("err") \cup With("data") : r # e
          /\ UNCHANGED <<outcome, crates, reported>>

Next == Succeed \/ Fail \/ Unwind

Spec == Init /\ [][Next]_vars
=============================================================================

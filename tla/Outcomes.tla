------------------------------ MODULE Outcomes ------------------------------
(***************************************************************************)
(* What the parts of the tool hand to one another: results that may be     *)
(* failures, imports, and what a backend has written.                      *)
(*                                                                         *)
(* What is written is abstracted to a Text: the types it declares, the     *)
(* types it refers to, what it needs besides them (imports, functions      *)
(* generated at the end), what the backend remembers of it in its fields,  *)
(* and whether writing ends in an error or a panic. A type in a Text is    *)
(* the parts its name is put together from, prefix first, with the number  *)
(* of its type parameters.                                                 *)
(***************************************************************************)
EXTENDS Naturals, Sequences

Languages == {"go", "kotlin", "python", "scala", "swift", "typescript"}

Fail(what) == [failure |-> what]
IsFailure(result) == DOMAIN result = {"failure"}
Panic == Fail("panic")

(* Of a sequence what is in a set. *)
Chosen(seq, set) ==
  LET UpTo[n \in 0..Len(seq)] ==
        IF n = 0 THEN <<>>
        ELSE IF seq[n] \in set THEN Append(UpTo[n - 1], seq[n]) ELSE UpTo[n - 1]
  IN  UpTo[Len(seq)]

(* The first failure of results, or else value. *)
FirstFailureOr(results, value) ==
  LET failures == {i \in DOMAIN results : IsFailure(results[i])}
  IN  IF failures = {} THEN value
      ELSE results[CHOOSE i \in failures : \A j \in failures : i <= j]

(* The sum of a sequence of numbers. *)
Total(numbers) ==
  LET UpTo[n \in 0..Len(numbers)] == IF n = 0 THEN 0 ELSE UpTo[n - 1] + numbers[n]
  IN  UpTo[Len(numbers)]

(* f where it is defined, and else g; f with y at x. *)
Over(f, g) == [x \in DOMAIN f \cup DOMAIN g |-> IF x \in DOMAIN f THEN f[x] ELSE g[x]]
Put(f, x, y) == Over([z \in {x} |-> y], f)

NoCrate == "no crate"
Import(base, name) == [base |-> base, name |-> name]

Empty == [names |-> {}, refs |-> {}, needs |-> {}, recorded |-> {}, fate |-> "ok"]

Both(text, next) ==
  [names |-> text.names \cup next.names, refs |-> text.refs \cup next.refs,
   needs |-> text.needs \cup next.needs, recorded |-> text.recorded \cup next.recorded,
   fate |-> IF text.fate = "ok" THEN next.fate ELSE text.fate]
=============================================================================

--------------------------- MODULE TypeshareProofs ---------------------------
(***************************************************************************)
(* Proofs about Typeshare, for sources, configurations and runs of every   *)
(* number and content. What the parsers are relied on for, that what they  *)
(* return keeps the name and the shape of its item, is proved of them      *)
(* first; then what holds whatever the backends write: which items are     *)
(* parsed, renamed and written, and how a run ends. The last parts are     *)
(* about what the walk makes of the sources: the imports of a file are     *)
(* those its use items and paths declare (UseImports), and what is skipped *)
(* or not for the target systems is as if it were not there                *)
(* (SkippingIsErasing), by inductions over use trees and cfg predicates.   *)
(***************************************************************************)
EXTENDS TypeshareProperties, WellFoundedInduction, FiniteSetTheorems, SequenceTheorems, TLAPS

-----------------------------------------------------------------------------
(* Numbers and sums *)

(* Induction, with the set of the numbers it is about. *)
LEMMA Induction ==
  ASSUME NEW S, 0 \in S, \A n \in Nat : n \in S => n + 1 \in S
  PROVE  Nat \subseteq S
<1> DEFINE Bad == Nat \ S
<1> SUFFICES ASSUME Bad # {} PROVE FALSE
  OBVIOUS
<1>1. PICK n \in Bad : \A k \in Bad : ~(<<k, n>> \in OpToRel(<, Nat))
  <2>1. Bad \subseteq Nat
    OBVIOUS
  <2> QED
    BY <2>1, NatLessThanWellFounded, WFMin
<1>2. n \in Nat /\ n # 0
  OBVIOUS
<1>3. n - 1 \in Bad
  <2>1. n - 1 \in Nat /\ n - 1 + 1 = n
    BY <1>2
  <2> QED
    BY <2>1
<1>4. <<n - 1, n>> \in Nat \X Nat /\ <<n - 1, n>>[1] < <<n - 1, n>>[2]
  BY <1>2, <1>3
<1>5. <<n - 1, n>> \in OpToRel(<, Nat)
  BY <1>4, Zenon DEF OpToRel
<1> QED
  BY <1>1, <1>3, <1>5

(* The sums of the first numbers, from none to all of them. *)
AreSums(f, numbers) ==
  /\ f \in [0..Len(numbers) -> Nat] /\ f[0] = 0
  /\ \A n \in 1..Len(numbers) : f[n] = f[n - 1] + numbers[n]

LEMMA SumsExist ==
  ASSUME NEW numbers \in Seq(Nat)
  PROVE  \E f : AreSums(f, numbers)
<1> DEFINE len == Len(numbers)
           Upto(f, n) == /\ f \in [0..n -> Nat] /\ f[0] = 0
                         /\ \A k \in 1..n : f[k] = f[k - 1] + numbers[k]
           Good == {n \in Nat : n <= len => \E f : Upto(f, n)}
<1>1. len \in Nat /\ \A k \in 1..len : numbers[k] \in Nat
  BY LenProperties, ElementOfSeq
<1>2. 0 \in Good
  <2>1. Upto([k \in 0..0 |-> 0], 0)
    OBVIOUS
  <2> QED
    BY <2>1
<1>3. ASSUME NEW n \in Nat, n \in Good PROVE n + 1 \in Good
  <2>0. CASE ~(n + 1 <= len)
    BY <2>0
  <2> SUFFICES ASSUME n + 1 <= len PROVE n + 1 \in Good
    BY <2>0
  <2>1. PICK f : Upto(f, n)
    <3>1. n <= len
      BY <1>1
    <3>2. \E f : Upto(f, n)
      <4> HIDE DEF Upto
      <4> QED
        BY <1>3, <3>1
    <3> QED
      BY <3>2
  <2> DEFINE g == [k \in 0..n + 1 |-> IF k = n + 1 THEN f[n] + numbers[n + 1] ELSE f[k]]
  <2>2. numbers[n + 1] \in Nat /\ f[n] \in Nat
    BY <1>1, <2>1
  <2>3. g \in [0..n + 1 -> Nat] /\ g[0] = 0
    BY <2>1, <2>2
  <2>4. ASSUME NEW k \in 1..n + 1 PROVE g[k] = g[k - 1] + numbers[k]
    <3>1. k - 1 \in 0..n /\ k \in 0..n + 1 /\ k - 1 # n + 1 /\ k - 1 \in 0..n + 1
      OBVIOUS
    <3>2. g[k - 1] = f[k - 1]
      BY <3>1
    <3>3. CASE k = n + 1
      BY <3>1, <3>2, <3>3
    <3>4. CASE k \in 1..n
      BY <2>1, <3>1, <3>2, <3>4
    <3> QED
      BY <3>3, <3>4
  <2>5. Upto(g, n + 1)
    <3> HIDE DEF g
    <3> QED
      BY <2>3, <2>4
  <2> HIDE DEF Upto
  <2> QED
    BY <2>5
<1>4. len \in Good
  <2> HIDE DEF Good
  <2> QED
    BY <1>1, <1>2, <1>3, Induction
<1> QED
  BY <1>1, <1>4 DEF AreSums

LEMMA TotalIs ==
  ASSUME NEW numbers, Len(numbers) \in Nat, NEW f, AreSums(f, numbers)
  PROVE  Total(numbers) = f[Len(numbers)]
<1> DEFINE len == Len(numbers)
           Is(g) == g = [n \in 0..len |-> IF n = 0 THEN 0 ELSE g[n - 1] + numbers[n]]
           sumTo == CHOOSE g : Is(g)
           Good == {n \in Nat : n <= len => sumTo[n] = f[n]}
<1>1. Is(f)
  BY DEF AreSums
<1>2. Is(sumTo)
  <2> HIDE DEF Is
  <2> QED
    BY <1>1
<1>3. Total(numbers) = sumTo[len]
  BY DEF Total
<1>4. sumTo[0] = 0 /\ \A n \in 1..len : sumTo[n] = sumTo[n - 1] + numbers[n]
  <2> HIDE DEF sumTo
  <2>1. 0 \in 0..len /\ \A n \in 1..len : n \in 0..len /\ n # 0
    OBVIOUS
  <2> QED
    BY <1>2, <2>1
<1> HIDE DEF sumTo
<1>5. 0 \in Good
  BY <1>4 DEF AreSums
<1>6. ASSUME NEW n \in Nat, n \in Good PROVE n + 1 \in Good
  <2>1. n + 1 - 1 = n /\ (n + 1 <= len => n <= len /\ n + 1 \in 1..len)
    OBVIOUS
  <2> QED
    BY <1>4, <1>6, <2>1 DEF AreSums
<1>7. len \in Good
  <2> HIDE DEF Good
  <2> QED
    BY <1>5, <1>6, Induction
<1> QED
  BY <1>3, <1>7

LEMMA TotalIsNat ==
  ASSUME NEW numbers \in Seq(Nat)
  PROVE  Total(numbers) \in Nat
<1>1. Len(numbers) \in Nat
  BY LenProperties
<1> QED
  BY <1>1, SumsExist, TotalIs DEF AreSums

LEMMA TotalOfBoth ==
  ASSUME NEW s \in Seq(Nat), NEW t \in Seq(Nat)
  PROVE  Total(s \o t) = Total(s) + Total(t)
<1>1. PICK f : AreSums(f, s)
  BY SumsExist
<1>2. PICK g : AreSums(g, t)
  BY SumsExist
<1> DEFINE m == Len(s)
           n == Len(t)
           h == [k \in 0..m + n |-> IF k <= m THEN f[k] ELSE f[m] + g[k - m]]
<1>3. m \in Nat /\ n \in Nat
  BY LenProperties
<1>4. /\ Len(s \o t) = m + n
      /\ \A k \in 1..m + n : (s \o t)[k] = IF k <= m THEN s[k] ELSE t[k - m]
  BY ConcatProperties
<1>5. /\ f \in [0..m -> Nat] /\ f[0] = 0 /\ \A k \in 1..m : f[k] = f[k - 1] + s[k]
      /\ g \in [0..n -> Nat] /\ g[0] = 0 /\ \A k \in 1..n : g[k] = g[k - 1] + t[k]
  BY <1>1, <1>2 DEF AreSums
<1>6. \A k \in 0..m : h[k] = f[k]
  BY <1>3
<1>7. \A k \in 0..n : h[m + k] = f[m] + g[k]
  <2> SUFFICES ASSUME NEW k \in 0..n PROVE h[m + k] = f[m] + g[k]
    OBVIOUS
  <2>1. m + k \in 0..m + n /\ m + k - m = k /\ f[m] \in Nat
    BY <1>3, <1>5
  <2>2. CASE k = 0
    BY <1>3, <1>5, <2>1, <2>2
  <2>3. CASE k # 0
    <3>1. ~(m + k <= m)
      BY <1>3, <2>3
    <3> QED
      BY <2>1, <3>1
  <2> QED
    BY <2>2, <2>3
<1>8. h \in [0..m + n -> Nat]
  <2> SUFFICES ASSUME NEW k \in 0..m + n PROVE (IF k <= m THEN f[k] ELSE f[m] + g[k - m]) \in Nat
    OBVIOUS
  <2>1. m \in 0..m /\ (k <= m => k \in 0..m) /\ (~(k <= m) => k - m \in 0..n)
    BY <1>3
  <2> QED
    <3>1. f[m] \in Nat
      BY <1>5, <2>1
    <3>2. CASE k <= m
      BY <1>5, <2>1, <3>2
    <3>3. CASE ~(k <= m)
      <4>1. g[k - m] \in Nat
        BY <1>5, <2>1, <3>3
      <4> QED
        BY <3>1, <3>3, <4>1
    <3> QED
      BY <3>2, <3>3
<1>9. \A k \in 1..m + n : h[k] = h[k - 1] + (s \o t)[k]
  <2> SUFFICES ASSUME NEW k \in 1..m + n PROVE h[k] = h[k - 1] + (s \o t)[k]
    OBVIOUS
  <2> HIDE DEF h
  <2>1. CASE k <= m
    <3>1. k \in 0..m /\ k - 1 \in 0..m /\ k \in 1..m
      BY <1>3, <2>1
    <3> QED
      BY <1>4, <1>5, <1>6, <2>1, <3>1
  <2>2. CASE ~(k <= m)
    <3>1. /\ k - m \in 1..n /\ k - m - 1 \in 0..n /\ k - m \in 0..n
          /\ m + (k - m) = k /\ m + (k - m - 1) = k - 1
      BY <1>3, <2>2
    <3>2. h[k] = f[m] + g[k - m] /\ h[k - 1] = f[m] + g[k - m - 1]
      BY <1>7, <3>1
    <3>3. g[k - m] = g[k - m - 1] + t[k - m] /\ (s \o t)[k] = t[k - m]
      BY <1>4, <1>5, <2>2, <3>1
    <3>4. f[m] \in Nat /\ g[k - m - 1] \in Nat /\ t[k - m] \in Nat
      <4>1. m \in 0..m
        BY <1>3
      <4>2. t[k - m] \in Nat
        BY <3>1, ElementOfSeq
      <4> QED
        BY <1>5, <3>1, <4>1, <4>2
    <3> QED
      BY <3>2, <3>3, <3>4
  <2> QED
    BY <2>1, <2>2
<1>10. AreSums(h, s \o t) /\ h[0] = 0 /\ h[m + n] = f[m] + g[n]
  <2>1. 0 \in 0..m /\ n \in 0..n
    BY <1>3
  <2> HIDE DEF h
  <2> QED
    BY <1>4, <1>5, <1>6, <1>7, <1>8, <1>9, <2>1 DEF AreSums
<1>11. Total(s \o t) = f[m] + g[n]
  <2> HIDE DEF h
  <2>1. Len(s \o t) = m + n /\ m + n \in Nat
    BY <1>3, <1>4
  <2>2. Total(s \o t) = h[Len(s \o t)]
    BY <1>10, <2>1, TotalIs
  <2> QED
    BY <1>10, <2>1, <2>2
<1>12. Total(s) = f[m] /\ Total(t) = g[n]
  BY <1>1, <1>2, <1>3, TotalIs
<1> QED
  BY <1>11, <1>12

-----------------------------------------------------------------------------
(* Recursive functions *)

(* G[x, f] is the same for all f that agree on what is smaller than x. *)
DependsOnSmaller(G, m, S, V) ==
  \A x \in S : \A f, g \in [S -> V] :
    (\A y \in S : m[y] < m[x] => f[y] = g[y]) => G[<<x, f>>] = G[<<x, g>>]

SolvesBelow(n, f, G, m, S) == \A x \in S : m[x] < n => f[x] = G[<<x, f>>]

LEMMA SolutionsAgree ==
  ASSUME NEW S, NEW m \in [S -> Nat], NEW V, NEW G, DependsOnSmaller(G, m, S, V),
         NEW a \in Nat, NEW b \in Nat, NEW f \in [S -> V], NEW g \in [S -> V],
         SolvesBelow(a, f, G, m, S), SolvesBelow(b, g, G, m, S)
  PROVE  \A x \in S : m[x] < a /\ m[x] < b => f[x] = g[x]
<1> DEFINE Good == {n \in Nat : \A x \in S : m[x] < n /\ m[x] < a /\ m[x] < b => f[x] = g[x]}
<1>1. 0 \in Good
  OBVIOUS
<1>2. ASSUME NEW n \in Nat, n \in Good PROVE n + 1 \in Good
  <2> SUFFICES ASSUME NEW x \in S, m[x] < n + 1, m[x] < a, m[x] < b PROVE f[x] = g[x]
    OBVIOUS
  <2>1. m[x] \in Nat /\ \A y \in S : m[y] \in Nat
    OBVIOUS
  <2>2. \A y \in S : m[y] < m[x] => f[y] = g[y]
    BY <1>2, <2>1
  <2>3. G[<<x, f>>] = G[<<x, g>>]
    BY <2>2 DEF DependsOnSmaller
  <2> QED
    BY <2>3 DEF SolvesBelow
<1>3. Nat \subseteq Good
  <2> HIDE DEF Good
  <2> QED
    BY <1>1, <1>2, Induction
<1> QED
  <2> SUFFICES ASSUME NEW x \in S, m[x] < a, m[x] < b PROVE f[x] = g[x]
    OBVIOUS
  <2>1. m[x] + 1 \in Good /\ m[x] < m[x] + 1
    BY <1>3
  <2> QED
    BY <2>1

LEMMA SolutionsExistBelow ==
  ASSUME NEW S, NEW m \in [S -> Nat], NEW V, NEW G \in [S \X [S -> V] -> V],
         DependsOnSmaller(G, m, S, V), NEW v \in V
  PROVE  \A n \in Nat : \E f \in [S -> V] : SolvesBelow(n, f, G, m, S)
<1> DEFINE Good == {n \in Nat : \E f \in [S -> V] : SolvesBelow(n, f, G, m, S)}
<1>1. 0 \in Good
  <2>1. [x \in S |-> v] \in [S -> V] /\ SolvesBelow(0, [x \in S |-> v], G, m, S)
    BY DEF SolvesBelow
  <2> QED
    BY <2>1
<1>2. ASSUME NEW n \in Nat, n \in Good PROVE n + 1 \in Good
  <2>1. PICK f \in [S -> V] : SolvesBelow(n, f, G, m, S)
    BY <1>2
  <2> DEFINE g == [x \in S |-> IF m[x] < n THEN f[x] ELSE G[<<x, f>>]]
  <2>2. g \in [S -> V]
    OBVIOUS
  <2>3. \A x \in S : m[x] \in Nat
    OBVIOUS
  <2>4. \A x \in S : m[x] < n => g[x] = f[x]
    OBVIOUS
  <2>5. ASSUME NEW x \in S, m[x] < n + 1 PROVE g[x] = G[<<x, g>>]
    <3>1. \A y \in S : m[y] < m[x] => f[y] = g[y]
      BY <2>3, <2>4, <2>5
    <3>2. g[x] = G[<<x, f>>]
      BY <2>1 DEF SolvesBelow
    <3> HIDE DEF g
    <3>3. G[<<x, f>>] = G[<<x, g>>]
      BY <2>2, <3>1 DEF DependsOnSmaller
    <3> QED
      BY <3>2, <3>3
  <2>6. SolvesBelow(n + 1, g, G, m, S)
    <3> HIDE DEF g
    <3> QED
      BY <2>5 DEF SolvesBelow
  <2> HIDE DEF g
  <2> QED
    BY <2>2, <2>6
<1> HIDE DEF Good
<1>3. Nat \subseteq Good
  BY <1>1, <1>2, Induction
<1> QED
  BY <1>3 DEF Good

(* There is a function that is recursive in this way. *)
IsRecursive(f, G, S) == f = [x \in S |-> G[<<x, f>>]]

LEMMA Recursion ==
  ASSUME NEW S, NEW m \in [S -> Nat], NEW V, NEW G \in [S \X [S -> V] -> V],
         DependsOnSmaller(G, m, S, V), NEW v \in V
  PROVE  \E f \in [S -> V] : IsRecursive(f, G, S)
<1> DEFINE Below(n) == CHOOSE f \in [S -> V] : SolvesBelow(n, f, G, m, S)
           f == [x \in S |-> Below(m[x] + 1)[x]]
<1>1. ASSUME NEW n \in Nat PROVE Below(n) \in [S -> V] /\ SolvesBelow(n, Below(n), G, m, S)
  BY SolutionsExistBelow
<1>2. \A x \in S : m[x] \in Nat /\ m[x] + 1 \in Nat /\ m[x] < m[x] + 1
  OBVIOUS
<1> HIDE DEF Below
<1>3. f \in [S -> V]
  BY <1>1, <1>2
<1>4. ASSUME NEW x \in S PROVE f[x] = G[<<x, f>>]
  <2> DEFINE h == Below(m[x] + 1)
  <2>1. h \in [S -> V] /\ SolvesBelow(m[x] + 1, h, G, m, S)
    BY <1>1, <1>2
  <2>2. f[x] = h[x]
    OBVIOUS
  <2>3. ASSUME NEW y \in S, m[y] < m[x] PROVE f[y] = h[y]
    <3>1. /\ Below(m[y] + 1) \in [S -> V] /\ SolvesBelow(m[y] + 1, Below(m[y] + 1), G, m, S)
          /\ m[y] + 1 \in Nat /\ m[x] + 1 \in Nat /\ m[y] < m[y] + 1 /\ m[y] < m[x] + 1
      BY <1>1, <1>2, <2>3
    <3>2. f[y] = Below(m[y] + 1)[y]
      OBVIOUS
    <3> HIDE DEF h
    <3>3. Below(m[y] + 1)[y] = h[y]
      BY <2>1, <3>1, SolutionsAgree
    <3> QED
      BY <3>2, <3>3
  <2> HIDE DEF h, f
  <2>4. h[x] = G[<<x, h>>]
    BY <1>2, <2>1 DEF SolvesBelow
  <2>5. G[<<x, f>>] = G[<<x, h>>]
    BY <1>3, <2>1, <2>3 DEF DependsOnSmaller
  <2> QED
    BY <2>2, <2>4, <2>5
<1>5. f = [x \in S |-> f[x]]
  OBVIOUS
<1> HIDE DEF f
<1> QED
  BY <1>3, <1>4, <1>5 DEF IsRecursive

-----------------------------------------------------------------------------
(* Sequences *)

LEMMA FrontAndLast ==
  ASSUME NEW S, NEW s \in Seq(S), s # <<>>
  PROVE  /\ Front(s) \in Seq(S) /\ Last(s) \in S /\ s = Append(Front(s), Last(s))
         /\ Len(Front(s)) = Len(s) - 1
<1>1. Len(s) \in Nat \ {0}
  BY EmptySeq
<1>2. \A i \in 1..Len(s) : s[i] \in S
  BY ElementOfSeq
<1>3. /\ Front(s) \in Seq(S) /\ Len(Front(s)) = Len(s) - 1
      /\ \A i \in 1..Len(s) - 1 : Front(s)[i] = s[i]
  <2>1. 1 \in Int /\ Len(s) - 1 \in Int /\ \A i \in 1..Len(s) - 1 : s[i] \in S
    BY <1>1, <1>2
  <2>2. /\ SubSeq(s, 1, Len(s) - 1) \in Seq(S)
        /\ Len(SubSeq(s, 1, Len(s) - 1)) = IF 1 <= Len(s) - 1 THEN Len(s) - 1 - 1 + 1 ELSE 0
        /\ \A i \in 1..Len(s) - 1 - 1 + 1 : SubSeq(s, 1, Len(s) - 1)[i] = s[1 + i - 1]
    BY <2>1, SubSeqProperties
  <2>3. PICK n \in Nat : Len(s) = n + 1 /\ Len(s) - 1 = n
    BY <1>1
  <2>4. n - 1 + 1 = n /\ (IF 1 <= n THEN n - 1 + 1 ELSE 0) = n /\ \A i \in 1..n : 1 + i - 1 = i
    OBVIOUS
  <2> QED
    BY <2>2, <2>3, <2>4 DEF Front
<1>4. Last(s) \in S /\ Last(s) = s[Len(s)]
  BY <1>1, <1>2 DEF Last
<1> DEFINE t == Append(Front(s), Last(s))
<1>5. /\ t \in Seq(S) /\ Len(t) = Len(s)
      /\ \A i \in 1..Len(s) - 1 : t[i] = s[i]
      /\ t[Len(s)] = s[Len(s)]
  <2>1. /\ t \in Seq(S) /\ Len(t) = Len(Front(s)) + 1
        /\ \A i \in 1..Len(Front(s)) : t[i] = Front(s)[i]
        /\ t[Len(Front(s)) + 1] = Last(s)
    BY <1>3, <1>4, AppendProperties
  <2>2. Len(s) - 1 + 1 = Len(s)
    BY <1>1
  <2> HIDE DEF t
  <2> QED
    BY <1>3, <1>4, <2>1, <2>2
<1> HIDE DEF t
<1>6. \A i \in 1..Len(s) : s[i] = t[i]
  <2> SUFFICES ASSUME NEW i \in 1..Len(s) PROVE s[i] = t[i]
    OBVIOUS
  <2>1. i = Len(s) \/ i \in 1..Len(s) - 1
    BY <1>1
  <2> QED
    BY <1>5, <2>1
<1>7. s = t
  BY <1>5, <1>6, SeqEqual
<1> QED
  BY <1>3, <1>4, <1>7 DEF t

LEMMA FrontOfAppended ==
  ASSUME NEW S, NEW s \in Seq(S), NEW x \in S
  PROVE  /\ Append(s, x) \in Seq(S) /\ Append(s, x) # <<>>
         /\ Front(Append(s, x)) = s /\ Last(Append(s, x)) = x
<1>1. Append(s, x) \in Seq(S) /\ Append(s, x) # <<>>
  BY AppendProperties
<1>2. /\ Front(Append(s, x)) \in Seq(S) /\ Last(Append(s, x)) \in S
      /\ Append(s, x) = Append(Front(Append(s, x)), Last(Append(s, x)))
  BY <1>1, FrontAndLast
<1> QED
  BY <1>1, <1>2, AppendInjective

(* Induction, with the set of the sequences it is about. *)
LEMMA InductionOnSequences ==
  ASSUME NEW S, NEW T, <<>> \in T,
         \A s \in Seq(S) : \A x \in S : s \in T => Append(s, x) \in T
  PROVE  Seq(S) \subseteq T
<1> DEFINE Good == {n \in Nat : \A s \in Seq(S) : Len(s) = n => s \in T}
<1>1. 0 \in Good
  <2> SUFFICES ASSUME NEW s \in Seq(S), Len(s) = 0 PROVE s \in T
    OBVIOUS
  <2>1. s = <<>>
    BY EmptySeq
  <2> QED
    BY <2>1
<1>2. ASSUME NEW n \in Nat, n \in Good PROVE n + 1 \in Good
  <2> SUFFICES ASSUME NEW s \in Seq(S), Len(s) = n + 1 PROVE s \in T
    OBVIOUS
  <2>1. s # <<>>
    BY EmptySeq
  <2>2. /\ Front(s) \in Seq(S) /\ Last(s) \in S /\ s = Append(Front(s), Last(s))
        /\ Len(Front(s)) = n
    BY <2>1, FrontAndLast
  <2>3. Front(s) \in T
    BY <1>2, <2>2
  <2> QED
    BY <2>2, <2>3
<1>3. Nat \subseteq Good
  <2> HIDE DEF Good
  <2> QED
    BY <1>1, <1>2, Induction
<1> QED
  <2> SUFFICES ASSUME NEW s \in Seq(S) PROVE s \in T
    OBVIOUS
  <2>1. Len(s) \in Nat
    BY LenProperties
  <2> QED
    BY <1>3, <2>1

LEMMA ToSetOfNone == ToSet(<<>>) = {}
BY DEF ToSet

LEMMA ToSetIs ==
  ASSUME NEW S, NEW s \in Seq(S)
  PROVE  ToSet(s) \subseteq S /\ s \in Seq(ToSet(s)) /\ (s # <<>> => ToSet(s) # {})
<1>1. DOMAIN s = 1..Len(s) /\ Len(s) \in Nat /\ \A i \in 1..Len(s) : s[i] \in S
  BY LenProperties, ElementOfSeq
<1>2. s \in [1..Len(s) -> ToSet(s)]
  <2>1. s = [i \in 1..Len(s) |-> s[i]]
    BY LenProperties
  <2> QED
    BY <1>1, <2>1 DEF ToSet
<1>3. s # <<>> => 1 \in DOMAIN s
  BY <1>1, EmptySeq
<1> QED
  BY <1>1, <1>2, <1>3 DEF ToSet

LEMMA ToSetOfBoth ==
  ASSUME NEW S, NEW s \in Seq(S), NEW t \in Seq(S)
  PROVE  ToSet(s \o t) = ToSet(s) \cup ToSet(t)
<1>1. /\ s \o t \in Seq(S) /\ Len(s \o t) = Len(s) + Len(t)
      /\ \A i \in 1..Len(s) + Len(t) : (s \o t)[i] = IF i <= Len(s) THEN s[i] ELSE t[i - Len(s)]
  BY ConcatProperties
<1>2. /\ Len(s) \in Nat /\ Len(t) \in Nat /\ DOMAIN s = 1..Len(s) /\ DOMAIN t = 1..Len(t)
      /\ DOMAIN (s \o t) = 1..Len(s) + Len(t)
  BY <1>1, LenProperties
<1>3. ASSUME NEW x \in ToSet(s \o t) PROVE x \in ToSet(s) \cup ToSet(t)
  <2>1. PICK i \in 1..Len(s) + Len(t) : x = (s \o t)[i]
    BY <1>2 DEF ToSet
  <2>2. i <= Len(s) => i \in DOMAIN s
    BY <1>2
  <2>3. ~(i <= Len(s)) => i - Len(s) \in DOMAIN t
    BY <1>2
  <2> QED
    BY <1>1, <2>1, <2>2, <2>3 DEF ToSet
<1>4. ASSUME NEW i \in DOMAIN s PROVE s[i] \in ToSet(s \o t)
  <2>1. i \in 1..Len(s) + Len(t) /\ i <= Len(s)
    BY <1>2
  <2> QED
    BY <1>1, <1>2, <2>1 DEF ToSet
<1>5. ASSUME NEW i \in DOMAIN t PROVE t[i] \in ToSet(s \o t)
  <2>1. i + Len(s) \in 1..Len(s) + Len(t) /\ ~(i + Len(s) <= Len(s)) /\ i + Len(s) - Len(s) = i
    BY <1>2
  <2>2. (s \o t)[i + Len(s)] = t[i]
    BY <1>1, <2>1
  <2> QED
    BY <1>2, <2>1, <2>2 DEF ToSet
<1> QED
  BY <1>3, <1>4, <1>5 DEF ToSet

LEMMA ToSetOfAppended ==
  ASSUME NEW S, NEW s \in Seq(S), NEW x \in S
  PROVE  ToSet(Append(s, x)) = ToSet(s) \cup {x}
<1>1. Append(s, x) = s \o <<x>> /\ <<x>> \in Seq(S)
  BY AppendIsConcat
<1>2. ToSet(<<x>>) = {x}
  <2>1. DOMAIN <<x>> = 1..1 /\ <<x>>[1] = x /\ \A i \in 1..1 : i = 1
    OBVIOUS
  <2> QED
    BY <2>1 DEF ToSet
<1>3. ToSet(s \o <<x>>) = ToSet(s) \cup ToSet(<<x>>)
  BY <1>1, ToSetOfBoth
<1> QED
  BY <1>1, <1>2, <1>3

-----------------------------------------------------------------------------
(* Sums over sequences *)
WeightsOf(w, s) == [i \in DOMAIN s |-> w[s[i]]]
SumOf(w, s) == Total(WeightsOf(w, s))
AreWeights(w, S) == \A x \in S : w[x] \in Nat

LEMMA WeightsOfAre ==
  ASSUME NEW S, NEW w, AreWeights(w, S), NEW s \in Seq(S)
  PROVE  /\ WeightsOf(w, s) \in Seq(Nat) /\ Len(WeightsOf(w, s)) = Len(s)
         /\ \A i \in 1..Len(s) : WeightsOf(w, s)[i] = w[s[i]]
<1> DEFINE ws == WeightsOf(w, s)
<1>1. DOMAIN s = 1..Len(s) /\ Len(s) \in Nat /\ \A i \in 1..Len(s) : s[i] \in S
  BY LenProperties, ElementOfSeq
<1>2. ws \in [1..Len(s) -> Nat]
  BY <1>1 DEF AreWeights, WeightsOf
<1> HIDE DEF ws
<1>3. ws \in Seq(Nat)
  BY <1>1, <1>2
<1>4. Len(ws) = Len(s)
  BY <1>1, <1>2, <1>3, LenProperties
<1> QED
  BY <1>1, <1>3, <1>4 DEF ws, WeightsOf

LEMMA SumIsNat ==
  ASSUME NEW S, NEW w, AreWeights(w, S), NEW s \in Seq(S)
  PROVE  SumOf(w, s) \in Nat
BY WeightsOfAre, TotalIsNat DEF SumOf

LEMMA TotalOfNone == Total(<<>>) = 0
<1>1. Len(<<>>) = 0
  OBVIOUS
<1>2. AreSums([n \in 0..0 |-> 0], <<>>)
  BY <1>1 DEF AreSums
<1> QED
  BY <1>1, <1>2, TotalIs

LEMMA SumOfNone == \A w : SumOf(w, <<>>) = 0
<1> SUFFICES ASSUME NEW w PROVE SumOf(w, <<>>) = 0
  OBVIOUS
<1>1. WeightsOf(w, <<>>) = <<>>
  BY DEF WeightsOf
<1> QED
  BY <1>1, TotalOfNone DEF SumOf

LEMMA SumOfBoth ==
  ASSUME NEW S, NEW w, AreWeights(w, S), NEW s \in Seq(S), NEW t \in Seq(S)
  PROVE  SumOf(w, s \o t) = SumOf(w, s) + SumOf(w, t)
<1> DEFINE ws == WeightsOf(w, s)
           wt == WeightsOf(w, t)
           wst == WeightsOf(w, s \o t)
<1>1. /\ s \o t \in Seq(S) /\ Len(s \o t) = Len(s) + Len(t)
      /\ \A i \in 1..Len(s) + Len(t) : (s \o t)[i] = IF i <= Len(s) THEN s[i] ELSE t[i - Len(s)]
      /\ Len(s) \in Nat /\ Len(t) \in Nat
  BY ConcatProperties, LenProperties
<1>2. ws \in Seq(Nat) /\ Len(ws) = Len(s) /\ \A i \in 1..Len(s) : ws[i] = w[s[i]]
  BY WeightsOfAre
<1>3. wt \in Seq(Nat) /\ Len(wt) = Len(t) /\ \A i \in 1..Len(t) : wt[i] = w[t[i]]
  BY WeightsOfAre
<1>4. wst \in Seq(Nat) /\ Len(wst) = Len(s \o t) /\ \A i \in 1..Len(s \o t) : wst[i] = w[(s \o t)[i]]
  <2> DEFINE st == s \o t
  <2>1. st \in Seq(S)
    BY <1>1
  <2> HIDE DEF st
  <2>2. /\ WeightsOf(w, st) \in Seq(Nat) /\ Len(WeightsOf(w, st)) = Len(st)
        /\ \A i \in 1..Len(st) : WeightsOf(w, st)[i] = w[st[i]]
    BY <2>1, WeightsOfAre
  <2> QED
    BY <2>2 DEF st
<1>5. SumOf(w, s) = Total(ws) /\ SumOf(w, t) = Total(wt) /\ SumOf(w, s \o t) = Total(wst)
  BY DEF SumOf
<1> HIDE DEF ws, wt, wst
<1>6. /\ ws \o wt \in Seq(Nat) /\ Len(ws \o wt) = Len(s) + Len(t)
      /\ \A i \in 1..Len(s) + Len(t) : (ws \o wt)[i] = IF i <= Len(s) THEN ws[i] ELSE wt[i - Len(s)]
  <2>1. /\ ws \o wt \in Seq(Nat) /\ Len(ws \o wt) = Len(ws) + Len(wt)
        /\ \A i \in 1..Len(ws) + Len(wt) : (ws \o wt)[i] = IF i <= Len(ws) THEN ws[i] ELSE wt[i - Len(ws)]
    BY <1>2, <1>3, ConcatProperties
  <2> QED
    BY <1>2, <1>3, <2>1
<1>7. ASSUME NEW i \in 1..Len(s) + Len(t) PROVE wst[i] = (ws \o wt)[i]
  <2>1. CASE i <= Len(s)
    <3>1. i \in 1..Len(s) /\ i \in 1..Len(s \o t)
      BY <1>1, <2>1
    <3> QED
      BY <1>1, <1>2, <1>4, <1>6, <2>1, <3>1
  <2>2. CASE ~(i <= Len(s))
    <3>1. i - Len(s) \in 1..Len(t) /\ i \in 1..Len(s \o t)
      BY <1>1, <2>2
    <3> QED
      BY <1>1, <1>3, <1>4, <1>6, <2>2, <3>1
  <2> QED
    BY <2>1, <2>2
<1>8. wst = ws \o wt
  BY <1>1, <1>4, <1>6, <1>7, SeqEqual
<1> QED
  BY <1>2, <1>3, <1>5, <1>8, TotalOfBoth

LEMMA SumOfOne ==
  ASSUME NEW S, NEW w, AreWeights(w, S), NEW x \in S
  PROVE  SumOf(w, <<x>>) = w[x]
<1> DEFINE f == [n \in 0..1 |-> IF n = 0 THEN 0 ELSE w[x]]
           one == <<x>>
           ws == WeightsOf(w, one)
<1>1. w[x] \in Nat /\ Len(one) = 1 /\ one[1] = x /\ 1 \in 1..Len(one) /\ one \in Seq(S)
  BY DEF AreWeights
<1> HIDE DEF one
<1>2. ws \in Seq(Nat) /\ Len(ws) = 1 /\ ws[1] = w[x]
  BY <1>1, WeightsOfAre
<1>3. SumOf(w, one) = Total(ws)
  BY DEF SumOf
<1> HIDE DEF ws
<1>4. f \in [0..1 -> Nat] /\ f[0] = 0 /\ f[1] = w[x]
  BY <1>1
<1> HIDE DEF f
<1>5. \A n \in 1..1 : n = 1 /\ n - 1 = 0
  OBVIOUS
<1>6. AreSums(f, ws)
  BY <1>1, <1>2, <1>4, <1>5 DEF AreSums
<1>7. Len(ws) \in Nat /\ Len(ws) = 1
  BY <1>2
<1>8. Total(ws) = f[Len(ws)]
  BY <1>6, <1>7, TotalIs
<1> QED
  BY <1>3, <1>4, <1>7, <1>8 DEF one

LEMMA SumOfAppended ==
  ASSUME NEW S, NEW w, AreWeights(w, S), NEW s \in Seq(S), NEW x \in S
  PROVE  SumOf(w, Append(s, x)) = SumOf(w, s) + w[x]
<1>1. Append(s, x) = s \o <<x>> /\ <<x>> \in Seq(S)
  BY AppendIsConcat
<1>2. SumOf(w, s \o <<x>>) = SumOf(w, s) + SumOf(w, <<x>>)
  BY <1>1, SumOfBoth
<1> QED
  BY <1>1, <1>2, SumOfOne

LEMMA PartOfSum ==
  ASSUME NEW S, NEW w, AreWeights(w, S)
  PROVE  \A s \in Seq(S) : \A x \in ToSet(s) : w[x] <= SumOf(w, s)
<1> DEFINE T == {s \in Seq(S) : \A x \in ToSet(s) : w[x] <= SumOf(w, s)}
<1>1. <<>> \in T
  BY EmptySeq, ToSetOfNone
<1>2. ASSUME NEW s \in Seq(S), NEW x \in S, s \in T
      PROVE  Append(s, x) \in T
  <2>1. /\ Append(s, x) \in Seq(S) /\ ToSet(Append(s, x)) = ToSet(s) \cup {x}
        /\ SumOf(w, Append(s, x)) = SumOf(w, s) + w[x]
    BY ToSetOfAppended, SumOfAppended, FrontOfAppended
  <2>2. SumOf(w, s) \in Nat /\ ToSet(s) \subseteq S /\ \A y \in S : w[y] \in Nat
    BY SumIsNat, ToSetIs DEF AreWeights
  <2>3. ASSUME NEW y \in ToSet(s) \cup {x} PROVE w[y] <= SumOf(w, s) + w[x]
    <3>1. CASE y \in ToSet(s)
      <4>1. w[y] <= SumOf(w, s) /\ w[y] \in Nat /\ w[x] \in Nat
        BY <1>2, <2>2, <3>1
      <4> QED
        BY <2>2, <4>1
    <3>2. CASE y = x
      BY <2>2, <3>2
    <3> QED
      BY <3>1, <3>2
  <2> QED
    BY <2>1, <2>3
<1>3. Seq(S) \subseteq T
  <2> HIDE DEF T
  <2> QED
    BY <1>1, <1>2, InductionOnSequences
<1> QED
  BY <1>3

-----------------------------------------------------------------------------
(* What is chosen of a sequence *)
AreChosen(f, s, A, S) ==
  /\ f \in [0..Len(s) -> Seq(S)] /\ f[0] = <<>>
  /\ \A n \in 1..Len(s) : f[n] = IF s[n] \in A THEN Append(f[n - 1], s[n]) ELSE f[n - 1]

LEMMA ChosenIs ==
  ASSUME NEW S, NEW s \in Seq(S), NEW A, NEW f, AreChosen(f, s, A, S)
  PROVE  Chosen(s, A) = f[Len(s)]
<1> DEFINE len == Len(s)
           Is(g) == g = [n \in 0..len |->
                           IF n = 0 THEN <<>>
                           ELSE IF s[n] \in A THEN Append(g[n - 1], s[n]) ELSE g[n - 1]]
           upTo == CHOOSE g : Is(g)
           Good == {n \in Nat : n <= len => upTo[n] = f[n]}
<1>0. len \in Nat
  BY LenProperties
<1>1. Is(f)
  <2> DEFINE At(n) == IF n = 0 THEN <<>>
                      ELSE IF s[n] \in A THEN Append(f[n - 1], s[n]) ELSE f[n - 1]
  <2>1. f = [n \in 0..len |-> f[n]]
    BY DEF AreChosen
  <2>2. ASSUME NEW n \in 0..len PROVE f[n] = At(n)
    <3>1. n = 0 \/ (n \in 1..len /\ n # 0)
      BY <1>0
    <3> QED
      BY <3>1 DEF AreChosen
  <2> HIDE DEF At
  <2>3. f = [n \in 0..len |-> At(n)]
    BY <2>1, <2>2
  <2> QED
    BY <2>3 DEF At
<1>2. Is(upTo)
  <2> HIDE DEF Is
  <2> QED
    BY <1>1
<1>3. Chosen(s, A) = upTo[len]
  BY DEF Chosen
<1>4. /\ upTo[0] = <<>>
      /\ \A n \in 1..len : upTo[n] = IF s[n] \in A THEN Append(upTo[n - 1], s[n]) ELSE upTo[n - 1]
  <2> HIDE DEF upTo
  <2>1. 0 \in 0..len /\ \A n \in 1..len : n \in 0..len /\ n # 0
    BY <1>0
  <2> QED
    BY <1>2, <2>1
<1> HIDE DEF upTo
<1>5. 0 \in Good
  BY <1>4 DEF AreChosen
<1>6. ASSUME NEW n \in Nat, n \in Good PROVE n + 1 \in Good
  <2>1. n + 1 - 1 = n /\ (n + 1 <= len => n <= len /\ n + 1 \in 1..len)
    BY <1>0
  <2> QED
    BY <1>4, <1>6, <2>1 DEF AreChosen
<1>7. len \in Good
  <2> HIDE DEF Good
  <2> QED
    BY <1>0, <1>5, <1>6, Induction
<1> QED
  BY <1>0, <1>3, <1>7

LEMMA AreChosenOfNone ==
  ASSUME NEW S, NEW A
  PROVE  AreChosen([n \in 0..0 |-> <<>>], <<>>, A, S)
<1>1. Len(<<>>) = 0 /\ <<>> \in Seq(S)
  BY EmptySeq
<1> QED
  BY <1>1 DEF AreChosen

LEMMA AreChosenOfAppended ==
  ASSUME NEW S, NEW s \in Seq(S), NEW x \in S, NEW A, NEW f, AreChosen(f, s, A, S),
         NEW g, g = [n \in 0..Len(s) + 1 |->
                       IF n <= Len(s) THEN f[n]
                       ELSE IF x \in A THEN Append(f[Len(s)], x) ELSE f[Len(s)]]
  PROVE  AreChosen(g, Append(s, x), A, S)
<1> DEFINE len == Len(s)
           t == Append(s, x)
<1>1. len \in Nat /\ len \in 0..len
  BY LenProperties
<1>2. Len(t) = len + 1 /\ t[len + 1] = x /\ \A i \in 1..len : t[i] = s[i]
  BY AppendProperties
<1>3. f[len] \in Seq(S) /\ f \in [0..len -> Seq(S)]
  BY <1>1 DEF AreChosen
<1>4. /\ \A n \in 0..len : g[n] = f[n] /\ n \in 0..len + 1
      /\ g[len + 1] = IF x \in A THEN Append(f[len], x) ELSE f[len]
      /\ DOMAIN g = 0..len + 1 /\ g = [n \in 0..len + 1 |-> g[n]]
  BY <1>1
<1>5. g[len + 1] \in Seq(S)
  BY <1>3, <1>4, AppendProperties
<1> HIDE DEF t
<1>6. g \in [0..len + 1 -> Seq(S)]
  <2>1. \A n \in 0..len + 1 : n \in 0..len \/ n = len + 1
    BY <1>1
  <2>2. \A n \in 0..len + 1 : g[n] \in Seq(S)
    BY <1>3, <1>4, <1>5, <2>1
  <2> QED
    BY <1>4, <2>2
<1>7. ASSUME NEW n \in 1..len + 1
      PROVE  g[n] = IF t[n] \in A THEN Append(g[n - 1], t[n]) ELSE g[n - 1]
  <2>1. CASE n = len + 1
    <3>1. g[n - 1] = f[len]
      BY <1>1, <1>4, <2>1
    <3> QED
      BY <1>2, <1>4, <2>1, <3>1
  <2>2. CASE n # len + 1
    <3>1. n \in 1..len /\ n \in 0..len /\ n - 1 \in 0..len
      BY <1>1, <2>2
    <3>2. f[n] = IF s[n] \in A THEN Append(f[n - 1], s[n]) ELSE f[n - 1]
      BY <3>1 DEF AreChosen
    <3> QED
      BY <1>2, <1>4, <3>1, <3>2
  <2> QED
    BY <2>1, <2>2
<1>8. g[0] = <<>>
  <2>1. 0 \in 0..len
    BY <1>1
  <2> QED
    BY <1>4, <2>1 DEF AreChosen
<1> QED
  BY <1>2, <1>6, <1>7, <1>8 DEF AreChosen, t

LEMMA AreChosenExist ==
  ASSUME NEW S, NEW A
  PROVE  \A s \in Seq(S) : \E f : AreChosen(f, s, A, S)
<1> DEFINE T == {s \in Seq(S) : \E f : AreChosen(f, s, A, S)}
<1>1. <<>> \in T
  BY AreChosenOfNone, EmptySeq
<1>2. ASSUME NEW s \in Seq(S), NEW x \in S, s \in T PROVE Append(s, x) \in T
  <2>1. PICK f : AreChosen(f, s, A, S)
    BY <1>2
  <2>2. \E g : AreChosen(g, Append(s, x), A, S)
    BY <2>1, AreChosenOfAppended
  <2> QED
    BY <2>2, AppendProperties
<1> HIDE DEF T
<1>3. Seq(S) \subseteq T
  BY <1>1, <1>2, InductionOnSequences
<1> QED
  BY <1>3 DEF T

LEMMA ChosenOfNone == \A A : Chosen(<<>>, A) = <<>>
<1> SUFFICES ASSUME NEW A PROVE Chosen(<<>>, A) = <<>>
  OBVIOUS
<1>1. <<>> \in Seq({}) /\ Len(<<>>) = 0
  BY EmptySeq
<1> DEFINE f == [n \in 0..0 |-> <<>>]
<1>2. AreChosen(f, <<>>, A, {}) /\ f[0] = <<>>
  BY AreChosenOfNone
<1> HIDE DEF f
<1> QED
  BY <1>1, <1>2, ChosenIs

LEMMA ChosenOfAppended ==
  ASSUME NEW S, NEW s \in Seq(S), NEW x \in S, NEW A
  PROVE  Chosen(Append(s, x), A) = IF x \in A THEN Append(Chosen(s, A), x) ELSE Chosen(s, A)
<1>1. PICK f : AreChosen(f, s, A, S)
  BY AreChosenExist
<1> DEFINE len == Len(s)
           g == [n \in 0..Len(s) + 1 |->
                   IF n <= Len(s) THEN f[n]
                   ELSE IF x \in A THEN Append(f[Len(s)], x) ELSE f[Len(s)]]
<1>2. AreChosen(g, Append(s, x), A, S)
  <2> DEFINE h == g
  <2>1. h = g
    OBVIOUS
  <2> HIDE DEF h
  <2>2. AreChosen(h, Append(s, x), A, S)
    BY <1>1, <2>1, AreChosenOfAppended
  <2> QED
    BY <2>1, <2>2
<1>3. len \in Nat /\ Append(s, x) \in Seq(S) /\ Len(Append(s, x)) = len + 1
  BY LenProperties, AppendProperties
<1>4. g[len + 1] = IF x \in A THEN Append(f[len], x) ELSE f[len]
  BY <1>3
<1> HIDE DEF g
<1>5. Chosen(Append(s, x), A) = g[len + 1]
  BY <1>2, <1>3, ChosenIs
<1>6. Chosen(s, A) = f[len]
  BY <1>1, ChosenIs
<1> QED
  BY <1>4, <1>5, <1>6

LEMMA ChosenAre ==
  ASSUME NEW S, NEW A
  PROVE  \A s \in Seq(S) : Chosen(s, A) \in Seq(S) /\ ToSet(Chosen(s, A)) = ToSet(s) \cap A
<1> DEFINE T == {s \in Seq(S) : Chosen(s, A) \in Seq(S) /\ ToSet(Chosen(s, A)) = ToSet(s) \cap A}
<1>1. <<>> \in T
  BY ChosenOfNone, EmptySeq, ToSetOfNone
<1>2. ASSUME NEW s \in Seq(S), NEW x \in S, s \in T PROVE Append(s, x) \in T
  <2>1. /\ Chosen(Append(s, x), A) = IF x \in A THEN Append(Chosen(s, A), x) ELSE Chosen(s, A)
        /\ ToSet(Append(s, x)) = ToSet(s) \cup {x} /\ Append(s, x) \in Seq(S)
    BY ChosenOfAppended, ToSetOfAppended, AppendProperties
  <2>2. ToSet(Append(Chosen(s, A), x)) = ToSet(Chosen(s, A)) \cup {x} /\ Append(Chosen(s, A), x) \in Seq(S)
    BY <1>2, ToSetOfAppended, AppendProperties
  <2> QED
    BY <1>2, <2>1, <2>2
<1> HIDE DEF T
<1>3. Seq(S) \subseteq T
  BY <1>1, <1>2, InductionOnSequences
<1> QED
  BY <1>3 DEF T

LEMMA SameChosen ==
  ASSUME NEW S, NEW A, NEW B
  PROVE  \A s \in Seq(S) : (\A x \in ToSet(s) : x \in A <=> x \in B) => Chosen(s, A) = Chosen(s, B)
<1> DEFINE T == {s \in Seq(S) : (\A x \in ToSet(s) : x \in A <=> x \in B) => Chosen(s, A) = Chosen(s, B)}
<1>1. <<>> \in T
  BY ChosenOfNone, EmptySeq
<1>2. ASSUME NEW s \in Seq(S), NEW x \in S, s \in T PROVE Append(s, x) \in T
  <2>1. /\ Chosen(Append(s, x), A) = IF x \in A THEN Append(Chosen(s, A), x) ELSE Chosen(s, A)
        /\ Chosen(Append(s, x), B) = IF x \in B THEN Append(Chosen(s, B), x) ELSE Chosen(s, B)
        /\ ToSet(Append(s, x)) = ToSet(s) \cup {x} /\ Append(s, x) \in Seq(S)
    BY ChosenOfAppended, ToSetOfAppended, AppendProperties
  <2> QED
    BY <1>2, <2>1
<1> HIDE DEF T
<1>3. Seq(S) \subseteq T
  BY <1>1, <1>2, InductionOnSequences
<1> QED
  BY <1>3 DEF T

-----------------------------------------------------------------------------
(* What the visitor puts into a ParsedData. *)
Errors == {result.failure : result \in {r \in Results : IsFailure(r)}}
IsParsedData(parsed) ==
  DOMAIN parsed = DOMAIN NoData /\ parsed.items \in Seq(ParsedItems) /\ parsed.errors \in Seq(Errors)

-----------------------------------------------------------------------------
(* The parsers *)

(* The first failure is one. *)
LEMMA FirstFailureIs ==
  ASSUME NEW results, DOMAIN results \subseteq Nat, NEW value
  PROVE  \/ /\ FirstFailureOr(results, value) = value
            /\ \A i \in DOMAIN results : ~IsFailure(results[i])
         \/ \E i \in DOMAIN results : /\ IsFailure(results[i])
                                      /\ FirstFailureOr(results, value) = results[i]
<1> DEFINE failures == {i \in DOMAIN results : IsFailure(results[i])}
           IsFirst(i) == \A j \in failures : i <= j
           first == CHOOSE i \in failures : IsFirst(i)
<1>1. CASE failures = {}
  BY <1>1 DEF FirstFailureOr
<1>2. CASE failures # {}
  <2>1. PICK i \in failures : \A j \in failures : ~(<<j, i>> \in OpToRel(<, Nat))
    <3>1. failures \subseteq Nat
      OBVIOUS
    <3> HIDE DEF failures
    <3> QED
      BY <1>2, <3>1, NatLessThanWellFounded, WFMin
  <2>2. ASSUME NEW j \in failures PROVE i <= j
    <3>1. i \in Nat /\ j \in Nat
      OBVIOUS
    <3>2. j < i => <<j, i>> \in OpToRel(<, Nat)
      <4> SUFFICES ASSUME j < i PROVE <<j, i>> \in OpToRel(<, Nat)
        OBVIOUS
      <4>1. <<j, i>> \in Nat \X Nat /\ <<j, i>>[1] < <<j, i>>[2]
        BY <3>1
      <4> QED
        BY <4>1, Zenon DEF OpToRel
    <3>3. ~(j < i)
      BY <2>1, <3>2, Zenon
    <3> QED
      BY <3>1, <3>3
  <2>3. first \in failures
    <3>1. IsFirst(i)
      BY <2>2
    <3> HIDE DEF IsFirst, failures
    <3> QED
      BY <3>1
  <2>4. FirstFailureOr(results, value) = results[first]
    BY <1>2 DEF FirstFailureOr
  <2> HIDE DEF first
  <2> QED
    BY <2>3, <2>4
<1> QED
  BY <1>1, <1>2

(* The types there are in fields, variants and parsed items, and what is a
   sequence in an item. *)
AreTyped(fields) == \A i \in DOMAIN fields : "ty" \in DOMAIN fields[i]
IsTypedVariant(variant) ==
  /\ "kind" \in DOMAIN variant /\ variant.kind \in {"Unit", "Tuple", "AnonymousStruct"}
  /\ variant.kind = "Tuple" => "ty" \in DOMAIN variant
  /\ variant.kind = "AnonymousStruct" => "fields" \in DOMAIN variant /\ AreTyped(variant.fields)
IsTyped(item) ==
  /\ item.kind \in {"alias", "const"} => "ty" \in DOMAIN item
  /\ item.kind = "struct" => "fields" \in DOMAIN item /\ AreTyped(item.fields)
  /\ item.kind = "enum" => /\ "variants" \in DOMAIN item
                           /\ item.variants \in Seq(ToSet(item.variants))
                           /\ \A i \in DOMAIN item.variants : IsTypedVariant(item.variants[i])

(* What parsing an item yields if it does not fail. *)
IsParsed(parsed, item) ==
  /\ {"kind", "id", "generics"} \subseteq DOMAIN parsed
  /\ parsed.id = GetIdent(item.ident, item.attrs, <<>>) /\ parsed.generics = item.generics
  /\ parsed.kind \in {"struct", "enum", "alias", "const"}
  /\ parsed.kind = "const" <=> item.kind = "const"
  /\ IsTyped(parsed)

LEMMA SharedIs ==
  ASSUME NEW kind, NEW item, NEW f
  PROVE  /\ Over(f, Shared(kind, item)).kind = IF "kind" \in DOMAIN f THEN f.kind ELSE kind
         /\ {"id", "generics"} \cap DOMAIN f = {} =>
              /\ Over(f, Shared(kind, item)).id = GetIdent(item.ident, item.attrs, <<>>)
              /\ Over(f, Shared(kind, item)).generics = item.generics
         /\ {"kind", "id", "generics"} \subseteq DOMAIN Over(f, Shared(kind, item))
         /\ \A x \in DOMAIN f : Over(f, Shared(kind, item))[x] = f[x]
         /\ DOMAIN f \subseteq DOMAIN Over(f, Shared(kind, item))
BY DEF Over, Shared

LEMMA AliasIs ==
  ASSUME NEW item, item.kind # "const", NEW ty, ~IsFailure(Alias(item, ty))
  PROVE  IsParsed(Alias(item, ty), item)
<1> DEFINE f == [ty |-> ty]
<1>1. Alias(item, ty) = Over(f, Shared("alias", item))
  BY DEF Alias
<1>2. {"id", "generics", "kind"} \cap DOMAIN f = {} /\ "ty" \in DOMAIN f
  OBVIOUS
<1> HIDE DEF f
<1> QED
  BY <1>1, <1>2, SharedIs DEF IsParsed, IsTyped

LEMMA WithFieldsIs ==
  ASSUME NEW shared, NEW fields, DOMAIN fields \subseteq Nat, ~IsFailure(WithFields(shared, fields))
  PROVE  /\ WithFields(shared, fields) = Over([fields |-> fields], shared)
         /\ \A i \in DOMAIN fields : ~IsFailure(fields[i])
BY FirstFailureIs DEF WithFields

LEMMA UnskippedAre ==
  ASSUME NEW list, AreParts(list), NEW targets
  PROVE  /\ Unskipped(list, targets) \in Seq(ToSet(list))
         /\ DOMAIN Unskipped(list, targets) = 1..Len(Unskipped(list, targets))
         /\ Len(Unskipped(list, targets)) \in Nat
<1>1. list \in Seq(ToSet(list))
  BY DEF AreParts
<1>2. Unskipped(list, targets) \in Seq(ToSet(list))
  BY <1>1, ChosenAre DEF Unskipped
<1> QED
  BY <1>2, LenProperties

LEMMA ParsedFieldsAre ==
  ASSUME NEW list, AreParts(list), NEW renameAll, NEW targets, NEW fields,
         \/ fields = ParseFields(list, renameAll, targets, TRUE)
         \/ fields = ParseFields(list, renameAll, targets, FALSE),
         NEW shared, ~IsFailure(WithFields(shared, fields))
  PROVE  AreTyped(fields) /\ WithFields(shared, fields) = Over([fields |-> fields], shared)
<1> DEFINE kept == Unskipped(list, targets)
<1>1. DOMAIN kept \subseteq Nat
  BY UnskippedAre
<1>2. \A what : IsFailure(Fail(what))
  BY DEF IsFailure, Fail
<1>3. ASSUME NEW i, ~IsFailure(ParseField(kept[i], renameAll, TRUE))
      PROVE  "ty" \in DOMAIN ParseField(kept[i], renameAll, TRUE)
  BY <1>2, <1>3 DEF ParseField, FieldOf
<1>4. ASSUME NEW i, ~IsFailure(ParseField(kept[i], renameAll, FALSE))
      PROVE  "ty" \in DOMAIN ParseField(kept[i], renameAll, FALSE)
  BY <1>2, <1>4 DEF ParseField, FieldOf
<1> HIDE DEF kept
<1>5. /\ DOMAIN fields = DOMAIN kept
      /\ \A i \in DOMAIN fields : ~IsFailure(fields[i]) => "ty" \in DOMAIN fields[i]
  <2>1. CASE fields = ParseFields(list, renameAll, targets, TRUE)
    BY <1>3, <2>1 DEF ParseFields, kept
  <2>2. CASE fields = ParseFields(list, renameAll, targets, FALSE)
    BY <1>4, <2>2 DEF ParseFields, kept
  <2> QED
    BY <2>1, <2>2
<1>6. /\ WithFields(shared, fields) = Over([fields |-> fields], shared)
      /\ \A i \in DOMAIN fields : ~IsFailure(fields[i])
  BY <1>1, <1>5, WithFieldsIs
<1> QED
  BY <1>5, <1>6 DEF AreTyped

LEMMA ParsedVariantIs ==
  ASSUME NEW variant, AreFields(variant.fields), NEW renameAll, NEW targets,
         ~IsFailure(ParseEnumVariant(variant, renameAll, targets))
  PROVE  IsTypedVariant(ParseEnumVariant(variant, renameAll, targets))
<1> DEFINE id == GetIdent(variant.ident, variant.attrs, renameAll)
           list == variant.fields.list
           rename == SerdeRenameAll(variant.attrs)
           shared == [kind |-> "AnonymousStruct", id |-> id]
           parsed == ParseEnumVariant(variant, renameAll, targets)
<1>1. parsed = VariantOf(variant, id, targets)
  BY DEF ParseEnumVariant
<1>2. variant.fields.style \in {"Named", "Unnamed", "Unit"} /\ AreParts(list)
  BY DEF AreFields
<1>3. CASE variant.fields.style = "Unit"
  <2>1. parsed = [kind |-> "Unit", id |-> id]
    BY <1>1, <1>3 DEF VariantOf
  <2> QED
    BY <2>1 DEF IsTypedVariant
<1>4. CASE variant.fields.style = "Named"
  <2> DEFINE fields == ParseFields(list, rename, targets, FALSE)
  <2>1. parsed = WithFields(shared, fields)
    BY <1>1, <1>4 DEF VariantOf
  <2>2. DOMAIN shared = {"kind", "id"} /\ shared.kind = "AnonymousStruct"
    OBVIOUS
  <2>3. AreTyped(fields) /\ parsed = Over([fields |-> fields], shared)
    <3> HIDE DEF shared
    <3> QED
      BY <1>2, <2>1, ParsedFieldsAre
  <2> HIDE DEF shared, fields
  <2>4. /\ "kind" \in DOMAIN Over([fields |-> fields], shared)
        /\ Over([fields |-> fields], shared).kind = "AnonymousStruct"
        /\ "fields" \in DOMAIN Over([fields |-> fields], shared)
        /\ Over([fields |-> fields], shared).fields = fields
    BY <2>2 DEF Over
  <2> HIDE DEF parsed
  <2>5. /\ "kind" \in DOMAIN parsed /\ parsed.kind = "AnonymousStruct"
        /\ "fields" \in DOMAIN parsed /\ parsed.fields = fields
    BY <2>3, <2>4
  <2>6. IsTypedVariant(parsed)
    BY <2>3, <2>5 DEF IsTypedVariant
  <2> QED
    BY <2>6 DEF parsed
<1>5. CASE variant.fields.style = "Unnamed"
  <2>1. /\ IsFailure(Fail("MultipleUnnamedAssociatedTypes"))
        /\ parsed = IF Len(list) > 1 THEN Fail("MultipleUnnamedAssociatedTypes")
                    ELSE TupleVariant(id, Only(list))
    BY <1>1, <1>5 DEF VariantOf, IsFailure, Fail
  <2>2. parsed = TupleVariant(id, Only(list))
    BY <2>1
  <2>3. ~IsFailure(parsed) /\ IsFailure(Only(list)) => parsed = Only(list)
    BY <2>2 DEF TupleVariant
  <2>4. parsed = [kind |-> "Tuple", id |-> id, ty |-> Only(list)]
    BY <2>2, <2>3 DEF TupleVariant
  <2> HIDE DEF parsed
  <2>5. IsTypedVariant(parsed)
    BY <2>4 DEF IsTypedVariant
  <2> QED
    BY <2>5 DEF parsed
<1> QED
  BY <1>2, <1>3, <1>4, <1>5

LEMMA ParsedKeepsNames ==
  ASSUME NEW item \in Parsables, NEW targets, ~IsFailure(Parse(item, targets))
  PROVE  IsParsed(Parse(item, targets), item)
<1>1. IsSyntax(item)
  BY SyntaxAssumption DEF SyntaxAssumption, Parsables
<1>2. CASE item.kind = "struct"
  <2>1. Parse(item, targets) = ParseStruct(item, targets)
    BY <1>2 DEF Parse
  <2>2. AreParts(item.fields.list)
    BY <1>1, <1>2 DEF IsSyntax, AreFields
  <2> DEFINE fields == ParseFields(item.fields.list, SerdeRenameAll(item.attrs), targets, TRUE)
             shared == Shared("struct", item)
  <2>4. ASSUME ~IsFailure(WithFields(shared, fields)) PROVE IsParsed(WithFields(shared, fields), item)
    <3> DEFINE f == [fields |-> fields]
    <3>1. AreTyped(fields) /\ WithFields(shared, fields) = Over(f, shared)
      <4> HIDE DEF shared
      <4> QED
        BY <2>2, <2>4, ParsedFieldsAre
    <3> HIDE DEF fields
    <3>2. {"id", "generics", "kind"} \cap DOMAIN f = {} /\ "fields" \in DOMAIN f /\ f.fields = fields
      OBVIOUS
    <3> HIDE DEF f
    <3> QED
      BY <1>2, <3>1, <3>2, SharedIs DEF IsParsed, IsTyped
  <2>5. \/ ParseStruct(item, targets) = Alias(item, SerializedType(item.attrs, <<>>))
        \/ ParseStruct(item, targets) = Fail("ComplexTupleStruct")
        \/ ParseStruct(item, targets) = Alias(item, Only(item.fields.list))
        \/ ParseStruct(item, targets) = WithFields(shared, fields)
    <3> DEFINE isAlias == IsSerializedAs(item)
               isTuple == item.fields.style = "Unnamed"
               isLong == Len(item.fields.list) > 1
               serialized == Alias(item, SerializedType(item.attrs, <<>>))
               only == Alias(item, Only(item.fields.list))
               struct == WithFields(shared, fields)
               complex == Fail("ComplexTupleStruct")
    <3>1. ParseStruct(item, targets) =
            IF isAlias THEN serialized
            ELSE IF isTuple THEN IF isLong THEN complex ELSE only
            ELSE struct
      BY DEF ParseStruct
    <3> HIDE DEF isAlias, isTuple, isLong, serialized, only, struct, complex
    <3>2. ParseStruct(item, targets) \in {serialized, complex, only, struct}
      BY <3>1
    <3> QED
      BY <3>2 DEF serialized, only, struct, complex
  <2>6. IsFailure(Fail("ComplexTupleStruct"))
    BY DEF IsFailure, Fail
  <2> HIDE DEF fields, shared
  <2> QED
    BY <1>2, <2>1, <2>4, <2>5, <2>6, AliasIs
<1>3. CASE item.kind = "enum"
  <2>1. Parse(item, targets) = ParseEnum(item, targets)
    BY <1>3 DEF Parse
  <2>2. AreParts(item.variants)
    BY <1>1, <1>3 DEF IsSyntax
  <2> DEFINE kept == Unskipped(item.variants, targets)
             variants == [i \in DOMAIN kept |->
                            ParseEnumVariant(kept[i], SerdeRenameAll(item.attrs), targets)]
  <2>3. \/ \E ty : ParseEnum(item, targets) = Alias(item, ty)
        \/ ParseEnum(item, targets) = EnumOf(item, variants)
    BY DEF ParseEnum
  <2>4. /\ DOMAIN variants = 1..Len(kept) /\ Len(kept) \in Nat
        /\ variants = [i \in 1..Len(kept) |-> variants[i]]
    BY <2>2, UnskippedAre
  <2>8. ASSUME NEW i \in DOMAIN variants, ~IsFailure(variants[i]) PROVE IsTypedVariant(variants[i])
    <3>1. kept \in Seq(ToSet(item.variants)) /\ DOMAIN kept = DOMAIN variants
      BY <2>2, UnskippedAre
    <3>2. kept[i] \in ToSet(item.variants) /\ variants[i] = ParseEnumVariant(kept[i], SerdeRenameAll(item.attrs), targets)
      BY <3>1
    <3>3. AreFields(kept[i].fields)
      BY <1>1, <1>3, <3>2 DEF IsSyntax
    <3> HIDE DEF kept
    <3> QED
      BY <2>8, <3>2, <3>3, ParsedVariantIs
  <2> HIDE DEF kept, variants
  <2>5. DOMAIN variants \subseteq Nat
    BY <2>4
  <2>6. variants \in Seq(ToSet(variants))
    <3>1. \A i \in 1..Len(kept) : variants[i] \in ToSet(variants)
      BY <2>4 DEF ToSet
    <3> QED
      BY <2>4, <3>1
  <2>7. ASSUME ~IsFailure(EnumOf(item, variants)) PROVE IsParsed(EnumOf(item, variants), item)
    <3> DEFINE isUnit == \A i \in DOMAIN variants : variants[i].kind = "Unit"
               tagged == HasNameValue(item.attrs, "tag", "serde")
               hasContent == HasNameValue(item.attrs, "content", "serde")
               isRecursive == \E i \in DOMAIN variants : \E ty \in TypesOfVariant(variants[i]) :
                                ContainsType(ty, item.ident)
               enum == Over([unit |-> isUnit, variants |-> variants, recursive |-> isRecursive],
                            Shared("enum", item))
               value == CASE isUnit /\ tagged                 -> Fail("SerdeTagNotAllowed")
                          [] isUnit /\ ~tagged /\ hasContent  -> Fail("SerdeContentNotAllowed")
                          [] ~isUnit /\ ~tagged               -> Fail("SerdeTagRequired")
                          [] ~isUnit /\ tagged /\ ~hasContent -> Fail("SerdeContentRequired")
                          [] OTHER -> enum
    <3>0. EnumOf(item, variants) = FirstFailureOr(variants, value)
      BY DEF EnumOf
    <3>1. IsFailure(value) \/ value = enum
      <4> HIDE DEF isUnit, tagged, hasContent, enum
      <4> QED
        BY DEF IsFailure, Fail
    <3>2. EnumOf(item, variants) = enum /\ \A i \in DOMAIN variants : ~IsFailure(variants[i])
      <4> HIDE DEF value, enum
      <4> QED
        BY <2>5, <2>7, <3>0, <3>1, FirstFailureIs
    <3> DEFINE f == [unit |-> isUnit, variants |-> variants, recursive |-> isRecursive]
    <3>3. /\ {"id", "generics", "kind"} \cap DOMAIN f = {} /\ "variants" \in DOMAIN f
          /\ f.variants = variants
      <4> HIDE DEF isUnit, isRecursive
      <4> QED
        OBVIOUS
    <3>4. EnumOf(item, variants) = Over(f, Shared("enum", item))
      BY <3>2
    <3>5. \A i \in DOMAIN variants : IsTypedVariant(variants[i])
      BY <2>8, <3>2
    <3> HIDE DEF f
    <3> QED
      BY <1>3, <2>6, <3>3, <3>4, <3>5, SharedIs DEF IsParsed, IsTyped
  <2> QED
    BY <1>3, <2>1, <2>3, <2>7, AliasIs
<1>4. CASE item.kind = "type"
  <2>1. Parse(item, targets) = Alias(item, SerializedType(item.attrs, item.ty))
    BY <1>4 DEF Parse, ParseTypeAlias
  <2> QED
    BY <1>4, <2>1, AliasIs
<1>5. CASE item.kind = "const"
  <2> DEFINE ty == SerializedType(item.attrs, item.ty)
             f == [ty |-> ty]
  <2>1. Parse(item, targets) = ConstOf(item, ty)
    BY <1>5 DEF Parse, ParseConst
  <2>2. ConstOf(item, ty) = Over(f, Shared("const", item)) \/ IsFailure(ConstOf(item, ty))
    BY DEF ConstOf, IsFailure, Fail
  <2>3. {"id", "generics", "kind"} \cap DOMAIN f = {} /\ "ty" \in DOMAIN f
    OBVIOUS
  <2> HIDE DEF f, ty
  <2> QED
    BY <1>5, <2>1, <2>2, <2>3, SharedIs DEF IsParsed, IsTyped
<1> QED
  BY <1>1, <1>2, <1>3, <1>4, <1>5 DEF IsSyntax

-----------------------------------------------------------------------------
(* There is a current file while its items are visited, and it has a crate.
   What reconcile_aliases makes of items nothing is said about. *)
DataInv ==
  /\ world \in Worlds /\ run \in DOMAIN world.runs
  /\ phase = "starting" => data = NoData /\ crates = <<>>
  /\ phase = "parsing" => targetOs \in TargetSets
  /\ waiting \subseteq world.files
  /\ todo \in Seq(Items) /\ (todo # <<>> => data # NoData)
  /\ IsParsedData(data) /\ (data # NoData => data.crate # NoCrate)
  /\ NoCrate \notin DOMAIN crates
  /\ \A c \in DOMAIN crates :
       /\ DOMAIN crates[c] = DOMAIN NoData /\ crates[c].errors \in Seq(Errors)
       /\ phase = "parsing" => crates[c].items \in Seq(ParsedItems)

(* A module is being written only while all has gone well. *)
ModuleInv ==
  /\ phase \in {"starting", "parsing", "reconciling"} => at = NoCrate /\ modules = <<>>
  /\ phase = "writing" => at # NoCrate /\ text.fate = "ok"

(* Nothing is left to walk once items are reconciled, and no error is there
   once modules are written. *)
WalkInv ==
  /\ phase = "reconciling" => waiting = {} /\ data = NoData
  /\ phase \in {"generating", "writing"} \/ modules # <<>> =>
       waiting = {} /\ data = NoData /\ ParseErrors = {}

(* A failure to parse a typeshared item of a file that is not waiting any more
   is an error of a crate, or of the current file, or is still to come in it. *)
Noted(item) ==
  \/ ~IsFailure(Parse(item, targetOs))
  \/ ParseErrors # {} \/ data.errors # <<>> \/ item \in AllItems(todo)
NothingMissed ==
  phase \in Running \ {"starting"} \/ modules # <<>> =>
    \A file \in Sources \ waiting : file.parses /\ \A item \in TypesharedItems(file) : Noted(item)

(* A typeshared item of a file that is not waiting any more is among those of
   the crate of its file, or of the current file, or is still to come in it. *)
Among(items, parsed) == \E i \in DOMAIN items : IsSame(items[i], parsed)
Arrived(file, item) ==
  LET parsed == Parse(item, targetOs)
      crate  == CrateOfFile(file)
  IN  \/ IsFailure(parsed)
      \/ data.crate = crate /\ (item \in AllItems(todo) \/ Among(data.items, parsed))
      \/ crate \in DOMAIN crates /\ Among(crates[crate].items, parsed)
ItemsArrive ==
  phase \in Running \ {"starting"} \/ Generated =>
    \A file \in Sources \ waiting : \A item \in TypesharedItems(file) : Arrived(file, item)

(* Modules have what is written for the items of their crate, the one that is
   being written for those that are not left; in the end all crates have one. *)
TextsInv ==
  /\ phase = "writing" =>
       /\ at \in DOMAIN crates
       /\ \A i \in DOMAIN ItemsAt \ left : HasWritten([text |-> text], ItemsAt[i])
  /\ \A c \in DOMAIN modules \ {PostModule} :
       /\ c \in DOMAIN crates
       /\ \A i \in DOMAIN crates[c].items : HasWritten(modules[c], crates[c].items[i])
  /\ Generated =>
       /\ waiting = {} /\ data = NoData /\ DOMAIN crates \subseteq DOMAIN modules
       /\ \A file \in Sources : \A item \in TypesharedItems(file) : ~IsFailure(Parse(item, targetOs))

(* The items there are below the src directory of a crate, and the names of
   what may be typeshared. *)
ItemsBelow(crate) == UNION {AllItems(file.items) : file \in {f \in world.files : IsBelow(f.path, crate)}}
IdentsBelow(crate) == {item.ident : item \in {i \in ItemsBelow(crate) : i.kind # "use"}}

(* Merging keeps crates apart, from the first item of a file on. *)
CratesInv ==
  phase = "parsing" /\ multiFile =>
    /\ \A c \in DOMAIN crates : \A i \in DOMAIN crates[c].items :
         crates[c].items[i].id.original \in IdentsBelow(c)
    /\ data # NoData =>
         /\ AllItems(todo) \subseteq ItemsBelow(data.crate)
         /\ \A i \in DOMAIN data.items : data.items[i].id.original \in IdentsBelow(data.crate)

(* The configuration files there are, those of the world and those stored by
   earlier runs: the first one to store in a place. *)
TomlsInv ==
  /\ \A path \in DOMAIN tomls : /\ path \in Seq(Names) \ {<<>>}
                                /\ IsFailure(tomls[path]) \/ IsConfig(tomls[path])
  /\ DOMAIN world.tomls \subseteq DOMAIN tomls

FirstToStore(k, path) == Stores(k, path) /\ \A j \in 1..k - 1 : ~Stores(j, path)
StoredInv ==
  /\ phase \in Running \ {"starting"} => ~Args.generateConfig
  /\ \A path \in DOMAIN tomls \ DOMAIN world.tomls :
       \E k \in DOMAIN world.runs :
         /\ k <= run /\ (k = run => phase \in Ended)
         /\ FirstToStore(k, path)
         /\ tomls[path] = OverrideConfiguration(DefaultConfig, world.runs[k])
  /\ \A k \in DOMAIN world.runs : \A path \in Seq(Names) :
       Stores(k, path) /\ (k < run \/ (k = run /\ phase \in Ended)) => path \in DOMAIN tomls

-----------------------------------------------------------------------------
(* Operators *)

LEMMA ParsedIsParsed ==
  ASSUME NEW item \in Parsables, NEW targets \in TargetSets
  PROVE  LET parsed == Parse(item, targets)
         IN  IF IsFailure(parsed) THEN parsed.failure \in Errors ELSE parsed \in ParsedItems
<1>1. Parse(item, targets) \in Results
  BY DEF Results
<1> QED
  BY <1>1 DEF Errors, ParsedItems

LEMMA NoDataIsParsedData == IsParsedData(NoData)
BY EmptySeq DEF IsParsedData, NoData

LEMMA TargetsOfRuns ==
  ASSUME world \in Worlds, run \in DOMAIN world.runs
  PROVE  Args \in Arguments /\ Args.targetOs \in TargetSets
<1>1. Args \in Arguments
  BY DEF Args, Arguments, Range
<1> QED
  BY <1>1 DEF TargetSets

LEMMA AppendIsNotEmpty ==
  ASSUME NEW S, NEW s \in Seq(S), NEW e
  PROVE  Append(s, e) # <<>>
<1>1. Len(Append(s, e)) = Len(s) + 1 /\ Len(s) \in Nat
  BY LenProperties
<1> QED
  BY <1>1

(* Merging keeps the errors on both sides. *)
LEMMA MergedIsParsedData ==
  ASSUME NEW old, NEW new, IsParsedData(old), IsParsedData(new)
  PROVE  /\ IsParsedData(Merge(old, new))
         /\ Merge(old, new).items = old.items \o new.items
         /\ Merge(old, new).errors = old.errors \o new.errors
<1>1. /\ DOMAIN Merge(old, new) = DOMAIN NoData
      /\ Merge(old, new).items = old.items \o new.items
      /\ Merge(old, new).errors = old.errors \o new.errors
  BY DEF Merge, IsParsedData, NoData
<1>2. old.items \o new.items \in Seq(ParsedItems) /\ old.errors \o new.errors \in Seq(Errors)
  BY ConcatProperties DEF IsParsedData
<1> QED
  BY <1>1, <1>2 DEF IsParsedData

(* What the visitor does for a typeshared item of a file. *)
LEMMA VisitingParsesItems ==
  ASSUME DataInv, Visiting({"struct", "enum", "type", "const"})
  PROVE  /\ Head(todo) \in Parsables /\ Tail(todo) \in Seq(Items) /\ phase = "parsing"
         /\ data # NoData /\ targetOs \in TargetSets
<1>1. todo \in Seq(Items) /\ todo # <<>>
  BY DEF DataInv, Visiting
<1>2. Head(todo) \in Items /\ Tail(todo) \in Seq(Items)
  BY <1>1, HeadTailProperties
<1> QED
  BY <1>2 DEF DataInv, Visiting, Parsables

-----------------------------------------------------------------------------
(* The files, the current file and the crates *)

LEMMA DataInitially == Init => DataInv
<1> SUFFICES ASSUME Init PROVE DataInv
  OBVIOUS
<1>1. /\ world \in Worlds /\ run = 1 /\ phase = "starting"
      /\ waiting = {} /\ todo = <<>> /\ data = NoData /\ crates = <<>>
  BY DEF Init, StartWalk
<1>2. run \in DOMAIN world.runs
  <2>1. world.runs \in Seq(Arguments) /\ world.runs # <<>>
    BY <1>1, RunsAssumption DEF RunsAssumption
  <2> QED
    BY <1>1, <2>1, EmptySeq, LenProperties
<1>3. DOMAIN crates = {}
  BY <1>1
<1>4. IsParsedData(data) /\ todo \in Seq(Items)
  BY <1>1, NoDataIsParsedData, EmptySeq
<1> QED
  BY <1>1, <1>2, <1>3, <1>4 DEF DataInv

LEMMA DataStays ==
  ASSUME DataInv, UNCHANGED <<world, run, waiting, todo, data, crates>>,
         phase' \in {"starting", "parsing"} => phase' = phase /\ targetOs' = targetOs
  PROVE  DataInv'
BY DEF DataInv, IsParsedData

LEMMA VisitFileKeepsData ==
  ASSUME DataInv, NEW file \in waiting, VisitFile(file), UNCHANGED <<contextVars, run>>
  PROVE  DataInv'
<1>1. /\ CrateOfFile(file) # NoCrate /\ phase' = "parsing" /\ phase = "parsing"
      /\ waiting' = waiting \ {file} /\ data' = [NoData EXCEPT !.crate = CrateOfFile(file)]
      /\ todo' = IF AcceptTargetOs(file.attrs, targetOs) THEN file.items ELSE <<>>
      /\ UNCHANGED <<world, targetOs, run, crates>>
  BY DEF VisitFile, Walking, contextVars
<1>2. IsParsedData(data') /\ data'.crate # NoCrate
  BY <1>1, EmptySeq DEF IsParsedData, NoData
<1>3. data' # NoData
  BY <1>2 DEF NoData
<1>4. file.items \in Seq(Items)
  BY FilesAssumption DEF DataInv, FilesAssumption
<1>5. todo' \in Seq(Items)
  BY <1>1, <1>4, EmptySeq
<1> QED
  BY <1>1, <1>2, <1>3, <1>5 DEF DataInv, IsParsedData

LEMMA VisitItemKeepsData ==
  ASSUME DataInv, VisitItem, UNCHANGED <<contextVars, run>>
  PROVE  DataInv'
<1> DEFINE item    == Head(todo)
           shared  == IsTypeshared(item)
           parsed  == Parse(item, targetOs)
<1>1. /\ Head(todo) \in Parsables /\ Tail(todo) \in Seq(Items) /\ phase = "parsing"
      /\ data # NoData /\ targetOs \in TargetSets
  BY VisitingParsesItems DEF VisitItem
<1>2. PICK imports :
        data' = [data EXCEPT
                   !.imports = @ \cup imports,
                   !.items  = IF shared /\ ~IsFailure(parsed) THEN Append(@, parsed) ELSE @,
                   !.errors = IF shared /\ IsFailure(parsed) THEN Append(@, parsed.failure) ELSE @]
  BY DEF VisitItem
<1>3. /\ todo' = Tail(todo) /\ UNCHANGED <<waiting, crates, world, targetOs, run>>
      /\ phase' \in {"parsing", "panicked", "hanging"}
  BY <1>1 DEF VisitItem, LoseWalker, contextVars
<1>5. ~IsFailure(parsed) => parsed \in ParsedItems
  BY <1>1, ParsedIsParsed
<1>6. IsFailure(parsed) => parsed.failure \in Errors
  BY <1>1, ParsedIsParsed
<1>7. IsParsedData(data)
  BY DEF DataInv
<1> HIDE DEF shared, parsed
<1>8. /\ DOMAIN data' = DOMAIN data /\ data'.crate = data.crate
      /\ data'.items = IF shared /\ ~IsFailure(parsed) THEN Append(data.items, parsed) ELSE data.items
      /\ data'.errors = IF shared /\ IsFailure(parsed) THEN Append(data.errors, parsed.failure)
                        ELSE data.errors
  BY <1>2, <1>7 DEF IsParsedData, NoData
<1>9. IsParsedData(data')
  BY <1>5, <1>6, <1>7, <1>8, AppendProperties DEF IsParsedData
<1>10. data'.crate # NoCrate /\ data' # NoData
  BY <1>1, <1>8 DEF DataInv, NoData
<1> QED
  BY <1>1, <1>3, <1>9, <1>10 DEF DataInv, IsParsedData

LEMMA VisitItemUseKeepsData ==
  ASSUME DataInv, VisitItemUse, UNCHANGED <<contextVars, run>>
  PROVE  DataInv'
<1>1. PICK imports : data' = [data EXCEPT !.imports = @ \cup imports]
  BY DEF VisitItemUse
<1>2. /\ todo' = Tail(todo) /\ UNCHANGED <<waiting, crates, world, targetOs, run>>
      /\ phase' \in {"parsing", "panicked", "hanging"} /\ phase = "parsing" /\ todo # <<>>
  BY DEF VisitItemUse, LoseWalker, Visiting, contextVars
<1>3. /\ IsParsedData(data) /\ data # NoData /\ data.crate # NoCrate /\ Tail(todo) \in Seq(Items)
  BY <1>2, HeadTailProperties DEF DataInv
<1>4. /\ DOMAIN data' = DOMAIN data /\ data'.crate = data.crate
      /\ data'.items = data.items /\ data'.errors = data.errors
  BY <1>1, <1>3 DEF IsParsedData, NoData
<1>5. IsParsedData(data') /\ data' # NoData
  BY <1>3, <1>4 DEF IsParsedData, NoData
<1> QED
  BY <1>2, <1>3, <1>4, <1>5 DEF DataInv, IsParsedData

LEMMA VisitItemModKeepsData ==
  ASSUME DataInv, VisitItemMod, UNCHANGED <<contextVars, run>>
  PROVE  DataInv'
<1>1. /\ todo # <<>> /\ Head(todo).kind = "mod" /\ todo' = Head(todo).items \o Tail(todo)
      /\ UNCHANGED <<phase, waiting, data, crates, world, targetOs, run>>
  BY DEF VisitItemMod, Visiting, contextVars
<1>2. todo \in Seq(Items) /\ data # NoData
  BY <1>1 DEF DataInv
<1>3. Head(todo) \in Items /\ Tail(todo) \in Seq(Items)
  BY <1>1, <1>2, HeadTailProperties
<1>4. Head(todo).items \in Seq(Items)
  BY <1>1, <1>3, ItemsAssumption DEF ItemsAssumption
<1>5. todo' \in Seq(Items)
  BY <1>1, <1>3, <1>4, ConcatProperties
<1> QED
  BY <1>1, <1>2, <1>5 DEF DataInv, IsParsedData

LEMMA EndVisitKeepsData ==
  ASSUME DataInv, EndVisit, UNCHANGED <<contextVars, run>>
  PROVE  DataInv'
<1> DEFINE crate == data.crate
           old == IF crate \in DOMAIN crates THEN crates[crate] ELSE [NoData EXCEPT !.crate = crate]
<1>1. PICK imports : crates' = IF IsEmpty(data) THEN crates
                               ELSE Put(crates, crate, Merge(old, [data EXCEPT !.imports = imports]))
  BY DEF EndVisit
<1>2. /\ phase = "parsing" /\ data # NoData /\ todo = <<>> /\ data' = NoData
      /\ UNCHANGED <<phase, waiting, todo, world, targetOs, run>>
  BY DEF EndVisit, contextVars
<1>3. IsParsedData(data) /\ crate # NoCrate
  BY <1>2 DEF DataInv
<1> DEFINE new == [data EXCEPT !.imports = imports]
<1>4. IsParsedData(old) /\ IsParsedData(new)
  <2>1. IsParsedData([NoData EXCEPT !.crate = crate])
    BY EmptySeq DEF IsParsedData, NoData
  <2>2. crate \in DOMAIN crates => IsParsedData(crates[crate])
    BY <1>2 DEF DataInv, IsParsedData
  <2>3. IsParsedData(new)
    BY <1>3 DEF IsParsedData, NoData
  <2> QED
    BY <2>1, <2>2, <2>3
<1>5. IsParsedData(Merge(old, new))
  BY <1>4, MergedIsParsedData
<1>6. /\ DOMAIN crates' \subseteq DOMAIN crates \cup {crate}
      /\ \A c \in DOMAIN crates' :
           crates'[c] = Merge(old, new) \/ (c \in DOMAIN crates /\ crates'[c] = crates[c])
  <2>1. crates' = crates \/ crates' = Put(crates, crate, Merge(old, new))
    BY <1>1
  <2> HIDE DEF old, new, crate
  <2>2. CASE crates' = crates
    BY <2>2
  <2>3. CASE crates' = Put(crates, crate, Merge(old, new))
    BY <2>3 DEF Put, Over
  <2> QED
    BY <2>1, <2>2, <2>3
<1>7. ASSUME NEW c \in DOMAIN crates' PROVE IsParsedData(crates'[c]) /\ c # NoCrate
  <2>1. c \in DOMAIN crates => IsParsedData(crates[c]) /\ c # NoCrate
    BY <1>2 DEF DataInv, IsParsedData
  <2> QED
    BY <1>3, <1>5, <1>6, <2>1
<1>8. IsParsedData(data')
  BY <1>2, NoDataIsParsedData
<1> QED
  BY <1>2, <1>7, <1>8 DEF DataInv, IsParsedData

LEMMA WalkKeepsData ==
  ASSUME DataInv, WalkFiles
  PROVE  DataInv'
<1>1. UNCHANGED <<contextVars, run>>
  BY DEF WalkFiles, Walk
<1>2. CASE \E file \in waiting : PassOver(file)
  BY <1>1, <1>2 DEF PassOver, DataInv, contextVars, IsParsedData
<1>3. CASE \E file \in waiting : FailToParse(file)
  <2>1. UNCHANGED <<world, run, waiting, todo, data, crates>> /\ phase' \notin {"starting", "parsing"}
    BY <1>1, <1>3 DEF FailToParse, parseVars, contextVars
  <2> QED
    BY <2>1, DataStays
<1>4. CASE \E file \in waiting : VisitFile(file)
  BY <1>1, <1>4, VisitFileKeepsData
<1>5. CASE VisitItem
  BY <1>1, <1>5, VisitItemKeepsData
<1>6. CASE VisitItemUse
  BY <1>1, <1>6, VisitItemUseKeepsData
<1>7. CASE VisitItemMod
  BY <1>1, <1>7, VisitItemModKeepsData
<1>8. CASE EndVisit
  BY <1>1, <1>8, EndVisitKeepsData
<1> QED
  BY <1>2, <1>3, <1>4, <1>5, <1>6, <1>7, <1>8 DEF WalkFiles, Walk

LEMMA GenerateTypesKeepsData ==
  ASSUME DataInv, GenerateTypes
  PROVE  DataInv'
<1>1. CASE phase' = "parsing"
  <2>1. /\ phase = "starting" /\ targetOs' = Args.targetOs /\ waiting' = world.files
        /\ UNCHANGED <<world, run, todo, data, crates>>
    BY <1>1 DEF GenerateTypes, parseVars, contextVars
  <2>2. Args.targetOs \in TargetSets
    BY TargetsOfRuns DEF DataInv
  <2>3. DOMAIN crates = {}
    BY <2>1 DEF DataInv
  <2> QED
    BY <1>1, <2>1, <2>2, <2>3 DEF DataInv, IsParsedData
<1>2. CASE phase' # "parsing"
  <2>1. UNCHANGED <<world, run, waiting, todo, data, crates>> /\ phase' \notin {"starting", "parsing"}
    BY <1>2 DEF GenerateTypes, parseVars, contextVars
  <2> QED
    BY <1>2, <2>1, DataStays
<1> QED
  BY <1>1, <1>2

(* reconcile_aliases leaves errors alone. *)
LEMMA ReconcileKeepsErrors ==
  ASSUME DataInv, Reconcile
  PROVE  /\ DOMAIN crates' = DOMAIN crates
         /\ \A c \in DOMAIN crates : /\ DOMAIN crates'[c] = DOMAIN crates[c]
                                     /\ crates'[c].errors = crates[c].errors
<1>1. PICK names : crates' = ReconcileAliases(names)
  BY DEF Reconcile
<1>2. /\ DOMAIN crates' = DOMAIN crates
      /\ \A c \in DOMAIN crates :
           \E items : crates'[c] = [crates[c] EXCEPT !.items = items]
  BY <1>1 DEF ReconcileAliases
<1>3. ASSUME NEW c \in DOMAIN crates
      PROVE  DOMAIN crates'[c] = DOMAIN crates[c] /\ crates'[c].errors = crates[c].errors
  <2>1. PICK items : crates'[c] = [crates[c] EXCEPT !.items = items]
    BY <1>2
  <2>2. "errors" \in DOMAIN crates[c]
    BY DEF DataInv, NoData
  <2> QED
    BY <2>1, <2>2
<1> QED
  BY <1>2, <1>3

LEMMA RunAgainKeepsData ==
  ASSUME DataInv, RunAgain
  PROVE  DataInv'
<1>1. /\ world' = world /\ run < Len(world.runs) /\ run' = run + 1 /\ phase' = "starting"
      /\ waiting' = {} /\ todo' = <<>> /\ data' = NoData /\ crates' = <<>>
  BY DEF RunAgain
<1>2. world.runs \in Seq(Arguments)
  BY RunsAssumption DEF RunsAssumption, DataInv
<1>3. run' \in DOMAIN world.runs
  BY <1>1, <1>2, LenProperties DEF DataInv
<1>4. IsParsedData(data') /\ todo' \in Seq(Items) /\ DOMAIN crates' = {}
  BY <1>1, NoDataIsParsedData, EmptySeq
<1> QED
  BY <1>1, <1>3, <1>4 DEF DataInv

LEMMA DataStep ==
  ASSUME DataInv, [Next]_vars
  PROVE  DataInv'
<1>1. CASE GenerateConfig
  <2>1. UNCHANGED <<world, run, waiting, todo, data, crates>> /\ phase' \notin {"starting", "parsing"}
    BY <1>1 DEF GenerateConfig, StoreConfig, parseVars, contextVars
  <2> QED
    BY <2>1, DataStays
<1>2. CASE GenerateTypes
  BY <1>2, GenerateTypesKeepsData
<1>3. CASE WalkFiles
  BY <1>3, WalkKeepsData
<1>4. CASE Reconcile
  <2>1. UNCHANGED <<world, run, waiting, todo, data>> /\ phase' \notin {"starting", "parsing"}
    BY <1>4 DEF Reconcile, contextVars
  <2> QED
    BY <1>4, <2>1, ReconcileKeepsErrors DEF DataInv, IsParsedData
<1>5. CASE CheckParseErrors \/ WriteNextItem \/ EndModule \/ Finish
           \/ \E crate \in DOMAIN crates : BeginModule(crate)
  <2>1. UNCHANGED <<world, run, waiting, todo, data, crates>> /\ phase' \notin {"starting", "parsing"}
    BY <1>5 DEF CheckParseErrors, WriteNextItem, EndModule, Finish, BeginModule, AddText,
                parseVars, contextVars
  <2> QED
    BY <2>1, DataStays
<1>6. CASE RunAgain
  BY <1>6, RunAgainKeepsData
<1>7. CASE UNCHANGED vars
  <2>1. UNCHANGED <<world, run, waiting, todo, data, crates, phase, targetOs>>
    BY <1>7 DEF vars, parseVars, contextVars
  <2> QED
    BY <2>1, DataStays
<1> QED
  BY <1>1, <1>2, <1>3, <1>4, <1>5, <1>6, <1>7 DEF Next, Stopped

-----------------------------------------------------------------------------
(* The modules *)

ModulesInv == TypeOK /\ DataInv /\ ModuleInv

LEMMA ModulesInitially == Init => ModulesInv
<1> SUFFICES ASSUME Init PROVE ModulesInv
  OBVIOUS
<1>1. DataInv
  BY DataInitially
<1>2. /\ phase = "starting" /\ at = NoCrate /\ left = {} /\ modules = <<>>
      /\ tomls = world.tomls
  BY DEF Init
<1> QED
  BY <1>1, <1>2 DEF ModulesInv, DataInv, ModuleInv, TypeOK, Running, Ended

(* Until modules are begun there are none, whatever the walk does. *)
LEMMA NoModulesYet ==
  ASSUME ModulesInv, DataInv', phase \in {"starting", "parsing", "reconciling"},
         phase' \in (Running \cup Ended \cup {"hanging"}) \ {"writing"},
         UNCHANGED <<world, moduleVars>>, DOMAIN tomls \subseteq DOMAIN tomls'
  PROVE  ModulesInv'
<1>1. at' = NoCrate /\ left' = {} /\ modules' = <<>>
  BY DEF ModulesInv, ModuleInv, TypeOK, moduleVars
<1>2. DOMAIN world'.tomls \subseteq DOMAIN tomls'
  BY DEF ModulesInv, TypeOK
<1> QED
  BY <1>1, <1>2 DEF ModulesInv, DataInv, ModuleInv, TypeOK

LEMMA AddedText ==
  ASSUME NEW written, NEW next, AddText(written, next), written.fate = "ok"
  PROVE  /\ phase' \in {"writing", "failed", "panicked"}
         /\ phase' = "writing" => text'.fate = "ok"
BY DEF AddText, Both

LEMMA BeginModuleStep ==
  ASSUME ModulesInv, DataInv', NEW crate \in DOMAIN crates, BeginModule(crate)
  PROVE  ModulesInv'
<1>1. /\ phase = "generating" /\ at' = crate /\ left' = DOMAIN crates[crate].items
      /\ UNCHANGED <<world, crates, tomls, modules>>
  BY DEF BeginModule, contextVars, parseVars
<1>2. /\ phase' \in {"writing", "failed", "panicked"}
      /\ phase' = "writing" => text'.fate = "ok"
  BY AddedText DEF BeginModule, Empty
<1>3. at' # NoCrate /\ left' \subseteq DOMAIN ItemsAt'
  BY <1>1 DEF ModulesInv, DataInv, ItemsAt
<1> QED
  BY <1>1, <1>2, <1>3 DEF ModulesInv, DataInv, ModuleInv, TypeOK, Running, Ended

LEMMA WriteNextItemStep ==
  ASSUME ModulesInv, DataInv', WriteNextItem
  PROVE  ModulesInv'
<1>1. PICK i \in left : left' = left \ {i} /\ AddText(text, WriteItemIn(Lang, backend, ItemsAt[i]))
  BY DEF WriteNextItem
<1>2. phase = "writing" /\ UNCHANGED <<world, crates, tomls, at, modules>>
  BY DEF WriteNextItem, contextVars, parseVars
<1>3. at # NoCrate /\ text.fate = "ok"
  BY <1>2 DEF ModulesInv, ModuleInv
<1>4. /\ phase' \in {"writing", "failed", "panicked"}
      /\ phase' = "writing" => text'.fate = "ok"
  BY <1>1, <1>3, AddedText
<1>5. ItemsAt' = ItemsAt
  BY <1>2 DEF ItemsAt
<1> QED
  BY <1>1, <1>2, <1>3, <1>4, <1>5 DEF ModulesInv, DataInv, ModuleInv, TypeOK, Running, Ended

LEMMA EndModuleStep ==
  ASSUME ModulesInv, DataInv', EndModule
  PROVE  ModulesInv'
<1>1. /\ phase = "writing" /\ left = {} /\ left' = left /\ at' = NoCrate /\ phase' = "generating"
      /\ UNCHANGED <<world, crates, tomls>>
  BY DEF EndModule, contextVars, parseVars
<1>2. PICK provides : modules' = Put(modules, at, [text |-> text, provides |-> provides])
  BY DEF EndModule
<1>3. at \in DOMAIN crates /\ text.fate = "ok"
  BY <1>1 DEF ModulesInv, ModuleInv, TypeOK
<1>4. DOMAIN modules' \subseteq DOMAIN crates \cup {PostModule}
  BY <1>2, <1>3 DEF Put, Over, ModulesInv, TypeOK
<1>5. \A c \in DOMAIN modules' : modules'[c].text.fate = "ok"
  BY <1>2, <1>3 DEF Put, Over, ModulesInv, TypeOK
<1> QED
  BY <1>1, <1>4, <1>5 DEF ModulesInv, DataInv, ModuleInv, TypeOK, Running, Ended

LEMMA FinishStep ==
  ASSUME ModulesInv, DataInv', Finish
  PROVE  ModulesInv'
<1>1. /\ phase = "generating" /\ phase' \in {"failed", "done"}
      /\ UNCHANGED <<world, crates, tomls, at, left>>
  BY DEF Finish, contextVars, parseVars
<1>2. \/ modules' = modules
      \/ \E provides : modules' = Put(modules, PostModule, [text |-> Empty, provides |-> provides])
  BY DEF Finish
<1>3. DOMAIN modules' \subseteq DOMAIN crates \cup {PostModule}
  BY <1>2 DEF Put, Over, ModulesInv, TypeOK
<1>4. \A c \in DOMAIN modules' : modules'[c].text.fate = "ok"
  BY <1>2 DEF Put, Over, ModulesInv, TypeOK, Empty
<1>5. ItemsAt' = ItemsAt
  BY <1>1 DEF ItemsAt
<1> QED
  BY <1>1, <1>3, <1>4, <1>5 DEF ModulesInv, DataInv, ModuleInv, TypeOK, Running, Ended

LEMMA ModulesStep ==
  ASSUME ModulesInv, [Next]_vars
  PROVE  ModulesInv'
<1>1. DataInv'
  BY DataStep DEF ModulesInv
<1>2. CASE GenerateConfig
  <2>1. DOMAIN tomls \subseteq DOMAIN tomls' /\ phase = "starting" /\ phase' \in {"done", "failed"}
    BY <1>2 DEF GenerateConfig, StoreConfig, Put, Over
  <2> QED
    BY <1>1, <1>2, <2>1, NoModulesYet DEF GenerateConfig, contextVars, Running, Ended
<1>3. CASE GenerateTypes
  <2>1. phase = "starting" /\ phase' \in {"parsing", "failed"} /\ UNCHANGED <<world, tomls, moduleVars>>
    BY <1>3 DEF GenerateTypes, contextVars
  <2> QED
    BY <1>1, <2>1, NoModulesYet DEF Running, Ended
<1>4. CASE WalkFiles
  <2>1. /\ phase = "parsing" /\ phase' \in {"parsing", "failed", "panicked", "hanging"}
        /\ UNCHANGED <<world, tomls, moduleVars>>
    BY <1>4 DEF WalkFiles, Walk, PassOver, FailToParse, VisitFile, Walking, VisitItem, VisitItemUse, LoseWalker,
                VisitItemMod, Visiting, EndVisit, contextVars
  <2> QED
    BY <1>1, <2>1, NoModulesYet DEF Running, Ended
<1>5. CASE Reconcile \/ CheckParseErrors
  <2>1. /\ phase \in {"parsing", "reconciling"} /\ phase' \in {"reconciling", "generating", "failed"}
        /\ UNCHANGED <<world, tomls, moduleVars>>
    BY <1>5 DEF Reconcile, CheckParseErrors, Walking, contextVars
  <2> QED
    BY <1>1, <2>1, NoModulesYet DEF Running, Ended
<1>6. CASE \E crate \in DOMAIN crates : BeginModule(crate)
  BY <1>1, <1>6, BeginModuleStep
<1>7. CASE WriteNextItem
  BY <1>1, <1>7, WriteNextItemStep
<1>8. CASE EndModule
  BY <1>1, <1>8, EndModuleStep
<1>9. CASE Finish
  BY <1>1, <1>9, FinishStep
<1>10. CASE RunAgain
  <2>1. /\ phase' = "starting" /\ at' = NoCrate /\ left' = {} /\ modules' = <<>>
        /\ UNCHANGED <<world, tomls>>
    BY <1>10 DEF RunAgain
  <2> QED
    BY <1>1, <2>1 DEF ModulesInv, DataInv, ModuleInv, TypeOK, Running
<1>11. CASE UNCHANGED vars
  BY <1>1, <1>11 DEF ModulesInv, DataInv, ModuleInv, TypeOK, ItemsAt, vars, parseVars, contextVars,
                     moduleVars
<1> QED
  BY <1>2, <1>3, <1>4, <1>5, <1>6, <1>7, <1>8, <1>9, <1>10, <1>11 DEF Next, Stopped

(* The type invariant: a module is written for a crate there is, from texts
   that went well, and a run never takes a configuration file away. *)
THEOREM TypeCorrect == Spec => []TypeOK
<1>1. Init => ModulesInv
  BY ModulesInitially
<1>2. ModulesInv /\ [Next]_vars => ModulesInv'
  BY ModulesStep
<1>3. ModulesInv => TypeOK
  BY DEF ModulesInv
<1> QED
  BY <1>1, <1>2, <1>3, PTL DEF Spec

-----------------------------------------------------------------------------
(* No error is missed *)

LEMMA NoItems == AllItems(<<>>) = {}
BY DEF AllItems

LEMMA WithinItem ==
  ASSUME NEW item \in Items
  PROVE  Within[item] = IF item.kind = "mod" THEN AllItems(item.items) ELSE {item}
BY ItemsAssumption DEF ItemsAssumption

LEMMA AllItemsOfHead ==
  ASSUME NEW items \in Seq(Items), items # <<>>
  PROVE  AllItems(items) = Within[Head(items)] \cup AllItems(Tail(items))
<1>1. /\ Tail(items) \in Seq(Items) /\ Len(Tail(items)) = Len(items) - 1
      /\ \A i \in 1..Len(Tail(items)) : Tail(items)[i] = items[i + 1]
  BY HeadTailProperties
<1>2. Len(items) \in Nat \ {0} /\ Head(items) = items[1]
  BY EmptySeq
<1>3. DOMAIN items = 1..Len(items) /\ DOMAIN Tail(items) = 1..(Len(items) - 1)
  BY <1>1, <1>2, LenProperties
<1>4. \A i \in DOMAIN items : i = 1 \/ (i - 1 \in DOMAIN Tail(items) /\ items[i] = Tail(items)[i - 1])
  BY <1>1, <1>2, <1>3
<1>5. \A i \in DOMAIN Tail(items) : i + 1 \in DOMAIN items /\ Tail(items)[i] = items[i + 1]
  BY <1>1, <1>2, <1>3
<1>6. 1 \in DOMAIN items
  BY <1>2, <1>3
<1>7. ASSUME NEW x \in AllItems(items) PROVE x \in Within[Head(items)] \cup AllItems(Tail(items))
  BY <1>2, <1>4 DEF AllItems
<1>8. ASSUME NEW x \in Within[Head(items)] \cup AllItems(Tail(items)) PROVE x \in AllItems(items)
  BY <1>2, <1>5, <1>6 DEF AllItems
<1> QED
  BY <1>7, <1>8

LEMMA AllItemsOfBoth ==
  ASSUME NEW s \in Seq(Items), NEW t \in Seq(Items)
  PROVE  AllItems(s \o t) = AllItems(s) \cup AllItems(t)
<1>1. /\ s \o t \in Seq(Items)
      /\ Len(s \o t) = Len(s) + Len(t)
      /\ \A i \in 1..(Len(s) + Len(t)) :
           (s \o t)[i] = IF i <= Len(s) THEN s[i] ELSE t[i - Len(s)]
  BY ConcatProperties
<1>2. /\ DOMAIN s = 1..Len(s) /\ DOMAIN t = 1..Len(t) /\ DOMAIN (s \o t) = 1..(Len(s) + Len(t))
      /\ Len(s) \in Nat /\ Len(t) \in Nat
  BY <1>1, LenProperties
<1>3. \A i \in DOMAIN (s \o t) : \/ i \in DOMAIN s /\ (s \o t)[i] = s[i]
                                 \/ i - Len(s) \in DOMAIN t /\ (s \o t)[i] = t[i - Len(s)]
  BY <1>1, <1>2
<1>4. \A i \in DOMAIN s : i \in DOMAIN (s \o t) /\ (s \o t)[i] = s[i]
  BY <1>1, <1>2
<1>5. ASSUME NEW j \in DOMAIN t
      PROVE  j + Len(s) \in DOMAIN (s \o t) /\ (s \o t)[j + Len(s)] = t[j]
  <2>1. j + Len(s) \in 1..(Len(s) + Len(t)) /\ ~(j + Len(s) <= Len(s)) /\ j + Len(s) - Len(s) = j
    BY <1>2
  <2> QED
    BY <1>1, <1>2, <2>1
<1>6. ASSUME NEW x \in AllItems(s \o t) PROVE x \in AllItems(s) \cup AllItems(t)
  BY <1>3 DEF AllItems
<1>7. ASSUME NEW x \in AllItems(s) PROVE x \in AllItems(s \o t)
  BY <1>4 DEF AllItems
<1>8. ASSUME NEW x \in AllItems(t) PROVE x \in AllItems(s \o t)
  BY <1>5 DEF AllItems
<1> QED
  BY <1>6, <1>7, <1>8

(* A module on the stack of items is replaced by what is in it. *)
LEMMA AllItemsOfModule ==
  ASSUME NEW items \in Seq(Items), items # <<>>, Head(items).kind = "mod"
  PROVE  AllItems(Head(items).items \o Tail(items)) = AllItems(items)
<1>1. Head(items) \in Items /\ Tail(items) \in Seq(Items)
  BY HeadTailProperties
<1>2. Head(items).items \in Seq(Items)
  BY <1>1, ItemsAssumption DEF ItemsAssumption
<1> QED
  BY <1>1, <1>2, WithinItem, AllItemsOfHead, AllItemsOfBoth

LEMMA SameSources ==
  ASSUME UNCHANGED <<world, multiFile, targetOs>>
  PROVE  /\ Sources' = Sources
         /\ \A file : TypesharedItems(file)' = TypesharedItems(file)
BY DEF Sources, CrateOfFile, TypesharedItems, IsTypeshared

ErrorsInv == ModulesInv /\ WalkInv /\ NothingMissed

LEMMA PassOverNotes ==
  ASSUME ErrorsInv, NEW file \in waiting, PassOver(file), UNCHANGED contextVars
  PROVE  NothingMissed'
<1>1. /\ phase = "parsing" /\ (CrateOfFile(file) = NoCrate \/ ~file.marked)
      /\ waiting' = waiting \ {file}
      /\ UNCHANGED <<phase, todo, data, crates, world, multiFile, targetOs>>
  BY DEF PassOver, Walking, contextVars
<1>2. Sources' = Sources /\ \A f : TypesharedItems(f)' = TypesharedItems(f)
  BY <1>1, SameSources
<1>3. \A item : Noted(item) => Noted(item)'
  BY <1>1 DEF Noted, ParseErrors
<1>4. Sources' \ waiting' = Sources \ waiting
  BY <1>1, <1>2 DEF Sources
<1> QED
  BY <1>1, <1>2, <1>3, <1>4 DEF ErrorsInv, NothingMissed, Running

LEMMA VisitFileNotes ==
  ASSUME ErrorsInv, NEW file \in waiting, VisitFile(file), UNCHANGED contextVars
  PROVE  NothingMissed'
<1>1. /\ phase = "parsing" /\ data = NoData /\ file.parses /\ waiting' = waiting \ {file}
      /\ todo' = IF AcceptTargetOs(file.attrs, targetOs) THEN file.items ELSE <<>>
      /\ UNCHANGED <<phase, crates, world, multiFile, targetOs>>
  BY DEF VisitFile, Walking, contextVars
<1>2. Sources' = Sources /\ \A f : TypesharedItems(f)' = TypesharedItems(f)
  BY <1>1, SameSources
<1>3. ParseErrors' = ParseErrors
  BY <1>1 DEF ParseErrors
<1>4. data.errors = <<>> /\ todo = <<>>
  BY <1>1 DEF NoData, ErrorsInv, ModulesInv, DataInv
<1>5. AllItems(todo) = {}
  BY <1>4, NoItems
<1>6. \A item : Noted(item) => Noted(item)'
  BY <1>1, <1>3, <1>4, <1>5 DEF Noted
<1>7. \A item \in TypesharedItems(file) : item \in AllItems(todo)'
  BY <1>1 DEF TypesharedItems, AllItems
<1>8. \A item \in TypesharedItems(file) : Noted(item)'
  BY <1>7 DEF Noted
<1>9. NothingMissed
  BY DEF ErrorsInv
<1> QED
  BY <1>1, <1>2, <1>6, <1>8, <1>9 DEF NothingMissed, Running

LEMMA VisitItemNotes ==
  ASSUME ErrorsInv, VisitItem, UNCHANGED contextVars, phase' = "parsing"
  PROVE  NothingMissed'
<1> DEFINE head    == Head(todo)
           shared  == IsTypeshared(head)
           parsed  == Parse(head, targetOs)
<1>1. /\ head \in Parsables /\ Tail(todo) \in Seq(Items) /\ phase = "parsing"
      /\ data # NoData /\ targetOs \in TargetSets
  BY VisitingParsesItems DEF VisitItem, ErrorsInv, ModulesInv
<1>2. PICK imports :
        data' = [data EXCEPT
                   !.imports = @ \cup imports,
                   !.items  = IF shared /\ ~IsFailure(parsed) THEN Append(@, parsed) ELSE @,
                   !.errors = IF shared /\ IsFailure(parsed) THEN Append(@, parsed.failure) ELSE @]
  BY DEF VisitItem
<1>3. todo' = Tail(todo) /\ UNCHANGED <<waiting, crates, world, multiFile, targetOs>>
  BY DEF VisitItem, contextVars
<1>4. Sources' = Sources /\ \A f : TypesharedItems(f)' = TypesharedItems(f)
  BY <1>3, SameSources
<1>5. IsParsedData(data) /\ todo \in Seq(Items) /\ todo # <<>>
  BY DEF VisitItem, Visiting, ErrorsInv, ModulesInv, DataInv
<1>6. AllItems(todo) = {head} \cup AllItems(todo')
  <2>1. Within[head] = {head}
    BY <1>1, WithinItem DEF Parsables
  <2> QED
    BY <1>3, <1>5, <2>1, AllItemsOfHead
<1>7. IsFailure(parsed) => parsed.failure \in Errors
  BY <1>1, ParsedIsParsed
<1>71. shared = IsTypeshared(head) /\ parsed = Parse(head, targetOs)
  OBVIOUS
<1> HIDE DEF shared, parsed, head
<1>8. data'.errors = IF shared /\ IsFailure(parsed) THEN Append(data.errors, parsed.failure)
                     ELSE data.errors
  BY <1>2, <1>5 DEF IsParsedData, NoData
<1>9. IsTypeshared(head) /\ IsFailure(Parse(head, targetOs)) => data'.errors # <<>>
  BY <1>5, <1>7, <1>71, <1>8, AppendProperties DEF IsParsedData
<1>10. data.errors # <<>> => data'.errors # <<>>
  <2>1. CASE shared /\ IsFailure(parsed)
    BY <1>5, <1>8, <2>1, AppendIsNotEmpty DEF IsParsedData
  <2>2. CASE ~(shared /\ IsFailure(parsed))
    BY <1>8, <2>2
  <2> QED
    BY <2>1, <2>2
<1>11. ParseErrors' = ParseErrors
  BY <1>3 DEF ParseErrors
<1>12. ASSUME NEW file \in Sources, NEW item \in TypesharedItems(file), Noted(item)
       PROVE  Noted(item)'
  <2>1. item = head => ~IsFailure(Parse(item, targetOs)) \/ data'.errors # <<>>
    BY <1>9 DEF TypesharedItems
  <2> QED
    BY <1>3, <1>6, <1>10, <1>11, <1>12, <2>1 DEF Noted
<1>13. NothingMissed
  BY DEF ErrorsInv
<1> QED
  BY <1>1, <1>3, <1>4, <1>12, <1>13 DEF NothingMissed, Running

LEMMA VisitItemUseNotes ==
  ASSUME ErrorsInv, VisitItemUse, UNCHANGED contextVars
  PROVE  NothingMissed'
<1>1. PICK imports : data' = [data EXCEPT !.imports = @ \cup imports]
  BY DEF VisitItemUse
<1>2. /\ phase = "parsing" /\ todo # <<>> /\ Head(todo).kind = "use" /\ todo' = Tail(todo)
      /\ UNCHANGED <<waiting, crates, world, multiFile, targetOs>>
  BY DEF VisitItemUse, Visiting, contextVars
<1>3. Sources' = Sources /\ \A f : TypesharedItems(f)' = TypesharedItems(f)
  BY <1>2, SameSources
<1>4. IsParsedData(data) /\ todo \in Seq(Items)
  BY DEF ErrorsInv, ModulesInv, DataInv
<1>5. data'.errors = data.errors /\ ParseErrors' = ParseErrors
  BY <1>1, <1>2, <1>4 DEF ParseErrors, IsParsedData, NoData
<1>6. AllItems(todo) = {Head(todo)} \cup AllItems(todo')
  <2>1. Head(todo) \in Items
    BY <1>2, <1>4, HeadTailProperties
  <2>2. Within[Head(todo)] = {Head(todo)}
    BY <1>2, <2>1, WithinItem
  <2> QED
    BY <1>2, <1>4, <2>2, AllItemsOfHead
<1>7. ASSUME NEW file \in Sources, NEW item \in TypesharedItems(file), Noted(item)
      PROVE  Noted(item)'
  <2>1. item # Head(todo)
    BY <1>2 DEF TypesharedItems
  <2> QED
    BY <1>2, <1>5, <1>6, <1>7, <2>1 DEF Noted
<1>8. NothingMissed
  BY DEF ErrorsInv
<1> QED
  BY <1>2, <1>3, <1>7, <1>8 DEF NothingMissed, Running

LEMMA VisitItemModNotes ==
  ASSUME ErrorsInv, VisitItemMod, UNCHANGED contextVars
  PROVE  NothingMissed'
<1>1. /\ phase = "parsing" /\ todo # <<>> /\ Head(todo).kind = "mod"
      /\ todo' = Head(todo).items \o Tail(todo)
      /\ UNCHANGED <<phase, waiting, data, crates, world, multiFile, targetOs>>
  BY DEF VisitItemMod, Visiting, contextVars
<1>2. Sources' = Sources /\ \A f : TypesharedItems(f)' = TypesharedItems(f)
  BY <1>1, SameSources
<1>3. AllItems(todo') = AllItems(todo)
  BY <1>1, AllItemsOfModule DEF ErrorsInv, ModulesInv, DataInv
<1>4. \A item : Noted(item) => Noted(item)'
  BY <1>1, <1>3 DEF Noted, ParseErrors
<1>5. NothingMissed
  BY DEF ErrorsInv
<1> QED
  BY <1>1, <1>2, <1>4, <1>5 DEF NothingMissed, Running

(* What was an error of the file is one of its crate. *)
LEMMA EndVisitNotes ==
  ASSUME ErrorsInv, EndVisit, UNCHANGED contextVars
  PROVE  NothingMissed'
<1> DEFINE crate == data.crate
           old == IF crate \in DOMAIN crates THEN crates[crate] ELSE [NoData EXCEPT !.crate = crate]
<1>1. PICK imports : crates' = IF IsEmpty(data) THEN crates
                               ELSE Put(crates, crate, Merge(old, [data EXCEPT !.imports = imports]))
  BY DEF EndVisit
<1> DEFINE new == [data EXCEPT !.imports = imports]
<1>2. /\ phase = "parsing" /\ data # NoData /\ todo = <<>> /\ data' = NoData
      /\ UNCHANGED <<phase, waiting, todo, world, multiFile, targetOs>>
  BY DEF EndVisit, contextVars
<1>3. Sources' = Sources /\ \A f : TypesharedItems(f)' = TypesharedItems(f)
  BY <1>2, SameSources
<1>4. IsParsedData(data) /\ DataInv
  BY DEF ErrorsInv, ModulesInv, DataInv
<1>5. IsParsedData(old) /\ IsParsedData(new) /\ new.errors = data.errors
  <2>1. IsParsedData([NoData EXCEPT !.crate = crate])
    BY EmptySeq DEF IsParsedData, NoData
  <2>2. crate \in DOMAIN crates => IsParsedData(crates[crate])
    BY <1>2, <1>4 DEF DataInv, IsParsedData
  <2>3. IsParsedData(new) /\ new.errors = data.errors
    BY <1>4 DEF IsParsedData, NoData
  <2> QED
    BY <2>1, <2>2, <2>3
<1>6. Merge(old, new).errors = old.errors \o data.errors
  <2> HIDE DEF old, new
  <2> QED
    BY <1>5, MergedIsParsedData
<1>7. Merge(old, new).errors = <<>> => old.errors = <<>> /\ data.errors = <<>>
  <2> DEFINE s == old.errors
             t == data.errors
  <2>1. s \in Seq(Errors) /\ t \in Seq(Errors)
    BY <1>4, <1>5 DEF IsParsedData
  <2>2. s \o t = <<>> => s = <<>> /\ t = <<>>
    <3> HIDE DEF s, t
    <3> QED
      BY <2>1, ConcatEqualIffEmpty
  <2> QED
    BY <1>6, <2>2
<1>8. IsEmpty(data) => data.errors = <<>>
  BY DEF IsEmpty
<1>9. data.errors # <<>> => crate \in ParseErrors'
  <2> SUFFICES ASSUME data.errors # <<>> PROVE crate \in ParseErrors'
    OBVIOUS
  <2>1. crates' = Put(crates, crate, Merge(old, new)) /\ Merge(old, new).errors # <<>>
    BY <1>1, <1>7, <1>8
  <2> HIDE DEF old, new, crate
  <2> QED
    BY <2>1 DEF ParseErrors, Put, Over
<1>10. ASSUME NEW c \in ParseErrors PROVE c \in ParseErrors'
  <2>1. c = crate => Merge(old, new).errors # <<>>
    BY <1>7 DEF ParseErrors
  <2>2. crates' = crates \/ crates' = Put(crates, crate, Merge(old, new))
    BY <1>1
  <2> HIDE DEF old, new, crate
  <2> QED
    BY <2>1, <2>2 DEF ParseErrors, Put, Over
<1>11. \A item : Noted(item) => Noted(item)'
  BY <1>2, <1>9, <1>10 DEF Noted
<1>12. NothingMissed
  BY DEF ErrorsInv
<1> QED
  BY <1>2, <1>3, <1>11, <1>12 DEF NothingMissed, Running

LEMMA WalkNotes ==
  ASSUME ErrorsInv, WalkFiles
  PROVE  WalkInv' /\ NothingMissed'
<1>1. /\ phase = "parsing" /\ phase' \in {"parsing", "failed", "panicked", "hanging"}
      /\ UNCHANGED <<contextVars, modules>>
  BY DEF WalkFiles, Walk, PassOver, FailToParse, VisitFile, Walking, VisitItem, VisitItemUse, LoseWalker,
         VisitItemMod, Visiting, EndVisit, moduleVars
<1>2. modules' = <<>>
  BY <1>1 DEF ErrorsInv, ModulesInv, ModuleInv
<1>3. WalkInv'
  BY <1>1, <1>2 DEF WalkInv
<1>4. CASE phase' # "parsing"
  BY <1>1, <1>2, <1>3, <1>4 DEF NothingMissed, Running
<1>5. CASE phase' = "parsing"
  <2>1. ASSUME NEW file \in waiting, PassOver(file) PROVE NothingMissed'
    BY <1>1, <2>1, PassOverNotes
  <2>2. ASSUME NEW file \in waiting PROVE ~FailToParse(file)
    BY <1>5 DEF FailToParse
  <2>3. ASSUME NEW file \in waiting, VisitFile(file) PROVE NothingMissed'
    BY <1>1, <2>3, VisitFileNotes
  <2> QED
    BY <1>1, <1>3, <1>5, <2>1, <2>2, <2>3,
       VisitItemNotes, VisitItemUseNotes, VisitItemModNotes, EndVisitNotes
       DEF WalkFiles, Walk
<1> QED
  BY <1>3, <1>4, <1>5

(* Once all is walked, what is missing without an error is nothing. *)
LEMMA NotesStay ==
  ASSUME ErrorsInv, phase \in Running \ {"starting"} \/ modules # <<>>,
         UNCHANGED <<contextVars, waiting, todo, data>>, ParseErrors' = ParseErrors
  PROVE  NothingMissed'
<1>1. Sources' = Sources /\ \A f : TypesharedItems(f)' = TypesharedItems(f)
  BY SameSources DEF contextVars
<1>2. \A item : Noted(item) => Noted(item)'
  BY DEF Noted, contextVars
<1> QED
  BY <1>1, <1>2 DEF ErrorsInv, NothingMissed

LEMMA ErrorsStep ==
  ASSUME ErrorsInv, [Next]_vars
  PROVE  ErrorsInv'
<1>1. ModulesInv'
  BY ModulesStep DEF ErrorsInv
<1>2. CASE GenerateConfig \/ GenerateTypes
  <2>1. /\ phase = "starting" /\ phase' \in {"done", "failed", "parsing"}
        /\ UNCHANGED <<world, modules>> /\ (phase' = "parsing" => waiting' = world.files)
    BY <1>2 DEF GenerateConfig, StoreConfig, GenerateTypes, contextVars, moduleVars
  <2>2. modules' = <<>>
    BY <2>1 DEF ErrorsInv, ModulesInv, ModuleInv
  <2>3. NothingMissed'
    BY <2>1, <2>2 DEF NothingMissed, Sources, Running
  <2> QED
    BY <1>1, <2>1, <2>2, <2>3 DEF ErrorsInv, WalkInv
<1>3. CASE WalkFiles
  BY <1>1, <1>3, WalkNotes DEF ErrorsInv
<1>4. CASE Reconcile
  <2>1. /\ phase = "parsing" /\ data = NoData /\ waiting = {} /\ phase' = "reconciling"
        /\ UNCHANGED <<contextVars, waiting, todo, data, modules>>
    BY <1>4 DEF Reconcile, Walking, moduleVars
  <2>2. ParseErrors' = ParseErrors
    BY <1>4, ReconcileKeepsErrors DEF ParseErrors, ErrorsInv, ModulesInv
  <2>3. modules' = <<>>
    BY <2>1 DEF ErrorsInv, ModulesInv, ModuleInv
  <2> QED
    BY <1>1, <2>1, <2>2, <2>3, NotesStay DEF ErrorsInv, WalkInv, Running
<1>5. CASE CheckParseErrors
  <2>1. /\ phase = "reconciling" /\ phase' = IF ParseErrors = {} THEN "generating" ELSE "failed"
        /\ UNCHANGED <<contextVars, waiting, todo, data, crates, modules>>
    BY <1>5 DEF CheckParseErrors, parseVars, moduleVars
  <2>2. ParseErrors' = ParseErrors
    BY <2>1 DEF ParseErrors
  <2>3. modules' = <<>> /\ waiting = {} /\ data = NoData
    BY <2>1 DEF ErrorsInv, ModulesInv, ModuleInv, WalkInv
  <2> QED
    BY <1>1, <2>1, <2>2, <2>3, NotesStay DEF ErrorsInv, WalkInv, Running
<1>6. CASE WriteNextItem \/ EndModule \/ Finish \/ \E crate \in DOMAIN crates : BeginModule(crate)
  <2>1. /\ phase \in {"generating", "writing"} /\ phase' # "reconciling"
        /\ UNCHANGED <<contextVars, waiting, todo, data, crates>>
    BY <1>6 DEF WriteNextItem, EndModule, Finish, BeginModule, AddText, parseVars
  <2>2. ParseErrors' = ParseErrors
    BY <2>1 DEF ParseErrors
  <2>3. waiting = {} /\ data = NoData /\ ParseErrors = {}
    BY <2>1 DEF ErrorsInv, WalkInv
  <2> QED
    BY <1>1, <2>1, <2>2, <2>3, NotesStay DEF ErrorsInv, WalkInv, Running
<1>7. CASE RunAgain
  <2>1. phase' = "starting" /\ modules' = <<>>
    BY <1>7 DEF RunAgain
  <2> QED
    BY <1>1, <2>1 DEF ErrorsInv, WalkInv, NothingMissed
<1>8. CASE UNCHANGED vars
  <2>1. UNCHANGED <<contextVars, phase, waiting, todo, data, crates, modules>>
    BY <1>8 DEF vars, parseVars, moduleVars
  <2>2. ParseErrors' = ParseErrors
    BY <2>1 DEF ParseErrors
  <2>3. NothingMissed'
    <3>1. CASE phase \in Running \ {"starting"} \/ modules # <<>>
      BY <2>1, <2>2, <3>1, NotesStay
    <3>2. CASE ~(phase \in Running \ {"starting"} \/ modules # <<>>)
      BY <2>1, <3>2 DEF NothingMissed
    <3> QED
      BY <3>1, <3>2
  <2> QED
    BY <1>1, <2>1, <2>2, <2>3 DEF ErrorsInv, WalkInv
<1> QED
  BY <1>2, <1>3, <1>4, <1>5, <1>6, <1>7, <1>8 DEF Next, Stopped

LEMMA NoneFails ==
  ASSUME ErrorsInv, phase \in {"generating", "writing"} \/ modules # <<>>
  PROVE  \A file \in Sources :
           file.parses /\ \A item \in TypesharedItems(file) : ~IsFailure(Parse(item, targetOs))
<1>1. waiting = {} /\ data = NoData /\ ParseErrors = {}
  BY DEF ErrorsInv, WalkInv
<1>2. data.errors = <<>> /\ todo = <<>>
  BY <1>1 DEF NoData, ErrorsInv, ModulesInv, DataInv
<1>3. AllItems(todo) = {}
  BY <1>2, NoItems
<1> QED
  BY <1>1, <1>2, <1>3 DEF ErrorsInv, NothingMissed, Noted, Running

(* check_parse_errors is enough: each failure of a parser, anywhere in the
   sources, has become an error of a crate when it looks for them, and stays
   one, so that no module is begun; a file that is not Rust ends the run. *)
THEOREM ErrorsEndTheRun == Spec => []ErrorsStopTheRun
<1>1. Init => ErrorsInv
  <2> SUFFICES ASSUME Init PROVE ErrorsInv
    OBVIOUS
  <2>1. phase = "starting" /\ modules = <<>>
    BY DEF Init
  <2> QED
    BY <2>1, ModulesInitially DEF ErrorsInv, WalkInv, NothingMissed
<1>2. ErrorsInv /\ [Next]_vars => ErrorsInv'
  BY ErrorsStep
<1>3. ErrorsInv => ErrorsStopTheRun
  BY NoneFails DEF ErrorsStopTheRun
<1> QED
  BY <1>1, <1>2, <1>3, PTL DEF Spec

-----------------------------------------------------------------------------
(* Items stay in the crate of their directory *)

LEMMA MaxOfPositions ==
  ASSUME NEW n \in Nat, NEW S \in SUBSET (1..n), S # {}
  PROVE  Max(S) \in S /\ \A i \in S : i <= Max(S)
<1> DEFINE Bounds == {m \in Nat : \A i \in S : i <= m}
<1>1. n \in Bounds /\ Bounds \subseteq Nat
  OBVIOUS
<1>2. PICK m \in Bounds : \A k \in Bounds : ~(<<k, m>> \in OpToRel(<, Nat))
  BY <1>1, NatLessThanWellFounded, WFMin
<1>3. m \in S
  <2> SUFFICES ASSUME m \notin S PROVE FALSE
    OBVIOUS
  <2>1. m # 0 /\ \A i \in S : i <= m - 1
    <3>1. m \in Nat /\ \A i \in S : i \in 1..n /\ i <= m /\ i # m
      OBVIOUS
    <3>2. PICK i \in S : i \in 1..n /\ i <= m
      BY <3>1
    <3> QED
      BY <3>1, <3>2
  <2>2. m - 1 \in Bounds /\ m \in Nat /\ m - 1 \in Nat /\ m - 1 < m
    BY <2>1
  <2>3. <<m - 1, m>> \in Nat \X Nat /\ <<m - 1, m>>[1] < <<m - 1, m>>[2]
    BY <2>2
  <2>4. <<m - 1, m>> \in OpToRel(<, Nat)
    BY <2>3, Zenon DEF OpToRel
  <2> QED
    BY <1>2, <2>2, <2>4
<1>4. \E x \in S : \A y \in S : x >= y
  BY <1>3
<1>5. Max(S) \in S /\ \A y \in S : Max(S) >= y
  BY <1>4 DEF Max
<1> QED
  BY <1>5

LEMMA InnerPosition ==
  ASSUME NEW n \in Nat, NEW i \in 1..n, i # 1, i # n
  PROVE  i \in 2..(n - 1)
OBVIOUS

(* find_crate_name finds the innermost crate. *)
LEMMA CrateIsAbove ==
  ASSUME NEW path \in Seq(Names) \ {<<>>}, Last(path) # "src", FindCrateName(path) # NoCrate
  PROVE  IsBelow(path, FindCrateName(path))
<1> DEFINE srcs == {i \in DOMAIN path : path[i] = "src"}
           last == Max(srcs)
<1>1. Len(path) \in Nat \ {0} /\ DOMAIN path = 1..Len(path)
  BY EmptySeq, LenProperties
<1>2. srcs # {} /\ last # 1 /\ FindCrateName(path) = path[last - 1]
  BY DEF FindCrateName
<1>3. last \in srcs /\ \A i \in srcs : i <= last
  <2>1. srcs \in SUBSET (1..Len(path))
    BY <1>1
  <2> HIDE DEF srcs
  <2> QED
    BY <1>1, <1>2, <2>1, MaxOfPositions
<1> HIDE DEF last
<1>4. last \in 1..Len(path) /\ path[last] = "src" /\ last # 1 /\ last # Len(path)
  BY <1>1, <1>2, <1>3 DEF Last
<1>5. last \in 2..(Len(path) - 1)
  BY <1>1, <1>4, InnerPosition
<1>6. \A j \in last + 1..Len(path) : path[j] # "src"
  <2> SUFFICES ASSUME NEW j \in last + 1..Len(path), path[j] = "src" PROVE FALSE
    OBVIOUS
  <2>1. j \in srcs
    BY <1>1, <1>5
  <2> QED
    BY <1>3, <1>5, <2>1
<1> QED
  BY <1>2, <1>4, <1>5, <1>6 DEF IsBelow

DirectoryInv == DataInv /\ CratesInv

(* Whatever a list of parsed items gets, its names are below a crate. *)
NamesBelow(items, crate) == \A i \in DOMAIN items : items[i].id.original \in IdentsBelow(crate)

LEMMA NamesOfBoth ==
  ASSUME NEW V, NEW s \in Seq(V), NEW t \in Seq(V), NEW crate,
         NamesBelow(s, crate), NamesBelow(t, crate)
  PROVE  NamesBelow(s \o t, crate)
<1>1. /\ s \o t \in Seq(V) /\ Len(s \o t) = Len(s) + Len(t)
      /\ \A i \in 1..(Len(s) + Len(t)) :
           (s \o t)[i] = IF i <= Len(s) THEN s[i] ELSE t[i - Len(s)]
  BY ConcatProperties
<1>2. /\ DOMAIN s = 1..Len(s) /\ DOMAIN t = 1..Len(t) /\ DOMAIN (s \o t) = 1..(Len(s) + Len(t))
      /\ Len(s) \in Nat /\ Len(t) \in Nat
  BY <1>1, LenProperties
<1>3. \A i \in DOMAIN (s \o t) : \/ i \in DOMAIN s /\ (s \o t)[i] = s[i]
                                 \/ i - Len(s) \in DOMAIN t /\ (s \o t)[i] = t[i - Len(s)]
  BY <1>1, <1>2
<1> QED
  BY <1>3 DEF NamesBelow

LEMMA NamesOfAppended ==
  ASSUME NEW V, NEW s \in Seq(V), NEW e \in V, NEW crate,
         NamesBelow(s, crate), e.id.original \in IdentsBelow(crate)
  PROVE  NamesBelow(Append(s, e), crate)
<1>1. /\ Append(s, e) \in Seq(V) /\ Len(Append(s, e)) = Len(s) + 1
      /\ \A i \in 1..Len(s) : Append(s, e)[i] = s[i]
      /\ Append(s, e)[Len(s) + 1] = e
  BY AppendProperties
<1>2. Len(s) \in Nat /\ DOMAIN s = 1..Len(s) /\ DOMAIN Append(s, e) = 1..(Len(s) + 1)
  BY <1>1, LenProperties
<1>3. \A i \in DOMAIN Append(s, e) : \/ i \in DOMAIN s /\ Append(s, e)[i] = s[i]
                                     \/ Append(s, e)[i] = e
  BY <1>1, <1>2
<1> QED
  BY <1>3 DEF NamesBelow

LEMMA SameBelow ==
  ASSUME world' = world
  PROVE  \A crate : ItemsBelow(crate)' = ItemsBelow(crate) /\ IdentsBelow(crate)' = IdentsBelow(crate)
BY DEF ItemsBelow, IdentsBelow

LEMMA VisitFileInCrate ==
  ASSUME DirectoryInv, NEW file \in waiting, VisitFile(file), UNCHANGED contextVars
  PROVE  CratesInv'
<1>1. /\ phase = "parsing" /\ data' = [NoData EXCEPT !.crate = CrateOfFile(file)]
      /\ CrateOfFile(file) # NoCrate
      /\ todo' = IF AcceptTargetOs(file.attrs, targetOs) THEN file.items ELSE <<>>
      /\ UNCHANGED <<phase, crates, world, multiFile>>
  BY DEF VisitFile, Walking, contextVars
<1> SUFFICES ASSUME multiFile PROVE CratesInv'
  BY <1>1 DEF CratesInv
<1>2. \A crate : ItemsBelow(crate)' = ItemsBelow(crate) /\ IdentsBelow(crate)' = IdentsBelow(crate)
  BY <1>1, SameBelow
<1>3. data'.crate = FindCrateName(file.path) /\ data'.items = <<>>
  BY <1>1 DEF CrateOfFile, NoData
<1>4. file \in world.files /\ file.path \in Seq(Names) \ {<<>>} /\ Last(file.path) # "src"
  BY FilesAssumption DEF FilesAssumption, DirectoryInv, DataInv
<1>5. IsBelow(file.path, data'.crate)
  BY <1>1, <1>3, <1>4, CrateIsAbove DEF CrateOfFile
<1>6. AllItems(todo') \subseteq AllItems(file.items)
  BY <1>1, NoItems
<1>7. AllItems(file.items) \subseteq ItemsBelow(data'.crate)
  BY <1>4, <1>5 DEF ItemsBelow
<1>8. DOMAIN data'.items = {}
  BY <1>3
<1> QED
  BY <1>1, <1>2, <1>6, <1>7, <1>8 DEF DirectoryInv, CratesInv

LEMMA VisitItemInCrate ==
  ASSUME DirectoryInv, VisitItem, UNCHANGED contextVars
  PROVE  CratesInv'
<1> DEFINE head    == Head(todo)
           shared  == IsTypeshared(head)
           parsed  == Parse(head, targetOs)
<1>1. /\ head \in Parsables /\ Tail(todo) \in Seq(Items) /\ phase = "parsing"
      /\ data # NoData /\ targetOs \in TargetSets
  BY VisitingParsesItems DEF VisitItem, DirectoryInv
<1>2. PICK imports :
        data' = [data EXCEPT
                   !.imports = @ \cup imports,
                   !.items  = IF shared /\ ~IsFailure(parsed) THEN Append(@, parsed) ELSE @,
                   !.errors = IF shared /\ IsFailure(parsed) THEN Append(@, parsed.failure) ELSE @]
  BY DEF VisitItem
<1>3. todo' = Tail(todo) /\ UNCHANGED <<crates, world, multiFile>>
  BY DEF VisitItem, contextVars
<1> SUFFICES ASSUME multiFile PROVE CratesInv'
  BY <1>3 DEF CratesInv
<1>4. \A crate : ItemsBelow(crate)' = ItemsBelow(crate) /\ IdentsBelow(crate)' = IdentsBelow(crate)
  BY <1>3, SameBelow
<1>5. IsParsedData(data) /\ todo \in Seq(Items) /\ todo # <<>>
  BY DEF VisitItem, Visiting, DirectoryInv, DataInv
<1>6. AllItems(todo) = {head} \cup AllItems(todo')
  <2>1. Within[head] = {head}
    BY <1>1, WithinItem DEF Parsables
  <2> QED
    BY <1>3, <1>5, <2>1, AllItemsOfHead
<1>7. /\ AllItems(todo) \subseteq ItemsBelow(data.crate) /\ NamesBelow(data.items, data.crate)
  BY <1>1 DEF DirectoryInv, CratesInv, NamesBelow
<1>8. head.ident \in IdentsBelow(data.crate)
  BY <1>1, <1>6, <1>7 DEF IdentsBelow, Parsables
<1>9. ~IsFailure(parsed) => parsed.id.original = head.ident /\ parsed \in ParsedItems
  <2>1. ~IsFailure(parsed) => parsed \in ParsedItems
    BY <1>1, ParsedIsParsed
  <2>2. ~IsFailure(parsed) => IsParsed(parsed, head)
    BY <1>1, ParsedKeepsNames
  <2> HIDE DEF parsed, head
  <2> QED
    BY <2>1, <2>2 DEF IsParsed, GetIdent
<1> HIDE DEF shared, parsed, head
<1>10. /\ data'.crate = data.crate
       /\ data'.items = IF shared /\ ~IsFailure(parsed) THEN Append(data.items, parsed) ELSE data.items
  BY <1>2, <1>5 DEF IsParsedData, NoData
<1>11. NamesBelow(data'.items, data.crate)
  <2>1. CASE ~shared \/ IsFailure(parsed)
    BY <1>7, <1>10, <2>1
  <2>2. CASE shared /\ ~IsFailure(parsed)
    <3>1. NamesBelow(Append(data.items, parsed), data.crate)
      BY <1>5, <1>7, <1>8, <1>9, <2>2, NamesOfAppended DEF IsParsedData
    <3> QED
      BY <1>10, <2>2, <3>1
  <2> QED
    BY <2>1, <2>2
<1> QED
  BY <1>1, <1>3, <1>4, <1>6, <1>7, <1>10, <1>11 DEF DirectoryInv, CratesInv, NamesBelow

LEMMA EndVisitInCrate ==
  ASSUME DirectoryInv, EndVisit, UNCHANGED contextVars
  PROVE  CratesInv'
<1> DEFINE crate == data.crate
           old == IF crate \in DOMAIN crates THEN crates[crate] ELSE [NoData EXCEPT !.crate = crate]
<1>1. PICK imports : crates' = IF IsEmpty(data) THEN crates
                               ELSE Put(crates, crate, Merge(old, [data EXCEPT !.imports = imports]))
  BY DEF EndVisit
<1> DEFINE new == [data EXCEPT !.imports = imports]
<1>2. phase = "parsing" /\ data # NoData /\ data' = NoData /\ UNCHANGED <<world, multiFile>>
  BY DEF EndVisit, contextVars
<1> SUFFICES ASSUME multiFile PROVE CratesInv'
  BY <1>2 DEF CratesInv
<1>3. \A c : IdentsBelow(c)' = IdentsBelow(c)
  BY <1>2, SameBelow
<1>4. IsParsedData(data) /\ NamesBelow(data.items, crate)
  BY <1>2 DEF DirectoryInv, DataInv, CratesInv, NamesBelow
<1>5. \A c \in DOMAIN crates : NamesBelow(crates[c].items, c)
  BY <1>2 DEF DirectoryInv, CratesInv, NamesBelow
<1>6. IsParsedData(old) /\ NamesBelow(old.items, crate)
  <2>1. IsParsedData([NoData EXCEPT !.crate = crate]) /\ [NoData EXCEPT !.crate = crate].items = <<>>
    BY EmptySeq DEF IsParsedData, NoData
  <2>2. NamesBelow(<<>>, crate)
    BY DEF NamesBelow
  <2>3. crate \in DOMAIN crates => IsParsedData(crates[crate])
    BY <1>2 DEF DirectoryInv, DataInv, IsParsedData
  <2> QED
    BY <1>5, <2>1, <2>2, <2>3
<1>7. IsParsedData(new) /\ new.items = data.items
  BY <1>4 DEF IsParsedData, NoData
<1>8. NamesBelow(Merge(old, new).items, crate)
  <2> DEFINE s == old.items
             t == data.items
  <2>1. s \in Seq(ParsedItems) /\ t \in Seq(ParsedItems)
    BY <1>4, <1>6 DEF IsParsedData
  <2>2. Merge(old, new).items = s \o t
    <3> HIDE DEF old, new
    <3> QED
      BY <1>6, <1>7, MergedIsParsedData
  <2>3. NamesBelow(s \o t, crate)
    <3> HIDE DEF s, t, old
    <3>1. NamesBelow(s, crate) /\ NamesBelow(t, crate)
      BY <1>4, <1>6 DEF s, t
    <3> HIDE DEF crate
    <3> QED
      BY <2>1, <3>1, NamesOfBoth
  <2> QED
    BY <2>2, <2>3
<1>9. ASSUME NEW c \in DOMAIN crates' PROVE NamesBelow(crates'[c].items, c)
  <2>1. crates' = crates \/ crates' = Put(crates, crate, Merge(old, new))
    BY <1>1
  <2> HIDE DEF old, new, crate
  <2>2. CASE crates' = crates
    BY <1>5, <2>2
  <2>3. CASE crates' = Put(crates, crate, Merge(old, new))
    BY <1>5, <1>8, <2>3 DEF Put, Over
  <2> QED
    BY <2>1, <2>2, <2>3
<1> QED
  BY <1>2, <1>3, <1>9 DEF CratesInv, NamesBelow

LEMMA WalkInCrate ==
  ASSUME DirectoryInv, WalkFiles
  PROVE  CratesInv'
<1>1. UNCHANGED contextVars /\ phase = "parsing"
  BY DEF WalkFiles, Walk, PassOver, FailToParse, VisitFile, Walking, VisitItem, VisitItemUse, LoseWalker,
         VisitItemMod, Visiting, EndVisit
<1>2. \A crate : ItemsBelow(crate)' = ItemsBelow(crate) /\ IdentsBelow(crate)' = IdentsBelow(crate)
  BY <1>1, SameBelow DEF contextVars
<1>3. CASE \E file \in waiting : PassOver(file) \/ FailToParse(file)
  <2>1. UNCHANGED <<todo, data, crates, multiFile>>
    BY <1>1, <1>3 DEF PassOver, FailToParse, parseVars, contextVars
  <2> QED
    BY <1>1, <1>2, <2>1 DEF DirectoryInv, CratesInv
<1>4. CASE \E file \in waiting : VisitFile(file)
  BY <1>1, <1>4, VisitFileInCrate
<1>5. CASE VisitItem
  BY <1>1, <1>5, VisitItemInCrate
<1>6. CASE VisitItemUse
  <2>1. PICK imports : data' = [data EXCEPT !.imports = @ \cup imports]
    BY <1>6 DEF VisitItemUse
  <2>2. /\ todo \in Seq(Items) /\ todo # <<>> /\ todo' = Tail(todo) /\ data # NoData
        /\ IsParsedData(data) /\ UNCHANGED <<crates, multiFile>>
    BY <1>1, <1>6 DEF VisitItemUse, Visiting, DirectoryInv, DataInv, contextVars
  <2>3. data'.crate = data.crate /\ data'.items = data.items
    BY <2>1, <2>2 DEF IsParsedData, NoData
  <2>4. AllItems(todo') \subseteq AllItems(todo)
    BY <2>2, AllItemsOfHead
  <2> QED
    BY <1>1, <1>2, <2>2, <2>3, <2>4 DEF DirectoryInv, CratesInv
<1>7. CASE VisitItemMod
  <2>1. /\ todo \in Seq(Items) /\ todo # <<>> /\ Head(todo).kind = "mod"
        /\ todo' = Head(todo).items \o Tail(todo) /\ UNCHANGED <<data, crates, multiFile>>
    BY <1>1, <1>7 DEF VisitItemMod, Visiting, DirectoryInv, DataInv, contextVars
  <2>2. AllItems(todo') = AllItems(todo)
    BY <2>1, AllItemsOfModule
  <2> QED
    BY <1>1, <1>2, <2>1, <2>2 DEF DirectoryInv, CratesInv
<1>8. CASE EndVisit
  BY <1>1, <1>8, EndVisitInCrate
<1> QED
  BY <1>3, <1>4, <1>5, <1>6, <1>7, <1>8 DEF WalkFiles, Walk

LEMMA DirectoryStep ==
  ASSUME DirectoryInv, [Next]_vars
  PROVE  DirectoryInv'
<1>1. DataInv'
  BY DataStep DEF DirectoryInv
<1>2. CASE GenerateTypes
  <2>1. phase' = "parsing" => data' = NoData /\ DOMAIN crates' = {}
    BY <1>2 DEF GenerateTypes, DirectoryInv, DataInv, contextVars, parseVars
  <2> QED
    BY <1>1, <2>1 DEF DirectoryInv, CratesInv
<1>3. CASE WalkFiles
  BY <1>1, <1>3, WalkInCrate DEF DirectoryInv
<1>4. CASE UNCHANGED vars
  <2>1. UNCHANGED <<world, phase, multiFile, todo, data, crates>>
    BY <1>4 DEF vars, contextVars, parseVars
  <2>2. \A crate : ItemsBelow(crate)' = ItemsBelow(crate) /\ IdentsBelow(crate)' = IdentsBelow(crate)
    BY <2>1, SameBelow
  <2> QED
    BY <1>1, <2>1, <2>2 DEF DirectoryInv, CratesInv
<1>5. CASE GenerateConfig \/ Reconcile \/ CheckParseErrors \/ WriteNextItem \/ EndModule \/ Finish
           \/ RunAgain \/ \E crate \in DOMAIN crates : BeginModule(crate)
  <2>1. phase' # "parsing"
    BY <1>5 DEF GenerateConfig, StoreConfig, Reconcile, CheckParseErrors, WriteNextItem, EndModule,
                Finish, RunAgain, BeginModule, AddText
  <2> QED
    BY <1>1, <2>1 DEF DirectoryInv, CratesInv
<1> QED
  BY <1>2, <1>3, <1>4, <1>5 DEF Next, Stopped

(* parallel_parse may take the files in any order and merges what it finds
   file by file: no item gets into the crate of another directory. *)
THEOREM CratesAreDirectories == Spec => []CratesByDirectory
<1>1. Init => DirectoryInv
  <2> SUFFICES ASSUME Init PROVE DirectoryInv
    OBVIOUS
  <2>1. phase = "starting"
    BY DEF Init
  <2> QED
    BY <2>1, DataInitially DEF DirectoryInv, CratesInv
<1>2. DirectoryInv /\ [Next]_vars => DirectoryInv'
  BY DirectoryStep
<1>3. DirectoryInv => CratesByDirectory
  BY DEF DirectoryInv, CratesInv, CratesByDirectory, Walked, Walking, IdentsBelow, ItemsBelow, ToSet
<1> QED
  BY <1>1, <1>2, <1>3, PTL DEF Spec

-----------------------------------------------------------------------------
(* Configurations *)

(* store_config fails where there is a file, and nothing else touches one. *)
THEOREM ConfigurationsStay == Spec => ConfigsStay
<1> DEFINE Kept == \A path \in DOMAIN tomls : path \in DOMAIN tomls' /\ tomls'[path] = tomls[path]
<1>1. ASSUME [Next]_vars PROVE [Kept]_vars
  <2>1. CASE GenerateConfig
    <3>1. \/ tomls' = tomls
          \/ \E path, config : path \notin DOMAIN tomls /\ tomls' = Put(tomls, path, config)
      BY <2>1 DEF GenerateConfig, StoreConfig
    <3> QED
      BY <3>1 DEF Put, Over
  <2>2. CASE GenerateTypes \/ WalkFiles \/ Reconcile \/ CheckParseErrors \/ WriteNextItem \/ EndModule
             \/ Finish \/ RunAgain \/ \E crate \in DOMAIN crates : BeginModule(crate)
    <3>1. tomls' = tomls
      BY <2>2 DEF GenerateTypes, WalkFiles, Reconcile, CheckParseErrors, WriteNextItem, EndModule,
                  Finish, RunAgain, BeginModule
    <3> QED
      BY <3>1
  <2>3. CASE UNCHANGED vars
    BY <2>3
  <2> QED
    BY <1>1, <2>1, <2>2, <2>3 DEF Next, Stopped
<1> QED
  BY <1>1, PTL DEF Spec, ConfigsStay

LEMMA DefaultIsConfig == IsConfig(DefaultConfig)
<1>1. IsComplete(DefaultConfig)
  BY DEF IsComplete, DefaultConfig
<1>2. DefaultConfig.acronyms = <<>> /\ DOMAIN <<>> = {}
  BY DEF DefaultConfig, NoMappings
<1>3. KeepsEmpty(DefaultConfig.acronyms)
  BY <1>2 DEF KeepsEmpty
<1> QED
  BY <1>1, <1>3 DEF IsConfig

LEMMA ConfigIsNoFailure ==
  ASSUME NEW config, IsConfig(config)
  PROVE  ~IsFailure(config)
BY DEF IsConfig, IsComplete, IsFailure, DefaultConfig

(* Options override settings, and nothing else of a configuration. *)
LEMMA OverrideIsOver ==
  ASSUME NEW config, IsConfig(config), NEW args \in Arguments,
         ~IsFailure(OverrideConfiguration(config, args))
  PROVE  /\ OverrideConfiguration(config, args)
              = [config EXCEPT !.settings = Over(args.options, config.settings)]
         /\ IsConfig(OverrideConfiguration(config, args))
<1> DEFINE settings == [option \in Options |-> IF option \in DOMAIN args.options
                                               THEN args.options[option] ELSE config.settings[option]]
<1>1. DOMAIN args.options \subseteq Options
  BY RunsAssumption DEF RunsAssumption
<1>2. DOMAIN config.settings = Options
  BY DEF IsConfig, IsComplete
<1>3. Over(args.options, config.settings) = settings
  BY <1>1, <1>2 DEF Over
<1>4. \/ OverrideConfiguration(config, args) = Fail("no Go package")
      \/ OverrideConfiguration(config, args) = [config EXCEPT !.settings = settings]
  BY DEF OverrideConfiguration
<1>5. IsFailure(Fail("no Go package"))
  BY DEF IsFailure, Fail
<1>6. OverrideConfiguration(config, args) = [config EXCEPT !.settings = settings]
  BY <1>4, <1>5
<1>7. IsConfig([config EXCEPT !.settings = settings])
  <2> DEFINE new == [config EXCEPT !.settings = settings]
  <2>1. IsComplete(new)
    BY DEF IsConfig, IsComplete
  <2>2. new.acronyms = config.acronyms
    BY DEF IsConfig, IsComplete
  <2> HIDE DEF new
  <2>3. IsConfig(new)
    BY <2>1, <2>2 DEF IsConfig
  <2> QED
    BY <2>3 DEF new
<1> QED
  BY <1>3, <1>6, <1>7

(* The place of a configuration file in the directory of the first n names. *)
FileAt(path, n) == Append(SubSeq(path, 1, n), FileName)

LEMMA FileAtIs ==
  ASSUME NEW path \in Seq(Names), NEW n \in 0..Len(path)
  PROVE  /\ FileAt(path, n) \in Seq(Names) \ {<<>>} /\ Len(FileAt(path, n)) = n + 1
         /\ Last(FileAt(path, n)) = FileName
         /\ Front(FileAt(path, n)) = SubSeq(path, 1, n)
<1> DEFINE dir == SubSeq(path, 1, n)
<1>1. Len(path) \in Nat /\ n \in Int /\ \A i \in 1..n : path[i] \in Names
  BY LenProperties, ElementOfSeq
<1>2. dir \in Seq(Names) /\ Len(dir) = n
  BY <1>1, SubSeqProperties
<1> HIDE DEF dir
<1>3. FileName \in Names
  BY DEF Names
<1> DEFINE file == Append(dir, FileName)
<1>4. /\ file \in Seq(Names) /\ file # <<>> /\ Len(file) = n + 1
      /\ \A i \in 1..n : file[i] = dir[i]
      /\ file[n + 1] = FileName
  BY <1>2, <1>3, AppendProperties
<1> HIDE DEF file
<1>5. Front(file) = dir
  <2>1. Front(file) = SubSeq(file, 1, n)
    BY <1>1, <1>4 DEF Front
  <2>2. \A i \in 1..n : file[i] \in Names
    BY <1>2, <1>4, ElementOfSeq
  <2>3. /\ SubSeq(file, 1, n) \in Seq(Names) /\ Len(SubSeq(file, 1, n)) = n
        /\ \A i \in 1..n : SubSeq(file, 1, n)[i] = file[i]
    BY <1>1, <2>2, SubSeqProperties
  <2> QED
    BY <1>2, <1>4, <2>1, <2>3, SeqEqual
<1> QED
  BY <1>4, <1>5 DEF file, dir, FileAt, Last

(* The configuration files above a directory are those of its prefixes. *)
LEMMA AboveIsFileAt ==
  ASSUME NEW cwd \in Seq(Names), NEW path \in Seq(Names) \ {<<>>}
  PROVE  Last(path) = FileName /\ IsPrefix(Front(path), cwd)
           <=> \E n \in 0..Len(cwd) : path = FileAt(cwd, n)
<1>1. Len(path) \in Nat \ {0} /\ Len(cwd) \in Nat
  BY EmptySeq, LenProperties
<1>2. ASSUME Last(path) = FileName, IsPrefix(Front(path), cwd)
      PROVE  \E n \in 0..Len(cwd) : path = FileAt(cwd, n)
  <2> DEFINE n == Len(path) - 1
             front == Front(path)
  <2>1. \A i \in 1..n : path[i] \in Names
    BY <1>1, ElementOfSeq
  <2>2. /\ front \in Seq(Names) /\ Len(front) = n
        /\ \A i \in 1..n : front[i] = path[i]
    <3>1. n \in Nat /\ front = SubSeq(path, 1, n)
      BY <1>1 DEF Front
    <3> HIDE DEF front
    <3>2. /\ SubSeq(path, 1, n) \in Seq(Names) /\ Len(SubSeq(path, 1, n)) = n
          /\ \A i \in 1..n : SubSeq(path, 1, n)[i] = path[i]
      <4> HIDE DEF n
      <4> QED
        BY <2>1, <3>1, SubSeqProperties
    <3> QED
      BY <3>1, <3>2
  <2>3. n <= Len(cwd) /\ SubSeq(front, 1, n) = SubSeq(cwd, 1, n)
    BY <1>2, <2>2 DEF IsPrefix
  <2>4. SubSeq(front, 1, n) = front
    BY <2>2, SubSeqFull
  <2>5. n \in 0..Len(cwd)
    BY <1>1, <2>3
  <2>6. FileAt(cwd, n) = Append(front, FileName)
    BY <2>3, <2>4 DEF FileAt
  <2>7. FileName \in Names
    BY DEF Names
  <2>8. path[n + 1] = FileName
    BY <1>1, <1>2 DEF Last
  <2>9. path = Append(front, FileName)
    <3> DEFINE file == Append(front, FileName)
    <3> HIDE DEF front, n
    <3>1. /\ file \in Seq(Names) /\ Len(file) = n + 1
          /\ \A i \in 1..n : file[i] = front[i]
          /\ file[n + 1] = FileName
      BY <2>2, <2>7, AppendProperties
    <3> HIDE DEF file
    <3> USE DEF n
    <3>2. \A i \in 1..Len(path) : path[i] = file[i]
      BY <1>1, <2>2, <2>8, <3>1
    <3>3. path = file
      BY <1>1, <3>1, <3>2, SeqEqual
    <3> QED
      BY <3>3 DEF file
  <2> QED
    BY <2>5, <2>6, <2>9
<1>3. ASSUME NEW n \in 0..Len(cwd), path = FileAt(cwd, n)
      PROVE  Last(path) = FileName /\ IsPrefix(Front(path), cwd)
  <2> DEFINE dir == SubSeq(cwd, 1, n)
  <2>1. Last(path) = FileName /\ Front(path) = dir
    BY <1>3, FileAtIs
  <2>2. n \in Nat /\ n <= Len(cwd) /\ \A i \in 1..n : cwd[i] \in Names
    BY <1>1, ElementOfSeq
  <2>3. dir \in Seq(Names) /\ Len(dir) = n
    BY <2>2, SubSeqProperties
  <2>4. SubSeq(dir, 1, n) = dir
    <3> HIDE DEF dir
    <3> QED
      BY <2>3, SubSeqFull
  <2>5. IsPrefix(dir, cwd)
    <3>1. SubSeq(dir, 1, Len(dir)) = SubSeq(cwd, 1, Len(dir)) /\ Len(dir) <= Len(cwd)
      BY <2>2, <2>3, <2>4
    <3> QED
      BY <3>1 DEF IsPrefix
  <2> QED
    BY <2>1, <2>5
<1> QED
  BY <1>2, <1>3

(* The directories from the root down to the n-th that have a file. *)
DirsWith(path, files, n) == {m \in 0..n : FileAt(path, m) \in files}
Found(path, files, n) ==
  LET dirs == DirsWith(path, files, n)
  IN  IF dirs = {} THEN <<>> ELSE FileAt(path, Max(dirs))

LEMMA MaxOfDirs ==
  ASSUME NEW n \in Nat, NEW S \in SUBSET (0..n), S # {}
  PROVE  Max(S) \in S /\ \A i \in S : i <= Max(S)
<1>1. CASE S = {0}
  <2>1. \E x \in S : \A y \in S : x >= y
    BY <1>1
  <2> QED
    BY <2>1 DEF Max
<1>2. CASE S # {0}
  <2> DEFINE T == S \ {0}
  <2>1. T \in SUBSET (1..n) /\ T # {}
    BY <1>2
  <2>2. PICK m \in T : \A i \in T : i <= m
    BY <2>1, MaxOfPositions
  <2>3. m \in S /\ \A i \in S : m >= i
    BY <2>1, <2>2
  <2>4. Max(S) \in S /\ \A y \in S : Max(S) >= y
    BY <2>3 DEF Max
  <2> QED
    BY <2>4
<1> QED
  BY <1>1, <1>2

(* One step of find_configuration_file up from the n-th directory. *)
LEMMA FoundStep ==
  ASSUME NEW path, NEW files, NEW n \in Nat
  PROVE  Found(path, files, n) = IF FileAt(path, n) \in files THEN FileAt(path, n)
                                 ELSE IF n = 0 THEN <<>> ELSE Found(path, files, n - 1)
<1> DEFINE dirs == DirsWith(path, files, n)
<1>1. CASE FileAt(path, n) \in files
  <2>1. n \in dirs /\ dirs \in SUBSET (0..n)
    BY <1>1 DEF DirsWith
  <2> HIDE DEF dirs
  <2>2. Max(dirs) \in dirs /\ n <= Max(dirs)
    BY <2>1, MaxOfDirs
  <2>3. Max(dirs) = n
    <3>1. Max(dirs) \in 0..n
      BY <2>1, <2>2
    <3> QED
      BY <2>2, <3>1
  <2> QED
    BY <1>1, <2>1, <2>3 DEF Found, dirs
<1>2. CASE FileAt(path, n) \notin files /\ n = 0
  <2>1. dirs = {}
    BY <1>2 DEF DirsWith
  <2> QED
    BY <1>2, <2>1 DEF Found
<1>3. CASE FileAt(path, n) \notin files /\ n # 0
  <2>1. dirs = DirsWith(path, files, n - 1)
    BY <1>3 DEF DirsWith
  <2> QED
    BY <1>3, <2>1 DEF Found
<1> QED
  BY <1>1, <1>2, <1>3

(* The search from the innermost directory finds the file of the longest path. *)
LEMMA SearchFinds ==
  ASSUME NEW path, NEW files, Len(path) \in Nat
  PROVE  FindConfigurationFile(path, files) = Found(path, files, Len(path))
<1> DEFINE Step(f, n) == LET file == Append(SubSeq(path, 1, n), FileName)
                         IN  IF file \in files THEN file ELSE IF n = 0 THEN <<>> ELSE f[n - 1]
           Is(f) == f = [n \in 0..Len(path) |-> Step(f, n)]
           search == CHOOSE f : Is(f)
           found == [n \in 0..Len(path) |-> Found(path, files, n)]
<1>1. Is(found)
  <2>1. ASSUME NEW n \in 0..Len(path) PROVE Found(path, files, n) = Step(found, n)
    <3>1. n \in Nat /\ (n # 0 => n - 1 \in 0..Len(path))
      OBVIOUS
    <3>2. n # 0 => found[n - 1] = Found(path, files, n - 1)
      BY <3>1
    <3> HIDE DEF found
    <3> QED
      BY <3>1, <3>2, FoundStep DEF FileAt
  <2> HIDE DEF Step
  <2> QED
    BY <2>1
<1>2. Is(search)
  <2> HIDE DEF Is
  <2> QED
    BY <1>1
<1>3. FindConfigurationFile(path, files) = search[Len(path)]
  BY DEF FindConfigurationFile
<1> HIDE DEF search
<1> DEFINE Bad == {n \in Nat : n <= Len(path) /\ search[n] # Found(path, files, n)}
<1>4. Bad = {}
  <2> SUFFICES ASSUME Bad # {} PROVE FALSE
    OBVIOUS
  <2>1. PICK n \in Bad : \A k \in Bad : ~(<<k, n>> \in OpToRel(<, Nat))
    <3>1. Bad \subseteq Nat
      OBVIOUS
    <3> QED
      BY <3>1, NatLessThanWellFounded, WFMin
  <2>2. n \in Nat /\ n \in 0..Len(path) /\ search[n] = Step(search, n)
    <3>1. n \in Nat /\ n \in 0..Len(path)
      OBVIOUS
    <3> HIDE DEF Step
    <3> QED
      BY <1>2, <3>1
  <2>3. n # 0 => search[n - 1] = Found(path, files, n - 1)
    <3> SUFFICES ASSUME n # 0 PROVE n - 1 \notin Bad
      BY <2>2
    <3>1. <<n - 1, n>> \in Nat \X Nat /\ <<n - 1, n>>[1] < <<n - 1, n>>[2]
      BY <2>2
    <3>2. <<n - 1, n>> \in OpToRel(<, Nat)
      BY <3>1, Zenon DEF OpToRel
    <3> QED
      BY <2>1, <3>2
  <2>4. search[n] = Found(path, files, n)
    BY <2>2, <2>3, FoundStep DEF FileAt
  <2> QED
    BY <2>4
<1>5. search[Len(path)] = Found(path, files, Len(path))
  BY <1>4
<1> QED
  BY <1>3, <1>5

LEMMA AboveAreDirs ==
  ASSUME TomlsInv, world.cwd \in Seq(Names)
  PROVE  ConfigsAbove = {FileAt(world.cwd, n) : n \in DirsWith(world.cwd, DOMAIN tomls, Len(world.cwd))}
<1>1. \A path \in DOMAIN tomls : path \in Seq(Names) \ {<<>>}
  BY DEF TomlsInv
<1>2. ASSUME NEW path \in ConfigsAbove
      PROVE  \E n \in DirsWith(world.cwd, DOMAIN tomls, Len(world.cwd)) : path = FileAt(world.cwd, n)
  <2>1. path \in DOMAIN tomls /\ Last(path) = FileName /\ IsPrefix(Front(path), world.cwd)
    BY DEF ConfigsAbove
  <2>2. PICK n \in 0..Len(world.cwd) : path = FileAt(world.cwd, n)
    BY <1>1, <2>1, AboveIsFileAt
  <2> QED
    BY <2>1, <2>2 DEF DirsWith
<1>3. ASSUME NEW n \in DirsWith(world.cwd, DOMAIN tomls, Len(world.cwd))
      PROVE  FileAt(world.cwd, n) \in ConfigsAbove
  <2>1. n \in 0..Len(world.cwd) /\ FileAt(world.cwd, n) \in DOMAIN tomls
    BY DEF DirsWith
  <2>2. /\ Last(FileAt(world.cwd, n)) = FileName
        /\ IsPrefix(Front(FileAt(world.cwd, n)), world.cwd)
    BY <1>1, <2>1, AboveIsFileAt
  <2> QED
    BY <2>1, <2>2 DEF ConfigsAbove
<1> QED
  BY <1>2, <1>3

(* The file of the longest path is the one of the last of the directories. *)
LEMMA NearestAbove ==
  ASSUME TomlsInv, world.cwd \in Seq(Names),
         NEW n \in DirsWith(world.cwd, DOMAIN tomls, Len(world.cwd)),
         \A m \in DirsWith(world.cwd, DOMAIN tomls, Len(world.cwd)) : m <= n
  PROVE  /\ ConfigsAbove # {}
         /\ (CHOOSE path \in ConfigsAbove : \A other \in ConfigsAbove : Len(other) <= Len(path))
              = FileAt(world.cwd, n)
<1> DEFINE dirs == DirsWith(world.cwd, DOMAIN tomls, Len(world.cwd))
           IsLongest(path) == \A other \in ConfigsAbove : Len(other) <= Len(path)
           longest == CHOOSE path \in ConfigsAbove : IsLongest(path)
<1>1. \A m \in dirs : m \in 0..Len(world.cwd)
  BY DEF DirsWith
<1>2. \A m \in dirs : Len(FileAt(world.cwd, m)) = m + 1
  BY <1>1, FileAtIs
<1>3. ConfigsAbove = {FileAt(world.cwd, m) : m \in dirs}
  BY AboveAreDirs
<1>4. n \in dirs /\ \A m \in dirs : m <= n
  OBVIOUS
<1> HIDE DEF dirs
<1>5. FileAt(world.cwd, n) \in ConfigsAbove
  BY <1>3, <1>4
<1>6. ASSUME NEW m \in dirs PROVE m + 1 <= n + 1 /\ m \in Int /\ n \in Int
  BY <1>1, <1>4
<1>7. IsLongest(FileAt(world.cwd, n))
  BY <1>2, <1>3, <1>4, <1>6
<1>8. longest \in ConfigsAbove /\ IsLongest(longest)
  <2> HIDE DEF IsLongest
  <2> QED
    BY <1>5, <1>7
<1> HIDE DEF longest
<1>9. PICK m \in dirs : longest = FileAt(world.cwd, m)
  BY <1>3, <1>8
<1>10. Len(FileAt(world.cwd, n)) <= Len(FileAt(world.cwd, m))
  BY <1>5, <1>8, <1>9
<1>11. n + 1 <= m + 1
  BY <1>2, <1>4, <1>10
<1>12. m = n
  BY <1>4, <1>6, <1>11
<1> QED
  BY <1>5, <1>9, <1>12 DEF longest

LEMMA WorldTypes ==
  ASSUME DataInv
  PROVE  /\ world.cwd \in Seq(Names) /\ Len(world.cwd) \in Nat
         /\ Args \in Arguments /\ Args.configFile \in Seq(Names)
         /\ DOMAIN Args.options \subseteq Options
         /\ world.runs \in Seq(Arguments) /\ DOMAIN world.runs = 1..Len(world.runs)
         /\ Len(world.runs) \in Nat /\ run \in Nat
<1>1. world \in Worlds /\ run \in DOMAIN world.runs
  BY DEF DataInv
<1>2. Args \in Arguments
  BY <1>1, TargetsOfRuns
<1>3. world.cwd \in Seq(Names) /\ world.runs \in Seq(Arguments)
  BY <1>1, TomlsAssumption, RunsAssumption DEF TomlsAssumption, RunsAssumption
<1>4. Args.configFile \in Seq(Names) /\ DOMAIN Args.options \subseteq Options
  BY <1>2, RunsAssumption DEF RunsAssumption
<1> QED
  BY <1>1, <1>2, <1>3, <1>4, LenProperties

(* load_config finds the nearest configuration. *)
LEMMA LoadedIsNearest ==
  ASSUME DataInv, TomlsInv, ~IsFailure(LoadConfig(Args.configFile, world.cwd, tomls))
  PROVE  /\ LoadConfig(Args.configFile, world.cwd, tomls) = NearestConfig
         /\ IsConfig(NearestConfig)
<1> DEFINE loaded == LoadConfig(Args.configFile, world.cwd, tomls)
           dirs == DirsWith(world.cwd, DOMAIN tomls, Len(world.cwd))
<1>1. \A path \in DOMAIN tomls : path # <<>> /\ (IsFailure(tomls[path]) \/ IsConfig(tomls[path]))
  BY DEF TomlsInv
<1>2. CASE Args.configFile # <<>>
  <2> DEFINE file == Args.configFile
  <2>1. \/ file \in DOMAIN tomls /\ loaded = tomls[file]
        \/ loaded = Fail("no such file")
    BY <1>2 DEF LoadConfig
  <2>2. IsFailure(Fail("no such file"))
    BY DEF IsFailure, Fail
  <2>3. file \in DOMAIN tomls /\ loaded = tomls[file]
    BY <2>1, <2>2
  <2>4. Len(file) \in Nat
    BY WorldTypes, LenProperties
  <2>5. NearestConfig = tomls[file]
    <3> DEFINE above == {file}
               longest == CHOOSE path \in above : \A other \in above : Len(other) <= Len(path)
    <3>1. longest = file
      <4>1. \E path \in above : \A other \in above : Len(other) <= Len(path)
        BY <2>4
      <4> QED
        BY <4>1
    <3>2. NearestConfig = tomls[longest]
      BY <1>2 DEF NearestConfig
    <3> QED
      BY <3>1, <3>2
  <2> QED
    BY <1>1, <2>3, <2>5
<1>3. CASE Args.configFile = <<>> /\ dirs = {}
  <2>1. FindConfigurationFile(world.cwd, DOMAIN tomls) = <<>>
    BY <1>3, WorldTypes, SearchFinds DEF Found
  <2>2. loaded = DefaultConfig
    BY <1>1, <1>3, <2>1 DEF LoadConfig
  <2>3. ConfigsAbove = {}
    BY <1>3, WorldTypes, AboveAreDirs
  <2>4. NearestConfig = DefaultConfig
    BY <1>3, <2>3 DEF NearestConfig
  <2> QED
    BY <2>2, <2>4, DefaultIsConfig
<1>4. CASE Args.configFile = <<>> /\ dirs # {}
  <2> DEFINE n == Max(dirs)
             file == FileAt(world.cwd, n)
  <2>1. n \in dirs /\ \A m \in dirs : m <= n
    <3>1. dirs \in SUBSET (0..Len(world.cwd))
      BY DEF DirsWith
    <3> HIDE DEF dirs
    <3> QED
      BY <1>4, <3>1, WorldTypes, MaxOfDirs
  <2>2. FindConfigurationFile(world.cwd, DOMAIN tomls) = file
    BY <1>4, WorldTypes, SearchFinds DEF Found
  <2>3. file \in DOMAIN tomls
    BY <2>1 DEF DirsWith
  <2> HIDE DEF n
  <2>4. NearestConfig = tomls[file]
    <3>1. /\ ConfigsAbove # {}
          /\ (CHOOSE path \in ConfigsAbove : \A other \in ConfigsAbove : Len(other) <= Len(path)) = file
      BY <2>1, WorldTypes, NearestAbove
    <3> QED
      BY <1>4, <3>1 DEF NearestConfig
  <2> HIDE DEF file
  <2>5. loaded = tomls[file]
    BY <1>1, <1>4, <2>2, <2>3 DEF LoadConfig
  <2> QED
    BY <1>1, <2>3, <2>4, <2>5
<1> QED
  BY <1>2, <1>3, <1>4

(* A file where --generate-config would store one is the nearest. *)
LEMMA StoredIsNearest ==
  ASSUME DataInv, TomlsInv, StorePath(Args.configFile, world.cwd) \in DOMAIN tomls
  PROVE  NearestConfig = tomls[StorePath(Args.configFile, world.cwd)]
<1> DEFINE path == StorePath(Args.configFile, world.cwd)
<1>1. CASE Args.configFile # <<>>
  <2> DEFINE file == Args.configFile
             above == {file}
             longest == CHOOSE p \in above : \A other \in above : Len(other) <= Len(p)
  <2>1. Len(file) \in Nat
    BY WorldTypes, LenProperties
  <2>2. \E p \in above : \A other \in above : Len(other) <= Len(p)
    BY <2>1
  <2>3. longest = file
    BY <2>2
  <2>4. NearestConfig = tomls[longest]
    BY <1>1 DEF NearestConfig
  <2>5. path = file
    BY <1>1 DEF StorePath
  <2> QED
    BY <2>3, <2>4, <2>5
<1>2. CASE Args.configFile = <<>>
  <2> DEFINE n == Len(world.cwd)
  <2>1. n \in Nat /\ SubSeq(world.cwd, 1, n) = world.cwd
    BY WorldTypes, SubSeqFull
  <2>2. path = FileAt(world.cwd, n)
    BY <1>2, <2>1 DEF StorePath, FileAt
  <2>3. n \in DirsWith(world.cwd, DOMAIN tomls, n) /\ \A m \in DirsWith(world.cwd, DOMAIN tomls, n) : m <= n
    BY <2>1, <2>2 DEF DirsWith
  <2>4. /\ ConfigsAbove # {}
        /\ (CHOOSE p \in ConfigsAbove : \A other \in ConfigsAbove : Len(other) <= Len(p)) = path
    BY <2>2, <2>3, WorldTypes, NearestAbove
  <2> QED
    BY <1>2, <2>4 DEF NearestConfig
<1> QED
  BY <1>1, <1>2

-----------------------------------------------------------------------------
(* The settings of a run *)

ConfigInv == DataInv /\ TomlsInv /\ ConfigPrecedence /\ StoredInv

LEMMA ConfigInitially == Init => ConfigInv
<1> SUFFICES ASSUME Init PROVE ConfigInv
  OBVIOUS
<1>1. DataInv
  BY DataInitially
<1>2. world \in Worlds /\ run = 1 /\ phase = "starting" /\ tomls = world.tomls
  BY DEF Init
<1>3. TomlsInv
  BY <1>2, TomlsAssumption DEF TomlsAssumption, TomlsInv
<1>4. ConfigPrecedence
  BY <1>2 DEF ConfigPrecedence
<1>5. \A k \in DOMAIN world.runs : ~(k < run)
  BY <1>1, <1>2, WorldTypes
<1>6. StoredInv
  BY <1>2, <1>5 DEF StoredInv, Ended
<1> QED
  BY <1>1, <1>3, <1>4, <1>6 DEF ConfigInv

(* What a run would store, where, and whether an earlier run would have. *)
LEMMA SameStores ==
  ASSUME world' = world
  PROVE  /\ \A k, path : Stores(k, path)' = Stores(k, path)
         /\ \A k, path : FirstToStore(k, path)' = FirstToStore(k, path)
BY DEF Stores, FirstToStore

LEMMA StorePathIsPath ==
  ASSUME DataInv
  PROVE  StorePath(Args.configFile, world.cwd) \in Seq(Names) \ {<<>>}
<1>1. FileName \in Names
  BY DEF Names
<1>2. Append(world.cwd, FileName) \in Seq(Names) \ {<<>>}
  BY <1>1, WorldTypes, AppendProperties
<1> QED
  BY <1>2, WorldTypes DEF StorePath

(* --generate-config: the first run to store in a place does, and no other. *)
LEMMA GenerateConfigStores ==
  ASSUME ConfigInv, DataInv', GenerateConfig
  PROVE  ConfigInv'
<1> DEFINE path == StorePath(Args.configFile, world.cwd)
           config == OverrideConfiguration(DefaultConfig, Args)
<1>1. /\ phase = "starting" /\ Args.generateConfig /\ phase' \in {"failed", "done"}
      /\ UNCHANGED <<world, run>>
      /\ \/ (IsFailure(config) \/ path \in DOMAIN tomls) /\ tomls' = tomls
         \/ ~IsFailure(config) /\ path \notin DOMAIN tomls /\ tomls' = Put(tomls, path, config)
  BY DEF GenerateConfig, StoreConfig, contextVars
<1>2. path \in Seq(Names) \ {<<>>}
  BY StorePathIsPath DEF ConfigInv
<1>3. ~IsFailure(config) => IsConfig(config)
  BY WorldTypes, DefaultIsConfig, OverrideIsOver DEF ConfigInv
<1>4. run \in DOMAIN world.runs /\ run \in Nat /\ DOMAIN world.runs = 1..Len(world.runs)
      /\ Len(world.runs) \in Nat
  BY WorldTypes DEF ConfigInv, DataInv
<1>5. \A p : Stores(run, p) <=> p = path /\ ~IsFailure(config)
  BY <1>1 DEF Stores, Args
<1>6. config = OverrideConfiguration(DefaultConfig, world.runs[run])
  BY DEF Args
<1>7. /\ \A k, p : Stores(k, p)' = Stores(k, p)
      /\ \A k, p : FirstToStore(k, p)' = FirstToStore(k, p)
  BY <1>1, SameStores
<1> HIDE DEF path, config
<1>8. TomlsInv'
  BY <1>1, <1>2, <1>3 DEF ConfigInv, TomlsInv, Put, Over
<1>9. ConfigPrecedence'
  BY <1>1 DEF ConfigPrecedence, Running
<1>10. path \notin DOMAIN tomls /\ ~IsFailure(config) => FirstToStore(run, path)
  <2> SUFFICES ASSUME path \notin DOMAIN tomls, ~IsFailure(config), NEW j \in 1..run - 1
               PROVE  ~Stores(j, path)
    BY <1>5 DEF FirstToStore
  <2>1. j \in DOMAIN world.runs /\ j < run
    BY <1>4
  <2> QED
    BY <1>2, <2>1 DEF ConfigInv, StoredInv
<1>11. ASSUME NEW p \in DOMAIN tomls' \ DOMAIN world.tomls
       PROVE  \E k \in DOMAIN world.runs :
                /\ k <= run
                /\ FirstToStore(k, p)
                /\ tomls'[p] = OverrideConfiguration(DefaultConfig, world.runs[k])
  <2>1. CASE p \in DOMAIN tomls
    <3>1. tomls'[p] = tomls[p]
      BY <1>1, <2>1 DEF Put, Over
    <3> QED
      BY <2>1, <3>1 DEF ConfigInv, StoredInv
  <2>2. CASE p \notin DOMAIN tomls
    <3>1. p = path /\ tomls'[p] = config /\ ~IsFailure(config)
      BY <1>1, <2>2 DEF Put, Over
    <3> QED
      BY <1>4, <1>6, <1>10, <2>2, <3>1
  <2> QED
    BY <2>1, <2>2
<1>12. ASSUME NEW k \in DOMAIN world.runs, NEW p \in Seq(Names), Stores(k, p), k <= run
       PROVE  p \in DOMAIN tomls'
  <2>1. DOMAIN tomls \subseteq DOMAIN tomls'
    BY <1>1 DEF Put, Over
  <2>2. CASE k = run
    <3>1. p = path /\ ~IsFailure(config)
      BY <1>5, <1>12, <2>2
    <3> QED
      BY <1>1, <2>1, <3>1 DEF Put, Over
  <2>3. CASE k # run
    <3>1. k < run
      BY <1>4, <1>12, <2>3
    <3> QED
      BY <1>12, <2>1, <3>1 DEF ConfigInv, StoredInv
  <2> QED
    BY <2>2, <2>3
<1>13. StoredInv'
  <2>1. phase' \in Ended /\ phase' \notin Running
    BY <1>1 DEF Ended, Running
  <2>2. \A k \in DOMAIN world.runs : k < run \/ k = run => k <= run
    BY <1>4
  <2> QED
    BY <1>1, <1>7, <1>11, <1>12, <2>1, <2>2 DEF StoredInv
<1> QED
  BY <1>8, <1>9, <1>13 DEF ConfigInv

(* A step that neither begins nor ends a run, or a run that stores nothing. *)
LEMMA NothingStored ==
  ASSUME ConfigInv, UNCHANGED <<world, run, tomls>>,
         \/ phase' = phase
         \/ ~Args.generateConfig /\ phase \notin Ended
  PROVE  TomlsInv' /\ StoredInv'
<1>1. /\ \A k, p : Stores(k, p)' = Stores(k, p)
      /\ \A k, p : FirstToStore(k, p)' = FirstToStore(k, p)
  BY SameStores
<1>2. TomlsInv'
  BY DEF ConfigInv, TomlsInv
<1>3. CASE phase' = phase
  BY <1>1, <1>2, <1>3 DEF ConfigInv, StoredInv, Args
<1>4. CASE ~Args.generateConfig /\ phase \notin Ended
  <2>1. \A p : ~Stores(run, p)
    BY <1>4 DEF Stores, Args
  <2>2. ~Args.generateConfig'
    BY <1>4 DEF Args
  <2>3. \A k \in DOMAIN world.runs : \A p \in Seq(Names) :
          Stores(k, p) /\ (k < run \/ k = run) => p \in DOMAIN tomls
    BY <2>1 DEF ConfigInv, StoredInv
  <2>4. \A p \in DOMAIN tomls \ DOMAIN world.tomls :
          \E k \in DOMAIN world.runs :
            /\ k <= run /\ k # run
            /\ FirstToStore(k, p)
            /\ tomls[p] = OverrideConfiguration(DefaultConfig, world.runs[k])
    BY <1>4 DEF ConfigInv, StoredInv
  <2> QED
    BY <1>1, <1>2, <2>2, <2>3, <2>4 DEF StoredInv
<1> QED
  BY <1>2, <1>3, <1>4

(* A run begins with the nearest configuration and its options over it. *)
LEMMA GenerateTypesSettings ==
  ASSUME ConfigInv, DataInv', GenerateTypes
  PROVE  ConfigInv'
<1> DEFINE loaded == LoadConfig(Args.configFile, world.cwd, tomls)
           config == OverrideConfiguration(loaded, Args)
<1>1. /\ phase = "starting" /\ ~Args.generateConfig
      /\ UNCHANGED <<world, run, tomls>>
      /\ \/ phase' = "failed"
         \/ /\ phase' = "parsing" /\ ~IsFailure(loaded) /\ ~IsFailure(config)
            /\ backend' = Backend(config, Lang, Args.multiFile)
  BY DEF GenerateTypes, contextVars
<1>2. TomlsInv' /\ StoredInv'
  BY <1>1, NothingStored DEF Ended
<1>3. ASSUME phase' = "parsing"
      PROVE  backend' = Backend([NearestConfig EXCEPT !.settings = Over(Args.options, @)],
                                Lang, Args.multiFile)
  <2>1. ~IsFailure(loaded) /\ ~IsFailure(config) /\ backend' = Backend(config, Lang, Args.multiFile)
    BY <1>1, <1>3
  <2>2. loaded = NearestConfig /\ IsConfig(NearestConfig)
    BY <2>1, LoadedIsNearest DEF ConfigInv
  <2>3. config = [NearestConfig EXCEPT !.settings = Over(Args.options, NearestConfig.settings)]
    BY <2>1, <2>2, WorldTypes, OverrideIsOver DEF ConfigInv
  <2> QED
    BY <2>1, <2>3
<1>4. NearestConfig' = NearestConfig /\ Args' = Args /\ Lang' = Lang
  BY <1>1 DEF NearestConfig, ConfigsAbove, Args, Lang
<1>5. ConfigPrecedence'
  BY <1>1, <1>3, <1>4 DEF ConfigPrecedence, Running
<1> QED
  BY <1>2, <1>5 DEF ConfigInv

LEMMA LaterStepsKeepConfig ==
  ASSUME ConfigInv, DataInv', UNCHANGED <<world, run, tomls, backend>>,
         \/ phase' = phase
         \/ phase \in Running \ {"starting"} /\ phase' \in (Running \ {"starting"}) \cup Ended \cup {"hanging"}
  PROVE  ConfigInv'
<1>1. /\ \A k, p : Stores(k, p)' = Stores(k, p)
      /\ \A k, p : FirstToStore(k, p)' = FirstToStore(k, p)
  BY SameStores
<1>2. NearestConfig' = NearestConfig /\ Args' = Args /\ Lang' = Lang
  BY DEF NearestConfig, ConfigsAbove, Args, Lang
<1>3. CASE phase' = phase
  BY <1>1, <1>2, <1>3 DEF ConfigInv, TomlsInv, StoredInv, ConfigPrecedence
<1>4. CASE phase \in Running \ {"starting"} /\ phase' \in (Running \ {"starting"}) \cup Ended \cup {"hanging"}
  <2>1. ~Args.generateConfig /\ phase \notin Ended
    BY <1>4 DEF ConfigInv, StoredInv, Running, Ended
  <2>2. TomlsInv' /\ StoredInv'
    BY <2>1, NothingStored
  <2>3. ConfigPrecedence'
    BY <1>2, <1>4 DEF ConfigInv, ConfigPrecedence
  <2> QED
    BY <2>2, <2>3 DEF ConfigInv
<1> QED
  BY <1>3, <1>4

LEMMA RunAgainKeepsConfig ==
  ASSUME ConfigInv, DataInv', RunAgain
  PROVE  ConfigInv'
<1>1. /\ phase \in Ended /\ run' = run + 1 /\ phase' = "starting"
      /\ UNCHANGED <<world, tomls>>
  BY DEF RunAgain
<1>2. /\ \A k, p : Stores(k, p)' = Stores(k, p)
      /\ \A k, p : FirstToStore(k, p)' = FirstToStore(k, p)
  BY <1>1, SameStores
<1>3. TomlsInv' /\ ConfigPrecedence'
  BY <1>1 DEF ConfigInv, TomlsInv, ConfigPrecedence
<1>4. run \in Nat /\ \A k \in DOMAIN world.runs : k \in Nat
  BY WorldTypes DEF ConfigInv
<1>5. \A k \in DOMAIN world.runs : /\ k <= run => k <= run + 1 /\ k # run + 1
                                   /\ k < run + 1 => k < run \/ k = run
  BY <1>4
<1>6. StoredInv'
  BY <1>1, <1>2, <1>5 DEF ConfigInv, StoredInv, Ended
<1> QED
  BY <1>3, <1>6 DEF ConfigInv

LEMMA ConfigStep ==
  ASSUME ConfigInv, [Next]_vars
  PROVE  ConfigInv'
<1>1. DataInv'
  BY DataStep DEF ConfigInv
<1> DEFINE stays == /\ UNCHANGED <<world, run, tomls, backend>>
                    /\ \/ phase' = phase
                       \/ /\ phase \in Running \ {"starting"}
                          /\ phase' \in (Running \ {"starting"}) \cup Ended \cup {"hanging"}
<1>2. CASE WalkFiles
  <2>1. Walk /\ UNCHANGED <<run, tomls, backend>>
    BY <1>2 DEF WalkFiles, backendVars
  <2>2. UNCHANGED world
    BY <2>1 DEF Walk, contextVars
  <2>3. phase' = phase \/ (phase = "parsing" /\ phase' \in {"failed", "panicked", "hanging"})
    BY <2>1 DEF Walk, PassOver, FailToParse, VisitFile, VisitItem, VisitItemUse, LoseWalker, VisitItemMod, EndVisit,
                Walking, Visiting
  <2>4. stays
    BY <2>1, <2>2, <2>3 DEF Running, Ended
  <2> QED
    BY <1>1, <2>4, LaterStepsKeepConfig
<1>3. CASE Reconcile
  <2>1. stays
    BY <1>3 DEF Reconcile, Walking, contextVars, backendVars, Running
  <2> QED
    BY <1>1, <2>1, LaterStepsKeepConfig
<1>4. CASE CheckParseErrors
  <2>1. stays
    BY <1>4 DEF CheckParseErrors, contextVars, backendVars, Running, Ended
  <2> QED
    BY <1>1, <2>1, LaterStepsKeepConfig
<1>5. CASE \E crate \in DOMAIN crates : BeginModule(crate)
  <2>1. stays
    BY <1>5 DEF BeginModule, AddText, contextVars, Running, Ended
  <2> QED
    BY <1>1, <2>1, LaterStepsKeepConfig
<1>6. CASE WriteNextItem
  <2>1. stays
    BY <1>6 DEF WriteNextItem, AddText, contextVars, Running, Ended
  <2> QED
    BY <1>1, <2>1, LaterStepsKeepConfig
<1>7. CASE EndModule
  <2>1. stays
    BY <1>7 DEF EndModule, contextVars, backendVars, Running
  <2> QED
    BY <1>1, <2>1, LaterStepsKeepConfig
<1>8. CASE Finish
  <2>1. stays
    BY <1>8 DEF Finish, contextVars, backendVars, Running, Ended
  <2> QED
    BY <1>1, <2>1, LaterStepsKeepConfig
<1>9. CASE UNCHANGED vars
  <2>1. stays
    BY <1>9 DEF vars, contextVars, backendVars
  <2> QED
    BY <1>1, <2>1, LaterStepsKeepConfig
<1> QED
  BY <1>1, <1>2, <1>3, <1>4, <1>5, <1>6, <1>7, <1>8, <1>9,
     GenerateConfigStores, GenerateTypesSettings, RunAgainKeepsConfig DEF Next, Stopped

(* The settings of a run that generates types are its options, or else those
   of the nearest configuration file, or else the defaults, whatever earlier
   runs stored. *)
THEOREM SettingsHavePrecedence == Spec => []ConfigPrecedence
<1>1. ConfigInv => ConfigPrecedence
  BY DEF ConfigInv
<1> QED
  BY <1>1, ConfigInitially, ConfigStep, PTL DEF Spec

LEMMA NoOptionsKeepSettings ==
  ASSUME NEW config, IsConfig(config)
  PROVE  [config EXCEPT !.settings = Over(NoMappings, @)] = config
<1> DEFINE settings == [option \in Options |-> config.settings[option]]
<1>1. config.settings = settings
  BY DEF IsConfig, IsComplete
<1>2. Over(NoMappings, settings) = settings
  BY DEF Over, NoMappings
<1>3. [config EXCEPT !.settings = config.settings] = config
  BY DEF IsConfig, IsComplete
<1> QED
  BY <1>1, <1>2, <1>3

LEMMA StoredIsReproduced == ConfigInv => StoredConfigReproduces
<1> DEFINE path == StorePath(Args.configFile, world.cwd)
<1> SUFFICES ASSUME ConfigInv, phase \in Running \ {"starting"}, Args.options = NoMappings,
                    path \in DOMAIN tomls \ DOMAIN world.tomls
             PROVE  \E k \in 1..run - 1 :
                      /\ Stores(k, path) /\ \A j \in 1..k - 1 : ~Stores(j, path)
                      /\ backend = Backend([DefaultConfig EXCEPT !.settings = Over(world.runs[k].options, @)],
                                           Lang, Args.multiFile)
  BY DEF StoredConfigReproduces
<1>1. phase \notin Ended
  BY DEF Running, Ended
<1>2. PICK k \in DOMAIN world.runs :
        /\ k <= run /\ k # run
        /\ FirstToStore(k, path)
        /\ tomls[path] = OverrideConfiguration(DefaultConfig, world.runs[k])
  BY <1>1 DEF ConfigInv, StoredInv
<1>3. k \in 1..run - 1 /\ world.runs[k] \in Arguments
  BY <1>2, WorldTypes DEF ConfigInv
<1>4. ~IsFailure(OverrideConfiguration(DefaultConfig, world.runs[k]))
  BY <1>2 DEF FirstToStore, Stores
<1>5. /\ tomls[path] = [DefaultConfig EXCEPT !.settings = Over(world.runs[k].options, DefaultConfig.settings)]
      /\ IsConfig(tomls[path])
  BY <1>2, <1>3, <1>4, DefaultIsConfig, OverrideIsOver
<1>6. NearestConfig = tomls[path]
  BY StoredIsNearest DEF ConfigInv
<1>7. backend = Backend([NearestConfig EXCEPT !.settings = Over(NoMappings, @)], Lang, Args.multiFile)
  BY DEF ConfigInv, ConfigPrecedence
<1>8. [NearestConfig EXCEPT !.settings = Over(NoMappings, @)] = NearestConfig
  BY <1>5, <1>6, NoOptionsKeepSettings
<1>9. backend = Backend([DefaultConfig EXCEPT !.settings = Over(world.runs[k].options, @)],
                        Lang, Args.multiFile)
  BY <1>5, <1>6, <1>7, <1>8
<1> HIDE DEF path
<1> QED
  BY <1>2, <1>3, <1>9 DEF FirstToStore

(* A run without options, where an earlier run stored a configuration, has the
   settings of the first run to store one there. *)
THEOREM StoredConfigsReproduce == Spec => []StoredConfigReproduces
BY ConfigInitially, ConfigStep, StoredIsReproduced, PTL DEF Spec

-----------------------------------------------------------------------------
(* Every item arrives *)

ItemsInv == ErrorsInv /\ ItemsArrive /\ TextsInv

LEMMA AmongAppended ==
  ASSUME NEW V, NEW s \in Seq(V), NEW e \in V
  PROVE  /\ Among(Append(s, e), e)
         /\ \A x : Among(s, x) => Among(Append(s, e), x)
<1>1. /\ Append(s, e) \in Seq(V) /\ Len(Append(s, e)) = Len(s) + 1
      /\ \A i \in 1..Len(s) : Append(s, e)[i] = s[i]
      /\ Append(s, e)[Len(s) + 1] = e
  BY AppendProperties
<1>2. Len(s) \in Nat /\ DOMAIN s = 1..Len(s) /\ DOMAIN Append(s, e) = 1..(Len(s) + 1)
  BY <1>1, LenProperties
<1>3. \A i \in DOMAIN s : i \in DOMAIN Append(s, e) /\ Append(s, e)[i] = s[i]
  BY <1>1, <1>2
<1>4. Len(s) + 1 \in DOMAIN Append(s, e)
  BY <1>2
<1> QED
  BY <1>1, <1>3, <1>4 DEF Among, IsSame

LEMMA AmongBoth ==
  ASSUME NEW V, NEW s \in Seq(V), NEW t \in Seq(V), NEW x, Among(s, x) \/ Among(t, x)
  PROVE  Among(s \o t, x)
<1>1. /\ s \o t \in Seq(V) /\ Len(s \o t) = Len(s) + Len(t)
      /\ \A i \in 1..(Len(s) + Len(t)) :
           (s \o t)[i] = IF i <= Len(s) THEN s[i] ELSE t[i - Len(s)]
  BY ConcatProperties
<1>2. /\ DOMAIN s = 1..Len(s) /\ DOMAIN t = 1..Len(t) /\ DOMAIN (s \o t) = 1..(Len(s) + Len(t))
      /\ Len(s) \in Nat /\ Len(t) \in Nat
  BY <1>1, LenProperties
<1>3. \A i \in DOMAIN s : i \in DOMAIN (s \o t) /\ (s \o t)[i] = s[i]
  BY <1>1, <1>2
<1>4. ASSUME NEW j \in DOMAIN t
      PROVE  \E i \in DOMAIN (s \o t) : (s \o t)[i] = t[j]
  <2>1. j + Len(s) \in 1..(Len(s) + Len(t)) /\ ~(j + Len(s) <= Len(s)) /\ j + Len(s) - Len(s) = j
    BY <1>2
  <2> QED
    BY <1>1, <1>2, <2>1
<1> QED
  BY <1>3, <1>4 DEF Among

(* reconcile_aliases changes no name and no kind of an item. *)
LEMMA CheckedIsSame ==
  ASSUME NEW parsed \in ParsedItems, NEW names
  PROVE  IsSame(CheckItem(parsed, names), parsed)
<1>1. /\ {"kind", "id"} \subseteq DOMAIN parsed
      /\ parsed.kind \in {"struct", "enum", "alias", "const"}
  BY ParsedKeepsNames DEF IsParsed, IsTyped, ParsedItems, Results
<1>2. \/ CheckItem(parsed, names) = parsed
      \/ \E fields : CheckItem(parsed, names) = [parsed EXCEPT !.fields = fields]
      \/ \E variants : CheckItem(parsed, names) = [parsed EXCEPT !.variants = variants]
      \/ \E ty : CheckItem(parsed, names) = [parsed EXCEPT !.ty = ty]
  BY <1>1 DEF CheckItem
<1> QED
  BY <1>1, <1>2 DEF IsSame

LEMMA ReconcileKeepsItems ==
  ASSUME DataInv, Reconcile
  PROVE  /\ DOMAIN crates' = DOMAIN crates
         /\ \A c \in DOMAIN crates : \A x :
              Among(crates[c].items, x) => Among(crates'[c].items, x)
<1>1. PICK names : crates' = ReconcileAliases(names)
  BY DEF Reconcile
<1>2. DOMAIN crates' = DOMAIN crates
  BY <1>1 DEF ReconcileAliases
<1>3. ASSUME NEW c \in DOMAIN crates, NEW x, Among(crates[c].items, x)
      PROVE  Among(crates'[c].items, x)
  <2> DEFINE items == crates[c].items
             checked == [i \in DOMAIN items |-> CheckItem(items[i], names[c])]
  <2>1. items \in Seq(ParsedItems) /\ "items" \in DOMAIN crates[c]
    BY DEF DataInv, Reconcile, Walking, NoData
  <2>2. crates'[c].items = checked
    BY <1>1, <2>1 DEF ReconcileAliases
  <2>3. \A i \in DOMAIN items : items[i] \in ParsedItems
    BY <2>1
  <2>4. \A i \in DOMAIN items : IsSame(checked[i], items[i])
    BY <2>3, CheckedIsSame
  <2> QED
    BY <1>3, <2>2, <2>4 DEF Among, IsSame
<1> QED
  BY <1>2, <1>3

LEMMA ArrivedStays ==
  ASSUME ItemsInv, phase \in Running \ {"starting"} \/ Generated,
         UNCHANGED <<contextVars, waiting, todo, data, crates>>
  PROVE  ItemsArrive'
<1>1. Sources' = Sources /\ \A f : TypesharedItems(f)' = TypesharedItems(f)
  BY SameSources DEF contextVars
<1>2. \A file, item : Arrived(file, item) => Arrived(file, item)'
  BY DEF Arrived, CrateOfFile, contextVars
<1> QED
  BY <1>1, <1>2 DEF ItemsInv, ItemsArrive

LEMMA PassOverArrives ==
  ASSUME ItemsInv, NEW file \in waiting, PassOver(file), UNCHANGED contextVars
  PROVE  ItemsArrive'
<1>1. /\ phase = "parsing" /\ (CrateOfFile(file) = NoCrate \/ ~file.marked)
      /\ waiting' = waiting \ {file}
      /\ UNCHANGED <<phase, todo, data, crates, world, multiFile, targetOs>>
  BY DEF PassOver, Walking, contextVars
<1>2. Sources' = Sources /\ \A f : TypesharedItems(f)' = TypesharedItems(f)
  BY <1>1, SameSources
<1>3. \A f, item : Arrived(f, item) => Arrived(f, item)'
  BY <1>1 DEF Arrived, CrateOfFile
<1>4. Sources' \ waiting' = Sources \ waiting
  BY <1>1, <1>2 DEF Sources
<1> QED
  BY <1>1, <1>2, <1>3, <1>4 DEF ItemsInv, ItemsArrive, Running

LEMMA VisitFileArrives ==
  ASSUME ItemsInv, NEW file \in waiting, VisitFile(file), UNCHANGED contextVars
  PROVE  ItemsArrive'
<1>1. /\ phase = "parsing" /\ data = NoData /\ waiting' = waiting \ {file}
      /\ data' = [NoData EXCEPT !.crate = CrateOfFile(file)]
      /\ todo' = IF AcceptTargetOs(file.attrs, targetOs) THEN file.items ELSE <<>>
      /\ UNCHANGED <<phase, crates, world, multiFile, targetOs>>
  BY DEF VisitFile, Walking, contextVars
<1>2. Sources' = Sources /\ \A f : TypesharedItems(f)' = TypesharedItems(f)
  BY <1>1, SameSources
<1>3. data.crate = NoCrate /\ data'.crate = CrateOfFile(file)
  BY <1>1 DEF NoData
<1>4. \A f : CrateOfFile(f)' = CrateOfFile(f)
  BY <1>1 DEF CrateOfFile
<1>5. \A f \in Sources : \A item : Arrived(f, item) => Arrived(f, item)'
  BY <1>1, <1>3, <1>4 DEF Arrived, Sources
<1>6. \A item \in TypesharedItems(file) : item \in AllItems(todo)'
  BY <1>1 DEF TypesharedItems, AllItems
<1>7. \A item \in TypesharedItems(file) : Arrived(file, item)'
  BY <1>3, <1>4, <1>6 DEF Arrived
<1>8. ItemsArrive
  BY DEF ItemsInv
<1> QED
  BY <1>1, <1>2, <1>5, <1>7, <1>8 DEF ItemsArrive, Running

LEMMA VisitItemArrives ==
  ASSUME ItemsInv, VisitItem, UNCHANGED contextVars, phase' = "parsing"
  PROVE  ItemsArrive'
<1> DEFINE head    == Head(todo)
           shared  == IsTypeshared(head)
           parsed  == Parse(head, targetOs)
<1>1. /\ head \in Parsables /\ Tail(todo) \in Seq(Items) /\ phase = "parsing"
      /\ data # NoData /\ targetOs \in TargetSets
  BY VisitingParsesItems DEF VisitItem, ItemsInv, ErrorsInv, ModulesInv
<1>2. PICK imports :
        data' = [data EXCEPT
                   !.imports = @ \cup imports,
                   !.items  = IF shared /\ ~IsFailure(parsed) THEN Append(@, parsed) ELSE @,
                   !.errors = IF shared /\ IsFailure(parsed) THEN Append(@, parsed.failure) ELSE @]
  BY DEF VisitItem
<1>3. todo' = Tail(todo) /\ UNCHANGED <<waiting, crates, world, multiFile, targetOs>>
  BY DEF VisitItem, contextVars
<1>4. /\ Sources' = Sources /\ \A f : TypesharedItems(f)' = TypesharedItems(f)
      /\ \A f : CrateOfFile(f)' = CrateOfFile(f)
  BY <1>3, SameSources DEF CrateOfFile
<1>5. IsParsedData(data) /\ todo \in Seq(Items) /\ todo # <<>>
  BY DEF VisitItem, Visiting, ItemsInv, ErrorsInv, ModulesInv, DataInv
<1>6. AllItems(todo) = {head} \cup AllItems(todo')
  <2>1. Within[head] = {head}
    BY <1>1, WithinItem DEF Parsables
  <2> QED
    BY <1>3, <1>5, <2>1, AllItemsOfHead
<1>7. ~IsFailure(parsed) => parsed \in ParsedItems
  BY <1>1, ParsedIsParsed
<1>8. shared = IsTypeshared(head) /\ parsed = Parse(head, targetOs)
  OBVIOUS
<1> HIDE DEF shared, parsed, head
<1>9. /\ data'.crate = data.crate
      /\ data'.items = IF shared /\ ~IsFailure(parsed) THEN Append(data.items, parsed) ELSE data.items
  BY <1>2, <1>5 DEF IsParsedData, NoData
<1>10. /\ shared /\ ~IsFailure(parsed) => Among(data'.items, parsed)
       /\ \A x : Among(data.items, x) => Among(data'.items, x)
  <2>1. CASE ~shared \/ IsFailure(parsed)
    BY <1>9, <2>1
  <2>2. CASE shared /\ ~IsFailure(parsed)
    <3>1. data'.items = Append(data.items, parsed) /\ data.items \in Seq(ParsedItems)
      BY <1>5, <1>9, <2>2 DEF IsParsedData
    <3> QED
      BY <1>7, <2>2, <3>1, AmongAppended
  <2> QED
    BY <2>1, <2>2
<1>11. ASSUME NEW file \in Sources, NEW item \in TypesharedItems(file), Arrived(file, item)
       PROVE  Arrived(file, item)'
  <2>1. item = head => IsFailure(Parse(item, targetOs)) \/ Among(data'.items, Parse(item, targetOs))
    BY <1>8, <1>10 DEF TypesharedItems
  <2> QED
    BY <1>3, <1>4, <1>6, <1>9, <1>10, <1>11, <2>1 DEF Arrived
<1>12. ItemsArrive
  BY DEF ItemsInv
<1> QED
  BY <1>1, <1>3, <1>4, <1>11, <1>12 DEF ItemsArrive, Running

LEMMA VisitItemUseArrives ==
  ASSUME ItemsInv, VisitItemUse, UNCHANGED contextVars
  PROVE  ItemsArrive'
<1>1. PICK imports : data' = [data EXCEPT !.imports = @ \cup imports]
  BY DEF VisitItemUse
<1>2. /\ phase = "parsing" /\ todo # <<>> /\ Head(todo).kind = "use" /\ todo' = Tail(todo)
      /\ UNCHANGED <<waiting, crates, world, multiFile, targetOs>>
  BY DEF VisitItemUse, Visiting, contextVars
<1>3. /\ Sources' = Sources /\ \A f : TypesharedItems(f)' = TypesharedItems(f)
      /\ \A f : CrateOfFile(f)' = CrateOfFile(f)
  BY <1>2, SameSources DEF CrateOfFile
<1>4. IsParsedData(data) /\ todo \in Seq(Items)
  BY DEF ItemsInv, ErrorsInv, ModulesInv, DataInv
<1>5. data'.items = data.items /\ data'.crate = data.crate
  BY <1>1, <1>4 DEF IsParsedData, NoData
<1>6. AllItems(todo) = {Head(todo)} \cup AllItems(todo')
  <2>1. Head(todo) \in Items
    BY <1>2, <1>4, HeadTailProperties
  <2>2. Within[Head(todo)] = {Head(todo)}
    BY <1>2, <2>1, WithinItem
  <2> QED
    BY <1>2, <1>4, <2>2, AllItemsOfHead
<1>7. ASSUME NEW file \in Sources, NEW item \in TypesharedItems(file), Arrived(file, item)
      PROVE  Arrived(file, item)'
  <2>1. item # Head(todo)
    BY <1>2 DEF TypesharedItems
  <2> QED
    BY <1>2, <1>3, <1>5, <1>6, <1>7, <2>1 DEF Arrived
<1>8. ItemsArrive
  BY DEF ItemsInv
<1> QED
  BY <1>2, <1>3, <1>7, <1>8 DEF ItemsArrive, Generated, Running

LEMMA VisitItemModArrives ==
  ASSUME ItemsInv, VisitItemMod, UNCHANGED contextVars
  PROVE  ItemsArrive'
<1>1. /\ phase = "parsing" /\ todo # <<>> /\ Head(todo).kind = "mod"
      /\ todo' = Head(todo).items \o Tail(todo)
      /\ UNCHANGED <<phase, waiting, data, crates, world, multiFile, targetOs>>
  BY DEF VisitItemMod, Visiting, contextVars
<1>2. Sources' = Sources /\ \A f : TypesharedItems(f)' = TypesharedItems(f)
  BY <1>1, SameSources
<1>3. AllItems(todo') = AllItems(todo)
  BY <1>1, AllItemsOfModule DEF ItemsInv, ErrorsInv, ModulesInv, DataInv
<1>4. \A file, item : Arrived(file, item) => Arrived(file, item)'
  BY <1>1, <1>3 DEF Arrived, CrateOfFile
<1>5. ItemsArrive
  BY DEF ItemsInv
<1> QED
  BY <1>1, <1>2, <1>4, <1>5 DEF ItemsArrive, Running

(* The items of the file are added to those of its crate. *)
LEMMA EndVisitArrives ==
  ASSUME ItemsInv, EndVisit, UNCHANGED contextVars
  PROVE  ItemsArrive'
<1> DEFINE crate == data.crate
           old == IF crate \in DOMAIN crates THEN crates[crate] ELSE [NoData EXCEPT !.crate = crate]
<1>1. PICK imports : crates' = IF IsEmpty(data) THEN crates
                               ELSE Put(crates, crate, Merge(old, [data EXCEPT !.imports = imports]))
  BY DEF EndVisit
<1> DEFINE new == [data EXCEPT !.imports = imports]
           merged == Merge(old, new)
<1>2. /\ phase = "parsing" /\ data # NoData /\ todo = <<>> /\ data' = NoData
      /\ UNCHANGED <<phase, waiting, todo, world, multiFile, targetOs>>
  BY DEF EndVisit, contextVars
<1>3. /\ Sources' = Sources /\ \A f : TypesharedItems(f)' = TypesharedItems(f)
      /\ \A f : CrateOfFile(f)' = CrateOfFile(f)
  BY <1>2, SameSources DEF CrateOfFile
<1>4. IsParsedData(data) /\ DataInv
  BY DEF ItemsInv, ErrorsInv, ModulesInv, DataInv
<1>5. IsParsedData(old) /\ IsParsedData(new) /\ new.items = data.items
      /\ (crate \in DOMAIN crates => old = crates[crate])
  <2>1. IsParsedData([NoData EXCEPT !.crate = crate])
    BY EmptySeq DEF IsParsedData, NoData
  <2>2. crate \in DOMAIN crates => IsParsedData(crates[crate])
    BY <1>2, <1>4 DEF DataInv, IsParsedData
  <2>3. IsParsedData(new) /\ new.items = data.items
    BY <1>4 DEF IsParsedData, NoData
  <2> QED
    BY <2>1, <2>2, <2>3
<1>6. /\ old.items \in Seq(ParsedItems) /\ data.items \in Seq(ParsedItems)
      /\ merged.items = old.items \o data.items
  <2> HIDE DEF old, new
  <2> QED
    BY <1>4, <1>5, MergedIsParsedData DEF IsParsedData
<1>7. \A x : Among(old.items, x) \/ Among(data.items, x) => Among(merged.items, x)
  <2> DEFINE s == old.items
             t == data.items
  <2>1. \A x : Among(s, x) \/ Among(t, x) => Among(s \o t, x)
    <3>1. s \in Seq(ParsedItems) /\ t \in Seq(ParsedItems)
      BY <1>6
    <3> HIDE DEF s, t
    <3> QED
      BY <3>1, AmongBoth
  <2> HIDE DEF merged
  <2> QED
    BY <1>6, <2>1
<1>8. IsEmpty(data) => \A x : ~Among(data.items, x)
  BY DEF IsEmpty, Among
<1>9. AllItems(todo) = {}
  BY <1>2, NoItems
<1>10. ~IsEmpty(data) => crates' = Put(crates, crate, merged)
  BY <1>1
<1>11. IsEmpty(data) => crates' = crates
  BY <1>1
<1> HIDE DEF old, new, merged
<1>12. \A x : Among(data.items, x) => crate \in DOMAIN crates' /\ Among(crates'[crate].items, x)
  BY <1>7, <1>8, <1>10 DEF Put, Over
<1>13. \A c \in DOMAIN crates : \A x :
         Among(crates[c].items, x) => c \in DOMAIN crates' /\ Among(crates'[c].items, x)
  BY <1>5, <1>7, <1>10, <1>11 DEF Put, Over
<1>14. \A file, item : Arrived(file, item) => Arrived(file, item)'
  BY <1>2, <1>3, <1>9, <1>12, <1>13 DEF Arrived
<1>15. ItemsArrive
  BY DEF ItemsInv
<1> QED
  BY <1>2, <1>3, <1>14, <1>15 DEF ItemsArrive, Running

LEMMA WalkArrives ==
  ASSUME ItemsInv, WalkFiles
  PROVE  ItemsArrive' /\ TextsInv'
<1>1. /\ phase = "parsing" /\ phase' \in {"parsing", "failed", "panicked", "hanging"}
      /\ UNCHANGED <<contextVars, modules>>
  BY DEF WalkFiles, Walk, PassOver, FailToParse, VisitFile, Walking, VisitItem, VisitItemUse, LoseWalker,
         VisitItemMod, Visiting, EndVisit, moduleVars
<1>2. modules' = <<>>
  BY <1>1 DEF ItemsInv, ErrorsInv, ModulesInv, ModuleInv
<1>3. TextsInv'
  BY <1>1, <1>2 DEF TextsInv, Generated
<1>4. CASE phase' # "parsing"
  BY <1>1, <1>3, <1>4 DEF ItemsArrive, Running, Generated
<1>5. CASE phase' = "parsing"
  <2>1. ASSUME NEW file \in waiting, PassOver(file) PROVE ItemsArrive'
    BY <1>1, <2>1, PassOverArrives
  <2>2. ASSUME NEW file \in waiting PROVE ~FailToParse(file)
    BY <1>5 DEF FailToParse
  <2>3. ASSUME NEW file \in waiting, VisitFile(file) PROVE ItemsArrive'
    BY <1>1, <2>3, VisitFileArrives
  <2> QED
    BY <1>1, <1>3, <1>5, <2>1, <2>2, <2>3,
       VisitItemArrives, VisitItemUseArrives, VisitItemModArrives, EndVisitArrives
       DEF WalkFiles, Walk
<1> QED
  BY <1>3, <1>4, <1>5

LEMMA ReconcileArrives ==
  ASSUME ItemsInv, Reconcile
  PROVE  ItemsArrive' /\ TextsInv'
<1>1. /\ phase = "parsing" /\ phase' = "reconciling"
      /\ UNCHANGED <<contextVars, waiting, todo, data, modules>>
  BY DEF Reconcile, Walking, moduleVars
<1>2. /\ Sources' = Sources /\ \A f : TypesharedItems(f)' = TypesharedItems(f)
      /\ \A f : CrateOfFile(f)' = CrateOfFile(f)
  BY <1>1, SameSources DEF contextVars, CrateOfFile
<1>3. /\ DOMAIN crates' = DOMAIN crates
      /\ \A c \in DOMAIN crates : \A x : Among(crates[c].items, x) => Among(crates'[c].items, x)
  BY ReconcileKeepsItems DEF ItemsInv, ErrorsInv, ModulesInv
<1>4. \A file, item : Arrived(file, item) => Arrived(file, item)'
  BY <1>1, <1>2, <1>3 DEF Arrived, contextVars
<1>5. modules' = <<>>
  BY <1>1 DEF ItemsInv, ErrorsInv, ModulesInv, ModuleInv
<1> QED
  BY <1>1, <1>2, <1>4, <1>5 DEF ItemsInv, ItemsArrive, TextsInv, Running, Generated

(* What is written of items is kept, as long as the crates and the backend
   stay what they are. *)
LEMMA WrittenStays ==
  ASSUME UNCHANGED <<world, run, backend, crates>>
  PROVE  /\ Args' = Args
         /\ \A module, item : HasWritten(module, item)' = HasWritten(module, item)
BY DEF HasWritten, Lang, Args

LEMMA BeginModuleTexts ==
  ASSUME ItemsInv, NEW crate \in DOMAIN crates, BeginModule(crate)
  PROVE  TextsInv'
<1>1. /\ phase' # "done" /\ at' = crate /\ left' = DOMAIN crates[crate].items
      /\ UNCHANGED <<world, run, backend, crates, modules>>
  BY DEF BeginModule, AddText, contextVars, parseVars
<1>2. \A module, item : HasWritten(module, item)' = HasWritten(module, item)
  BY <1>1, WrittenStays
<1>3. DOMAIN ItemsAt' \ left' = {}
  BY <1>1 DEF ItemsAt
<1> QED
  BY <1>1, <1>2, <1>3 DEF ItemsInv, TextsInv, Generated

LEMMA WriteNextItemTexts ==
  ASSUME ItemsInv, WriteNextItem
  PROVE  TextsInv'
<1>1. PICK i \in left : left' = left \ {i} /\ AddText(text, WriteItemIn(Lang, backend, ItemsAt[i]))
  BY DEF WriteNextItem
<1>2. /\ phase = "writing" /\ phase' # "done"
      /\ UNCHANGED <<world, run, backend, crates, at, modules>>
  BY DEF WriteNextItem, AddText, contextVars, parseVars
<1>3. ItemsAt' = ItemsAt /\ \A module, item : HasWritten(module, item)' = HasWritten(module, item)
  BY <1>2, WrittenStays DEF ItemsAt
<1>4. /\ text'.names = text.names \cup WriteItemIn(Lang, backend, ItemsAt[i]).names
      /\ phase' = "writing" => WriteItemIn(Lang, backend, ItemsAt[i]).fate = "ok"
  BY <1>1 DEF AddText, Both
<1>5. /\ phase' = "writing" => HasWritten([text |-> text'], ItemsAt[i])
      /\ \A item : HasWritten([text |-> text], item) => HasWritten([text |-> text'], item)
  BY <1>4 DEF HasWritten
<1>6. DOMAIN ItemsAt \ left' \subseteq (DOMAIN ItemsAt \ left) \cup {i}
  BY <1>1
<1>7. phase' = "writing" => \A j \in DOMAIN ItemsAt \ left' : HasWritten([text |-> text'], ItemsAt[j])
  BY <1>2, <1>5, <1>6 DEF ItemsInv, TextsInv
<1>8. \A item : HasWritten([text |-> text], item)' = HasWritten([text |-> text'], item)
  BY <1>2 DEF HasWritten, Lang, Args
<1> QED
  BY <1>2, <1>3, <1>7, <1>8 DEF ItemsInv, TextsInv, Generated

LEMMA EndModuleTexts ==
  ASSUME ItemsInv, EndModule
  PROVE  TextsInv'
<1>1. /\ phase = "writing" /\ left = {} /\ phase' = "generating"
      /\ UNCHANGED <<world, run, backend, crates>>
  BY DEF EndModule, contextVars, parseVars, backendVars
<1>2. PICK provides : modules' = Put(modules, at, [text |-> text, provides |-> provides])
  BY DEF EndModule
<1>3. \A module, item : HasWritten(module, item)' = HasWritten(module, item)
  BY <1>1, WrittenStays
<1>4. at \in DOMAIN crates /\ \A i \in DOMAIN crates[at].items : HasWritten([text |-> text], crates[at].items[i])
  BY <1>1 DEF ItemsInv, TextsInv, ItemsAt
<1>5. DOMAIN modules' = DOMAIN modules \cup {at} /\ modules'[at].text = text
  BY <1>2 DEF Put, Over
<1>6. \A i \in DOMAIN crates[at].items : HasWritten(modules'[at], crates[at].items[i])
  BY <1>4, <1>5 DEF HasWritten
<1>7. \A c \in DOMAIN modules \ {at} : modules'[c] = modules[c]
  BY <1>2 DEF Put, Over
<1>8. \A c \in DOMAIN modules' \ {PostModule} :
        /\ c \in DOMAIN crates
        /\ \A i \in DOMAIN crates[c].items : HasWritten(modules'[c], crates[c].items[i])
  BY <1>4, <1>5, <1>6, <1>7 DEF ItemsInv, TextsInv
<1>9. \A module, item : HasWritten(module, item)' <=> HasWritten(module, item)
  BY <1>3
<1>10. \A c, i : HasWritten(modules[c], crates[c].items[i])' <=> HasWritten(modules'[c], crates[c].items[i])
  BY <1>1 DEF HasWritten, Lang, Args
<1> QED
  BY <1>1, <1>8, <1>10 DEF TextsInv, Generated

LEMMA FinishTexts ==
  ASSUME ItemsInv, Finish
  PROVE  TextsInv'
<1>1. /\ phase = "generating" /\ phase' \in {"done", "failed"} /\ DOMAIN modules = DOMAIN crates
      /\ UNCHANGED <<contextVars, waiting, data, run, backend, crates>>
  BY DEF Finish, parseVars, backendVars
<1>2. \/ modules' = modules
      \/ \E provides : modules' = Put(modules, PostModule, [text |-> Empty, provides |-> provides])
  BY DEF Finish
<1>3. /\ DOMAIN modules \subseteq DOMAIN modules' /\ DOMAIN modules' \subseteq DOMAIN modules \cup {PostModule}
      /\ \A c \in DOMAIN modules \ {PostModule} : modules'[c] = modules[c]
  BY <1>2 DEF Put, Over
<1>4. \A c \in DOMAIN modules' \ {PostModule} :
        /\ c \in DOMAIN crates
        /\ \A i \in DOMAIN crates[c].items : HasWritten(modules'[c], crates[c].items[i])
  BY <1>3 DEF ItemsInv, TextsInv
<1>5. \A c, i : HasWritten(modules[c], crates[c].items[i])' <=> HasWritten(modules'[c], crates[c].items[i])
  BY <1>1 DEF HasWritten, Lang, Args, contextVars
<1>6. /\ waiting = {} /\ data = NoData
      /\ \A file \in Sources : \A item \in TypesharedItems(file) : ~IsFailure(Parse(item, targetOs))
  BY <1>1, NoneFails DEF ItemsInv, ErrorsInv, WalkInv
<1>7. Sources' = Sources /\ \A f : TypesharedItems(f)' = TypesharedItems(f) /\ targetOs' = targetOs
  BY <1>1, SameSources DEF contextVars
<1> QED
  BY <1>1, <1>3, <1>4, <1>5, <1>6, <1>7 DEF TextsInv

LEMMA ItemsStep ==
  ASSUME ItemsInv, [Next]_vars
  PROVE  ItemsInv'
<1>1. ErrorsInv'
  BY ErrorsStep DEF ItemsInv
<1>2. CASE GenerateConfig \/ GenerateTypes
  <2>1. /\ phase = "starting" /\ UNCHANGED <<world, run, modules>>
        /\ \/ phase' \in {"done", "failed"} /\ Args.generateConfig
           \/ phase' = "failed"
           \/ phase' = "parsing" /\ waiting' = world.files
    BY <1>2 DEF GenerateConfig, StoreConfig, GenerateTypes, contextVars, moduleVars
  <2>2. modules' = <<>>
    BY <2>1 DEF ItemsInv, ErrorsInv, ModulesInv, ModuleInv
  <2>3. ~Generated'
    BY <2>1 DEF Generated, Args
  <2> QED
    BY <1>1, <2>1, <2>2, <2>3 DEF ItemsInv, ItemsArrive, TextsInv, Sources, Running
<1>3. CASE WalkFiles
  BY <1>1, <1>3, WalkArrives DEF ItemsInv
<1>4. CASE Reconcile
  BY <1>1, <1>4, ReconcileArrives DEF ItemsInv
<1>5. CASE CheckParseErrors
  <2>1. /\ phase = "reconciling" /\ phase' \in {"generating", "failed"}
        /\ UNCHANGED <<contextVars, waiting, todo, data, crates, modules>>
    BY <1>5 DEF CheckParseErrors, parseVars, moduleVars
  <2>2. modules' = <<>>
    BY <2>1 DEF ItemsInv, ErrorsInv, ModulesInv, ModuleInv
  <2>3. ItemsArrive'
    BY <2>1, ArrivedStays DEF Running
  <2> QED
    BY <1>1, <2>1, <2>2, <2>3 DEF ItemsInv, TextsInv, Generated
<1>6. CASE WriteNextItem \/ EndModule \/ Finish \/ \E crate \in DOMAIN crates : BeginModule(crate)
  <2>1. phase \in {"generating", "writing"} /\ UNCHANGED <<contextVars, waiting, todo, data, crates>>
    BY <1>6 DEF WriteNextItem, EndModule, Finish, BeginModule, parseVars
  <2>2. ItemsArrive'
    BY <2>1, ArrivedStays DEF Running
  <2> QED
    BY <1>1, <1>6, <2>2, BeginModuleTexts, WriteNextItemTexts, EndModuleTexts, FinishTexts DEF ItemsInv
<1>7. CASE RunAgain
  <2>1. phase' = "starting" /\ modules' = <<>>
    BY <1>7 DEF RunAgain
  <2> QED
    BY <1>1, <2>1 DEF ItemsInv, ItemsArrive, TextsInv, Generated
<1>8. CASE UNCHANGED vars
  <2>1. UNCHANGED <<contextVars, waiting, todo, data, crates, phase, run, backend, at, left, text, modules>>
    BY <1>8 DEF vars, parseVars, backendVars, moduleVars
  <2>2. Generated' = Generated
    BY <2>1 DEF Generated, Args, contextVars
  <2>3. ItemsArrive'
    <3>1. CASE phase \in Running \ {"starting"} \/ Generated
      BY <2>1, <3>1, ArrivedStays
    <3>2. CASE ~(phase \in Running \ {"starting"} \/ Generated)
      BY <2>1, <2>2, <3>2 DEF ItemsArrive
    <3> QED
      BY <3>1, <3>2
  <2>4. Sources' = Sources /\ \A f : TypesharedItems(f)' = TypesharedItems(f) /\ targetOs' = targetOs
    BY <2>1, SameSources DEF contextVars
  <2>5. TextsInv'
    BY <2>1, <2>2, <2>4 DEF ItemsInv, TextsInv, HasWritten, ItemsAt, Lang, Args, contextVars
  <2> QED
    BY <1>1, <2>3, <2>5 DEF ItemsInv
<1> QED
  BY <1>2, <1>3, <1>4, <1>5, <1>6, <1>7, <1>8 DEF Next, Stopped

LEMMA ItemsInitially == Init => ItemsInv
<1> SUFFICES ASSUME Init PROVE ItemsInv
  OBVIOUS
<1>1. phase = "starting" /\ modules = <<>>
  BY DEF Init
<1> QED
  BY <1>1, ModulesInitially DEF ItemsInv, ErrorsInv, WalkInv, NothingMissed, ItemsArrive, TextsInv, Generated

LEMMA AllAreWritten == ItemsInv => EveryItemWritten
<1> SUFFICES ASSUME ItemsInv, Generated,
                    NEW file \in {f \in Sources : CrateOfFile(f) # PostModule},
                    NEW item \in TypesharedItems(file)
             PROVE  /\ CrateOfFile(file) \in DOMAIN modules \cap DOMAIN crates
                    /\ \E written \in Range(crates[CrateOfFile(file)].items) :
                         /\ IsSame(written, Parse(item, targetOs))
                         /\ HasWritten(modules[CrateOfFile(file)], written)
  BY DEF EveryItemWritten
<1> DEFINE crate == CrateOfFile(file)
           parsed == Parse(item, targetOs)
<1>1. /\ waiting = {} /\ data = NoData /\ DOMAIN crates \subseteq DOMAIN modules
      /\ ~IsFailure(parsed)
  BY DEF ItemsInv, TextsInv
<1>2. Arrived(file, item)
  BY <1>1 DEF ItemsInv, ItemsArrive
<1>3. crate # NoCrate /\ data.crate = NoCrate
  BY <1>1 DEF Sources, NoData
<1>4. crate \in DOMAIN crates /\ Among(crates[crate].items, parsed)
  BY <1>1, <1>2, <1>3 DEF Arrived
<1>5. PICK i \in DOMAIN crates[crate].items : IsSame(crates[crate].items[i], parsed)
  BY <1>4 DEF Among
<1>6. HasWritten(modules[crate], crates[crate].items[i])
  BY <1>1, <1>4 DEF ItemsInv, TextsInv
<1>7. crates[crate].items[i] \in Range(crates[crate].items)
  BY DEF Range
<1> QED
  BY <1>1, <1>4, <1>5, <1>6, <1>7

(* From the sources to the modules nothing is lost: whichever files the walk
   takes first, however items are nested in modules of Rust, what several files
   put into a crate adds up, reconcile_aliases keeps all of it, and each crate's
   module is made from all of its items. *)
THEOREM ItemsAreWritten == Spec => []EveryItemWritten
<1>1. Init => ItemsInv
  BY ItemsInitially
<1>2. ItemsInv /\ [Next]_vars => ItemsInv'
  BY ItemsStep
<1> QED
  BY <1>1, <1>2, AllAreWritten, PTL DEF Spec

-----------------------------------------------------------------------------
(* Every run ends *)

LEMMA WeightIs ==
  ASSUME NEW item \in Items
  PROVE  /\ Weight[item] \in Nat
         /\ item.kind = "mod" => item.items \in Seq(Items) /\ Weight[item] = 1 + Size(item.items)
         /\ item.kind # "mod" => Weight[item] = 1
BY ItemsAssumption DEF ItemsAssumption

LEMMA SizeIsSum ==
  /\ AreWeights(Weight, Items)
  /\ \A items \in Seq(Items) : Size(items) = SumOf(Weight, items)
BY WeightIs DEF AreWeights, Size, SumOf, WeightsOf

LEMMA SizeIsNat ==
  ASSUME NEW items \in Seq(Items)
  PROVE  Size(items) \in Nat
BY SizeIsSum, SumIsNat

LEMMA SizeOfNone == Size(<<>>) = 0
BY SizeIsSum, SumOfNone, EmptySeq

LEMMA SizeOfOne ==
  ASSUME NEW item \in Items
  PROVE  Size(<<item>>) = Weight[item]
<1>1. <<item>> \in Seq(Items)
  OBVIOUS
<1> QED
  BY <1>1, SizeIsSum, SumOfOne

LEMMA SizeOfBoth ==
  ASSUME NEW s \in Seq(Items), NEW t \in Seq(Items)
  PROVE  Size(s \o t) = Size(s) + Size(t)
<1>1. s \o t \in Seq(Items) /\ AreWeights(Weight, Items)
  BY ConcatProperties, SizeIsSum
<1>2. SumOf(Weight, s \o t) = SumOf(Weight, s) + SumOf(Weight, t)
  BY <1>1, SumOfBoth
<1> QED
  BY <1>1, <1>2, SizeIsSum

(* An item is more than what is in it, and something by itself. *)
LEMMA SizeOfHead ==
  ASSUME NEW items \in Seq(Items), items # <<>>
  PROVE  /\ Head(items) \in Items /\ Tail(items) \in Seq(Items)
         /\ Weight[Head(items)] \in Nat \ {0} /\ Size(Tail(items)) \in Nat
         /\ Size(items) = Weight[Head(items)] + Size(Tail(items))
<1> DEFINE item == Head(items)
           rest == Tail(items)
<1>1. /\ item \in Items /\ rest \in Seq(Items) /\ Len(rest) = Len(items) - 1
      /\ \A i \in 1..Len(rest) : rest[i] = items[i + 1]
  BY HeadTailProperties
<1>2. Len(items) \in Nat \ {0} /\ item = items[1]
  BY EmptySeq
<1>3. <<item>> \in Seq(Items) /\ Len(<<item>>) = 1 /\ <<item>>[1] = item
  BY <1>1
<1> HIDE DEF item, rest
<1>4. /\ <<item>> \o rest \in Seq(Items) /\ Len(<<item>> \o rest) = 1 + Len(rest)
      /\ \A i \in 1..1 + Len(rest) : (<<item>> \o rest)[i] = IF i <= 1 THEN <<item>>[i] ELSE rest[i - 1]
  BY <1>1, <1>3, ConcatProperties
<1>5. ASSUME NEW i \in 1..Len(items)
      PROVE  (<<item>> \o rest)[i] = items[i]
  <2>1. i \in 1..1 + Len(rest)
    BY <1>1, <1>2
  <2>2. CASE i = 1
    BY <1>2, <1>3, <1>4, <2>1, <2>2
  <2>3. CASE i # 1
    <3>1. i - 1 \in 1..Len(rest) /\ ~(i <= 1) /\ i - 1 + 1 = i
      BY <1>1, <1>2, <2>3
    <3> QED
      BY <1>1, <1>4, <2>1, <3>1
  <2> QED
    BY <2>2, <2>3
<1>6. Len(<<item>> \o rest) = Len(items)
  BY <1>1, <1>2, <1>4
<1>7. <<item>> \o rest = items
  BY <1>4, <1>5, <1>6, SeqEqual
<1>8. Size(items) = Weight[item] + Size(rest)
  BY <1>1, <1>3, <1>7, SizeOfBoth, SizeOfOne
<1>9. Weight[item] \in Nat \ {0}
  <2>1. item.kind = "mod" => Size(item.items) \in Nat
    BY <1>1, WeightIs, SizeIsNat
  <2> QED
    BY <1>1, <2>1, WeightIs
<1> QED
  BY <1>1, <1>8, <1>9, SizeIsNat DEF item, rest

(* What is left to do is finite, and the module that is being written is not
   one of those there are. *)
FiniteInv ==
  /\ IsFiniteSet(DOMAIN crates) /\ IsFiniteSet(left)
  /\ \A c \in DOMAIN crates : IsFiniteSet(DOMAIN crates[c].items)
  /\ phase = "writing" => at \in DOMAIN crates \ DOMAIN modules

LeadInv == ErrorsInv /\ FiniteInv

LEMMA ParsedIsFinite ==
  ASSUME NEW parsed, parsed.items \in Seq(ParsedItems)
  PROVE  IsFiniteSet(DOMAIN parsed.items)
<1>1. DOMAIN parsed.items = 1..Len(parsed.items) /\ Len(parsed.items) \in Nat
  BY LenProperties
<1>2. IsFiniteSet(1..Len(parsed.items))
  <2>1. 1 \in Int /\ Len(parsed.items) \in Int
    BY <1>1
  <2> QED
    BY <2>1, FS_Interval
<1> QED
  BY <1>1, <1>2

LEMMA WalkStaysFinite ==
  ASSUME LeadInv, WalkFiles, DataInv'
  PROVE  FiniteInv'
<1>1. UNCHANGED left /\ phase = "parsing" /\ phase' # "writing"
  BY DEF WalkFiles, Walk, moduleVars, PassOver, FailToParse, VisitFile, VisitItem, VisitItemUse, LoseWalker,
         VisitItemMod, EndVisit, Walking, Visiting
<1>2. IsFiniteSet(DOMAIN crates')
  <2>1. crates' = crates \/ \E parsed : crates' = Put(crates, data.crate, parsed)
    BY DEF WalkFiles, Walk, PassOver, FailToParse, VisitFile, VisitItem, VisitItemUse, LoseWalker,
           VisitItemMod, EndVisit, parseVars
  <2>2. crates' = crates \/ DOMAIN crates' = DOMAIN crates \cup {data.crate}
    BY <2>1 DEF Put, Over
  <2> QED
    BY <2>2, FS_AddElement DEF LeadInv, FiniteInv
<1>3. \A c \in DOMAIN crates' : IsFiniteSet(DOMAIN crates'[c].items)
  <2>1. CASE phase' = "parsing"
    BY <2>1, ParsedIsFinite DEF DataInv
  <2>2. CASE phase' # "parsing"
    <3>1. UNCHANGED crates
      BY <1>1, <2>2 DEF WalkFiles, Walk, PassOver, FailToParse, VisitFile, VisitItem, VisitItemUse, LoseWalker,
             VisitItemMod, EndVisit, parseVars
    <3> QED
      BY <3>1 DEF LeadInv, FiniteInv
  <2> QED
    BY <2>1, <2>2
<1> QED
  BY <1>1, <1>2, <1>3 DEF LeadInv, FiniteInv

LEMMA ReconcileStaysFinite ==
  ASSUME LeadInv, Reconcile
  PROVE  FiniteInv'
<1>1. PICK names : crates' = ReconcileAliases(names)
  BY DEF Reconcile
<1>2. DOMAIN crates' = DOMAIN crates
  BY <1>1 DEF ReconcileAliases
<1>3. ASSUME NEW c \in DOMAIN crates PROVE DOMAIN crates'[c].items = DOMAIN crates[c].items
  <2>1. "items" \in DOMAIN crates[c]
    BY DEF LeadInv, ErrorsInv, ModulesInv, DataInv, NoData
  <2> QED
    BY <1>1, <2>1 DEF ReconcileAliases
<1>4. phase' # "writing" /\ left' = left
  BY DEF Reconcile, moduleVars
<1> QED
  BY <1>2, <1>3, <1>4 DEF LeadInv, FiniteInv

LEMMA FiniteStep ==
  ASSUME LeadInv, [Next]_vars
  PROVE  LeadInv'
<1>1. ErrorsInv'
  BY ErrorsStep DEF LeadInv
<1>2. CASE GenerateConfig \/ GenerateTypes \/ CheckParseErrors
  <2>1. phase' # "writing" /\ UNCHANGED <<crates, left>>
    BY <1>2 DEF GenerateConfig, StoreConfig, GenerateTypes, CheckParseErrors, parseVars, moduleVars
  <2> QED
    BY <1>1, <2>1 DEF LeadInv, FiniteInv
<1>3. CASE WalkFiles
  BY <1>1, <1>3, WalkStaysFinite DEF LeadInv, ErrorsInv, ModulesInv
<1>4. CASE Reconcile
  BY <1>1, <1>4, ReconcileStaysFinite DEF LeadInv
<1>5. CASE \E crate \in DOMAIN crates : BeginModule(crate)
  <2>1. PICK crate \in DOMAIN crates \ DOMAIN modules :
          /\ at' = crate /\ left' = DOMAIN crates[crate].items /\ UNCHANGED <<crates, modules>>
    BY <1>5 DEF BeginModule, parseVars
  <2> QED
    BY <1>1, <2>1 DEF LeadInv, FiniteInv
<1>6. CASE WriteNextItem
  <2>1. PICK i \in left : left' = left \ {i}
    BY <1>6 DEF WriteNextItem
  <2>2. phase = "writing" /\ UNCHANGED <<at, crates, modules>>
    BY <1>6 DEF WriteNextItem, parseVars
  <2>3. IsFiniteSet(left')
    BY <2>1, FS_RemoveElement DEF LeadInv, FiniteInv
  <2> QED
    BY <1>1, <2>2, <2>3 DEF LeadInv, FiniteInv
<1>7. CASE EndModule \/ Finish
  <2>1. phase' # "writing" /\ UNCHANGED <<crates, left>>
    BY <1>7 DEF EndModule, Finish, parseVars
  <2> QED
    BY <1>1, <2>1 DEF LeadInv, FiniteInv
<1>8. CASE RunAgain
  <2>1. phase' = "starting" /\ crates' = <<>> /\ left' = {}
    BY <1>8 DEF RunAgain
  <2>2. DOMAIN crates' = {}
    BY <2>1
  <2> QED
    BY <1>1, <2>1, <2>2, FS_EmptySet DEF LeadInv, FiniteInv
<1>9. CASE UNCHANGED vars
  <2>1. UNCHANGED <<phase, at, crates, left, modules>>
    BY <1>9 DEF vars, parseVars, moduleVars
  <2> QED
    BY <1>1, <2>1 DEF LeadInv, FiniteInv
<1> QED
  BY <1>2, <1>3, <1>4, <1>5, <1>6, <1>7, <1>8, <1>9 DEF Next, Stopped

LEMMA OneFewer ==
  ASSUME NEW S, IsFiniteSet(S), NEW x \in S
  PROVE  Cardinality(S \ {x}) \in 0..Cardinality(S) - 1
<1>1. Cardinality(S \ {x}) = Cardinality(S) - 1 /\ IsFiniteSet(S \ {x})
  BY FS_RemoveElement
<1>2. Cardinality(S) \in Nat /\ Cardinality(S \ {x}) \in Nat
  BY <1>1, FS_CardinalityType
<1> QED
  BY <1>1, <1>2

(* The parts of the measure. *)
LeadsOn == \E i \in DOMAIN Measure : /\ Measure'[i] \in 0..Measure[i] - 1
                                     /\ \A j \in 1..i - 1 : Measure'[j] = Measure[j]

LEMMA LeadsAt ==
  ASSUME NEW i \in 1..7, Measure'[i] \in 0..Measure[i] - 1,
         \A j \in 1..i - 1 : Measure'[j] = Measure[j]
  PROVE  LeadsOn
<1>1. DOMAIN Measure = 1..7
  BY DEF Measure
<1> QED
  BY <1>1 DEF LeadsOn

LEMMA RankDecreases ==
  ASSUME UNCHANGED <<world, run>>, Rank' \in 0..Rank - 1
  PROVE  LeadsOn
<1>1. Measure'[2] \in 0..Measure[2] - 1
  BY DEF Measure
<1>2. \A j \in 1..2 - 1 : Measure'[j] = Measure[j]
  BY DEF Measure
<1> QED
  BY <1>1, <1>2, LeadsAt

LEMMA WaitingDecreases ==
  ASSUME UNCHANGED <<world, run, phase>>, Cardinality(waiting)' \in 0..Cardinality(waiting) - 1
  PROVE  LeadsOn
<1>1. Rank' = Rank
  BY DEF Rank
<1>2. Measure'[3] \in 0..Measure[3] - 1
  BY DEF Measure
<1>3. \A j \in 1..3 - 1 : Measure'[j] = Measure[j]
  BY <1>1 DEF Measure
<1> QED
  BY <1>2, <1>3, LeadsAt

LEMMA ToVisitDecreases ==
  ASSUME UNCHANGED <<world, run, phase, waiting>>, ToVisit' \in 0..ToVisit - 1
  PROVE  LeadsOn
<1>1. Rank' = Rank
  BY DEF Rank
<1>2. Measure'[4] \in 0..Measure[4] - 1
  BY DEF Measure
<1>3. \A j \in 1..4 - 1 : Measure'[j] = Measure[j]
  BY <1>1 DEF Measure
<1> QED
  BY <1>2, <1>3, LeadsAt

LEMMA ModulesDecrease ==
  ASSUME UNCHANGED <<world, run, waiting, data, todo>>, Rank' = Rank,
         Cardinality(DOMAIN crates \ DOMAIN modules)' \in 0..Cardinality(DOMAIN crates \ DOMAIN modules) - 1
  PROVE  LeadsOn
<1>1. ToVisit' = ToVisit
  BY DEF ToVisit
<1>2. Measure'[5] \in 0..Measure[5] - 1
  BY DEF Measure
<1>3. \A j \in 1..5 - 1 : Measure'[j] = Measure[j]
  BY <1>1 DEF Measure
<1> QED
  BY <1>2, <1>3, LeadsAt

LEMMA ToBeginDecreases ==
  ASSUME UNCHANGED <<world, run, waiting, data, todo, crates, modules>>, Rank' = Rank,
         phase = "generating", phase' # "generating"
  PROVE  LeadsOn
<1>1. ToVisit' = ToVisit
  BY DEF ToVisit
<1>2. Measure'[6] \in 0..Measure[6] - 1
  BY DEF Measure, ToBegin
<1>3. \A j \in 1..6 - 1 : Measure'[j] = Measure[j]
  BY <1>1 DEF Measure
<1> QED
  BY <1>2, <1>3, LeadsAt

LEMMA LeftDecreases ==
  ASSUME UNCHANGED <<world, run, phase, waiting, data, todo, crates, modules>>,
         Cardinality(left)' \in 0..Cardinality(left) - 1
  PROVE  LeadsOn
<1>1. Rank' = Rank /\ ToVisit' = ToVisit /\ ToBegin' = ToBegin
  BY DEF Rank, ToVisit, ToBegin
<1>2. Measure'[7] \in 0..Measure[7] - 1
  BY DEF Measure
<1>3. \A j \in 1..7 - 1 : Measure'[j] = Measure[j]
  BY <1>1 DEF Measure
<1> QED
  BY <1>2, <1>3, LeadsAt

LEMMA RankOfPhases ==
  ASSUME UNCHANGED <<world, run>>,
         \/ phase = "starting" /\ phase' \in {"parsing"} \cup Ended
         \/ phase = "parsing" /\ phase' \in {"reconciling", "hanging"} \cup Ended
         \/ phase = "reconciling" /\ phase' \in {"generating"} \cup Ended
         \/ phase \in {"generating", "writing"} /\ phase' \in Ended
  PROVE  LeadsOn
<1>1. Rank' \in 0..Rank - 1
  BY DEF Rank, Ended
<1> QED
  BY <1>1, RankDecreases

LEMMA WalkLeadsOn ==
  ASSUME LeadInv, WalkFiles
  PROVE  LeadsOn
<1>1. UNCHANGED <<world, run>> /\ IsFiniteSet(waiting) /\ todo \in Seq(Items)
  <2>1. IsFiniteSet(world.files) /\ waiting \subseteq world.files /\ todo \in Seq(Items)
    BY FilesAssumption DEF FilesAssumption, LeadInv, ErrorsInv, ModulesInv, DataInv
  <2> QED
    BY <2>1, FS_Subset DEF WalkFiles, Walk, contextVars
<1>2. CASE \E file \in waiting : PassOver(file) \/ VisitFile(file)
  <2>1. PICK file \in waiting : waiting' = waiting \ {file} /\ UNCHANGED phase
    BY <1>2 DEF PassOver, VisitFile
  <2>2. Cardinality(waiting') \in 0..Cardinality(waiting) - 1
    BY <1>1, <2>1, OneFewer
  <2> QED
    BY <1>1, <2>1, <2>2, WaitingDecreases
<1>3. CASE \E file \in waiting : FailToParse(file)
  BY <1>1, <1>3, RankOfPhases DEF FailToParse, Walking, Ended
<1>4. CASE VisitItem \/ VisitItemUse \/ VisitItemMod
  <2>1. /\ phase = "parsing" /\ phase' \in {"parsing", "panicked", "hanging"}
        /\ todo # <<>> /\ UNCHANGED waiting
        /\ todo' = Tail(todo) \/ (Head(todo).kind = "mod" /\ todo' = Head(todo).items \o Tail(todo))
    BY <1>4 DEF VisitItem, VisitItemUse, LoseWalker, VisitItemMod, Visiting
  <2>2. CASE phase' # phase
    BY <1>1, <2>1, <2>2, RankOfPhases DEF Ended
  <2>3. CASE phase' = phase
    <3>1. data # NoData
      BY <2>1 DEF LeadInv, ErrorsInv, ModulesInv, DataInv
    <3>2. /\ Head(todo) \in Items /\ Tail(todo) \in Seq(Items)
          /\ Weight[Head(todo)] \in Nat \ {0} /\ Size(Tail(todo)) \in Nat
          /\ Size(todo) = Weight[Head(todo)] + Size(Tail(todo))
      BY <1>1, <2>1, SizeOfHead
    <3>3. Size(todo') \in 0..Size(todo) - 1
      <4>1. CASE todo' = Tail(todo)
        BY <3>2, <4>1
      <4>2. CASE Head(todo).kind = "mod" /\ todo' = Head(todo).items \o Tail(todo)
        <5>1. Head(todo).items \in Seq(Items) /\ Weight[Head(todo)] = 1 + Size(Head(todo).items)
          BY <3>2, <4>2, WeightIs
        <5>2. Size(todo') = Size(Head(todo).items) + Size(Tail(todo)) /\ Size(Head(todo).items) \in Nat
          BY <3>2, <4>2, <5>1, SizeOfBoth, SizeIsNat
        <5> QED
          BY <3>2, <5>1, <5>2
      <4> QED
        BY <2>1, <4>1, <4>2
    <3>4. ToVisit' \in 0..ToVisit - 1
      <4>1. Size(todo) \in Nat
        BY <3>2
      <4> QED
        BY <3>1, <3>3, <4>1 DEF ToVisit
    <3> QED
      BY <1>1, <2>1, <2>3, <3>4, ToVisitDecreases
  <2> QED
    BY <2>2, <2>3
<1>5. CASE EndVisit
  <2>1. data # NoData /\ data' = NoData /\ todo = <<>> /\ UNCHANGED <<phase, waiting>>
    BY <1>5 DEF EndVisit
  <2>2. ToVisit' \in 0..ToVisit - 1
    BY <2>1, SizeOfNone DEF ToVisit
  <2> QED
    BY <1>1, <2>1, <2>2, ToVisitDecreases
<1> QED
  BY <1>2, <1>3, <1>4, <1>5 DEF WalkFiles, Walk

LEMMA BeginModuleLeadsOn ==
  ASSUME NEW crate \in DOMAIN crates, BeginModule(crate)
  PROVE  LeadsOn
<1>1. /\ phase = "generating" /\ phase' \in {"writing", "failed", "panicked"}
      /\ UNCHANGED <<world, run, waiting, data, todo, crates, modules>>
  BY DEF BeginModule, AddText, parseVars, contextVars
<1>2. CASE phase' = "writing"
  <2>1. Rank' = Rank
    BY <1>1, <1>2 DEF Rank
  <2> QED
    BY <1>1, <1>2, <2>1, ToBeginDecreases
<1>3. CASE phase' # "writing"
  BY <1>1, <1>3, RankOfPhases DEF Ended
<1> QED
  BY <1>2, <1>3

LEMMA WriteNextItemLeadsOn ==
  ASSUME LeadInv, WriteNextItem
  PROVE  LeadsOn
<1>1. /\ phase = "writing" /\ phase' \in {"writing", "failed", "panicked"}
      /\ UNCHANGED <<world, run, waiting, data, todo, crates, modules>>
  BY DEF WriteNextItem, AddText, parseVars, contextVars
<1>2. PICK i \in left : left' = left \ {i}
  BY DEF WriteNextItem
<1>3. CASE phase' = "writing"
  <2>1. Cardinality(left') \in 0..Cardinality(left) - 1
    BY <1>2, OneFewer DEF LeadInv, FiniteInv
  <2> QED
    BY <1>1, <1>3, <2>1, LeftDecreases
<1>4. CASE phase' # "writing"
  BY <1>1, <1>4, RankOfPhases DEF Ended
<1> QED
  BY <1>3, <1>4

LEMMA EndModuleLeadsOn ==
  ASSUME LeadInv, EndModule
  PROVE  LeadsOn
<1>1. /\ phase = "writing" /\ phase' = "generating"
      /\ UNCHANGED <<world, run, waiting, data, todo, crates>>
  BY DEF EndModule, parseVars, contextVars
<1>2. Rank' = Rank
  BY <1>1 DEF Rank
<1>3. DOMAIN modules' = DOMAIN modules \cup {at}
  BY DEF EndModule, Put, Over
<1>4. at \in DOMAIN crates \ DOMAIN modules /\ IsFiniteSet(DOMAIN crates)
  BY <1>1 DEF LeadInv, FiniteInv
<1> DEFINE toWrite == DOMAIN crates \ DOMAIN modules
<1>5. toWrite' = toWrite \ {at} /\ IsFiniteSet(toWrite) /\ at \in toWrite
  BY <1>1, <1>3, <1>4, FS_Difference
<1> HIDE DEF toWrite
<1>6. Cardinality(toWrite') \in 0..Cardinality(toWrite) - 1
  BY <1>5, OneFewer
<1> QED
  BY <1>1, <1>2, <1>6, ModulesDecrease DEF toWrite

LEMMA RunAgainLeadsOn ==
  ASSUME LeadInv, RunAgain
  PROVE  LeadsOn
<1>1. /\ world' = world /\ run' = run + 1 /\ run < Len(world.runs)
      /\ world.runs \in Seq(Arguments) /\ run \in DOMAIN world.runs
  BY RunsAssumption DEF RunAgain, RunsAssumption, LeadInv, ErrorsInv, ModulesInv, DataInv
<1>2. Len(world.runs) \in Nat /\ run \in Nat
  BY <1>1, LenProperties
<1>3. Measure'[1] \in 0..Measure[1] - 1
  BY <1>1, <1>2 DEF Measure
<1>4. \A j \in 1..1 - 1 : Measure'[j] = Measure[j]
  OBVIOUS
<1> QED
  BY <1>3, <1>4, LeadsAt

LEMMA StepLeadsOn ==
  ASSUME LeadInv, Next
  PROVE  LeadsOn \/ UNCHANGED vars
<1>1. CASE GenerateConfig \/ GenerateTypes
  <2>1. phase = "starting" /\ phase' \in {"parsing"} \cup Ended /\ UNCHANGED <<world, run>>
    BY <1>1 DEF GenerateConfig, StoreConfig, GenerateTypes, contextVars, Ended
  <2> QED
    BY <2>1, RankOfPhases
<1>2. CASE WalkFiles
  BY <1>2, WalkLeadsOn
<1>3. CASE Reconcile \/ CheckParseErrors
  <2>1. /\ UNCHANGED <<world, run>>
        /\ \/ phase = "parsing" /\ phase' = "reconciling"
           \/ phase = "reconciling" /\ phase' \in {"generating"} \cup Ended
    BY <1>3 DEF Reconcile, CheckParseErrors, Walking, contextVars, Ended
  <2> QED
    BY <2>1, RankOfPhases
<1>4. CASE \E crate \in DOMAIN crates : BeginModule(crate)
  BY <1>4, BeginModuleLeadsOn
<1>5. CASE WriteNextItem
  BY <1>5, WriteNextItemLeadsOn
<1>6. CASE EndModule
  BY <1>6, EndModuleLeadsOn
<1>7. CASE Finish
  <2>1. phase = "generating" /\ phase' \in Ended /\ UNCHANGED <<world, run>>
    BY <1>7 DEF Finish, contextVars, Ended
  <2> QED
    BY <2>1, RankOfPhases
<1>8. CASE RunAgain
  BY <1>8, RunAgainLeadsOn
<1>9. CASE Stopped
  BY <1>9 DEF Stopped
<1> QED
  BY <1>1, <1>2, <1>3, <1>4, <1>5, <1>6, <1>7, <1>8, <1>9 DEF Next

(* The items still to be visited are those of a file that was taken. *)
SourceInv ==
  phase = "parsing" /\ data # NoData =>
    \E file \in Sources \ waiting :
      CrateOfFile(file) = data.crate /\ AllItems(todo) \subseteq ItemsVisited(file)

HangInv == ErrorsInv /\ SourceInv /\ HangHasCause

LEMMA SameVisited ==
  ASSUME UNCHANGED <<world, multiFile, targetOs>>
  PROVE  /\ Sources' = Sources
         /\ \A file : /\ CrateOfFile(file)' = CrateOfFile(file)
                      /\ ItemsVisited(file)' = ItemsVisited(file)
                      /\ MakesParserPanic(file)' = MakesParserPanic(file)
BY DEF Sources, CrateOfFile, ItemsVisited, MakesParserPanic, TypesharedItems, IsTypeshared

(* The head of what is still to be visited is an item of such a file, and the
   rest of it stays that. *)
LEMMA HeadIsOfSource ==
  ASSUME HangInv, phase = "parsing", todo # <<>>, Head(todo).kind # "mod"
  PROVE  \E file \in Sources \ waiting :
           /\ CrateOfFile(file) = data.crate /\ Head(todo) \in ItemsVisited(file)
           /\ AllItems(Tail(todo)) \subseteq ItemsVisited(file)
<1>1. data # NoData /\ todo \in Seq(Items)
  BY DEF HangInv, ErrorsInv, ModulesInv, DataInv
<1>2. AllItems(todo) = {Head(todo)} \cup AllItems(Tail(todo))
  <2>1. Head(todo) \in Items
    BY <1>1, HeadTailProperties
  <2>2. Within[Head(todo)] = {Head(todo)}
    BY <2>1, WithinItem
  <2> QED
    BY <1>1, <2>2, AllItemsOfHead
<1> QED
  BY <1>1, <1>2 DEF HangInv, SourceInv

LEMMA WalkKeepsSource ==
  ASSUME HangInv, WalkFiles, phase' = "parsing"
  PROVE  SourceInv'
<1>1. phase = "parsing" /\ UNCHANGED <<world, multiFile, targetOs>>
  BY DEF WalkFiles, Walk, PassOver, FailToParse, VisitFile, Walking, VisitItem, VisitItemUse,
         VisitItemMod, Visiting, EndVisit, contextVars
<1>2. /\ Sources' = Sources
      /\ \A file : CrateOfFile(file)' = CrateOfFile(file) /\ ItemsVisited(file)' = ItemsVisited(file)
  BY <1>1, SameVisited
<1>3. DataInv
  BY DEF HangInv, ErrorsInv, ModulesInv
<1>4. CASE \E file \in waiting : PassOver(file) \/ FailToParse(file)
  BY <1>1, <1>4 DEF PassOver, FailToParse, Walking, SourceInv
<1>5. ASSUME NEW file \in waiting, VisitFile(file) PROVE SourceInv'
  <2>1. /\ CrateOfFile(file) # NoCrate /\ file.marked /\ file \in world.files
        /\ waiting' = waiting \ {file} /\ data' = [NoData EXCEPT !.crate = CrateOfFile(file)]
        /\ todo' = IF AcceptTargetOs(file.attrs, targetOs) THEN file.items ELSE <<>>
    BY <1>3, <1>5 DEF VisitFile, DataInv
  <2>2. file \in Sources' \ waiting' /\ data'.crate = CrateOfFile(file)
    BY <1>2, <2>1 DEF Sources, NoData
  <2>3. AllItems(todo') = ItemsVisited(file)
    BY <2>1, NoItems DEF ItemsVisited
  <2> QED
    BY <1>2, <2>2, <2>3 DEF SourceInv
<1>6. CASE VisitItem \/ VisitItemUse
  <2>1. /\ todo # <<>> /\ Head(todo).kind # "mod" /\ todo' = Tail(todo) /\ UNCHANGED waiting
    BY <1>6 DEF VisitItem, VisitItemUse, Visiting
  <2>2. data'.crate = data.crate
    <3>1. PICK imports, items, errors :
            data' = [data EXCEPT !.imports = imports, !.items = items, !.errors = errors]
                 \/ data' = [data EXCEPT !.imports = imports]
      BY <1>6 DEF VisitItem, VisitItemUse
    <3>2. DOMAIN data = DOMAIN NoData
      BY <1>3 DEF DataInv, IsParsedData
    <3> QED
      BY <3>1, <3>2 DEF NoData
  <2>3. PICK file \in Sources \ waiting :
          /\ CrateOfFile(file) = data.crate /\ AllItems(Tail(todo)) \subseteq ItemsVisited(file)
    BY <1>1, <2>1, HeadIsOfSource
  <2> QED
    BY <1>2, <2>1, <2>2, <2>3 DEF SourceInv
<1>7. CASE VisitItemMod
  <2>1. /\ todo # <<>> /\ Head(todo).kind = "mod" /\ todo' = Head(todo).items \o Tail(todo)
        /\ UNCHANGED <<phase, waiting, data>> /\ todo \in Seq(Items)
    BY <1>3, <1>7 DEF VisitItemMod, Visiting, DataInv
  <2>2. AllItems(todo') = AllItems(todo)
    BY <2>1, AllItemsOfModule
  <2> QED
    BY <1>1, <1>2, <2>1, <2>2 DEF HangInv, SourceInv
<1>8. CASE EndVisit
  BY <1>8 DEF EndVisit, SourceInv
<1> QED
  BY <1>4, <1>5, <1>6, <1>7, <1>8 DEF WalkFiles, Walk

(* A walker is lost on an item of a source file, and the run hangs if none of
   the files that wait is not Rust. *)
LEMMA WalkHangs ==
  ASSUME HangInv, WalkFiles, phase' = "hanging"
  PROVE  HangHasCause'
<1>1. /\ (VisitItem \/ VisitItemUse) /\ LoseWalker
      /\ phase = "parsing" /\ todo # <<>> /\ Head(todo).kind # "mod"
      /\ UNCHANGED <<world, multiFile, targetOs>>
  BY DEF WalkFiles, Walk, PassOver, FailToParse, VisitFile, Walking, VisitItem, VisitItemUse,
         VisitItemMod, Visiting, EndVisit, contextVars
<1>2. Sources' = Sources /\ \A file : MakesParserPanic(file)' = MakesParserPanic(file)
  BY <1>1, SameVisited
<1>3. \A file \in Sources : file.parses
  <2>1. \A file \in waiting : ~IsNotRust(file)
    BY <1>1 DEF LoseWalker
  <2>2. \A file \in Sources \cap waiting : file.parses
    BY <2>1 DEF IsNotRust, Sources
  <2>3. \A file \in Sources \ waiting : file.parses
    BY <1>1 DEF HangInv, ErrorsInv, NothingMissed, Running
  <2> QED
    BY <2>2, <2>3
<1>4. PICK file \in Sources \ waiting :
        CrateOfFile(file) = data.crate /\ Head(todo) \in ItemsVisited(file)
  BY <1>1, HeadIsOfSource
<1>5. AcceptTargetOs(file.attrs, targetOs) /\ Head(todo) \in AllItems(file.items)
  BY <1>4 DEF ItemsVisited
<1>6. CASE VisitItem
  <2>1. /\ Head(todo).kind # "use" /\ IsTypeshared(Head(todo))
        /\ Parse(Head(todo), targetOs) = Panic
    BY <1>1, <1>6 DEF VisitItem, Visiting
  <2>2. MakesParserPanic(file)
    BY <1>5, <2>1 DEF MakesParserPanic, TypesharedItems
  <2> QED
    BY <1>2, <1>3, <1>4, <2>2 DEF HangHasCause
<1>7. CASE VisitItemUse
  <2>1. /\ Head(todo).kind = "use" /\ multiFile
        /\ \E imp \in ImportsOfUse(Head(todo).tree, data.crate) : imp.base = NoCrate
    BY <1>1, <1>7 DEF VisitItemUse, Visiting
  <2>2. MakesParserPanic(file)
    BY <1>4, <1>5, <2>1 DEF MakesParserPanic
  <2> QED
    BY <1>2, <1>3, <1>4, <2>2 DEF HangHasCause
<1> QED
  BY <1>1, <1>6, <1>7

LEMMA HangStep ==
  ASSUME HangInv, [Next]_vars
  PROVE  HangInv'
<1>1. ErrorsInv'
  BY ErrorsStep DEF HangInv
<1>2. CASE WalkFiles
  <2>1. SourceInv'
    BY <1>2, WalkKeepsSource DEF SourceInv
  <2>2. HangHasCause'
    BY <1>2, WalkHangs DEF HangHasCause
  <2> QED
    BY <1>1, <2>1, <2>2 DEF HangInv
<1>3. CASE GenerateTypes
  <2>1. phase' # "hanging" /\ data' = NoData
    BY <1>3 DEF GenerateTypes, HangInv, ErrorsInv, ModulesInv, DataInv, parseVars
  <2> QED
    BY <1>1, <2>1 DEF HangInv, SourceInv, HangHasCause
<1>4. CASE GenerateConfig \/ Reconcile \/ CheckParseErrors \/ WriteNextItem \/ EndModule \/ Finish
           \/ RunAgain \/ \E crate \in DOMAIN crates : BeginModule(crate)
  <2>1. phase' \notin {"parsing", "hanging"}
    BY <1>4 DEF GenerateConfig, StoreConfig, Reconcile, CheckParseErrors, WriteNextItem, EndModule,
                Finish, RunAgain, BeginModule, AddText
  <2> QED
    BY <1>1, <2>1 DEF HangInv, SourceInv, HangHasCause
<1>5. CASE UNCHANGED vars
  <2>1. UNCHANGED <<world, multiFile, targetOs, phase, waiting, todo, data>>
    BY <1>5 DEF vars, parseVars, contextVars
  <2>2. /\ Sources' = Sources
        /\ \A file : /\ CrateOfFile(file)' = CrateOfFile(file)
                     /\ ItemsVisited(file)' = ItemsVisited(file)
                     /\ MakesParserPanic(file)' = MakesParserPanic(file)
    BY <2>1, SameVisited
  <2> QED
    BY <1>1, <2>1, <2>2 DEF HangInv, SourceInv, HangHasCause
<1> QED
  BY <1>2, <1>3, <1>4, <1>5 DEF Next, Stopped

(* No run goes on for ever: each step leaves less to do, however many runs,
   files, nested modules, crates and items there are, as it ends a run, gets on
   to the next part of one, takes a file from those that wait, an item or a
   module from the visitor's stack, begins or ends the module of a crate, or
   writes one more of its items. And a run that hangs, as the parser's panic
   left the other walkers waiting, has a file that makes the parser panic, and
   none that is not Rust. *)
THEOREM RunsLeadOn == Spec => EachStepLeadsOn
<1>1. Init => LeadInv /\ HangInv
  <2> SUFFICES ASSUME Init PROVE LeadInv /\ HangInv
    OBVIOUS
  <2>1. phase = "starting" /\ modules = <<>> /\ left = {} /\ crates = <<>>
    BY DEF Init, StartWalk
  <2>2. DOMAIN crates = {}
    BY <2>1
  <2>3. ErrorsInv
    BY <2>1, ModulesInitially DEF ErrorsInv, WalkInv, NothingMissed
  <2> QED
    BY <2>1, <2>2, <2>3, FS_EmptySet
    DEF LeadInv, FiniteInv, HangInv, SourceInv, HangHasCause
<1>2. LeadInv /\ [Next]_vars => LeadInv'
  BY FiniteStep
<1>3. LeadInv /\ [Next]_vars => [LeadsOn]_vars
  BY StepLeadsOn
<1>4. HangInv /\ [Next]_vars => HangInv'
  BY HangStep
<1>5. HangInv => HangHasCause
  BY DEF HangInv
<1> QED
  BY <1>1, <1>2, <1>3, <1>4, <1>5, PTL DEF Spec, EachStepLeadsOn, LeadsOn

(* What is in a module or a file is an item and not a module. *)
Flat == {item \in Items : item.kind # "mod"}

LEMMA WithinAreFlat == \A item \in Items : Within[item] \subseteq Flat
<1> DEFINE Good == {n \in Nat : \A item \in Items : Weight[item] <= n => Within[item] \subseteq Flat}
<1>1. \A item \in Items : /\ Weight[item] \in Nat \ {0}
                          /\ item.kind = "mod" => /\ item.items \in Seq(Items)
                                                  /\ Weight[item] = 1 + SumOf(Weight, item.items)
  <2> SUFFICES ASSUME NEW item \in Items
               PROVE  /\ Weight[item] \in Nat \ {0}
                      /\ item.kind = "mod" => /\ item.items \in Seq(Items)
                                              /\ Weight[item] = 1 + SumOf(Weight, item.items)
    OBVIOUS
  <2>1. item.kind = "mod" => /\ item.items \in Seq(Items) /\ Size(item.items) \in Nat
                             /\ Size(item.items) = SumOf(Weight, item.items)
    BY WeightIs, SizeIsSum, SizeIsNat
  <2> QED
    BY <2>1, WeightIs
<1>2. 0 \in Good
  <2>1. \A item \in Items : ~(Weight[item] <= 0)
    BY <1>1
  <2> QED
    BY <2>1
<1>3. ASSUME NEW n \in Nat, n \in Good PROVE n + 1 \in Good
  <2> SUFFICES ASSUME NEW item \in Items, Weight[item] <= n + 1 PROVE Within[item] \subseteq Flat
    OBVIOUS
  <2>1. CASE item.kind # "mod"
    BY <2>1, WithinItem DEF Flat
  <2>2. CASE item.kind = "mod"
    <3> DEFINE items == item.items
    <3>1. /\ items \in Seq(Items) /\ SumOf(Weight, items) \in Nat /\ SumOf(Weight, items) <= n
          /\ AreWeights(Weight, Items)
      <4>1. items \in Seq(Items) /\ Weight[item] = 1 + SumOf(Weight, items) /\ AreWeights(Weight, Items)
        BY <1>1, <2>2, SizeIsSum
      <4>2. SumOf(Weight, items) \in Nat
        BY <4>1, SumIsNat
      <4> QED
        BY <4>1, <4>2
    <3>2. \A i \in DOMAIN items : Within[items[i]] \subseteq Flat
      <4> SUFFICES ASSUME NEW i \in DOMAIN items PROVE Within[items[i]] \subseteq Flat
        OBVIOUS
      <4>1. items[i] \in Items /\ items[i] \in ToSet(items)
        BY <3>1, ToSetIs DEF ToSet
      <4>2. Weight[items[i]] <= SumOf(Weight, items) /\ Weight[items[i]] \in Nat
        BY <1>1, <3>1, <4>1, PartOfSum
      <4>3. Weight[items[i]] <= n
        BY <3>1, <4>2
      <4> QED
        BY <1>3, <4>1, <4>3
    <3>3. Within[item] = AllItems(items)
      BY <2>2, WithinItem
    <3> QED
      BY <3>2, <3>3 DEF AllItems
  <2> QED
    BY <2>1, <2>2
<1>4. Nat \subseteq Good
  <2> HIDE DEF Good
  <2> QED
    BY <1>2, <1>3, Induction
<1> SUFFICES ASSUME NEW item \in Items PROVE Within[item] \subseteq Flat
  OBVIOUS
<1>5. Weight[item] \in Good /\ Weight[item] <= Weight[item]
  BY <1>1, <1>4
<1> QED
  BY <1>5

LEMMA AllAreFlat ==
  ASSUME NEW items \in Seq(Items)
  PROVE  AllItems(items) \subseteq Flat
<1>1. \A i \in DOMAIN items : items[i] \in Items
  BY ToSetIs DEF ToSet
<1> QED
  BY <1>1, WithinAreFlat DEF AllItems

-----------------------------------------------------------------------------
(* What use items import *)

LEMMA TreesAre ==
  ASSUME NEW tree \in Trees
  PROVE  /\ tree.kind \in {"Path", "Group", "Name", "Rename", "Glob"} /\ TreeWeight[tree] \in Nat \ {0}
         /\ tree.kind = "Path" => tree.tree \in Trees /\ TreeWeight[tree] = 1 + TreeWeight[tree.tree]
         /\ tree.kind = "Group" => /\ tree.items \in Seq(Trees) /\ SumOf(TreeWeight, tree.items) \in Nat
                                   /\ TreeWeight[tree] = 1 + SumOf(TreeWeight, tree.items)
         /\ AreWeights(TreeWeight, Trees)
<1>1. AreWeights(TreeWeight, Trees)
  BY TreesAssumption DEF TreesAssumption, AreWeights
<1>2. CASE tree.kind = "Path"
  <2>1. tree.tree \in Trees /\ TreeWeight[tree] = 1 + TreeWeight[tree.tree] /\ TreeWeight[tree.tree] \in Nat
    BY <1>2, TreesAssumption DEF TreesAssumption
  <2> QED
    BY <1>1, <1>2, <2>1
<1>3. CASE tree.kind = "Group"
  <2>1. /\ tree.items \in Seq(Trees)
        /\ TreeWeight[tree] = 1 + SumOf(TreeWeight, tree.items)
    BY <1>3, TreesAssumption DEF TreesAssumption, SumOf, WeightsOf
  <2>2. SumOf(TreeWeight, tree.items) \in Nat
    BY <1>1, <2>1, SumIsNat
  <2> QED
    BY <1>1, <1>3, <2>1, <2>2
<1>4. CASE tree.kind \notin {"Path", "Group"}
  <2>1. TreeWeight[tree] = 1 /\ tree.kind \in {"Path", "Group", "Name", "Rename", "Glob"}
    BY <1>4, TreesAssumption DEF TreesAssumption
  <2> QED
    BY <1>1, <1>4, <2>1
<1> QED
  BY <1>2, <1>3, <1>4

(* The stacks the iterator comes to from one, all smaller. *)
IterWeight(iter) == SumOf(TreeWeight, iter.trees)

LEMMA ItersAre ==
  ASSUME NEW trees \in Seq(Trees), NEW base \in Segments
  PROVE  /\ Iter(trees, base) \in Iters /\ Iter(trees, base).trees = trees /\ Iter(trees, base).base = base
         /\ IterWeight(Iter(trees, base)) = SumOf(TreeWeight, trees)
         /\ SumOf(TreeWeight, trees) \in Nat
<1>1. AreWeights(TreeWeight, Trees)
  BY TreesAssumption DEF TreesAssumption, AreWeights
<1>2. SumOf(TreeWeight, trees) \in Nat
  BY <1>1, SumIsNat
<1> QED
  BY <1>2 DEF Iter, Iters, IterWeight

LEMMA NextIters ==
  ASSUME NEW iter \in Iters, iter.trees # <<>>
  PROVE  LET tree == Last(iter.trees)
             rest == Front(iter.trees)
         IN  /\ tree \in Trees /\ rest \in Seq(Trees) /\ iter.base \in Segments
             /\ IterWeight(iter) = SumOf(TreeWeight, rest) + TreeWeight[tree]
             /\ SumOf(TreeWeight, rest) \in Nat /\ SumOf(TreeWeight, rest) < IterWeight(iter)
             /\ tree.kind = "Path" =>
                  /\ Append(rest, tree.tree) \in Seq(Trees) /\ tree.name \in Segments
                  /\ SumOf(TreeWeight, Append(rest, tree.tree)) \in Nat
                  /\ SumOf(TreeWeight, Append(rest, tree.tree)) < IterWeight(iter)
             /\ tree.kind = "Group" =>
                  /\ rest \o tree.items \in Seq(Trees)
                  /\ SumOf(TreeWeight, rest \o tree.items) \in Nat
                  /\ SumOf(TreeWeight, rest \o tree.items) < IterWeight(iter)
<1> DEFINE tree == Last(iter.trees)
           rest == Front(iter.trees)
<1>1. iter.trees \in Seq(Trees) /\ iter.base \in Segments
  BY DEF Iters
<1>2. tree \in Trees /\ rest \in Seq(Trees) /\ iter.trees = Append(rest, tree)
  BY <1>1, FrontAndLast
<1>3. IterWeight(iter) = SumOf(TreeWeight, Append(rest, tree))
  BY <1>2 DEF IterWeight
<1> HIDE DEF tree, rest
<1>4. AreWeights(TreeWeight, Trees)
  BY TreesAssumption DEF TreesAssumption, AreWeights
<1>5. SumOf(TreeWeight, rest) \in Nat /\ SumOf(TreeWeight, Append(rest, tree)) = SumOf(TreeWeight, rest) + TreeWeight[tree]
  BY <1>2, <1>4, SumIsNat, SumOfAppended
<1>6. TreeWeight[tree] \in Nat \ {0}
  BY <1>2, TreesAre
<1>7. ASSUME tree.kind = "Path"
      PROVE  /\ Append(rest, tree.tree) \in Seq(Trees) /\ tree.name \in Segments
             /\ SumOf(TreeWeight, Append(rest, tree.tree)) \in Nat
             /\ SumOf(TreeWeight, Append(rest, tree.tree)) < IterWeight(iter)
  <2>1. tree.tree \in Trees /\ TreeWeight[tree] = 1 + TreeWeight[tree.tree] /\ tree.name \in Segments
    BY <1>2, <1>7, TreesAre DEF Segments
  <2>2. TreeWeight[tree.tree] \in Nat
    BY <2>1, TreesAre
  <2>3. /\ SumOf(TreeWeight, Append(rest, tree.tree)) = SumOf(TreeWeight, rest) + TreeWeight[tree.tree]
        /\ Append(rest, tree.tree) \in Seq(Trees)
    BY <1>2, <1>4, <2>1, SumOfAppended, AppendProperties
  <2> QED
    BY <1>3, <1>5, <2>1, <2>2, <2>3
<1>8. ASSUME tree.kind = "Group"
      PROVE  /\ rest \o tree.items \in Seq(Trees)
             /\ SumOf(TreeWeight, rest \o tree.items) \in Nat
             /\ SumOf(TreeWeight, rest \o tree.items) < IterWeight(iter)
  <2>1. /\ tree.items \in Seq(Trees) /\ SumOf(TreeWeight, tree.items) \in Nat
        /\ TreeWeight[tree] = 1 + SumOf(TreeWeight, tree.items)
    BY <1>2, <1>8, TreesAre
  <2>3. /\ SumOf(TreeWeight, rest \o tree.items) = SumOf(TreeWeight, rest) + SumOf(TreeWeight, tree.items)
        /\ rest \o tree.items \in Seq(Trees)
    BY <1>2, <1>4, <2>1, SumOfBoth, ConcatProperties
  <2> QED
    BY <1>3, <1>5, <2>1, <2>3
<1> QED
  BY <1>1, <1>2, <1>3, <1>5, <1>6, <1>7, <1>8 DEF tree, rest

(* ItemUseIter is the function its definition says it is. *)
IterNames == {"*"} \cup {tree.name : tree \in {t \in Trees : t.kind = "Name"}}
IterImports == {Import(base, name) : base \in Segments, name \in IterNames}
IterStep(iter, f) ==
  IF iter.trees = <<>> THEN {}
  ELSE LET tree == Last(iter.trees)
           rest == Front(iter.trees)
           base == iter.base
       IN  CASE tree.kind = "Path" ->
                  f[Iter(Append(rest, tree.tree), IF base = NoCrate THEN tree.name ELSE base)]
             [] tree.kind = "Group"  -> f[Iter(rest \o tree.items, base)]
             [] tree.kind = "Rename" -> f[Iter(rest, base)]
             [] tree.kind = "Glob"   -> {Import(base, "*")} \cup f[Iter(rest, base)]
             [] tree.kind = "Name"   -> {Import(base, tree.name)} \cup f[Iter(rest, base)]

LEMMA IterStepIs ==
  ASSUME NEW iter \in Iters, NEW f \in [Iters -> SUBSET IterImports]
  PROVE  /\ IterStep(iter, f) \in SUBSET IterImports
         /\ \A g \in [Iters -> SUBSET IterImports] :
              (\A other \in Iters : IterWeight(other) < IterWeight(iter) => f[other] = g[other]) =>
                IterStep(iter, f) = IterStep(iter, g)
<1>1. CASE iter.trees = <<>>
  BY <1>1 DEF IterStep
<1>2. CASE iter.trees # <<>>
  <2> DEFINE tree == Last(iter.trees)
             rest == Front(iter.trees)
             base == iter.base
             first == IF base = NoCrate THEN tree.name ELSE base
  <2>1. /\ tree \in Trees /\ rest \in Seq(Trees) /\ base \in Segments
        /\ tree.kind \in {"Path", "Group", "Name", "Rename", "Glob"}
    BY <1>2, NextIters, TreesAre
  <2>2. Iter(rest, base) \in Iters /\ IterWeight(Iter(rest, base)) < IterWeight(iter)
    <3>1. SumOf(TreeWeight, rest) < IterWeight(iter)
      BY <1>2, NextIters
    <3> QED
      BY <2>1, <3>1, ItersAre
  <2>3. tree.kind = "Path" =>
          /\ Iter(Append(rest, tree.tree), first) \in Iters
          /\ IterWeight(Iter(Append(rest, tree.tree), first)) < IterWeight(iter)
    <3> SUFFICES ASSUME tree.kind = "Path"
                 PROVE  /\ Iter(Append(rest, tree.tree), first) \in Iters
                        /\ IterWeight(Iter(Append(rest, tree.tree), first)) < IterWeight(iter)
      OBVIOUS
    <3>1. /\ SumOf(TreeWeight, Append(rest, tree.tree)) < IterWeight(iter)
          /\ Append(rest, tree.tree) \in Seq(Trees) /\ tree.name \in Segments
      BY <1>2, NextIters
    <3>2. first \in Segments
      BY <2>1, <3>1
    <3> HIDE DEF rest, tree, first
    <3> QED
      BY <3>1, <3>2, ItersAre
  <2>4. tree.kind = "Group" =>
          /\ Iter(rest \o tree.items, base) \in Iters
          /\ IterWeight(Iter(rest \o tree.items, base)) < IterWeight(iter)
    <3> SUFFICES ASSUME tree.kind = "Group"
                 PROVE  /\ Iter(rest \o tree.items, base) \in Iters
                        /\ IterWeight(Iter(rest \o tree.items, base)) < IterWeight(iter)
      OBVIOUS
    <3>1. /\ SumOf(TreeWeight, rest \o tree.items) < IterWeight(iter)
          /\ rest \o tree.items \in Seq(Trees)
      BY <1>2, NextIters
    <3> HIDE DEF rest, tree
    <3> QED
      BY <2>1, <3>1, ItersAre
  <2>5. {Import(base, "*")} \subseteq IterImports /\ (tree.kind = "Name" => {Import(base, tree.name)} \subseteq IterImports)
    <3>1. \A name \in IterNames : Import(base, name) \in IterImports
      <4> HIDE DEF base
      <4> QED
        BY <2>1 DEF IterImports
    <3>2. "*" \in IterNames /\ (tree.kind = "Name" => tree.name \in IterNames)
      <4> HIDE DEF tree
      <4> QED
        BY <2>1 DEF IterNames
    <3> HIDE DEF tree, base
    <3> QED
      BY <3>1, <3>2
  <2>6. \A g : IterStep(iter, g) =
           CASE tree.kind = "Path" -> g[Iter(Append(rest, tree.tree), first)]
             [] tree.kind = "Group"  -> g[Iter(rest \o tree.items, base)]
             [] tree.kind = "Rename" -> g[Iter(rest, base)]
             [] tree.kind = "Glob"   -> {Import(base, "*")} \cup g[Iter(rest, base)]
             [] tree.kind = "Name"   -> {Import(base, tree.name)} \cup g[Iter(rest, base)]
    BY <1>2 DEF IterStep
  <2> HIDE DEF tree, rest, base, first
  <2> QED
    BY <2>1, <2>2, <2>3, <2>4, <2>5, <2>6
<1> QED
  BY <1>1, <1>2

LEMMA ItemUseIterIs ==
  \A iter \in Iters : ItemUseIter[iter] = IterStep(iter, ItemUseIter)
<1> DEFINE V == SUBSET IterImports
           G == [p \in Iters \X [Iters -> V] |-> IterStep(p[1], p[2])]
           m == [iter \in Iters |-> IterWeight(iter)]
           Is(f) == f = [iter \in Iters |-> IterStep(iter, f)]
<1>1. m \in [Iters -> Nat]
  <2> SUFFICES ASSUME NEW iter \in Iters PROVE IterWeight(iter) \in Nat
    OBVIOUS
  <2> QED
    BY ItersAre DEF Iters, IterWeight
<1>2. G \in [Iters \X [Iters -> V] -> V]
  BY IterStepIs
<1>3. DependsOnSmaller(G, m, Iters, V)
  <2> SUFFICES ASSUME NEW iter \in Iters, NEW f \in [Iters -> V], NEW g \in [Iters -> V],
                      \A other \in Iters : m[other] < m[iter] => f[other] = g[other]
               PROVE  G[<<iter, f>>] = G[<<iter, g>>]
    BY DEF DependsOnSmaller
  <2>1. IterStep(iter, f) = IterStep(iter, g)
    BY IterStepIs
  <2> QED
    BY <2>1
<1>5. \E f \in [Iters -> V] : IsRecursive(f, G, Iters)
  <2> DEFINE none == {}
  <2>1. none \in V
    OBVIOUS
  <2> HIDE DEF G, m, V, none
  <2> QED
    BY <1>1, <1>2, <1>3, <2>1, Recursion
<1>51. PICK f \in [Iters -> V] : f = [iter \in Iters |-> G[<<iter, f>>]]
  <2> HIDE DEF G, V
  <2> QED
    BY <1>5 DEF IsRecursive
<1>6. Is(f)
  <2>1. \A iter \in Iters : G[<<iter, f>>] = IterStep(iter, f)
    OBVIOUS
  <2> HIDE DEF G
  <2> QED
    BY <1>51, <2>1
<1>7. ItemUseIter = CHOOSE g : Is(g)
  BY DEF ItemUseIter, IterStep
<1>8. Is(ItemUseIter)
  <2> HIDE DEF Is
  <2> QED
    BY <1>6, <1>7
<1> QED
  BY <1>8

(* And so are the leaves of a use tree. *)
LeafNames == {"", "*"} \cup {tree.name : tree \in {t \in Trees : t.kind = "Name"}}
LeafImports == {Import(base, name) : base \in Segments, name \in LeafNames}
LeavesStep(tree, f) ==
  LET Leaf(name) == Import(NoCrate, name)
  IN  CASE tree.kind = "Path"   -> {[leaf EXCEPT !.base = tree.name] : leaf \in f[tree.tree]}
        [] tree.kind = "Group"  -> IF tree.items = <<>> THEN {Leaf("")}
                                   ELSE UNION {f[tree.items[i]] : i \in DOMAIN tree.items}
        [] tree.kind = "Glob"   -> {Leaf("*")}
        [] tree.kind = "Name"   -> {Leaf(tree.name)}
        [] tree.kind = "Rename" -> {Leaf("")}

LEMMA LeafImportsAre ==
  /\ \A leaf \in LeafImports : leaf = Import(leaf.base, leaf.name) /\ leaf.base \in Segments /\ leaf.name \in LeafNames
  /\ \A base \in Segments : \A name \in LeafNames : Import(base, name) \in LeafImports
  /\ \A leaf \in LeafImports : \A base : [leaf EXCEPT !.base = base] = Import(base, leaf.name)
<1>1. ASSUME NEW leaf \in LeafImports
      PROVE  /\ leaf = Import(leaf.base, leaf.name) /\ leaf.base \in Segments /\ leaf.name \in LeafNames
             /\ \A base : [leaf EXCEPT !.base = base] = Import(base, leaf.name)
  <2>1. PICK base \in Segments, name \in LeafNames : leaf = Import(base, name)
    BY DEF LeafImports
  <2> QED
    BY <2>1 DEF Import
<1> QED
  BY <1>1 DEF LeafImports

LEMMA GroupsAre ==
  ASSUME NEW tree \in Trees, tree.kind = "Group", NEW i \in DOMAIN tree.items
  PROVE  tree.items[i] \in Trees /\ TreeWeight[tree.items[i]] < TreeWeight[tree]
<1>1. /\ tree.items \in Seq(Trees) /\ SumOf(TreeWeight, tree.items) \in Nat
      /\ TreeWeight[tree] = 1 + SumOf(TreeWeight, tree.items) /\ AreWeights(TreeWeight, Trees)
  BY TreesAre
<1>2. tree.items[i] \in ToSet(tree.items) /\ ToSet(tree.items) \subseteq Trees
  BY <1>1, ToSetIs DEF ToSet
<1>3. TreeWeight[tree.items[i]] <= SumOf(TreeWeight, tree.items) /\ TreeWeight[tree.items[i]] \in Nat
  BY <1>1, <1>2, PartOfSum DEF AreWeights
<1> QED
  BY <1>1, <1>2, <1>3

LEMMA LeavesStepIs ==
  ASSUME NEW tree \in Trees, NEW f \in [Trees -> SUBSET LeafImports]
  PROVE  /\ LeavesStep(tree, f) \in SUBSET LeafImports
         /\ \A g \in [Trees -> SUBSET LeafImports] :
              (\A other \in Trees : TreeWeight[other] < TreeWeight[tree] => f[other] = g[other]) =>
                LeavesStep(tree, f) = LeavesStep(tree, g)
<1>1. NoCrate \in Segments /\ "" \in LeafNames /\ "*" \in LeafNames
  BY DEF Segments, LeafNames
<1>2. CASE tree.kind = "Path"
  <2>1. /\ tree.tree \in Trees /\ TreeWeight[tree] = 1 + TreeWeight[tree.tree]
        /\ TreeWeight[tree.tree] < TreeWeight[tree] /\ tree.name \in Segments
    <3>1. tree.tree \in Trees /\ TreeWeight[tree] = 1 + TreeWeight[tree.tree]
      BY <1>2, TreesAre
    <3>2. TreeWeight[tree.tree] \in Nat
      BY <3>1, TreesAre
    <3> QED
      BY <1>2, <3>1, <3>2 DEF Segments
  <2>2. \A g : LeavesStep(tree, g) = {[leaf EXCEPT !.base = tree.name] : leaf \in g[tree.tree]}
    BY <1>2 DEF LeavesStep
  <2>3. LeavesStep(tree, f) \in SUBSET LeafImports
    <3>1. ASSUME NEW leaf \in f[tree.tree] PROVE [leaf EXCEPT !.base = tree.name] \in LeafImports
      <4>1. leaf \in LeafImports
        BY <2>1
      <4>2. PICK base \in Segments, name \in LeafNames : leaf = Import(base, name)
        BY <4>1 DEF LeafImports
      <4>3. [leaf EXCEPT !.base = tree.name] = Import(tree.name, name)
        BY <4>2 DEF Import
      <4>4. Import(tree.name, name) \in LeafImports
        BY <2>1, LeafImportsAre
      <4> QED
        BY <4>3, <4>4
    <3> QED
      BY <2>2, <3>1
  <2> QED
    BY <2>1, <2>2, <2>3
<1>3. CASE tree.kind = "Group"
  <2>1. \A g : LeavesStep(tree, g) = IF tree.items = <<>> THEN {Import(NoCrate, "")}
                                     ELSE UNION {g[tree.items[i]] : i \in DOMAIN tree.items}
    BY <1>3 DEF LeavesStep
  <2>2. \A i \in DOMAIN tree.items : tree.items[i] \in Trees /\ TreeWeight[tree.items[i]] < TreeWeight[tree]
    BY <1>3, GroupsAre
  <2>3. Import(NoCrate, "") \in LeafImports
    BY <1>1, LeafImportsAre
  <2>4. \A i \in DOMAIN tree.items : f[tree.items[i]] \subseteq LeafImports
    BY <2>2
  <2>5. LeavesStep(tree, f) \in SUBSET LeafImports
    <3>1. UNION {f[tree.items[i]] : i \in DOMAIN tree.items} \subseteq LeafImports
      BY <2>4
    <3>2. {Import(NoCrate, "")} \subseteq LeafImports
      BY <2>3
    <3> QED
      BY <2>1, <3>1, <3>2
  <2>6. ASSUME NEW g, \A other \in Trees : TreeWeight[other] < TreeWeight[tree] => f[other] = g[other]
        PROVE  LeavesStep(tree, f) = LeavesStep(tree, g)
    <3>1. \A i \in DOMAIN tree.items : f[tree.items[i]] = g[tree.items[i]]
      BY <2>2, <2>6
    <3>2. {f[tree.items[i]] : i \in DOMAIN tree.items} = {g[tree.items[i]] : i \in DOMAIN tree.items}
      BY <3>1
    <3> QED
      BY <2>1, <3>2
  <2> QED
    BY <2>5, <2>6
<1>4. CASE tree.kind \in {"Glob", "Name", "Rename"}
  <2>1. \A g : LeavesStep(tree, g) = {Import(NoCrate, CASE tree.kind = "Glob" -> "*"
                                                        [] tree.kind = "Name" -> tree.name
                                                        [] tree.kind = "Rename" -> "")}
    BY <1>4 DEF LeavesStep
  <2>2. tree.kind = "Name" => tree.name \in LeafNames
    BY DEF LeafNames
  <2>3. LeavesStep(tree, f) \in SUBSET LeafImports
    <3> DEFINE name == CASE tree.kind = "Glob" -> "*"
                         [] tree.kind = "Name" -> tree.name
                         [] tree.kind = "Rename" -> ""
    <3>1. name \in LeafNames
      BY <1>1, <1>4, <2>2
    <3>2. LeavesStep(tree, f) = {Import(NoCrate, name)}
      BY <2>1
    <3> HIDE DEF name
    <3>3. Import(NoCrate, name) \in LeafImports
      BY <1>1, <3>1, LeafImportsAre
    <3> QED
      BY <3>2, <3>3
  <2> QED
    BY <2>1, <2>3
<1> QED
  BY <1>2, <1>3, <1>4, TreesAre

LEMMA LeavesAre ==
  /\ \A tree \in Trees : Leaves[tree] = LeavesStep(tree, Leaves)
  /\ Leaves \in [Trees -> SUBSET LeafImports]
<1> DEFINE V == SUBSET LeafImports
           G == [p \in Trees \X [Trees -> V] |-> LeavesStep(p[1], p[2])]
           m == [tree \in Trees |-> TreeWeight[tree]]
           Is(f) == f = [tree \in Trees |-> LeavesStep(tree, f)]
           none == {}
<1>1. m \in [Trees -> Nat] /\ none \in V
  BY TreesAre
<1>2. G \in [Trees \X [Trees -> V] -> V]
  BY LeavesStepIs
<1>3. DependsOnSmaller(G, m, Trees, V)
  <2> SUFFICES ASSUME NEW tree \in Trees, NEW f \in [Trees -> V], NEW g \in [Trees -> V],
                      \A other \in Trees : m[other] < m[tree] => f[other] = g[other]
               PROVE  G[<<tree, f>>] = G[<<tree, g>>]
    BY DEF DependsOnSmaller
  <2>1. LeavesStep(tree, f) = LeavesStep(tree, g)
    BY LeavesStepIs
  <2> QED
    BY <2>1
<1>4. \E f \in [Trees -> V] : IsRecursive(f, G, Trees)
  <2> HIDE DEF G, m, V, none
  <2> QED
    BY <1>1, <1>2, <1>3, Recursion
<1>5. PICK f \in [Trees -> V] : f = [tree \in Trees |-> G[<<tree, f>>]]
  <2> HIDE DEF G, V
  <2> QED
    BY <1>4 DEF IsRecursive
<1>6. Is(f)
  <2>1. \A tree \in Trees : G[<<tree, f>>] = LeavesStep(tree, f)
    OBVIOUS
  <2> HIDE DEF G
  <2> QED
    BY <1>5, <2>1
<1>7. Leaves = CHOOSE g : Is(g)
  BY DEF Leaves, LeavesStep
<1>8. Is(Leaves)
  <2> HIDE DEF Is
  <2> QED
    BY <1>6, <1>7
<1>9. \A tree \in Trees : Leaves[tree] = LeavesStep(tree, Leaves)
  BY <1>8
<1>10. Leaves \in [Trees -> SUBSET LeafImports]
  <2> DEFINE Good == {n \in Nat : \A tree \in Trees : TreeWeight[tree] <= n => Leaves[tree] \subseteq LeafImports}
  <2>1. 0 \in Good
    <3>1. \A tree \in Trees : ~(TreeWeight[tree] <= 0)
      BY TreesAre
    <3> QED
      BY <3>1
  <2>2. ASSUME NEW n \in Nat, n \in Good PROVE n + 1 \in Good
    <3> SUFFICES ASSUME NEW tree \in Trees, TreeWeight[tree] <= n + 1 PROVE Leaves[tree] \subseteq LeafImports
      OBVIOUS
    <3> DEFINE g == [t \in Trees |-> IF TreeWeight[t] <= n THEN Leaves[t] ELSE {}]
    <3>1. g \in [Trees -> SUBSET LeafImports]
      BY <2>2
    <3>2. LeavesStep(tree, g) = LeavesStep(tree, Leaves)
      <4>1. \A t \in Trees : TreeWeight[t] < TreeWeight[tree] => g[t] = Leaves[t]
        <5> SUFFICES ASSUME NEW t \in Trees, TreeWeight[t] < TreeWeight[tree] PROVE TreeWeight[t] <= n
          OBVIOUS
        <5>1. TreeWeight[t] \in Nat /\ TreeWeight[tree] \in Nat
          BY TreesAre
        <5> QED
          BY <5>1
      <4> HIDE DEF g
      <4>2. CASE tree.kind = "Path"
        <5>1. tree.tree \in Trees /\ TreeWeight[tree.tree] < TreeWeight[tree]
          <6>1. tree.tree \in Trees /\ TreeWeight[tree] = 1 + TreeWeight[tree.tree]
            BY <4>2, TreesAre
          <6>2. TreeWeight[tree.tree] \in Nat
            BY <6>1, TreesAre
          <6> QED
            BY <6>1, <6>2
        <5>2. g[tree.tree] = Leaves[tree.tree]
          BY <4>1, <5>1
        <5> QED
          BY <4>2, <5>2 DEF LeavesStep
      <4>3. CASE tree.kind = "Group"
        <5>1. \A i \in DOMAIN tree.items : g[tree.items[i]] = Leaves[tree.items[i]]
          BY <4>1, <4>3, GroupsAre
        <5>2. {g[tree.items[i]] : i \in DOMAIN tree.items} = {Leaves[tree.items[i]] : i \in DOMAIN tree.items}
          BY <5>1
        <5>3. \A h : LeavesStep(tree, h) = IF tree.items = <<>> THEN {Import(NoCrate, "")}
                                          ELSE UNION {h[tree.items[i]] : i \in DOMAIN tree.items}
          BY <4>3 DEF LeavesStep
        <5> QED
          BY <5>2, <5>3
      <4>4. CASE tree.kind \in {"Glob", "Name", "Rename"}
        BY <4>4 DEF LeavesStep
      <4> QED
        BY <4>2, <4>3, <4>4, TreesAre
    <3>3. LeavesStep(tree, g) \in SUBSET LeafImports
      <4> HIDE DEF g
      <4> QED
        BY <3>1, LeavesStepIs
    <3> QED
      BY <1>9, <3>2, <3>3
  <2>3. Nat \subseteq Good
    <3> HIDE DEF Good
    <3> QED
      BY <2>1, <2>2, Induction
  <2>4. ASSUME NEW tree \in Trees PROVE Leaves[tree] \subseteq LeafImports
    <3>1. TreeWeight[tree] \in Nat /\ TreeWeight[tree] <= TreeWeight[tree]
      BY TreesAre
    <3> QED
      BY <2>3, <3>1
  <2>5. Leaves = [tree \in Trees |-> Leaves[tree]]
    BY <1>8
  <2> QED
    BY <2>4, <2>5
<1> QED
  BY <1>9, <1>10

(* The leaves of several trees, and their names. *)
LeavesOf(trees) == UNION {Leaves[tree] : tree \in ToSet(trees)}
NamesOfLeaves(leaves) == {leaf.name : leaf \in leaves}

LEMMA NamesOfLeavesAre ==
  ASSUME NEW tree \in Trees
  PROVE  /\ tree.kind = "Path" =>
              /\ NamesOfLeaves(Leaves[tree]) = NamesOfLeaves(Leaves[tree.tree])
              /\ \A leaf \in Leaves[tree] : leaf.base = tree.name
         /\ tree.kind = "Group" =>
              IF tree.items = <<>> THEN Leaves[tree] = {Import(NoCrate, "")}
              ELSE Leaves[tree] = LeavesOf(tree.items)
         /\ tree.kind = "Glob" => Leaves[tree] = {Import(NoCrate, "*")}
         /\ tree.kind = "Name" => Leaves[tree] = {Import(NoCrate, tree.name)}
         /\ tree.kind = "Rename" => Leaves[tree] = {Import(NoCrate, "")}
<1>1. Leaves[tree] = LeavesStep(tree, Leaves)
  BY LeavesAre
<1>2. ASSUME tree.kind = "Path"
      PROVE  /\ NamesOfLeaves(Leaves[tree]) = NamesOfLeaves(Leaves[tree.tree])
             /\ \A leaf \in Leaves[tree] : leaf.base = tree.name
  <2>1. Leaves[tree] = {[leaf EXCEPT !.base = tree.name] : leaf \in Leaves[tree.tree]}
    BY <1>1, <1>2 DEF LeavesStep
  <2>2. Leaves[tree.tree] \subseteq LeafImports
    BY <1>2, TreesAre, LeavesAre
  <2>3. \A leaf \in Leaves[tree.tree] :
          /\ [leaf EXCEPT !.base = tree.name].base = tree.name
          /\ [leaf EXCEPT !.base = tree.name].name = leaf.name
    <3> SUFFICES ASSUME NEW leaf \in Leaves[tree.tree]
                 PROVE  /\ [leaf EXCEPT !.base = tree.name].base = tree.name
                        /\ [leaf EXCEPT !.base = tree.name].name = leaf.name
      OBVIOUS
    <3>1. PICK base \in Segments, name \in LeafNames : leaf = Import(base, name)
      BY <2>2 DEF LeafImports
    <3> QED
      BY <3>1 DEF Import
  <2>4. NamesOfLeaves(Leaves[tree]) = {[leaf EXCEPT !.base = tree.name].name : leaf \in Leaves[tree.tree]}
    BY <2>1 DEF NamesOfLeaves
  <2>5. NamesOfLeaves(Leaves[tree]) = NamesOfLeaves(Leaves[tree.tree])
    BY <2>3, <2>4 DEF NamesOfLeaves
  <2> QED
    BY <2>1, <2>3, <2>5
<1>3. ASSUME tree.kind = "Group", tree.items # <<>> PROVE Leaves[tree] = LeavesOf(tree.items)
  BY <1>1, <1>3 DEF LeavesStep, LeavesOf, ToSet
<1> QED
  BY <1>1, <1>2, <1>3 DEF LeavesStep

(* Every tree has a leaf. *)
LEMMA LeavesExist == \A tree \in Trees : Leaves[tree] # {}
<1> DEFINE Good == {n \in Nat : \A tree \in Trees : TreeWeight[tree] <= n => Leaves[tree] # {}}
<1>1. 0 \in Good
  <2>1. \A tree \in Trees : ~(TreeWeight[tree] <= 0)
    BY TreesAre
  <2> QED
    BY <2>1
<1>2. ASSUME NEW n \in Nat, n \in Good PROVE n + 1 \in Good
  <2> SUFFICES ASSUME NEW tree \in Trees, TreeWeight[tree] <= n + 1 PROVE Leaves[tree] # {}
    OBVIOUS
  <2>1. CASE tree.kind = "Path"
    <3>1. tree.tree \in Trees /\ TreeWeight[tree] = 1 + TreeWeight[tree.tree]
      BY <2>1, TreesAre
    <3>2. TreeWeight[tree.tree] \in Nat
      BY <3>1, TreesAre
    <3>3. Leaves[tree.tree] # {}
      BY <1>2, <3>1, <3>2
    <3>4. NamesOfLeaves(Leaves[tree]) = NamesOfLeaves(Leaves[tree.tree])
      BY <2>1, NamesOfLeavesAre
    <3>5. PICK leaf : leaf \in Leaves[tree.tree]
      BY <3>3
    <3>6. leaf.name \in NamesOfLeaves(Leaves[tree])
      BY <3>4, <3>5 DEF NamesOfLeaves
    <3> QED
      BY <3>6 DEF NamesOfLeaves
  <2>2. CASE tree.kind = "Group" /\ tree.items # <<>>
    <3>1. /\ tree.items \in Seq(Trees) /\ SumOf(TreeWeight, tree.items) \in Nat
          /\ TreeWeight[tree] = 1 + SumOf(TreeWeight, tree.items) /\ AreWeights(TreeWeight, Trees)
      BY <2>2, TreesAre
    <3>2. ToSet(tree.items) \subseteq Trees /\ ToSet(tree.items) # {}
      BY <2>2, <3>1, ToSetIs
    <3>3. PICK t \in ToSet(tree.items) : t \in Trees
      BY <3>2
    <3>4. TreeWeight[t] <= SumOf(TreeWeight, tree.items) /\ TreeWeight[t] \in Nat
      BY <3>1, <3>3, PartOfSum DEF AreWeights
    <3>5. Leaves[t] # {}
      <4>1. TreeWeight[t] <= n
        BY <3>1, <3>4
      <4> QED
        BY <1>2, <3>3, <4>1
    <3>6. Leaves[tree] = LeavesOf(tree.items)
      BY <2>2, NamesOfLeavesAre
    <3>7. Leaves[t] \subseteq LeavesOf(tree.items)
      BY <3>3 DEF LeavesOf
    <3> QED
      BY <3>5, <3>6, <3>7
  <2>3. CASE tree.kind \in {"Glob", "Name", "Rename"} \/ (tree.kind = "Group" /\ tree.items = <<>>)
    BY <2>3, NamesOfLeavesAre
  <2> QED
    BY <2>1, <2>2, <2>3, TreesAre
<1>3. Nat \subseteq Good
  <2> HIDE DEF Good
  <2> QED
    BY <1>1, <1>2, Induction
<1> QED
  <2> SUFFICES ASSUME NEW tree \in Trees PROVE Leaves[tree] # {}
    OBVIOUS
  <2>1. TreeWeight[tree] \in Nat /\ TreeWeight[tree] <= TreeWeight[tree]
    BY TreesAre
  <2> QED
    BY <1>3, <2>1

(* Trees below the base b yield an import for each of their leaves, and what
   is imported under a new name, which goes by "", is not one. *)
Yields(b, names) == {Import(b, name) : name \in names \cup {""}}
IsBase(b, base, trees) ==
  base = b \/ (base = NoCrate /\ \A leaf \in LeavesOf(trees) : leaf.base = b)
YieldsLeaves(b, base, trees) ==
  ItemUseIter[Iter(trees, base)] \cup {Import(b, "")} = Yields(b, NamesOfLeaves(LeavesOf(trees)))

LEMMA LeavesOfAppended ==
  ASSUME NEW trees \in Seq(Trees)
  PROVE  /\ \A tree \in Trees :
              /\ LeavesOf(Append(trees, tree)) = LeavesOf(trees) \cup Leaves[tree]
              /\ NamesOfLeaves(LeavesOf(Append(trees, tree))) =
                   NamesOfLeaves(LeavesOf(trees)) \cup NamesOfLeaves(Leaves[tree])
         /\ \A more \in Seq(Trees) : LeavesOf(trees \o more) = LeavesOf(trees) \cup LeavesOf(more)
<1>1. \A tree \in Trees : ToSet(Append(trees, tree)) = ToSet(trees) \cup {tree}
  BY ToSetOfAppended
<1>2. \A more \in Seq(Trees) : ToSet(trees \o more) = ToSet(trees) \cup ToSet(more)
  BY ToSetOfBoth
<1>3. \A tree \in Trees : LeavesOf(Append(trees, tree)) = LeavesOf(trees) \cup Leaves[tree]
  BY <1>1 DEF LeavesOf
<1>4. \A more \in Seq(Trees) : LeavesOf(trees \o more) = LeavesOf(trees) \cup LeavesOf(more)
  BY <1>2 DEF LeavesOf
<1>5. \A one, other : NamesOfLeaves(one \cup other) = NamesOfLeaves(one) \cup NamesOfLeaves(other)
  BY DEF NamesOfLeaves
<1> QED
  BY <1>3, <1>4, <1>5

LEMMA ItersYieldLeaves ==
  ASSUME NEW b \in Segments, b # NoCrate
  PROVE  \A trees \in Seq(Trees) : \A base \in Segments :
           IsBase(b, base, trees) => YieldsLeaves(b, base, trees)
<1> DEFINE All(n) == \A trees \in Seq(Trees) : \A base \in Segments :
                       SumOf(TreeWeight, trees) < n /\ IsBase(b, base, trees) => YieldsLeaves(b, base, trees)
           Good == {n \in Nat : All(n)}
<1>1. \A trees \in Seq(Trees) : SumOf(TreeWeight, trees) \in Nat
  BY SumIsNat, TreesAssumption DEF TreesAssumption, AreWeights
<1>2. 0 \in Good
  BY <1>1
<1>3. ASSUME NEW n \in Nat, n \in Good PROVE n + 1 \in Good
  <2> SUFFICES ASSUME NEW trees \in Seq(Trees), NEW base \in Segments,
                      SumOf(TreeWeight, trees) < n + 1, IsBase(b, base, trees)
               PROVE  YieldsLeaves(b, base, trees)
    OBVIOUS
  <2>0. All(n)
    BY <1>3
  <2> HIDE DEF All, Good
  <2> DEFINE iter == Iter(trees, base)
  <2>1. iter \in Iters /\ iter.trees = trees /\ iter.base = base /\ IterWeight(iter) = SumOf(TreeWeight, trees)
    BY ItersAre
  <2>2. ItemUseIter[iter] = IterStep(iter, ItemUseIter)
    BY <2>1, ItemUseIterIs
  <2>3. CASE trees = <<>>
    <3>1. LeavesOf(trees) = {}
      BY <2>3, ToSetOfNone DEF LeavesOf
    <3>2. ItemUseIter[iter] = {}
      BY <2>1, <2>2, <2>3 DEF IterStep
    <3> QED
      BY <3>1, <3>2 DEF YieldsLeaves, Yields, NamesOfLeaves
  <2>4. CASE trees # <<>>
    <3> DEFINE tree == Last(trees)
               rest == Front(trees)
               names == NamesOfLeaves(LeavesOf(rest))
    <3>1. tree \in Trees /\ rest \in Seq(Trees) /\ trees = Append(rest, tree)
      BY <2>4, FrontAndLast
    <3>2. /\ SumOf(TreeWeight, rest) < n
          /\ tree.kind = "Path" => /\ Append(rest, tree.tree) \in Seq(Trees) /\ tree.name \in Segments
                                   /\ SumOf(TreeWeight, Append(rest, tree.tree)) < n
          /\ tree.kind = "Group" => /\ rest \o tree.items \in Seq(Trees)
                                    /\ SumOf(TreeWeight, rest \o tree.items) < n
      <4>1. /\ SumOf(TreeWeight, rest) < IterWeight(iter)
            /\ tree.kind = "Path" =>
                  /\ Append(rest, tree.tree) \in Seq(Trees) /\ tree.name \in Segments
                  /\ SumOf(TreeWeight, Append(rest, tree.tree)) \in Nat
                  /\ SumOf(TreeWeight, Append(rest, tree.tree)) < IterWeight(iter)
            /\ tree.kind = "Group" =>
                  /\ rest \o tree.items \in Seq(Trees)
                  /\ SumOf(TreeWeight, rest \o tree.items) \in Nat
                  /\ SumOf(TreeWeight, rest \o tree.items) < IterWeight(iter)
        <5> HIDE DEF iter
        <5> QED
          BY <2>1, <2>4, NextIters
      <4>2. SumOf(TreeWeight, rest) \in Nat /\ SumOf(TreeWeight, trees) \in Nat
        BY <1>1, <3>1
      <4>3. \A k \in Nat : k < SumOf(TreeWeight, trees) => k < n
        BY <4>2
      <4> HIDE DEF iter, tree, rest
      <4> QED
        BY <2>1, <4>1, <4>2, <4>3
    <3>3. /\ LeavesOf(trees) = LeavesOf(rest) \cup Leaves[tree]
          /\ NamesOfLeaves(LeavesOf(trees)) = names \cup NamesOfLeaves(Leaves[tree])
      <4> HIDE DEF tree, rest
      <4> QED
        BY <3>1, LeavesOfAppended
    <3>4. IterStep(iter, ItemUseIter) =
            CASE tree.kind = "Path" ->
                   ItemUseIter[Iter(Append(rest, tree.tree), IF base = NoCrate THEN tree.name ELSE base)]
              [] tree.kind = "Group"  -> ItemUseIter[Iter(rest \o tree.items, base)]
              [] tree.kind = "Rename" -> ItemUseIter[Iter(rest, base)]
              [] tree.kind = "Glob"   -> {Import(base, "*")} \cup ItemUseIter[Iter(rest, base)]
              [] tree.kind = "Name"   -> {Import(base, tree.name)} \cup ItemUseIter[Iter(rest, base)]
      BY <2>1, <2>4 DEF IterStep
    <3> HIDE DEF tree, rest, iter
    <3>5. CASE tree.kind = "Path"
      <4> DEFINE next == Append(rest, tree.tree)
                 first == IF base = NoCrate THEN tree.name ELSE base
      <4>1. first = b
        <5>1. CASE base = b
          BY <5>1
        <5>2. CASE base # b
          <6>1. base = NoCrate /\ \A leaf \in Leaves[tree] : leaf.base = b
            BY <3>3, <5>2 DEF IsBase
          <6>2. \E leaf \in Leaves[tree] : leaf.base = tree.name
            BY <3>1, <3>5, LeavesExist, NamesOfLeavesAre
          <6> QED
            BY <6>1, <6>2
        <5> QED
          BY <5>1, <5>2
      <4>2. ItemUseIter[iter] = ItemUseIter[Iter(next, b)]
        BY <2>2, <3>4, <3>5, <4>1
      <4>3. YieldsLeaves(b, b, next)
        BY <2>0, <3>2, <3>5 DEF All, IsBase
      <4>4. NamesOfLeaves(LeavesOf(next)) = NamesOfLeaves(LeavesOf(trees))
        <5>1. tree.tree \in Trees
          BY <3>1, <3>5, TreesAre
        <5>2. NamesOfLeaves(LeavesOf(next)) = names \cup NamesOfLeaves(Leaves[tree.tree])
          BY <3>1, <5>1, LeavesOfAppended
        <5> QED
          BY <3>1, <3>3, <3>5, <5>2, NamesOfLeavesAre
      <4> HIDE DEF next
      <4> QED
        BY <4>2, <4>3, <4>4 DEF YieldsLeaves, iter
    <3>6. CASE tree.kind = "Group"
      <4> DEFINE next == rest \o tree.items
      <4>0. tree.items \in Seq(Trees) /\ LeavesOf(next) = LeavesOf(rest) \cup LeavesOf(tree.items)
        BY <3>1, <3>6, TreesAre, LeavesOfAppended
      <4>1. ItemUseIter[iter] = ItemUseIter[Iter(next, base)]
        BY <2>2, <3>4, <3>6
      <4>2. CASE tree.items # <<>>
        <5>1. LeavesOf(next) = LeavesOf(trees)
          BY <3>1, <3>3, <3>6, <4>0, <4>2, NamesOfLeavesAre
        <5>2. YieldsLeaves(b, base, next)
          BY <2>0, <3>2, <3>6, <5>1 DEF All, IsBase
        <5> HIDE DEF next
        <5> QED
          BY <4>1, <5>1, <5>2 DEF YieldsLeaves, iter
      <4>3. CASE tree.items = <<>>
        <5>1. Leaves[tree] = {Import(NoCrate, "")}
          BY <3>1, <3>6, <4>3, NamesOfLeavesAre
        <5>2. base = b
          <6>1. Import(NoCrate, "") \in LeavesOf(trees) /\ Import(NoCrate, "").base = NoCrate
            BY <3>3, <5>1 DEF Import
          <6> QED
            BY <6>1 DEF IsBase
        <5>3. LeavesOf(tree.items) = {}
          BY <4>3, ToSetOfNone DEF LeavesOf
        <5>4. YieldsLeaves(b, base, next)
          BY <2>0, <3>2, <3>6, <5>2 DEF All, IsBase
        <5>5. NamesOfLeaves(LeavesOf(next)) = names /\ NamesOfLeaves(Leaves[tree]) = {""}
          <6>1. LeavesOf(next) = LeavesOf(rest)
            <7> HIDE DEF next
            <7> QED
              BY <4>0, <5>3
          <6>2. \A x : NamesOfLeaves({Import(NoCrate, x)}) = {x}
            BY DEF NamesOfLeaves, Import
          <6> HIDE DEF next
          <6> QED
            BY <5>1, <6>1, <6>2
        <5>6. Yields(b, names \cup {""}) = Yields(b, names)
          BY DEF Yields
        <5> HIDE DEF next, names
        <5> QED
          BY <3>3, <4>1, <5>4, <5>5, <5>6 DEF YieldsLeaves, iter
      <4> QED
        BY <4>2, <4>3
    <3>7. CASE tree.kind \in {"Glob", "Name", "Rename"}
      <4> DEFINE name == CASE tree.kind = "Glob" -> "*" [] tree.kind = "Name" -> tree.name
                           [] tree.kind = "Rename" -> ""
      <4>1. Leaves[tree] = {Import(NoCrate, name)}
        BY <3>1, <3>7, NamesOfLeavesAre
      <4>2. base = b
        <5> HIDE DEF name
        <5>1. Import(NoCrate, name) \in LeavesOf(trees) /\ Import(NoCrate, name).base = NoCrate
          BY <3>3, <4>1 DEF Import
        <5> QED
          BY <5>1 DEF IsBase
      <4>3. YieldsLeaves(b, b, rest)
        BY <2>0, <3>1, <3>2, <4>2 DEF All, IsBase
      <4>4. ItemUseIter[iter] \cup {Import(b, "")} =
              ItemUseIter[Iter(rest, b)] \cup {Import(b, "")} \cup {Import(b, name)}
        <5>1. /\ tree.kind = "Glob" => name = "*"
              /\ tree.kind = "Name" => name = tree.name
              /\ tree.kind = "Rename" => name = ""
          OBVIOUS
        <5>2. ItemUseIter[iter] = IF tree.kind = "Rename" THEN ItemUseIter[Iter(rest, b)]
                                  ELSE {Import(b, name)} \cup ItemUseIter[Iter(rest, b)]
          <6> HIDE DEF name
          <6>1. CASE tree.kind = "Glob"
            BY <2>2, <3>4, <4>2, <5>1, <6>1
          <6>2. CASE tree.kind = "Name"
            BY <2>2, <3>4, <4>2, <5>1, <6>2
          <6>3. CASE tree.kind = "Rename"
            BY <2>2, <3>4, <4>2, <5>1, <6>3
          <6> QED
            BY <3>7, <6>1, <6>2, <6>3
        <5> HIDE DEF name
        <5> QED
          BY <5>1, <5>2
      <4>5. NamesOfLeaves(Leaves[tree]) = {name}
        <5> HIDE DEF name
        <5> QED
          BY <4>1 DEF NamesOfLeaves, Import
      <4>6. Yields(b, names \cup {name}) = Yields(b, names) \cup {Import(b, name)}
        <5> HIDE DEF name, names
        <5> QED
          BY DEF Yields
      <4> HIDE DEF name, names
      <4> QED
        BY <3>3, <4>2, <4>3, <4>4, <4>5, <4>6 DEF YieldsLeaves, iter, names
    <3> QED
      BY <3>1, <3>5, <3>6, <3>7, TreesAre
  <2> QED
    BY <2>3, <2>4
<1>4. Nat \subseteq Good
  <2> HIDE DEF Good
  <2> QED
    BY <1>2, <1>3, Induction
<1> QED
  <2> SUFFICES ASSUME NEW trees \in Seq(Trees), NEW base \in Segments, IsBase(b, base, trees)
               PROVE  YieldsLeaves(b, base, trees)
    OBVIOUS
  <2>1. SumOf(TreeWeight, trees) + 1 \in Good /\ SumOf(TreeWeight, trees) < SumOf(TreeWeight, trees) + 1
    BY <1>1, <1>4
  <2> QED
    BY <2>1

(* What the items of a file mean to import, those of use items first. *)
ImportsOfLeaves(leaves, crate) ==
  {imp \in {Import(ResolveCrateName(leaf.base, crate), leaf.name) : leaf \in leaves} :
     /\ AcceptCrate(imp.base)
     /\ imp.name = "*" \/ AcceptType(imp.name)
     /\ imp.name \notin ignoredTypes}
UsesIn(items) == {item \in items : item.kind = "use"}
MeantBy(items, crate) ==
  ImportsOfLeaves(UNION {Leaves[item.tree] : item \in UsesIn(items)}, crate)
    \cup UNION {ImportsOfPaths(item, crate, ignoredTypes) : item \in items \ UsesIn(items)}

LEMMA MeantByFile ==
  ASSUME NEW file
  PROVE  ImportsMeant(file) = MeantBy(ItemsVisited(file), CrateOfFile(file))
BY DEF ImportsMeant, MeantBy, UsesIn, ImportsOfLeaves

LEMMA MeantByBoth ==
  ASSUME NEW crate
  PROVE  /\ MeantBy({}, crate) = {}
         /\ \A one, other : MeantBy(one \cup other, crate) = MeantBy(one, crate) \cup MeantBy(other, crate)
         /\ \A item : MeantBy({item}, crate) =
                       IF item.kind = "use" THEN ImportsOfLeaves(Leaves[item.tree], crate)
                       ELSE ImportsOfPaths(item, crate, ignoredTypes)
<1> DEFINE LeavesIn(items) == UNION {Leaves[item.tree] : item \in UsesIn(items)}
           PathsIn(items) == UNION {ImportsOfPaths(item, crate, ignoredTypes) : item \in items \ UsesIn(items)}
<1>1. \A items : MeantBy(items, crate) = ImportsOfLeaves(LeavesIn(items), crate) \cup PathsIn(items)
  BY DEF MeantBy
<1>2. /\ \A one, other : ImportsOfLeaves(one \cup other, crate) =
                            ImportsOfLeaves(one, crate) \cup ImportsOfLeaves(other, crate)
      /\ ImportsOfLeaves({}, crate) = {}
  BY DEF ImportsOfLeaves
<1>3. \A one, other : /\ LeavesIn(one \cup other) = LeavesIn(one) \cup LeavesIn(other)
                      /\ PathsIn(one \cup other) = PathsIn(one) \cup PathsIn(other)
  BY DEF UsesIn
<1>4. LeavesIn({}) = {} /\ PathsIn({}) = {}
  BY DEF UsesIn
<1>5. ASSUME NEW item
      PROVE  IF item.kind = "use" THEN LeavesIn({item}) = Leaves[item.tree] /\ PathsIn({item}) = {}
             ELSE LeavesIn({item}) = {} /\ PathsIn({item}) = ImportsOfPaths(item, crate, ignoredTypes)
  <2>1. UsesIn({item}) = IF item.kind = "use" THEN {item} ELSE {}
    BY DEF UsesIn
  <2>2. \A set : UNION {Leaves[i.tree] : i \in {set}} = Leaves[set.tree]
    OBVIOUS
  <2>3. {item} \ {item} = {} /\ {item} \ {} = {item}
    OBVIOUS
  <2> QED
    BY <2>1, <2>2, <2>3
<1> HIDE DEF LeavesIn, PathsIn
<1>6. \A one, other : MeantBy(one \cup other, crate) = MeantBy(one, crate) \cup MeantBy(other, crate)
  <2> SUFFICES ASSUME NEW one, NEW other
               PROVE  MeantBy(one \cup other, crate) = MeantBy(one, crate) \cup MeantBy(other, crate)
    OBVIOUS
  <2>1. MeantBy(one \cup other, crate) =
          ImportsOfLeaves(LeavesIn(one \cup other), crate) \cup PathsIn(one \cup other)
    BY <1>1
  <2>2. LeavesIn(one \cup other) = LeavesIn(one) \cup LeavesIn(other)
    BY <1>3
  <2>3. PathsIn(one \cup other) = PathsIn(one) \cup PathsIn(other)
    BY <1>3
  <2>4. ImportsOfLeaves(LeavesIn(one) \cup LeavesIn(other), crate) =
          ImportsOfLeaves(LeavesIn(one), crate) \cup ImportsOfLeaves(LeavesIn(other), crate)
    BY <1>2
  <2>5. MeantBy(one, crate) = ImportsOfLeaves(LeavesIn(one), crate) \cup PathsIn(one)
    BY <1>1
  <2>6. MeantBy(other, crate) = ImportsOfLeaves(LeavesIn(other), crate) \cup PathsIn(other)
    BY <1>1
  <2> QED
    BY <2>1, <2>2, <2>3, <2>4, <2>5, <2>6
<1>7. MeantBy({}, crate) = {}
  <2>1. MeantBy({}, crate) = ImportsOfLeaves(LeavesIn({}), crate) \cup PathsIn({})
    BY <1>1
  <2> QED
    BY <1>2, <1>4, <2>1
<1>8. ASSUME NEW item
      PROVE  MeantBy({item}, crate) =
               IF item.kind = "use" THEN ImportsOfLeaves(Leaves[item.tree], crate)
               ELSE ImportsOfPaths(item, crate, ignoredTypes)
  <2>1. MeantBy({item}, crate) = ImportsOfLeaves(LeavesIn({item}), crate) \cup PathsIn({item})
    BY <1>1
  <2>2. CASE item.kind = "use"
    <3>1. LeavesIn({item}) = Leaves[item.tree] /\ PathsIn({item}) = {}
      BY <1>5, <2>2
    <3> QED
      BY <2>1, <2>2, <3>1
  <2>3. CASE item.kind # "use"
    <3>1. LeavesIn({item}) = {} /\ PathsIn({item}) = ImportsOfPaths(item, crate, ignoredTypes)
      BY <1>5, <2>3
    <3> QED
      BY <1>2, <2>1, <2>3, <3>1
  <2> QED
    BY <2>2, <2>3
<1> QED
  BY <1>6, <1>7, <1>8

LEMMA NoTypeIsAccepted == ~AcceptType("") /\ "" # "*"
BY DEF AcceptType, StartsUppercase

(* The imports of a use item are its leaves if these have one first segment. *)
IsUsualUse(tree) == \A leaf, other \in Leaves[tree] : leaf.base # NoCrate /\ leaf.base = other.base

LEMMA ImportsOfUseAre ==
  ASSUME NEW tree \in Trees, IsUsualUse(tree), NEW crate
  PROVE  {imp \in ImportsOfUse(tree, crate) : imp.name \notin ignoredTypes} = ImportsOfLeaves(Leaves[tree], crate)
<1> DEFINE trees == <<tree>>
           b == (CHOOSE leaf \in Leaves[tree] : TRUE).base
           found == ItemUseIter[Iter(trees, NoCrate)]
           names == NamesOfLeaves(Leaves[tree])
           Accepted(imp) == /\ AcceptCrate(ResolveCrateName(imp.base, crate))
                            /\ imp.name = "*" \/ AcceptType(imp.name)
           Ends(imp) == Import(ResolveCrateName(imp.base, crate), imp.name)
<1>1. trees \in Seq(Trees) /\ LeavesOf(trees) = Leaves[tree]
  <2>1. trees = Append(<<>>, tree) /\ <<>> \in Seq(Trees) /\ trees \in Seq(Trees)
    OBVIOUS
  <2>2. LeavesOf(<<>>) = {}
    BY ToSetOfNone DEF LeavesOf
  <2>3. LeavesOf(Append(<<>>, tree)) = LeavesOf(<<>>) \cup Leaves[tree]
    BY <2>1, LeavesOfAppended
  <2> HIDE DEF trees
  <2> QED
    BY <2>1, <2>2, <2>3
<1>2. \A leaf \in Leaves[tree] : leaf.base = b /\ leaf = Import(b, leaf.name)
  <2>1. \A leaf \in Leaves[tree] : leaf.base = b
    BY DEF IsUsualUse
  <2>2. \A leaf \in Leaves[tree] : leaf = Import(leaf.base, leaf.name)
    BY LeavesAre, LeafImportsAre
  <2> QED
    BY <2>1, <2>2
<1>3. b \in Segments /\ b # NoCrate
  <2>1. PICK leaf : leaf \in Leaves[tree]
    BY LeavesExist
  <2>2. leaf.base = b /\ leaf.base # NoCrate
    BY <1>2, <2>1 DEF IsUsualUse
  <2>3. leaf.base \in Segments
    BY <2>1, LeavesAre, LeafImportsAre
  <2> QED
    BY <2>2, <2>3
<1> HIDE DEF b
<1>4. found \cup {Import(b, "")} = Yields(b, names)
  <2>1. NoCrate \in Segments /\ IsBase(b, NoCrate, trees)
    BY <1>1, <1>2 DEF Segments, IsBase
  <2> HIDE DEF trees
  <2>2. YieldsLeaves(b, NoCrate, trees)
    BY <1>1, <1>3, <2>1, ItersYieldLeaves
  <2> QED
    BY <1>1, <2>2 DEF YieldsLeaves
<1>5. ImportsOfUse(tree, crate) = {Ends(imp) : imp \in {i \in found : i.base = NoCrate \/ Accepted(i)}}
  BY DEF ImportsOfUse
<1> HIDE DEF found, names, trees
<1>6. \A imp \in Yields(b, names) : imp.base = b
  <2>1. \A name : Import(b, name).base = b
    BY DEF Import
  <2> QED
    BY <2>1 DEF Yields
<1>7. {i \in found : i.base = NoCrate \/ Accepted(i)} = {i \in found : Accepted(i)}
  BY <1>3, <1>4, <1>6
<1>8. {i \in found : Accepted(i)} = {leaf \in Leaves[tree] : Accepted(leaf)}
  <2>1. ~Accepted(Import(b, ""))
    BY NoTypeIsAccepted DEF Import
  <2>2. \A i : Accepted(i) => (i \in found <=> i \in Yields(b, names))
    BY <1>4, <2>1
  <2>3. ASSUME NEW i, Accepted(i) PROVE i \in Yields(b, names) <=> i \in Leaves[tree]
    <3>1. CASE i \in Leaves[tree]
      <4>1. i = Import(b, i.name) /\ i.name \in names
        BY <1>2, <3>1 DEF names, NamesOfLeaves
      <4> QED
        BY <3>1, <4>1 DEF Yields
    <3>2. CASE i \in Yields(b, names)
      <4>1. PICK name \in names \cup {""} : i = Import(b, name)
        BY <3>2 DEF Yields
      <4>2. name # ""
        BY <2>1, <2>3, <4>1
      <4>3. PICK leaf \in Leaves[tree] : name = leaf.name
        BY <4>1, <4>2 DEF names, NamesOfLeaves
      <4>4. leaf = i
        BY <1>2, <4>1, <4>3
      <4> QED
        BY <3>2, <4>4
    <3> QED
      BY <3>1, <3>2
  <2> HIDE DEF Accepted
  <2> QED
    BY <2>2, <2>3
<1>9. ImportsOfUse(tree, crate) = {Ends(imp) : imp \in {leaf \in Leaves[tree] : Accepted(leaf)}}
  BY <1>5, <1>7, <1>8
<1>10. \A leaf : Ends(leaf).base = ResolveCrateName(leaf.base, crate) /\ Ends(leaf).name = leaf.name
  BY DEF Import
<1>11. ImportsOfLeaves(Leaves[tree], crate) =
         {imp \in {Ends(leaf) : leaf \in Leaves[tree]} :
            /\ AcceptCrate(imp.base)
            /\ imp.name = "*" \/ AcceptType(imp.name)
            /\ imp.name \notin ignoredTypes}
  BY DEF ImportsOfLeaves
<1> HIDE DEF Ends
<1> QED
  BY <1>9, <1>10, <1>11

-----------------------------------------------------------------------------
(* The imports of the current file are those of what has been visited of it,
   and with what is still to be visited they are all it means to import. *)
ImportsInv ==
  phase = "parsing" /\ multiFile /\ data # NoData =>
    \E file \in Sources \ waiting :
      /\ CrateOfFile(file) = data.crate
      /\ HasUsualUses(file) =>
           /\ AllItems(todo) \subseteq ItemsVisited(file)
           /\ data.imports \cup MeantBy(AllItems(todo), data.crate) = ImportsMeant(file)
UsesInv == DataInv /\ ImportsInv

(* An item is visited: its imports are added. *)
LEMMA VisitImports ==
  ASSUME UsesInv, UNCHANGED <<contextVars, waiting>>, phase = "parsing",
         todo # <<>>, Head(todo).kind # "mod", todo' = Tail(todo), NEW imports,
         data' = [data EXCEPT !.imports = data.imports \cup imports, !.items = data'.items, !.errors = data'.errors],
         \A file \in Sources :
           multiFile /\ HasUsualUses(file) /\ Head(todo) \in ItemsVisited(file) =>
             imports = MeantBy({Head(todo)}, data.crate)
  PROVE  ImportsInv'
<1> SUFFICES ASSUME multiFile PROVE ImportsInv'
  BY DEF ImportsInv, contextVars
<1>1. UNCHANGED <<world, multiFile, targetOs, ignoredTypes, waiting>>
  BY DEF contextVars
<1>2. /\ Sources' = Sources
      /\ \A file : /\ CrateOfFile(file)' = CrateOfFile(file) /\ ItemsVisited(file)' = ItemsVisited(file)
                   /\ HasUsualUses(file)' = HasUsualUses(file) /\ ImportsMeant(file)' = ImportsMeant(file)
      /\ \A items, crate : MeantBy(items, crate)' = MeantBy(items, crate)
  BY <1>1 DEF Sources, CrateOfFile, ItemsVisited, HasUsualUses, ImportsMeant, MeantBy, ImportsOfLeaves
<1>3. /\ DOMAIN data = DOMAIN NoData /\ todo \in Seq(Items) /\ data # NoData
  BY DEF UsesInv, DataInv, IsParsedData
<1>4. data'.imports = data.imports \cup imports /\ data'.crate = data.crate
  BY <1>3 DEF NoData
<1>5. AllItems(todo) = {Head(todo)} \cup AllItems(todo')
  <2>1. Head(todo) \in Items
    BY <1>3, HeadTailProperties
  <2>2. Within[Head(todo)] = {Head(todo)}
    BY <2>1, WithinItem
  <2> QED
    BY <1>3, <2>2, AllItemsOfHead
<1>6. PICK file \in Sources \ waiting :
        /\ CrateOfFile(file) = data.crate
        /\ HasUsualUses(file) =>
             /\ AllItems(todo) \subseteq ItemsVisited(file)
             /\ data.imports \cup MeantBy(AllItems(todo), data.crate) = ImportsMeant(file)
  BY <1>1, <1>3 DEF UsesInv, ImportsInv
<1>7. ASSUME HasUsualUses(file)
      PROVE  /\ AllItems(todo') \subseteq ItemsVisited(file)
             /\ data'.imports \cup MeantBy(AllItems(todo'), data.crate) = ImportsMeant(file)
  <2>1. imports = MeantBy({Head(todo)}, data.crate)
    BY <1>1, <1>5, <1>6, <1>7
  <2>2. MeantBy({Head(todo)} \cup AllItems(todo'), data.crate) =
          MeantBy({Head(todo)}, data.crate) \cup MeantBy(AllItems(todo'), data.crate)
    BY MeantByBoth
  <2> QED
    BY <1>4, <1>5, <1>6, <1>7, <2>1, <2>2
<1>8. file \in Sources' \ waiting'
  BY <1>1, <1>2, <1>6
<1> QED
  BY <1>1, <1>2, <1>4, <1>6, <1>7, <1>8 DEF ImportsInv

LEMMA WalkImports ==
  ASSUME UsesInv, WalkFiles, phase' = "parsing"
  PROVE  ImportsInv'
<1>1. /\ phase = "parsing" /\ UNCHANGED contextVars
      /\ UNCHANGED <<world, multiFile, targetOs, ignoredTypes>>
  BY DEF WalkFiles, Walk, PassOver, FailToParse, VisitFile, Walking, VisitItem, VisitItemUse, LoseWalker,
         VisitItemMod, Visiting, EndVisit, contextVars
<1>2. /\ Sources' = Sources
      /\ \A file : /\ CrateOfFile(file)' = CrateOfFile(file) /\ ItemsVisited(file)' = ItemsVisited(file)
                   /\ HasUsualUses(file)' = HasUsualUses(file) /\ ImportsMeant(file)' = ImportsMeant(file)
      /\ \A items, crate : MeantBy(items, crate)' = MeantBy(items, crate)
  BY <1>1 DEF Sources, CrateOfFile, ItemsVisited, HasUsualUses, ImportsMeant, MeantBy, ImportsOfLeaves
<1>3. CASE \E file \in waiting : PassOver(file) \/ FailToParse(file)
  BY <1>1, <1>3 DEF PassOver, FailToParse, Walking, ImportsInv
<1>4. ASSUME NEW file \in waiting, VisitFile(file) PROVE ImportsInv'
  <2>1. /\ CrateOfFile(file) # NoCrate /\ file.marked /\ file \in world.files
        /\ waiting' = waiting \ {file} /\ data' = [NoData EXCEPT !.crate = CrateOfFile(file)]
        /\ todo' = IF AcceptTargetOs(file.attrs, targetOs) THEN file.items ELSE <<>>
    BY <1>4 DEF VisitFile, UsesInv, DataInv
  <2>2. file \in Sources' \ waiting'
    BY <1>2, <2>1 DEF Sources
  <2>3. data'.crate = CrateOfFile(file) /\ data'.imports = {}
    BY <2>1 DEF NoData
  <2>4. AllItems(todo') = ItemsVisited(file)
    BY <2>1, NoItems DEF ItemsVisited
  <2>5. MeantBy(AllItems(todo'), data'.crate) = ImportsMeant(file)
    BY <2>3, <2>4, MeantByFile
  <2> QED
    BY <1>2, <2>2, <2>3, <2>4, <2>5 DEF ImportsInv
<1>5. CASE VisitItem
  <2> DEFINE head == Head(todo)
             imports == IF multiFile THEN ImportsOfPaths(head, data.crate, ignoredTypes) ELSE {}
  <2>1. /\ todo # <<>> /\ head.kind \notin {"mod", "use"} /\ todo' = Tail(todo) /\ waiting' = waiting
        /\ DOMAIN data = DOMAIN NoData
    BY <1>5 DEF VisitItem, Visiting, UsesInv, DataInv, IsParsedData
  <2>2. data' = [data EXCEPT !.imports = data.imports \cup imports, !.items = data'.items, !.errors = data'.errors]
    <3>1. PICK items, errors : data' = [data EXCEPT !.imports = data.imports \cup imports, !.items = items, !.errors = errors]
      BY <1>5 DEF VisitItem
    <3>2. data'.items = items /\ data'.errors = errors
      BY <2>1, <3>1 DEF NoData
    <3> HIDE DEF imports
    <3> QED
      BY <3>1, <3>2
  <2>3. multiFile => imports = MeantBy({head}, data.crate)
    BY <2>1, MeantByBoth
  <2> HIDE DEF imports
  <2> QED
    BY <1>1, <2>1, <2>2, <2>3, VisitImports
<1>6. CASE VisitItemUse
  <2> DEFINE head == Head(todo)
             all == IF multiFile THEN ImportsOfUse(head.tree, data.crate) ELSE {}
             imports == {imp \in all : imp.name \notin ignoredTypes}
  <2>1. /\ todo # <<>> /\ head.kind = "use" /\ todo' = Tail(todo) /\ waiting' = waiting
        /\ DOMAIN data = DOMAIN NoData /\ data' = [data EXCEPT !.imports = @ \cup imports]
        /\ todo \in Seq(Items)
    BY <1>6 DEF VisitItemUse, Visiting, UsesInv, DataInv, IsParsedData
  <2>2. data' = [data EXCEPT !.imports = data.imports \cup imports, !.items = data'.items, !.errors = data'.errors]
    <3>1. data'.items = data.items /\ data'.errors = data.errors
      BY <2>1 DEF NoData
    <3> HIDE DEF imports
    <3> QED
      BY <2>1, <3>1 DEF NoData
  <2>3. ASSUME NEW file \in Sources, multiFile, HasUsualUses(file), head \in ItemsVisited(file)
        PROVE  imports = MeantBy({head}, data.crate)
    <3>1. head \in Items /\ head.tree \in Trees
      BY <2>1, HeadTailProperties, SyntaxAssumption DEF SyntaxAssumption
    <3>2. IsUsualUse(head.tree)
      BY <2>1, <2>3 DEF HasUsualUses, IsUsualUse
    <3>3. imports = ImportsOfLeaves(Leaves[head.tree], data.crate)
      BY <2>3, <3>1, <3>2, ImportsOfUseAre
    <3>4. MeantBy({head}, data.crate) = ImportsOfLeaves(Leaves[head.tree], data.crate)
      BY <2>1, MeantByBoth
    <3> HIDE DEF imports
    <3> QED
      BY <3>3, <3>4
  <2> HIDE DEF imports
  <2> QED
    BY <1>1, <2>1, <2>2, <2>3, VisitImports
<1>7. CASE VisitItemMod
  <2>1. /\ todo # <<>> /\ Head(todo).kind = "mod" /\ todo' = Head(todo).items \o Tail(todo)
        /\ UNCHANGED <<phase, waiting, data>> /\ todo \in Seq(Items)
    BY <1>7 DEF VisitItemMod, Visiting, UsesInv, DataInv
  <2>2. AllItems(todo') = AllItems(todo)
    BY <2>1, AllItemsOfModule
  <2> QED
    BY <1>1, <1>2, <2>1, <2>2 DEF UsesInv, ImportsInv
<1>8. CASE EndVisit
  BY <1>8 DEF EndVisit, ImportsInv
<1> QED
  BY <1>3, <1>4, <1>5, <1>6, <1>7, <1>8 DEF WalkFiles, Walk

LEMMA UsesStep ==
  ASSUME UsesInv, [Next]_vars
  PROVE  UsesInv'
<1>1. DataInv'
  BY DataStep DEF UsesInv
<1>2. CASE phase' # "parsing"
  BY <1>1, <1>2 DEF UsesInv, ImportsInv
<1>3. CASE GenerateTypes
  <2>1. data' = NoData
    BY <1>3 DEF GenerateTypes, UsesInv, DataInv, parseVars
  <2> QED
    BY <1>1, <2>1 DEF UsesInv, ImportsInv
<1>4. CASE WalkFiles
  BY <1>1, <1>2, <1>4, WalkImports DEF UsesInv
<1>5. CASE GenerateConfig \/ Reconcile \/ CheckParseErrors \/ WriteNextItem \/ EndModule \/ Finish
           \/ RunAgain \/ \E crate \in DOMAIN crates : BeginModule(crate)
  <2>1. phase' # "parsing"
    BY <1>5 DEF GenerateConfig, StoreConfig, Reconcile, CheckParseErrors, WriteNextItem, EndModule,
                Finish, RunAgain, BeginModule, AddText
  <2> QED
    BY <1>2, <2>1
<1>6. CASE UNCHANGED vars
  <2>1. UNCHANGED <<world, multiFile, targetOs, ignoredTypes, phase, waiting, todo, data>>
    BY <1>6 DEF vars, parseVars, contextVars
  <2>2. /\ Sources' = Sources
        /\ \A file : /\ CrateOfFile(file)' = CrateOfFile(file) /\ ItemsVisited(file)' = ItemsVisited(file)
                     /\ HasUsualUses(file)' = HasUsualUses(file) /\ ImportsMeant(file)' = ImportsMeant(file)
        /\ \A items, crate : MeantBy(items, crate)' = MeantBy(items, crate)
    BY <2>1 DEF Sources, CrateOfFile, ItemsVisited, HasUsualUses, ImportsMeant, MeantBy, ImportsOfLeaves
  <2> QED
    BY <1>1, <2>1, <2>2 DEF UsesInv, ImportsInv
<1> QED
  BY <1>3, <1>4, <1>5, <1>6 DEF Next, Stopped

(* Whatever use trees, modules and paths a file has: once all of it has been
   visited, its imports are those it declares, if each use item names one
   first segment. *)
THEOREM ImportsAreFound == Spec => []UseImports
<1>1. Init => UsesInv
  <2> SUFFICES ASSUME Init PROVE UsesInv
    OBVIOUS
  <2> QED
    BY DataInitially DEF UsesInv, ImportsInv, Init
<1>2. UsesInv /\ [Next]_vars => UsesInv'
  BY UsesStep
<1>3. UsesInv => UseImports
  <2> SUFFICES ASSUME UsesInv, phase = "parsing", multiFile, data # NoData, todo = <<>>
               PROVE  \E file \in Sources \ waiting :
                        /\ CrateOfFile(file) = data.crate
                        /\ HasUsualUses(file) => data.imports = ImportsMeant(file)
    BY DEF UseImports
  <2>1. MeantBy(AllItems(todo), data.crate) = {}
    BY NoItems, MeantByBoth
  <2> QED
    BY <2>1 DEF UsesInv, ImportsInv
<1> QED
  BY <1>1, <1>2, <1>3, PTL DEF Spec

-----------------------------------------------------------------------------
(* The filter of target systems *)

LEMMA MetasAre ==
  ASSUME NEW meta \in Metas
  PROVE  /\ MetaWeight[meta] \in Nat \ {0} /\ AreWeights(MetaWeight, Metas)
         /\ meta.kind = "List" =>
              /\ meta.nested \in Seq(Metas) /\ SumOf(MetaWeight, meta.nested) \in Nat
              /\ MetaWeight[meta] = 1 + SumOf(MetaWeight, meta.nested)
<1>1. AreWeights(MetaWeight, Metas)
  BY MetasAssumption DEF MetasAssumption, AreWeights
<1>2. CASE meta.kind = "List"
  <2>1. meta.nested \in Seq(Metas) /\ MetaWeight[meta] = 1 + SumOf(MetaWeight, meta.nested)
    BY <1>2, MetasAssumption DEF MetasAssumption, SumOf, WeightsOf
  <2>2. SumOf(MetaWeight, meta.nested) \in Nat
    BY <1>1, <2>1, SumIsNat
  <2> QED
    BY <1>1, <1>2, <2>1, <2>2
<1>3. CASE meta.kind # "List"
  <2>1. MetaWeight[meta] = 1
    BY <1>3, MetasAssumption DEF MetasAssumption
  <2> QED
    BY <1>1, <1>3, <2>1
<1> QED
  BY <1>2, <1>3

LEMMA NestedAre ==
  ASSUME NEW meta \in Metas, meta.kind = "List", NEW i \in DOMAIN meta.nested
  PROVE  meta.nested[i] \in Metas /\ MetaWeight[meta.nested[i]] < MetaWeight[meta]
<1>1. /\ meta.nested \in Seq(Metas) /\ SumOf(MetaWeight, meta.nested) \in Nat
      /\ MetaWeight[meta] = 1 + SumOf(MetaWeight, meta.nested) /\ AreWeights(MetaWeight, Metas)
  BY MetasAre
<1>2. meta.nested[i] \in ToSet(meta.nested) /\ ToSet(meta.nested) \subseteq Metas
  BY <1>1, ToSetIs DEF ToSet
<1>3. MetaWeight[meta.nested[i]] <= SumOf(MetaWeight, meta.nested) /\ MetaWeight[meta.nested[i]] \in Nat
  BY <1>1, <1>2, PartOfSum DEF AreWeights
<1> QED
  BY <1>1, <1>2, <1>3

(* The entries of a stack of the iterator, and their weights. *)
Scopes == {"Accept", "Reject"}
Entries == [scope : Scopes, meta : Metas]
EntryWeight == [entry \in Entries |-> MetaWeight[entry.meta]]
ScopedAll(scope, metas) == [i \in DOMAIN metas |-> Scoped(scope, metas[i])]

LEMMA EntriesAre ==
  /\ Stacks = Seq(Entries) /\ AreWeights(EntryWeight, Entries)
  /\ \A scope \in Scopes : \A meta \in Metas :
       /\ Scoped(scope, meta) \in Entries /\ EntryWeight[Scoped(scope, meta)] = MetaWeight[meta]
       /\ Scoped(scope, meta).scope = scope /\ Scoped(scope, meta).meta = meta
<1>1. Stacks = Seq(Entries)
  BY DEF Stacks, Entries, Scopes
<1>2. AreWeights(EntryWeight, Entries)
  <2>1. \A entry \in Entries : entry.meta \in Metas
    BY DEF Entries
  <2>2. \A meta \in Metas : MetaWeight[meta] \in Nat
    BY MetasAre
  <2> QED
    BY <2>1, <2>2 DEF AreWeights, EntryWeight
<1>3. ASSUME NEW scope \in Scopes, NEW meta \in Metas
      PROVE  /\ Scoped(scope, meta) \in Entries /\ EntryWeight[Scoped(scope, meta)] = MetaWeight[meta]
             /\ Scoped(scope, meta).scope = scope /\ Scoped(scope, meta).meta = meta
  <2>1. Scoped(scope, meta) \in Entries
    BY DEF Scoped, Entries
  <2>2. Scoped(scope, meta).scope = scope /\ Scoped(scope, meta).meta = meta
    BY DEF Scoped
  <2> QED
    BY <2>1, <2>2 DEF EntryWeight
<1> QED
  BY <1>1, <1>2, <1>3

LEMMA ScopedAllAre ==
  ASSUME NEW scope \in Scopes, NEW metas \in Seq(Metas)
  PROVE  /\ ScopedAll(scope, metas) \in Seq(Entries) /\ Len(ScopedAll(scope, metas)) = Len(metas)
         /\ \A i \in 1..Len(metas) : ScopedAll(scope, metas)[i] = Scoped(scope, metas[i])
         /\ SumOf(EntryWeight, ScopedAll(scope, metas)) = SumOf(MetaWeight, metas)
<1> DEFINE all == ScopedAll(scope, metas)
<1>1. DOMAIN metas = 1..Len(metas) /\ Len(metas) \in Nat /\ \A i \in 1..Len(metas) : metas[i] \in Metas
  BY LenProperties, ElementOfSeq
<1>2. all \in [1..Len(metas) -> Entries]
  BY <1>1, EntriesAre DEF ScopedAll
<1>3. all \in Seq(Entries)
  <2> HIDE DEF all
  <2> QED
    BY <1>1, <1>2
<1>4. Len(all) = Len(metas)
  <2> HIDE DEF all
  <2> QED
    BY <1>1, <1>2, <1>3, LenProperties
<1>5. \A i \in 1..Len(metas) : all[i] = Scoped(scope, metas[i])
  BY <1>1 DEF ScopedAll
<1>6. DOMAIN all = DOMAIN metas
  BY DEF ScopedAll
<1> HIDE DEF all
<1>7. \A i \in DOMAIN metas : EntryWeight[all[i]] = MetaWeight[metas[i]]
  BY <1>1, <1>5, EntriesAre
<1>8. WeightsOf(EntryWeight, all) = WeightsOf(MetaWeight, metas)
  BY <1>6, <1>7 DEF WeightsOf
<1> QED
  BY <1>3, <1>4, <1>5, <1>8 DEF all, SumOf

LEMMA NextStacks ==
  ASSUME NEW stack \in Stacks, stack # <<>>
  PROVE  LET meta == Last(stack).meta
             rest == Front(stack)
             scope == IF meta.name = "not" THEN "Reject" ELSE Last(stack).scope
         IN  /\ meta \in Metas /\ rest \in Stacks /\ scope \in Scopes /\ stack = Append(rest, Last(stack))
             /\ Last(stack) \in Entries
             /\ SumOf(EntryWeight, rest) < SumOf(EntryWeight, stack)
             /\ meta.kind = "List" =>
                  /\ rest \o ScopedAll(scope, meta.nested) \in Stacks
                  /\ SumOf(EntryWeight, rest \o ScopedAll(scope, meta.nested)) < SumOf(EntryWeight, stack)
<1> DEFINE last == Last(stack)
           meta == last.meta
           rest == Front(stack)
           scope == IF meta.name = "not" THEN "Reject" ELSE last.scope
<1>1. stack \in Seq(Entries) /\ AreWeights(EntryWeight, Entries)
  BY EntriesAre
<1>2. last \in Entries /\ rest \in Seq(Entries) /\ stack = Append(rest, last)
  BY <1>1, FrontAndLast
<1> HIDE DEF last, rest
<1>3. meta \in Metas /\ scope \in Scopes
  BY <1>2 DEF Entries, Scopes
<1>4. /\ SumOf(EntryWeight, stack) = SumOf(EntryWeight, rest) + MetaWeight[meta]
      /\ SumOf(EntryWeight, rest) \in Nat
  <2>1. SumOf(EntryWeight, stack) = SumOf(EntryWeight, rest) + EntryWeight[last]
    BY <1>1, <1>2, SumOfAppended
  <2> QED
    BY <1>1, <1>2, <2>1, SumIsNat DEF EntryWeight
<1>5. MetaWeight[meta] \in Nat \ {0}
  BY <1>3, MetasAre
<1>6. ASSUME meta.kind = "List"
      PROVE  /\ rest \o ScopedAll(scope, meta.nested) \in Seq(Entries)
             /\ SumOf(EntryWeight, rest \o ScopedAll(scope, meta.nested)) < SumOf(EntryWeight, stack)
  <2> DEFINE more == ScopedAll(scope, meta.nested)
  <2> HIDE DEF scope, meta
  <2>1. /\ meta.nested \in Seq(Metas) /\ SumOf(MetaWeight, meta.nested) \in Nat
        /\ MetaWeight[meta] = 1 + SumOf(MetaWeight, meta.nested)
    BY <1>3, <1>6, MetasAre
  <2>2. more \in Seq(Entries) /\ SumOf(EntryWeight, more) = SumOf(MetaWeight, meta.nested)
    BY <1>3, <2>1, ScopedAllAre
  <2> HIDE DEF more
  <2>3. SumOf(EntryWeight, rest \o more) = SumOf(EntryWeight, rest) + SumOf(EntryWeight, more)
    BY <1>1, <1>2, <2>2, SumOfBoth
  <2>4. rest \o more \in Seq(Entries)
    BY <1>2, <2>2, ConcatProperties
  <2> QED
    BY <1>4, <2>1, <2>2, <2>3, <2>4 DEF more
<1>7. SumOf(EntryWeight, rest) < SumOf(EntryWeight, stack)
  BY <1>4, <1>5
<1>8. Stacks = Seq(Entries)
  BY EntriesAre
<1> QED
  BY <1>2, <1>3, <1>6, <1>7, <1>8 DEF last, rest

(* TargetOsIterator is the function its definition says it is. *)
Systems == {meta.value : meta \in {m \in Metas : m.kind = "NameValue"}}
FoundSystems == [scope : Scopes, os : Systems]
OsStep(stack, f) ==
  IF stack = <<>> THEN {}
  ELSE LET meta  == Last(stack).meta
           rest  == Front(stack)
           scope == IF meta.name = "not" THEN "Reject" ELSE Last(stack).scope
       IN  CASE meta.kind = "NameValue" ->
                  f[rest] \cup
                    IF meta.name = "target_os" THEN {[scope |-> scope, os |-> meta.value]} ELSE {}
             [] meta.kind = "List" ->
                  IF ~Parses(meta) THEN {} ELSE f[rest \o ScopedAll(scope, meta.nested)]
             [] OTHER -> f[rest]

LEMMA OsStepIs ==
  ASSUME NEW stack \in Stacks, NEW f \in [Stacks -> SUBSET FoundSystems]
  PROVE  /\ OsStep(stack, f) \in SUBSET FoundSystems
         /\ \A g \in [Stacks -> SUBSET FoundSystems] :
              (\A other \in Stacks : SumOf(EntryWeight, other) < SumOf(EntryWeight, stack) => f[other] = g[other]) =>
                OsStep(stack, f) = OsStep(stack, g)
<1>1. CASE stack = <<>>
  BY <1>1 DEF OsStep
<1>2. CASE stack # <<>>
  <2> DEFINE meta == Last(stack).meta
             rest == Front(stack)
             scope == IF meta.name = "not" THEN "Reject" ELSE Last(stack).scope
             next == rest \o ScopedAll(scope, meta.nested)
             found == [scope |-> scope, os |-> meta.value]
  <2>1. /\ meta \in Metas /\ rest \in Stacks /\ scope \in Scopes
        /\ SumOf(EntryWeight, rest) < SumOf(EntryWeight, stack)
        /\ meta.kind = "List" => next \in Stacks /\ SumOf(EntryWeight, next) < SumOf(EntryWeight, stack)
    BY <1>2, NextStacks
  <2>2. \A g : OsStep(stack, g) =
           CASE meta.kind = "NameValue" -> g[rest] \cup IF meta.name = "target_os" THEN {found} ELSE {}
             [] meta.kind = "List" -> IF ~Parses(meta) THEN {} ELSE g[next]
             [] OTHER -> g[rest]
    BY <1>2 DEF OsStep
  <2>3. meta.kind = "NameValue" => found \in FoundSystems
    <3> HIDE DEF meta, scope
    <3> QED
      BY <2>1 DEF FoundSystems, Systems
  <2> HIDE DEF meta, rest, scope, next, found
  <2>4. CASE meta.kind = "NameValue"
    BY <2>1, <2>2, <2>3, <2>4
  <2>5. CASE meta.kind = "List"
    BY <2>1, <2>2, <2>5
  <2>6. CASE meta.kind \notin {"NameValue", "List"}
    BY <2>1, <2>2, <2>6
  <2> QED
    BY <2>4, <2>5, <2>6
<1> QED
  BY <1>1, <1>2

LEMMA TargetOsIteratorIs ==
  \A stack \in Stacks : TargetOsIterator[stack] = OsStep(stack, TargetOsIterator)
<1> DEFINE V == SUBSET FoundSystems
           G == [p \in Stacks \X [Stacks -> V] |-> OsStep(p[1], p[2])]
           m == [stack \in Stacks |-> SumOf(EntryWeight, stack)]
           Is(f) == f = [stack \in Stacks |-> OsStep(stack, f)]
           none == {}
<1>1. m \in [Stacks -> Nat] /\ none \in V
  <2>1. \A stack \in Stacks : SumOf(EntryWeight, stack) \in Nat
    BY EntriesAre, SumIsNat
  <2> QED
    BY <2>1
<1>2. G \in [Stacks \X [Stacks -> V] -> V]
  BY OsStepIs
<1>3. DependsOnSmaller(G, m, Stacks, V)
  <2> SUFFICES ASSUME NEW stack \in Stacks, NEW f \in [Stacks -> V], NEW g \in [Stacks -> V],
                      \A other \in Stacks : m[other] < m[stack] => f[other] = g[other]
               PROVE  G[<<stack, f>>] = G[<<stack, g>>]
    BY DEF DependsOnSmaller
  <2>1. OsStep(stack, f) = OsStep(stack, g)
    BY OsStepIs
  <2> QED
    BY <2>1
<1>4. \E f \in [Stacks -> V] : IsRecursive(f, G, Stacks)
  <2> HIDE DEF G, m, V, none
  <2> QED
    BY <1>1, <1>2, <1>3, Recursion
<1>5. PICK f \in [Stacks -> V] : f = [stack \in Stacks |-> G[<<stack, f>>]]
  <2> HIDE DEF G, V
  <2> QED
    BY <1>4 DEF IsRecursive
<1>6. Is(f)
  <2>1. \A stack \in Stacks : G[<<stack, f>>] = OsStep(stack, f)
    OBVIOUS
  <2> HIDE DEF G
  <2> QED
    BY <1>5, <2>1
<1>7. TargetOsIterator = CHOOSE g : Is(g)
  BY DEF TargetOsIterator, OsStep, ScopedAll
<1>8. Is(TargetOsIterator)
  <2> HIDE DEF Is
  <2> QED
    BY <1>6, <1>7
<1> QED
  BY <1>8

(* And so are the values of a predicate. *)
ValuesStep(meta, os, f) ==
  IF IsOs(meta) THEN {meta.value = os}
  ELSE IF meta.kind # "List" THEN BOOLEAN
  ELSE LET nested == DOMAIN meta.nested
           all == {v \in [nested -> BOOLEAN] : \A i \in nested : v[i] \in f[meta.nested[i]]}
       IN  CASE meta.name = "not" -> {~v[1] : v \in all}
             [] meta.name = "any" -> {\E i \in nested : v[i] : v \in all}
             [] meta.name = "all" -> {\A i \in nested : v[i] : v \in all}
             [] OTHER -> BOOLEAN

LEMMA ValuesStepIs ==
  ASSUME NEW meta \in Metas, NEW os, NEW f \in [Metas -> SUBSET BOOLEAN]
  PROVE  /\ ValuesStep(meta, os, f) \in SUBSET BOOLEAN
         /\ \A g \in [Metas -> SUBSET BOOLEAN] :
              (\A other \in Metas : MetaWeight[other] < MetaWeight[meta] => f[other] = g[other]) =>
                ValuesStep(meta, os, f) = ValuesStep(meta, os, g)
<1>1. CASE IsOs(meta)
  BY <1>1 DEF ValuesStep
<1>2. CASE ~IsOs(meta) /\ meta.kind # "List"
  BY <1>2 DEF ValuesStep
<1>3. CASE ~IsOs(meta) /\ meta.kind = "List"
  <2> DEFINE nested == DOMAIN meta.nested
             All(g) == {v \in [nested -> BOOLEAN] : \A i \in nested : v[i] \in g[meta.nested[i]]}
             Step(all) == CASE meta.name = "not" -> {~v[1] : v \in all}
                            [] meta.name = "any" -> {\E i \in nested : v[i] : v \in all}
                            [] meta.name = "all" -> {\A i \in nested : v[i] : v \in all}
                            [] OTHER -> BOOLEAN
  <2>1. \A g : ValuesStep(meta, os, g) = Step(All(g))
    BY <1>3 DEF ValuesStep
  <2>2. \A all : Step(all) \in SUBSET BOOLEAN
    <3> SUFFICES ASSUME NEW all PROVE Step(all) \in SUBSET BOOLEAN
      OBVIOUS
    <3>1. \A v : (~v[1]) \in BOOLEAN /\ (\E i \in nested : v[i]) \in BOOLEAN /\ (\A i \in nested : v[i]) \in BOOLEAN
      OBVIOUS
    <3>2. CASE meta.name = "not"
      BY <3>1, <3>2
    <3>3. CASE meta.name = "any"
      BY <3>1, <3>3
    <3>4. CASE meta.name = "all"
      BY <3>1, <3>4
    <3> QED
      BY <3>2, <3>3, <3>4
  <2>3. ASSUME NEW g \in [Metas -> SUBSET BOOLEAN],
               \A other \in Metas : MetaWeight[other] < MetaWeight[meta] => f[other] = g[other]
        PROVE  All(f) = All(g)
    <3>1. \A i \in nested : f[meta.nested[i]] = g[meta.nested[i]]
      BY <1>3, <2>3, NestedAre
    <3> QED
      BY <3>1
  <2> HIDE DEF All, Step
  <2> QED
    BY <2>1, <2>2, <2>3
<1> QED
  BY <1>1, <1>2, <1>3

LEMMA ValuesAre ==
  ASSUME NEW os
  PROVE  \E f : /\ \A meta \in Metas : Values(meta, os) = f[meta] /\ f[meta] = ValuesStep(meta, os, f)
<1> DEFINE V == SUBSET BOOLEAN
           G == [p \in Metas \X [Metas -> V] |-> ValuesStep(p[1], os, p[2])]
           m == [meta \in Metas |-> MetaWeight[meta]]
           Is(f) == f = [meta \in Metas |-> ValuesStep(meta, os, f)]
           none == {}
<1>1. m \in [Metas -> Nat] /\ none \in V
  BY MetasAre
<1>2. G \in [Metas \X [Metas -> V] -> V]
  BY ValuesStepIs
<1>3. DependsOnSmaller(G, m, Metas, V)
  <2> SUFFICES ASSUME NEW meta \in Metas, NEW f \in [Metas -> V], NEW g \in [Metas -> V],
                      \A other \in Metas : m[other] < m[meta] => f[other] = g[other]
               PROVE  G[<<meta, f>>] = G[<<meta, g>>]
    BY DEF DependsOnSmaller
  <2>1. ValuesStep(meta, os, f) = ValuesStep(meta, os, g)
    BY ValuesStepIs
  <2> QED
    BY <2>1
<1>4. \E f \in [Metas -> V] : IsRecursive(f, G, Metas)
  <2> HIDE DEF G, m, V, none
  <2> QED
    BY <1>1, <1>2, <1>3, Recursion
<1>5. PICK f \in [Metas -> V] : f = [meta \in Metas |-> G[<<meta, f>>]]
  <2> HIDE DEF G, V
  <2> QED
    BY <1>4 DEF IsRecursive
<1>6. Is(f)
  <2>1. \A meta \in Metas : G[<<meta, f>>] = ValuesStep(meta, os, f)
    OBVIOUS
  <2> HIDE DEF G
  <2> QED
    BY <1>5, <2>1
<1> DEFINE of == CHOOSE g : Is(g)
<1>7. \A meta : Values(meta, os) = of[meta]
  BY DEF Values, ValuesStep
<1>8. Is(of)
  <2> HIDE DEF Is
  <2> QED
    BY <1>6
<1> HIDE DEF of
<1> QED
  BY <1>7, <1>8

(* What an entry of the stack yields by itself, and the entries that yield it
   wherever they are. *)
Alone(meta, scope) == TargetOsIterator[<<Scoped(scope, meta)>>]
Adding(scope) ==
  {meta \in Metas : \A rest \in Stacks :
     TargetOsIterator[Append(rest, Scoped(scope, meta))] = TargetOsIterator[rest] \cup Alone(meta, scope)}
AloneOf(metas, scope) == UNION {Alone(meta, scope) : meta \in ToSet(metas)}

LEMMA NoEntriesYield == <<>> \in Stacks /\ TargetOsIterator[<<>>] = {}
<1>1. <<>> \in Stacks
  BY EntriesAre
<1>2. TargetOsIterator[<<>>] = OsStep(<<>>, TargetOsIterator)
  BY <1>1, TargetOsIteratorIs
<1> QED
  BY <1>1, <1>2 DEF OsStep

(* A stack with one more entry on it. *)
LEMMA IteratorStep ==
  ASSUME NEW rest \in Stacks, NEW meta \in Metas, NEW scope \in Scopes
  PROVE  LET next == IF meta.name = "not" THEN "Reject" ELSE scope
         IN  TargetOsIterator[Append(rest, Scoped(scope, meta))] =
               CASE meta.kind = "NameValue" ->
                      TargetOsIterator[rest] \cup
                        IF meta.name = "target_os" THEN {[scope |-> next, os |-> meta.value]} ELSE {}
                 [] meta.kind = "List" ->
                      IF ~Parses(meta) THEN {}
                      ELSE TargetOsIterator[rest \o ScopedAll(next, meta.nested)]
                 [] OTHER -> TargetOsIterator[rest]
<1> DEFINE entry == Scoped(scope, meta)
           stack == Append(rest, entry)
<1>1. entry \in Entries /\ entry.scope = scope /\ entry.meta = meta /\ rest \in Seq(Entries) /\ Stacks = Seq(Entries)
  BY EntriesAre
<1> HIDE DEF entry
<1>2. stack \in Seq(Entries) /\ stack # <<>> /\ Last(stack) = entry /\ Front(stack) = rest
  BY <1>1, FrontOfAppended, AppendIsNotEmpty
<1>3. TargetOsIterator[stack] = OsStep(stack, TargetOsIterator)
  BY <1>1, <1>2, TargetOsIteratorIs
<1> HIDE DEF stack
<1> QED
  BY <1>1, <1>2, <1>3 DEF OsStep, stack, entry

LEMMA LeafAdds ==
  ASSUME NEW meta \in Metas, NEW scope \in Scopes, IsLeaf(meta)
  PROVE  /\ meta \in Adding(scope)
         /\ Alone(meta, scope) = IF IsOs(meta) THEN {[scope |-> scope, os |-> meta.value]} ELSE {}
<1> DEFINE says == IF IsOs(meta) THEN {[scope |-> scope, os |-> meta.value]} ELSE {}
<1>1. ASSUME NEW rest \in Stacks
      PROVE  TargetOsIterator[Append(rest, Scoped(scope, meta))] = TargetOsIterator[rest] \cup says
  <2>1. CASE meta.kind = "NameValue"
    <3>1. TargetOsIterator[Append(rest, Scoped(scope, meta))] =
            TargetOsIterator[rest] \cup
              IF meta.name = "target_os"
              THEN {[scope |-> IF meta.name = "not" THEN "Reject" ELSE scope, os |-> meta.value]} ELSE {}
      BY <2>1, IteratorStep
    <3>2. IsOs(meta) <=> meta.name = "target_os"
      BY <2>1 DEF IsOs
    <3> QED
      BY <3>1, <3>2
  <2>2. CASE meta.kind = "Path"
    <3>1. TargetOsIterator[Append(rest, Scoped(scope, meta))] = TargetOsIterator[rest]
      BY <2>2, IteratorStep
    <3>2. ~IsOs(meta)
      BY <2>2 DEF IsOs
    <3> QED
      BY <3>1, <3>2
  <2> QED
    BY <2>1, <2>2 DEF IsLeaf
<1>2. <<>> \in Stacks /\ TargetOsIterator[<<>>] = {} /\ Append(<<>>, Scoped(scope, meta)) = <<Scoped(scope, meta)>>
  BY NoEntriesYield
<1>3. Alone(meta, scope) = says
  BY <1>1, <1>2 DEF Alone
<1> HIDE DEF says
<1> QED
  BY <1>1, <1>3 DEF Adding, says

LEMMA ScopedAllOfAppended ==
  ASSUME NEW scope \in Scopes, NEW metas \in Seq(Metas), NEW meta \in Metas
  PROVE  ScopedAll(scope, Append(metas, meta)) = Append(ScopedAll(scope, metas), Scoped(scope, meta))
<1> DEFINE more == Append(metas, meta)
           all == ScopedAll(scope, metas)
           both == ScopedAll(scope, more)
           last == Scoped(scope, meta)
<1>1. more \in Seq(Metas) /\ Len(more) = Len(metas) + 1 /\ Len(metas) \in Nat
      /\ \A i \in 1..Len(more) : more[i] = IF i = Len(metas) + 1 THEN meta ELSE metas[i]
  BY AppendProperties, LenProperties
<1> HIDE DEF more
<1>2. /\ all \in Seq(Entries) /\ Len(all) = Len(metas)
      /\ \A i \in 1..Len(metas) : all[i] = Scoped(scope, metas[i])
  BY ScopedAllAre
<1>3. /\ both \in Seq(Entries) /\ Len(both) = Len(more)
      /\ \A i \in 1..Len(more) : both[i] = Scoped(scope, more[i])
  BY <1>1, ScopedAllAre
<1>4. last \in Entries
  BY EntriesAre
<1> HIDE DEF all, both
<1> DEFINE app == Append(all, last)
<1>5. app \in Seq(Entries) /\ Len(app) = Len(all) + 1
      /\ \A i \in 1..Len(app) : app[i] = IF i = Len(all) + 1 THEN last ELSE all[i]
  BY <1>2, <1>4, AppendProperties, LenProperties
<1> HIDE DEF app
<1>6. \A i \in 1..Len(both) : both[i] = app[i]
  BY <1>1, <1>2, <1>3, <1>5
<1>7. both = app
  BY <1>1, <1>2, <1>3, <1>5, <1>6, SeqEqual
<1> QED
  BY <1>7 DEF app, both, all, more

LEMMA SequenceAdds ==
  ASSUME NEW scope \in Scopes, NEW rest \in Stacks
  PROVE  \A metas \in Seq(Adding(scope)) :
           TargetOsIterator[rest \o ScopedAll(scope, metas)] = TargetOsIterator[rest] \cup AloneOf(metas, scope)
<1> DEFINE A == Adding(scope)
           Is(metas) == TargetOsIterator[rest \o ScopedAll(scope, metas)] = TargetOsIterator[rest] \cup AloneOf(metas, scope)
           T == {metas \in Seq(A) : Is(metas)}
<1>1. A \subseteq Metas
  BY DEF Adding
<1>2. Is(<<>>)
  <2>1. ScopedAll(scope, <<>>) = <<>>
    BY DEF ScopedAll
  <2>2. rest \o <<>> = rest
    BY EntriesAre, ConcatEmptySeq
  <2>3. AloneOf(<<>>, scope) = {}
    BY ToSetOfNone DEF AloneOf
  <2> QED
    BY <2>1, <2>2, <2>3
<1>3. ASSUME NEW metas \in Seq(A), NEW meta \in A, Is(metas)
      PROVE  Is(Append(metas, meta))
  <2> DEFINE all == ScopedAll(scope, metas)
             last == Scoped(scope, meta)
  <2>1. metas \in Seq(Metas) /\ meta \in Metas
    BY <1>1
  <2>2. ScopedAll(scope, Append(metas, meta)) = Append(all, last)
    BY <2>1, ScopedAllOfAppended
  <2>3. all \in Seq(Entries) /\ last \in Entries /\ rest \in Seq(Entries) /\ Stacks = Seq(Entries)
    BY <2>1, ScopedAllAre, EntriesAre
  <2> HIDE DEF all
  <2>4. rest \o Append(all, last) = Append(rest \o all, last) /\ rest \o all \in Stacks
    <3> HIDE DEF last
    <3> QED
      BY <2>3
  <2>5. TargetOsIterator[Append(rest \o all, last)] = TargetOsIterator[rest \o all] \cup Alone(meta, scope)
    BY <2>4 DEF Adding
  <2>6. ToSet(Append(metas, meta)) = ToSet(metas) \cup {meta}
    BY ToSetOfAppended
  <2>7. AloneOf(Append(metas, meta), scope) = AloneOf(metas, scope) \cup Alone(meta, scope)
    BY <2>6 DEF AloneOf
  <2> QED
    BY <1>3, <2>2, <2>4, <2>5, <2>7 DEF all
<1>4. T = Seq(A)
  <2>1. <<>> \in T
    BY <1>2
  <2>2. \A metas \in T : \A meta \in A : Append(metas, meta) \in T
    <3> HIDE DEF Is, A
    <3> QED
      BY <1>3
  <2> HIDE DEF T, A
  <2> QED
    BY <2>1, <2>2, InductionOnSequences DEF T
<1> QED
  BY <1>4

LEMMA ListAdds ==
  ASSUME NEW meta \in Metas, NEW scope \in Scopes, meta.kind = "List", Parses(meta),
         NEW next \in Scopes, next = IF meta.name = "not" THEN "Reject" ELSE scope,
         ToSet(meta.nested) \subseteq Adding(next)
  PROVE  meta \in Adding(scope) /\ Alone(meta, scope) = AloneOf(meta.nested, next)
<1>1. meta.nested \in Seq(Adding(next))
  <2>1. meta.nested \in Seq(Metas)
    BY MetasAre
  <2> QED
    BY <2>1, ToSetIs
<1>2. ASSUME NEW rest \in Stacks
      PROVE  TargetOsIterator[Append(rest, Scoped(scope, meta))] =
               TargetOsIterator[rest] \cup AloneOf(meta.nested, next)
  <2>1. TargetOsIterator[Append(rest, Scoped(scope, meta))] =
          TargetOsIterator[rest \o ScopedAll(next, meta.nested)]
    BY IteratorStep
  <2> QED
    BY <1>1, <2>1, SequenceAdds
<1>3. <<>> \in Stacks /\ TargetOsIterator[<<>>] = {} /\ Append(<<>>, Scoped(scope, meta)) = <<Scoped(scope, meta)>>
  BY NoEntriesYield
<1>4. Alone(meta, scope) = AloneOf(meta.nested, next)
  BY <1>2, <1>3 DEF Alone
<1> QED
  BY <1>2, <1>4 DEF Adding

(* The systems that a clause of a usual attribute names. *)
ListedOs(meta) ==
  IF IsOs(meta) THEN {meta.value}
  ELSE IF IsList(meta, "any") THEN {nested.value : nested \in ToSet(meta.nested)}
  ELSE {}
OsOf(clause) == IF IsNotOs(clause) THEN ListedOs(clause.nested[1]) ELSE ListedOs(clause)
Yield(scope, systems) == {[scope |-> scope, os |-> os] : os \in systems}

LEMMA PartsOfAny ==
  ASSUME NEW meta \in Metas, IsAnyOs(meta), ~IsOs(meta)
  PROVE  /\ meta.kind = "List" /\ meta.name = "any" /\ ToSet(meta.nested) \subseteq Metas
         /\ \A nested \in ToSet(meta.nested) : IsOs(nested)
         /\ ToSet(meta.nested) = {meta.nested[i] : i \in DOMAIN meta.nested}
         /\ ListedOs(meta) = {nested.value : nested \in ToSet(meta.nested)}
<1>1. meta.kind = "List" /\ meta.name = "any" /\ \A i \in DOMAIN meta.nested : IsOs(meta.nested[i])
  BY DEF IsAnyOs, IsList
<1>2. meta.nested \in Seq(Metas)
  BY <1>1, MetasAre
<1>3. ToSet(meta.nested) \subseteq Metas
  BY <1>2, ToSetIs
<1>4. ToSet(meta.nested) = {meta.nested[i] : i \in DOMAIN meta.nested}
  BY DEF ToSet
<1>5. ListedOs(meta) = {nested.value : nested \in ToSet(meta.nested)}
  BY <1>1 DEF ListedOs, IsList
<1> QED
  BY <1>1, <1>3, <1>4, <1>5

LEMMA ListedAdds ==
  ASSUME NEW meta \in Metas, NEW scope \in Scopes, IsLeaf(meta) \/ IsAnyOs(meta)
  PROVE  meta \in Adding(scope) /\ Alone(meta, scope) = Yield(scope, ListedOs(meta))
<1>1. CASE IsLeaf(meta) \/ IsOs(meta)
  <2>1. IsLeaf(meta)
    BY <1>1 DEF IsLeaf, IsOs
  <2>2. ListedOs(meta) = IF IsOs(meta) THEN {meta.value} ELSE {}
    BY <2>1 DEF ListedOs, IsList, IsLeaf
  <2> QED
    BY <2>1, <2>2, LeafAdds DEF Yield
<1>2. CASE ~IsLeaf(meta) /\ ~IsOs(meta)
  <2>1. /\ meta.kind = "List" /\ meta.name = "any" /\ ToSet(meta.nested) \subseteq Metas
        /\ \A nested \in ToSet(meta.nested) : IsOs(nested)
        /\ ToSet(meta.nested) = {meta.nested[i] : i \in DOMAIN meta.nested}
        /\ ListedOs(meta) = {nested.value : nested \in ToSet(meta.nested)}
    BY <1>2, PartsOfAny
  <2>2. ASSUME NEW nested \in ToSet(meta.nested)
        PROVE  nested \in Adding(scope) /\ Alone(nested, scope) = {[scope |-> scope, os |-> nested.value]}
    BY <2>1, LeafAdds DEF IsLeaf, IsOs
  <2>3. Parses(meta)
    BY <2>1 DEF Parses, IsOs
  <2>4. meta \in Adding(scope) /\ Alone(meta, scope) = AloneOf(meta.nested, scope)
    BY <2>1, <2>2, <2>3, ListAdds
  <2>5. AloneOf(meta.nested, scope) = Yield(scope, ListedOs(meta))
    <3>1. AloneOf(meta.nested, scope) = UNION {{[scope |-> scope, os |-> nested.value]} : nested \in ToSet(meta.nested)}
      BY <2>2 DEF AloneOf
    <3>2. Yield(scope, ListedOs(meta)) = {[scope |-> scope, os |-> nested.value] : nested \in ToSet(meta.nested)}
      BY <2>1 DEF Yield
    <3> QED
      BY <3>1, <3>2
  <2> QED
    BY <2>4, <2>5
<1> QED
  BY <1>1, <1>2

LEMMA PartOfNot ==
  ASSUME NEW meta \in Metas, IsNotOs(meta)
  PROVE  /\ meta.kind = "List" /\ meta.name = "not" /\ DOMAIN meta.nested = {1}
         /\ meta.nested[1] \in Metas /\ ToSet(meta.nested) = {meta.nested[1]}
         /\ IsLeaf(meta.nested[1]) \/ IsAnyOs(meta.nested[1])
         /\ OsOf(meta) = ListedOs(meta.nested[1])
<1>1. meta.kind = "List" /\ meta.name = "not" /\ Len(meta.nested) = 1
      /\ (IsLeaf(meta.nested[1]) \/ IsAnyOs(meta.nested[1]))
  BY DEF IsNotOs, IsList
<1>2. meta.nested \in Seq(Metas)
  BY <1>1, MetasAre
<1>3. DOMAIN meta.nested = {1}
  BY <1>1, <1>2, LenProperties
<1>4. ToSet(meta.nested) = {meta.nested[1]} /\ meta.nested[1] \in Metas
  BY <1>2, <1>3, ToSetIs DEF ToSet
<1> QED
  BY <1>1, <1>3, <1>4 DEF OsOf

LEMMA NotAdds ==
  ASSUME NEW meta \in Metas, NEW scope \in Scopes, IsNotOs(meta)
  PROVE  meta \in Adding(scope) /\ Alone(meta, scope) = Yield("Reject", OsOf(meta))
<1> DEFINE nested == meta.nested[1]
<1>1. /\ meta.kind = "List" /\ meta.name = "not" /\ DOMAIN meta.nested = {1}
      /\ nested \in Metas /\ ToSet(meta.nested) = {nested}
      /\ IsLeaf(nested) \/ IsAnyOs(nested)
      /\ OsOf(meta) = ListedOs(nested)
  BY PartOfNot
<1>2. nested \in Adding("Reject") /\ Alone(nested, "Reject") = Yield("Reject", ListedOs(nested))
  BY <1>1, ListedAdds DEF Scopes
<1>3. Parses(meta)
  BY <1>1 DEF Parses, IsLeaf, IsAnyOs, IsOs, IsList
<1>4. meta \in Adding(scope) /\ Alone(meta, scope) = AloneOf(meta.nested, "Reject")
  BY <1>1, <1>2, <1>3, ListAdds DEF Scopes
<1>5. AloneOf(meta.nested, "Reject") = Alone(nested, "Reject")
  BY <1>1 DEF AloneOf
<1> QED
  BY <1>1, <1>2, <1>4, <1>5

(* What cfg means by a clause. *)
LEMMA ListedValues ==
  ASSUME NEW meta \in Metas, NEW os, IsLeaf(meta) \/ IsAnyOs(meta)
  PROVE  /\ TRUE \in Values(meta, os) <=> (IsAnyOs(meta) => os \in ListedOs(meta))
         /\ FALSE \in Values(meta, os) <=> os \notin ListedOs(meta)
<1> PICK f : \A m \in Metas : Values(m, os) = f[m] /\ f[m] = ValuesStep(m, os, f)
  BY ValuesAre
<1>1. CASE IsOs(meta)
  <2>1. Values(meta, os) = {meta.value = os}
    BY <1>1 DEF ValuesStep
  <2>2. ListedOs(meta) = {meta.value} /\ IsAnyOs(meta)
    BY <1>1 DEF ListedOs, IsAnyOs
  <2> QED
    BY <2>1, <2>2
<1>2. CASE IsLeaf(meta) /\ ~IsOs(meta)
  <2>1. Values(meta, os) = BOOLEAN
    BY <1>2 DEF ValuesStep, IsLeaf
  <2>2. ListedOs(meta) = {} /\ ~IsAnyOs(meta)
    BY <1>2 DEF ListedOs, IsAnyOs, IsLeaf, IsList
  <2> QED
    BY <2>1, <2>2
<1>3. CASE IsAnyOs(meta) /\ ~IsOs(meta)
  <2> DEFINE nested == DOMAIN meta.nested
             Says(i) == meta.nested[i].value = os
             all == {v \in [nested -> BOOLEAN] : \A i \in nested : v[i] \in f[meta.nested[i]]}
             said == [i \in nested |-> Says(i)]
  <2>1. /\ meta.kind = "List" /\ meta.name = "any" /\ ToSet(meta.nested) \subseteq Metas
        /\ \A n \in ToSet(meta.nested) : IsOs(n)
        /\ ToSet(meta.nested) = {meta.nested[i] : i \in nested}
        /\ ListedOs(meta) = {n.value : n \in ToSet(meta.nested)}
    BY <1>3, PartsOfAny
  <2>2. Values(meta, os) = {\E i \in nested : v[i] : v \in all}
    BY <1>3, <2>1 DEF ValuesStep
  <2>3. \A i \in nested : f[meta.nested[i]] = {Says(i)}
    BY <2>1 DEF ValuesStep
  <2>4. said \in all
    BY <2>3
  <2>5. \A v \in all : \A i \in nested : v[i] <=> Says(i)
    BY <2>3
  <2> HIDE DEF all, Says
  <2>6. \A v \in all : (\E i \in nested : v[i]) <=> (\E i \in nested : Says(i))
    BY <2>5
  <2>7. Values(meta, os) = {\E i \in nested : Says(i)}
    <3> DEFINE is == \E i \in nested : Says(i)
    <3>1. \A v \in all : (\E i \in nested : v[i]) = is
      BY <2>6
    <3> HIDE DEF is
    <3>2. Values(meta, os) = {is}
      BY <2>2, <2>4, <3>1
    <3> QED
      BY <3>2 DEF is
  <2>8. os \in ListedOs(meta) <=> \E i \in nested : Says(i)
    BY <2>1 DEF Says
  <2> QED
    BY <1>3, <2>7, <2>8
<1> QED
  BY <1>1, <1>2, <1>3

LEMMA NotValues ==
  ASSUME NEW meta \in Metas, NEW os, IsNotOs(meta)
  PROVE  TRUE \in Values(meta, os) <=> os \notin OsOf(meta)
<1> PICK f : \A m \in Metas : Values(m, os) = f[m] /\ f[m] = ValuesStep(m, os, f)
  BY ValuesAre
<1> DEFINE one == meta.nested[1]
           all == {v \in [{1} -> BOOLEAN] : \A i \in {1} : v[i] \in f[meta.nested[i]]}
<1>1. /\ meta.kind = "List" /\ meta.name = "not" /\ DOMAIN meta.nested = {1}
      /\ one \in Metas /\ (IsLeaf(one) \/ IsAnyOs(one)) /\ OsOf(meta) = ListedOs(one)
  BY PartOfNot
<1>2. ~IsOs(meta)
  BY <1>1 DEF IsOs
<1>3. Values(meta, os) = {~v[1] : v \in all}
  BY <1>1, <1>2 DEF ValuesStep
<1>4. FALSE \in Values(one, os) <=> os \notin OsOf(meta)
  BY <1>1, ListedValues
<1>5. ASSUME FALSE \in f[one] PROVE TRUE \in {~v[1] : v \in all}
  <2> DEFINE no == [i \in {1} |-> FALSE]
  <2>1. no \in all /\ ~no[1]
    BY <1>5
  <2> HIDE DEF all, no
  <2>2. (~no[1]) = TRUE
    BY <2>1
  <2> QED
    BY <2>1, <2>2
<1>6. ASSUME TRUE \in {~v[1] : v \in all} PROVE FALSE \in f[one]
  <2>1. PICK v \in all : (~v[1]) = TRUE
    BY <1>6
  <2>2. v[1] \in BOOLEAN /\ v[1] \in f[one]
    OBVIOUS
  <2>3. v[1] = FALSE
    BY <2>1, <2>2
  <2> QED
    BY <2>2, <2>3
<1> QED
  BY <1>1, <1>3, <1>4, <1>5, <1>6

(* The clauses of an attribute that is read as it is meant. *)
IsClause(meta) == IsLeaf(meta) \/ IsAnyOs(meta) \/ IsNotOs(meta)
ClausesOf(attrs) == UNION {Clauses(meta) : meta \in CfgsOf(attrs)}

LEMMA ClauseIs ==
  ASSUME NEW clause \in Metas, IsClause(clause)
  PROVE  /\ clause \in Adding("Accept") /\ clause.kind # "Literal"
         /\ Alone(clause, "Accept") = Yield(IF IsNotOs(clause) THEN "Reject" ELSE "Accept", OsOf(clause))
         /\ \A os : TRUE \in Values(clause, os) <=>
              IF IsNotOs(clause) THEN os \notin OsOf(clause) ELSE IsAnyOs(clause) => os \in OsOf(clause)
         /\ IsAnyOs(clause) => ~IsNotOs(clause) /\ OsOf(clause) # {}
         /\ ~IsAnyOs(clause) /\ ~IsNotOs(clause) => OsOf(clause) = {}
<1>1. clause.kind # "Literal"
  BY DEF IsClause, IsLeaf, IsAnyOs, IsNotOs, IsOs, IsList
<1>2. IsAnyOs(clause) \/ IsLeaf(clause) => ~IsNotOs(clause)
  BY DEF IsLeaf, IsAnyOs, IsNotOs, IsOs, IsList
<1>3. CASE IsNotOs(clause)
  <2>1. \A os : TRUE \in Values(clause, os) <=> os \notin OsOf(clause)
    BY <1>3, NotValues
  <2>2. clause \in Adding("Accept") /\ Alone(clause, "Accept") = Yield("Reject", OsOf(clause))
    BY <1>3, NotAdds DEF Scopes
  <2> QED
    BY <1>1, <1>2, <1>3, <2>1, <2>2
<1>4. CASE ~IsNotOs(clause)
  <2>1. (IsLeaf(clause) \/ IsAnyOs(clause)) /\ OsOf(clause) = ListedOs(clause)
    BY <1>4 DEF IsClause, OsOf
  <2>2. \A os : TRUE \in Values(clause, os) <=> (IsAnyOs(clause) => os \in OsOf(clause))
    BY <2>1, ListedValues
  <2>3. clause \in Adding("Accept") /\ Alone(clause, "Accept") = Yield("Accept", OsOf(clause))
    BY <2>1, ListedAdds DEF Scopes
  <2>4. ASSUME IsAnyOs(clause) PROVE OsOf(clause) # {}
    <3>1. CASE IsOs(clause)
      BY <2>1, <3>1 DEF ListedOs
    <3>2. CASE ~IsOs(clause)
      <4>1. /\ clause.kind = "List" /\ ListedOs(clause) = {nested.value : nested \in ToSet(clause.nested)}
            /\ clause.nested # <<>>
        BY <2>4, <3>2, PartsOfAny DEF IsAnyOs
      <4>2. ToSet(clause.nested) # {}
        BY <4>1, MetasAre, ToSetIs
      <4> QED
        BY <2>1, <4>1, <4>2
    <3> QED
      BY <3>1, <3>2
  <2>5. ~IsAnyOs(clause) => OsOf(clause) = {}
    BY <2>1 DEF ListedOs, IsAnyOs, IsLeaf, IsList
  <2> QED
    BY <1>1, <1>2, <1>4, <2>2, <2>3, <2>4, <2>5
<1> QED
  BY <1>3, <1>4

LEMMA ClausesAre ==
  ASSUME NEW meta \in Metas, \A clause \in Clauses(meta) : IsClause(clause)
  PROVE  /\ Clauses(meta) \subseteq Metas
         /\ Alone(meta, "Accept") = UNION {Alone(clause, "Accept") : clause \in Clauses(meta)}
         /\ \A os : TRUE \in Values(meta, os) <=> \A clause \in Clauses(meta) : TRUE \in Values(clause, os)
<1>1. CASE ~IsList(meta, "all")
  <2>1. Clauses(meta) = {meta}
    BY <1>1 DEF Clauses
  <2> QED
    BY <2>1
<1>2. CASE IsList(meta, "all")
  <2> DEFINE nested == DOMAIN meta.nested
  <2>1. /\ meta.kind = "List" /\ meta.name = "all" /\ meta.nested \in Seq(Metas)
        /\ Clauses(meta) = ToSet(meta.nested)
    BY <1>2, MetasAre DEF IsList, Clauses
  <2>2. ToSet(meta.nested) \subseteq Metas /\ ToSet(meta.nested) = {meta.nested[i] : i \in nested}
    BY <2>1, ToSetIs DEF ToSet
  <2>3. ToSet(meta.nested) \subseteq Adding("Accept") /\ Parses(meta)
    BY <2>1, <2>2, ClauseIs DEF Parses
  <2>4. Alone(meta, "Accept") = AloneOf(meta.nested, "Accept")
    BY <2>1, <2>3, ListAdds DEF Scopes
  <2>5. ASSUME NEW os
        PROVE  TRUE \in Values(meta, os) <=> \A clause \in Clauses(meta) : TRUE \in Values(clause, os)
    <3> PICK f : \A m \in Metas : Values(m, os) = f[m] /\ f[m] = ValuesStep(m, os, f)
      BY ValuesAre
    <3> DEFINE all == {v \in [nested -> BOOLEAN] : \A i \in nested : v[i] \in f[meta.nested[i]]}
               yes == [i \in nested |-> TRUE]
    <3>1. Values(meta, os) = {\A i \in nested : v[i] : v \in all}
      BY <2>1 DEF ValuesStep, IsOs
    <3>2. ASSUME \A clause \in Clauses(meta) : TRUE \in Values(clause, os)
          PROVE  TRUE \in Values(meta, os)
      <4>1. \A i \in nested : TRUE \in f[meta.nested[i]]
        BY <2>1, <2>2, <3>2
      <4>2. yes \in all /\ \A i \in nested : yes[i]
        BY <4>1
      <4> HIDE DEF all, yes
      <4>3. (\A i \in nested : yes[i]) = TRUE
        BY <4>2
      <4> QED
        BY <3>1, <4>2, <4>3
    <3>3. ASSUME TRUE \in Values(meta, os), NEW clause \in Clauses(meta)
          PROVE  TRUE \in Values(clause, os)
      <4>1. PICK v \in all : (\A i \in nested : v[i]) = TRUE
        BY <3>1, <3>3
      <4>2. PICK j \in nested : clause = meta.nested[j]
        BY <2>1, <2>2
      <4>3. v[j] \in BOOLEAN /\ v[j] \in f[meta.nested[j]]
        OBVIOUS
      <4>4. v[j] = TRUE
        <5> HIDE DEF all
        <5> QED
          BY <4>1, <4>3
      <4> QED
        BY <2>1, <2>2, <4>2, <4>3, <4>4
    <3> QED
      BY <3>2, <3>3
  <2> QED
    BY <2>1, <2>2, <2>4, <2>5 DEF AloneOf
<1> QED
  BY <1>1, <1>2

LEMMA FoundInClauses ==
  ASSUME NEW attrs, IsAttributes(attrs), \A clause \in ClausesOf(attrs) : IsClause(clause)
  PROVE  /\ ClausesOf(attrs) \subseteq Metas
         /\ FoundIn(attrs) = UNION {Alone(clause, "Accept") : clause \in ClausesOf(attrs)}
         /\ \A os : (\A meta \in CfgsOf(attrs) : TRUE \in Values(meta, os)) <=>
                      \A clause \in ClausesOf(attrs) : TRUE \in Values(clause, os)
<1>1. CfgsOf(attrs) \subseteq Metas
  <2> SUFFICES ASSUME NEW a \in DOMAIN attrs PROVE ToSet(GetMetaItems(attrs[a], "cfg")) \subseteq Metas
    BY DEF CfgsOf
  <2>1. GetMetaItems(attrs[a], "cfg") \in Seq(Metas)
    BY DEF IsAttributes, ToSet
  <2> QED
    BY <2>1, ToSetIs
<1>2. FoundIn(attrs) = UNION {Alone(meta, "Accept") : meta \in CfgsOf(attrs)}
  <2> DEFINE metas(a) == ToSet(GetMetaItems(attrs[a], "cfg"))
  <2>1. FoundIn(attrs) = UNION {UNION {Alone(meta, "Accept") : meta \in metas(a)} : a \in DOMAIN attrs}
    BY DEF FoundIn, TargetOsIn, Alone
  <2>2. CfgsOf(attrs) = UNION {metas(a) : a \in DOMAIN attrs}
    BY DEF CfgsOf
  <2> DEFINE A(meta) == Alone(meta, "Accept")
  <2> HIDE DEF metas, A
  <2>3. ASSUME NEW F, F = UNION {UNION {A(meta) : meta \in metas(a)} : a \in DOMAIN attrs}
        PROVE  F = UNION {A(meta) : meta \in CfgsOf(attrs)}
    <3>1. \A x : x \in F <=> \E a \in DOMAIN attrs : \E meta \in metas(a) : x \in A(meta)
      BY <2>3
    <3>2. \A x : x \in UNION {A(meta) : meta \in CfgsOf(attrs)} <=>
                 \E a \in DOMAIN attrs : \E meta \in metas(a) : x \in A(meta)
      BY <2>2
    <3> QED
      BY <3>1, <3>2
  <2> QED
    BY <2>1, <2>3 DEF A
<1>3. ASSUME NEW meta \in CfgsOf(attrs)
      PROVE  /\ Clauses(meta) \subseteq Metas
             /\ Alone(meta, "Accept") = UNION {Alone(clause, "Accept") : clause \in Clauses(meta)}
             /\ \A os : TRUE \in Values(meta, os) <=> \A clause \in Clauses(meta) : TRUE \in Values(clause, os)
  <2>1. meta \in Metas /\ \A clause \in Clauses(meta) : IsClause(clause)
    BY <1>1 DEF ClausesOf
  <2> QED
    BY <2>1, ClausesAre
<1>4. ClausesOf(attrs) \subseteq Metas
  BY <1>3 DEF ClausesOf
<1>5. FoundIn(attrs) = UNION {Alone(clause, "Accept") : clause \in ClausesOf(attrs)}
  <2>1. ASSUME NEW x \in FoundIn(attrs)
        PROVE  \E clause \in ClausesOf(attrs) : x \in Alone(clause, "Accept")
    <3>1. PICK meta \in CfgsOf(attrs) : x \in Alone(meta, "Accept")
      BY <1>2, <2>1
    <3>2. PICK clause \in Clauses(meta) : x \in Alone(clause, "Accept")
      <4>1. Alone(meta, "Accept") = UNION {Alone(clause, "Accept") : clause \in Clauses(meta)}
        BY <1>3
      <4> QED
        BY <3>1, <4>1
    <3> QED
      BY <3>2 DEF ClausesOf
  <2>2. ASSUME NEW clause \in ClausesOf(attrs), NEW x \in Alone(clause, "Accept")
        PROVE  x \in FoundIn(attrs)
    <3>1. PICK meta \in CfgsOf(attrs) : clause \in Clauses(meta)
      BY DEF ClausesOf
    <3>2. x \in Alone(meta, "Accept")
      BY <1>3, <2>2, <3>1
    <3> QED
      BY <1>2, <3>2
  <2> QED
    BY <2>1, <2>2
<1>6. ASSUME NEW os
      PROVE  (\A meta \in CfgsOf(attrs) : TRUE \in Values(meta, os)) <=>
               \A clause \in ClausesOf(attrs) : TRUE \in Values(clause, os)
  <2> DEFINE Can(meta) == TRUE \in Values(meta, os)
  <2>1. \A meta \in CfgsOf(attrs) : Can(meta) <=> \A clause \in Clauses(meta) : Can(clause)
    BY <1>3
  <2>2. \A clause : clause \in ClausesOf(attrs) <=> \E meta \in CfgsOf(attrs) : clause \in Clauses(meta)
    BY DEF ClausesOf
  <2> HIDE DEF Can
  <2>3. (\A meta \in CfgsOf(attrs) : Can(meta)) <=> \A clause \in ClausesOf(attrs) : Can(clause)
    BY <2>1, <2>2
  <2> QED
    BY <2>3 DEF Can
<1> QED
  BY <1>4, <1>5, <1>6

LEMMA FilterIsMeaning ==
  ASSUME NEW attrs, IsAttributes(attrs), IsUsual(attrs)
  PROVE  AcceptTargetOs(attrs, targetOs) <=> IsForTargets(attrs)
<1> DEFINE clauses == ClausesOf(attrs)
           accepted == {g.os : g \in {h \in FoundIn(attrs) : h.scope = "Accept"}}
           rejected == {g.os : g \in {h \in FoundIn(attrs) : h.scope = "Reject"}}
           Allows(clause, os) ==
             IF IsNotOs(clause) THEN os \notin OsOf(clause) ELSE IsAnyOs(clause) => os \in OsOf(clause)
<1>1. /\ \A clause \in clauses : IsClause(clause)
      /\ \A clause, other \in clauses : IsAnyOs(clause) /\ IsAnyOs(other) => clause = other
      /\ (\E os \in targetOs : targetOs = {os}) \/ \A clause \in clauses : ~IsNotOs(clause)
  BY DEF IsUsual, IsClause, ClausesOf
<1>2. /\ clauses \subseteq Metas
      /\ FoundIn(attrs) = UNION {Alone(clause, "Accept") : clause \in clauses}
      /\ \A os : (\A meta \in CfgsOf(attrs) : TRUE \in Values(meta, os)) <=>
                   \A clause \in clauses : TRUE \in Values(clause, os)
  BY <1>1, FoundInClauses
<1> HIDE DEF clauses
<1>3. ASSUME NEW clause \in clauses
      PROVE  /\ Alone(clause, "Accept") = Yield(IF IsNotOs(clause) THEN "Reject" ELSE "Accept", OsOf(clause))
             /\ \A os : TRUE \in Values(clause, os) <=> Allows(clause, os)
             /\ IsAnyOs(clause) => ~IsNotOs(clause) /\ OsOf(clause) # {}
             /\ ~IsAnyOs(clause) /\ ~IsNotOs(clause) => OsOf(clause) = {}
  <2>1. clause \in Metas /\ IsClause(clause)
    BY <1>1, <1>2
  <2> QED
    BY <2>1, ClauseIs
<1>4. \A os : os \in accepted <=> \E clause \in clauses : IsAnyOs(clause) /\ os \in OsOf(clause)
  <2> TAKE os
  <2>1. ASSUME os \in accepted PROVE \E clause \in clauses : IsAnyOs(clause) /\ os \in OsOf(clause)
    <3>1. PICK g \in FoundIn(attrs) : g.scope = "Accept" /\ g.os = os
      BY <2>1
    <3>2. PICK clause \in clauses : g \in Alone(clause, "Accept")
      BY <1>2, <3>1
    <3>3. ~IsNotOs(clause) /\ os \in OsOf(clause)
      <4>1. PICK o \in OsOf(clause) : g = [scope |-> IF IsNotOs(clause) THEN "Reject" ELSE "Accept", os |-> o]
        BY <1>3, <3>2 DEF Yield
      <4> QED
        BY <3>1, <4>1
    <3> QED
      BY <1>3, <3>3
  <2>2. ASSUME NEW clause \in clauses, IsAnyOs(clause), os \in OsOf(clause) PROVE os \in accepted
    <3>1. [scope |-> "Accept", os |-> os] \in Alone(clause, "Accept")
      BY <1>3, <2>2 DEF Yield
    <3> QED
      BY <1>2, <3>1
  <2> QED
    BY <2>1, <2>2
<1>5. \A os : os \in rejected <=> \E clause \in clauses : IsNotOs(clause) /\ os \in OsOf(clause)
  <2> TAKE os
  <2>1. ASSUME os \in rejected PROVE \E clause \in clauses : IsNotOs(clause) /\ os \in OsOf(clause)
    <3>1. PICK g \in FoundIn(attrs) : g.scope = "Reject" /\ g.os = os
      BY <2>1
    <3>2. PICK clause \in clauses : g \in Alone(clause, "Accept")
      BY <1>2, <3>1
    <3>3. IsNotOs(clause) /\ os \in OsOf(clause)
      <4>1. PICK o \in OsOf(clause) : g = [scope |-> IF IsNotOs(clause) THEN "Reject" ELSE "Accept", os |-> o]
        BY <1>3, <3>2 DEF Yield
      <4> QED
        BY <3>1, <4>1
    <3> QED
      BY <3>3
  <2>2. ASSUME NEW clause \in clauses, IsNotOs(clause), os \in OsOf(clause) PROVE os \in rejected
    <3>1. [scope |-> "Reject", os |-> os] \in Alone(clause, "Accept")
      BY <1>3, <2>2 DEF Yield
    <3> QED
      BY <1>2, <3>1
  <2> QED
    BY <2>1, <2>2
<1>6. AcceptTargetOs(attrs, targetOs) <=>
        (targetOs # {} => targetOs \cap rejected = {} /\ (accepted = {} \/ targetOs \cap accepted # {}))
  BY DEF AcceptTargetOs
<1>7. IsForTargets(attrs) <=> (targetOs # {} => \E os \in targetOs : \A clause \in clauses : Allows(clause, os))
  <2>1. \A os : (\A meta \in CfgsOf(attrs) : TRUE \in Values(meta, os)) <=>
                  \A clause \in clauses : Allows(clause, os)
    BY <1>2, <1>3
  <2> HIDE DEF Allows
  <2> QED
    BY <2>1 DEF IsForTargets
<1> HIDE DEF accepted, rejected
<1>8. accepted = {} <=> \A clause \in clauses : ~IsAnyOs(clause)
  BY <1>3, <1>4
<1>9. CASE \E os \in targetOs : targetOs = {os}
  <2>1. PICK os \in targetOs : targetOs = {os}
    BY <1>9
  <2>2. targetOs \cap rejected = {} <=> os \notin rejected
    BY <2>1
  <2>3. targetOs \cap accepted # {} <=> os \in accepted
    BY <2>1
  <2>4. (os \notin rejected /\ (accepted = {} \/ os \in accepted)) <=> \A clause \in clauses : Allows(clause, os)
    <3>1. ASSUME os \notin rejected, accepted = {} \/ os \in accepted, NEW clause \in clauses
          PROVE  Allows(clause, os)
      BY <1>1, <1>4, <1>5, <1>8, <3>1
    <3>2. ASSUME \A clause \in clauses : Allows(clause, os)
          PROVE  os \notin rejected /\ (accepted = {} \/ os \in accepted)
      <4>1. os \notin rejected
        BY <1>5, <3>2
      <4>2. ASSUME NEW clause \in clauses, IsAnyOs(clause) PROVE os \in accepted
        BY <1>3, <1>4, <3>2, <4>2
      <4> QED
        BY <1>8, <4>1, <4>2
    <3> QED
      BY <3>1, <3>2
  <2> QED
    BY <1>6, <1>7, <2>1, <2>2, <2>3, <2>4
<1>10. CASE \A clause \in clauses : ~IsNotOs(clause)
  <2>1. rejected = {}
    BY <1>5, <1>10
  <2>2. \A os : (\A clause \in clauses : Allows(clause, os)) <=> (accepted = {} \/ os \in accepted)
    BY <1>1, <1>4, <1>8, <1>10
  <2> HIDE DEF Allows
  <2> QED
    BY <1>6, <1>7, <2>1, <2>2
<1> QED
  BY <1>1, <1>9, <1>10

(* Of a sequence all of which is in a set everything is chosen. *)
LEMMA AllChosen ==
  ASSUME NEW S, NEW s \in Seq(S), NEW A, ToSet(s) \subseteq A
  PROVE  Chosen(s, A) = s
<1> DEFINE T == {t \in Seq(S) : Chosen(t, S) = t}
<1>1. <<>> \in T
  BY ChosenOfNone, EmptySeq
<1>2. ASSUME NEW t \in Seq(S), NEW x \in S, t \in T PROVE Append(t, x) \in T
  <2>1. Chosen(Append(t, x), S) = Append(Chosen(t, S), x) /\ Append(t, x) \in Seq(S)
    BY ChosenOfAppended, AppendProperties
  <2> QED
    BY <1>2, <2>1
<1>3. s \in T
  <2> HIDE DEF T
  <2> QED
    BY <1>1, <1>2, InductionOnSequences
<1>4. Chosen(s, A) = Chosen(s, S)
  BY ToSetIs, SameChosen
<1> QED
  BY <1>3, <1>4

-----------------------------------------------------------------------------
(* What is left of an item when its skipped parts are deleted *)

NotSkipped(attrs) == ~HasWord(attrs, "serde", "skip") /\ ~HasWord(attrs, "typeshare", "skip")
UsualParts(parts) == AreParts(parts) /\ \A part \in ToSet(parts) : IsUsual(part.attrs)

LEMMA NoTargetsAcceptAll == \A attrs : AcceptTargetOs(attrs, {}) /\ (IsSkipped(attrs, {}) <=> ~NotSkipped(attrs))
BY DEF AcceptTargetOs, IsSkipped, NotSkipped

LEMMA ErasedAre ==
  ASSUME NEW parts, UsualParts(parts)
  PROVE  /\ Erase(parts) = Unskipped(parts, targetOs) /\ Erase(parts) \in Seq(ToSet(parts))
         /\ ToSet(Erase(parts)) \subseteq ToSet(parts)
         /\ \A part \in ToSet(Erase(parts)) : NotSkipped(part.attrs)
<1> DEFINE A == {part \in ToSet(parts) : /\ IsForTargets(part.attrs)
                                         /\ ~HasWord(part.attrs, "serde", "skip")
                                         /\ ~HasWord(part.attrs, "typeshare", "skip")}
           B == {part \in ToSet(parts) : ~IsSkipped(part.attrs, targetOs)}
<1>1. parts \in Seq(ToSet(parts)) /\ \A part \in ToSet(parts) : IsAttributes(part.attrs) /\ IsUsual(part.attrs)
  BY DEF UsualParts, AreParts
<1>2. \A part \in ToSet(parts) : part \in A <=> part \in B
  BY <1>1, FilterIsMeaning DEF IsSkipped
<1>3. \A part \in A : NotSkipped(part.attrs)
  BY DEF NotSkipped
<1>4. Erase(parts) = Chosen(parts, A) /\ Unskipped(parts, targetOs) = Chosen(parts, B)
  BY DEF Erase, Unskipped
<1> HIDE DEF A, B
<1>5. Chosen(parts, A) = Chosen(parts, B)
  BY <1>1, <1>2, SameChosen
<1>6. Chosen(parts, A) \in Seq(ToSet(parts)) /\ ToSet(Chosen(parts, A)) = ToSet(parts) \cap A
  BY <1>1, ChosenAre
<1> QED
  BY <1>3, <1>4, <1>5, <1>6

LEMMA ErasedStay ==
  ASSUME NEW S, NEW parts \in Seq(S), \A part \in ToSet(parts) : NotSkipped(part.attrs)
  PROVE  Unskipped(parts, {}) = parts
<1> DEFINE A == {part \in ToSet(parts) : ~IsSkipped(part.attrs, {})}
<1>1. ToSet(parts) \subseteq A
  BY NoTargetsAcceptAll
<1> HIDE DEF A
<1>2. Chosen(parts, A) = parts
  BY <1>1, AllChosen
<1> QED
  BY <1>2 DEF Unskipped, A

SameFields(erased, parts, renameAll) ==
  /\ ParseFields(erased, renameAll, {}, TRUE) = ParseFields(parts, renameAll, targetOs, TRUE)
  /\ ParseFields(erased, renameAll, {}, FALSE) = ParseFields(parts, renameAll, targetOs, FALSE)

LEMMA ErasedFieldsParse ==
  ASSUME NEW parts, UsualParts(parts), NEW renameAll
  PROVE  SameFields(Erase(parts), parts, renameAll)
<1>1. Erase(parts) = Unskipped(parts, targetOs) /\ Unskipped(Erase(parts), {}) = Erase(parts)
  BY ErasedAre, ErasedStay
<1> QED
  BY <1>1 DEF ParseFields, SameFields

LEMMA EraseFieldsIs ==
  ASSUME NEW fields, AreFields(fields), UsualParts(fields.list)
  PROVE  LET erased == EraseFields(fields)
         IN  /\ erased.style = fields.style
             /\ fields.style # "Named" => erased = fields
             /\ fields.style = "Named" => erased.list = Erase(fields.list)
             /\ \A renameAll : fields.style # "Unnamed" =>
                  SameFields(erased.list, fields.list, renameAll)
<1>1. CASE fields.style = "Named"
  <2>1. EraseFields(fields).style = "Named" /\ EraseFields(fields).list = Erase(fields.list)
    BY <1>1 DEF EraseFields, AreFields
  <2> QED
    BY <1>1, <2>1, ErasedFieldsParse
<1>2. CASE fields.style = "Unit"
  <2>1. EraseFields(fields) = fields /\ fields.list = <<>>
    BY <1>2 DEF EraseFields, AreFields
  <2>2. \A targets : Unskipped(<<>>, targets) = <<>>
    BY ChosenOfNone DEF Unskipped
  <2> QED
    BY <1>2, <2>1, <2>2 DEF ParseFields, SameFields
<1>3. CASE fields.style = "Unnamed"
  BY <1>3 DEF EraseFields
<1> QED
  BY <1>1, <1>2, <1>3 DEF AreFields

LEMMA ErasedVariantParses ==
  ASSUME NEW variant, {"ident", "attrs", "fields"} \subseteq DOMAIN variant,
         AreFields(variant.fields), UsualParts(variant.fields.list), NEW renameAll
  PROVE  LET erased == [variant EXCEPT !.fields = EraseFields(@)]
         IN  /\ erased.attrs = variant.attrs
             /\ ParseEnumVariant(erased, renameAll, {}) = ParseEnumVariant(variant, renameAll, targetOs)
<1> DEFINE erased == [variant EXCEPT !.fields = EraseFields(@)]
           id == GetIdent(variant.ident, variant.attrs, renameAll)
<1>1. erased.ident = variant.ident /\ erased.attrs = variant.attrs /\ erased.fields = EraseFields(variant.fields)
  OBVIOUS
<1>2. /\ erased.fields.style = variant.fields.style
      /\ variant.fields.style # "Named" => erased.fields = variant.fields
      /\ variant.fields.style = "Named" =>
           ParseFields(erased.fields.list, SerdeRenameAll(variant.attrs), {}, FALSE) =
             ParseFields(variant.fields.list, SerdeRenameAll(variant.attrs), targetOs, FALSE)
  BY <1>1, EraseFieldsIs DEF SameFields
<1> HIDE DEF erased
<1>3. VariantOf(erased, id, {}) = VariantOf(variant, id, targetOs)
  <2> HIDE DEF id
  <2>1. CASE variant.fields.style = "Named"
    BY <1>1, <1>2, <2>1 DEF VariantOf
  <2>2. CASE variant.fields.style # "Named"
    BY <1>1, <1>2, <2>2 DEF VariantOf
  <2> QED
    BY <2>1, <2>2
<1>4. GetIdent(erased.ident, erased.attrs, renameAll) = id
  BY <1>1
<1>5. /\ ParseEnumVariant(erased, renameAll, {}) = VariantOf(erased, id, {})
      /\ ParseEnumVariant(variant, renameAll, targetOs) = VariantOf(variant, id, targetOs)
  BY <1>4 DEF ParseEnumVariant
<1> QED
  BY <1>1, <1>3, <1>5 DEF erased

(* Items that differ in their fields or variants only. *)
IsLike(other, item) ==
  other.kind = item.kind /\ other.ident = item.ident /\ other.attrs = item.attrs /\ other.generics = item.generics

LEMMA LikeShared ==
  ASSUME NEW item, NEW other, IsLike(other, item)
  PROVE  /\ \A kind : Shared(kind, other) = Shared(kind, item)
         /\ \A ty : Alias(other, ty) = Alias(item, ty)
         /\ IsSerializedAs(other) <=> IsSerializedAs(item)
<1>1. \A kind : Shared(kind, other) = Shared(kind, item)
  BY DEF Shared, IsLike
<1> QED
  BY <1>1 DEF Alias, IsSerializedAs, IsLike

LEMMA ErasedStructParses ==
  ASSUME NEW item, item.kind = "struct", IsSyntax(item), UsualParts(item.fields.list)
  PROVE  Parse(Erased(item), {}) = Parse(item, targetOs)
<1> DEFINE erased == Erased(item)
<1>1. erased = [item EXCEPT !.fields = EraseFields(@)]
  BY DEF Erased
<1>2. {"kind", "ident", "attrs", "generics", "fields"} \subseteq DOMAIN item /\ AreFields(item.fields)
  BY DEF IsSyntax
<1>3. IsLike(erased, item) /\ erased.fields = EraseFields(item.fields)
  BY <1>1, <1>2 DEF IsLike
<1> HIDE DEF erased
<1>4. /\ \A kind : Shared(kind, erased) = Shared(kind, item)
      /\ \A ty : Alias(erased, ty) = Alias(item, ty)
      /\ IsSerializedAs(erased) <=> IsSerializedAs(item)
  BY <1>3, LikeShared
<1>5. /\ erased.fields.style = item.fields.style
      /\ item.fields.style # "Named" => erased.fields = item.fields
      /\ item.fields.style # "Unnamed" =>
           ParseFields(erased.fields.list, SerdeRenameAll(item.attrs), {}, TRUE) =
             ParseFields(item.fields.list, SerdeRenameAll(item.attrs), targetOs, TRUE)
  BY <1>2, <1>3, EraseFieldsIs DEF SameFields
<1>6. ParseStruct(erased, {}) = ParseStruct(item, targetOs)
  <2>1. CASE IsSerializedAs(item)
    BY <1>3, <1>4, <2>1 DEF ParseStruct, IsLike
  <2>2. CASE ~IsSerializedAs(item) /\ item.fields.style = "Unnamed"
    BY <1>4, <1>5, <2>2 DEF ParseStruct
  <2>3. CASE ~IsSerializedAs(item) /\ item.fields.style # "Unnamed"
    BY <1>3, <1>4, <1>5, <2>3 DEF ParseStruct, IsLike
  <2> QED
    BY <2>1, <2>2, <2>3
<1> QED
  BY <1>3, <1>6 DEF Parse, IsLike, erased

UsualVariants(variants) ==
  /\ UsualParts(variants)
  /\ \A variant \in ToSet(variants) :
       {"ident", "fields"} \subseteq DOMAIN variant /\ AreFields(variant.fields) /\ UsualParts(variant.fields.list)
ErasedVariants(variants) ==
  LET kept == Erase(variants) IN [i \in DOMAIN kept |-> [kept[i] EXCEPT !.fields = EraseFields(@)]]

LEMMA ErasedVariantsParse ==
  ASSUME NEW variants, UsualVariants(variants), NEW renameAll
  PROVE  LET kept == Unskipped(variants, targetOs)
             erased == Unskipped(ErasedVariants(variants), {})
         IN  [i \in DOMAIN erased |-> ParseEnumVariant(erased[i], renameAll, {})] =
               [i \in DOMAIN kept |-> ParseEnumVariant(kept[i], renameAll, targetOs)]
<1> DEFINE kept == Erase(variants)
           of(variant) == [variant EXCEPT !.fields = EraseFields(@)]
           erased == ErasedVariants(variants)
<1>1. /\ kept = Unskipped(variants, targetOs) /\ kept \in Seq(ToSet(variants))
      /\ ToSet(kept) \subseteq ToSet(variants) /\ \A variant \in ToSet(kept) : NotSkipped(variant.attrs)
  BY ErasedAre DEF UsualVariants
<1>2. DOMAIN kept = 1..Len(kept) /\ Len(kept) \in Nat /\ \A i \in DOMAIN kept : kept[i] \in ToSet(kept)
  BY <1>1, LenProperties DEF ToSet
<1>3. erased = [i \in DOMAIN kept |-> of(kept[i])]
  BY DEF ErasedVariants
<1> HIDE DEF kept, erased
<1>4. ASSUME NEW i \in DOMAIN kept
      PROVE  /\ of(kept[i]).attrs = kept[i].attrs
             /\ ParseEnumVariant(of(kept[i]), renameAll, {}) = ParseEnumVariant(kept[i], renameAll, targetOs)
  <2>1. kept[i] \in ToSet(variants)
    BY <1>1, <1>2
  <2>2. /\ {"ident", "attrs", "fields"} \subseteq DOMAIN kept[i] /\ AreFields(kept[i].fields)
        /\ UsualParts(kept[i].fields.list)
    BY <2>1 DEF UsualVariants, UsualParts, AreParts
  <2> QED
    BY <2>2, ErasedVariantParses
<1> HIDE DEF of
<1>5. erased \in Seq(ToSet(erased)) /\ \A variant \in ToSet(erased) : NotSkipped(variant.attrs)
  <2>1. \A i \in 1..Len(kept) : erased[i] \in ToSet(erased)
    BY <1>2, <1>3 DEF ToSet
  <2>2. erased = [i \in 1..Len(kept) |-> erased[i]]
    BY <1>2, <1>3
  <2>3. erased \in Seq(ToSet(erased))
    BY <1>2, <2>1, <2>2
  <2>4. ASSUME NEW variant \in ToSet(erased) PROVE NotSkipped(variant.attrs)
    <3>1. PICK i \in DOMAIN kept : variant = of(kept[i])
      BY <1>3 DEF ToSet
    <3> QED
      BY <1>1, <1>2, <1>4, <3>1
  <2> QED
    BY <2>3, <2>4
<1>6. Unskipped(erased, {}) = erased
  BY <1>5, ErasedStay
<1>7. [i \in DOMAIN erased |-> ParseEnumVariant(erased[i], renameAll, {})] =
        [i \in DOMAIN kept |-> ParseEnumVariant(kept[i], renameAll, targetOs)]
  <2>1. DOMAIN erased = DOMAIN kept /\ \A i \in DOMAIN kept : erased[i] = of(kept[i])
    BY <1>3
  <2>2. \A i \in DOMAIN kept : ParseEnumVariant(erased[i], renameAll, {}) = ParseEnumVariant(kept[i], renameAll, targetOs)
    BY <1>4, <2>1
  <2> QED
    BY <2>1, <2>2
<1> QED
  BY <1>1, <1>6, <1>7 DEF erased

LEMMA LikeEnum ==
  ASSUME NEW item, NEW other, IsLike(other, item), NEW variants
  PROVE  EnumOf(other, variants) = EnumOf(item, variants)
<1>1. Shared("enum", other) = Shared("enum", item) /\ other.ident = item.ident /\ other.attrs = item.attrs
  BY LikeShared DEF IsLike
<1> QED
  BY <1>1 DEF EnumOf

LEMMA ErasedEnumParses ==
  ASSUME NEW item, item.kind = "enum", IsSyntax(item), UsualVariants(item.variants)
  PROVE  Parse(Erased(item), {}) = Parse(item, targetOs)
<1> DEFINE erased == Erased(item)
           keptErased == Unskipped(erased.variants, {})
           kept == Unskipped(item.variants, targetOs)
           renameAll == SerdeRenameAll(item.attrs)
           of == [i \in DOMAIN kept |-> ParseEnumVariant(kept[i], renameAll, targetOs)]
           ofErased == [i \in DOMAIN keptErased |-> ParseEnumVariant(keptErased[i], renameAll, {})]
<1>1. erased = [item EXCEPT !.variants = ErasedVariants(@)]
  BY DEF Erased, ErasedVariants
<1>2. {"kind", "ident", "attrs", "generics", "variants"} \subseteq DOMAIN item
  BY DEF IsSyntax
<1>3. IsLike(erased, item) /\ erased.variants = ErasedVariants(item.variants)
  BY <1>1, <1>2 DEF IsLike
<1> HIDE DEF erased
<1>4. /\ \A ty : Alias(erased, ty) = Alias(item, ty)
      /\ IsSerializedAs(erased) <=> IsSerializedAs(item)
      /\ erased.attrs = item.attrs /\ erased.kind = "enum"
  BY <1>3, LikeShared DEF IsLike
<1>5. ofErased = of
  BY <1>3, ErasedVariantsParse
<1>6. ParseEnum(erased, {}) =
        IF IsSerializedAs(item) THEN Alias(item, SerializedType(item.attrs, <<>>)) ELSE EnumOf(erased, ofErased)
  BY <1>4 DEF ParseEnum
<1>7. ParseEnum(item, targetOs) =
        IF IsSerializedAs(item) THEN Alias(item, SerializedType(item.attrs, <<>>)) ELSE EnumOf(item, of)
  BY DEF ParseEnum
<1> HIDE DEF of, ofErased
<1>8. EnumOf(erased, ofErased) = EnumOf(item, of)
  BY <1>3, <1>5, LikeEnum
<1>9. Parse(erased, {}) = ParseEnum(erased, {}) /\ Parse(item, targetOs) = ParseEnum(item, targetOs)
  BY <1>4 DEF Parse
<1> QED
  BY <1>6, <1>7, <1>8, <1>9 DEF erased

LEMMA ErasedParses ==
  ASSUME NEW item, IsSyntax(item), \A attrs \in AttrsIn(item) : IsUsual(attrs)
  PROVE  Parse(Erased(item), {}) = Parse(item, targetOs)
<1>1. CASE item.kind = "struct"
  <2>1. AttrsIn(item) = {item.attrs} \cup {item.fields.list[i].attrs : i \in DOMAIN item.fields.list}
    BY <1>1 DEF AttrsIn
  <2>2. UsualParts(item.fields.list)
    BY <1>1, <2>1 DEF UsualParts, IsSyntax, AreFields, ToSet
  <2> QED
    BY <1>1, <2>2, ErasedStructParses
<1>2. CASE item.kind = "enum"
  <2>1. AttrsIn(item) = {item.attrs} \cup
          UNION {{v.attrs} \cup {v.fields.list[i].attrs : i \in DOMAIN v.fields.list} : v \in ToSet(item.variants)}
    BY <1>2 DEF AttrsIn
  <2>2. /\ AreParts(item.variants)
        /\ \A v \in ToSet(item.variants) : {"ident", "fields"} \subseteq DOMAIN v /\ AreFields(v.fields)
    BY <1>2 DEF IsSyntax
  <2>3. UsualParts(item.variants)
    BY <2>1, <2>2 DEF UsualParts
  <2>4. ASSUME NEW v \in ToSet(item.variants) PROVE UsualParts(v.fields.list)
    <3>1. \A i \in DOMAIN v.fields.list : IsUsual(v.fields.list[i].attrs)
      BY <2>1
    <3> QED
      BY <2>2, <3>1 DEF UsualParts, AreFields, ToSet
  <2> QED
    BY <1>2, <2>2, <2>3, <2>4, ErasedEnumParses DEF UsualVariants
<1>3. CASE item.kind \in {"type", "const"}
  BY <1>3 DEF Erased, Parse
<1> QED
  BY <1>1, <1>2, <1>3 DEF IsSyntax

-----------------------------------------------------------------------------
(* What the walk makes of the items of a crate *)

(* The results of parsing items: those that are good, and the failures. *)
Given(items) == {item \in items : item.kind # "use" /\ IsTypeshared(item)}
Goods(items) == {Parse(item, targetOs) : item \in {i \in items : ~IsFailure(Parse(i, targetOs))}}
Bads(items) == {Parse(item, targetOs).failure : item \in {i \in items : IsFailure(Parse(i, targetOs))}}

(* What a crate has, what the current file has for it and what is still to come
   in that file are the results of the files visited. *)
Kept(crate) == IF crate \in DOMAIN crates THEN crates[crate] ELSE NoData
Current(crate) == IF data.crate = crate THEN data ELSE NoData
Coming(crate) == IF data.crate = crate THEN Given(AllItems(todo)) ELSE {}
Visited(crate) == UNION {TypesharedItems(file) : file \in {f \in Sources \ waiting : CrateOfFile(f) = crate}}
IsResult(crate) ==
  /\ ToSet(Kept(crate).items) \cup ToSet(Current(crate).items) \cup Goods(Coming(crate)) = Goods(Visited(crate))
  /\ ToSet(Kept(crate).errors) \cup ToSet(Current(crate).errors) \cup Bads(Coming(crate)) = Bads(Visited(crate))
ResultsInv == phase = "parsing" => \A crate : IsResult(crate)
SkipInv == DataInv /\ ResultsInv

LEMMA ResultsOfBoth ==
  /\ Goods({}) = {} /\ Bads({}) = {} /\ Given({}) = {}
  /\ \A items, others : /\ Goods(items \cup others) = Goods(items) \cup Goods(others)
                        /\ Bads(items \cup others) = Bads(items) \cup Bads(others)
                        /\ Given(items \cup others) = Given(items) \cup Given(others)
<1>1. Goods({}) = {} /\ Bads({}) = {} /\ Given({}) = {}
  BY DEF Goods, Bads, Given
<1>2. ASSUME NEW items, NEW others
      PROVE  /\ Goods(items \cup others) = Goods(items) \cup Goods(others)
             /\ Bads(items \cup others) = Bads(items) \cup Bads(others)
             /\ Given(items \cup others) = Given(items) \cup Given(others)
  <2>1. Goods(items \cup others) = Goods(items) \cup Goods(others)
    BY DEF Goods
  <2>2. Bads(items \cup others) = Bads(items) \cup Bads(others)
    BY DEF Bads
  <2>3. Given(items \cup others) = Given(items) \cup Given(others)
    BY DEF Given
  <2> QED
    BY <2>1, <2>2, <2>3
<1> QED
  BY <1>1, <1>2

LEMMA SameResults ==
  ASSUME UNCHANGED <<world, multiFile, targetOs>>
  PROVE  /\ Sources' = Sources /\ \A file : CrateOfFile(file)' = CrateOfFile(file)
         /\ \A file : TypesharedItems(file)' = TypesharedItems(file)
         /\ \A items : Given(items)' = Given(items) /\ Goods(items)' = Goods(items) /\ Bads(items)' = Bads(items)
         /\ waiting' = waiting => \A crate : Visited(crate)' = Visited(crate)
<1>1. Sources' = Sources /\ \A file : CrateOfFile(file)' = CrateOfFile(file)
  BY DEF Sources, CrateOfFile
<1>2. \A file : TypesharedItems(file)' = TypesharedItems(file)
  BY SameSources
<1>3. \A items : Given(items)' = Given(items) /\ Goods(items)' = Goods(items) /\ Bads(items)' = Bads(items)
  BY DEF Given, Goods, Bads, IsTypeshared
<1>4. waiting' = waiting => \A crate : Visited(crate)' = Visited(crate)
  BY <1>1, <1>2 DEF Visited
<1> QED
  BY <1>1, <1>2, <1>3, <1>4

LEMMA NothingCurrent ==
  ASSUME DataInv, data = NoData
  PROVE  /\ todo = <<>>
         /\ \A crate : /\ ToSet(Current(crate).items) = {} /\ ToSet(Current(crate).errors) = {}
                       /\ Coming(crate) = {}
<1>1. todo = <<>> /\ data.items = <<>> /\ data.errors = <<>> /\ NoData.items = <<>> /\ NoData.errors = <<>>
  BY DEF DataInv, NoData
<1> QED
  BY <1>1, NoItems, ToSetOfNone, ResultsOfBoth DEF Current, Coming

LEMMA VisitFileResults ==
  ASSUME SkipInv, NEW file \in waiting, VisitFile(file), UNCHANGED contextVars
  PROVE  ResultsInv'
<1>1. /\ phase = "parsing" /\ data = NoData /\ waiting' = waiting \ {file} /\ file \in world.files
      /\ CrateOfFile(file) # NoCrate /\ file.marked
      /\ data' = [NoData EXCEPT !.crate = CrateOfFile(file)]
      /\ todo' = IF AcceptTargetOs(file.attrs, targetOs) THEN file.items ELSE <<>>
      /\ UNCHANGED <<phase, crates, world, multiFile, targetOs>>
  BY DEF VisitFile, Walking, contextVars, SkipInv, DataInv
<1>2. /\ Sources' = Sources /\ \A f : CrateOfFile(f)' = CrateOfFile(f)
      /\ \A f : TypesharedItems(f)' = TypesharedItems(f)
      /\ \A items : Given(items)' = Given(items) /\ Goods(items)' = Goods(items) /\ Bads(items)' = Bads(items)
  BY <1>1, SameResults
<1>3. file \in Sources /\ Sources \ waiting' = (Sources \ waiting) \cup {file}
  BY <1>1 DEF Sources
<1>4. \A crate : Visited(crate)' = Visited(crate) \cup IF CrateOfFile(file) = crate THEN TypesharedItems(file) ELSE {}
  BY <1>2, <1>3 DEF Visited
<1>5. Given(AllItems(todo')) = TypesharedItems(file)
  BY <1>1, NoItems, ResultsOfBoth DEF Given, TypesharedItems
<1>6. data'.crate = CrateOfFile(file) /\ data'.items = <<>> /\ data'.errors = <<>>
  BY <1>1 DEF NoData
<1>7. \A crate : /\ ToSet(Current(crate).items)' = {} /\ ToSet(Current(crate).errors)' = {}
                 /\ Coming(crate)' = IF CrateOfFile(file) = crate THEN TypesharedItems(file) ELSE {}
                 /\ Kept(crate)' = Kept(crate)
  <2>1. NoData.items = <<>> /\ NoData.errors = <<>>
    BY DEF NoData
  <2> QED
    BY <1>1, <1>2, <1>5, <1>6, <2>1, ToSetOfNone DEF Current, Coming, Kept
<1>8. ASSUME NEW crate PROVE IsResult(crate)'
  <2>1. IsResult(crate)
    BY <1>1 DEF SkipInv, ResultsInv
  <2>2. /\ ToSet(Kept(crate).items) = Goods(Visited(crate))
        /\ ToSet(Kept(crate).errors) = Bads(Visited(crate))
    BY <1>1, <2>1, NothingCurrent, ResultsOfBoth DEF IsResult, SkipInv
  <2> DEFINE more == IF CrateOfFile(file) = crate THEN TypesharedItems(file) ELSE {}
  <2>3. /\ Goods(Visited(crate)') = Goods(Visited(crate)) \cup Goods(more)
        /\ Bads(Visited(crate)') = Bads(Visited(crate)) \cup Bads(more)
    BY <1>4, ResultsOfBoth
  <2>4. /\ ToSet(Kept(crate).items)' = ToSet(Kept(crate).items)
        /\ ToSet(Kept(crate).errors)' = ToSet(Kept(crate).errors) /\ Coming(crate)' = more
        /\ ToSet(Current(crate).items)' = {} /\ ToSet(Current(crate).errors)' = {}
    BY <1>7
  <2>5. /\ Goods(Coming(crate))' = Goods(Coming(crate)') /\ Bads(Coming(crate))' = Bads(Coming(crate)')
        /\ Goods(Visited(crate))' = Goods(Visited(crate)') /\ Bads(Visited(crate))' = Bads(Visited(crate)')
    BY <1>1 DEF Goods, Bads
  <2> QED
    BY <2>2, <2>3, <2>4, <2>5 DEF IsResult
<1> QED
  BY <1>8 DEF ResultsInv

(* An item is visited: its result is added. *)
LEMMA HeadVisited ==
  ASSUME SkipInv, UNCHANGED <<contextVars, waiting, crates>>, phase = "parsing",
         todo # <<>>, Head(todo).kind # "mod", todo' = Tail(todo), data'.crate = data.crate,
         ToSet(data'.items) = ToSet(data.items) \cup Goods(Given({Head(todo)})),
         ToSet(data'.errors) = ToSet(data.errors) \cup Bads(Given({Head(todo)}))
  PROVE  ResultsInv'
<1> DEFINE head == Head(todo)
<1>1. UNCHANGED <<world, multiFile, targetOs, waiting, crates>> /\ todo \in Seq(Items)
  BY DEF contextVars, SkipInv, DataInv
<1>2. AllItems(todo) = {head} \cup AllItems(todo')
  <2>1. head \in Items
    BY <1>1, HeadTailProperties
  <2>2. Within[head] = {head}
    BY <2>1, WithinItem
  <2> QED
    BY <1>1, <2>2, AllItemsOfHead
<1> HIDE DEF head
<1>3. /\ \A items : Given(items)' = Given(items) /\ Goods(items)' = Goods(items) /\ Bads(items)' = Bads(items)
      /\ \A crate : Visited(crate)' = Visited(crate)
  BY <1>1, SameResults
<1>4. Given(AllItems(todo)) = Given({head}) \cup Given(AllItems(todo'))
  BY <1>2, ResultsOfBoth
<1>5. ASSUME NEW crate PROVE IsResult(crate)'
  <2> DEFINE more == Given({head})
             rest == IF data.crate = crate THEN Given(AllItems(todo')) ELSE {}
  <2>1. IsResult(crate)
    BY DEF SkipInv, ResultsInv
  <2>2. Coming(crate)' = rest /\ Kept(crate)' = Kept(crate)
    BY <1>1, <1>3 DEF Coming, Kept
  <2>3. /\ Goods(Coming(crate))' = Goods(rest) /\ Bads(Coming(crate))' = Bads(rest)
        /\ Goods(Visited(crate))' = Goods(Visited(crate)) /\ Bads(Visited(crate))' = Bads(Visited(crate))
    <3>1. /\ Goods(Coming(crate))' = Goods(Coming(crate)') /\ Bads(Coming(crate))' = Bads(Coming(crate)')
          /\ Goods(Visited(crate))' = Goods(Visited(crate)') /\ Bads(Visited(crate))' = Bads(Visited(crate)')
      BY <1>1 DEF Goods, Bads
    <3> HIDE DEF rest
    <3> QED
      BY <1>3, <2>2, <3>1
  <2>4. CASE data.crate # crate
    <3>1. Current(crate)' = NoData /\ Current(crate) = NoData /\ rest = Coming(crate)
      BY <2>4 DEF Current, Coming
    <3>2. /\ ToSet(Current(crate).items)' = ToSet(Current(crate).items)
          /\ ToSet(Current(crate).errors)' = ToSet(Current(crate).errors)
          /\ ToSet(Kept(crate).items)' = ToSet(Kept(crate).items)
          /\ ToSet(Kept(crate).errors)' = ToSet(Kept(crate).errors)
      BY <2>2, <3>1
    <3> HIDE DEF rest
    <3> QED
      BY <2>1, <2>3, <3>1, <3>2 DEF IsResult
  <2>5. CASE data.crate = crate
    <3>1. Current(crate)' = data' /\ Current(crate) = data /\ Coming(crate) = more \cup rest
      BY <1>4, <2>5 DEF Current, Coming
    <3>2. /\ ToSet(Current(crate).items)' = ToSet(Current(crate).items) \cup Goods(more)
          /\ ToSet(Current(crate).errors)' = ToSet(Current(crate).errors) \cup Bads(more)
          /\ ToSet(Kept(crate).items)' = ToSet(Kept(crate).items)
          /\ ToSet(Kept(crate).errors)' = ToSet(Kept(crate).errors)
      BY <2>2, <3>1 DEF head
    <3> HIDE DEF rest, more
    <3>3. /\ Goods(Coming(crate)) = Goods(more) \cup Goods(rest)
          /\ Bads(Coming(crate)) = Bads(more) \cup Bads(rest)
      BY <3>1, ResultsOfBoth
    <3> QED
      BY <2>1, <2>3, <3>2, <3>3 DEF IsResult
  <2> QED
    BY <2>4, <2>5
<1> QED
  BY <1>5 DEF ResultsInv

LEMMA VisitItemResults ==
  ASSUME SkipInv, VisitItem, UNCHANGED contextVars
  PROVE  ResultsInv'
<1> DEFINE head    == Head(todo)
           shared  == IsTypeshared(head)
           parsed  == Parse(head, targetOs)
<1>1. /\ head \in Parsables /\ Tail(todo) \in Seq(Items) /\ phase = "parsing"
      /\ data # NoData /\ targetOs \in TargetSets
  BY VisitingParsesItems DEF VisitItem, SkipInv
<1>2. PICK imports :
        data' = [data EXCEPT
                   !.imports = @ \cup imports,
                   !.items  = IF shared /\ ~IsFailure(parsed) THEN Append(@, parsed) ELSE @,
                   !.errors = IF shared /\ IsFailure(parsed) THEN Append(@, parsed.failure) ELSE @]
  BY DEF VisitItem
<1>3. todo # <<>> /\ todo' = Tail(todo) /\ UNCHANGED <<waiting, crates, contextVars>> /\ IsParsedData(data)
  BY DEF VisitItem, Visiting, SkipInv, DataInv
<1>4. head.kind \notin {"mod", "use"}
  BY <1>1 DEF Parsables
<1>5. IF IsFailure(parsed) THEN parsed.failure \in Errors ELSE parsed \in ParsedItems
  BY <1>1, ParsedIsParsed
<1>6. /\ Goods(Given({head})) = IF shared /\ ~IsFailure(parsed) THEN {parsed} ELSE {}
      /\ Bads(Given({head})) = IF shared /\ IsFailure(parsed) THEN {parsed.failure} ELSE {}
  <2>1. Given({head}) = IF shared THEN {head} ELSE {}
    BY <1>4 DEF Given
  <2>2. /\ Goods({head}) = IF ~IsFailure(parsed) THEN {parsed} ELSE {}
        /\ Bads({head}) = IF IsFailure(parsed) THEN {parsed.failure} ELSE {}
    BY DEF Goods, Bads
  <2> HIDE DEF shared, parsed, head
  <2> QED
    BY <2>1, <2>2, ResultsOfBoth
<1> HIDE DEF shared, parsed
<1>7. /\ data'.items = (IF shared /\ ~IsFailure(parsed) THEN Append(data.items, parsed) ELSE data.items)
      /\ data'.errors = (IF shared /\ IsFailure(parsed) THEN Append(data.errors, parsed.failure) ELSE data.errors)
      /\ data'.crate = data.crate
  BY <1>2, <1>3 DEF IsParsedData, NoData
<1>8. ToSet(data'.items) = ToSet(data.items) \cup Goods(Given({head}))
  <2>1. CASE shared /\ ~IsFailure(parsed)
    <3>1. ToSet(Append(data.items, parsed)) = ToSet(data.items) \cup {parsed}
      BY <1>3, <1>5, <2>1, ToSetOfAppended DEF IsParsedData
    <3> QED
      BY <1>6, <1>7, <2>1, <3>1
  <2>2. CASE ~(shared /\ ~IsFailure(parsed))
    BY <1>6, <1>7, <2>2
  <2> QED
    BY <2>1, <2>2
<1>9. ToSet(data'.errors) = ToSet(data.errors) \cup Bads(Given({head}))
  <2>1. CASE shared /\ IsFailure(parsed)
    <3>1. ToSet(Append(data.errors, parsed.failure)) = ToSet(data.errors) \cup {parsed.failure}
      BY <1>3, <1>5, <2>1, ToSetOfAppended DEF IsParsedData
    <3> QED
      BY <1>6, <1>7, <2>1, <3>1
  <2>2. CASE ~(shared /\ IsFailure(parsed))
    BY <1>6, <1>7, <2>2
  <2> QED
    BY <2>1, <2>2
<1> QED
  BY <1>1, <1>3, <1>4, <1>7, <1>8, <1>9, HeadVisited

LEMMA VisitItemUseResults ==
  ASSUME SkipInv, VisitItemUse, UNCHANGED contextVars
  PROVE  ResultsInv'
<1>1. PICK imports : data' = [data EXCEPT !.imports = @ \cup imports]
  BY DEF VisitItemUse
<1>2. /\ phase = "parsing" /\ todo # <<>> /\ Head(todo).kind = "use" /\ todo' = Tail(todo)
      /\ UNCHANGED <<waiting, crates>> /\ IsParsedData(data)
  BY DEF VisitItemUse, Visiting, SkipInv, DataInv
<1>3. data'.items = data.items /\ data'.errors = data.errors /\ data'.crate = data.crate
  BY <1>1, <1>2 DEF IsParsedData, NoData
<1>4. Given({Head(todo)}) = {}
  BY <1>2 DEF Given
<1>5. Goods(Given({Head(todo)})) = {} /\ Bads(Given({Head(todo)})) = {}
  BY <1>4, ResultsOfBoth
<1> QED
  BY <1>2, <1>3, <1>5, HeadVisited

LEMMA VisitItemModResults ==
  ASSUME SkipInv, VisitItemMod, UNCHANGED contextVars
  PROVE  ResultsInv'
<1>1. /\ phase = "parsing" /\ todo # <<>> /\ Head(todo).kind = "mod" /\ todo \in Seq(Items)
      /\ todo' = Head(todo).items \o Tail(todo)
      /\ UNCHANGED <<phase, waiting, data, crates, world, multiFile, targetOs>>
  BY DEF VisitItemMod, Visiting, contextVars, SkipInv, DataInv
<1>2. AllItems(todo') = AllItems(todo)
  BY <1>1, AllItemsOfModule
<1>3. \A crate : IsResult(crate)' <=> IsResult(crate)
  <2> TAKE crate
  <2>1. Visited(crate)' = Visited(crate) /\ \A items : Given(items)' = Given(items)
    BY <1>1, SameResults
  <2>2. Coming(crate)' = Coming(crate) /\ Kept(crate)' = Kept(crate) /\ Current(crate)' = Current(crate)
    BY <1>1, <1>2, <2>1 DEF Coming, Kept, Current
  <2> QED
    BY <1>1, <2>1, <2>2 DEF IsResult, Goods, Bads
<1> QED
  BY <1>1, <1>3 DEF SkipInv, ResultsInv

LEMMA PassOverResults ==
  ASSUME SkipInv, NEW file \in waiting, PassOver(file), UNCHANGED contextVars
  PROVE  ResultsInv'
<1>1. /\ phase = "parsing" /\ waiting' = waiting \ {file} /\ file \notin Sources
      /\ UNCHANGED <<phase, todo, data, crates, world, multiFile, targetOs>>
  BY DEF PassOver, Walking, contextVars, Sources
<1>2. /\ Sources' = Sources /\ \A f : CrateOfFile(f)' = CrateOfFile(f)
      /\ \A f : TypesharedItems(f)' = TypesharedItems(f)
      /\ \A items : Given(items)' = Given(items)
  BY <1>1, SameResults
<1>3. Sources' \ waiting' = Sources \ waiting
  BY <1>1, <1>2
<1>4. ASSUME NEW crate PROVE IsResult(crate)'
  <2>1. IsResult(crate)
    BY <1>1 DEF SkipInv, ResultsInv
  <2>2. Visited(crate)' = Visited(crate)
    BY <1>2, <1>3 DEF Visited
  <2>3. Coming(crate)' = Coming(crate) /\ Kept(crate)' = Kept(crate) /\ Current(crate)' = Current(crate)
    BY <1>1, <1>2 DEF Coming, Kept, Current
  <2> QED
    BY <1>1, <2>1, <2>2, <2>3 DEF IsResult, Goods, Bads
<1> QED
  BY <1>4 DEF ResultsInv

(* What the current file has is added to what its crate has. *)
LEMMA EndVisitResults ==
  ASSUME SkipInv, EndVisit, UNCHANGED contextVars
  PROVE  ResultsInv'
<1> DEFINE crate == data.crate
           old == IF crate \in DOMAIN crates THEN crates[crate] ELSE [NoData EXCEPT !.crate = crate]
<1>1. PICK imports : crates' = IF IsEmpty(data) THEN crates
                               ELSE Put(crates, crate, Merge(old, [data EXCEPT !.imports = imports]))
  BY DEF EndVisit
<1> DEFINE new == [data EXCEPT !.imports = imports]
           merged == Merge(old, new)
<1>2. /\ phase = "parsing" /\ data # NoData /\ todo = <<>> /\ data' = NoData
      /\ UNCHANGED <<phase, waiting, todo, world, multiFile, targetOs>>
  BY DEF EndVisit, contextVars
<1>3. /\ \A items : Given(items)' = Given(items) /\ Goods(items)' = Goods(items) /\ Bads(items)' = Bads(items)
      /\ \A c : Visited(c)' = Visited(c)
  BY <1>2, SameResults
<1>4. IsParsedData(data) /\ DataInv /\ data.crate # NoCrate
  BY <1>2 DEF SkipInv, DataInv
<1>5. IsParsedData(old) /\ IsParsedData(new) /\ new.items = data.items /\ new.errors = data.errors
  <2>1. IsParsedData([NoData EXCEPT !.crate = crate])
    BY EmptySeq DEF IsParsedData, NoData
  <2>2. crate \in DOMAIN crates => IsParsedData(crates[crate])
    BY <1>2, <1>4 DEF DataInv, IsParsedData
  <2>3. IsParsedData(new) /\ new.items = data.items /\ new.errors = data.errors
    BY <1>4 DEF IsParsedData, NoData
  <2> QED
    BY <2>1, <2>2, <2>3
<1>6. old.items = Kept(crate).items /\ old.errors = Kept(crate).errors
  BY DEF Kept, NoData
<1>7. Current(crate) = data
  BY DEF Current
<1>8. /\ ToSet(merged.items) = ToSet(old.items) \cup ToSet(data.items)
      /\ ToSet(merged.errors) = ToSet(old.errors) \cup ToSet(data.errors)
  <2>1. merged.items = old.items \o data.items /\ merged.errors = old.errors \o data.errors
    <3> HIDE DEF old, new
    <3> QED
      BY <1>5, MergedIsParsedData
  <2>2. /\ old.items \in Seq(ParsedItems) /\ data.items \in Seq(ParsedItems)
        /\ old.errors \in Seq(Errors) /\ data.errors \in Seq(Errors)
    BY <1>4, <1>5 DEF IsParsedData
  <2> HIDE DEF old, merged
  <2> QED
    BY <2>1, <2>2, ToSetOfBoth
<1>9. crates' = IF IsEmpty(data) THEN crates ELSE Put(crates, data.crate, merged)
  BY <1>1
<1> HIDE DEF old, new, merged
<1>10. ASSUME NEW c PROVE IsResult(c)'
  <2> DEFINE kept == IF c \in DOMAIN crates' THEN crates'[c] ELSE NoData
  <2>1. Kept(c)' = kept
    BY DEF Kept
  <2>2. IsResult(c)
    BY <1>2 DEF SkipInv, ResultsInv
  <2>3. Coming(c)' = {} /\ Coming(c) = {} /\ ToSet(Current(c).items)' = {} /\ ToSet(Current(c).errors)' = {}
    <3>1. Given(AllItems(todo)) = {} /\ Given(AllItems(todo))' = {}
      <4>1. AllItems(todo) = {} /\ AllItems(todo)' = {}
        BY <1>2, NoItems
      <4>2. Given({})' = {} /\ Given({}) = {}
        BY DEF Given
      <4> QED
        BY <4>1, <4>2 DEF Given
    <3>2. NoData.items = <<>> /\ NoData.errors = <<>>
      BY DEF NoData
    <3> QED
      BY <1>2, <1>3, <3>1, <3>2, ToSetOfNone DEF Coming, Current
  <2>4. /\ ToSet(kept.items) = ToSet(Kept(c).items) \cup ToSet(Current(c).items)
        /\ ToSet(kept.errors) = ToSet(Kept(c).errors) \cup ToSet(Current(c).errors)
    <3>1. CASE c # data.crate
      <4>1. kept = Kept(c)
        BY <1>9, <3>1 DEF Kept, Put, Over
      <4>2. Current(c).items = <<>> /\ Current(c).errors = <<>>
        BY <3>1 DEF Current, NoData
      <4> QED
        BY <4>1, <4>2, ToSetOfNone
    <3>2. CASE c = data.crate /\ IsEmpty(data)
      <4>1. kept = Kept(c) /\ Current(c).items = <<>> /\ Current(c).errors = <<>>
        BY <1>7, <1>9, <3>2 DEF Kept, IsEmpty
      <4> QED
        BY <4>1, ToSetOfNone
    <3>3. CASE c = data.crate /\ ~IsEmpty(data)
      <4>1. kept = merged
        BY <1>9, <3>3 DEF Put, Over
      <4> HIDE DEF kept
      <4> QED
        BY <1>6, <1>7, <1>8, <3>3, <4>1
    <3> QED
      BY <3>1, <3>2, <3>3
  <2> HIDE DEF kept
  <2>5. /\ Goods(Coming(c))' = {} /\ Goods(Coming(c)) = {} /\ Bads(Coming(c))' = {} /\ Bads(Coming(c)) = {}
        /\ Goods(Visited(c))' = Goods(Visited(c)) /\ Bads(Visited(c))' = Bads(Visited(c))
    <3>1. /\ Goods(Coming(c))' = Goods(Coming(c)') /\ Bads(Coming(c))' = Bads(Coming(c)')
          /\ Goods(Visited(c))' = Goods(Visited(c)') /\ Bads(Visited(c))' = Bads(Visited(c)')
      BY <1>2 DEF Goods, Bads
    <3> QED
      BY <1>3, <2>3, <3>1, ResultsOfBoth
  <2>6. /\ ToSet(Kept(c).items)' = ToSet(Kept(c).items) \cup ToSet(Current(c).items)
        /\ ToSet(Kept(c).errors)' = ToSet(Kept(c).errors) \cup ToSet(Current(c).errors)
    BY <2>1, <2>4
  <2> QED
    BY <2>2, <2>3, <2>5, <2>6 DEF IsResult
<1> QED
  BY <1>10 DEF ResultsInv

LEMMA WalkResults ==
  ASSUME SkipInv, WalkFiles, phase' = "parsing"
  PROVE  ResultsInv'
<1>1. UNCHANGED contextVars
  BY DEF WalkFiles, Walk
<1>2. ASSUME NEW file \in waiting, PassOver(file) PROVE ResultsInv'
  BY <1>1, <1>2, PassOverResults
<1>3. ASSUME NEW file \in waiting PROVE ~FailToParse(file)
  BY DEF FailToParse
<1>4. ASSUME NEW file \in waiting, VisitFile(file) PROVE ResultsInv'
  BY <1>1, <1>4, VisitFileResults
<1> QED
  BY <1>1, <1>2, <1>3, <1>4, VisitItemResults, VisitItemUseResults, VisitItemModResults,
     EndVisitResults DEF WalkFiles, Walk

LEMMA SkipStep ==
  ASSUME SkipInv, [Next]_vars
  PROVE  SkipInv'
<1>1. DataInv'
  BY DataStep DEF SkipInv
<1>2. CASE phase' # "parsing"
  BY <1>1, <1>2 DEF SkipInv, ResultsInv
<1>3. CASE GenerateTypes /\ phase' = "parsing"
  <2>1. /\ data' = NoData /\ crates' = <<>> /\ waiting' = world'.files
    BY <1>3 DEF GenerateTypes, SkipInv, DataInv, parseVars
  <2>2. Sources' \ waiting' = {}
    BY <2>1 DEF Sources
  <2>3. ASSUME NEW c PROVE IsResult(c)'
    <3>1. Visited(c)' = {}
      BY <2>2 DEF Visited
    <3>2. Goods({})' = {} /\ Bads({})' = {} /\ Given({})' = {}
      BY DEF Goods, Bads, Given
    <3>3. Goods(Visited(c))' = {} /\ Bads(Visited(c))' = {}
      BY <3>1, <3>2 DEF Goods, Bads
    <3>4. todo' = <<>>
      BY <1>1, <2>1 DEF DataInv
    <3>5. Coming(c)' = {}
      BY <3>2, <3>4, NoItems DEF Coming
    <3>6. Goods(Coming(c))' = {} /\ Bads(Coming(c))' = {}
      BY <3>2, <3>5 DEF Goods, Bads
    <3>7. Kept(c)' = NoData /\ Current(c)' = NoData
      BY <2>1 DEF Kept, Current
    <3>8. /\ ToSet(Kept(c).items)' = {} /\ ToSet(Current(c).items)' = {}
          /\ ToSet(Kept(c).errors)' = {} /\ ToSet(Current(c).errors)' = {}
      BY <3>7, ToSetOfNone DEF NoData
    <3> QED
      BY <3>3, <3>6, <3>8 DEF IsResult
  <2> QED
    BY <1>1, <2>3 DEF SkipInv, ResultsInv
<1>4. CASE WalkFiles
  BY <1>1, <1>2, <1>4, WalkResults DEF SkipInv
<1>5. CASE GenerateConfig \/ Reconcile \/ CheckParseErrors \/ WriteNextItem \/ EndModule \/ Finish
           \/ RunAgain \/ \E crate \in DOMAIN crates : BeginModule(crate)
  <2>1. phase' # "parsing"
    BY <1>5 DEF GenerateConfig, StoreConfig, Reconcile, CheckParseErrors, WriteNextItem, EndModule,
                Finish, RunAgain, BeginModule, AddText
  <2> QED
    BY <1>2, <2>1
<1>6. CASE UNCHANGED vars
  <2>1. UNCHANGED <<world, multiFile, targetOs, phase, waiting, todo, data, crates>>
    BY <1>6 DEF vars, parseVars, contextVars
  <2>2. ASSUME NEW c, IsResult(c) PROVE IsResult(c)'
    <3>1. Visited(c)' = Visited(c) /\ \A items : Given(items)' = Given(items)
      BY <2>1, SameResults
    <3>2. Coming(c)' = Coming(c) /\ Kept(c)' = Kept(c) /\ Current(c)' = Current(c)
      BY <2>1, <3>1 DEF Coming, Kept, Current
    <3> QED
      BY <2>1, <2>2, <3>1, <3>2 DEF IsResult, Goods, Bads
  <2> QED
    BY <1>1, <2>1, <2>2 DEF SkipInv, ResultsInv
<1> QED
  BY <1>2, <1>3, <1>4, <1>5, <1>6 DEF Next, Stopped

(* The items the targets keep, each without what is erased, are those parsed. *)
LEMMA ErasedAreParsed ==
  ASSUME DataInv, NEW file \in Sources, IsUsual(file.attrs),
         \A item \in AllItems(file.items) :
           item.kind # "use" => \A attrs \in AttrsIn(item) : IsUsual(attrs)
  PROVE  {i \in AllItems(file.items) :
            /\ i.kind # "use" /\ HasTypeshareAnnotation(i.attrs)
            /\ IsForTargets(i.attrs) /\ IsForTargets(file.attrs)} = TypesharedItems(file)
         /\ \A item \in TypesharedItems(file) : Parse(Erased(item), {}) = Parse(item, targetOs)
<1>1. file.items \in Seq(Items) /\ IsAttributes(file.attrs)
  BY FilesAssumption, SyntaxAssumption DEF FilesAssumption, SyntaxAssumption, Sources, DataInv
<1>2. ASSUME NEW item \in AllItems(file.items), item.kind # "use"
      PROVE  IsSyntax(item)
  BY <1>1, <1>2, AllAreFlat, SyntaxAssumption DEF SyntaxAssumption, Flat
<1>3. ASSUME NEW item \in AllItems(file.items), item.kind # "use"
      PROVE  AcceptTargetOs(item.attrs, targetOs) <=> IsForTargets(item.attrs)
  <2>1. item.attrs \in AttrsIn(item)
    BY DEF AttrsIn
  <2>2. IsAttributes(item.attrs) /\ IsUsual(item.attrs)
    BY <1>2, <1>3, <2>1 DEF IsSyntax
  <2> QED
    BY <2>2, FilterIsMeaning
<1>4. AcceptTargetOs(file.attrs, targetOs) <=> IsForTargets(file.attrs)
  BY <1>1, FilterIsMeaning
<1>5. ASSUME NEW item \in TypesharedItems(file) PROVE Parse(Erased(item), {}) = Parse(item, targetOs)
  <2>1. item \in AllItems(file.items) /\ item.kind # "use"
    BY DEF TypesharedItems
  <2> QED
    BY <1>2, <2>1, ErasedParses
<1> QED
  BY <1>3, <1>4, <1>5 DEF TypesharedItems, IsTypeshared

(* Whatever is skipped, and whatever cfg keeps from the targets: after the
   walk each crate has what parsing its sources would yield had all that been
   deleted from them. *)
THEOREM SkippedIsErased == Spec => []SkippingIsErasing
<1>1. Init => SkipInv
  <2> SUFFICES ASSUME Init PROVE SkipInv
    OBVIOUS
  <2> QED
    BY DataInitially DEF SkipInv, ResultsInv, Init
<1>2. SkipInv /\ [Next]_vars => SkipInv'
  BY SkipStep
<1>3. SkipInv => SkippingIsErasing
  <2> SUFFICES ASSUME SkipInv, Walked,
                      \A file \in Sources : \A item \in AllItems(file.items) :
                        item.kind # "use" => \A attrs \in AttrsIn(item) \cup {file.attrs} : IsUsual(attrs),
                      NEW c \in {CrateOfFile(file) : file \in Sources}
               PROVE  LET meant == {Parse(Erased(item), {}) :
                              item \in UNION {{i \in AllItems(file.items) :
                                                 /\ i.kind # "use" /\ HasTypeshareAnnotation(i.attrs)
                                                 /\ IsForTargets(i.attrs) /\ IsForTargets(file.attrs)} :
                                                file \in {f \in Sources : CrateOfFile(f) = c}}}
                          parsed == IF c \in DOMAIN crates THEN crates[c] ELSE NoData
                      IN  /\ ToSet(parsed.items) = {m \in meant : ~IsFailure(m)}
                          /\ ToSet(parsed.errors) = {m.failure : m \in {n \in meant : IsFailure(n)}}
    BY DEF SkippingIsErasing
  <2> DEFINE given(file) == {i \in AllItems(file.items) :
                               /\ i.kind # "use" /\ HasTypeshareAnnotation(i.attrs)
                               /\ IsForTargets(i.attrs) /\ IsForTargets(file.attrs)}
             files == {f \in Sources : CrateOfFile(f) = c}
             meant == {Parse(Erased(item), {}) : item \in UNION {given(file) : file \in files}}
  <2>1. /\ phase = "parsing" /\ waiting = {} /\ data = NoData /\ DataInv /\ IsResult(c)
    BY DEF Walked, Walking, SkipInv, ResultsInv
  <2>2. /\ ToSet(Kept(c).items) = Goods(Visited(c)) /\ ToSet(Kept(c).errors) = Bads(Visited(c))
    BY <2>1, NothingCurrent, ResultsOfBoth DEF IsResult
  <2>3. ASSUME NEW file \in files
        PROVE  /\ given(file) = TypesharedItems(file)
               /\ \A item \in TypesharedItems(file) : Parse(Erased(item), {}) = Parse(item, targetOs)
    <3>1. CASE \E item \in AllItems(file.items) : item.kind # "use"
      <4>1. /\ IsUsual(file.attrs)
            /\ \A item \in AllItems(file.items) :
                 item.kind # "use" => \A attrs \in AttrsIn(item) : IsUsual(attrs)
        BY <3>1
      <4> QED
        BY <2>1, <4>1, ErasedAreParsed
    <3>2. CASE \A item \in AllItems(file.items) : item.kind = "use"
      BY <3>2 DEF TypesharedItems
    <3> QED
      BY <3>1, <3>2
  <2>4. UNION {given(file) : file \in files} = Visited(c)
    <3>1. files = {f \in Sources \ waiting : CrateOfFile(f) = c}
      BY <2>1
    <3> HIDE DEF given
    <3> QED
      BY <2>3, <3>1 DEF Visited
  <2>5. \A item \in Visited(c) : Parse(Erased(item), {}) = Parse(item, targetOs)
    BY <2>1, <2>3 DEF Visited
  <2> HIDE DEF given, files
  <2>6. meant = {Parse(item, targetOs) : item \in Visited(c)}
    BY <2>4, <2>5
  <2>7. {m \in meant : ~IsFailure(m)} = Goods(Visited(c))
    <3> HIDE DEF meant
    <3> QED
      BY <2>6 DEF Goods
  <2>8. {m.failure : m \in {n \in meant : IsFailure(n)}} = Bads(Visited(c))
    <3> HIDE DEF meant
    <3> QED
      BY <2>6 DEF Bads
  <2> QED
    BY <2>2, <2>7, <2>8 DEF Kept, given, files
<1> QED
  BY <1>1, <1>2, <1>3, PTL DEF Spec

==============================================================================

---------------------------- MODULE TopsortProofs ----------------------------
(***************************************************************************)
(* Proofs about Topsort, for item lists of every length and content. They  *)
(* rest on what ToposortProofs and AlgorithmProofs prove of the two        *)
(* functions topsort calls.                                                *)
(***************************************************************************)
EXTENDS Topsort, WellFoundedInduction, FiniteSetTheorems, SequenceTheorems, TLAPS

TP == INSTANCE ToposortProofs WITH Graphs <- {Dag(list) : list \in ItemLists}
SP == INSTANCE AlgorithmProofs WITH Items <- AllItems, Slices <- ItemLists,
                                    input <- things, perm <- res

(* The dependency lists stay those of the items given, toposort_impl has its
   own invariant throughout and is done when sort_by_indices is called, which
   then has its own, on items that are only moved. *)
IInv ==
  /\ things \in ItemLists /\ graph = Dag(things)
  /\ TP!IInv
  /\ ~sorting => data = things /\ idx = 1 /\ cur = 0
  /\ sorting => TP!Done /\ SP!IInv
  /\ Range(data) = Range(things)

-----------------------------------------------------------------------------
(* Sequences and numbers *)

LEMMA RangeConcat ==
  ASSUME NEW V, NEW s \in Seq(V), NEW t \in Seq(V)
  PROVE  s \o t \in Seq(V) /\ Range(s \o t) = Range(s) \cup Range(t)
<1>1. /\ s \o t \in Seq(V)
      /\ Len(s \o t) = Len(s) + Len(t)
      /\ \A i \in 1..(Len(s) + Len(t)) :
           (s \o t)[i] = IF i <= Len(s) THEN s[i] ELSE t[i - Len(s)]
  BY ConcatProperties
<1>2. ASSUME NEW i \in 1..Len(s) PROVE i \in 1..(Len(s) + Len(t)) /\ (s \o t)[i] = s[i]
  BY <1>1
<1>3. ASSUME NEW j \in 1..Len(t)
      PROVE  Len(s) + j \in 1..(Len(s) + Len(t)) /\ (s \o t)[Len(s) + j] = t[j]
  <2> DEFINE i == Len(s) + j
  <2>1. i \in 1..(Len(s) + Len(t)) /\ ~(i <= Len(s)) /\ i - Len(s) = j
    OBVIOUS
  <2> QED
    BY <1>1, <2>1
<1>4. ASSUME NEW i \in 1..(Len(s) + Len(t))
      PROVE  i \in 1..Len(s) \/ \E j \in 1..Len(t) : i = Len(s) + j
  <2> DEFINE j == i - Len(s)
  <2>1. i \notin 1..Len(s) => j \in 1..Len(t) /\ i = Len(s) + j
    OBVIOUS
  <2> QED
    BY <2>1
<1>5. Range(s \o t) = {(s \o t)[i] : i \in 1..(Len(s) + Len(t))}
  BY <1>1, RangeEquality
<1>6. Range(s) = {s[i] : i \in 1..Len(s)} /\ Range(t) = {t[j] : j \in 1..Len(t)}
  BY RangeEquality
<1>7. Range(s \o t) \subseteq Range(s) \cup Range(t)
  <2> SUFFICES ASSUME NEW i \in 1..(Len(s) + Len(t))
               PROVE  (s \o t)[i] \in Range(s) \cup Range(t)
    BY <1>5
  <2> QED
    BY <1>2, <1>3, <1>4, <1>6
<1>8. \A i \in 1..Len(s) : s[i] \in Range(s \o t)
  BY <1>2, <1>5, Zenon
<1>9. \A j \in 1..Len(t) : t[j] \in Range(s \o t)
  BY <1>3, <1>5, Zenon
<1> QED
  BY <1>1, <1>6, <1>7, <1>8, <1>9, Zenon

(* The concatenation of n sequences, as FlattenSeq builds it. *)
LEMMA FlattenExists ==
  ASSUME NEW V, NEW seqs \in Seq(Seq(V)), NEW n \in Nat, n <= Len(seqs)
  PROVE  \E f : f = [i \in 1..n |-> IF i = 1 THEN seqs[i] ELSE f[i - 1] \o seqs[i]]
<1> DEFINE Part(f, i) == IF i = 1 THEN seqs[i] ELSE f[i - 1] \o seqs[i]
           Bad == {m \in Nat : m <= Len(seqs) /\ ~\E f : f = [i \in 1..m |-> Part(f, i)]}
<1> SUFFICES ASSUME Bad # {} PROVE FALSE
  OBVIOUS
<1>1. PICK m \in Bad : \A k \in Bad : ~(<<k, m>> \in OpToRel(<, Nat))
  <2>1. Bad \subseteq Nat
    OBVIOUS
  <2> QED
    BY <2>1, NatLessThanWellFounded, WFMin
<1>2. CASE m = 0
  <2> DEFINE f == [i \in 1..0 |-> seqs[i]]
  <2>1. f = [i \in 1..0 |-> Part(f, i)]
    OBVIOUS
  <2>2. \E g : g = [i \in 1..0 |-> Part(g, i)]
    BY <2>1
  <2> QED
    BY <1>2, <2>2
<1>3. CASE m # 0
  <2>1. m - 1 \in Nat /\ m - 1 < m /\ m \in Nat /\ m <= Len(seqs) /\ m - 1 <= Len(seqs)
    BY <1>3
  <2>2. m - 1 \notin Bad
    <3>1. <<m - 1, m>> \in Nat \X Nat /\ <<m - 1, m>>[1] < <<m - 1, m>>[2]
      BY <2>1
    <3>2. <<m - 1, m>> \in OpToRel(<, Nat)
      BY <3>1, Zenon DEF OpToRel
    <3> QED
      BY <1>1, <3>2
  <2>3. PICK f : f = [i \in 1..(m - 1) |-> Part(f, i)]
    BY <2>1, <2>2
  <2> DEFINE g == [i \in 1..m |-> IF i = m THEN Part(f, m) ELSE f[i]]
  <2>4. ASSUME NEW i \in 1..m PROVE g[i] = Part(g, i)
    <3>1. CASE i = m
      BY <2>1, <3>1
    <3>2. CASE i # m
      <4>1. i \in 1..(m - 1) /\ g[i] = f[i]
        BY <2>1, <3>2
      <4>2. f[i] = Part(f, i)
        BY <2>3, <4>1
      <4>3. i # 1 => i - 1 \in 1..m /\ i - 1 # m
        BY <2>1, <4>1
      <4>4. i # 1 => g[i - 1] = f[i - 1]
        BY <4>3
      <4> QED
        BY <4>1, <4>2, <4>4
    <3> QED
      BY <3>1, <3>2
  <2>5. g = [i \in 1..m |-> Part(g, i)]
    <3> DEFINE h == [i \in 1..m |-> Part(g, i)]
    <3>1. \A i \in 1..m : g[i] = h[i]
      BY <2>4
    <3> HIDE DEF Part
    <3> QED
      BY <3>1
  <2>6. \E h : h = [i \in 1..m |-> Part(h, i)]
    BY <2>5
  <2> QED
    BY <2>6
<1> QED
  BY <1>2, <1>3

(* FlattenSeq loses and adds nothing. *)
LEMMA FlattenFacts ==
  ASSUME NEW V, NEW seqs \in Seq(Seq(V))
  PROVE  /\ FlattenSeq(seqs) \in Seq(V)
         /\ Range(FlattenSeq(seqs)) = UNION {Range(seqs[k]) : k \in 1..Len(seqs)}
<1> DEFINE n == Len(seqs)
<1>1. CASE n = 0
  <2>1. seqs = <<>> /\ FlattenSeq(seqs) = <<>> /\ 1..Len(seqs) = {}
    BY <1>1 DEF FlattenSeq
  <2>2. <<>> \in Seq(V) /\ Range(<<>>) = {}
    BY DEF Range
  <2>3. UNION {Range(seqs[k]) : k \in 1..Len(seqs)} = {}
    BY <2>1
  <2> QED
    BY <2>1, <2>2, <2>3, Zenon
<1>2. CASE n # 0
  <2> DEFINE Is(f) == f = [i \in 1..n |-> IF i = 1 THEN seqs[i] ELSE f[i - 1] \o seqs[i]]
             f == CHOOSE g : Is(g)
             Parts(i) == UNION {Range(seqs[k]) : k \in 1..i}
             Good(i) == f[i] \in Seq(V) /\ Range(f[i]) = Parts(i)
             Bad == {i \in 1..n : ~Good(i)}
  <2>1. n \in Nat /\ n \in 1..n
    BY <1>2
  <2>2. Is(f)
    <3>1. \E g : Is(g)
      <4>1. n <= Len(seqs)
        BY <2>1
      <4> QED
        BY <2>1, <4>1, FlattenExists, Zenon
    <3> HIDE DEF Is
    <3> QED
      BY <3>1
  <2>3. FlattenSeq(seqs) = f[n]
    BY <1>2, Zenon DEF FlattenSeq
  <2> HIDE DEF f
  <2>4. \A i \in 1..n : f[i] = IF i = 1 THEN seqs[i] ELSE f[i - 1] \o seqs[i]
    BY <2>2
  <2> HIDE DEF Is
  <2>5. ASSUME Bad # {} PROVE FALSE
    <3>1. PICK m \in Bad : \A k \in Bad : ~(<<k, m>> \in OpToRel(<, Nat))
      <4>1. Bad \subseteq Nat
        OBVIOUS
      <4> HIDE DEF Bad
      <4> QED
        BY <4>1, <2>5, NatLessThanWellFounded, WFMin
    <3>2. m \in 1..n /\ ~Good(m) /\ seqs[m] \in Seq(V)
      <4>1. m \in 1..n /\ ~Good(m)
        OBVIOUS
      <4> HIDE DEF Good
      <4> QED
        BY <4>1
    <3>3. CASE m = 1
      <4>1. f[m] = seqs[1]
        BY <2>4, <3>2, <3>3
      <4>2. Parts(m) = Range(seqs[1])
        <5>1. 1..1 = {1}
          OBVIOUS
        <5> QED
          BY <5>1, <3>3
      <4> QED
        BY <3>2, <3>3, <4>1, <4>2
    <3>4. CASE m # 1
      <4>1. m - 1 \in 1..n /\ m - 1 < m
        BY <3>2, <3>4
      <4>2. Good(m - 1)
        <5>1. <<m - 1, m>> \in Nat \X Nat /\ <<m - 1, m>>[1] < <<m - 1, m>>[2]
          BY <4>1, <3>2
        <5>2. <<m - 1, m>> \in OpToRel(<, Nat)
          BY <5>1, Zenon DEF OpToRel
        <5> QED
          BY <3>1, <4>1, <5>2
      <4>3. f[m] = f[m - 1] \o seqs[m]
        BY <2>4, <3>2, <3>4
      <4>4. f[m] \in Seq(V) /\ Range(f[m]) = Range(f[m - 1]) \cup Range(seqs[m])
        <5> HIDE DEF Parts
        <5> QED
          BY <3>2, <4>2, <4>3, RangeConcat
      <4>5. Parts(m) = Parts(m - 1) \cup Range(seqs[m])
        <5>1. 1..m = (1..(m - 1)) \cup {m}
          BY <3>2, <4>1
        <5> QED
          BY <5>1
      <4> QED
        BY <3>2, <4>2, <4>4, <4>5
    <3> QED
      BY <3>3, <3>4
  <2>6. Good(n)
    BY <2>1, <2>5
  <2> QED
    BY <2>3, <2>6
<1> QED
  BY <1>1, <1>2

LEMMA MaxIsMember ==
  ASSUME NEW n \in Nat, NEW V \in SUBSET (1..n), V # {}
  PROVE  Max(V) \in V
<1>1. PICK x \in V : \A y \in V : ~(n - y < n - x)
  <2> DEFINE W == {n - y : y \in V}
  <2>1. \A y \in V : n - y \in Nat
    OBVIOUS
  <2>2. W \subseteq Nat /\ W # {}
    BY <2>1
  <2>3. PICK t \in W : \A u \in W : ~(<<u, t>> \in OpToRel(<, Nat))
    BY <2>2, NatLessThanWellFounded, WFMin
  <2>4. PICK x \in V : t = n - x
    BY <2>3
  <2>5. ASSUME NEW y \in V, n - y < n - x PROVE FALSE
    <3>1. <<n - y, t>> \in Nat \X Nat /\ <<n - y, t>>[1] < <<n - y, t>>[2]
      BY <2>1, <2>4, <2>5
    <3>2. <<n - y, t>> \in OpToRel(<, Nat)
      BY <3>1, Zenon DEF OpToRel
    <3> QED
      BY <2>3, <3>2
  <2> QED
    BY <2>5
<1>2. \A y \in V : x >= y
  BY <1>1
<1> QED
  BY <1>2 DEF Max

LEMMA MinIsMember ==
  ASSUME NEW V \in SUBSET Nat, V # {}
  PROVE  Min(V) \in V
<1>1. PICK x \in V : \A y \in V : ~(<<y, x>> \in OpToRel(<, Nat))
  BY NatLessThanWellFounded, WFMin
<1>2. ASSUME NEW y \in V PROVE x <= y
  <2> SUFFICES ASSUME y < x PROVE FALSE
    BY <1>2
  <2>1. <<y, x>> \in Nat \X Nat /\ <<y, x>>[1] < <<y, x>>[2]
    OBVIOUS
  <2>2. <<y, x>> \in OpToRel(<, Nat)
    BY <2>1, Zenon DEF OpToRel
  <2> QED
    BY <1>1, <2>2
<1> QED
  BY <1>2 DEF Min

-----------------------------------------------------------------------------
(* Dependency lists *)

(* Lookup and get_index find an item of the name, and an only one is found. *)
LEMMA IndexFound ==
  ASSUME NEW list \in ItemLists, NEW id, Known(list, id)
  PROVE  /\ Lookup(list, id) \in Named(list, id)
         /\ GetIndex(list, Lookup(list, id)) \in Nodes
         /\ \A i : Named(list, id) = {i} => GetIndex(list, Lookup(list, id)) = i
<1> DEFINE l == Lookup(list, id)
           Same == {j \in Named(list, list[l].name) : Class(list[j]) = Class(list[l])}
<1>1. l \in Named(list, id)
  BY MaxIsMember, ItemAssumption DEF Known, Lookup, Named, Nodes
<1>2. l \in Nodes /\ list[l].name = id
  BY <1>1 DEF Named
<1>3. l \in Same /\ Same \subseteq Named(list, id)
  <2> HIDE DEF l
  <2> QED
    BY <1>1, <1>2
<1>4. Named(list, id) \subseteq Nodes /\ Nodes \subseteq Nat
  BY DEF Named, Nodes
<1>5. GetIndex(list, l) \in Same
  <2>1. GetIndex(list, l) = Min(Same)
    BY DEF GetIndex
  <2> HIDE DEF l, Same
  <2> QED
    BY <1>3, <1>4, <2>1, MinIsMember
<1>6. GetIndex(list, l) \in Named(list, id) /\ GetIndex(list, l) \in Nodes
  <2> HIDE DEF l, Same
  <2> QED
    BY <1>3, <1>4, <1>5
<1>7. \A i : Named(list, id) = {i} => GetIndex(list, l) = i
  <2> HIDE DEF l, Same
  <2> QED
    BY <1>6
<1> QED
  BY <1>1, <1>6, <1>7

(* What get_dependencies_from_type adds for a reference: nothing unless its
   own name is fresh, and otherwise all its names that are. *)
LEMMA FromTypeFacts ==
  ASSUME NEW list \in ItemLists, NEW ref \in Seq(Ids) \ {<<>>}, NEW seenIds
  PROVE  LET Fresh(id) == Known(list, id) /\ id \notin seenIds
             all       == FromType(list, ref, seenIds)
         IN  /\ all \in Seq({id \in Range(ref) : Known(list, id)})
             /\ \A id \in Range(ref) : Fresh(id) /\ Fresh(Head(ref)) => id \in Range(all)
<1> DEFINE Fresh(id) == Known(list, id) /\ id \notin seenIds
           Taken(k) == Fresh(ref[k]) /\ (k = 1 \/ ref[k] # Head(ref))
           names == {id \in Range(ref) : Known(list, id)}
           parts == [k \in 1..Len(ref) |-> IF Taken(k) THEN <<ref[k]>> ELSE <<>>]
           all == FromType(list, ref, seenIds)
<1>1. CASE ~Fresh(Head(ref))
  <2>1. all = <<>>
    BY <1>1 DEF FromType
  <2> QED
    BY <1>1, <2>1
<1>2. CASE Fresh(Head(ref))
  <2>1. all = FlattenSeq(parts)
    BY <1>2, Zenon DEF FromType
  <2>2. Len(ref) \in Nat /\ Len(ref) > 0 /\ Head(ref) = ref[1]
    OBVIOUS
  <2>3. Range(ref) = {ref[k] : k \in 1..Len(ref)}
    BY RangeEquality
  <2>4. ASSUME NEW k \in 1..Len(ref) PROVE parts[k] \in Seq(names)
    <3>1. CASE Taken(k)
      <4>1. ref[k] \in names
        BY <2>3, <3>1
      <4>2. parts[k] = <<ref[k]>>
        BY <3>1
      <4> HIDE DEF parts, names
      <4> QED
        BY <4>1, <4>2
    <3>2. CASE ~Taken(k)
      <4>1. parts[k] = <<>>
        BY <3>2
      <4> HIDE DEF parts, names
      <4> QED
        BY <4>1
    <3> QED
      BY <3>1, <3>2
  <2>5. parts \in Seq(Seq(names)) /\ Len(parts) = Len(ref)
    <3>1. parts \in [1..Len(ref) -> Seq(names)]
      <4> HIDE DEF names, Taken
      <4> QED
        BY <2>4
    <3> HIDE DEF parts, names
    <3> QED
      BY <2>2, <3>1
  <2>6. /\ FlattenSeq(parts) \in Seq(names)
        /\ Range(FlattenSeq(parts)) = UNION {Range(parts[k]) : k \in 1..Len(parts)}
    <3> HIDE DEF parts, names
    <3> QED
      BY <2>5, FlattenFacts
  <2>7. ASSUME NEW id \in Range(ref), Fresh(id) PROVE id \in Range(all)
    <3>1. PICK k \in 1..Len(ref) : ref[k] = id /\ (k = 1 \/ ref[k] # Head(ref))
      <4>1. CASE id = Head(ref)
        <5>1. 1 \in 1..Len(ref) /\ ref[1] = id
          BY <2>2, <4>1
        <5> QED
          BY <5>1
      <4>2. CASE id # Head(ref)
        BY <2>3, <4>2
      <4> QED
        BY <4>1, <4>2
    <3>2. parts[k] = <<id>>
      BY <2>7, <3>1
    <3>3. id \in Range(parts[k])
      BY <3>2 DEF Range
    <3> HIDE DEF parts
    <3> QED
      BY <2>1, <2>5, <2>6, <3>3
  <2> QED
    <3> HIDE DEF parts, all, names
    <3>1. all \in Seq(names)
      BY <2>1, <2>6
    <3> QED
      BY <2>7, <3>1 DEF names, all
<1> QED
  BY <1>1, <1>2
(* The dependencies of an item name known items; apart from an algebraic
   enum's own they are names its references have, and of these at least those
   that can be taken before anything has been. *)
LEMMA DependencyFacts ==
  ASSUME NEW list \in ItemLists, NEW i \in Nodes
  PROVE  LET item == list[i]
             ids  == GetDependencies(list, item)
         IN  /\ ids \in Seq({id \in Ids : Known(list, id)})
             /\ item.kind # "algebraic" =>
                  /\ \A id \in Range(ids) : \E ref \in Range(item.refs) : id \in Range(ref)
                  /\ \A ref \in Range(item.refs) : \A id \in Range(ref) :
                       /\ Known(list, id) /\ id # item.name
                       /\ Known(list, Head(ref)) /\ Head(ref) # item.name
                       => id \in Range(ids)
<1> DEFINE item == list[i]
           refs == item.refs
           known == {id \in Ids : Known(list, id)}
           Seen(k) == {item.name} \ {Head(refs[j]) : j \in 1..(k - 1)}
           own == IF item.kind = "algebraic" THEN <<item.name>> ELSE <<>>
           parts == [k \in 1..Len(refs) |-> FromType(list, refs[k], Seen(k))]
           ids == GetDependencies(list, item)
<1>1. item \in RustItem
  BY ItemAssumption
<1>2. /\ item.name \in Ids /\ refs \in Seq(Seq(Ids) \ {<<>>})
      /\ Known(list, item.name)
  <2>1. item.name \in Ids /\ refs \in Seq(Seq(Ids) \ {<<>>})
    BY <1>1 DEF RustItem
  <2>2. i \in Named(list, item.name)
    BY DEF Named
  <2> QED
    BY <2>1, <2>2 DEF Known
<1>3. ids = own \o FlattenSeq(parts)
  BY Zenon DEF GetDependencies
<1>4. /\ \A k \in 1..Len(refs) : refs[k] \in Seq(Ids) \ {<<>>}
      /\ Range(refs) = {refs[k] : k \in 1..Len(refs)}
  <2> HIDE DEF refs
  <2>1. Range(refs) = {refs[k] : k \in 1..Len(refs)}
    BY <1>2, RangeEquality
  <2> QED
    BY <1>2, <2>1
<1>5. ASSUME NEW k \in 1..Len(refs)
      PROVE  /\ parts[k] \in Seq({id \in Range(refs[k]) : Known(list, id)})
             /\ parts[k] \in Seq(known)
             /\ Range(parts[k]) \subseteq Range(refs[k])
             /\ \A id \in Range(refs[k]) :
                  /\ Known(list, id) /\ id # item.name
                  /\ Known(list, Head(refs[k])) /\ Head(refs[k]) # item.name
                  => id \in Range(parts[k])
  <2> DEFINE ref == refs[k]
             some == {id \in Range(ref) : Known(list, id)}
  <2>1. parts[k] = FromType(list, ref, Seen(k)) /\ ref \in Seq(Ids) \ {<<>>}
    BY <1>4
  <2>2. \A id : id # item.name => id \notin Seen(k)
    OBVIOUS
  <2> HIDE DEF parts, ref, refs, Seen, item
  <2>3. /\ parts[k] \in Seq(some)
        /\ \A id \in Range(ref) :
             /\ Known(list, id) /\ id \notin Seen(k)
             /\ Known(list, Head(ref)) /\ Head(ref) \notin Seen(k)
             => id \in Range(parts[k])
    BY <2>1, FromTypeFacts
  <2>4. some \subseteq Range(ref) /\ some \subseteq known
    BY <2>1, RangeOfSeq
  <2>5. Range(parts[k]) \subseteq Range(ref) /\ parts[k] \in Seq(known)
    <3> HIDE DEF some, known
    <3>1. Range(parts[k]) \subseteq some
      BY <2>3, RangeOfSeq
    <3>2. parts[k] \in Seq(known)
      BY <2>3, <2>4
    <3> QED
      BY <2>4, <3>1, <3>2
  <2>6. \A id \in Range(ref) :
          /\ Known(list, id) /\ id # item.name
          /\ Known(list, Head(ref)) /\ Head(ref) # item.name
          => id \in Range(parts[k])
    BY <2>2, <2>3
  <2> QED
    BY <2>3, <2>5, <2>6 DEF ref
<1>6. parts \in Seq(Seq(known)) /\ Len(parts) = Len(refs)
  <2>1. Len(refs) \in Nat
    <3> HIDE DEF refs
    <3> QED
      BY <1>2
  <2>2. parts \in [1..Len(refs) -> Seq(known)]
    <3>1. parts = [k \in 1..Len(refs) |-> parts[k]]
      OBVIOUS
    <3> HIDE DEF parts, known, refs
    <3> QED
      BY <1>5, <3>1
  <2> HIDE DEF parts, known, refs
  <2> QED
    BY <2>1, <2>2
<1>7. /\ FlattenSeq(parts) \in Seq(known)
      /\ Range(FlattenSeq(parts)) = UNION {Range(parts[k]) : k \in 1..Len(refs)}
  <2> HIDE DEF parts, known, refs
  <2> QED
    BY <1>6, FlattenFacts
<1>8. own \in Seq(known) /\ (item.kind # "algebraic" => own = <<>>)
  <2> HIDE DEF item
  <2>1. item.name \in known
    BY <1>2
  <2> HIDE DEF known
  <2> QED
    BY <2>1
<1>9. ids \in Seq(known)
  <2> HIDE DEF ids, own, parts, known
  <2> QED
    BY <1>3, <1>7, <1>8, RangeConcat
<1>10. ASSUME item.kind # "algebraic"
       PROVE  /\ \A id \in Range(ids) : \E ref \in Range(refs) : id \in Range(ref)
              /\ \A ref \in Range(refs) : \A id \in Range(ref) :
                   /\ Known(list, id) /\ id # item.name
                   /\ Known(list, Head(ref)) /\ Head(ref) # item.name
                   => id \in Range(ids)
  <2>1. Range(ids) = UNION {Range(parts[k]) : k \in 1..Len(refs)}
    <3>1. own = <<>>
      BY <1>8, <1>10
    <3>2. <<>> \o FlattenSeq(parts) = FlattenSeq(parts)
      <4> HIDE DEF parts, known
      <4> QED
        BY <1>7, ConcatEmptySeq
    <3> HIDE DEF ids, own, parts
    <3> QED
      BY <1>3, <1>7, <3>1, <3>2
  <2> HIDE DEF ids, parts, refs, item
  <2>2. ASSUME NEW id \in Range(ids) PROVE \E ref \in Range(refs) : id \in Range(ref)
    <3>1. PICK k \in 1..Len(refs) : id \in Range(parts[k])
      BY <2>1
    <3> QED
      BY <1>4, <1>5, <3>1
  <2>3. ASSUME NEW ref \in Range(refs), NEW id \in Range(ref),
               Known(list, id), id # item.name,
               Known(list, Head(ref)), Head(ref) # item.name
        PROVE  id \in Range(ids)
    <3>1. PICK k \in 1..Len(refs) : ref = refs[k]
      BY <1>4
    <3>2. id \in Range(parts[k])
      BY <1>5, <2>3, <3>1
    <3> QED
      BY <2>1, <3>2
  <2> QED
    BY <2>2, <2>3
<1> QED
  BY <1>9, <1>10

(* The dependency lists are a graph of positions. *)
LEMMA DagType ==
  ASSUME NEW list \in ItemLists
  PROVE  Dag(list) \in [Nodes -> Seq(Nodes)]
<1> DEFINE Deps(i) == GetDependencies(list, list[i])
           Edges(i) == [k \in 1..Len(Deps(i)) |-> GetIndex(list, Lookup(list, Deps(i)[k]))]
<1>1. ASSUME NEW i \in Nodes PROVE Edges(i) \in Seq(Nodes)
  <2> DEFINE deps == Deps(i)
  <2>1. deps \in Seq({id \in Ids : Known(list, id)})
    BY DependencyFacts
  <2> HIDE DEF deps
  <2>2. Len(deps) \in Nat /\ \A k \in 1..Len(deps) : Known(list, deps[k])
    BY <2>1
  <2>3. \A k \in 1..Len(deps) : GetIndex(list, Lookup(list, deps[k])) \in Nodes
    BY <2>2, IndexFound
  <2>4. Edges(i) = [k \in 1..Len(deps) |-> GetIndex(list, Lookup(list, deps[k]))]
    BY DEF deps
  <2> HIDE DEF Edges
  <2> QED
    BY <2>2, <2>3, <2>4
<1>2. Dag(list) = [i \in Nodes |-> Edges(i)]
  BY Zenon DEF Dag
<1> HIDE DEF Edges
<1> QED
  BY <1>1, <1>2
(* Plain items depend on exactly the items they use. *)
LEMMA PlainEdges ==
  ASSUME things \in ItemLists, NEW P \in SUBSET Nodes, Plain(P), NEW p \in P
  PROVE  Range(Dag(things)[p]) = Uses(p)
<1> DEFINE item == things[p]
           ids == GetDependencies(things, item)
           edges == Dag(things)[p]
           At(id) == GetIndex(things, Lookup(things, id))
<1>1. /\ p \in Nodes /\ item.kind # "algebraic"
      /\ Named(things, item.name) = {p}
      /\ \A ref \in Range(item.refs) : Len(ref) > 1 => Known(things, Head(ref))
      /\ \A id \in item.nested : ~Known(things, id)
      /\ Uses(p) \subseteq P
  BY DEF Plain
<1>2. \A u \in P : Named(things, things[u].name) = {u}
  BY DEF Plain
<1>3. /\ ids \in Seq({id \in Ids : Known(things, id)})
      /\ \A id \in Range(ids) : \E ref \in Range(item.refs) : id \in Range(ref)
      /\ \A ref \in Range(item.refs) : \A id \in Range(ref) :
           /\ Known(things, id) /\ id # item.name
           /\ Known(things, Head(ref)) /\ Head(ref) # item.name
           => id \in Range(ids)
  BY <1>1, DependencyFacts
<1>4. edges = [k \in 1..Len(ids) |-> At(ids[k])]
  BY <1>1 DEF Dag
<1>5. /\ Len(ids) \in Nat /\ DOMAIN edges = 1..Len(ids)
      /\ \A k \in 1..Len(ids) : Known(things, ids[k]) /\ edges[k] = At(ids[k])
      /\ Range(ids) = {ids[k] : k \in 1..Len(ids)}
  <2> HIDE DEF ids, At
  <2>1. Range(ids) = {ids[k] : k \in 1..Len(ids)}
    BY <1>3, RangeEquality
  <2> HIDE DEF edges
  <2> QED
    BY <1>3, <1>4, <2>1
<1>6. \A ref \in Range(item.refs) : ref \in Seq(Ids) \ {<<>>}
  <2>1. item \in RustItem
    BY <1>1, ItemAssumption
  <2>2. item.refs \in Seq(Seq(Ids) \ {<<>>})
    BY <2>1 DEF RustItem
  <2> HIDE DEF item
  <2> QED
    BY <2>2, RangeOfSeq
<1> HIDE DEF ids, edges
<1>7. Range(edges) = {At(ids[k]) : k \in 1..Len(ids)}
  <2> HIDE DEF At
  <2> QED
    BY <1>5 DEF Range
<1>8. ASSUME NEW k \in 1..Len(ids) PROVE At(ids[k]) \in Uses(p)
  <2> DEFINE id == ids[k]
             l == Lookup(things, id)
  <2>1. Known(things, id) /\ id \in Range(ids)
    BY <1>5
  <2>2. l \in Named(things, id)
    BY <2>1, IndexFound
  <2>3. l \in Nodes /\ things[l].name = id
    BY <2>2 DEF Named
  <2>4. l \in Uses(p)
    BY <1>3, <2>1, <2>3 DEF Uses
  <2>5. Named(things, id) = {l}
    BY <1>1, <1>2, <2>3, <2>4
  <2>6. At(id) = l
    <3> HIDE DEF id, l
    <3>1. \A i : Named(things, id) = {i} => GetIndex(things, Lookup(things, id)) = i
      BY <2>1, IndexFound
    <3> QED
      BY <2>5, <3>1
  <2> QED
    BY <2>4, <2>6
<1>9. ASSUME NEW u \in Uses(p) PROVE \E k \in 1..Len(ids) : At(ids[k]) = u
  <2>1. /\ u \in Nodes /\ Named(things, things[u].name) = {u}
        /\ Known(things, things[u].name)
    <3>1. u \in P /\ u \in Nodes
      BY <1>1, <1>9
    <3>2. Named(things, things[u].name) = {u}
      BY <1>2, <3>1
    <3> QED
      BY <3>1, <3>2 DEF Known
  <2>2. PICK ref \in Range(item.refs) : things[u].name \in Range(ref)
    BY <1>1, <2>1 DEF Uses
  <2>3. p \notin Uses(p)
    <3>1. PICK i \in {p} : Uses(i) \cap {p} = {}
      <4>1. {p} \in SUBSET P /\ {p} # {}
        OBVIOUS
      <4> QED
        BY <4>1 DEF Plain
    <3> QED
      BY <3>1
  <2>4. \A id \in Range(ref) : id # item.name
    BY <1>1, <2>2, <2>3 DEF Uses
  <2>5. /\ Head(ref) \in Range(ref) /\ ref \in Seq(Ids)
        /\ Len(ref) = 1 => things[u].name = Head(ref)
    <3>1. ref \in Seq(Ids) /\ ref # <<>>
      BY <1>6
    <3>2. /\ Len(ref) \in Nat /\ Len(ref) > 0 /\ Head(ref) = ref[1]
          /\ Range(ref) = {ref[k] : k \in 1..Len(ref)}
      BY <3>1, RangeEquality
    <3>3. 1 \in 1..Len(ref)
      BY <3>2
    <3>4. Len(ref) = 1 => \A k \in 1..Len(ref) : k = 1
      OBVIOUS
    <3> QED
      BY <2>2, <3>1, <3>2, <3>3, <3>4
  <2>6. Known(things, Head(ref))
    <3>1. CASE Len(ref) = 1
      BY <2>1, <2>5, <3>1
    <3>2. CASE Len(ref) # 1
      <4>1. Len(ref) > 1
        <5>1. Len(ref) \in Nat /\ Len(ref) # 0
          BY <1>6
        <5>2. \A n \in Nat : n # 0 /\ n # 1 => n > 1
          OBVIOUS
        <5> QED
          BY <3>2, <5>1, <5>2, Zenon
      <4> QED
        BY <1>1, <4>1
    <3> QED
      BY <3>1, <3>2
  <2>7. things[u].name \in Range(ids)
    BY <1>3, <2>1, <2>2, <2>4, <2>5, <2>6
  <2>8. At(things[u].name) = u
    BY <2>1, IndexFound
  <2>9. PICK k \in 1..Len(ids) : ids[k] = things[u].name
    BY <1>5, <2>7
  <2> QED
    BY <2>8, <2>9
<1>10. Uses(p) \subseteq Range(edges)
  <2> HIDE DEF At
  <2> QED
    BY <1>7, <1>9
<1>11. Range(edges) \subseteq Uses(p)
  <2> HIDE DEF At
  <2> QED
    BY <1>7, <1>8
<1> QED
  BY <1>10, <1>11 DEF edges

-----------------------------------------------------------------------------
(* The functions topsort calls *)

(* topsort calls them within what their proofs assume. *)
LEMMA CallsAsAssumed == TP!GraphAssumption /\ SP!SliceAssumption
<1>1. {Dag(list) : list \in ItemLists} \subseteq [Nodes -> Seq(Nodes)]
  BY DagType
<1>2. TP!Nodes = Nodes /\ SP!Positions = Nodes
  BY DEF TP!Nodes, SP!Positions, Nodes
<1>3. ItemLists \subseteq [Nodes -> AllItems]
  <2> SUFFICES ASSUME NEW list \in ItemLists PROVE list \in [Nodes -> AllItems]
    OBVIOUS
  <2>1. list \in [Nodes -> RustItem]
    BY ItemAssumption
  <2>2. \A i \in Nodes : list[i] \in AllItems
    BY <2>1 DEF AllItems, Range
  <2> QED
    BY <2>1, <2>2
<1>4. N \in Nat
  BY ItemAssumption
<1> QED
  BY <1>1, <1>2, <1>3, <1>4 DEF TP!GraphAssumption, SP!SliceAssumption

LEMMA SameNotions ==
  /\ \A f : TP!Range(f) = Range(f)
  /\ \A f : TP!IsInjective(f) <=> IsInjective(f)
  /\ \A f : SP!IsInjective(f) <=> IsInjective(f)
BY DEF TP!Range, TP!IsInjective, SP!IsInjective, Range, IsInjective

LEMMA SortInit == SP!Init => SP!IInv
BY SP!InitInv, CallsAsAssumed

(* The functions as topsort runs them are those of the proofs. *)
LEMMA TraversalSteps == T!Step => TP!Next
<1>1. T!Pass => TP!Pass
  BY DEF T!Pass, T!AtNode, T!Depth, T!MoreAt, T!NodeAt, T!Unprocessed, T!Processed, T!Range, T!Advance,
         TP!Pass, TP!AtNode, TP!Depth, TP!MoreAt, TP!NodeAt, TP!Unprocessed, TP!Processed, TP!Range,
         TP!Advance
<1>2. T!Enter => TP!Enter
  BY DEF T!Enter, T!AtNode, T!Depth, T!MoreAt, T!NodeAt, T!Unprocessed, T!Processed, T!Range, T!Activate,
         TP!Enter, TP!AtNode, TP!Depth, TP!MoreAt, TP!NodeAt, TP!Unprocessed, TP!Processed, TP!Range,
         TP!Activate
<1>3. T!Return => TP!Return
  BY DEF T!Return, T!Exhausted, T!Cycle, T!Resume, T!Finish, T!Depth, T!MoreAt, T!NodeAt,
         T!Unprocessed, T!Processed, T!Range, T!Advance,
         TP!Return, TP!Exhausted, TP!Cycle, TP!Resume, TP!Finish, TP!Depth, TP!MoreAt,
         TP!NodeAt, TP!Unprocessed, TP!Processed, TP!Range, TP!Advance
<1> QED
  BY <1>1, <1>2, <1>3 DEF T!Step, TP!Next, TP!Step

LEMMA SortSteps == S!Step => SP!Next
<1>1. S!Pass => SP!Pass
  BY DEF S!Pass, S!Settled, SP!Pass, SP!Settled
<1>2. S!EnterCycle => SP!EnterCycle
  BY DEF S!EnterCycle, S!Settled, SP!EnterCycle, SP!Settled
<1>3. S!FollowCycle => SP!FollowCycle
  BY DEF S!FollowCycle, S!Settled, S!Settle, S!Swap,
         SP!FollowCycle, SP!Settled, SP!Settle, SP!Swap
<1>4. S!LeaveCycle => SP!LeaveCycle
  BY DEF S!LeaveCycle, S!Settled, S!Settle, SP!LeaveCycle, SP!Settled, SP!Settle
<1> QED
  BY <1>1, <1>2, <1>3, <1>4 DEF S!Step, SP!Next, SP!Step

(* The result of toposort_impl, once it is done, is what sort_by_indices
   relies on. *)
LEMMA Permutation ==
  ASSUME TP!IInv, T!Done
  PROVE  /\ res \in [Nodes -> Nodes] /\ IsInjective(res)
         /\ Range(res) = Nodes
<1>1. /\ res \in Seq(Nodes) /\ IsInjective(res) /\ Range(res) = Nodes
  BY SameNotions DEF TP!IInv, TP!TypeOK, TP!ListsAllOnce, TP!Done, T!Done, TP!Processed, TP!Nodes, Nodes
<1>2. /\ Len(res) \in Nat /\ res \in [1..Len(res) -> Nodes]
      /\ Nodes = {res[i] : i \in 1..Len(res)}
  BY <1>1, RangeEquality
<1>3. res \in Injection(1..Len(res), Nodes)
  BY <1>1, <1>2 DEF Injection
<1>4. res \in Surjection(1..Len(res), Nodes)
  BY <1>2 DEF Surjection
<1>5. /\ IsFiniteSet(Nodes) /\ Cardinality(Nodes) = N
      /\ Cardinality(1..Len(res)) = Len(res)
  <2>1. ASSUME NEW n \in Nat PROVE IsFiniteSet(1..n) /\ Cardinality(1..n) = n
    <3>1. /\ IsFiniteSet(1..n)
          /\ Cardinality(1..n) = IF 1 > n THEN 0 ELSE n - 1 + 1
      BY FS_Interval
    <3> QED
      BY <3>1
  <2> QED
    BY <1>2, <2>1, ItemAssumption DEF Nodes
<1>6. Len(res) = N
  BY <1>3, <1>4, <1>5, FS_Injection
<1>7. 1..Len(res) = Nodes
  BY <1>6 DEF Nodes
<1> QED
  BY <1>1, <1>2, <1>7

(* sort_by_indices starts out as its proof assumes. *)
LEMMA SortStart ==
  ASSUME IInv, CallSort
  PROVE  SP!IInv'
<1>1. /\ things' = things /\ res' = res /\ data' = data /\ indices' = res
      /\ idx' = idx /\ cur' = cur
      /\ data = things /\ idx = 1 /\ cur = 0 /\ things \in ItemLists
  BY DEF IInv, CallSort
<1>2. res \in [Nodes -> Nodes] /\ IsInjective(res)
  BY Permutation DEF IInv, CallSort
<1>3. SP!Init'
  BY <1>1, <1>2 DEF SP!Init, SP!Called, SP!Positions, SP!IsInjective, IsInjective, Nodes
<1> QED
  BY <1>3, SortInit, PTL

(* sort_by_indices only moves items. *)
LEMMA ItemsMoved ==
  ASSUME SP!IInv, S!Step
  PROVE  Range(data') = Range(data)
<1>1. CASE data' = data
  BY <1>1
<1>2. CASE S!FollowCycle
  <2> DEFINE i == cur
             j == indices[cur]
  <2>1. /\ data \in [Nodes -> AllItems] /\ i \in Nodes /\ j \in Nodes
        /\ data' = [data EXCEPT ![i] = data[j], ![j] = data[i]]
    <3>1. /\ data \in [Nodes -> AllItems] /\ indices \in [Nodes -> Nodes]
          /\ cur \in 0..N
      BY DEF SP!IInv, SP!TypeOK, SP!Positions, Nodes
    <3>2. cur \in Nodes
      BY <1>2, <3>1 DEF S!FollowCycle, Nodes
    <3> QED
      BY <1>2, <3>1, <3>2 DEF S!FollowCycle, S!Swap
  <2> HIDE DEF i, j
  <2>2. \A k \in Nodes : data'[k] = IF k = j THEN data[i] ELSE IF k = i THEN data[j] ELSE data[k]
    BY <2>1
  <2>3. DOMAIN data' = Nodes /\ DOMAIN data = Nodes
    BY <2>1
  <2>4. Range(data') \subseteq Range(data)
    BY <2>1, <2>2, <2>3 DEF Range
  <2>5. Range(data) \subseteq Range(data')
    <3> SUFFICES ASSUME NEW k \in Nodes PROVE \E l \in Nodes : data'[l] = data[k]
      BY <2>3 DEF Range
    <3>1. CASE k = i
      BY <2>1, <2>2, <3>1
    <3>2. CASE k = j
      BY <2>1, <2>2, <3>2
    <3>3. CASE k # i /\ k # j
      BY <2>2, <3>3
    <3> QED
      BY <3>1, <3>2, <3>3
  <2> QED
    BY <2>4, <2>5
<1> QED
  BY <1>1, <1>2 DEF S!Step, S!Pass, S!EnterCycle, S!LeaveCycle

-----------------------------------------------------------------------------
(* The invariant *)

LEMMA InitInv == Init => IInv
<1> SUFFICES ASSUME Init PROVE IInv
  OBVIOUS
<1>1. /\ things \in ItemLists /\ graph = Dag(things) /\ T!Called
      /\ ~sorting /\ data = things /\ idx = 1 /\ cur = 0
  BY DEF Init
<1>2. TP!Init
  BY <1>1 DEF TP!Init, TP!Called, TP!Activate, TP!Nodes,
              T!Called, T!Activate, T!Nodes
<1>3. TP!IInv
  BY <1>2, TP!InitInv, CallsAsAssumed
<1> QED
  BY <1>1, <1>3 DEF IInv

LEMMA ToposortInv == IInv /\ Toposort => IInv'
<1> SUFFICES ASSUME IInv, Toposort PROVE IInv'
  OBVIOUS
<1>1. /\ T!Step /\ UNCHANGED <<things, sorting, data, indices, idx, cur>>
  BY DEF Toposort
<1>2. graph' = graph
  BY <1>1 DEF T!Step, T!Pass, T!Enter, T!Return, T!AtNode, T!Resume, T!Finish
<1>3. TP!IInv'
  BY <1>1, TraversalSteps, TP!NextInv, CallsAsAssumed DEF IInv
<1>4. ~sorting
  BY <1>1 DEF IInv, TP!Done, T!Step, T!Pass, T!Enter, T!Return, T!AtNode, T!Exhausted,
              T!Cycle, T!Depth
<1> QED
  BY <1>1, <1>2, <1>3, <1>4 DEF IInv

LEMMA CallSortInv == IInv /\ CallSort => IInv'
<1> SUFFICES ASSUME IInv, CallSort PROVE IInv'
  OBVIOUS
<1>1. /\ T!Done /\ sorting' = TRUE
      /\ UNCHANGED <<things, graph, stack, seen, res, data, idx, cur>>
  BY DEF CallSort
<1>2. TP!IInv'
  <2>1. [TP!Next]_(TP!vars)
    BY <1>1 DEF TP!vars
  <2> QED
    BY <2>1, TP!NextInv, CallsAsAssumed DEF IInv
<1>3. SP!IInv'
  BY SortStart
<1>4. TP!Done'
  BY <1>1 DEF T!Done, TP!Done
<1> QED
  BY <1>1, <1>2, <1>3, <1>4 DEF IInv

LEMMA SortByIndicesInv == IInv /\ SortByIndices => IInv'
<1> SUFFICES ASSUME IInv, SortByIndices PROVE IInv'
  OBVIOUS
<1>1. sorting /\ S!Step /\ UNCHANGED <<things, graph, stack, seen, res, sorting>>
  BY DEF SortByIndices
<1>2. TP!IInv' /\ TP!Done'
  <2>1. [TP!Next]_(TP!vars)
    BY <1>1 DEF TP!vars
  <2>2. TP!IInv'
    BY <2>1, TP!NextInv, CallsAsAssumed DEF IInv
  <2> QED
    BY <1>1, <2>2 DEF IInv, TP!Done
<1>3. SP!IInv'
  BY <1>1, SortSteps, SP!NextInv, CallsAsAssumed DEF IInv
<1>4. Range(data') = Range(data)
  BY <1>1, ItemsMoved DEF IInv
<1> QED
  BY <1>1, <1>2, <1>3, <1>4 DEF IInv

LEMMA StutterInv == IInv /\ UNCHANGED vars => IInv'
<1> SUFFICES ASSUME IInv, UNCHANGED vars PROVE IInv'
  OBVIOUS
<1>1. UNCHANGED <<things, graph, stack, seen, res, sorting, data, indices, idx, cur>>
  BY DEF vars
<1>2. TP!IInv'
  <2>1. [TP!Next]_(TP!vars)
    BY <1>1 DEF TP!vars
  <2> QED
    BY <2>1, TP!NextInv, CallsAsAssumed DEF IInv
<1>3. sorting => SP!IInv'
  <2>1. [SP!Next]_(SP!vars)
    BY <1>1 DEF SP!vars
  <2> QED
    BY <2>1, SP!NextInv, CallsAsAssumed DEF IInv
<1> QED
  BY <1>1, <1>2, <1>3 DEF IInv, TP!Done

LEMMA NextInv == IInv /\ [Next]_vars => IInv'
BY ToposortInv, CallSortInv, SortByIndicesInv, StutterInv DEF Next, Step, Returned

(* The inductive invariant holds in every reachable state. *)
THEOREM Invariant == Spec => []IInv
BY InitInv, NextInv, PTL DEF Spec

(* Types, and that the items of the file are the items given, for item lists
   of every length and content. *)
THEOREM TypeCorrect == Spec => []TypeOK
<1>1. IInv => TypeOK
  <2> SUFFICES ASSUME IInv PROVE TypeOK
    OBVIOUS
  <2>1. T!TypeOK
    BY DEF IInv, TP!IInv, TP!TypeOK, TP!Nodes, TP!Activations, TP!Depth, TP!MoreAt, TP!NodeAt,
           T!TypeOK, T!Nodes, T!Activations, T!Depth, T!MoreAt, T!NodeAt
  <2>2. sorting => S!TypeOK
    BY DEF IInv, SP!IInv, SP!TypeOK, SP!Positions, SP!Settled, S!TypeOK, S!Positions, S!Settled
  <2> QED
    BY <2>1, <2>2 DEF IInv, TypeOK
<1> QED
  BY <1>1, Invariant, PTL

(* sort_by_indices is called with a permutation of the positions, whatever
   the items and however their dependencies run in circles. *)
THEOREM SortIsSafe == Spec => []SortPrecondition
<1>1. IInv => SortPrecondition
  <2> SUFFICES ASSUME IInv, sorting
               PROVE  /\ res \in [Nodes -> Nodes] /\ IsInjective(res)
                      /\ graph = Dag(things)
    BY DEF SortPrecondition
  <2>1. T!Done
    BY DEF IInv, T!Done, TP!Done
  <2> QED
    BY <2>1, Permutation DEF IInv
<1> QED
  BY <1>1, Invariant, PTL

(* Plain items are declared after everything they use, for item lists of
   every length and content, with recursive types and ambiguous names among
   the others. *)
THEOREM PlainInOrder == Spec => []PlainItemsAfterUses
<1>1. IInv => PlainItemsAfterUses
  <2> SUFFICES ASSUME IInv, Finished, NEW P \in SUBSET Nodes, Plain(P),
                      NEW p \in P, NEW u \in Uses(p), NEW i \in Nodes, NEW j \in Nodes,
                      data[i] = things[p], data[j] = things[u]
               PROVE  j < i
    BY DEF PlainItemsAfterUses
  <2>1. /\ TP!IInv /\ SP!IInv /\ T!Done
        /\ things \in ItemLists /\ graph = Dag(things)
    BY DEF IInv, Finished, TP!Done, T!Done
  <2>2. /\ res \in [Nodes -> Nodes] /\ IsInjective(res) /\ Range(res) = Nodes
    BY <2>1, Permutation
  <2>3. \A k \in Nodes : data[k] = things[res[k]]
    <3> SUFFICES ASSUME NEW k \in Nodes PROVE data[k] = things[res[k]]
      OBVIOUS
    <3>1. k < idx
      BY ItemAssumption DEF Finished, S!Done, Nodes
    <3> QED
      BY <2>1, <3>1 DEF SP!IInv, SP!BehindSettled, SP!Placed, SP!Settled, SP!Positions, Nodes
  <2>4. u \in P /\ u \in Nodes /\ p \in Nodes
    BY DEF Plain
  <2>5. \A q \in P : Named(things, things[q].name) = {q}
    BY DEF Plain
  <2>6. res[i] = p /\ res[j] = u
    <3>1. res[i] \in Named(things, things[p].name)
      BY <2>2, <2>3 DEF Named
    <3>2. res[j] \in Named(things, things[u].name)
      BY <2>2, <2>3 DEF Named
    <3> QED
      BY <2>4, <2>5, <3>1, <3>2
  <2>7. \A q \in P : Range(graph[q]) = Uses(q)
    BY <2>1, PlainEdges
  <2>8. TP!Acyclic(P)
    <3>1. \A q \in P : Range(graph[q]) \subseteq P
      BY <2>7 DEF Plain
    <3>2. ASSUME NEW Q \in SUBSET P, Q # {}
          PROVE  \E q \in Q : Range(graph[q]) \cap Q = {}
      <4>1. PICK q \in Q : Uses(q) \cap Q = {}
        BY <3>2 DEF Plain
      <4> QED
        BY <2>7, <4>1
    <3> QED
      BY <3>1, <3>2 DEF TP!Acyclic, TP!Range, Range
  <2>9. \E k \in 1..(i - 1) : res[k] = u
    <3>1. i \in 1..Len(res)
      <4>1. res \in Seq(Nodes)
        BY <2>1 DEF TP!IInv, TP!TypeOK, TP!Nodes, Nodes
      <4>2. DOMAIN res = 1..Len(res) /\ DOMAIN res = Nodes
        BY <2>2, <4>1
      <4> QED
        BY <4>2
    <3>2. TP!DependenciesFirst /\ P \in SUBSET TP!Nodes
      BY <2>1 DEF TP!IInv, TP!Nodes, Nodes
    <3> QED
      BY <2>4, <2>6, <2>7, <2>8, <3>1, <3>2, SameNotions DEF TP!DependenciesFirst
  <2>10. PICK k \in 1..(i - 1) : res[k] = u
    BY <2>9
  <2>11. k \in Nodes /\ k < i
    BY ItemAssumption DEF Nodes
  <2> QED
    BY <2>2, <2>6, <2>10, <2>11 DEF IsInjective
<1> QED
  BY <1>1, Invariant, PTL
=============================================================================

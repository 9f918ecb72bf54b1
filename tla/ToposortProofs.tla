--------------------------- MODULE ToposortProofs ---------------------------
(***************************************************************************)
(* Proofs about Toposort, for graphs of every size and shape.              *)
(***************************************************************************)
EXTENDS Toposort, TLAPS

(* The activations that wait for the one above them. *)
Callers == 1..(Depth - 1)

(* The outermost activation goes through all nodes. *)
OutermostList == Depth > 0 => stack[1].nodes = [i \in Nodes |-> i]

(* The nodes being worked on are those the callers wait at, all different. *)
SeenPath ==
  /\ seen = {NodeAt(k) : k \in Callers}
  /\ \A j, k \in Callers : NodeAt(j) = NodeAt(k) => j = k

(* What is being worked on is not finished, and what an activation has passed
   is. *)
Progress ==
  /\ seen \cap Processed = {}
  /\ \A k \in 1..Depth : \A i \in 1..(stack[k].next - 1) :
       stack[k].nodes[i] \in Processed

IInv == /\ TypeOK
        /\ OutermostList
        /\ SeenPath
        /\ Progress
        /\ ListsAllOnce
        /\ DependenciesFirst

-----------------------------------------------------------------------------
(* Sequences and the stack *)

LEMMA AppendFacts ==
  ASSUME NEW T, NEW s \in Seq(T), NEW x \in T
  PROVE  /\ Append(s, x) \in Seq(T)
         /\ Len(Append(s, x)) = Len(s) + 1
         /\ \A i \in 1..Len(s) : Append(s, x)[i] = s[i]
         /\ Append(s, x)[Len(s) + 1] = x
         /\ Range(Append(s, x)) = Range(s) \cup {x}
<1>1. /\ Append(s, x) \in Seq(T)
      /\ Len(Append(s, x)) = Len(s) + 1
      /\ \A i \in 1..Len(s) : Append(s, x)[i] = s[i]
      /\ Append(s, x)[Len(s) + 1] = x
    OBVIOUS
<1>2. /\ DOMAIN Append(s, x) = 1..(Len(s) + 1)
      /\ DOMAIN s = 1..Len(s) /\ Len(s) \in Nat
    BY <1>1
<1>3. Range(Append(s, x)) \subseteq Range(s) \cup {x}
    BY <1>1, <1>2 DEF Range
<1>4. Range(s) \subseteq Range(Append(s, x))
    BY <1>1, <1>2 DEF Range
<1>5. x \in Range(Append(s, x))
    BY <1>1, <1>2 DEF Range
<1> QED
    BY <1>1, <1>3, <1>4, <1>5

(* The node an activation has come to is a node of the graph. *)
LEMMA NodeAtType ==
  ASSUME TypeOK, NEW k \in 1..Depth, MoreAt(k)
  PROVE  /\ NodeAt(k) \in Nodes
         /\ stack[k].next \in 1..Len(stack[k].nodes)
         /\ NodeAt(k) \in Range(stack[k].nodes)
<1>1. stack[k] \in Activations
    BY DEF TypeOK, Depth
<1>2. /\ stack[k].nodes \in Seq(Nodes)
      /\ stack[k].next \in Nat \ {0}
    BY <1>1 DEF Activations
<1>3. stack[k].next \in 1..Len(stack[k].nodes)
    BY <1>2 DEF MoreAt
<1> QED
    BY <1>2, <1>3 DEF NodeAt, Range

(* What Advance does to the activation on top of a stack. *)
LEMMA AdvanceTop ==
  ASSUME NEW s \in Seq(Activations), NEW k \in Nat \ {0}, Len(s) = k
  PROVE  /\ Advance(s, k) \in Seq(Activations)
         /\ Len(Advance(s, k)) = k
         /\ \A i \in 1..(k - 1) : Advance(s, k)[i] = s[i]
         /\ Advance(s, k)[k].nodes = s[k].nodes
         /\ Advance(s, k)[k].next = s[k].next + 1
<1>1. s[k] \in Activations
    OBVIOUS
<1>2. [s[k] EXCEPT !.next = @ + 1] \in Activations
    BY <1>1 DEF Activations
<1>3. Advance(s, k) = [s EXCEPT ![k] = [s[k] EXCEPT !.next = @ + 1]]
    BY DEF Advance
<1>4. [s[k] EXCEPT !.next = @ + 1].nodes = s[k].nodes
      /\ [s[k] EXCEPT !.next = @ + 1].next = s[k].next + 1
    BY <1>1 DEF Activations
<1>5. /\ Advance(s, k) \in Seq(Activations)
      /\ Len(Advance(s, k)) = k
      /\ \A i \in 1..(k - 1) : Advance(s, k)[i] = s[i]
      /\ Advance(s, k)[k] = [s[k] EXCEPT !.next = @ + 1]
    BY <1>2, <1>3
<1> QED
    BY <1>4, <1>5

-----------------------------------------------------------------------------

LEMMA InitInv == Init => IInv
<1> SUFFICES ASSUME Init PROVE IInv
    OBVIOUS
<1> DEFINE all == [i \in Nodes |-> i]
<1>1. /\ graph \in [Nodes -> Seq(Nodes)]
      /\ stack = <<Activate(all)>> /\ seen = {} /\ res = <<>>
    BY GraphAssumption DEF Init, Called
<1>2. all \in Seq(Nodes)
    BY GraphAssumption DEF Nodes
<1>3. Activate(all) \in Activations
    BY <1>2 DEF Activate, Activations
<1>4. Depth = 1 /\ stack[1].nodes = all /\ stack[1].next = 1
    BY <1>1 DEF Depth, Activate
<1>5. Range(res) = {} /\ Len(res) = 0
    BY <1>1 DEF Range
<1>6. TypeOK
    BY <1>1, <1>2, <1>3, <1>4 DEF TypeOK
<1>7. OutermostList /\ SeenPath /\ Progress
    BY <1>1, <1>4, <1>5 DEF OutermostList, SeenPath, Progress, Processed, Callers
<1>8. ListsAllOnce
    BY <1>1, <1>4 DEF ListsAllOnce, IsInjective, Done, Depth
<1>9. DependenciesFirst
    BY <1>5 DEF DependenciesFirst
<1> QED
    BY <1>6, <1>7, <1>8, <1>9 DEF IInv

(* DependenciesFirst speaks of the graph and the finished nodes only. *)
LEMMA OrderUnchanged ==
  ASSUME DependenciesFirst, graph' = graph, res' = res
  PROVE  DependenciesFirst'
<1>1. ASSUME NEW S \in SUBSET Nodes PROVE Acyclic(S)' <=> Acyclic(S)
    BY DEF Acyclic
<1> SUFFICES ASSUME NEW S \in SUBSET Nodes, Acyclic(S),
                    NEW i \in 1..Len(res), res[i] \in S, NEW d \in Range(graph[res[i]])
             PROVE  \E j \in 1..(i - 1) : res[j] = d
    BY <1>1 DEF DependenciesFirst
<1> QED
    BY DEF DependenciesFirst

LEMMA PassInv == IInv /\ Pass => IInv'
<1> SUFFICES ASSUME IInv, Pass PROVE IInv'
    OBVIOUS
<1>1. /\ Depth > 0 /\ MoreAt(Depth) /\ NodeAt(Depth) \in Processed
      /\ stack' = Advance(stack, Depth)
      /\ UNCHANGED <<graph, seen, res>>
    BY DEF Pass, AtNode, Unprocessed
<1>2. stack \in Seq(Activations) /\ Depth \in Nat \ {0} /\ Len(stack) = Depth
    BY <1>1 DEF IInv, TypeOK, Depth
<1>3. /\ stack' \in Seq(Activations)
      /\ Depth' = Depth
      /\ \A i \in Callers : stack'[i] = stack[i]
      /\ stack'[Depth].nodes = stack[Depth].nodes
      /\ stack'[Depth].next = stack[Depth].next + 1
    BY <1>1, <1>2, AdvanceTop DEF Depth, Callers
<1>4. /\ NodeAt(Depth) = stack[Depth].nodes[stack[Depth].next]
      /\ stack[Depth].next \in 1..Len(stack[Depth].nodes)
      /\ stack[Depth].nodes \in Seq(Nodes)
  <2>1. Depth \in 1..Depth /\ TypeOK
      BY <1>2 DEF IInv
  <2>2. stack[Depth] \in Activations
      BY <1>2
  <2> QED
      BY <1>1, <2>1, <2>2, NodeAtType DEF NodeAt, Activations
<1>5. \A k \in Callers : (MoreAt(k)' <=> MoreAt(k)) /\ NodeAt(k)' = NodeAt(k)
    BY <1>3 DEF MoreAt, NodeAt
<1>6. TypeOK'
  <2>1. \A k \in 1..Depth' : stack'[k].next <= Len(stack'[k].nodes) + 1
    <3> SUFFICES ASSUME NEW k \in 1..Depth
                 PROVE  stack'[k].next <= Len(stack'[k].nodes) + 1
        BY <1>3
    <3>1. CASE k = Depth
        BY <3>1, <1>3, <1>4
    <3>2. CASE k \in Callers
        BY <3>2, <1>3 DEF IInv, TypeOK
    <3> QED
        BY <3>1, <3>2, <1>2 DEF Callers
  <2>2. \A k \in Callers :
          /\ MoreAt(k)' /\ NodeAt(k)' \in seen'
          /\ stack'[k + 1].nodes = graph'[NodeAt(k)']
    <3> SUFFICES ASSUME NEW k \in Callers
                 PROVE  /\ MoreAt(k) /\ NodeAt(k) \in seen
                        /\ stack'[k + 1].nodes = graph[NodeAt(k)]
        BY <1>1, <1>5
    <3>1. /\ MoreAt(k) /\ NodeAt(k) \in seen
          /\ stack[k + 1].nodes = graph[NodeAt(k)]
        BY <1>2 DEF IInv, TypeOK, Callers
    <3>2. stack'[k + 1].nodes = stack[k + 1].nodes
        BY <1>2, <1>3 DEF Callers
    <3> QED
        BY <3>1, <3>2
  <2>3. Callers' = Callers /\ \A k \in 1..Depth' : k < Depth' => k \in Callers
    BY <1>2, <1>3 DEF Callers
  <2> QED
    BY <1>1, <1>3, <2>1, <2>2, <2>3 DEF IInv, TypeOK
<1>7. OutermostList'
    BY <1>2, <1>3 DEF IInv, OutermostList, Callers
<1>8. SeenPath'
    BY <1>1, <1>3, <1>5 DEF IInv, SeenPath, Callers
<1>9. Progress'
  <2> SUFFICES ASSUME NEW k \in 1..Depth, NEW i \in 1..(stack'[k].next - 1)
               PROVE  stack'[k].nodes[i] \in Processed
      BY <1>1, <1>3 DEF IInv, Progress, Processed
  <2>1. CASE k = Depth
    <3>1. i \in 1..(stack[Depth].next - 1) \/ i = stack[Depth].next
        BY <2>1, <1>3, <1>4
    <3> QED
        BY <3>1, <2>1, <1>1, <1>3, <1>4 DEF IInv, Progress
  <2>2. CASE k \in Callers
      BY <2>2, <1>3 DEF IInv, Progress
  <2> QED
      BY <2>1, <2>2, <1>2 DEF Callers
<1>10. ListsAllOnce'
  <2>1. ~Done'
      BY <1>2, <1>3 DEF Done, Depth
  <2> QED
      BY <2>1, <1>1 DEF IInv, ListsAllOnce
<1>11. DependenciesFirst'
    BY <1>1, OrderUnchanged DEF IInv
<1> QED
    BY <1>6, <1>7, <1>8, <1>9, <1>10, <1>11 DEF IInv

LEMMA EnterInv == IInv /\ Enter => IInv'
<1> SUFFICES ASSUME IInv, Enter PROVE IInv'
    OBVIOUS
<1> DEFINE d == NodeAt(Depth)
<1>1. /\ Depth > 0 /\ MoreAt(Depth) /\ d \notin Processed /\ d \notin seen
      /\ stack' = Append(stack, Activate(graph[d]))
      /\ seen' = seen \cup {d}
      /\ UNCHANGED <<graph, res>>
    BY DEF Enter, AtNode, Unprocessed
<1>2. stack \in Seq(Activations) /\ Depth \in Nat \ {0} /\ Len(stack) = Depth
    BY <1>1 DEF IInv, TypeOK, Depth
<1>d. d \in Nodes
    BY <1>1, <1>2, NodeAtType DEF IInv
<1>a. /\ Activate(graph[d]) \in Activations
      /\ Activate(graph[d]).nodes = graph[d] /\ Activate(graph[d]).next = 1
    BY <1>d DEF Activate, Activations, IInv, TypeOK
<1>3. /\ stack' \in Seq(Activations)
      /\ Depth' = Depth + 1
      /\ \A k \in 1..Depth : stack'[k] = stack[k]
      /\ stack'[Depth + 1].nodes = graph[d]
      /\ stack'[Depth + 1].next = 1
    BY <1>1, <1>2, <1>a, AppendFacts DEF Depth
<1>4. Callers' = Callers \cup {Depth} /\ Depth \notin Callers /\ Callers' = 1..Depth
    BY <1>2, <1>3 DEF Callers
<1>5. \A k \in 1..Depth : (MoreAt(k)' <=> MoreAt(k)) /\ NodeAt(k)' = NodeAt(k)
    BY <1>3 DEF MoreAt, NodeAt
<1>6. TypeOK'
  <2>1. \A k \in 1..Depth' : stack'[k].next <= Len(stack'[k].nodes) + 1
    <3> SUFFICES ASSUME NEW k \in 1..(Depth + 1)
                 PROVE  stack'[k].next <= Len(stack'[k].nodes) + 1
        BY <1>3
    <3>1. CASE k = Depth + 1
      <4>1. Len(graph[d]) \in Nat
          BY <1>d DEF IInv, TypeOK
      <4> QED
          BY <3>1, <4>1, <1>3
    <3>2. CASE k \in 1..Depth
        BY <3>2, <1>3 DEF IInv, TypeOK
    <3> QED
        BY <3>1, <3>2, <1>2
  <2>2. \A k \in 1..Depth :
          /\ MoreAt(k)' /\ NodeAt(k)' \in seen'
          /\ stack'[k + 1].nodes = graph'[NodeAt(k)']
    <3> SUFFICES ASSUME NEW k \in 1..Depth
                 PROVE  /\ MoreAt(k) /\ NodeAt(k) \in seen \cup {d}
                        /\ stack'[k + 1].nodes = graph[NodeAt(k)]
        BY <1>1, <1>5
    <3>1. CASE k = Depth
        BY <3>1, <1>1, <1>3
    <3>2. CASE k \in Callers
      <4>1. /\ MoreAt(k) /\ NodeAt(k) \in seen
            /\ stack[k + 1].nodes = graph[NodeAt(k)]
          BY <3>2, <1>2 DEF IInv, TypeOK, Callers
      <4>2. stack'[k + 1] = stack[k + 1]
          BY <3>2, <1>2, <1>3 DEF Callers
      <4> QED
          BY <4>1, <4>2
    <3> QED
        BY <3>1, <3>2, <1>2 DEF Callers
  <2>3. \A k \in 1..Depth' : k < Depth' => k \in 1..Depth
      BY <1>2, <1>3
  <2> QED
    BY <1>1, <1>3, <1>d, <2>1, <2>2, <2>3 DEF IInv, TypeOK
<1>7. OutermostList'
    BY <1>2, <1>3 DEF IInv, OutermostList
<1>8. SeenPath'
  <2>1. seen' = {NodeAt(k) : k \in 1..Depth}
      BY <1>1, <1>4 DEF IInv, SeenPath
  <2>2. \A j, k \in 1..Depth : NodeAt(j) = NodeAt(k) => j = k
      BY <1>1, <1>4 DEF IInv, SeenPath
  <2>3. seen' = {NodeAt(k)' : k \in Callers'}
      BY <2>1, <1>4, <1>5
  <2> QED
      BY <2>2, <2>3, <1>4, <1>5 DEF SeenPath
<1>9. Progress'
  <2> SUFFICES ASSUME NEW k \in 1..(Depth + 1), NEW i \in 1..(stack'[k].next - 1)
               PROVE  stack'[k].nodes[i] \in Processed
      BY <1>1, <1>3 DEF IInv, Progress, Processed
  <2>1. CASE k = Depth + 1
      BY <2>1, <1>3
  <2>2. CASE k \in 1..Depth
      BY <2>2, <1>3 DEF IInv, Progress
  <2> QED
      BY <2>1, <2>2, <1>2
<1>10. ListsAllOnce'
  <2>1. ~Done'
      BY <1>2, <1>3 DEF Done, Depth
  <2> QED
      BY <2>1, <1>1 DEF IInv, ListsAllOnce
<1>11. DependenciesFirst'
    BY <1>1, OrderUnchanged DEF IInv
<1> QED
    BY <1>6, <1>7, <1>8, <1>9, <1>10, <1>11 DEF IInv

-----------------------------------------------------------------------------
(* Returning from an activation *)

(* An activation that returns early is not working for a node that reaches no
   cycle: the nodes worked on from the one met again onwards depend on one
   another in a circle. *)
LEMMA CycleNotAcyclic ==
  ASSUME IInv, Cycle, Depth > 1, NEW S \in SUBSET Nodes, Acyclic(S)
  PROVE  NodeAt(Depth - 1) \notin S
<1> DEFINE top == Depth - 1
           v == NodeAt(Depth)
<1> SUFFICES ASSUME NodeAt(top) \in S PROVE FALSE
    OBVIOUS
<1>1. Depth \in Nat /\ top \in Callers /\ Depth \in 1..Depth /\ top + 1 = Depth
    BY DEF Depth, IInv, TypeOK, Callers
<1>2. \A k \in Callers : /\ k \in 1..Depth /\ k < Depth /\ k + 1 \in 1..Depth
                         /\ k # top => k + 1 \in Callers
    BY <1>1 DEF Callers
<1>3. \A k \in Callers : MoreAt(k + 1) => NodeAt(k + 1) \in Range(graph[NodeAt(k)])
  <2> SUFFICES ASSUME NEW k \in Callers, MoreAt(k + 1)
               PROVE  NodeAt(k + 1) \in Range(graph[NodeAt(k)])
      OBVIOUS
  <2>1. NodeAt(k + 1) \in Range(stack[k + 1].nodes)
      BY <1>2, NodeAtType DEF IInv
  <2>2. stack[k + 1].nodes = graph[NodeAt(k)]
      BY <1>2 DEF IInv, TypeOK
  <2> QED
      BY <2>1, <2>2
<1>4. \A k \in Callers : MoreAt(k)
    BY <1>2 DEF IInv, TypeOK
<1>5. PICK j \in Callers : NodeAt(j) = v
    BY DEF Cycle, IInv, SeenPath
<1> DEFINE Circle == {NodeAt(k) : k \in j..top}
           T == S \cap Circle
<1>6. NodeAt(top) \in T
    BY <1>1, <1>5 DEF Callers
<1>7. T \in SUBSET S /\ T # {}
    BY <1>6
<1>8. PICK n \in T : Range(graph[n]) \cap T = {}
    BY <1>7 DEF Acyclic
<1>9. PICK k \in j..top : n = NodeAt(k)
    OBVIOUS
<1>10. k \in Callers /\ Range(graph[n]) \subseteq S
    BY <1>1, <1>5, <1>8 DEF Callers, Acyclic
<1>11. CASE k = top
  <2>1. v \in Range(graph[n])
      BY <1>1, <1>3, <1>9, <1>10, <1>11 DEF Cycle
  <2>2. v \in Circle
      BY <1>1, <1>5 DEF Callers
  <2> QED
      BY <2>1, <2>2, <1>8, <1>10
<1>12. CASE k # top
  <2>1. k + 1 \in Callers /\ k + 1 \in j..top
      BY <1>1, <1>2, <1>5, <1>10, <1>12 DEF Callers
  <2>2. NodeAt(k + 1) \in Range(graph[n])
      BY <2>1, <1>3, <1>4, <1>9, <1>10
  <2> QED
      BY <2>1, <2>2, <1>8, <1>10
<1> QED
    BY <1>11, <1>12

(* What Resume does: the stack loses its top, and the node the new top waited
   at is finished. *)
LEMMA ResumeFacts ==
  ASSUME IInv, Exhausted \/ Cycle, Depth > 1, Resume
  PROVE  LET top == Depth - 1
             d   == NodeAt(top)
         IN  /\ top \in Nat \ {0} /\ top \in Callers /\ Depth = top + 1
             /\ stack' \in Seq(Activations)
             /\ Depth' = top
             /\ \A k \in 1..(top - 1) : stack'[k] = stack[k]
             /\ stack'[top].nodes = stack[top].nodes
             /\ stack'[top].next = stack[top].next + 1
             /\ stack[top].next \in 1..Len(stack[top].nodes)
             /\ d = stack[top].nodes[stack[top].next]
             /\ d \in Nodes /\ d \in seen /\ d \notin Processed
             /\ seen' = seen \ {d}
             /\ res' = Append(res, d)
             /\ Processed' = Processed \cup {d}
             /\ graph' = graph
<1> DEFINE top == Depth - 1
           d   == NodeAt(top)
           s   == SubSeq(stack, 1, top)
<1>1. stack \in Seq(Activations) /\ Depth \in Nat /\ Len(stack) = Depth
    BY DEF IInv, TypeOK, Depth
<1>2. top \in Nat \ {0} /\ top \in Callers /\ Depth = top + 1 /\ top \in 1..Depth
    BY <1>1 DEF Callers
<1>3. s \in Seq(Activations) /\ Len(s) = top /\ \A k \in 1..top : s[k] = stack[k]
    BY <1>1, <1>2
<1>4. /\ stack' = Advance(s, top)
      /\ seen' = seen \ {d} /\ res' = Append(res, d) /\ graph' = graph
    BY DEF Resume
<1>5. /\ stack' \in Seq(Activations)
      /\ Len(stack') = top
      /\ \A k \in 1..(top - 1) : stack'[k] = s[k]
      /\ stack'[top].nodes = s[top].nodes
      /\ stack'[top].next = s[top].next + 1
    BY <1>2, <1>3, <1>4, AdvanceTop
<1>6. /\ \A k \in 1..(top - 1) : stack'[k] = stack[k]
      /\ stack'[top].nodes = stack[top].nodes
      /\ stack'[top].next = stack[top].next + 1
    BY <1>2, <1>3, <1>5
<1>7. MoreAt(top) /\ d \in seen
    BY <1>2 DEF IInv, TypeOK
<1>8. /\ d \in Nodes
      /\ stack[top].next \in 1..Len(stack[top].nodes)
    BY <1>2, <1>7, NodeAtType DEF IInv
<1>9. d \notin Processed
    BY <1>7 DEF IInv, Progress
<1>10. Processed' = Processed \cup {d}
    BY <1>4, <1>8, AppendFacts DEF Processed, IInv, TypeOK
<1> HIDE DEF d, top, s
<1>11. d = stack[top].nodes[stack[top].next]
    BY DEF NodeAt, d
<1>12. Depth' = top
    BY <1>5 DEF Depth
<1> QED
    BY <1>2, <1>4, <1>5, <1>6, <1>7, <1>8, <1>9, <1>10, <1>11, <1>12 DEF d, top

(* The node that is finished has every node it depends on before it, unless
   it reaches a cycle. *)
LEMMA ResumeOrder ==
  ASSUME IInv, Exhausted \/ Cycle, Depth > 1, NEW S \in SUBSET Nodes, Acyclic(S),
         NodeAt(Depth - 1) \in S
  PROVE  Range(graph[NodeAt(Depth - 1)]) \subseteq Processed
<1> DEFINE top == Depth - 1
           list == stack[Depth].nodes
<1>1. Depth \in Nat /\ top \in 1..Depth /\ top < Depth /\ Depth \in 1..Depth /\ top + 1 = Depth
    BY DEF Depth, IInv, TypeOK
<1>2. list = graph[NodeAt(top)]
    BY <1>1 DEF IInv, TypeOK
<1>3. ~MoreAt(Depth)
    BY CycleNotAcyclic DEF Exhausted
<1>4. stack[Depth] \in Activations
    BY <1>1 DEF IInv, TypeOK, Depth
<1>5. list \in Seq(Nodes) /\ stack[Depth].next \in Nat /\ Len(list) < stack[Depth].next
    BY <1>3, <1>4 DEF Activations, MoreAt
<1>6. \A i \in 1..Len(list) : list[i] \in Processed
    BY <1>1, <1>5 DEF IInv, Progress
<1>7. Range(list) \subseteq Processed
    BY <1>5, <1>6 DEF Range
<1> QED
    BY <1>2, <1>7

LEMMA ResumeInv ==
  ASSUME IInv, Exhausted \/ Cycle, Depth > 1, Resume
  PROVE  IInv'
<1> DEFINE top == Depth - 1
           d   == NodeAt(top)
<1>1. /\ top \in Nat \ {0} /\ top \in Callers /\ Depth = top + 1
      /\ stack' \in Seq(Activations)
      /\ Depth' = top
      /\ \A k \in 1..(top - 1) : stack'[k] = stack[k]
      /\ stack'[top].nodes = stack[top].nodes
      /\ stack'[top].next = stack[top].next + 1
      /\ stack[top].next \in 1..Len(stack[top].nodes)
      /\ d = stack[top].nodes[stack[top].next]
      /\ d \in Nodes /\ d \in seen /\ d \notin Processed
      /\ seen' = seen \ {d}
      /\ res' = Append(res, d)
      /\ Processed' = Processed \cup {d}
      /\ graph' = graph
    BY ResumeFacts
<1>r. res \in Seq(Nodes) /\ stack \in Seq(Activations) /\ Len(stack) = Depth
    BY DEF IInv, TypeOK, Depth
<1>2. /\ res' \in Seq(Nodes)
      /\ Len(res') = Len(res) + 1
      /\ \A i \in 1..Len(res) : res'[i] = res[i]
      /\ res'[Len(res) + 1] = d
    BY <1>1, <1>r, AppendFacts
<1>n. Len(res) \in Nat /\ DOMAIN res = 1..Len(res) /\ DOMAIN res' = 1..(Len(res) + 1)
    BY <1>r, <1>2
<1>3. Callers' = 1..(top - 1) /\ Callers = Callers' \cup {top} /\ top \notin Callers'
    BY <1>1 DEF Callers
<1>4. \A k \in Callers' : (MoreAt(k)' <=> MoreAt(k)) /\ NodeAt(k)' = NodeAt(k)
    BY <1>1, <1>3 DEF MoreAt, NodeAt
<1> HIDE DEF d, top
<1>s. /\ top \in Nat \ {0}
      /\ \A k \in 1..(top - 1) : stack'[k] = stack[k]
      /\ stack'[top].nodes = stack[top].nodes
      /\ stack'[top].next = stack[top].next + 1
    BY <1>1
<1>g. graph' = graph
    BY <1>1
<1>5. TypeOK'
  <2>1. \A k \in 1..Depth' : stack'[k].next <= Len(stack'[k].nodes) + 1
    <3> SUFFICES ASSUME NEW k \in 1..top
                 PROVE  stack'[k].next <= Len(stack'[k].nodes) + 1
        BY <1>1
    <3>1. CASE k = top
      <4>1. stack[top] \in Activations
          BY <1>1, <1>r
      <4> QED
          BY <3>1, <4>1, <1>1 DEF Activations
    <3>2. CASE k \in 1..(top - 1)
      <4>1. k \in 1..Depth /\ stack'[k] = stack[k]
          BY <3>2, <1>1
      <4>2. stack[k].next <= Len(stack[k].nodes) + 1
          BY <4>1 DEF IInv, TypeOK
      <4> QED
          BY <4>1, <4>2
    <3> QED
        BY <3>1, <3>2, <1>1
  <2>2. \A k \in 1..Depth' : k < Depth' =>
          /\ MoreAt(k)' /\ NodeAt(k)' \in seen'
          /\ stack'[k + 1].nodes = graph'[NodeAt(k)']
    <3> SUFFICES ASSUME NEW k \in Callers'
                 PROVE  /\ MoreAt(k) /\ NodeAt(k) \in seen'
                        /\ stack'[k + 1].nodes = graph[NodeAt(k)]
        BY <1>1, <1>3, <1>4
    <3>1. /\ MoreAt(k) /\ NodeAt(k) \in seen
          /\ stack[k + 1].nodes = graph[NodeAt(k)]
      <4>1. k \in 1..Depth /\ k < Depth
          BY <1>1, <1>3
      <4> QED
          BY <4>1 DEF IInv, TypeOK
    <3>2. NodeAt(k) # d
        BY <1>1, <1>3 DEF IInv, SeenPath, d
    <3>3. stack'[k + 1].nodes = stack[k + 1].nodes
      <4>1. CASE k + 1 = top
          BY <4>1, <1>s
      <4>2. CASE k + 1 # top
        <5>1. k \in 1..(top - 1)
            BY <1>3
        <5>2. k + 1 \in 1..(top - 1)
            BY <4>2, <5>1, <1>s
        <5> QED
            BY <5>2, <1>s
      <4> QED
          BY <4>1, <4>2
    <3> QED
        BY <3>1, <3>2, <3>3, <1>1
  <2> QED
    BY <1>1, <1>2, <2>1, <2>2 DEF IInv, TypeOK
<1>6. OutermostList'
  <2>1. stack[1].nodes = [i \in Nodes |-> i]
    <3>1. Depth > 0
        BY <1>1
    <3> QED
        BY <3>1 DEF IInv, OutermostList
  <2>2. stack'[1].nodes = stack[1].nodes
    <3>1. CASE top = 1
        BY <3>1, <1>s
    <3>2. CASE top # 1
      <4>1. 1 \in 1..(top - 1)
          BY <3>2, <1>s
      <4> QED
          BY <4>1, <1>s
    <3> QED
        BY <3>1, <3>2
  <2> QED
      BY <2>1, <2>2 DEF OutermostList
<1>7. SeenPath'
  <2>1. seen' = {NodeAt(k) : k \in Callers'}
    <3>1. seen' = {NodeAt(k) : k \in Callers} \ {NodeAt(top)}
        BY <1>1 DEF IInv, SeenPath, d
    <3>2. \A k \in Callers' : NodeAt(k) # NodeAt(top)
        BY <1>3 DEF IInv, SeenPath
    <3> QED
        BY <3>1, <3>2, <1>3
  <2>2. \A j, k \in Callers' : NodeAt(j) = NodeAt(k) => j = k
      BY <1>3 DEF IInv, SeenPath
  <2>3. seen' = {NodeAt(k)' : k \in Callers'}
      BY <2>1, <1>4
  <2> QED
      BY <2>2, <2>3, <1>4 DEF SeenPath
<1>8. Progress'
  <2>1. seen' \cap Processed' = {}
      BY <1>1 DEF IInv, Progress
  <2>2. ASSUME NEW k \in 1..top, NEW i \in 1..(stack'[k].next - 1)
        PROVE  stack'[k].nodes[i] \in Processed'
    <3>1. CASE k = top
      <4>1. stack[top].next \in Nat
          BY <1>1
      <4>2. i \in 1..(stack[top].next - 1) \/ i = stack[top].next
          BY <3>1, <4>1, <1>s
      <4>3. top \in 1..Depth
          BY <1>1
      <4>4. \A m \in 1..(stack[top].next - 1) : stack[top].nodes[m] \in Processed
          BY <4>3 DEF IInv, Progress
      <4>5. stack[top].nodes[i] \in Processed \cup {d}
          BY <4>2, <4>4, <1>1
      <4> QED
          BY <3>1, <4>5, <1>1
    <3>2. CASE k \in 1..(top - 1)
      <4>1. stack'[k] = stack[k]
          BY <3>2, <1>s
      <4>2. k \in 1..Depth
          BY <3>2, <1>1
      <4>3. stack[k].nodes[i] \in Processed
          BY <4>1, <4>2 DEF IInv, Progress
      <4> QED
          BY <4>1, <4>3, <1>1
    <3> QED
        BY <3>1, <3>2, <1>s
  <2> QED
      BY <2>1, <2>2, <1>1 DEF Progress
<1>9. ListsAllOnce'
  <2>1. ~Done'
      BY <1>1 DEF Done, Depth
  <2>2. \A i \in 1..Len(res) : res[i] # d
      BY <1>1, <1>n DEF Processed, Range
  <2>3. IsInjective(res')
    <3>1. \A i, j \in 1..Len(res) : res[i] = res[j] => i = j
        BY <1>n DEF IInv, ListsAllOnce, IsInjective
    <3>2. \A i \in 1..Len(res') : i \in 1..Len(res) \/ i = Len(res) + 1
        BY <1>2, <1>n
    <3>3. \A i, j \in 1..Len(res') : res'[i] = res'[j] => i = j
        BY <3>1, <3>2, <2>2, <1>2
    <3> QED
        BY <3>3, <1>2, <1>n DEF IsInjective
  <2> QED
      BY <2>1, <2>3 DEF ListsAllOnce
<1>10. DependenciesFirst'
  <2> SUFFICES ASSUME NEW S \in SUBSET Nodes, Acyclic(S)',
                      NEW i \in 1..Len(res'), res'[i] \in S,
                      NEW e \in Range(graph[res'[i]])
               PROVE  \E j \in 1..(i - 1) : res'[j] = e
      BY <1>g DEF DependenciesFirst
  <2>1. Acyclic(S)
      BY <1>g DEF Acyclic
  <2>2. CASE i \in 1..Len(res)
    <3>1. PICK j \in 1..(i - 1) : res[j] = e
        BY <2>1, <2>2, <1>2 DEF IInv, DependenciesFirst
    <3> QED
        BY <3>1, <2>2, <1>2, <1>n
  <2>3. CASE i = Len(res) + 1
    <3>1. e \in Processed
        BY <2>1, <2>3, <1>2, ResumeOrder DEF d, top
    <3>2. PICK j \in 1..Len(res) : res[j] = e
        BY <3>1, <1>n DEF Processed, Range
    <3> QED
        BY <3>2, <2>3, <1>2, <1>n
  <2> QED
      BY <2>2, <2>3, <1>2, <1>n
<1> QED
    BY <1>5, <1>6, <1>7, <1>8, <1>9, <1>10 DEF IInv

(* The outermost activation never returns early, so it has passed all nodes. *)
LEMMA FinishInv ==
  ASSUME IInv, Exhausted \/ Cycle, Depth = 1, Finish
  PROVE  IInv'
<1>1. stack' = <<>> /\ graph' = graph /\ seen' = seen /\ res' = res
    BY DEF Finish
<1>2. seen = {}
    BY DEF IInv, SeenPath, Callers
<1>3. /\ stack[1] \in Activations /\ ~MoreAt(1)
      /\ stack[1].nodes = [i \in Nodes |-> i]
  <2>1. ~MoreAt(1)
      BY <1>2 DEF Exhausted, Cycle
  <2>a. Len(stack) = 1 /\ stack \in Seq(Activations)
      BY DEF IInv, TypeOK, Depth
  <2>2. stack[1] \in Activations
      BY <2>a
  <2> QED
      BY <2>1, <2>2 DEF IInv, OutermostList
<1>4. Len(stack[1].nodes) = N /\ stack[1].next \in Nat /\ N < stack[1].next
    BY <1>3, GraphAssumption DEF MoreAt, Nodes, Activations
<1>5. \A n \in Nodes : n \in Processed
    BY <1>3, <1>4, GraphAssumption DEF IInv, Progress, Nodes
<1>6. Processed \subseteq Nodes
    BY DEF Processed, Range, IInv, TypeOK
<1>7. ListsAllOnce'
    BY <1>1, <1>5, <1>6 DEF IInv, ListsAllOnce, Processed
<1>8. Depth' = 0
    BY <1>1 DEF Depth
<1>9. TypeOK'
    BY <1>1, <1>8 DEF IInv, TypeOK
<1>10. OutermostList' /\ SeenPath' /\ Progress'
    BY <1>1, <1>2, <1>8 DEF OutermostList, SeenPath, Progress, Callers
<1>11. DependenciesFirst'
    BY <1>1, OrderUnchanged DEF IInv
<1> QED
    BY <1>7, <1>9, <1>10, <1>11 DEF IInv

LEMMA ReturnInv == IInv /\ Return => IInv'
BY ResumeInv, FinishInv DEF Return

LEMMA StutterInv == IInv /\ UNCHANGED vars => IInv'
<1> SUFFICES ASSUME IInv, UNCHANGED vars PROVE IInv'
    OBVIOUS
<1>1. stack' = stack /\ graph' = graph /\ seen' = seen /\ res' = res
    BY DEF vars
<1>2. DependenciesFirst'
    BY <1>1, OrderUnchanged DEF IInv
<1>3. TypeOK'
    BY <1>1 DEF IInv, TypeOK, Depth, MoreAt, NodeAt
<1>4. OutermostList' /\ SeenPath' /\ Progress' /\ ListsAllOnce'
    BY <1>1 DEF IInv, OutermostList, SeenPath, Progress, ListsAllOnce, Depth, NodeAt,
                Callers, Processed, Done
<1> QED
    BY <1>2, <1>3, <1>4 DEF IInv

LEMMA NextInv == IInv /\ [Next]_vars => IInv'
BY PassInv, EnterInv, ReturnInv, StutterInv DEF Next, Step, Returned

-----------------------------------------------------------------------------

(* The inductive invariant holds in every reachable state. *)
THEOREM Invariant == Spec => []IInv
BY InitInv, NextInv, PTL DEF Spec

(* Types and the shape of the stack, for every graph. *)
THEOREM TypeCorrect == Spec => []TypeOK
<1>1. IInv => TypeOK
    BY DEF IInv
<1> QED
    BY <1>1, Invariant, PTL

(* Every node is listed exactly once, for every graph. *)
THEOREM AllListedOnce == Spec => []ListsAllOnce
<1>1. IInv => ListsAllOnce
    BY DEF IInv
<1> QED
    BY <1>1, Invariant, PTL

(* Nodes that reach no cycle come after what they depend on, for every
   graph. *)
THEOREM Ordered == Spec => []DependenciesFirst
<1>1. IInv => DependenciesFirst
    BY DEF IInv
<1> QED
    BY <1>1, Invariant, PTL
=============================================================================

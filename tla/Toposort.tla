------------------------------ MODULE Toposort ------------------------------
(***************************************************************************)
(* toposort_impl of core/src/topsort.rs: a depth-first traversal that      *)
(* lists each node after the nodes it depends on. The recursion of `inner` *)
(* is a stack of activations, each with its list of nodes and the position *)
(* it has come to; the activation below is waiting at the node whose       *)
(* dependencies the one above works through. `processed` and `res` always  *)
(* get the same nodes, so one variable stands for both.                    *)
(*                                                                         *)
(* An activation that meets a node which is still being worked on returns  *)
(* at once, and the rest of its list is left to the activations below.     *)
(***************************************************************************)
EXTENDS Naturals, Sequences, Functions

CONSTANTS N,       \* number of nodes
          Graphs   \* the dependency lists the function is called with

Nodes == 1..N

ASSUME GraphAssumption == N \in Nat /\ Graphs \subseteq [Nodes -> Seq(Nodes)]

VARIABLES
  graph,  \* for each node the list of nodes it depends on
  stack,  \* activations of `inner`, the outermost first
  seen,   \* nodes being worked on
  res     \* finished nodes

vars == <<graph, stack, seen, res>>

Activations == [nodes : Seq(Nodes), next : Nat \ {0}]

Activate(list) == [nodes |-> list, next |-> 1]

Processed == Range(res)

Done == stack = <<>>

(* The activation at a level, whether it has a node left, and that node. *)
MoreAt(k) == stack[k].next <= Len(stack[k].nodes)
NodeAt(k) == stack[k].nodes[stack[k].next]

Depth == Len(stack)

(* The type invariant: every activation but the topmost waits at a node that
   is being worked on, and the one above has its dependencies. *)
TypeOK ==
  /\ graph \in [Nodes -> Seq(Nodes)]
  /\ stack \in Seq(Activations)
  /\ seen \in SUBSET Nodes
  /\ res \in Seq(Nodes)
  /\ \A k \in 1..Depth : stack[k].next <= Len(stack[k].nodes) + 1
  /\ \A k \in 1..Depth : k < Depth =>
       /\ MoreAt(k) /\ NodeAt(k) \in seen
       /\ stack[k + 1].nodes = graph[NodeAt(k)]

Called ==
  /\ stack = <<Activate([i \in Nodes |-> i])>>
  /\ seen = {}
  /\ res = <<>>

Init == graph \in Graphs /\ Called

-----------------------------------------------------------------------------

(* The loop of the activation at level k goes on to the same node again. *)
Stay(s, k) == s

(* The loop of the activation at level k goes on to its next node. *)
Advance(s, k) == [s EXCEPT ![k].next = @ + 1]

AtNode == Depth > 0 /\ MoreAt(Depth) /\ UNCHANGED graph

(* Nothing remembers which nodes are finished. *)
Unfinished(d) == TRUE

(* The node may still have to be worked on. *)
Unprocessed(d) == d \notin Processed

(* A node that is finished is passed over. *)
Pass ==
  /\ AtNode /\ ~Unprocessed(NodeAt(Depth))
  /\ stack' = Advance(stack, Depth)
  /\ UNCHANGED <<seen, res>>

(* The node is put down before the nodes it depends on. *)
EnterPreorder ==
  /\ AtNode /\ Unprocessed(NodeAt(Depth))
  /\ NodeAt(Depth) \notin seen
  /\ seen' = seen \cup {NodeAt(Depth)}
  /\ stack' = Append(stack, Activate(graph[NodeAt(Depth)]))
  /\ res' = Append(res, NodeAt(Depth))

(* Work on a node starts with an activation for its dependencies. *)
Enter ==
  /\ AtNode /\ Unprocessed(NodeAt(Depth))
  /\ NodeAt(Depth) \notin seen
  /\ seen' = seen \cup {NodeAt(Depth)}
  /\ stack' = Append(stack, Activate(graph[NodeAt(Depth)]))
  /\ UNCHANGED res

(* The function returns to its caller. *)
Finish == stack' = <<>> /\ UNCHANGED <<graph, seen, res>>

(* With the node below, all that are being worked on go out of sight. *)
ResumeClearing ==
  LET caller == Depth - 1
  IN  /\ stack' = Advance(SubSeq(stack, 1, caller), caller)
      /\ seen' = {}
      /\ res' = Append(res, NodeAt(caller))
      /\ UNCHANGED graph

(* The activation returns to the one below, which is done with its node. *)
Resume ==
  LET caller == Depth - 1
  IN  /\ stack' = Advance(SubSeq(stack, 1, caller), caller)
      /\ seen' = seen \ {NodeAt(caller)}
      /\ res' = Append(res, NodeAt(caller))
      /\ UNCHANGED graph

(* The list is worked through. *)
Exhausted == Depth > 0 /\ ~MoreAt(Depth)

(* The node is being worked on further down: the `return` of the code, which
   leaves the rest of the list. *)
Cycle == Depth > 0 /\ MoreAt(Depth) /\ Unprocessed(NodeAt(Depth)) /\ NodeAt(Depth) \in seen

Return == /\ Exhausted \/ Cycle
          /\ \/ Depth > 1 /\ Resume
             \/ Depth = 1 /\ Finish

Step == Pass \/ Enter \/ Return

(* The function returned. *)
Returned == Done /\ UNCHANGED vars

Next == Step \/ Returned

Spec == Init /\ [][Next]_vars

(* The function is sequential code that runs on. *)
FairSpec == Spec /\ WF_vars(Step)

-----------------------------------------------------------------------------
(* Properties *)

(* Every node is listed exactly once, whatever the cycles: the early return
   never loses a node and never lists one twice. sort_by_indices depends on
   it. *)
ListsAllOnce == /\ IsInjective(res)
                /\ Done => Processed = Nodes

(* No dependency chain from inside S runs into a cycle or out of S. *)
Acyclic(S) ==
  /\ \A n \in S : Range(graph[n]) \subseteq S
  /\ \A T \in SUBSET S : T # {} => \E n \in T : Range(graph[n]) \cap T = {}

(* The order of types: a node that reaches no cycle is listed after all the
   nodes it depends on. Cycles elsewhere, and the lists abandoned because of
   them, do not disturb it. *)
DependenciesFirst ==
  \A S \in SUBSET Nodes : Acyclic(S) =>
    \A i \in 1..Len(res) : res[i] \in S =>
      \A d \in Range(graph[res[i]]) : \E j \in 1..(i - 1) : res[j] = d

(* The traversal ends, also on cyclic graphs. *)
Ends == <>Done
=============================================================================

---------------------------- MODULE SortByIndices ----------------------------
(***************************************************************************)
(* sort_by_indices of core/src/topsort.rs: rearranges a slice in place so  *)
(* that position i holds what was at perm[i], following the cycles of the  *)
(* permutation. A position is settled once indices[i] = i; the code uses   *)
(* the index vector itself to remember that. Positions count from 1 here   *)
(* and from 0 in the code.                                                 *)
(***************************************************************************)
EXTENDS Naturals, Functions

CONSTANTS N,       \* length of the slice
          Items,   \* what it may hold
          Slices   \* the slices the function is called with

Positions == 1..N

ASSUME SliceAssumption == N \in Nat /\ Slices \subseteq [Positions -> Items]

VARIABLES
  input,    \* what the slice held when the function was called
  perm,     \* the index vector the function was called with
  data,     \* the slice
  indices,  \* the index vector, consumed as positions are settled
  idx,      \* the outer loop's position
  cur       \* current_idx of the inner loop, 0 outside of it

vars == <<input, perm, data, indices, idx, cur>>

Settled(i) == indices[i] = i

TypeOK ==
  /\ input \in [Positions -> Items]
  /\ perm \in [Positions -> Positions]
  /\ data \in [Positions -> Items]
  /\ indices \in [Positions -> Positions]
  /\ idx \in 1..(N + 1)
  /\ cur \in 0..N
  /\ cur # 0 => idx \in Positions /\ ~Settled(cur)

(* topsort passes the result of toposort_impl, which lists every position
   exactly once. *)
Called ==
  /\ IsInjective(perm)
  /\ data = input /\ indices = perm
  /\ idx = 1 /\ cur = 0

Init ==
  /\ input \in Slices
  /\ perm \in [Positions -> Positions]
  /\ Called

(* One value is copied over the other. *)
Overwrite(f, i, j) == [f EXCEPT ![i] = f[j]]

Swap(f, i, j) == [f EXCEPT ![i] = f[j], ![j] = f[i]]

(* A position that is already settled is passed over. *)
Pass ==
  /\ cur = 0 /\ idx <= N /\ Settled(idx)
  /\ idx' = idx + 1
  /\ UNCHANGED <<input, perm, data, indices, cur>>

(* The inner loop starts at a position that is not. *)
EnterCycle ==
  /\ cur = 0 /\ idx <= N /\ ~Settled(idx)
  /\ cur' = idx
  /\ UNCHANGED <<input, perm, data, indices, idx>>

(* The index of a placed position is left as it was. *)
Unmarked(i) == UNCHANGED indices

Settle(i) == indices' = [indices EXCEPT ![i] = i]

(* The cycle goes on, but with swaps into the position it started from. *)
FollowFromStart ==
  /\ cur # 0 /\ ~Settled(indices[cur])
  /\ Settle(cur)
  /\ data' = Swap(data, idx, indices[cur])
  /\ cur' = indices[cur]
  /\ UNCHANGED <<input, perm, idx>>

(* The current position gets its value, and the cycle goes on at the place
   the value came from. *)
FollowCycle ==
  /\ cur # 0 /\ ~Settled(indices[cur])
  /\ Settle(cur)
  /\ data' = Swap(data, cur, indices[cur])
  /\ cur' = indices[cur]
  /\ UNCHANGED <<input, perm, idx>>

(* The end of the cycle does not end the inner loop. *)
LeaveOpen ==
  /\ cur # 0 /\ Settled(indices[cur])
  /\ Settle(cur)
  /\ idx' = idx + 1
  /\ UNCHANGED <<input, perm, data, cur>>

(* The cycle is back where it started: the last position already holds its
   value. *)
LeaveCycle ==
  /\ cur # 0 /\ Settled(indices[cur])
  /\ Settle(cur)
  /\ cur' = 0 /\ idx' = idx + 1
  /\ UNCHANGED <<input, perm, data>>

Step == Pass \/ EnterCycle \/ FollowCycle \/ LeaveCycle

Done == idx = N + 1

(* The function returned. *)
Returned == Done /\ UNCHANGED vars

Next == Step \/ Returned

Spec == Init /\ [][Next]_vars

(* The function is sequential code that runs on. *)
FairSpec == Spec /\ WF_vars(Step)

-----------------------------------------------------------------------------
(* Properties *)

(* sort_by_indices puts at each position what was at the position its index
   names: the in-place swaps lose, duplicate and misplace nothing. *)
InOrder == Done => \A i \in Positions : data[i] = input[perm[i]]

(* A position the function is done with is final: no later cycle moves its
   value again, although nothing but the consumed index vector says so. *)
SettledStays ==
  [][\A i \in Positions : Settled(i) => Settled(i)' /\ data'[i] = data[i]]_vars

(* The inner loop finds the end of every cycle and the function returns. *)
Ends == <>Done
=============================================================================

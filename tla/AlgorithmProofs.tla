-------------------------- MODULE AlgorithmProofs --------------------------
(***************************************************************************)
(* Proofs about the two algorithms that stand on their own: SortByIndices, *)
(* for slices of every length and content, and the conversions of          *)
(* Integers53, for every integer.                                          *)
(***************************************************************************)
EXTENDS SortByIndices, Integers53, TLAPS

-----------------------------------------------------------------------------
(* sort_by_indices: an index is the caller's until its position is settled. *)
IndexKept == \A i \in Positions : indices[i] \in {i, perm[i]}

(* The outer loop leaves settled positions behind it, and so does the inner
   loop where it started. *)
BehindSettled ==
  /\ \A i \in Positions : i < idx => Settled(i)
  /\ cur # 0 => Settled(idx) \/ cur = idx

(* Settled positions hold their final value; the others still hold their
   own, except that the value displaced from the start of the cycle travels
   with the inner loop. *)
Placed ==
  \A i \in Positions :
    data[i] = IF Settled(i) THEN input[perm[i]]
              ELSE IF i = cur THEN input[idx] ELSE input[i]

(* Cycles are settled as a whole: only the one the inner loop is in has a
   settled position whose value-taker is not settled, and that is where the
   loop started. *)
CyclesClosed ==
  \A i \in Positions :
    ~Settled(i) /\ Settled(perm[i]) => cur # 0 /\ perm[i] = idx

(* The inner loop came to where it is from a settled position. *)
CameFrom ==
  cur # 0 /\ cur # idx => \E j \in Positions : Settled(j) /\ perm[j] = cur

IInv == /\ TypeOK
        /\ IsInjective(perm)
        /\ IndexKept
        /\ BehindSettled
        /\ Placed
        /\ CyclesClosed
        /\ CameFrom

-----------------------------------------------------------------------------

LEMMA PositionsPositive == \A i \in Positions : i # 0
BY SliceAssumption DEF Positions

LEMMA InitInv == Init => IInv
<1> SUFFICES ASSUME Init PROVE IInv
    OBVIOUS
<1> USE SliceAssumption DEF Init, Called
<1>1. TypeOK
    BY DEF TypeOK, Positions
<1>2. IndexKept
    BY DEF IndexKept
<1>3. BehindSettled
    BY DEF BehindSettled, Positions
<1>4. Placed
    BY PositionsPositive DEF Placed, Settled
<1>5. CyclesClosed
    BY DEF CyclesClosed, Settled, IsInjective, Positions
<1>6. CameFrom
    BY DEF CameFrom
<1> QED
    BY <1>1, <1>2, <1>3, <1>4, <1>5, <1>6 DEF IInv

LEMMA PassInv == IInv /\ Pass => IInv'
<1> SUFFICES ASSUME IInv, Pass PROVE IInv'
    OBVIOUS
<1> USE SliceAssumption DEF IInv, Pass, Settled, Positions
<1>1. TypeOK'
    BY DEF TypeOK
<1>2. IndexKept'
    BY DEF IndexKept
<1>3. BehindSettled'
    BY DEF BehindSettled, TypeOK
<1>4. Placed'
  <2> SUFFICES ASSUME NEW i \in Positions
               PROVE  data[i] = IF Settled(i) THEN input[perm[i]] ELSE input[i]
      BY PositionsPositive DEF Placed
  <2> QED
      BY PositionsPositive DEF Placed
<1>5. CyclesClosed'
    BY DEF CyclesClosed
<1>6. CameFrom'
    BY DEF CameFrom
<1>7. IsInjective(perm)'
    OBVIOUS
<1> QED
    BY <1>1, <1>2, <1>3, <1>4, <1>5, <1>6, <1>7

LEMMA EnterCycleInv == IInv /\ EnterCycle => IInv'
<1> SUFFICES ASSUME IInv, EnterCycle PROVE IInv'
    OBVIOUS
<1>u. /\ ~Settled(idx) /\ cur = 0 /\ cur' = idx
      /\ UNCHANGED <<input, perm, data, indices, idx>>
    BY DEF EnterCycle
<1>i. idx \in Positions
    BY SliceAssumption DEF EnterCycle, IInv, TypeOK, Positions
<1>1. TypeOK'
  <2>1. cur' \in 0..N
      BY <1>u, <1>i, SliceAssumption DEF Positions
  <2> QED
      BY <1>u, <1>i, <2>1 DEF IInv, TypeOK, Settled
<1>2. IndexKept' /\ BehindSettled'
    BY <1>u DEF IInv, IndexKept, BehindSettled, Settled
<1>3. Placed'
  <2>1. \A i \in Positions :
          data[i] = IF Settled(i) THEN input[perm[i]] ELSE input[i]
      BY <1>u, PositionsPositive DEF IInv, Placed
  <2> QED
      BY <2>1, <1>u DEF Placed, Settled
<1>4. CyclesClosed'
    BY <1>u DEF IInv, CyclesClosed, Settled
<1>5. CameFrom' /\ IsInjective(perm)'
    BY <1>u DEF IInv, CameFrom
<1> QED
    BY <1>1, <1>2, <1>3, <1>4, <1>5 DEF IInv

(* Where the inner loop is, its index is still the caller's and names another
   position. *)
LEMMA AtCur ==
  ASSUME IInv, cur # 0
  PROVE  /\ cur \in Positions /\ idx \in Positions
         /\ ~Settled(cur)
         /\ indices[cur] = perm[cur]
         /\ perm[cur] \in Positions /\ perm[cur] # cur
         /\ data[cur] = input[idx]
<1>1. cur \in Positions /\ idx \in Positions /\ ~Settled(cur)
    BY SliceAssumption DEF IInv, TypeOK, Positions
<1>2. indices[cur] = perm[cur] /\ perm[cur] \in Positions /\ perm[cur] # cur
    BY <1>1 DEF IInv, IndexKept, Settled, TypeOK
<1>3. data[cur] = input[idx]
    BY <1>1 DEF IInv, Placed
<1> QED
    BY <1>1, <1>2, <1>3

(* Nothing unsettled takes its value from where the inner loop is, unless
   the loop has just started there. *)
LEMMA TakerOfCur ==
  ASSUME IInv, cur # 0, NEW i \in Positions, ~Settled(i), perm[i] = cur
  PROVE  cur = idx
<1> SUFFICES ASSUME cur # idx PROVE FALSE
    OBVIOUS
<1>1. PICK j \in Positions : Settled(j) /\ perm[j] = cur
    BY DEF IInv, CameFrom
<1>2. i = j
    BY <1>1 DEF IInv, IsInjective, TypeOK
<1> QED
    BY <1>1, <1>2

LEMMA FollowCycleInv == IInv /\ FollowCycle => IInv'
<1> SUFFICES ASSUME IInv, FollowCycle PROVE IInv'
    OBVIOUS
<1>c. cur # 0
    BY DEF FollowCycle
<1>0. /\ cur \in Positions /\ idx \in Positions
      /\ ~Settled(cur)
      /\ indices[cur] = perm[cur]
      /\ perm[cur] \in Positions /\ perm[cur] # cur
      /\ data[cur] = input[idx]
    BY <1>c, AtCur
<1>t. /\ ~Settled(perm[cur])
      /\ cur' = perm[cur]
      /\ data' = [data EXCEPT ![cur] = data[perm[cur]], ![perm[cur]] = data[cur]]
    BY <1>0 DEF FollowCycle, Swap
<1>s. /\ indices' = [indices EXCEPT ![cur] = cur]
      /\ \A i \in Positions : Settled(i)' <=> Settled(i) \/ i = cur
    BY <1>0 DEF FollowCycle, Settle, Settled, IInv, TypeOK
<1>u. input' = input /\ perm' = perm /\ idx' = idx
    BY DEF FollowCycle
<1>m. cur \in 1..N /\ cur' \in 1..N /\ idx \in 1..N /\ cur' # 0
    BY <1>0, <1>t, SliceAssumption DEF Positions
<1>1. TypeOK'
  <2>1. data' \in [Positions -> Items] /\ indices' \in [Positions -> Positions]
      BY <1>0, <1>t, <1>s DEF IInv, TypeOK
  <2>2. idx' \in Positions /\ ~Settled(cur)'
      BY <1>0, <1>t, <1>s, <1>u
  <2> QED
      BY <2>1, <2>2, <1>u, <1>m, SliceAssumption DEF IInv, TypeOK
<1>2. IndexKept'
    BY <1>0, <1>s, <1>u DEF IInv, IndexKept, TypeOK
<1>3. BehindSettled'
  <2>1. \A i \in Positions : i < idx' => Settled(i)'
      BY <1>s, <1>u DEF IInv, BehindSettled
  <2>2. Settled(idx)'
      BY <1>0, <1>c, <1>s, <1>u DEF IInv, BehindSettled, Settled
  <2> QED
      BY <2>1, <2>2 DEF BehindSettled
<1>4. Placed'
  <2> SUFFICES ASSUME NEW i \in Positions
               PROVE  data'[i] = IF Settled(i)' THEN input[perm[i]]
                                 ELSE IF i = cur' THEN input[idx] ELSE input[i]
      BY <1>u DEF Placed, Settled
  <2>d. data \in [Positions -> Items]
      BY DEF IInv, TypeOK
  <2>1. CASE i = cur
    <3>1. data'[i] = data[perm[cur]]
        BY <2>1, <2>d, <1>0, <1>t
    <3>2. data[perm[cur]] = input[perm[cur]]
        BY <1>0, <1>t DEF IInv, Placed
    <3> QED
        BY <3>1, <3>2, <2>1, <1>s
  <2>2. CASE i = perm[cur]
    <3>1. data'[i] = input[idx]
        BY <2>2, <2>d, <1>0, <1>t
    <3>2. ~Settled(i)'
        BY <2>2, <1>0, <1>t, <1>s
    <3> QED
        BY <3>1, <3>2, <2>2, <1>t
  <2>3. CASE i # cur /\ i # perm[cur]
    <3>1. data'[i] = data[i]
        BY <2>3, <2>d, <1>0, <1>t
    <3>2. Settled(i)' <=> Settled(i)
        BY <2>3, <1>s
    <3> QED
        BY <3>1, <3>2, <2>3, <1>t DEF IInv, Placed
  <2> QED
      BY <2>1, <2>2, <2>3
<1>5. CyclesClosed'
  <2> SUFFICES ASSUME NEW i \in Positions, ~Settled(i)', Settled(perm[i])'
               PROVE  perm[i] = idx
      BY <1>u, <1>m DEF CyclesClosed, Settled
  <2>1. ~Settled(i) /\ perm[i] \in Positions
      BY <1>s DEF IInv, TypeOK
  <2>2. Settled(perm[i]) \/ perm[i] = cur
      BY <2>1, <1>s, <1>u DEF Settled
  <2>3. CASE Settled(perm[i])
      BY <2>1, <2>3 DEF IInv, CyclesClosed
  <2>4. CASE perm[i] = cur
      BY <2>1, <2>4, <1>c, TakerOfCur
  <2> QED
      BY <2>2, <2>3, <2>4
<1>6. CameFrom'
    BY <1>0, <1>t, <1>s, <1>u DEF CameFrom
<1>7. IsInjective(perm)'
    BY <1>u DEF IInv
<1> QED
    BY <1>1, <1>2, <1>3, <1>4, <1>5, <1>6, <1>7 DEF IInv

LEMMA LeaveCycleInv == IInv /\ LeaveCycle => IInv'
<1> SUFFICES ASSUME IInv, LeaveCycle PROVE IInv'
    OBVIOUS
<1>c. cur # 0
    BY DEF LeaveCycle
<1>0. /\ cur \in Positions /\ idx \in Positions
      /\ ~Settled(cur)
      /\ indices[cur] = perm[cur]
      /\ perm[cur] \in Positions /\ perm[cur] # cur
      /\ data[cur] = input[idx]
    BY <1>c, AtCur
<1>s. /\ indices' = [indices EXCEPT ![cur] = cur]
      /\ \A i \in Positions : Settled(i)' <=> Settled(i) \/ i = cur
    BY <1>0 DEF LeaveCycle, Settle, Settled, IInv, TypeOK
<1>u. /\ input' = input /\ perm' = perm /\ data' = data
      /\ idx' = idx + 1 /\ cur' = 0
    BY DEF LeaveCycle
<1>t. perm[cur] = idx
    BY <1>0 DEF LeaveCycle, IInv, CyclesClosed
<1>m. idx \in 1..N
    BY <1>0 DEF Positions
<1>1. TypeOK'
  <2>1. indices' \in [Positions -> Positions]
      BY <1>0, <1>s DEF IInv, TypeOK
  <2> QED
      BY <2>1, <1>u, <1>m, SliceAssumption DEF IInv, TypeOK
<1>2. IndexKept'
    BY <1>0, <1>s, <1>u DEF IInv, IndexKept, TypeOK
<1>3. BehindSettled'
  <2>1. Settled(idx) \/ idx = cur
      BY <1>c DEF IInv, BehindSettled
  <2>2. \A i \in Positions : i < idx + 1 => i < idx \/ i = idx
      BY <1>m DEF Positions
  <2>3. \A i \in Positions : i < idx + 1 => Settled(i)'
      BY <2>1, <2>2, <1>s DEF IInv, BehindSettled
  <2> QED
      BY <2>3, <1>u DEF BehindSettled
<1>4. Placed'
  <2> SUFFICES ASSUME NEW i \in Positions
               PROVE  data[i] = IF Settled(i)' THEN input[perm[i]] ELSE input[i]
      BY <1>u, SliceAssumption DEF Placed, Settled, Positions
  <2>1. CASE i = cur
      BY <2>1, <1>0, <1>s, <1>t
  <2>2. CASE i # cur
      BY <2>2, <1>s DEF IInv, Placed
  <2> QED
      BY <2>1, <2>2
<1>5. CyclesClosed'
  <2> SUFFICES ASSUME NEW i \in Positions, ~Settled(i)', Settled(perm[i])'
               PROVE  FALSE
      BY <1>u DEF CyclesClosed, Settled
  <2>1. ~Settled(i) /\ i # cur /\ perm[i] \in Positions
      BY <1>s DEF IInv, TypeOK
  <2>2. Settled(perm[i]) \/ perm[i] = cur
      BY <2>1, <1>s, <1>u DEF Settled
  <2>3. CASE Settled(perm[i])
    <3>1. perm[i] = perm[cur]
        BY <2>1, <2>3, <1>t DEF IInv, CyclesClosed
    <3> QED
        BY <3>1, <2>1, <1>0 DEF IInv, IsInjective, TypeOK
  <2>4. CASE perm[i] = cur
      BY <2>1, <2>4, <1>0, <1>c, <1>t, TakerOfCur
  <2> QED
      BY <2>2, <2>3, <2>4
<1>6. CameFrom'
    BY <1>u DEF CameFrom
<1>7. IsInjective(perm)'
    BY <1>u DEF IInv
<1> QED
    BY <1>1, <1>2, <1>3, <1>4, <1>5, <1>6, <1>7 DEF IInv

LEMMA StutterInv == IInv /\ UNCHANGED vars => IInv'
<1> SUFFICES ASSUME IInv, UNCHANGED vars PROVE IInv'
    OBVIOUS
<1> USE DEF vars, IInv
<1>1. TypeOK'
    BY DEF TypeOK, Settled
<1>2. IndexKept' /\ BehindSettled' /\ CyclesClosed' /\ CameFrom'
    BY DEF IndexKept, BehindSettled, CyclesClosed, CameFrom, Settled
<1>3. Placed'
    BY DEF Placed, Settled
<1> QED
    BY <1>1, <1>2, <1>3

LEMMA NextInv == IInv /\ [Next]_vars => IInv'
BY PassInv, EnterCycleInv, FollowCycleInv, LeaveCycleInv, StutterInv
   DEF Next, Step, Returned

(* The inductive invariant holds in every reachable state. *)
THEOREM Invariant == Spec => []IInv
BY InitInv, NextInv, PTL DEF Spec

(* Types, for slices of every length. *)
THEOREM TypeCorrect == Spec => []TypeOK
<1>1. IInv => TypeOK
    BY DEF IInv
<1> QED
    BY <1>1, Invariant, PTL

(* The slice ends up in the order the indices give, whatever the
   permutation. *)
THEOREM SortsByIndices == Spec => []InOrder
<1>1. IInv => InOrder
  <2> SUFFICES ASSUME IInv, Done, NEW i \in Positions
               PROVE  data[i] = input[perm[i]]
      BY DEF InOrder
  <2>1. i < idx
      BY SliceAssumption DEF Done, Positions
  <2> QED
      BY <2>1 DEF IInv, BehindSettled, Placed
<1> QED
    BY <1>1, Invariant, PTL

(* No step touches a settled position. *)
THEOREM SettledForGood == Spec => SettledStays
<1> DEFINE Stays(i) == Settled(i) => Settled(i)' /\ data'[i] = data[i]
<1>1. IInv /\ [Next]_vars => \A i \in Positions : Stays(i)
  <2> SUFFICES ASSUME IInv, [Next]_vars, NEW i \in Positions, Settled(i)
               PROVE  Settled(i)' /\ data'[i] = data[i]
      OBVIOUS
  <2>t. data \in [Positions -> Items] /\ indices \in [Positions -> Positions]
      BY DEF IInv, TypeOK
  <2>1. CASE UNCHANGED <<data, indices>>
      BY <2>1 DEF Settled
  <2>2. CASE FollowCycle
    <3>1. cur # 0
        BY <2>2 DEF FollowCycle
    <3>2. i # cur /\ i # indices[cur]
        BY <2>2, <3>1, AtCur DEF FollowCycle
    <3> QED
        BY <2>t, <2>2, <3>2 DEF FollowCycle, Settle, Settled, Swap
  <2>3. CASE LeaveCycle
      BY <2>t, <2>3 DEF LeaveCycle, Settle, Settled
  <2> QED
      BY <2>1, <2>2, <2>3 DEF Next, Step, Returned, Pass, EnterCycle, vars
<1> QED
    BY <1>1, Invariant, PTL DEF Spec, SettledStays

-----------------------------------------------------------------------------
(* U53 and I54: `as` changes no value that the type has. *)
LEMMA AsIsExact ==
  ASSUME NEW min \in Int, NEW max \in Int, NEW value \in min..max
  PROVE  As(value, Type(min, max)) = value
<1>1. ASSUME NEW a \in Nat, NEW b \in Nat, a < b
      PROVE  a % b = a
  BY <1>1, SMT
<1>2. (value - min) % (max - min + 1) = value - min
  BY <1>1, SMT
<1> QED
  BY <1>2, SMT DEF As, Size, Type

(* The bounds of the types, and that a narrower type is within the truncated
   one. *)
LEMMA Bounds ==
  /\ \A pair \in Narrower : /\ Values(pair[2]) \subseteq Values(pair[1])
                            /\ Values(pair[1]) \subseteq Int
                            /\ pair[2].min \in Int /\ pair[2].max \in Int
                            /\ pair[2] = Type(pair[2].min, pair[2].max)
  BY SMT DEF Narrower, Values, Type, U53, I54, U53_MAX, U32, U16, U8, I32, I16, I8

(* A truncated integer is within its bounds, whichever way it was made: also
   the conversion that does not check only meets values that are. *)
THEOREM TruncatedInBounds ==
  /\ \A pair \in Untruncated : \A value \in Values(pair[2]) :
       TryFrom(pair[1], value) # TryFromIntError => TryFrom(pair[1], value) \in Values(pair[1])
  /\ \A pair \in Narrower : \A value \in Values(pair[2]) : From(value) \in Values(pair[1])
<1>1. ASSUME NEW pair \in Untruncated, NEW value \in Values(pair[2]),
             TryFrom(pair[1], value) # TryFromIntError
      PROVE  TryFrom(pair[1], value) \in Values(pair[1])
  BY <1>1, SMT DEF TryFrom
<1>2. ASSUME NEW pair \in Narrower, NEW value \in Values(pair[2])
      PROVE  From(value) \in Values(pair[1])
  BY Bounds, SMT DEF From
<1> QED
  BY <1>1, <1>2

(* The conversion to a narrower integer is an error or exact: the bits `as`
   drops are those of no value that the check lets pass. It succeeds on what
   was converted from the narrower type. *)
THEOREM NarrowingExact ==
  ASSUME NEW pair \in Narrower, NEW value \in Values(pair[1])
  PROVE  TryInto(pair[2], value) = IF value \in Values(pair[2]) THEN value ELSE TryFromIntError
<1> DEFINE into == pair[2]
<1>1. value \in Int /\ into.min \in Int /\ into.max \in Int /\ into = Type(into.min, into.max)
  BY Bounds
<1> HIDE DEF into
<1>2. value \in Values(into) <=> ~(value < into.min \/ value > into.max)
  BY <1>1, SMT DEF Values
<1>3. ASSUME value \in Values(into) PROVE As(value, into) = value
  BY <1>1, <1>3, AsIsExact DEF Values
<1>4. TryInto(into, value) = IF value \in Values(into) THEN value ELSE TryFromIntError
  BY <1>2, <1>3 DEF TryInto
<1> QED
  BY <1>4 DEF into

(* The conversion to usize yields the value, or the greatest usize below it. *)
THEOREM SaturatedExact ==
  ASSUME NEW usize \in {U32, U64}, NEW value \in Values(U64)
  PROVE  Saturated(usize, value) = IF value <= usize.max THEN value ELSE usize.max
<1>1. /\ usize.max \in Values(U64) /\ usize.min = 0 /\ usize = Type(0, usize.max)
      /\ U64.min = 0 /\ U64.max \in Nat /\ U64 = Type(0, U64.max)
  BY SMT DEF U32, U64, Type, Values
<1> DEFINE top == U64.max
<1> HIDE DEF top
<1>2. usize.max \in 0..top /\ value \in 0..top /\ top \in Nat
  BY <1>1 DEF Values, top
<1>3. As(usize.max, U64) = usize.max
  BY <1>1, <1>2, AsIsExact DEF top
<1>4. As(usize.max, usize) = usize.max
  BY <1>1, <1>2, AsIsExact
<1>5. ASSUME value <= usize.max PROVE As(value, usize) = value
  BY <1>1, <1>2, <1>5, AsIsExact
<1> QED
  BY <1>3, <1>4, <1>5 DEF Saturated
=============================================================================

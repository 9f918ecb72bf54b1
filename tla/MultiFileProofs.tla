--------------------------- MODULE MultiFileProofs ---------------------------
(***************************************************************************)
(* Proofs about MultiFile: whatever the crates, the files, the order of    *)
(* the walk and the order of the hash maps, the types that the generated   *)
(* modules import exist.                                                   *)
(***************************************************************************)
EXTENDS MultiFile, WellFoundedInduction, FiniteSetTheorems, FunctionTheorems,
        SequenceTheorems, TLAPS

(* The names under which the types of a crate, or of any, are generated. *)
Generated(c) == UNION {ShownNames(world[f].items) : f \in FilesOf(c)}
AllGenerated == UNION {Generated(c) : c \in Crates}

Shapes ==
  /\ typeNames \in [Crates -> SUBSET AllGenerated]
  /\ allTypes \in [Crates -> SUBSET AllGenerated]
  /\ used \in [Crates -> [Crates -> SUBSET AllGenerated]]
  /\ order \in HashOrders

(* What the crates' type names are taken from. *)
NamesOfTheCrate ==
  \A c \in Crates : typeNames[c] \cup allTypes[c] \subseteq Generated(c)

(* used_imports works on a crate of the run, on imports from others. *)
LookupsAreForeign ==
  phase = "importing" => /\ at \in DOMAIN CrateSeq
                         /\ \A imp \in pending : imp.crate # Current

ImportsOfOthers ==
  \A c, d \in Crates : d = c => used[c][d] = {}

ImportsGenerated ==
  \A c, d \in Crates : used[c][d] \subseteq Generated(d)

IInv == /\ Shapes
        /\ NamesOfTheCrate
        /\ LookupsAreForeign
        /\ ImportsOfOthers
        /\ ImportsGenerated

-----------------------------------------------------------------------------

LEMMA CratesOfTheRun ==
  ASSUME NEW i \in DOMAIN CrateSeq
  PROVE  CrateSeq[i] \in Crates
BY DEF Crates, Range

LEMMA FirstCrate == 1 \in DOMAIN CrateSeq /\ DOMAIN CrateSeq = 1..Len(CrateSeq)
                    /\ Len(CrateSeq) \in Nat
BY MultiFileAssumption DEF MultiFileAssumption

LEMMA MinIsMember ==
  ASSUME NEW S \in SUBSET Nat, S # {}
  PROVE  Min(S) \in S
<1>1. PICK x \in S : \A y \in S : ~(<<y, x>> \in OpToRel(<, Nat))
  BY NatLessThanWellFounded, WFMin
<1>2. ASSUME NEW y \in S, y < x PROVE FALSE
  <2>1. <<y, x>> \in Nat \X Nat /\ <<y, x>>[1] < <<y, x>>[2]
    BY <1>2
  <2>2. <<y, x>> \in OpToRel(<, Nat)
    BY <2>1, Zenon DEF OpToRel
  <2> QED
    BY <1>1, <2>2
<1>3. \A y \in S : x <= y
  BY <1>2
<1> QED
  BY <1>3 DEF Min

(* The parts of a step that leave the files alone. *)
LEMMA GeneratedStays ==
  ASSUME world' = world
  PROVE  /\ \A c : Generated(c)' = Generated(c)
         /\ AllGenerated' = AllGenerated
BY DEF Generated, AllGenerated, ShownNames, ItemsIn, FilesOf

(* IInv says nothing of the other variables. *)
LEMMA FrameHolds ==
  ASSUME IInv,
         UNCHANGED <<world, typeNames, allTypes, used, order>>,
         LookupsAreForeign'
  PROVE  IInv'
BY GeneratedStays
   DEF IInv, Shapes, NamesOfTheCrate, ImportsOfOthers, ImportsGenerated

(* The current module comes to import types that another crate generates. *)
LEMMA UseHolds ==
  ASSUME IInv, phase = "importing",
         NEW crate \in Crates, crate # Current,
         NEW ids \in SUBSET Generated(crate),
         Use(crate, ids),
         UNCHANGED <<world, typeNames, allTypes, order, phase, at>>,
         pending' \subseteq pending
  PROVE  IInv'
<1>1. at \in DOMAIN CrateSeq /\ Current \in Crates /\ Current' = Current
  BY CratesOfTheRun DEF IInv, LookupsAreForeign, Current
<1>2. /\ \A c : Generated(c)' = Generated(c)
      /\ AllGenerated' = AllGenerated
  BY GeneratedStays
<1>3. ids \subseteq AllGenerated
  BY DEF AllGenerated
<1>4. /\ used' \in [Crates -> [Crates -> SUBSET AllGenerated]]
      /\ \A c, d \in Crates : used'[c][d] = IF c = Current /\ d = crate
                                            THEN used[c][d] \cup ids ELSE used[c][d]
  BY <1>1, <1>3 DEF Use, IInv, Shapes
<1>5. Shapes' /\ NamesOfTheCrate'
  BY <1>2, <1>4 DEF IInv, Shapes, NamesOfTheCrate
<1>6. LookupsAreForeign'
  BY <1>1 DEF IInv, LookupsAreForeign
<1>7. ImportsOfOthers'
  BY <1>4 DEF IInv, ImportsOfOthers
<1>8. ImportsGenerated'
  <2> SUFFICES ASSUME NEW c \in Crates, NEW d \in Crates
               PROVE  used'[c][d] \subseteq Generated(d)'
    BY DEF ImportsGenerated
  <2>1. used[c][d] \subseteq Generated(d)
    BY DEF IInv, ImportsGenerated
  <2> QED
    BY <1>2, <1>4, <2>1
<1> QED
  BY <1>5, <1>6, <1>7, <1>8 DEF IInv

-----------------------------------------------------------------------------

LEMMA Initially == Init => IInv
BY FirstCrate
   DEF Init, IInv, Shapes, NamesOfTheCrate, LookupsAreForeign, ImportsOfOthers,
       ImportsGenerated, NoNames

(* A file brings its own types' names into its own crate. *)
LEMMA MergeFileHolds ==
  ASSUME IInv, NEW f \in Files, MergeFile(f)
  PROVE  IInv'
<1>1. /\ world' = world /\ allTypes' = allTypes /\ used' = used /\ order' = order
      /\ phase = "parsing" /\ phase' = "parsing"
  BY DEF MergeFile
<1>2. /\ \A c : Generated(c)' = Generated(c)
      /\ AllGenerated' = AllGenerated
  BY <1>1, GeneratedStays
<1>3. CrateOf[f] \in Crates /\ f \in FilesOf(CrateOf[f])
  BY MultiFileAssumption DEF MultiFileAssumption, FilesOf
<1>4. ShownNames(world[f].items) \subseteq Generated(CrateOf[f])
  BY <1>3 DEF Generated
<1>5. Generated(CrateOf[f]) \subseteq AllGenerated
  BY <1>3 DEF AllGenerated
<1>6. CASE IsEmpty(world[f])
  <2>1. typeNames' = typeNames
    BY <1>6 DEF MergeFile
  <2> QED
    BY <1>1, <2>1, FrameHolds DEF LookupsAreForeign
<1>7. CASE ~IsEmpty(world[f])
  <2>1. typeNames' = [typeNames EXCEPT ![CrateOf[f]] = @ \cup ShownNames(world[f].items)]
    BY <1>7 DEF MergeFile
  <2>2. typeNames' \in [Crates -> SUBSET AllGenerated]
    BY <2>1, <1>3, <1>4, <1>5 DEF IInv, Shapes
  <2>3. \A c \in Crates : typeNames'[c] \subseteq Generated(c)
    BY <2>1, <1>3, <1>4 DEF IInv, Shapes, NamesOfTheCrate
  <2> QED
    BY <1>1, <1>2, <2>2, <2>3
       DEF IInv, Shapes, NamesOfTheCrate, LookupsAreForeign, ImportsOfOthers, ImportsGenerated
<1> QED
  BY <1>6, <1>7

(* all_types moves the names. *)
LEMMA AllTypesHolds ==
  ASSUME IInv, AllTypes
  PROVE  IInv'
<1>1. /\ world' = world /\ used' = used /\ order' = order
      /\ allTypes' = typeNames /\ typeNames' = NoNames
  BY DEF AllTypes
<1>2. /\ \A c : Generated(c)' = Generated(c)
      /\ AllGenerated' = AllGenerated
  BY <1>1, GeneratedStays
<1>3. LookupsAreForeign'
  BY FirstCrate DEF AllTypes, LookupsAreForeign, Foreign, Current
<1> QED
  BY <1>1, <1>2, <1>3
     DEF IInv, Shapes, NamesOfTheCrate, NoNames, ImportsOfOthers, ImportsGenerated

(* Looking up an import adds what a crate other than the current generates. *)
LEMMA LookupHolds ==
  ASSUME IInv, NEW imp \in pending,
         LookupWildcard(imp) \/ LookupDeclared(imp) \/ LookupFallback(imp)
  PROVE  IInv'
<1>1. /\ phase = "importing" /\ pending' = pending \ {imp}
      /\ UNCHANGED <<world, typeNames, allTypes, order, phase, at>>
  BY DEF LookupWildcard, LookupDeclared, LookupFallback, Lookup
<1>2. imp.crate # Current
  BY <1>1 DEF IInv, LookupsAreForeign
<1>3. CASE UNCHANGED used
  BY <1>1, <1>3, FrameHolds DEF IInv, LookupsAreForeign, Current
<1>4. CASE LookupWildcard(imp) /\ used' # used
  <2>1. imp.crate \in Crates /\ Use(imp.crate, allTypes[imp.crate])
    BY <1>4 DEF LookupWildcard
  <2>2. allTypes[imp.crate] \subseteq Generated(imp.crate)
    BY <2>1 DEF IInv, NamesOfTheCrate
  <2> QED
    BY <1>1, <1>2, <2>1, <2>2, UseHolds
<1>5. CASE LookupDeclared(imp)
  <2>1. imp.crate \in Crates /\ Use(imp.crate, {imp.name}) /\ imp.name \in allTypes[imp.crate]
    BY <1>5 DEF LookupDeclared, Declares
  <2>2. {imp.name} \subseteq Generated(imp.crate)
    BY <2>1 DEF IInv, NamesOfTheCrate
  <2> QED
    BY <1>1, <1>2, <2>1, <2>2, UseHolds
<1>6. CASE LookupFallback(imp) /\ used' # used
  <2>1. Candidates(imp) # {} /\ Use(order[Min(Candidates(imp))], {imp.name})
    BY <1>6 DEF LookupFallback
  <2>2. Min(Candidates(imp)) \in Candidates(imp)
    <3>1. Candidates(imp) \subseteq Nat
      BY FirstCrate, MultiFileAssumption DEF Candidates, MultiFileAssumption, IInv, Shapes
    <3> QED
      BY <2>1, <3>1, MinIsMember
  <2> DEFINE crate == order[Min(Candidates(imp))]
  <2>3. crate # Current /\ imp.name \in allTypes[crate] /\ crate \in Crates
    BY <2>2, MultiFileAssumption DEF Candidates, MultiFileAssumption, IInv, Shapes, Range
  <2>4. {imp.name} \subseteq Generated(crate)
    BY <2>3 DEF IInv, NamesOfTheCrate
  <2> QED
    BY <1>1, <2>1, <2>3, <2>4, UseHolds
<1> QED
  BY <1>3, <1>4, <1>5, <1>6

LEMMA NextCrateHolds ==
  ASSUME IInv, NextCrate
  PROVE  IInv'
<1>1. UNCHANGED <<world, typeNames, allTypes, used, order>>
  BY DEF NextCrate
<1>2. LookupsAreForeign'
  <2>1. CASE at < Len(CrateSeq)
    <3>1. at' = at + 1 /\ pending' = Foreign(CrateSeq[at + 1]) /\ at \in DOMAIN CrateSeq
      BY <2>1 DEF NextCrate, IInv, LookupsAreForeign
    <3>2. at + 1 \in DOMAIN CrateSeq
      BY <2>1, <3>1, FirstCrate
    <3> QED
      BY <3>1, <3>2 DEF LookupsAreForeign, Foreign, Current
  <2>2. CASE ~(at < Len(CrateSeq))
    BY <2>2 DEF NextCrate, LookupsAreForeign
  <2> QED
    BY <2>1, <2>2
<1> QED
  BY <1>1, <1>2, FrameHolds

LEMMA StepHolds == IInv /\ [Next]_vars => IInv'
<1> SUFFICES ASSUME IInv, [Next]_vars PROVE IInv'
  OBVIOUS
<1>1. CASE \E f \in Files : MergeFile(f)
  BY <1>1, MergeFileHolds
<1>2. CASE StartReconcile
  BY <1>2, FrameHolds DEF StartReconcile, LookupsAreForeign
<1>3. CASE ReconcileCrate
  BY <1>3, FrameHolds DEF ReconcileCrate, LookupsAreForeign
<1>4. CASE AllTypes
  BY <1>4, AllTypesHolds
<1>5. CASE \E imp \in pending :
             LookupWildcard(imp) \/ LookupDeclared(imp) \/ LookupFallback(imp)
  BY <1>5, LookupHolds
<1>6. CASE NextCrate
  BY <1>6, NextCrateHolds
<1>7. CASE UNCHANGED vars
  BY <1>7, FrameHolds DEF vars, IInv, LookupsAreForeign, Current
<1> QED
  BY <1>1, <1>2, <1>3, <1>4, <1>5, <1>6, <1>7 DEF Next, Finished

LEMMA IInvGives == IInv => ImportsReal
BY DEF IInv, ImportsOfOthers, ImportsGenerated, ImportsReal, Generated

(* The inductive invariant: what all_types says of a crate is taken from the
   crate's own files, and used_imports adds to a module only from there. *)
THEOREM Invariant == Spec => []IInv
BY Initially, StepHolds, PTL DEF Spec

(* Whatever the crates, files and orders, a generated module imports only
   types that another crate of the run generates. *)
THEOREM ImportsExist == Spec => []ImportsReal
BY Invariant, IInvGives, PTL

-----------------------------------------------------------------------------
(* Types *)

AllUses == UNION {world[f].uses : f \in Files}

TInv ==
  /\ TypeOK
  /\ world \in Worlds
  /\ imports \in [Crates -> SUBSET AllUses]
  /\ pending \subseteq AllUses
  /\ phase = "parsing" => at = 1

LEMMA RankType == Rank \in [Names -> Nat] /\ CrateOf \in [Files -> Crates]
                  /\ Wildcard \notin Names
BY MultiFileAssumption DEF MultiFileAssumption

LEMMA WorldItems ==
  ASSUME world \in Worlds, NEW f \in Files
  PROVE  /\ world[f].items \in [Classes -> Seq(Items)]
         /\ \A imp \in world[f].uses : IsImport(imp)
BY MultiFileAssumption DEF MultiFileAssumption

LEMMA UsesAreImports ==
  ASSUME world \in Worlds
  PROVE  \A imp \in AllUses : IsImport(imp)
BY WorldItems DEF AllUses

(* The names that lists of items give rise to. *)
LEMMA NamesOfItems ==
  ASSUME NEW byClass \in [Classes -> Seq(Items)]
  PROVE  /\ ItemsIn(byClass) \subseteq Items
         /\ ShownNames(byClass) \subseteq Names
         /\ RefIds(byClass) \subseteq Names
         /\ \A k \in Classes : \A i \in DOMAIN byClass[k] :
              /\ byClass[k][i] \in Items
              /\ \A m \in DOMAIN byClass[k][i].refs :
                   /\ byClass[k][i].refs[m] \in References
                   /\ byClass[k][i].refs[m].id \in RefIds(byClass)
<1>1. \A k \in Classes : \A i \in DOMAIN byClass[k] : byClass[k][i] \in Items
  BY ElementOfSeq, LenProperties
<1>2. ItemsIn(byClass) \subseteq Items
  BY <1>1 DEF ItemsIn, Range
<1>3. ASSUME NEW item \in Items, NEW m \in DOMAIN item.refs
      PROVE  item.refs[m] \in References
  <2>1. item.refs \in Seq(References)
    BY DEF Items
  <2> QED
    BY <1>3, <2>1, ElementOfSeq, LenProperties
<1>4. ASSUME NEW item \in ItemsIn(byClass), NEW m \in DOMAIN item.refs
      PROVE  item.refs[m].id \in RefIds(byClass)
  BY DEF RefIds, Range
<1>5. \A k \in Classes : \A i \in DOMAIN byClass[k] : byClass[k][i] \in ItemsIn(byClass)
  BY DEF ItemsIn, Range
<1>6. RefIds(byClass) \subseteq Names
  <2> SUFFICES ASSUME NEW item \in ItemsIn(byClass), NEW m \in DOMAIN item.refs
               PROVE  item.refs[m].id \in Names
    BY DEF RefIds, Range
  <2>1. item.refs[m] \in References
    BY <1>2, <1>3
  <2> QED
    BY <2>1 DEF References
<1>7. ShownNames(byClass) \subseteq Names
  BY <1>2 DEF ShownNames, Items
<1> QED
  BY <1>1, <1>2, <1>3, <1>4, <1>5, <1>6, <1>7

(* A file keeps some of its imports. *)
LEMMA KeptAreUses ==
  ASSUME NEW file, NEW kept \in RetainedImports(file)
  PROVE  kept \subseteq file.uses
<1>1. PICK wanted : \E pick \in [wanted -> file.uses] :
             kept = Range(pick) \cup Named(file.uses, Wildcard)
  BY DEF RetainedImports
<1>2. PICK pick \in [wanted -> file.uses] : kept = Range(pick) \cup Named(file.uses, Wildcard)
  BY <1>1
<1>3. Range(pick) \subseteq file.uses
  BY DEF Range
<1> QED
  BY <1>2, <1>3 DEF Named

(* Checking the references of items. *)
LEMMA CheckedType ==
  ASSUME NEW item \in Items, NEW ids, NEW new \in [ids -> Names],
         \A m \in DOMAIN item.refs : item.refs[m].id \in ids
  PROVE  /\ CheckItem(item, new) \in Items
         /\ CheckItem(item, new).name = item.name
         /\ CheckItem(item, new).shown = item.shown
         /\ DOMAIN CheckItem(item, new).refs = DOMAIN item.refs
         /\ \A m \in DOMAIN item.refs :
              CheckItem(item, new).refs[m].id =
                IF item.refs[m].generic THEN item.refs[m].id ELSE new[item.refs[m].id]
<1> DEFINE refs == [m \in DOMAIN item.refs |-> CheckType(item.refs[m], new)]
<1>1. /\ item.refs \in Seq(References) /\ item.name \in Names /\ item.shown \in Names
      /\ item = [name |-> item.name, shown |-> item.shown, refs |-> item.refs]
  BY DEF Items
<1>2. Len(item.refs) \in Nat /\ DOMAIN item.refs = 1..Len(item.refs)
  BY <1>1, LenProperties
<1>3. ASSUME NEW m \in DOMAIN item.refs
      PROVE  /\ CheckType(item.refs[m], new) \in References
             /\ CheckType(item.refs[m], new).id =
                  IF item.refs[m].generic THEN item.refs[m].id ELSE new[item.refs[m].id]
  <2>1. item.refs[m] \in References
    BY <1>1, <1>2, ElementOfSeq
  <2>2. new[item.refs[m].id] \in Names
    OBVIOUS
  <2> QED
    BY <2>1, <2>2 DEF CheckType, References
<1>4. refs \in Seq(References)
  <2>1. refs \in [1..Len(item.refs) -> References]
    BY <1>2, <1>3
  <2> QED
    BY <1>2, <2>1, SeqDef
<1>5. CheckItem(item, new) = [name |-> item.name, shown |-> item.shown, refs |-> refs]
  BY <1>1 DEF CheckItem
<1> HIDE DEF refs
<1>6. DOMAIN refs = DOMAIN item.refs
  BY DEF refs
<1>7. \A m \in DOMAIN item.refs : refs[m] = CheckType(item.refs[m], new)
  BY DEF refs
<1> QED
  BY <1>1, <1>3, <1>4, <1>5, <1>6, <1>7 DEF Items

(* What sorting leaves is a rearrangement, in the order of the names. *)
LEMMA SortRearranges ==
  ASSUME NEW seq \in Seq(Items), NEW out \in SortByName(seq)
  PROVE  /\ out \in Seq(Items) /\ DOMAIN out = DOMAIN seq
         /\ \E perm \in Bijection(DOMAIN out, DOMAIN seq) :
              \A i \in DOMAIN out : out[i] = seq[perm[i]]
         /\ \A i, j \in DOMAIN out : i < j => Rank[out[i].name] <= Rank[out[j].name]
<1> DEFINE Before(i, j) == \/ Rank[seq[i].name] < Rank[seq[j].name]
                           \/ seq[i].name = seq[j].name /\ i < j
           D == DOMAIN seq
<1>1. Len(seq) \in Nat /\ D = 1..Len(seq) /\ \A i \in D : seq[i] \in Items
  BY LenProperties, ElementOfSeq
<1>2. \A i \in D : Rank[seq[i].name] \in Nat
  BY <1>1, RankType DEF Items
<1>3. PICK perm \in [D -> D] : /\ \A i, j \in D : i < j => Before(perm[i], perm[j])
                              /\ out = [k \in D |-> seq[perm[k]]]
  BY DEF SortByName
<1>4. DOMAIN out = D /\ \A i \in D : out[i] = seq[perm[i]] /\ perm[i] \in D
  BY <1>3
<1>5. out \in Seq(Items)
  <2>1. out \in [1..Len(seq) -> Items]
    BY <1>1, <1>3
  <2> QED
    BY <1>1, <2>1, SeqDef
<1>6. ASSUME NEW i \in D, NEW j \in D, i < j
      PROVE  perm[i] # perm[j] /\ Rank[out[i].name] <= Rank[out[j].name]
  <2>1. Before(perm[i], perm[j])
    BY <1>3, <1>6
  <2>2. \/ Rank[out[i].name] < Rank[out[j].name]
        \/ out[i].name = out[j].name /\ perm[i] < perm[j]
    BY <1>4, <2>1
  <2>3. Rank[out[i].name] \in Nat /\ Rank[out[j].name] \in Nat /\ perm[i] \in Nat /\ perm[j] \in Nat
    BY <1>1, <1>2, <1>4
  <2>4. Rank[out[i].name] <= Rank[out[j].name]
    BY <2>2, <2>3
  <2>5. perm[i] # perm[j]
    <3>1. ~ Before(perm[i], perm[i])
      BY <1>1, <1>2, <1>4
    <3> QED
      BY <2>1, <3>1, Zenon
  <2> QED
    BY <2>4, <2>5
<1>7. perm \in Bijection(D, D)
  <2>1. \A i, j \in D : perm[i] = perm[j] => i = j
    BY <1>1, <1>6
  <2>2. perm \in Injection(D, D)
    BY <1>3, <2>1, Fun_IsInj
  <2>3. IsFiniteSet(D)
    BY <1>1, FS_Interval
  <2>4. perm \in Surjection(D, D)
    BY <2>2, <2>3, FS_Injection
  <2> QED
    BY <2>2, <2>4 DEF Bijection
<1> QED
  BY <1>4, <1>5, <1>6, <1>7

LEMMA TypesInitially == Init => TInv
<1> SUFFICES ASSUME Init PROVE TInv
  OBVIOUS
<1>1. /\ 1 \in 1..Len(CrateSeq) + 1
      /\ <<>> \in Seq(Items)
  BY FirstCrate, EmptySeq
<1>2. /\ items \in [Crates -> [Classes -> Seq(Items)]]
      /\ typeNames \in [Crates -> SUBSET Names]
      /\ allTypes \in [Crates -> SUBSET Names]
      /\ imports \in [Crates -> SUBSET AllUses]
      /\ used \in [Crates -> [Crates -> SUBSET Names]]
  BY <1>1 DEF Init, NoNames
<1>3. \A c \in Crates : imports[c] \cup pending = {}
  BY DEF Init, NoNames
<1> QED
  BY <1>1, <1>2, <1>3 DEF Init, TInv, TypeOK

(* TypeOK follows from the rest for imports that are among the files'. *)
LEMMA ImportsTyped ==
  ASSUME world \in Worlds, imports \in [Crates -> SUBSET AllUses], pending \subseteq AllUses
  PROVE  \A c \in Crates : \A imp \in imports[c] \cup pending : IsImport(imp)
BY UsesAreImports

LEMMA MergeFileTypes ==
  ASSUME TInv, NEW f \in Files, MergeFile(f)
  PROVE  TInv'
<1> DEFINE c == CrateOf[f]
<1>1. /\ c \in Crates /\ world' = world /\ pending' = pending
      /\ AllUses' = AllUses
  BY RankType DEF MergeFile, AllUses
<1>2. world[f].items \in [Classes -> Seq(Items)] /\ world[f].uses \subseteq AllUses
  BY WorldItems DEF TInv, AllUses
<1>3. CASE IsEmpty(world[f])
  <2>1. UNCHANGED <<items, imports, typeNames, failed, phase, at, allTypes, used>>
    BY <1>3 DEF MergeFile
  <2> QED
    BY <1>1, <2>1 DEF TInv, TypeOK, MergeFile
<1>4. CASE ~IsEmpty(world[f])
  <2>1. items' = [items EXCEPT ![c] = [k \in Classes |-> Merged(@[k], world[f].items[k])]]
    BY <1>4 DEF MergeFile
  <2>2. [k \in Classes |-> Merged(items[c][k], world[f].items[k])] \in [Classes -> Seq(Items)]
    <3>1. \A k \in Classes : Merged(items[c][k], world[f].items[k]) \in Seq(Items)
      BY <1>1, <1>2, ConcatProperties DEF Merged, TInv, TypeOK
    <3> QED
      BY <3>1
  <2>3. items' \in [Crates -> [Classes -> Seq(Items)]]
    BY <1>1, <2>1, <2>2 DEF TInv, TypeOK
  <2>4. imports' \in [Crates -> SUBSET AllUses]
    <3>1. PICK kept \in RetainedImports(world[f]) :
             imports' = [imports EXCEPT ![c] = @ \cup kept]
      BY <1>4 DEF MergeFile
    <3>2. kept \subseteq AllUses
      BY <1>2, KeptAreUses
    <3> QED
      BY <1>1, <3>1, <3>2 DEF TInv
  <2>5. typeNames' \in [Crates -> SUBSET Names]
    <3>1. ShownNames(world[f].items) \subseteq Names
      BY <1>2, NamesOfItems
    <3>2. typeNames' = [typeNames EXCEPT ![c] = @ \cup ShownNames(world[f].items)]
      BY <1>4 DEF MergeFile
    <3> QED
      BY <1>1, <3>1, <3>2 DEF TInv, TypeOK
  <2>6. failed' \in SUBSET Files /\ waiting' \in SUBSET Files
    BY <1>4 DEF MergeFile, TInv, TypeOK
  <2>7. UNCHANGED <<phase, at, allTypes, used>>
    BY DEF MergeFile
  <2>8. \A d \in Crates : \A imp \in imports'[d] \cup pending' : IsImport(imp)
    BY <1>1, <2>4, UsesAreImports DEF TInv
  <2> QED
    BY <1>1, <2>3, <2>4, <2>5, <2>6, <2>7, <2>8 DEF TInv, TypeOK
<1> QED
  BY <1>3, <1>4

(* What ReconcileCrate does, list by list, with the new references. *)
Checked(c, k, new) == [i \in DOMAIN items[c][k] |-> CheckItem(items[c][k][i], new)]

ReconciledBy(c, new) ==
  /\ new \in [RefIds(items[c]) -> Names]
  /\ \A id \in RefIds(items[c]) : new[id] \in Resolve(c, id)
  /\ items' = [items EXCEPT ![c] = items'[c]]
  /\ items'[c] = [k \in Classes |-> items'[c][k]]
  /\ items'[c]["const"] = items[c]["const"]
  /\ \A k \in Sorted : items'[c][k] \in SortByName(Checked(c, k, new))

LEMMA ReconcileEffect ==
  ASSUME TInv, ReconcileCrate
  PROVE  /\ at \in DOMAIN CrateSeq /\ Current \in Crates
         /\ \E new : ReconciledBy(Current, new)
<1> DEFINE c == Current
<1>1. at \in DOMAIN CrateSeq
  BY FirstCrate DEF ReconcileCrate, TInv, TypeOK
<1>2. c \in Crates
  BY <1>1, CratesOfTheRun DEF Current
<1>3. PICK new \in [RefIds(items[c]) -> Names] :
         /\ \A id \in RefIds(items[c]) : new[id] \in Resolve(c, id)
         /\ \E structs \in SortByName(Checked(c, "struct", new)),
               enums \in SortByName(Checked(c, "enum", new)),
               aliases \in SortByName(Checked(c, "alias", new)) :
              items' = [items EXCEPT ![c] = [@ EXCEPT !["struct"] = structs,
                                                      !["enum"] = enums,
                                                      !["alias"] = aliases]]
  BY DEF ReconcileCrate, Checked, Current
<1>4. PICK structs \in SortByName(Checked(c, "struct", new)),
           enums \in SortByName(Checked(c, "enum", new)),
           aliases \in SortByName(Checked(c, "alias", new)) :
        items' = [items EXCEPT ![c] = [@ EXCEPT !["struct"] = structs,
                                                !["enum"] = enums,
                                                !["alias"] = aliases]]
  BY <1>3
<1>5. items \in [Crates -> [Classes -> Seq(Items)]]
  BY DEF TInv, TypeOK
<1>6. /\ items'[c] = [items[c] EXCEPT !["struct"] = structs, !["enum"] = enums, !["alias"] = aliases]
      /\ items' = [items EXCEPT ![c] = items'[c]]
  BY <1>2, <1>4, <1>5
<1>7. /\ items'[c] = [k \in Classes |-> items'[c][k]]
      /\ items'[c]["const"] = items[c]["const"]
      /\ items'[c]["struct"] = structs
      /\ items'[c]["enum"] = enums
      /\ items'[c]["alias"] = aliases
  BY <1>2, <1>5, <1>6 DEF Classes
<1>8. \A k \in Sorted : items'[c][k] \in SortByName(Checked(c, k, new))
  BY <1>4, <1>7 DEF Sorted, Classes
<1>9. ReconciledBy(c, new)
  BY <1>3, <1>6, <1>7, <1>8 DEF ReconciledBy
<1> QED
  BY <1>1, <1>2, <1>9

(* A list with its references checked. *)
LEMMA CheckedList ==
  ASSUME TInv, NEW c \in Crates, NEW k \in Classes, NEW new \in [RefIds(items[c]) -> Names]
  PROVE  /\ items[c][k] \in Seq(Items) /\ DOMAIN items[c][k] = 1..Len(items[c][k])
         /\ Checked(c, k, new) \in Seq(Items)
         /\ DOMAIN Checked(c, k, new) = DOMAIN items[c][k]
         /\ \A i \in DOMAIN items[c][k] : LET old == items[c][k][i]
                                          out == Checked(c, k, new)[i]
              IN  /\ out.name = old.name /\ out.shown = old.shown
                  /\ DOMAIN out.refs = DOMAIN old.refs
                  /\ \A m \in DOMAIN old.refs :
                       /\ old.refs[m].id \in RefIds(items[c])
                       /\ out.refs[m].id = IF old.refs[m].generic THEN old.refs[m].id
                                                                  ELSE new[old.refs[m].id]
<1>1. items[c] \in [Classes -> Seq(Items)]
  BY DEF TInv, TypeOK
<1>2. items[c][k] \in Seq(Items) /\ Len(items[c][k]) \in Nat /\ DOMAIN items[c][k] = 1..Len(items[c][k])
  BY <1>1, LenProperties
<1>3. \A i \in DOMAIN items[c][k] :
        /\ items[c][k][i] \in Items
        /\ \A m \in DOMAIN items[c][k][i].refs : items[c][k][i].refs[m].id \in RefIds(items[c])
  BY <1>1, NamesOfItems
<1>4. \A i \in DOMAIN items[c][k] :
        Checked(c, k, new)[i] = CheckItem(items[c][k][i], new)
  BY DEF Checked
<1>5. \A i \in DOMAIN items[c][k] : CheckItem(items[c][k][i], new) \in Items
  BY <1>3, CheckedType
<1>6. Checked(c, k, new) \in Seq(Items)
  <2>1. Checked(c, k, new) \in [1..Len(items[c][k]) -> Items]
    BY <1>2, <1>5 DEF Checked
  <2> QED
    BY <1>2, <2>1, SeqDef
<1>7. DOMAIN Checked(c, k, new) = DOMAIN items[c][k]
  BY DEF Checked
<1>8. ASSUME NEW i \in DOMAIN items[c][k]
      PROVE  LET old == items[c][k][i]
                 out == Checked(c, k, new)[i]
             IN  /\ out.name = old.name /\ out.shown = old.shown
                 /\ DOMAIN out.refs = DOMAIN old.refs
                 /\ \A m \in DOMAIN old.refs :
                      /\ old.refs[m].id \in RefIds(items[c])
                      /\ out.refs[m].id = IF old.refs[m].generic THEN old.refs[m].id
                                                                 ELSE new[old.refs[m].id]
  BY <1>3, <1>4, CheckedType
<1> QED
  BY <1>2, <1>6, <1>7, <1>8

LEMMA ReconcileTypes ==
  ASSUME TInv, ReconcileCrate
  PROVE  TInv'
<1>1. at \in DOMAIN CrateSeq /\ Current \in Crates
  BY ReconcileEffect
<1>2. PICK new : ReconciledBy(Current, new)
  BY ReconcileEffect
<1>3. ASSUME NEW k \in Classes PROVE items'[Current][k] \in Seq(Items)
  <2>1. CASE k = "const"
    <3>1. items[Current][k] \in Seq(Items)
      BY <1>1 DEF TInv, TypeOK
    <3> QED
      BY <1>2, <2>1, <3>1 DEF ReconciledBy
  <2>2. CASE k # "const"
    <3>1. k \in Sorted
      BY <2>2 DEF Sorted
    <3>2. items'[Current][k] \in SortByName(Checked(Current, k, new))
      BY <1>2, <3>1 DEF ReconciledBy
    <3>3. Checked(Current, k, new) \in Seq(Items)
      BY <1>1, <1>2, CheckedList DEF ReconciledBy
    <3> QED
      BY <3>2, <3>3, SortRearranges
  <2> QED
    BY <2>1, <2>2
<1>4. items' \in [Crates -> [Classes -> Seq(Items)]]
  <2>1. /\ items \in [Crates -> [Classes -> Seq(Items)]]
        /\ items' = [items EXCEPT ![Current] = items'[Current]]
        /\ items'[Current] = [k \in Classes |-> items'[Current][k]]
    BY <1>2 DEF ReconciledBy, TInv, TypeOK
  <2>2. ASSUME NEW c \in Crates PROVE items'[c] \in [Classes -> Seq(Items)]
    <3>1. CASE c # Current
      BY <2>1, <3>1
    <3>2. CASE c = Current
      BY <1>3, <2>1, <3>2
    <3> QED
      BY <3>1, <3>2
  <2> QED
    BY <2>1, <2>2
<1>5. /\ UNCHANGED <<world, waiting, imports, typeNames, failed, phase, allTypes, pending, used>>
      /\ phase = "reconciling" /\ at' = at + 1
  BY DEF ReconcileCrate
<1>6. at' \in 1..Len(CrateSeq) + 1
  BY <1>1, <1>5, FirstCrate
<1> QED
  BY <1>4, <1>5, <1>6 DEF TInv, TypeOK, AllUses
LEMMA AllTypesTypes ==
  ASSUME TInv, AllTypes
  PROVE  TInv'
<1>1. AllUses' = AllUses /\ Foreign(CrateSeq[1]) \subseteq AllUses
  BY FirstCrate, CratesOfTheRun DEF AllTypes, AllUses, Foreign, TInv
<1>2. pending' \subseteq AllUses
  BY <1>1 DEF AllTypes, TInv
<1>3. \A c \in Crates : \A imp \in imports'[c] \cup pending' : IsImport(imp)
  BY <1>2, UsesAreImports DEF AllTypes, TInv
<1>4. 1 \in 1..Len(CrateSeq) + 1 /\ 1 <= Len(CrateSeq)
  BY FirstCrate
<1>5. allTypes' \in [Crates -> SUBSET Names] /\ typeNames' \in [Crates -> SUBSET Names]
  BY DEF AllTypes, TInv, TypeOK, NoNames
<1> QED
  BY <1>1, <1>2, <1>3, <1>4, <1>5 DEF AllTypes, TInv, TypeOK

LEMMA UseTypes ==
  ASSUME TInv, phase = "importing", NEW crate, NEW ids \in SUBSET Names, Use(crate, ids)
  PROVE  used' \in [Crates -> [Crates -> SUBSET Names]]
BY DEF Use, TInv, TypeOK

LEMMA LookupTypes ==
  ASSUME TInv, NEW imp \in pending,
         LookupWildcard(imp) \/ LookupDeclared(imp) \/ LookupFallback(imp)
  PROVE  TInv'
<1>1. /\ Lookup(imp) /\ phase = "importing"
      /\ UNCHANGED <<world, waiting, items, imports, typeNames, failed, phase, at, allTypes>>
      /\ pending' \subseteq pending /\ AllUses' = AllUses
  BY DEF LookupWildcard, LookupDeclared, LookupFallback, Lookup, AllUses
<1>2. IsImport(imp)
  BY UsesAreImports DEF TInv
<1>3. imp.name # Wildcard => {imp.name} \in SUBSET Names
  BY <1>2 DEF IsImport
<1>4. \A c \in Crates : allTypes[c] \in SUBSET Names
  BY DEF TInv, TypeOK
<1>5. used' \in [Crates -> [Crates -> SUBSET Names]]
  <2>1. CASE UNCHANGED used
    BY <2>1 DEF TInv, TypeOK
  <2>2. CASE LookupWildcard(imp) /\ used' # used
    BY <1>1, <1>4, <2>2, UseTypes DEF LookupWildcard
  <2>3. CASE LookupDeclared(imp)
    BY <1>1, <1>3, <2>3, UseTypes DEF LookupDeclared
  <2>4. CASE LookupFallback(imp) /\ used' # used
    BY <1>1, <1>3, <2>4, UseTypes DEF LookupFallback
  <2> QED
    BY <2>1, <2>2, <2>3, <2>4
<1>6. \A c \in Crates : \A i \in imports'[c] \cup pending' : IsImport(i)
  BY <1>1 DEF TInv, TypeOK
<1> QED
  BY <1>1, <1>5, <1>6 DEF TInv, TypeOK

LEMMA NextCrateTypes ==
  ASSUME TInv, NextCrate
  PROVE  TInv'
<1>1. /\ UNCHANGED <<world, waiting, items, imports, typeNames, failed, allTypes, used>>
      /\ phase = "importing" /\ AllUses' = AllUses
  BY DEF NextCrate, AllUses
<1>2. CASE at < Len(CrateSeq)
  <2>1. at' = at + 1 /\ pending' = Foreign(CrateSeq[at + 1]) /\ phase' = phase
    BY <1>2 DEF NextCrate
  <2>2. at + 1 \in DOMAIN CrateSeq
    BY <1>2, FirstCrate DEF TInv, TypeOK
  <2>3. pending' \subseteq AllUses
    BY <2>1, <2>2, CratesOfTheRun DEF Foreign, TInv
  <2>4. \A c \in Crates : \A imp \in imports'[c] \cup pending' : IsImport(imp)
    BY <1>1, <2>3, UsesAreImports DEF TInv
  <2>5. at' \in 1..Len(CrateSeq) + 1 /\ at' <= Len(CrateSeq)
    BY <2>1, <2>2, FirstCrate
  <2> QED
    BY <1>1, <2>1, <2>3, <2>4, <2>5 DEF TInv, TypeOK
<1>3. CASE ~(at < Len(CrateSeq))
  BY <1>1, <1>3 DEF NextCrate, TInv, TypeOK
<1> QED
  BY <1>2, <1>3

LEMMA TypesStep == TInv /\ [Next]_vars => TInv'
<1> SUFFICES ASSUME TInv, [Next]_vars PROVE TInv'
  OBVIOUS
<1>1. CASE \E f \in Files : MergeFile(f)
  BY <1>1, MergeFileTypes
<1>2. CASE StartReconcile
  BY <1>2 DEF StartReconcile, TInv, TypeOK, AllUses
<1>3. CASE ReconcileCrate
  BY <1>3, ReconcileTypes
<1>4. CASE AllTypes
  BY <1>4, AllTypesTypes
<1>5. CASE \E imp \in pending :
             LookupWildcard(imp) \/ LookupDeclared(imp) \/ LookupFallback(imp)
  BY <1>5, LookupTypes
<1>6. CASE NextCrate
  BY <1>6, NextCrateTypes
<1>7. CASE UNCHANGED vars
  BY <1>7 DEF vars, TInv, TypeOK, AllUses
<1> QED
  BY <1>1, <1>2, <1>3, <1>4, <1>5, <1>6, <1>7 DEF Next, Finished

(* Type correctness, with the imports among those of the files. *)
THEOREM TypesHold == Spec => []TInv
BY TypesInitially, TypesStep, PTL DEF Spec

(* The variables keep their types: a wildcard in particular never comes to be
   the name of an imported type. *)
THEOREM TypeCorrect == Spec => []TypeOK
<1>1. TInv => TypeOK
  BY DEF TInv
<1> QED
  BY <1>1, TypesHold, PTL
-----------------------------------------------------------------------------
(* The items of a crate, from its files to its module *)

(* Where the files merged so far declare the items of class k of crate c. *)
Places(c, k) == UNION {{f} \X DOMAIN world[f].items[k] : f \in FilesOf(c) \ waiting}
Origin(place, k) == world[place[1]].items[k][place[2]]

(* reconcile_aliases has dealt with crate c. *)
Reconciled(c) ==
  \/ phase \notin {"parsing", "reconciling"}
  \/ phase = "reconciling" /\ \E i \in DOMAIN CrateSeq : i < at /\ CrateSeq[i] = c

(* What a reference of file f has to become. *)
Clear(f, ref, d, target) ==
  /\ Means(f, ref.id, d, target)
  /\ \/ target.shown = target.name
     \/ d = CrateOf[f] /\ ~ref.generic

FollowsRef(f, ref, id) ==
  \A d \in Crates : \A target \in Declared(d, ref.id) :
    Clear(f, ref, d, target) => id = target.shown

(* b takes each item that crate c has to the place it is declared at. *)
Carries(c, k, b) ==
  /\ b \in Bijection(DOMAIN items[c][k], Places(c, k))
  /\ \A i \in DOMAIN items[c][k] :
       LET item == items[c][k][i]
           old  == Origin(b[i], k)
       IN  /\ item.name = old.name /\ item.shown = old.shown
           /\ DOMAIN item.refs = DOMAIN old.refs
           /\ ~Reconciled(c) => item.refs = old.refs
           /\ Reconciled(c) => \A m \in DOMAIN old.refs :
                                 FollowsRef(b[i][1], old.refs[m], item.refs[m].id)

ItemsCarried == \A c \in Crates : \A k \in Sorted : \E b : Carries(c, k, b)

ItemsSorted ==
  \A c \in Crates : Reconciled(c) =>
    \A k \in Sorted : \A i, j \in DOMAIN items[c][k] :
      i < j => Rank[items[c][k][i].name] <= Rank[items[c][k][j].name]

AllDelivered == phase # "parsing" => waiting = {}

ImportsOwn == \A c \in Crates : imports[c] \subseteq UNION {world[f].uses : f \in FilesOf(c)}

OInv == ItemsCarried /\ ItemsSorted /\ AllDelivered /\ ImportsOwn

LEMMA Joined ==
  ASSUME NEW n \in Nat, NEW m \in Nat, NEW P, NEW f, NEW b \in Bijection(1..n, P),
         \A i \in 1..m : <<f, i>> \notin P
  PROVE  [j \in 1..n + m |-> IF j <= n THEN b[j] ELSE <<f, j - n>>]
           \in Bijection(1..n + m, P \cup ({f} \X (1..m)))
<1> DEFINE join == [j \in 1..n + m |-> IF j <= n THEN b[j] ELSE <<f, j - n>>]
           T == P \cup ({f} \X (1..m))
<1>1. /\ b \in [1..n -> P] /\ \A i, j \in 1..n : b[i] = b[j] => i = j
      /\ \A t \in P : \E i \in 1..n : b[i] = t
  BY Fun_BijectionProperties, Fun_SurjectionProperties
<1>2. join \in [1..n + m -> T]
  <2>1. ASSUME NEW j \in 1..n + m PROVE join[j] \in T
    <3>1. CASE j <= n
      BY <1>1, <3>1
    <3>2. CASE ~(j <= n)
      BY <3>2
    <3> QED
      BY <3>1, <3>2
  <2> QED
    BY <2>1
<1>3. ASSUME NEW i \in 1..n + m, NEW j \in 1..n + m, join[i] = join[j] PROVE i = j
  <2>1. CASE i <= n /\ j <= n
    BY <1>1, <1>3, <2>1
  <2>2. CASE i <= n /\ ~(j <= n)
    <3>1. join[i] \in P /\ join[j] = <<f, j - n>> /\ j - n \in 1..m
      BY <1>1, <2>2
    <3> QED
      BY <1>3, <3>1
  <2>3. CASE ~(i <= n) /\ j <= n
    <3>1. join[j] \in P /\ join[i] = <<f, i - n>> /\ i - n \in 1..m
      BY <1>1, <2>3
    <3> QED
      BY <1>3, <3>1
  <2>4. CASE ~(i <= n) /\ ~(j <= n)
    <3>1. join[i] = <<f, i - n>> /\ join[j] = <<f, j - n>>
      BY <2>4
    <3>2. i - n = j - n
      BY <1>3, <3>1
    <3> QED
      BY <3>2
  <2> QED
    BY <2>1, <2>2, <2>3, <2>4
<1>4. ASSUME NEW t \in T PROVE \E j \in 1..n + m : join[j] = t
  <2>1. CASE t \in P
    <3>1. PICK i \in 1..n : b[i] = t
      BY <1>1, <2>1
    <3>2. i \in 1..n + m /\ join[i] = t
      BY <3>1
    <3> QED
      BY <3>2
  <2>2. CASE t \in {f} \X (1..m)
    <3>1. PICK i \in 1..m : t = <<f, i>>
      BY <2>2
    <3>2. n + i \in 1..n + m /\ ~(n + i <= n) /\ n + i - n = i
      OBVIOUS
    <3>3. join[n + i] = t
      BY <3>1, <3>2
    <3> QED
      BY <3>2, <3>3
  <2> QED
    BY <2>1, <2>2
<1> HIDE DEF join, T
<1>5. join \in Injection(1..n + m, T)
  BY <1>2, <1>3, Fun_IsInj
<1>6. join \in Surjection(1..n + m, T)
  BY <1>2, <1>4, Fun_IsSurj
<1>7. join \in Bijection(1..n + m, T)
  BY <1>5, <1>6 DEF Bijection
<1> QED
  BY <1>7 DEF join, T
LEMMA ItemsTyped ==
  ASSUME TInv, NEW c \in Crates, NEW k \in Classes
  PROVE  /\ items[c][k] \in Seq(Items) /\ Len(items[c][k]) \in Nat
         /\ DOMAIN items[c][k] = 1..Len(items[c][k])
         /\ \A i \in DOMAIN items[c][k] : items[c][k][i] \in Items
<1>1. items[c][k] \in Seq(Items)
  BY DEF TInv, TypeOK
<1> QED
  BY <1>1, LenProperties, ElementOfSeq

LEMMA FileItemsTyped ==
  ASSUME TInv, NEW f \in Files, NEW k \in Classes
  PROVE  /\ world[f].items[k] \in Seq(Items) /\ Len(world[f].items[k]) \in Nat
         /\ DOMAIN world[f].items[k] = 1..Len(world[f].items[k])
         /\ \A i \in DOMAIN world[f].items[k] : world[f].items[k][i] \in Items
<1>1. world[f].items[k] \in Seq(Items)
  BY WorldItems DEF TInv
<1> QED
  BY <1>1, LenProperties, ElementOfSeq

LEMMA OrdersInitially == Init => OInv
<1> SUFFICES ASSUME Init PROVE OInv
  OBVIOUS
<1>1. \A c : ~Reconciled(c)
  BY DEF Init, Reconciled
<1>2. ASSUME NEW c \in Crates, NEW k \in Sorted PROVE \E b : Carries(c, k, b)
  <2>1. items[c][k] = <<>> /\ DOMAIN items[c][k] = {} /\ Places(c, k) = {}
    BY <1>2 DEF Init, Places, FilesOf, Sorted
  <2>2. PICK b : b \in Bijection({}, {})
    BY Fun_ExistsBijReflexive, Fun_ExistsBij
  <2>3. Carries(c, k, b)
    BY <2>1, <2>2 DEF Carries
  <2> QED
    BY <2>3
<1> QED
  BY <1>1, <1>2 DEF OInv, ItemsCarried, ItemsSorted, AllDelivered, ImportsOwn, Init, NoNames

(* What the items of a crate have to do with depends on the files only. *)
LEMMA ClearStays ==
  ASSUME world' = world
  PROVE  /\ \A f, ref, id : FollowsRef(f, ref, id)' <=> FollowsRef(f, ref, id)
         /\ \A p, k : Origin(p, k)' = Origin(p, k)
         /\ \A c, k : waiting' = waiting => Places(c, k)' = Places(c, k)
<1>1. \A d, id : Declared(d, id)' = Declared(d, id)
  BY DEF Declared, FilesOf
<1>2. \A f, id, d, target : Means(f, id, d, target)' <=> Means(f, id, d, target)
  BY <1>1 DEF Means, Meanings, Sees, FilesOf, ItemsIn, Named
<1> QED
  BY <1>1, <1>2 DEF FollowsRef, Clear, Origin, Places, FilesOf

(* A crate that nothing happens to. *)
LEMMA CarriesStays ==
  ASSUME NEW c \in Crates, NEW k \in Sorted, NEW b, Carries(c, k, b),
         world' = world, items'[c][k] = items[c][k], Places(c, k)' = Places(c, k),
         Reconciled(c)' <=> Reconciled(c)
  PROVE  Carries(c, k, b)'
<1>1. /\ \A f, ref, id : FollowsRef(f, ref, id)' <=> FollowsRef(f, ref, id)
      /\ \A p : Origin(p, k)' = Origin(p, k)
  BY ClearStays
<1> QED
  BY <1>1 DEF Carries

(* A step that leaves the items alone. *)
LEMMA OrdersFrame ==
  ASSUME OInv, UNCHANGED <<world, waiting, items, imports>>, AllDelivered',
         \A c \in Crates : Reconciled(c)' <=> Reconciled(c)
  PROVE  OInv'
<1>1. ItemsCarried'
  <2> SUFFICES ASSUME NEW c \in Crates, NEW k \in Sorted PROVE \E b : Carries(c, k, b)'
    BY DEF ItemsCarried
  <2>1. PICK b : Carries(c, k, b)
    BY DEF OInv, ItemsCarried
  <2>2. Carries(c, k, b)'
    BY <2>1, CarriesStays, ClearStays
  <2> QED
    BY <2>2
<1>2. ItemsSorted' /\ ImportsOwn'
  BY DEF OInv, ItemsSorted, ImportsOwn, FilesOf
<1> QED
  BY <1>1, <1>2 DEF OInv
(* A file's items come after those its crate has already. *)
LEMMA MergedItems ==
  ASSUME TInv, NEW f \in Files, MergeFile(f), NEW c \in Crates, NEW k \in Sorted
  PROVE  items'[c][k] = IF c = CrateOf[f] THEN items[c][k] \o world[f].items[k] ELSE items[c][k]
<1>1. k \in Classes /\ items[c][k] \in Seq(Items) /\ world[f].items[k] \in Seq(Items)
  BY ItemsTyped, FileItemsTyped DEF Sorted
<1>2. CASE IsEmpty(world[f])
  <2>1. Range(world[f].items[k]) = {}
    BY <1>1, <1>2 DEF IsEmpty, ItemsIn
  <2>2. DOMAIN world[f].items[k] = {}
    BY <2>1 DEF Range
  <2>3. world[f].items[k] = <<>>
    <3>1. world[f].items[k] # <<>> => Len(world[f].items[k]) \in Nat \ {0}
      BY <1>1, EmptySeq
    <3>2. DOMAIN world[f].items[k] = 1..Len(world[f].items[k])
      BY <1>1, FileItemsTyped
    <3>3. Len(world[f].items[k]) \in Nat \ {0} => 1 \in 1..Len(world[f].items[k])
      OBVIOUS
    <3> QED
      BY <2>2, <3>1, <3>2, <3>3
  <2>4. items' = items
    BY <1>2 DEF MergeFile
  <2> QED
    BY <1>1, <2>3, <2>4, ConcatEmptySeq
<1>3. CASE ~IsEmpty(world[f])
  <2>1. items' = [items EXCEPT ![CrateOf[f]] =
                    [l \in Classes |-> Merged(@[l], world[f].items[l])]]
    BY <1>3 DEF MergeFile
  <2>2. items \in [Crates -> [Classes -> Seq(Items)]] /\ CrateOf[f] \in Crates
    BY RankType DEF TInv, TypeOK
  <2> QED
    BY <1>1, <2>1, <2>2 DEF Merged
<1> QED
  BY <1>2, <1>3

LEMMA MergeFileCarries ==
  ASSUME TInv, OInv, NEW f \in Files, MergeFile(f), NEW c \in Crates, NEW k \in Sorted
  PROVE  \E b : Carries(c, k, b)'
<1>1. /\ world' = world /\ waiting' = waiting \ {f} /\ f \in waiting
      /\ phase = "parsing" /\ phase' = "parsing" /\ k \in Classes
  BY DEF MergeFile, Sorted
<1>2. ~Reconciled(c) /\ ~Reconciled(c)'
  BY <1>1 DEF Reconciled
<1>3. PICK b : Carries(c, k, b)
  BY DEF OInv, ItemsCarried
<1>4. CASE c # CrateOf[f]
  <2>1. items'[c][k] = items[c][k]
    BY <1>4, MergedItems
  <2>2. Places(c, k)' = Places(c, k)
    BY <1>1, <1>4 DEF Places, FilesOf
  <2>3. Carries(c, k, b)'
    BY <1>1, <1>2, <1>3, <2>1, <2>2, CarriesStays
  <2> QED
    BY <2>3
<1>5. CASE c = CrateOf[f]
  <2>1. PICK old \in Seq(Items), new \in Seq(Items) : old = items[c][k] /\ new = world[f].items[k]
    BY <1>1, ItemsTyped, FileItemsTyped
  <2>2. PICK n \in Nat, m \in Nat : n = Len(old) /\ m = Len(new)
    BY <1>1, <2>1, ItemsTyped, FileItemsTyped
  <2>3. PICK join : join = [j \in 1..n + m |-> IF j <= n THEN b[j] ELSE <<f, j - n>>]
    OBVIOUS
  <2>4. DOMAIN old = 1..n /\ DOMAIN new = 1..m
    BY <1>1, <2>1, <2>2, ItemsTyped, FileItemsTyped
  <2>5. items'[c][k] = old \o new
    BY <1>5, <2>1, MergedItems
  <2>6. Places(c, k)' = Places(c, k) \cup ({f} \X (1..m))
    BY <1>1, <1>5, <2>4, <2>1 DEF Places, FilesOf
  <2>7. \A i \in 1..m : <<f, i>> \notin Places(c, k)
    BY <1>1 DEF Places
  <2>8. b \in Bijection(1..n, Places(c, k))
    BY <1>3, <2>4, <2>1 DEF Carries
  <2>9. join \in Bijection(1..n + m, Places(c, k)')
    <3>1. [j \in 1..n + m |-> IF j <= n THEN b[j] ELSE <<f, j - n>>]
            \in Bijection(1..n + m, Places(c, k) \cup ({f} \X (1..m)))
      BY <2>7, <2>8, Joined
    <3> QED
      BY <2>6, <2>3, <3>1, Zenon
  <2>10. /\ DOMAIN items'[c][k] = 1..n + m
        /\ \A j \in 1..n + m : items'[c][k][j] = IF j <= n THEN old[j] ELSE new[j - n]
    <3>1. old \o new \in Seq(Items) /\ Len(old \o new) = n + m
      BY <2>2, ConcatProperties
    <3>2. \A j \in 1..n + m : (old \o new)[j] = IF j <= n THEN old[j] ELSE new[j - n]
      BY <2>2, ConcatProperties
    <3> QED
      BY <2>5, <3>1, <3>2, LenProperties
  <2>11. ASSUME NEW j \in 1..n + m
        PROVE  LET item == items'[c][k][j]
                   org  == Origin(join[j], k)'
               IN  /\ item.name = org.name /\ item.shown = org.shown
                   /\ DOMAIN item.refs = DOMAIN org.refs /\ item.refs = org.refs
    <3>1. Origin(join[j], k)' = Origin(join[j], k)
      BY <1>1, ClearStays
    <3>2. CASE j <= n
      <4>1. join[j] = b[j] /\ items'[c][k][j] = old[j] /\ j \in DOMAIN old
        BY <2>4, <2>10, <2>3, <3>2
      <4> QED
        BY <1>2, <1>3, <2>1, <3>1, <4>1 DEF Carries
    <3>3. CASE ~(j <= n)
      <4>1. join[j] = <<f, j - n>> /\ items'[c][k][j] = new[j - n]
        BY <2>4, <2>10, <2>3, <3>3
      <4>2. Origin(join[j], k) = new[j - n]
        BY <2>1, <4>1 DEF Origin
      <4> QED
        BY <3>1, <4>1, <4>2
    <3> QED
      BY <3>2, <3>3
  <2>12. Carries(c, k, join)'
    BY <1>2, <2>9, <2>10, <2>11 DEF Carries
  <2> QED
    BY <2>12
<1> QED
  BY <1>4, <1>5

LEMMA MergeFileOrders ==
  ASSUME TInv, OInv, NEW f \in Files, MergeFile(f)
  PROVE  OInv'
<1>1. world' = world /\ phase' = "parsing" /\ CrateOf[f] \in Crates /\ f \in FilesOf(CrateOf[f])
  BY RankType DEF MergeFile, FilesOf
<1>2. ItemsCarried'
  BY MergeFileCarries DEF ItemsCarried
<1>3. ItemsSorted' /\ AllDelivered'
  BY <1>1 DEF ItemsSorted, AllDelivered, Reconciled
<1>4. ImportsOwn'
  <2>1. CASE UNCHANGED imports
    BY <1>1, <2>1 DEF OInv, ImportsOwn, FilesOf
  <2>2. CASE imports' # imports
    <3>1. PICK kept \in RetainedImports(world[f]) :
             imports' = [imports EXCEPT ![CrateOf[f]] = @ \cup kept]
      BY <2>2 DEF MergeFile
    <3>2. kept \subseteq world[f].uses
      BY KeptAreUses
    <3>3. imports \in [Crates -> SUBSET AllUses]
      BY DEF TInv
    <3>4. \A c \in Crates : imports'[c] \subseteq imports[c] \cup IF c = CrateOf[f] THEN kept ELSE {}
      BY <3>1, <3>3
    <3> QED
      BY <1>1, <3>2, <3>4 DEF OInv, ImportsOwn, FilesOf
  <2> QED
    BY <2>1, <2>2
<1> QED
  BY <1>2, <1>3, <1>4 DEF OInv
LEMMA MaxIsMember ==
  ASSUME NEW n \in Nat, NEW S \in SUBSET (1..n), S # {}
  PROVE  Max(S) \in S
<1>1. PICK x \in S : \A y \in S : ~(n - y < n - x)
  <2> DEFINE T == {n - y : y \in S}
  <2>1. \A y \in S : n - y \in Nat
    OBVIOUS
  <2>2. T \subseteq Nat /\ T # {}
    BY <2>1
  <2>3. PICK t \in T : \A u \in T : ~(<<u, t>> \in OpToRel(<, Nat))
    BY <2>2, NatLessThanWellFounded, WFMin
  <2>4. PICK x \in S : t = n - x
    BY <2>3
  <2>5. ASSUME NEW y \in S, n - y < n - x PROVE FALSE
    <3>1. <<n - y, t>> \in Nat \X Nat /\ <<n - y, t>>[1] < <<n - y, t>>[2]
      BY <2>1, <2>4, <2>5
    <3>2. <<n - y, t>> \in OpToRel(<, Nat)
      BY <3>1, Zenon DEF OpToRel
    <3> QED
      BY <2>3, <3>2
  <2> QED
    BY <2>5
<1>2. \A y \in S : x >= y
  BY <1>1
<1> QED
  BY <1>2 DEF Max

LEMMA FileDeclares ==
  ASSUME NEW c, NEW f \in FilesOf(c), NEW k \in Sorted,
         NEW item, item \in Range(world[f].items[k])
  PROVE  item \in Declared(c, item.name)
<1> DEFINE Those(g, l) == {i \in Range(world[g].items[l]) : i.name = item.name}
<1>1. item \in Those(f, k)
  OBVIOUS
<1>2. Declared(c, item.name) = UNION {Those(g, l) : g \in FilesOf(c), l \in Sorted}
  BY DEF Declared
<1> HIDE DEF Those
<1>3. Those(f, k) \in {Those(g, l) : g \in FilesOf(c), l \in Sorted}
  OBVIOUS
<1> QED
  BY <1>1, <1>2, <1>3

(* Once every file is merged, a crate's items have the names of its types. *)
LEMMA NamesAreDeclared ==
  ASSUME TInv, OInv, waiting = {}, NEW c \in Crates, NEW k \in Sorted, NEW id
  PROVE  /\ \A i \in DOMAIN items[c][k] :
              items[c][k][i].name = id =>
                \E target \in Declared(c, id) : items[c][k][i].shown = target.shown
         /\ \A f \in FilesOf(c) : \A item \in Range(world[f].items[k]) :
              item.name = id =>
                \E i \in DOMAIN items[c][k] : /\ items[c][k][i].name = id
                                              /\ items[c][k][i].shown = item.shown
<1>1. PICK b : Carries(c, k, b)
  BY DEF OInv, ItemsCarried
<1>2. /\ b \in [DOMAIN items[c][k] -> Places(c, k)]
      /\ \A p \in Places(c, k) : \E i \in DOMAIN items[c][k] : b[i] = p
  BY <1>1, Fun_BijectionProperties, Fun_SurjectionProperties DEF Carries
<1>3. ASSUME NEW i \in DOMAIN items[c][k], items[c][k][i].name = id
      PROVE  \E target \in Declared(c, id) : items[c][k][i].shown = target.shown
  <2>1. b[i] \in Places(c, k)
    BY <1>2
  <2>2. PICK f \in FilesOf(c) : \E n \in DOMAIN world[f].items[k] : b[i] = <<f, n>>
    BY <2>1 DEF Places
  <2> PICK j \in DOMAIN world[f].items[k] : b[i] = <<f, j>>
    BY <2>2
  <2>3. Origin(b[i], k) = world[f].items[k][j]
    BY DEF Origin
  <2>4. /\ world[f].items[k][j].name = id
        /\ items[c][k][i].shown = world[f].items[k][j].shown
    BY <1>1, <1>3, <2>3 DEF Carries
  <2>5. world[f].items[k][j] \in Declared(c, id)
    <3>1. world[f].items[k][j] \in Range(world[f].items[k])
      BY DEF Range
    <3> QED
      BY <2>4, <3>1, FileDeclares
  <2> QED
    BY <2>4, <2>5
<1>4. ASSUME NEW f \in FilesOf(c), NEW item \in Range(world[f].items[k]), item.name = id
      PROVE  \E i \in DOMAIN items[c][k] : /\ items[c][k][i].name = id
                                           /\ items[c][k][i].shown = item.shown
  <2>1. PICK j \in DOMAIN world[f].items[k] : item = world[f].items[k][j]
    BY DEF Range
  <2>2. <<f, j>> \in Places(c, k)
    BY DEF Places
  <2>3. PICK i \in DOMAIN items[c][k] : b[i] = <<f, j>>
    BY <1>2, <2>2
  <2>4. Origin(b[i], k) = item
    BY <2>1, <2>3 DEF Origin
  <2> QED
    BY <1>1, <1>4, <2>4 DEF Carries
<1> QED
  BY <1>3, <1>4

(* The name that collect_serde_renames finds for a type is the generated name
   of a type of the crate, and it finds one if a type of the name has one. *)
LEMMA RenamesAreDeclared ==
  ASSUME TInv, OInv, waiting = {}, NEW c \in Crates, NEW id
  PROVE  /\ \A new \in SerdeRenamed(c, id) :
              \E target \in Declared(c, id) : new = target.shown /\ target.shown # id
         /\ \A target \in Declared(c, id) : target.shown # id => SerdeRenamed(c, id) # {}
<1>1. PICK s \in Seq(Items), e \in Seq(Items), a \in Seq(Items) :
        s = items[c]["struct"] /\ e = items[c]["enum"] /\ a = items[c]["alias"]
  BY ItemsTyped DEF Classes
<1>2. PICK all : all = s \o e \o a
  OBVIOUS
<1>3. /\ Len(s) \in Nat /\ DOMAIN s = 1..Len(s)
      /\ Len(e) \in Nat /\ DOMAIN e = 1..Len(e)
      /\ Len(a) \in Nat /\ DOMAIN a = 1..Len(a)
  BY LenProperties
<1>4. /\ s \o e \in Seq(Items) /\ Len(s \o e) = Len(s) + Len(e)
      /\ \A i \in 1..Len(s) + Len(e) : (s \o e)[i] = IF i <= Len(s) THEN s[i] ELSE e[i - Len(s)]
  BY ConcatProperties
<1>5. /\ all \in Seq(Items) /\ Len(all) = Len(s) + Len(e) + Len(a)
      /\ \A i \in 1..Len(s) + Len(e) + Len(a) :
           all[i] = IF i <= Len(s) + Len(e) THEN (s \o e)[i] ELSE a[i - (Len(s) + Len(e))]
  BY <1>2, <1>4, ConcatProperties
<1>6. DOMAIN all = 1..Len(all) /\ Len(all) \in Nat
  BY <1>5, LenProperties
<1>7. ASSUME NEW i \in DOMAIN all
      PROVE  \E k \in Sorted : \E j \in DOMAIN items[c][k] : all[i] = items[c][k][j]
  <2>1. CASE i <= Len(s)
    <3>1. all[i] = s[i] /\ i \in DOMAIN s
      BY <1>3, <1>4, <1>5, <1>6, <1>7, <2>1
    <3> QED
      BY <1>1, <3>1 DEF Sorted, Classes
  <2>2. CASE ~(i <= Len(s)) /\ i <= Len(s) + Len(e)
    <3>1. all[i] = e[i - Len(s)] /\ i - Len(s) \in DOMAIN e
      BY <1>3, <1>4, <1>5, <1>6, <1>7, <2>2
    <3> QED
      BY <1>1, <3>1 DEF Sorted, Classes
  <2>3. CASE ~(i <= Len(s) + Len(e))
    <3>1. all[i] = a[i - (Len(s) + Len(e))] /\ i - (Len(s) + Len(e)) \in DOMAIN a
      BY <1>3, <1>5, <1>6, <1>7, <2>3
    <3> QED
      BY <1>1, <3>1 DEF Sorted, Classes
  <2> QED
    BY <1>3, <1>6, <2>1, <2>2, <2>3
<1>8. ASSUME NEW k \in Sorted, NEW j \in DOMAIN items[c][k]
      PROVE  \E i \in DOMAIN all : all[i] = items[c][k][j]
  <2>1. CASE k = "struct"
    <3>2. j \in 1..Len(s)
      BY <1>1, <1>3, <2>1
    <3>3. j \in 1..Len(s) + Len(e) /\ j \in 1..Len(s) + Len(e) + Len(a) /\ j <= Len(s)
          /\ j <= Len(s) + Len(e)
      BY <1>3, <3>2
    <3>1. j \in DOMAIN all /\ all[j] = s[j]
      BY <1>4, <1>5, <1>6, <3>3
    <3> QED
      BY <1>1, <2>1, <3>1
  <2>2. CASE k = "enum"
    <3>1. j \in 1..Len(e)
      BY <1>1, <1>3, <2>2
    <3>2. PICK x \in Nat : x = Len(s) + j
      BY <1>3, <3>1
    <3>3. /\ x \in 1..Len(s) + Len(e) /\ x \in 1..Len(s) + Len(e) + Len(a)
          /\ ~(x <= Len(s)) /\ x <= Len(s) + Len(e) /\ x - Len(s) = j
      BY <1>3, <3>1, <3>2
    <3>4. x \in DOMAIN all /\ all[x] = e[x - Len(s)]
      BY <1>4, <1>5, <1>6, <3>3
    <3> QED
      BY <1>1, <2>2, <3>3, <3>4
  <2>3. CASE k = "alias"
    <3>1. j \in 1..Len(a)
      BY <1>1, <1>3, <2>3
    <3>2. PICK x \in Nat : x = Len(s) + Len(e) + j
      BY <1>3, <3>1
    <3>3. /\ x \in 1..Len(s) + Len(e) + Len(a)
          /\ ~(x <= Len(s) + Len(e)) /\ x - (Len(s) + Len(e)) = j
      BY <1>3, <3>1, <3>2
    <3>4. x \in DOMAIN all /\ all[x] = a[x - (Len(s) + Len(e))]
      BY <1>5, <1>6, <3>3
    <3> QED
      BY <1>1, <2>3, <3>3, <3>4
  <2> QED
    BY <2>1, <2>2, <2>3 DEF Sorted, Classes
<1>9. PICK ren : ren = {i \in DOMAIN all : all[i].name = id /\ all[i].shown # id}
  OBVIOUS
<1>10. SerdeRenamed(c, id) = IF ren = {} THEN {} ELSE {all[Max(ren)].shown}
  BY <1>1, <1>2, <1>9 DEF SerdeRenamed
<1>11. ASSUME NEW new \in SerdeRenamed(c, id)
       PROVE  \E target \in Declared(c, id) : new = target.shown /\ target.shown # id
  <2>1. ren # {} /\ new = all[Max(ren)].shown
    BY <1>10, <1>11
  <2>2. Max(ren) \in ren
    BY <1>6, <1>9, <2>1, MaxIsMember
  <2>3. PICK k \in Sorted : \E j \in DOMAIN items[c][k] : all[Max(ren)] = items[c][k][j]
    BY <1>7, <1>9, <2>2
  <2> QED
    BY <1>9, <2>1, <2>2, <2>3, NamesAreDeclared
<1>12. ASSUME NEW target \in Declared(c, id), target.shown # id
       PROVE  SerdeRenamed(c, id) # {}
  <2>1. PICK f \in FilesOf(c), k \in Sorted : target \in Range(world[f].items[k]) /\ target.name = id
    BY DEF Declared
  <2>2. PICK j \in DOMAIN items[c][k] : items[c][k][j].name = id /\ items[c][k][j].shown = target.shown
    BY <2>1, NamesAreDeclared
  <2>3. PICK i \in DOMAIN all : all[i] = items[c][k][j]
    BY <1>8
  <2>4. i \in ren
    BY <1>9, <1>12, <2>2, <2>3
  <2> QED
    BY <1>10, <2>4
<1> QED
  BY <1>11, <1>12
LEMMA DeclaredName ==
  ASSUME NEW c, NEW id, NEW target \in Declared(c, id)
  PROVE  target.name = id
BY DEF Declared

LEMMA ImportMeans ==
  ASSUME OInv, NEW c \in Crates, NEW imp \in imports[c]
  PROVE  imp.crate \in Meanings(c, imp.name)
<1>1. PICK f \in FilesOf(c) : imp \in world[f].uses
  BY DEF OInv, ImportsOwn
<1>2. imp \in Named(world[f].uses, imp.name)
  BY <1>1 DEF Named
<1>3. imp \in UNION {Named(world[g].uses, imp.name) : g \in FilesOf(c)}
  BY <1>1, <1>2
<1> QED
  BY <1>3 DEF Meanings

(* What resolve_renamed and check_type make of a reference that has one
   meaning. *)
LEMMA RefResolved ==
  ASSUME TInv, OInv, waiting = {}, NEW c \in Crates, NEW f \in FilesOf(c), NEW ref, NEW id,
         IF ref.generic THEN id = ref.id ELSE id \in Resolve(c, ref.id)
  PROVE  FollowsRef(f, ref, id)
<1> SUFFICES ASSUME NEW d \in Crates, NEW target \in Declared(d, ref.id), Clear(f, ref, d, target)
             PROVE  id = target.shown
  BY DEF FollowsRef
<1>1. target.name = ref.id /\ CrateOf[f] = c
  BY DeclaredName DEF FilesOf
<1>2. Meanings(c, ref.id) = {d} /\ Declared(d, ref.id) = {target}
  BY <1>1 DEF Clear, Means
<1>3. CASE ref.generic
  BY <1>1, <1>3 DEF Clear
<1>4. CASE ~ref.generic
  <2>1. RenamedImports(c, ref.id) \subseteq SerdeRenamed(d, ref.id)
    <3> SUFFICES ASSUME NEW imp \in imports[c], imp.name = ref.id
                 PROVE  imp.crate = d
      BY DEF RenamedImports, Named
    <3> QED
      BY <1>2, ImportMeans
  <2>2. SerdeRenamed(d, ref.id) \subseteq {target.shown}
    BY <1>2, RenamesAreDeclared
  <2>3. CASE target.shown = ref.id
    <3>1. SerdeRenamed(d, ref.id) = {}
      BY <1>2, <2>3, RenamesAreDeclared
    <3>2. c # d => Declared(c, ref.id) = {}
      BY <1>2 DEF Meanings
    <3>3. SerdeRenamed(c, ref.id) = {}
      BY <3>1, <3>2, RenamesAreDeclared
    <3> QED
      BY <1>4, <2>1, <2>3, <3>1, <3>3 DEF Resolve
  <2>4. CASE target.shown # ref.id
    <3>1. d = c
      BY <1>1, <2>4 DEF Clear
    <3>2. SerdeRenamed(c, ref.id) = {target.shown}
      BY <2>2, <2>4, <3>1, RenamesAreDeclared
    <3> QED
      BY <1>4, <2>1, <3>1, <3>2 DEF Resolve
  <2> QED
    BY <2>3, <2>4
<1> QED
  BY <1>3, <1>4

LEMMA CratesDiffer ==
  ASSUME NEW i \in DOMAIN CrateSeq, NEW j \in DOMAIN CrateSeq, CrateSeq[i] = CrateSeq[j]
  PROVE  i = j
BY MultiFileAssumption DEF MultiFileAssumption, IsInjective

LEMMA ReconciledNext ==
  ASSUME TInv, ReconcileCrate, NEW c \in Crates
  PROVE  /\ Reconciled(c)' <=> Reconciled(c) \/ c = Current
         /\ ~Reconciled(Current)
<1>1. /\ phase = "reconciling" /\ phase' = "reconciling" /\ at' = at + 1
      /\ at \in DOMAIN CrateSeq
  BY ReconcileEffect DEF ReconcileCrate
<1>2. DOMAIN CrateSeq \subseteq Nat
  BY FirstCrate
<1>3. \A i \in DOMAIN CrateSeq : i < at' <=> i < at \/ i = at
  BY <1>1, <1>2
<1>4. Reconciled(c)' <=> \E i \in DOMAIN CrateSeq : i < at' /\ CrateSeq[i] = c
  BY <1>1 DEF Reconciled
<1>5. \A e : Reconciled(e) <=> \E i \in DOMAIN CrateSeq : i < at /\ CrateSeq[i] = e
  BY <1>1 DEF Reconciled
<1>6. ~Reconciled(Current)
  BY <1>1, <1>2, <1>5, CratesDiffer DEF Current
<1> QED
  BY <1>1, <1>3, <1>4, <1>5, <1>6 DEF Current

LEMMA ReconcileCarries ==
  ASSUME TInv, OInv, ReconcileCrate, NEW c \in Crates, NEW k \in Sorted
  PROVE  \E b : Carries(c, k, b)'
<1>1. /\ world' = world /\ waiting' = waiting /\ waiting = {} /\ Places(c, k)' = Places(c, k)
      /\ k \in Classes
  BY ClearStays DEF ReconcileCrate, OInv, AllDelivered, Sorted
<1>2. PICK b : Carries(c, k, b)
  BY DEF OInv, ItemsCarried
<1>3. Current \in Crates
  BY ReconcileEffect
<1>4. PICK new : ReconciledBy(Current, new)
  BY ReconcileEffect
<1>5. CASE c # Current
  <2>1. items'[c][k] = items[c][k]
    <3>1. items' = [items EXCEPT ![Current] = items'[Current]] /\ DOMAIN items = Crates
      BY <1>4 DEF ReconciledBy, TInv, TypeOK
    <3> QED
      BY <1>5, <3>1
  <2>2. Carries(c, k, b)'
    BY <1>1, <1>2, <1>5, <2>1, ReconciledNext, CarriesStays
  <2> QED
    BY <2>2
<1>6. CASE c = Current
  <2>1. PICK list : list = Checked(c, k, new)
    OBVIOUS
  <2>2. PICK out : out = items'[c][k]
    OBVIOUS
  <2>3. list \in Seq(Items) /\ DOMAIN list = DOMAIN items[c][k]
    BY <1>1, <1>4, <1>6, <2>1, CheckedList DEF ReconciledBy
  <2>4. out \in SortByName(list)
    BY <1>4, <1>6, <2>1, <2>2 DEF ReconciledBy
  <2>5. PICK perm \in Bijection(DOMAIN out, DOMAIN list) : \A i \in DOMAIN out : out[i] = list[perm[i]]
    BY <2>3, <2>4, SortRearranges
  <2>6. b \in Bijection(DOMAIN list, Places(c, k))
    BY <1>2, <2>3 DEF Carries
  <2>7. PICK from : from = [i \in DOMAIN out |-> b[perm[i]]]
    OBVIOUS
  <2>8. from \in Bijection(DOMAIN out, Places(c, k))
    BY <2>5, <2>6, <2>7, Fun_BijTransitive
  <2>9. ASSUME NEW i \in DOMAIN out
        PROVE  LET org == Origin(from[i], k)
               IN  /\ out[i].name = org.name /\ out[i].shown = org.shown
                   /\ DOMAIN out[i].refs = DOMAIN org.refs
                   /\ \A m \in DOMAIN org.refs :
                        FollowsRef(from[i][1], org.refs[m], out[i].refs[m].id)
    <3>1. perm[i] \in DOMAIN list /\ out[i] = list[perm[i]] /\ from[i] = b[perm[i]]
      BY <2>5, <2>7, Fun_BijectionProperties
    <3>2. PICK j \in DOMAIN items[c][k] : j = perm[i]
      BY <2>3, <3>1
    <3>3. PICK old : old = items[c][k][j]
      OBVIOUS
    <3>4. /\ out[i].name = old.name /\ out[i].shown = old.shown
          /\ DOMAIN out[i].refs = DOMAIN old.refs
          /\ \A m \in DOMAIN old.refs :
               /\ old.refs[m].id \in RefIds(items[c])
               /\ out[i].refs[m].id = IF old.refs[m].generic THEN old.refs[m].id
                                                             ELSE new[old.refs[m].id]
      BY <1>1, <1>4, <1>6, <2>1, <3>1, <3>2, <3>3, CheckedList DEF ReconciledBy
    <3>5. ~Reconciled(c)
      BY <1>6, ReconciledNext
    <3>6. /\ old.name = Origin(b[j], k).name /\ old.shown = Origin(b[j], k).shown
          /\ old.refs = Origin(b[j], k).refs
      BY <1>2, <3>3, <3>5 DEF Carries
    <3>7. b[j] \in Places(c, k)
      BY <2>6, <3>2, <2>3, Fun_BijectionProperties
    <3>8. b[j][1] \in FilesOf(c)
      BY <3>7 DEF Places
    <3>9. ASSUME NEW m \in DOMAIN old.refs
          PROVE  FollowsRef(b[j][1], old.refs[m], out[i].refs[m].id)
      <4>1. new[old.refs[m].id] \in Resolve(c, old.refs[m].id)
        BY <1>4, <1>6, <3>4 DEF ReconciledBy
      <4> QED
        BY <1>1, <3>4, <3>8, <4>1, RefResolved
    <3> QED
      BY <3>1, <3>2, <3>4, <3>6, <3>9
  <2>10. Reconciled(c)'
    BY <1>6, ReconciledNext
  <2>11. /\ \A g, ref, id : FollowsRef(g, ref, id)' <=> FollowsRef(g, ref, id)
         /\ \A p : Origin(p, k)' = Origin(p, k)
    BY <1>1, ClearStays
  <2>12. Carries(c, k, from)'
    BY <1>1, <2>2, <2>8, <2>9, <2>10, <2>11 DEF Carries
  <2> QED
    BY <2>12
<1> QED
  BY <1>5, <1>6

LEMMA ReconcileOrders ==
  ASSUME TInv, OInv, ReconcileCrate
  PROVE  OInv'
<1>1. ItemsCarried'
  BY ReconcileCarries DEF ItemsCarried
<1>2. UNCHANGED <<world, waiting, imports, phase>>
  BY DEF ReconcileCrate
<1>3. PICK new : ReconciledBy(Current, new)
  BY ReconcileEffect
<1>4. ASSUME NEW c \in Crates, Reconciled(c)', NEW k \in Sorted
      PROVE  \A i, j \in DOMAIN items'[c][k] :
               i < j => Rank[items'[c][k][i].name] <= Rank[items'[c][k][j].name]
  <2>1. CASE c = Current
    <3>1. items'[c][k] \in SortByName(Checked(c, k, new))
      BY <1>3, <2>1 DEF ReconciledBy
    <3>2. Checked(c, k, new) \in Seq(Items)
      BY <1>3, <2>1, CheckedList DEF ReconciledBy, Sorted
    <3> QED
      BY <3>1, <3>2, SortRearranges
  <2>2. CASE c # Current
    <3>1. Reconciled(c)
      BY <1>4, <2>2, ReconciledNext
    <3>2. items' = [items EXCEPT ![Current] = items'[Current]] /\ DOMAIN items = Crates
      BY <1>3 DEF ReconciledBy, TInv, TypeOK
    <3>3. items'[c][k] = items[c][k]
      BY <2>2, <3>2
    <3> QED
      BY <3>1, <3>3 DEF OInv, ItemsSorted
  <2> QED
    BY <2>1, <2>2
<1>5. ItemsSorted'
  BY <1>4 DEF ItemsSorted
<1>6. AllDelivered' /\ ImportsOwn'
  BY <1>2 DEF OInv, AllDelivered, ImportsOwn, FilesOf
<1> QED
  BY <1>1, <1>5, <1>6 DEF OInv
LEMMA AllReconciled ==
  ASSUME TInv, phase = "reconciling", at > Len(CrateSeq), NEW c \in Crates
  PROVE  Reconciled(c)
<1>1. PICK i \in DOMAIN CrateSeq : CrateSeq[i] = c
  BY DEF Crates, Range
<1>2. i < at
  BY FirstCrate DEF TInv, TypeOK
<1> QED
  BY <1>1, <1>2 DEF Reconciled

LEMMA OrdersStep == TInv /\ OInv /\ [Next]_vars => OInv'
<1> SUFFICES ASSUME TInv, OInv, [Next]_vars PROVE OInv'
  OBVIOUS
<1>1. CASE \E f \in Files : MergeFile(f)
  BY <1>1, MergeFileOrders
<1>2. CASE StartReconcile
  <2>1. /\ phase = "parsing" /\ phase' = "reconciling" /\ waiting = {} /\ at = 1
        /\ UNCHANGED <<world, waiting, items, imports, at>>
    BY <1>2 DEF StartReconcile, TInv
  <2>2. \A c \in Crates : ~Reconciled(c) /\ ~Reconciled(c)'
    BY <2>1, FirstCrate DEF Reconciled
  <2> QED
    BY <2>1, <2>2, OrdersFrame DEF AllDelivered
<1>3. CASE ReconcileCrate
  BY <1>3, ReconcileOrders
<1>4. CASE AllTypes
  <2>1. /\ phase = "reconciling" /\ at > Len(CrateSeq) /\ phase' \in {"importing", "failed"}
        /\ UNCHANGED <<world, waiting, items, imports>>
    BY <1>4 DEF AllTypes
  <2>2. \A c \in Crates : Reconciled(c) /\ Reconciled(c)'
    BY <2>1, AllReconciled DEF Reconciled
  <2> QED
    BY <2>1, <2>2, OrdersFrame DEF OInv, AllDelivered
<1>5. CASE \E imp \in pending :
             LookupWildcard(imp) \/ LookupDeclared(imp) \/ LookupFallback(imp)
  <2>1. /\ phase = "importing" /\ phase' = "importing"
        /\ UNCHANGED <<world, waiting, items, imports>>
    BY <1>5 DEF LookupWildcard, LookupDeclared, LookupFallback, Lookup
  <2> QED
    BY <2>1, OrdersFrame DEF OInv, AllDelivered, Reconciled
<1>6. CASE NextCrate
  <2>1. /\ phase = "importing" /\ phase' \in {"importing", "done"}
        /\ UNCHANGED <<world, waiting, items, imports>>
    BY <1>6 DEF NextCrate
  <2> QED
    BY <2>1, OrdersFrame DEF OInv, AllDelivered, Reconciled
<1>7. CASE UNCHANGED vars
  BY <1>7, OrdersFrame DEF vars, OInv, AllDelivered, Reconciled
<1> QED
  BY <1>1, <1>2, <1>3, <1>4, <1>5, <1>6, <1>7 DEF Next, Finished

(* The items of a crate are those that the files merged so far declare, each
   once; those of a crate that reconcile_aliases has dealt with are in the
   order of their names, and their references name what the types they mean
   are generated as. *)
THEOREM ItemsInvariant == Spec => []OInv
BY TypesHold, OrdersInitially, OrdersStep, PTL DEF Spec

(* The items of a name, in the crate and in its files. *)
Called(c, k, id) == {i \in DOMAIN items[c][k] : items[c][k][i].name = id}
PlacesOf(c, k, id) == {p \in Places(c, k) : Origin(p, k).name = id}

LEMMA SameNumber ==
  ASSUME TInv, OInv, waiting = {}, NEW c \in Crates, NEW k \in Sorted, NEW id
  PROVE  Cardinality(Called(c, k, id)) = Cardinality(PlacesOf(c, k, id))
<1>1. PICK b : Carries(c, k, b)
  BY DEF OInv, ItemsCarried
<1>2. PICK A : A = Called(c, k, id) /\ A = {i \in DOMAIN items[c][k] : items[c][k][i].name = id}
  BY DEF Called
<1>3. PICK B : B = PlacesOf(c, k, id) /\ B = {p \in Places(c, k) : Origin(p, k).name = id}
  BY DEF PlacesOf
<1>4. /\ b \in [DOMAIN items[c][k] -> Places(c, k)]
      /\ \A i, j \in DOMAIN items[c][k] : b[i] = b[j] => i = j
      /\ \A p \in Places(c, k) : \E i \in DOMAIN items[c][k] : b[i] = p
  BY <1>1, Fun_BijectionProperties, Fun_SurjectionProperties DEF Carries
<1>5. \A i \in DOMAIN items[c][k] : items[c][k][i].name = Origin(b[i], k).name
  BY <1>1 DEF Carries
<1>6. PICK g : g = [i \in A |-> b[i]]
  OBVIOUS
<1>7. g \in [A -> B] /\ \A i, j \in A : g[i] = g[j] => i = j
  BY <1>2, <1>3, <1>4, <1>5, <1>6
<1>8. \A p \in B : \E i \in A : g[i] = p
  BY <1>2, <1>3, <1>4, <1>5, <1>6
<1>9. g \in Bijection(A, B)
  BY <1>7, <1>8, Fun_IsInj, Fun_IsSurj DEF Bijection
<1>10. IsFiniteSet(A)
  <2>1. IsFiniteSet(DOMAIN items[c][k])
    BY ItemsTyped, FS_Interval DEF Sorted
  <2> QED
    BY <1>2, <2>1, FS_Subset
<1>11. Cardinality(A) = Cardinality(B)
  BY <1>9, <1>10, FS_Bijection, Fun_ExistsBij
<1> QED
  BY <1>2, <1>3, <1>11

LEMMA OrderOfModule == TInv /\ OInv => DeterministicOrder
<1> SUFFICES ASSUME TInv, OInv, phase = "done", NEW c \in Crates, NEW k \in Sorted
             PROVE  LET gen == items[c][k]
                        declared == UNION {{f} \X DOMAIN world[f].items[k] : f \in FilesOf(c)}
                    IN  /\ \A i, j \in DOMAIN gen : i < j => Rank[gen[i].name] <= Rank[gen[j].name]
                        /\ \A id \in Names :
                             Cardinality({i \in DOMAIN gen : gen[i].name = id}) =
                             Cardinality({fi \in declared : world[fi[1]].items[k][fi[2]].name = id})
  BY DEF DeterministicOrder
<1>1. waiting = {} /\ Reconciled(c)
  BY DEF OInv, AllDelivered, Reconciled
<1>2. Places(c, k) = UNION {{f} \X DOMAIN world[f].items[k] : f \in FilesOf(c)}
  BY <1>1 DEF Places
<1>3. \A i, j \in DOMAIN items[c][k] :
        i < j => Rank[items[c][k][i].name] <= Rank[items[c][k][j].name]
  BY <1>1 DEF OInv, ItemsSorted
<1>4. ASSUME NEW id \in Names
      PROVE  Cardinality({i \in DOMAIN items[c][k] : items[c][k][i].name = id}) =
             Cardinality({fi \in Places(c, k) : world[fi[1]].items[k][fi[2]].name = id})
  <2>1. /\ {fi \in Places(c, k) : world[fi[1]].items[k][fi[2]].name = id} = PlacesOf(c, k, id)
        /\ {i \in DOMAIN items[c][k] : items[c][k][i].name = id} = Called(c, k, id)
    BY DEF Origin, Called, PlacesOf
  <2>2. Cardinality(Called(c, k, id)) = Cardinality(PlacesOf(c, k, id))
    BY <1>1, SameNumber
  <2> QED
    BY <2>1, <2>2, Zenon
<1> QED
  BY <1>2, <1>3, <1>4

(* Whatever the order in which the files come, a module has the aliases,
   structs and enums of the crate's files, each once, in the order of their
   names. *)
THEOREM OrderIsDeterministic == Spec => []DeterministicOrder
BY TypesHold, ItemsInvariant, OrderOfModule, PTL
-----------------------------------------------------------------------------
(* The imports of a crate, from its files to its module *)

(* The crates' type names are those of the files merged, and all_types has
   those of all files. *)
NamesKnown ==
  IF phase \in {"parsing", "reconciling"}
  THEN \A c \in Crates :
         typeNames[c] = UNION {ShownNames(world[f].items) : f \in FilesOf(c) \ waiting}
  ELSE \A c \in Crates : allTypes[c] = Generated(c)

(* The names a file's types refer to and do not give. *)
Wanted(f) == RefIds(world[f].items) \ ShownNames(world[f].items)
Kept(f) == {imp \in world[f].uses : imp.name \in Wanted(f)}

(* No import that is wanted is lost when files are merged, and an unambiguous
   crate has just these. *)
ImportsKept ==
  \A c \in Crates :
    /\ \A f \in FilesOf(c) \ waiting : \A imp \in Kept(f) :
         \E kept \in imports[c] : kept \in world[f].uses /\ kept.name = imp.name
    /\ Unambiguous(c) => imports[c] = UNION {Kept(f) : f \in FilesOf(c) \ waiting}

(* The imports of crate c that used_imports has looked at. *)
Looked(c) ==
  {imp \in Foreign(c) :
     \/ phase = "done"
     \/ /\ phase = "importing"
        /\ \E i \in DOMAIN CrateSeq :
             CrateSeq[i] = c /\ (i < at \/ (i = at /\ imp \notin pending))}

(* The crates that an import takes its type from if it is unambiguous. *)
Suppliers(c, imp) ==
  {d \in Generating(c, imp.name) : d = imp.crate \/ imp.crate \notin Generating(c, imp.name)}

ImportsLookedUp ==
  \A c, d \in Crates :
    /\ \A imp \in Looked(c) :
         imp.name # Wildcard /\ Declares(imp) /\ d = imp.crate => imp.name \in used[c][d]
    /\ Unambiguous(c) =>
         used[c][d] = {imp.name : imp \in {i \in Looked(c) : d \in Suppliers(c, i)}}

PendingForeign == phase = "importing" => pending \subseteq Foreign(Current)

MInv == NamesKnown /\ ImportsKept /\ ImportsLookedUp /\ PendingForeign
LEMMA WorldSays ==
  ASSUME world' = world
  PROVE  /\ \A f : Kept(f)' = Kept(f)
         /\ \A c : FilesOf(c)' = FilesOf(c) /\ Generated(c)' = Generated(c)
         /\ \A c : Unambiguous(c)' <=> Unambiguous(c)
         /\ \A c, imp : Suppliers(c, imp)' = Suppliers(c, imp)
<1>1. /\ \A c : FilesOf(c)' = FilesOf(c)
      /\ \A c, id : Generating(c, id)' = Generating(c, id)
  BY DEF FilesOf, Generating, ShownNames, ItemsIn
<1>2. \A f : Kept(f)' = Kept(f)
  BY DEF Kept, Wanted, RefIds, ShownNames, ItemsIn
<1> QED
  BY <1>1, <1>2, GeneratedStays DEF Unambiguous, Suppliers

(* What reconcile_referenced_types keeps. *)
LEMMA RetainedKeeps ==
  ASSUME NEW f, NEW kept \in RetainedImports(world[f])
  PROVE  /\ kept \subseteq world[f].uses
         /\ \A imp \in Kept(f) : \E k \in kept : k.name = imp.name
         /\ (\A imp, other \in world[f].uses :
               imp.name # Wildcard /\ (imp.name = other.name => imp = other))
            => kept = Kept(f)
<1> DEFINE uses == world[f].uses
           wanted == {id \in Wanted(f) : Named(uses, id) # {}}
<1>1. PICK pick \in [wanted -> uses] :
        /\ \A id \in wanted : pick[id].name = id
        /\ kept = Range(pick) \cup Named(uses, Wildcard)
  BY DEF RetainedImports, Wanted
<1>2. kept \subseteq uses
  BY <1>1 DEF Range, Named
<1>3. \A imp \in Kept(f) : imp.name \in wanted
  BY DEF Kept, Named
<1>4. \A imp \in Kept(f) : pick[imp.name] \in kept /\ pick[imp.name].name = imp.name
  BY <1>1, <1>3 DEF Range
<1>5. ASSUME \A imp, other \in uses :
               imp.name # Wildcard /\ (imp.name = other.name => imp = other)
      PROVE  kept = Kept(f)
  <2>1. kept = Range(pick)
    BY <1>1, <1>5 DEF Named
  <2>2. \A id \in wanted : pick[id] \in Kept(f)
    BY <1>1 DEF Kept
  <2>3. \A imp \in Kept(f) : imp \in uses /\ imp = pick[imp.name]
    BY <1>1, <1>3, <1>5 DEF Kept
  <2> QED
    BY <1>4, <2>1, <2>2, <2>3 DEF Range
<1> QED
  BY <1>2, <1>4, <1>5

LEMMA EmptyFile ==
  ASSUME NEW f, IsEmpty(world[f])
  PROVE  ShownNames(world[f].items) = {} /\ Kept(f) = {}
BY DEF IsEmpty, ShownNames, Kept, Wanted, RefIds

LEMMA ImportsInitially == Init => MInv
<1> SUFFICES ASSUME Init PROVE MInv
  OBVIOUS
<1>1. NamesKnown
  <2>1. \A c \in Crates : FilesOf(c) \ waiting = {}
    BY DEF Init, FilesOf
  <2> QED
    BY <2>1 DEF Init, NamesKnown, NoNames
<1>2. ImportsKept
  <2>1. \A c \in Crates : FilesOf(c) \ waiting = {}
    BY DEF Init, FilesOf
  <2> QED
    BY <2>1 DEF Init, ImportsKept, NoNames
<1>3. ImportsLookedUp
  <2>1. \A c \in Crates : Looked(c) = {}
    BY DEF Init, Looked
  <2>2. \A c, d \in Crates : used[c][d] = {}
    BY DEF Init, NoNames
  <2> QED
    BY <2>1, <2>2 DEF ImportsLookedUp
<1> QED
  BY <1>1, <1>2, <1>3 DEF MInv, PendingForeign, Init

LEMMA MergeFileImports ==
  ASSUME TInv, OInv, MInv, NEW f \in Files, MergeFile(f)
  PROVE  MInv'
<1>1. /\ world' = world /\ waiting' = waiting \ {f} /\ f \in waiting
      /\ phase = "parsing" /\ phase' = "parsing" /\ UNCHANGED <<allTypes, pending, used>>
  BY DEF MergeFile
<1>2. /\ CrateOf[f] \in Crates
      /\ \A c \in Crates : FilesOf(c)' \ waiting' =
           IF c = CrateOf[f] THEN (FilesOf(c) \ waiting) \cup {f} ELSE FilesOf(c) \ waiting
  BY <1>1, RankType DEF FilesOf
<1>3. \A c \in Crates : typeNames'[c] =
        IF c = CrateOf[f] THEN typeNames[c] \cup ShownNames(world[f].items) ELSE typeNames[c]
  <2>1. typeNames \in [Crates -> SUBSET Names]
    BY DEF TInv, TypeOK
  <2>2. CASE IsEmpty(world[f])
    BY <2>1, <2>2, EmptyFile DEF MergeFile
  <2>3. CASE ~IsEmpty(world[f])
    BY <1>2, <2>1, <2>3 DEF MergeFile
  <2> QED
    BY <2>2, <2>3
<1>4. NamesKnown'
  <2>1. \A c \in Crates :
          typeNames[c] = UNION {ShownNames(world[g].items) : g \in FilesOf(c) \ waiting}
    BY <1>1 DEF MInv, NamesKnown
  <2>2. ASSUME NEW c \in Crates
        PROVE  typeNames'[c] = UNION {ShownNames(world[g].items) : g \in FilesOf(c)' \ waiting'}
    <3>1. PICK S : S = FilesOf(c) \ waiting
      OBVIOUS
    <3>2. typeNames[c] = UNION {ShownNames(world[g].items) : g \in S}
      BY <2>1, <3>1
    <3>3. CASE c = CrateOf[f]
      <4>1. FilesOf(c)' \ waiting' = S \cup {f}
        BY <1>2, <3>1, <3>3
      <4>2. typeNames'[c] = typeNames[c] \cup ShownNames(world[f].items)
        BY <1>3, <3>3
      <4> QED
        BY <3>2, <4>1, <4>2
    <3>4. CASE c # CrateOf[f]
      BY <1>2, <1>3, <3>1, <3>2, <3>4
    <3> QED
      BY <3>3, <3>4
  <2>3. \A g : ShownNames(world'[g].items) = ShownNames(world[g].items)
    BY <1>1
  <2> QED
    BY <1>1, <2>2, <2>3 DEF NamesKnown
<1>5. ImportsKept'
  <2> SUFFICES ASSUME NEW c \in Crates
               PROVE  /\ \A g \in FilesOf(c)' \ waiting' : \A imp \in Kept(g) :
                           \E kept \in imports'[c] : kept \in world[g].uses /\ kept.name = imp.name
                      /\ Unambiguous(c) => imports'[c] = UNION {Kept(g) : g \in FilesOf(c)' \ waiting'}
    BY <1>1, WorldSays DEF ImportsKept
  <2>1. PICK S : S = FilesOf(c) \ waiting
    OBVIOUS
  <2>2. /\ \A g \in S : \A imp \in Kept(g) :
             \E kept \in imports[c] : kept \in world[g].uses /\ kept.name = imp.name
        /\ Unambiguous(c) => imports[c] = UNION {Kept(g) : g \in S}
    BY <2>1 DEF MInv, ImportsKept
  <2>3. CASE c # CrateOf[f]
    <3>1. imports'[c] = imports[c] /\ FilesOf(c)' \ waiting' = S
      BY <1>2, <2>1, <2>3 DEF MergeFile, TInv
    <3> QED
      BY <2>2, <3>1
  <2>4. CASE c = CrateOf[f]
    <3>1. FilesOf(c)' \ waiting' = S \cup {f}
      BY <1>2, <2>1, <2>4
    <3>2. f \in FilesOf(c)
      BY <2>4 DEF FilesOf
    <3>3. CASE IsEmpty(world[f])
      <4>1. imports' = imports /\ Kept(f) = {}
        BY <3>3, EmptyFile DEF MergeFile
      <4> QED
        BY <2>2, <3>1, <4>1
    <3>4. CASE ~IsEmpty(world[f])
      <4>1. PICK kept \in RetainedImports(world[f]) :
              imports' = [imports EXCEPT ![CrateOf[f]] = @ \cup kept]
        BY <3>4 DEF MergeFile
      <4>2. imports'[c] = imports[c] \cup kept
        BY <2>4, <4>1 DEF TInv
      <4>3. /\ kept \subseteq world[f].uses
            /\ \A imp \in Kept(f) : \E k \in kept : k.name = imp.name
        BY RetainedKeeps
      <4>4. Unambiguous(c) => kept = Kept(f)
        BY <3>2, RetainedKeeps DEF Unambiguous
      <4> QED
        BY <2>2, <3>1, <4>2, <4>3, <4>4
    <3> QED
      BY <3>3, <3>4
  <2> QED
    BY <2>3, <2>4
<1>6. ImportsLookedUp' /\ PendingForeign'
  <2>1. \A c \in Crates : Looked(c) = {} /\ Looked(c)' = {}
    BY <1>1 DEF Looked
  <2> QED
    BY <1>1, <2>1, WorldSays DEF MInv, ImportsLookedUp, PendingForeign
<1> QED
  BY <1>4, <1>5, <1>6 DEF MInv
(* A step that leaves imports and names alone. *)
LEMMA ImportsFrame ==
  ASSUME MInv, UNCHANGED <<world, waiting, imports, typeNames, allTypes, used>>,
         phase \in {"parsing", "reconciling"} <=> phase' \in {"parsing", "reconciling"},
         \A c \in Crates : Looked(c)' = Looked(c), PendingForeign'
  PROVE  MInv'
<1>1. NamesKnown'
  <2>1. \A f : ShownNames(world'[f].items) = ShownNames(world[f].items)
    OBVIOUS
  <2> QED
    BY <2>1, WorldSays DEF MInv, NamesKnown
<1>2. ImportsKept'
  BY WorldSays DEF MInv, ImportsKept
<1>3. ImportsLookedUp'
  BY WorldSays DEF MInv, ImportsLookedUp, Declares
<1> QED
  BY <1>1, <1>2, <1>3 DEF MInv

LEMMA AllTypesImports ==
  ASSUME TInv, OInv, MInv, AllTypes
  PROVE  MInv'
<1>1. /\ phase = "reconciling" /\ phase' \in {"importing", "failed"} /\ at' = 1 /\ waiting = {}
      /\ UNCHANGED <<world, waiting, imports, used>> /\ allTypes' = typeNames
      /\ phase' = "importing" => pending' = Foreign(CrateSeq[1])
  BY DEF AllTypes, OInv, AllDelivered
<1>2. \A c : Foreign(c)' = Foreign(c)
  BY <1>1 DEF Foreign
<1>3. NamesKnown'
  <2>1. \A c \in Crates : typeNames[c] = Generated(c)
    BY <1>1 DEF MInv, NamesKnown, Generated
  <2> QED
    BY <1>1, <2>1, WorldSays DEF NamesKnown
<1>4. \A c \in Crates : Looked(c) = {}
  BY <1>1 DEF Looked
<1>5. ASSUME NEW c \in Crates PROVE Looked(c)' = {}
  <2> SUFFICES ASSUME NEW imp \in Foreign(c), phase' = "importing", NEW i \in DOMAIN CrateSeq,
                      CrateSeq[i] = c, i < 1 \/ (i = 1 /\ imp \notin pending')
               PROVE  FALSE
    BY <1>1, <1>2 DEF Looked
  <2> QED
    BY <1>1, FirstCrate
<1>6. ImportsKept'
  BY <1>1, WorldSays DEF MInv, ImportsKept
<1>7. ImportsLookedUp'
  BY <1>1, <1>4, <1>5, WorldSays DEF MInv, ImportsLookedUp
<1>8. PendingForeign'
  BY <1>1, <1>2 DEF PendingForeign, Current
<1> QED
  BY <1>3, <1>6, <1>7, <1>8 DEF MInv

LEMMA NextCrateImports ==
  ASSUME TInv, MInv, NextCrate
  PROVE  MInv'
<1>1. /\ phase = "importing" /\ pending = {} /\ at \in DOMAIN CrateSeq
      /\ UNCHANGED <<world, waiting, imports, typeNames, allTypes, used>>
  BY FirstCrate DEF NextCrate, TInv, TypeOK
<1>2. \A c : Foreign(c)' = Foreign(c)
  BY <1>1 DEF Foreign
<1>3. \A c \in Crates : Looked(c) =
        {imp \in Foreign(c) : \E i \in DOMAIN CrateSeq : CrateSeq[i] = c /\ (i < at \/ i = at)}
  BY <1>1 DEF Looked
<1>4. DOMAIN CrateSeq \subseteq Nat
  BY FirstCrate
<1>5. CASE at < Len(CrateSeq)
  <2>1. at' = at + 1 /\ pending' = Foreign(CrateSeq[at + 1]) /\ phase' = "importing"
    BY <1>1, <1>5 DEF NextCrate
  <2>2. ASSUME NEW c \in Crates PROVE Looked(c)' = Looked(c)
    <3>1. Looked(c)' =
            {imp \in Foreign(c) : \E i \in DOMAIN CrateSeq :
               CrateSeq[i] = c /\ (i < at + 1 \/ (i = at + 1 /\ imp \notin pending'))}
      BY <1>2, <2>1 DEF Looked
    <3>2. ASSUME NEW imp \in Foreign(c), NEW i \in DOMAIN CrateSeq, CrateSeq[i] = c
          PROVE  (i < at + 1 \/ (i = at + 1 /\ imp \notin pending')) <=> (i < at \/ i = at)
      <4>1. i < at + 1 <=> i < at \/ i = at
        BY <1>1, <1>4
      <4>2. i = at + 1 => imp \in pending'
        BY <2>1, <3>2
      <4> QED
        BY <4>1, <4>2
    <3> QED
      BY <1>3, <3>1, <3>2
  <2>3. PendingForeign'
    BY <1>2, <2>1 DEF PendingForeign, Current
  <2> QED
    BY <1>1, <2>1, <2>2, <2>3, ImportsFrame
<1>6. CASE ~(at < Len(CrateSeq))
  <2>1. phase' = "done"
    BY <1>6 DEF NextCrate
  <2>2. ASSUME NEW c \in Crates PROVE Looked(c)' = Looked(c)
    <3>1. Looked(c)' = Foreign(c)
      BY <1>2, <2>1 DEF Looked
    <3>2. PICK i \in DOMAIN CrateSeq : CrateSeq[i] = c
      BY DEF Crates, Range
    <3>3. i < at \/ i = at
      BY <1>1, <1>6, FirstCrate
    <3> QED
      BY <1>3, <3>1, <3>2, <3>3
  <2> QED
    BY <1>1, <2>1, <2>2, ImportsFrame DEF PendingForeign
<1> QED
  BY <1>5, <1>6

LEMMA PendingImport ==
  ASSUME TInv, MInv, NEW imp \in pending, Lookup(imp)
  PROVE  imp \in Foreign(Current) /\ Current \in Crates /\ Current' = Current
<1>1. phase = "importing" /\ UNCHANGED at
  BY DEF Lookup
<1>2. at \in DOMAIN CrateSeq
  BY <1>1, FirstCrate DEF TInv, TypeOK
<1>3. Current \in Crates /\ Current' = Current
  BY <1>1, <1>2, CratesOfTheRun DEF Current
<1> QED
  BY <1>1, <1>3 DEF MInv, PendingForeign

(* The import that is looked up joins those looked at. *)
LEMMA LookedNext ==
  ASSUME TInv, MInv, NEW imp \in pending, Lookup(imp), NEW c \in Crates
  PROVE  /\ Looked(c)' = IF c = Current THEN Looked(c) \cup {imp} ELSE Looked(c)
         /\ PendingForeign'
<1>1. /\ phase = "importing" /\ phase' = "importing" /\ pending' = pending \ {imp}
      /\ UNCHANGED <<at, imports>>
  BY DEF Lookup
<1>2. at \in DOMAIN CrateSeq /\ Current \in Crates /\ Current' = Current
  <2>1. at \in DOMAIN CrateSeq
    BY <1>1, FirstCrate DEF TInv, TypeOK
  <2> QED
    BY <2>1, PendingImport
<1>3. imp \in Foreign(Current) /\ \A e : Foreign(e)' = Foreign(e)
  BY <1>1, PendingImport DEF Foreign
<1>4. Looked(c)' = {i \in Foreign(c) : \E j \in DOMAIN CrateSeq :
                      CrateSeq[j] = c /\ (j < at \/ (j = at /\ i \notin pending \ {imp}))}
  BY <1>1, <1>3 DEF Looked
<1>5. Looked(c) = {i \in Foreign(c) : \E j \in DOMAIN CrateSeq :
                     CrateSeq[j] = c /\ (j < at \/ (j = at /\ i \notin pending))}
  BY <1>1 DEF Looked
<1>6. ASSUME c = Current PROVE Looked(c)' = Looked(c) \cup {imp}
  <2>1. CrateSeq[at] = c
    BY <1>6 DEF Current
  <2>2. imp \in Looked(c)'
    BY <1>2, <1>3, <1>4, <1>6, <2>1
  <2>3. Looked(c) \subseteq Looked(c)'
    BY <1>4, <1>5
  <2>4. \A i \in Looked(c)' : i = imp \/ i \in Looked(c)
    BY <1>4, <1>5
  <2> QED
    BY <2>2, <2>3, <2>4
<1>7. ASSUME c # Current PROVE Looked(c)' = Looked(c)
  <2>1. CrateSeq[at] # c
    BY <1>7 DEF Current
  <2>2. \A j \in DOMAIN CrateSeq : CrateSeq[j] = c => j # at
    BY <2>1
  <2> QED
    BY <1>4, <1>5, <2>2
<1>8. PendingForeign'
  BY <1>1, <1>2, <1>3 DEF MInv, PendingForeign
<1> QED
  BY <1>2, <1>3, <1>6, <1>7, <1>8
LEMMA AtMostOne ==
  ASSUME NEW S, IsFiniteSet(S), Cardinality(S) <= 1, NEW x \in S, NEW y \in S
  PROVE  x = y
<1> SUFFICES ASSUME x # y PROVE FALSE
  OBVIOUS
<1>1. IsFiniteSet({x}) /\ Cardinality({x}) = 1
  BY FS_Singleton
<1>2. IsFiniteSet({x} \cup {y}) /\ Cardinality({x} \cup {y}) = 2
  <2>1. /\ IsFiniteSet({x} \cup {y})
        /\ Cardinality({x} \cup {y}) = IF y \in {x} THEN Cardinality({x}) ELSE Cardinality({x}) + 1
    BY <1>1, FS_AddElement, Zenon
  <2> QED
    BY <1>1, <2>1
<1>3. Cardinality({x} \cup {y}) <= Cardinality(S) /\ Cardinality(S) \in Nat
  BY FS_Subset, FS_CardinalityType
<1> QED
  BY <1>2, <1>3

LEMMA CratesFinite == IsFiniteSet(Crates)
<1>1. CrateSeq \in [1..Len(CrateSeq) -> Crates] /\ Len(CrateSeq) \in Nat
  BY MultiFileAssumption, LenProperties DEF MultiFileAssumption, Crates
<1>2. CrateSeq \in Surjection(1..Len(CrateSeq), Crates)
  BY <1>1, FirstCrate, Fun_IsSurj DEF Crates, Range
<1> QED
  BY <1>1, <1>2, FS_Interval, FS_Surjection

(* used_imports looks among the types that the crates generate. *)
LEMMA GeneratingKnown ==
  ASSUME MInv, phase = "importing", NEW c \in Crates, NEW id
  PROVE  /\ Generating(c, id) = {d \in Crates \ {c} : id \in allTypes[d]}
         /\ IsFiniteSet(Generating(c, id))
<1>1. \A d \in Crates : allTypes[d] = Generated(d)
  BY DEF MInv, NamesKnown
<1>2. Generating(c, id) = {d \in Crates \ {c} : id \in allTypes[d]}
  BY <1>1 DEF Generating, Generated
<1> QED
  BY <1>2, CratesFinite, FS_Subset

LEMMA UseEffect ==
  ASSUME TInv, Current \in Crates, NEW crate \in Crates, NEW ids, Use(crate, ids)
  PROVE  \A c, d \in Crates :
           used'[c][d] = IF c = Current /\ d = crate THEN used[c][d] \cup ids ELSE used[c][d]
BY DEF Use, TInv, TypeOK

(* Imports of an unambiguous crate are neither wildcards nor re-exports that
   several crates generate. *)
LEMMA UnambiguousImport ==
  ASSUME OInv, NEW c \in Crates, Unambiguous(c), NEW imp \in imports[c]
  PROVE  /\ imp.name # Wildcard
         /\ imp.crate \in Generating(c, imp.name) \/ Cardinality(Generating(c, imp.name)) <= 1
<1>1. PICK f \in FilesOf(c) : imp \in world[f].uses
  BY DEF OInv, ImportsOwn
<1> QED
  BY <1>1 DEF Unambiguous

LEMMA LookupWildcardEffect ==
  ASSUME TInv, OInv, IInv, MInv, NEW imp \in pending, LookupWildcard(imp)
  PROVE  /\ \A c, d \in Crates : used[c][d] \subseteq used'[c][d]
         /\ \A c, d \in Crates : c # Current => used'[c][d] = used[c][d]
         /\ ~Unambiguous(Current) /\ imp.name = Wildcard
<1>1. Lookup(imp) /\ imp.name = Wildcard
  BY DEF LookupWildcard
<1>2. imp \in Foreign(Current) /\ Current \in Crates
  BY <1>1, PendingImport
<1>3. ~Unambiguous(Current)
  BY <1>1, <1>2, UnambiguousImport DEF Foreign
<1>4. CASE UNCHANGED used
  BY <1>1, <1>3, <1>4
<1>5. CASE used' # used
  <2>1. imp.crate \in Crates /\ Use(imp.crate, allTypes[imp.crate])
    BY <1>5 DEF LookupWildcard
  <2> QED
    BY <1>1, <1>2, <1>3, <2>1, UseEffect
<1> QED
  BY <1>4, <1>5

LEMMA LookupDeclaredEffect ==
  ASSUME TInv, OInv, IInv, MInv, NEW imp \in pending, LookupDeclared(imp)
  PROVE  \A c, d \in Crates :
           used'[c][d] = IF c = Current /\ d \in Suppliers(c, imp)
                         THEN used[c][d] \cup {imp.name} ELSE used[c][d]
<1>1. /\ Lookup(imp) /\ phase = "importing" /\ imp.crate \in Crates
      /\ imp.name \in allTypes[imp.crate] /\ Use(imp.crate, {imp.name})
  BY DEF LookupDeclared, Lookup, Declares
<1>2. imp \in Foreign(Current) /\ Current \in Crates
  BY <1>1, PendingImport
<1>3. imp.crate \in Generating(Current, imp.name)
  BY <1>1, <1>2, GeneratingKnown DEF Foreign
<1>4. \A d : d \in Suppliers(Current, imp) <=> d = imp.crate
  BY <1>3 DEF Suppliers
<1> QED
  BY <1>1, <1>2, <1>4, UseEffect

LEMMA LookupFallbackEffect ==
  ASSUME TInv, OInv, IInv, MInv, NEW imp \in pending, LookupFallback(imp)
  PROVE  /\ \A c, d \in Crates : used[c][d] \subseteq used'[c][d]
         /\ \A c, d \in Crates : c # Current => used'[c][d] = used[c][d]
         /\ Unambiguous(Current) => \A d \in Crates :
              used'[Current][d] = IF d \in Suppliers(Current, imp)
                                  THEN used[Current][d] \cup {imp.name} ELSE used[Current][d]
<1>1. Lookup(imp) /\ phase = "importing" /\ imp.name # Wildcard /\ ~Declares(imp)
  BY DEF LookupFallback, Lookup
<1>2. imp \in Foreign(Current) /\ Current \in Crates
  BY <1>1, PendingImport
<1>3. /\ Generating(Current, imp.name) = {d \in Crates \ {Current} : imp.name \in allTypes[d]}
      /\ IsFiniteSet(Generating(Current, imp.name))
  BY <1>1, <1>2, GeneratingKnown
<1>4. imp.crate \notin Generating(Current, imp.name)
  BY <1>1, <1>3 DEF Declares
<1>5. Suppliers(Current, imp) = Generating(Current, imp.name)
  BY <1>4 DEF Suppliers
<1>6. order \in [DOMAIN CrateSeq -> Crates] /\ Range(order) = Crates
  BY MultiFileAssumption DEF MultiFileAssumption, IInv, Shapes
<1>7. Candidates(imp) = {i \in DOMAIN CrateSeq : order[i] \in Generating(Current, imp.name)}
  BY <1>3, <1>6 DEF Candidates
<1>8. CASE Candidates(imp) = {}
  <2>1. used' = used
    BY <1>8 DEF LookupFallback
  <2>2. Suppliers(Current, imp) = {}
    BY <1>3, <1>5, <1>6, <1>7, <1>8 DEF Range
  <2> QED
    BY <2>1, <2>2
<1>9. CASE Candidates(imp) # {}
  <2>1. PICK e : e = order[Min(Candidates(imp))]
    OBVIOUS
  <2>2. Candidates(imp) \subseteq Nat
    BY <1>7, FirstCrate
  <2>3. Min(Candidates(imp)) \in Candidates(imp)
    BY <1>9, <2>2, MinIsMember
  <2>4. e \in Generating(Current, imp.name) /\ e \in Crates
    BY <1>3, <1>7, <2>1, <2>3
  <2>5. Use(e, {imp.name})
    BY <1>9, <2>1 DEF LookupFallback
  <2>6. \A c, d \in Crates :
          used'[c][d] = IF c = Current /\ d = e THEN used[c][d] \cup {imp.name} ELSE used[c][d]
    BY <1>2, <2>4, <2>5, UseEffect
  <2>7. ASSUME Unambiguous(Current), NEW d \in Crates
        PROVE  d = e <=> d \in Suppliers(Current, imp)
    <3>1. Cardinality(Generating(Current, imp.name)) <= 1
      BY <1>2, <1>4, <2>7, UnambiguousImport DEF Foreign
    <3> QED
      BY <1>3, <1>5, <2>4, <3>1, AtMostOne
  <2> QED
    BY <1>2, <2>6, <2>7
<1> QED
  BY <1>8, <1>9

LEMMA LookupImports ==
  ASSUME TInv, OInv, IInv, MInv, NEW imp \in pending,
         LookupWildcard(imp) \/ LookupDeclared(imp) \/ LookupFallback(imp)
  PROVE  MInv'
<1>1. /\ Lookup(imp) /\ phase = "importing" /\ phase' = "importing"
      /\ UNCHANGED <<world, waiting, imports, typeNames, allTypes>>
  BY DEF LookupWildcard, LookupDeclared, LookupFallback, Lookup
<1>2. /\ imp \in Foreign(Current) /\ Current \in Crates /\ PendingForeign'
      /\ \A c \in Crates : Looked(c)' = IF c = Current THEN Looked(c) \cup {imp} ELSE Looked(c)
  BY <1>1, PendingImport, LookedNext
<1>3. /\ \A c, d \in Crates : used[c][d] \subseteq used'[c][d]
      /\ \A c, d \in Crates : c # Current => used'[c][d] = used[c][d]
      /\ Unambiguous(Current) => \A d \in Crates :
           used'[Current][d] = IF d \in Suppliers(Current, imp)
                               THEN used[Current][d] \cup {imp.name} ELSE used[Current][d]
  BY <1>2, LookupWildcardEffect, LookupDeclaredEffect, LookupFallbackEffect
<1>4. imp.name # Wildcard /\ Declares(imp) => imp.name \in used'[Current][imp.crate]
  <2> SUFFICES ASSUME imp.name # Wildcard, Declares(imp)
               PROVE  imp.name \in used'[Current][imp.crate]
    OBVIOUS
  <2>1. LookupDeclared(imp)
    BY DEF LookupWildcard, LookupFallback
  <2>2. Use(imp.crate, {imp.name}) /\ imp.crate \in Crates
    BY <2>1 DEF LookupDeclared, Declares
  <2>3. used'[Current][imp.crate] = used[Current][imp.crate] \cup {imp.name}
    BY <1>2, <2>2, UseEffect
  <2> QED
    BY <2>3
<1>5. NamesKnown' /\ ImportsKept'
  BY <1>1, WorldSays DEF MInv, NamesKnown, ImportsKept
<1>6. ASSUME NEW c \in Crates, NEW d \in Crates
      PROVE  \A i \in Looked(c)' :
               i.name # Wildcard /\ Declares(i) /\ d = i.crate => i.name \in used'[c][d]
  BY <1>2, <1>3, <1>4 DEF MInv, ImportsLookedUp
<1>7. ASSUME NEW c \in Crates, NEW d \in Crates, Unambiguous(c)
      PROVE  used'[c][d] = {i.name : i \in {j \in Looked(c)' : d \in Suppliers(c, j)}}
  <2>1. used[c][d] = {i.name : i \in {j \in Looked(c) : d \in Suppliers(c, j)}}
    BY <1>7 DEF MInv, ImportsLookedUp
  <2>2. CASE c # Current
    BY <1>2, <1>3, <2>1, <2>2
  <2>3. CASE c = Current
    <3>1. Looked(c)' = Looked(c) \cup {imp}
      BY <1>2, <2>3
    <3>2. used'[c][d] = IF d \in Suppliers(c, imp) THEN used[c][d] \cup {imp.name} ELSE used[c][d]
      BY <1>3, <1>7, <2>3
    <3> QED
      BY <2>1, <3>1, <3>2
  <2> QED
    BY <2>2, <2>3
<1>8. ImportsLookedUp'
  BY <1>1, <1>6, <1>7, WorldSays DEF ImportsLookedUp, Declares
<1> QED
  BY <1>2, <1>5, <1>8 DEF MInv
LEMMA ImportsStep == TInv /\ OInv /\ IInv /\ MInv /\ [Next]_vars => MInv'
<1> SUFFICES ASSUME TInv, OInv, IInv, MInv, [Next]_vars PROVE MInv'
  OBVIOUS
<1>1. CASE \E f \in Files : MergeFile(f)
  BY <1>1, MergeFileImports
<1>2. CASE StartReconcile \/ ReconcileCrate
  <2>1. /\ phase \in {"parsing", "reconciling"} /\ phase' = "reconciling"
        /\ UNCHANGED <<world, waiting, imports, typeNames, allTypes, used>>
    BY <1>2 DEF StartReconcile, ReconcileCrate
  <2>2. \A c \in Crates : Looked(c) = {} /\ Looked(c)' = {}
    BY <2>1 DEF Looked
  <2> QED
    BY <2>1, <2>2, ImportsFrame DEF PendingForeign
<1>3. CASE AllTypes
  BY <1>3, AllTypesImports
<1>4. CASE \E imp \in pending :
             LookupWildcard(imp) \/ LookupDeclared(imp) \/ LookupFallback(imp)
  BY <1>4, LookupImports
<1>5. CASE NextCrate
  BY <1>5, NextCrateImports
<1>6. CASE UNCHANGED vars
  <2>1. \A c \in Crates : Looked(c)' = Looked(c)
    BY <1>6 DEF vars, Looked, Foreign
  <2>2. PendingForeign'
    BY <1>6 DEF vars, MInv, PendingForeign, Foreign, Current
  <2> QED
    BY <1>6, <2>1, <2>2, ImportsFrame DEF vars
<1> QED
  BY <1>1, <1>2, <1>3, <1>4, <1>5, <1>6 DEF Next, Finished

(* No import that a type needs is lost when files are merged, all_types has
   the names of all files' types, and used_imports takes from each import it
   has looked at what it stands for. *)
THEOREM ImportsInvariant == Spec => []MInv
BY TypesHold, ItemsInvariant, Invariant, ImportsInitially, ImportsStep, PTL DEF Spec

LEMMA ImportsOfModule == TInv /\ OInv /\ MInv => ImportsExact
<1> SUFFICES ASSUME TInv, OInv, MInv, phase = "done",
                    NEW c \in Crates, NEW d \in Crates, Unambiguous(c)
             PROVE  used[c][d] = Expected(c, d)
  BY DEF ImportsExact
<1>1. waiting = {} /\ Looked(c) = Foreign(c)
  BY DEF OInv, AllDelivered, Looked
<1>2. imports[c] = UNION {Kept(f) : f \in FilesOf(c)}
  BY <1>1 DEF MInv, ImportsKept
<1>3. used[c][d] = {imp.name : imp \in {i \in Foreign(c) : d \in Suppliers(c, i)}}
  BY <1>1 DEF MInv, ImportsLookedUp
<1>4. \A f \in FilesOf(c) : Wanted(f) \subseteq Names
  BY WorldItems, NamesOfItems DEF FilesOf, TInv, Wanted
<1>5. ASSUME NEW id \in used[c][d] PROVE id \in Expected(c, d)
  <2>1. PICK imp \in Foreign(c) : d \in Suppliers(c, imp) /\ id = imp.name
    BY <1>3, <1>5
  <2>2. PICK f \in FilesOf(c) : imp \in Kept(f)
    BY <1>2, <2>1 DEF Foreign
  <2>3. imp \in Named(world[f].uses, id) /\ id \in Wanted(f) /\ id \in Names
    BY <1>4, <2>1, <2>2 DEF Kept, Named
  <2>4. imp.crate # c /\ d \in Generating(c, id)
        /\ (d = imp.crate \/ imp.crate \notin Generating(c, id))
    BY <2>1 DEF Suppliers, Foreign
  <2> QED
    BY <2>3, <2>4 DEF Expected, Refers, Wanted
<1>6. ASSUME NEW id \in Expected(c, d) PROVE id \in used[c][d]
  <2>1. PICK f \in FilesOf(c) :
          /\ Refers(f, id) /\ id \notin ShownNames(world[f].items)
          /\ \E imp \in Named(world[f].uses, id) :
               /\ imp.crate # c
               /\ d = imp.crate \/ imp.crate \notin Generating(c, id)
               /\ d \in Generating(c, id)
    BY <1>6 DEF Expected
  <2>2. PICK imp \in Named(world[f].uses, id) :
          /\ imp.crate # c
          /\ d = imp.crate \/ imp.crate \notin Generating(c, id)
          /\ d \in Generating(c, id)
    BY <2>1
  <2>3. imp \in Kept(f) /\ imp.name = id
    BY <2>1, <2>2 DEF Kept, Wanted, Refers, Named
  <2>4. imp \in Foreign(c)
    BY <1>2, <2>2, <2>3 DEF Foreign
  <2>5. d \in Suppliers(c, imp)
    BY <2>2, <2>3 DEF Suppliers
  <2> QED
    BY <1>3, <2>3, <2>4, <2>5
<1> QED
  BY <1>5, <1>6

(* Whatever the order of files and hash sets, the module of a crate whose
   imports are unambiguous imports exactly what its types refer to. *)
THEOREM ImportsAreExact == Spec => []ImportsExact
BY TypesHold, ItemsInvariant, ImportsInvariant, ImportsOfModule, PTL

-----------------------------------------------------------------------------
(* References *)

LEMMA ReferenceFollows ==
  ASSUME TInv, OInv, phase = "done",
         NEW f \in Files, NEW k \in Sorted, NEW item \in Range(world[f].items[k]),
         NEW m \in DOMAIN item.refs, NEW d \in Crates, NEW target \in Declared(d, item.refs[m].id),
         Clear(f, item.refs[m], d, target)
  PROVE  Follows(f, k, item, m, target)
<1> DEFINE c == CrateOf[f]
<1>1. c \in Crates /\ f \in FilesOf(c) /\ waiting = {} /\ Reconciled(c)
  BY RankType DEF FilesOf, OInv, AllDelivered, Reconciled
<1>2. PICK b : Carries(c, k, b)
  BY <1>1 DEF OInv, ItemsCarried
<1>3. PICK j \in DOMAIN world[f].items[k] : item = world[f].items[k][j]
  BY DEF Range
<1>4. <<f, j>> \in Places(c, k)
  BY <1>1 DEF Places
<1>5. PICK i \in DOMAIN items[c][k] : b[i] = <<f, j>>
  BY <1>2, <1>4, Fun_BijectionProperties, Fun_SurjectionProperties DEF Carries
<1>6. Origin(b[i], k) = item /\ b[i][1] = f
  BY <1>3, <1>5 DEF Origin
<1>7. /\ items[c][k][i].name = item.name /\ items[c][k][i].shown = item.shown
      /\ FollowsRef(f, item.refs[m], items[c][k][i].refs[m].id)
  BY <1>1, <1>2, <1>6 DEF Carries
<1>8. items[c][k][i].refs[m].id = target.shown
  BY <1>7 DEF FollowsRef
<1>9. items[c][k][i] \in Range(items[c][k])
  BY DEF Range
<1> QED
  BY <1>7, <1>8, <1>9 DEF Follows

LEMMA TargetImported ==
  ASSUME TInv, OInv, MInv, phase = "done",
         NEW f \in Files, NEW k \in Sorted, NEW item \in Range(world[f].items[k]),
         NEW m \in DOMAIN item.refs, NEW d \in Crates, NEW target \in Declared(d, item.refs[m].id),
         Clear(f, item.refs[m], d, target), d # CrateOf[f]
  PROVE  target.shown \in used[CrateOf[f]][d]
<1> DEFINE c == CrateOf[f]
           id == item.refs[m].id
<1>1. c \in Crates /\ f \in FilesOf(c) /\ waiting = {} /\ k \in Classes
  BY RankType DEF FilesOf, OInv, AllDelivered, Sorted
<1>2. target.name = id /\ target.shown = id
  BY DeclaredName DEF Clear
<1>3. Means(f, id, d, target)
  BY DEF Clear
<1>4. Meanings(c, id) = {d}
  BY <1>3 DEF Means
<1>5. PICK imp \in world[f].uses : imp.name = id
  BY <1>3 DEF Means, Sees
<1>6. id \in Wanted(f)
  <2>1. item \in ItemsIn(world[f].items)
    BY <1>1 DEF ItemsIn
  <2>2. id \in RefIds(world[f].items)
    BY <2>1 DEF RefIds, Range
  <2>3. ASSUME NEW h \in Classes, NEW g \in Range(world[f].items[h]), g.shown = id PROVE FALSE
    <3>1. g.name = id /\ h \in Sorted
      BY <1>1, <1>3, <2>3 DEF Means
    <3>2. g \in Declared(c, id)
      BY <1>1, <3>1, FileDeclares
    <3>3. c \in Meanings(c, id)
      BY <3>2 DEF Meanings
    <3> QED
      BY <1>4, <3>3
  <2>4. id \notin ShownNames(world[f].items)
    BY <2>3 DEF ShownNames, ItemsIn
  <2> QED
    BY <2>2, <2>4 DEF Wanted
<1>7. imp \in Kept(f)
  BY <1>5, <1>6 DEF Kept
<1>8. PICK kept \in imports[c] : kept.name = id
  BY <1>1, <1>5, <1>7 DEF MInv, ImportsKept
<1>9. kept.crate = d
  BY <1>1, <1>4, <1>8, ImportMeans
<1>10. kept \in Looked(c)
  BY <1>8, <1>9 DEF Looked, Foreign
<1>11. Declares(kept)
  <2>1. allTypes[d] = Generated(d)
    BY DEF MInv, NamesKnown
  <2>2. PICK g \in FilesOf(d), l \in Sorted : target \in Range(world[g].items[l])
    BY DEF Declared
  <2>3. target.shown \in ShownNames(world[g].items)
    BY <2>2 DEF ShownNames, ItemsIn, Sorted
  <2>4. id \in Generated(d)
    BY <1>2, <2>2, <2>3 DEF Generated
  <2> QED
    BY <1>8, <1>9, <2>1, <2>4 DEF Declares
<1>12. kept.name # Wildcard
  <2>1. Wanted(f) \subseteq Names
    BY WorldItems, NamesOfItems DEF TInv, Wanted
  <2> QED
    BY <1>6, <1>8, <2>1, RankType
<1>13. kept.name \in used[c][d]
  BY <1>1, <1>9, <1>10, <1>11, <1>12 DEF MInv, ImportsLookedUp
<1> QED
  BY <1>2, <1>8, <1>13

LEMMA ReferencesOfModule == TInv /\ OInv /\ MInv => ReferencesResolve
<1> SUFFICES ASSUME TInv, OInv, MInv, phase = "done",
                    NEW f \in Files, NEW k \in Sorted, NEW item \in Range(world[f].items[k]),
                    NEW m \in DOMAIN item.refs, NEW d \in Crates,
                    NEW target \in Declared(d, item.refs[m].id),
                    Means(f, item.refs[m].id, d, target),
                    \/ target.shown = target.name
                    \/ d = CrateOf[f] /\ ~item.refs[m].generic
             PROVE  Follows(f, k, item, m, target) /\ ImportsTarget(f, d, target)
  BY DEF ReferencesResolve, ForClear
<1>1. Clear(f, item.refs[m], d, target)
  BY DEF Clear
<1> QED
  BY <1>1, ReferenceFollows, TargetImported DEF ImportsTarget

(* Whatever the order of files and hash sets, a reference with one meaning is
   generated as the name its type is generated under, and imported. *)
THEOREM ReferencesAreResolved == Spec => []ReferencesResolve
BY TypesHold, ItemsInvariant, ImportsInvariant, ReferencesOfModule, PTL
=============================================================================

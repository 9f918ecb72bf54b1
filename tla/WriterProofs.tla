---------------------------- MODULE WriterProofs ----------------------------
(***************************************************************************)
(* Proofs about Writer, for any crates, sources and number of runs.        *)
(***************************************************************************)
EXTENDS Writer, TLAPS

(* What the run is done with is on disk. *)
WrittenHold ==
  phase # "idle" /\ FilesApart => \A c \in src.crates \ left : Holds(c)

(* What it is not done with is as it was, but for the module being written
   when it is, or was when the run was aborted. *)
LeftAsBefore ==
  phase # "idle" /\ FilesApart =>
    \A c \in left :
      \/ disk[FileOf[c]] = before[FileOf[c]]
      \/ /\ phase \in {"writing", "failed", "killed"}
         /\ disk[FileOf[c]] = Torn /\ IsNext(c) /\ c \notin src.failing

(* Codable.swift is only written where the helpers are kept apart. *)
CodableApart == phase \in {"after", "writingCodable", "endingCodable"} => output = "apart"

IInv == TypeOK /\ WrittenHold /\ LeftAsBefore /\ CodableApart

-----------------------------------------------------------------------------

LEMMA FilesArePaths ==
  /\ CodableFile \in Paths
  /\ \A c \in Crates : FileOf[c] \in Paths
BY DEF Paths

LEMMA SourceTypes ==
  ASSUME NEW s \in Sources
  PROVE  /\ s.crates \subseteq Crates
         /\ s.text \in [Crates -> Texts]
         /\ s.needs \in [Crates -> SUBSET Helpers]
BY WriterAssumption DEF WriterAssumption

(* A crate's module is a content of files. *)
LEMMA ModuleType ==
  ASSUME src \in Sources, NEW c \in Crates, NEW helpers \in SUBSET Helpers
  PROVE  Module(c, helpers) \in Modules
BY SourceTypes DEF Module, Modules

LEMMA Initially == Init => IInv
BY WriterAssumption
   DEF Init, IInv, TypeOK, WrittenHold, LeftAsBefore, CodableApart, Contents, Running, Over

(* Writing a file keeps the types. *)
LEMMA WriteType ==
  ASSUME TypeOK, NEW p \in Paths, NEW content \in Contents, Write(p, content)
  PROVE  /\ disk' \in [Paths -> Contents] /\ mtime' \in [Paths -> 0..run]
         /\ disk'[p] = content
         /\ \A q \in Paths \ {p} : disk'[q] = disk[q]
BY DEF TypeOK, Write

-----------------------------------------------------------------------------
(* The steps preserve the types *)

LEMMA TypeStep == TypeOK /\ [Next]_vars => TypeOK'
<1> SUFFICES ASSUME TypeOK, [Next]_vars PROVE TypeOK'
  OBVIOUS
<1> USE DEF TypeOK, Running, Over
<1>1. ASSUME NEW c \in Crates, GenerateFails(c) PROVE TypeOK'
  BY <1>1 DEF GenerateFails, Untouched
<1>2. ASSUME NEW c \in Crates, Generate(c) PROVE carried' \subseteq Helpers
  BY <1>2, SourceTypes DEF Generate, HelpersWith
<1>3. ASSUME NEW c \in Crates, KeepModule(c) PROVE TypeOK'
  BY <1>2, <1>3 DEF KeepModule, Generate, Untouched
<1>4. ASSUME NEW c \in Crates, CreateModule(c) PROVE TypeOK'
  <2>1. disk' \in [Paths -> Contents] /\ mtime' \in [Paths -> 0..run]
    BY <1>4, FilesArePaths, WriteType DEF CreateModule, Contents
  <2> QED
    BY <1>2, <1>4, <2>1 DEF CreateModule, Generate, IsNext
<1>5. ASSUME NEW c \in Crates, CreateFails(c) PROVE TypeOK'
  BY <1>2, <1>5 DEF CreateFails, Generate, Untouched
<1>6. ASSUME NEW c \in Crates, WriteModule(c) PROVE TypeOK'
  <2>1. Module(c, carried) \in Contents
    BY ModuleType DEF Contents
  <2>2. disk' \in [Paths -> Contents] /\ mtime' \in [Paths -> 0..run]
    BY <1>6, <2>1, FilesArePaths, WriteType DEF WriteModule
  <2> QED
    BY <1>6, <2>2 DEF WriteModule
<1>7. CASE WriteFails
  BY <1>7 DEF WriteFails, Untouched
<1>8. CASE EndModules
  BY <1>8 DEF EndModules, Untouched
<1>9. CASE CreateCodable
  <2>1. disk' \in [Paths -> Contents] /\ mtime' \in [Paths -> 0..run]
    BY <1>9, FilesArePaths, WriteType DEF CreateCodable, Contents, Untouched
  <2> QED
    BY <1>9, <2>1 DEF CreateCodable
<1>10. CASE CodableFails
  BY <1>10 DEF CodableFails, Untouched
<1>11. CASE WriteCodable
  <2>1. disk' \in [Paths -> Contents] /\ mtime' \in [Paths -> 0..run]
    BY <1>11, FilesArePaths, WriteType DEF WriteCodable, Contents
  <2> QED
    BY <1>11, <2>1 DEF WriteCodable
<1>12. CASE Kill
  BY <1>12 DEF Kill, Untouched
<1>16. CASE EndCodable
  <2>1. disk' \in [Paths -> Contents] /\ mtime' \in [Paths -> 0..run]
    BY <1>16, FilesArePaths, WriteType DEF EndCodable, Contents
  <2> QED
    BY <1>16, <2>1 DEF EndCodable
<1>13. CASE StartRun
  <2>1. run' \in 0..MaxRuns /\ mtime' \in [Paths -> 0..run']
    BY <1>13, WriterAssumption DEF StartRun, WriterAssumption
  <2> QED
    BY <1>13, <2>1, WriterAssumption DEF StartRun
<1>14. CASE Delete
  BY <1>14 DEF Delete, Contents
<1>15. CASE UNCHANGED vars
  BY <1>15 DEF vars
<1> QED
  BY <1>1, <1>3, <1>4, <1>5, <1>6, <1>7, <1>8, <1>9, <1>10, <1>11, <1>12, <1>13, <1>14, <1>15, <1>16
     DEF Next, Step

-----------------------------------------------------------------------------
(* The steps preserve what files hold *)

(* Steps that leave the disk alone, and stop the run or go on. *)
LEMMA UntouchedHolds ==
  ASSUME IInv, phase # "idle",
         UNCHANGED <<output, disk, src, left, before>>,
         phase = "writing" => phase' \in {"writing", "failed", "killed"},
         phase \in {"failed", "killed"} => phase' \in {"failed", "killed"}
  PROVE  WrittenHold' /\ LeftAsBefore'
BY DEF IInv, WrittenHold, LeftAsBefore, FilesApart, Holds, IsNext

LEMMA KeepModuleHolds ==
  ASSUME IInv, NEW c \in Crates, KeepModule(c)
  PROVE  WrittenHold' /\ LeftAsBefore'
<1>1. /\ phase = "modules" /\ phase' = "modules" /\ left' = left \ {c}
      /\ UNCHANGED <<output, disk, src, before>>
  BY DEF KeepModule, Generate, Untouched
<1>2. Holds(c)
  <2>1. carried' \subseteq Helpers
    BY SourceTypes DEF KeepModule, Generate, HelpersWith, IInv, TypeOK
  <2>2. disk[FileOf[c]] = Module(c, carried') /\ Module(c, carried') \in Modules
    BY <2>1, ModuleType DEF KeepModule, UpToDate, IInv, TypeOK
  <2>3. Module(c, carried').crate = c /\ Module(c, carried').text = src.text[c]
    BY DEF Module
  <2> QED
    BY <2>2, <2>3 DEF Holds
<1>3. WrittenHold'
  BY <1>1, <1>2 DEF IInv, WrittenHold, FilesApart, Holds
<1>4. LeftAsBefore'
  BY <1>1 DEF IInv, LeftAsBefore, FilesApart
<1> QED
  BY <1>3, <1>4

(* A module is written to a file that holds no other. *)
LEMMA OthersStay ==
  ASSUME IInv, NEW p \in Paths, NEW content \in Contents, Write(p, content),
         NEW c \in Crates, FileOf[c] # p
  PROVE  disk'[FileOf[c]] = disk[FileOf[c]]
BY WriteType, FilesArePaths DEF IInv

LEMMA CreateModuleHolds ==
  ASSUME IInv, NEW c \in Crates, CreateModule(c)
  PROVE  WrittenHold' /\ LeftAsBefore'
<1>1. /\ phase = "modules" /\ phase' = "writing" /\ IsNext(c) /\ c \notin src.failing
      /\ UNCHANGED <<output, src, left, before>> /\ Write(FileOf[c], Torn)
  BY DEF CreateModule, Generate
<1>2. FileOf[c] \in Paths /\ Torn \in Contents /\ src.crates \subseteq Crates
      /\ c \in left /\ left \subseteq src.crates
  BY <1>1, FilesArePaths, SourceTypes DEF Contents, IInv, TypeOK, IsNext
<1>3. disk'[FileOf[c]] = Torn
  BY <1>1, <1>2, WriteType DEF IInv
<1> SUFFICES ASSUME FilesApart PROVE WrittenHold' /\ LeftAsBefore'
  BY <1>1 DEF WrittenHold, LeftAsBefore, FilesApart
<1>4. \A d \in src.crates \ {c} : disk'[FileOf[d]] = disk[FileOf[d]]
  BY <1>1, <1>2, OthersStay DEF FilesApart
<1>5. WrittenHold'
  BY <1>1, <1>2, <1>4 DEF IInv, WrittenHold, Holds
<1>6. LeftAsBefore'
  BY <1>1, <1>2, <1>3, <1>4 DEF IInv, LeftAsBefore, IsNext
<1> QED
  BY <1>5, <1>6

LEMMA WriteModuleHolds ==
  ASSUME IInv, NEW c \in Crates, WriteModule(c)
  PROVE  WrittenHold' /\ LeftAsBefore'
<1>1. /\ phase = "writing" /\ phase' = "modules" /\ IsNext(c) /\ left' = left \ {c}
      /\ UNCHANGED <<output, src, carried, before>>
      /\ Write(FileOf[c], Module(c, carried))
  BY DEF WriteModule
<1>2. Module(c, carried) \in Modules /\ Module(c, carried) \in Contents
  BY ModuleType DEF IInv, TypeOK, Contents
<1>3. FileOf[c] \in Paths /\ src.crates \subseteq Crates
      /\ c \in left /\ left \subseteq src.crates
  BY <1>1, FilesArePaths, SourceTypes DEF IInv, TypeOK, IsNext
<1>4. Holds(c)'
  <2>1. disk'[FileOf[c]] = Module(c, carried)
    BY <1>1, <1>2, <1>3, WriteType DEF IInv
  <2>2. Module(c, carried).crate = c /\ Module(c, carried).text = src.text[c]
    BY DEF Module
  <2> QED
    BY <1>1, <1>2, <2>1, <2>2 DEF Holds
<1> SUFFICES ASSUME FilesApart PROVE WrittenHold' /\ LeftAsBefore'
  BY <1>1 DEF WrittenHold, LeftAsBefore, FilesApart
<1>5. \A d \in src.crates \ {c} : disk'[FileOf[d]] = disk[FileOf[d]]
  BY <1>1, <1>2, <1>3, OthersStay DEF FilesApart
<1>6. WrittenHold'
  BY <1>1, <1>3, <1>4, <1>5 DEF IInv, WrittenHold, Holds
<1>7. \A d \in left \ {c} : ~IsNext(d)
  BY <1>1, <1>3, SourceTypes, WriterAssumption DEF IsNext, WriterAssumption
<1>8. LeftAsBefore'
  BY <1>1, <1>3, <1>5, <1>7 DEF IInv, LeftAsBefore
<1> QED
  BY <1>6, <1>8

(* Codable.swift is no module's file. *)
LEMMA CodableHolds ==
  ASSUME IInv, CreateCodable \/ WriteCodable \/ EndCodable
  PROVE  WrittenHold' /\ LeftAsBefore'
<1>1. /\ phase \in {"after", "writingCodable", "endingCodable"} /\ left = {} /\ output = "apart"
      /\ phase' \in {"writingCodable", "endingCodable", "done"}
      /\ UNCHANGED <<output, src, left, before>>
  BY DEF CreateCodable, WriteCodable, EndCodable, IInv, TypeOK, CodableApart
<1>2. LeftAsBefore'
  BY <1>1 DEF LeftAsBefore
<1>3. WrittenHold'
  <2> SUFFICES ASSUME FilesApart PROVE \A c \in src.crates : Holds(c)'
    BY <1>1 DEF WrittenHold, FilesApart
  <2>1. src.crates \subseteq Crates /\ \A c \in src.crates : Holds(c)
    BY <1>1, SourceTypes DEF IInv, TypeOK, WrittenHold
  <2>2. \A c \in src.crates : disk'[FileOf[c]] = disk[FileOf[c]]
    <3>1. CASE UNCHANGED disk
      BY <3>1
    <3>2. CASE \E content \in Contents : Write(CodableFile, content)
      BY <1>1, <2>1, <3>2, FilesArePaths, OthersStay DEF FilesApart
    <3>3. \/ UNCHANGED disk
          \/ \E content \in Contents : Write(CodableFile, content)
      BY DEF CreateCodable, WriteCodable, EndCodable, Untouched, Contents
    <3> QED
      BY <3>1, <3>2, <3>3
  <2> QED
    BY <1>1, <2>1, <2>2 DEF Holds
<1> QED
  BY <1>2, <1>3

LEMMA StepHolds == IInv /\ [Next]_vars => IInv'
<1> SUFFICES ASSUME IInv, [Next]_vars PROVE IInv'
  OBVIOUS
<1>1. TypeOK'
  BY TypeStep DEF IInv
<1>2. CodableApart'
  BY DEF IInv, CodableApart, Next, Step, GenerateFails, KeepModule, CreateModule, CreateFails,
         Generate, WriteModule, WriteFails, EndModules, CreateCodable, CodableFails,
         WriteCodable, EndCodable, Kill, StartRun, Delete, vars
<1>3. WrittenHold' /\ LeftAsBefore'
  <2>1. CASE \E c \in Crates : KeepModule(c)
    BY <2>1, KeepModuleHolds
  <2>2. CASE \E c \in Crates : CreateModule(c)
    BY <2>2, CreateModuleHolds
  <2>3. CASE \E c \in Crates : WriteModule(c)
    BY <2>3, WriteModuleHolds
  <2>4. CASE CreateCodable \/ WriteCodable \/ EndCodable
    BY <2>4, CodableHolds
  <2>5. CASE \/ \E c \in Crates : GenerateFails(c) \/ CreateFails(c)
             \/ WriteFails \/ EndModules \/ CodableFails \/ Kill
    <3>1. /\ phase # "idle" /\ UNCHANGED <<output, disk, src, left, before>>
          /\ phase = "writing" => phase' \in {"failed", "killed"}
          /\ phase \notin {"failed", "killed"}
      BY <2>5 DEF GenerateFails, CreateFails, Generate, WriteFails, EndModules, CodableFails,
                  Kill, Running, Untouched
    <3> QED
      BY <3>1, UntouchedHolds
  <2>6. CASE StartRun
    BY <2>6 DEF StartRun, WrittenHold, LeftAsBefore
  <2>7. CASE Delete
    BY <2>7 DEF Delete, WrittenHold, LeftAsBefore
  <2>8. CASE UNCHANGED vars
    BY <2>8 DEF vars, IInv, WrittenHold, LeftAsBefore, FilesApart, Holds, IsNext
  <2> QED
    BY <2>1, <2>2, <2>3, <2>4, <2>5, <2>6, <2>7, <2>8 DEF Next, Step
<1> QED
  BY <1>1, <1>2, <1>3 DEF IInv

-----------------------------------------------------------------------------

(* The inductive invariant: modules behind the run hold what they should,
   and those before it what they held. *)
THEOREM Invariant == Spec => []IInv
BY Initially, StepHolds, PTL DEF Spec

(* The variables have their types and only a run in the middle of a write has
   a file open, for any crates and number of runs. *)
THEOREM TypeCorrect == Spec => []TypeOK
BY Invariant, PTL DEF IInv

(* After a run that succeeds every crate's module is on disk, whatever earlier
   runs, kills and deletions left there. *)
THEOREM DoneWritten == Spec => []DoneMeansWritten
<1>1. IInv => DoneMeansWritten
  BY DEF IInv, TypeOK, WrittenHold, DoneMeansWritten
<1> QED
  BY <1>1, Invariant, PTL

(* A run that stops early leaves new modules before, old ones after, and at
   most one torn file, which it was writing. *)
THEOREM AbortPrefix == Spec => []AbortLeavesPrefix
<1>1. IInv => AbortLeavesPrefix
  BY DEF IInv, WrittenHold, LeftAsBefore, AbortLeavesPrefix
<1> QED
  BY <1>1, Invariant, PTL

-----------------------------------------------------------------------------
(* Helpers and modification times *)

(* What the run is done with has its helpers, and the instance has them. *)
HelpersHold ==
  phase # "idle" =>
    /\ \A c \in src.crates \ left : src.needs[c] \subseteq carried
    /\ FilesApart /\ output # "apart" =>
         \A c \in src.crates \ left : src.needs[c] \subseteq disk[FileOf[c]].helpers
    /\ phase = "writing" => \A c \in left : IsNext(c) => src.needs[c] \subseteq carried

(* Helpers that are kept apart have been written when the run is done. *)
CodableHasHelpers ==
  phase = "done" /\ output = "apart" /\ carried # {} =>
    disk[CodableFile] \in {CodableString, CodableLine}

(* A file that this run has written differs from what was there, and one
   that it is writing will. *)
WrittenDiffer ==
  phase # "idle" /\ FilesApart =>
    /\ \A c \in src.crates \ left : mtime[FileOf[c]] = run => disk[FileOf[c]] # before[FileOf[c]]
    /\ \A c \in left : mtime[FileOf[c]] = run => /\ phase \in {"writing", "failed", "killed"}
                                                 /\ IsNext(c)
    /\ phase = "writing" => \A c \in left : IsNext(c) => Module(c, carried) # before[FileOf[c]]

SInv == IInv /\ HelpersHold /\ CodableHasHelpers /\ WrittenDiffer

LEMMA SInitially == Init => SInv
BY Initially DEF Init, SInv, HelpersHold, CodableHasHelpers, WrittenDiffer

(* Only one crate is the next one. *)
LEMMA NextIsOne ==
  ASSUME TypeOK, NEW c, NEW d, IsNext(c), IsNext(d)
  PROVE  c = d
BY SourceTypes, WriterAssumption DEF TypeOK, IsNext, WriterAssumption

(* A file that is written gets the time of the run, others keep theirs. *)
LEMMA WriteTimes ==
  ASSUME TypeOK, NEW p \in Paths, NEW content, Write(p, content)
  PROVE  /\ mtime'[p] = run
         /\ \A q \in Paths \ {p} : mtime'[q] = mtime[q] /\ disk'[q] = disk[q]
BY DEF TypeOK, Write

(* Steps that leave disk, helpers and crates alone, and stop the run or go on. *)
LEMMA UntouchedKeeps ==
  ASSUME SInv, phase # "idle",
         UNCHANGED <<output, disk, mtime, run, src, left, before>>,
         carried \subseteq carried',
         phase = "writing" => phase' \in {"writing", "failed", "killed"} /\ carried' = carried,
         phase \in {"failed", "killed"} => phase' \in {"failed", "killed"},
         phase' = "writing" => phase = "writing",
         phase' = "done" /\ output = "apart" => carried' = {}
  PROVE  HelpersHold' /\ CodableHasHelpers' /\ WrittenDiffer'
<1>1. FilesApart' = FilesApart /\ \A c : IsNext(c)' = IsNext(c)
  BY DEF FilesApart, IsNext
<1>2. HelpersHold'
  BY <1>1 DEF SInv, HelpersHold
<1>3. CodableHasHelpers'
  BY DEF CodableHasHelpers
<1>4. phase' = "writing" => \A c : Module(c, carried)' = Module(c, carried)
  BY DEF Module
<1>5. WrittenDiffer'
  BY <1>1, <1>4 DEF SInv, WrittenDiffer
<1> QED
  BY <1>2, <1>3, <1>5

LEMMA KeepModuleKeeps ==
  ASSUME SInv, NEW c \in Crates, KeepModule(c)
  PROVE  HelpersHold' /\ CodableHasHelpers' /\ WrittenDiffer'
<1>1. /\ phase = "modules" /\ phase' = "modules" /\ left' = left \ {c} /\ IsNext(c)
      /\ carried' = carried \cup src.needs[c]
      /\ disk[FileOf[c]] = Module(c, carried')
      /\ UNCHANGED <<output, disk, mtime, run, src, before>>
  BY DEF KeepModule, Generate, Untouched, HelpersWith, UpToDate
<1>2. /\ c \in left /\ FilesApart' = FilesApart
      /\ output # "apart" => disk[FileOf[c]].helpers = carried'
  BY <1>1 DEF IsNext, FilesApart, Module
<1>3. HelpersHold'
  BY <1>1, <1>2 DEF SInv, HelpersHold
<1>4. CodableHasHelpers'
  BY <1>1 DEF CodableHasHelpers
<1>5. FilesApart => mtime[FileOf[c]] # run
  BY <1>1, <1>2 DEF SInv, WrittenDiffer
<1>6. WrittenDiffer'
  BY <1>1, <1>2, <1>5 DEF SInv, WrittenDiffer
<1> QED
  BY <1>3, <1>4, <1>6

LEMMA CreateModuleKeeps ==
  ASSUME SInv, NEW c \in Crates, CreateModule(c)
  PROVE  HelpersHold' /\ CodableHasHelpers' /\ WrittenDiffer'
<1>1. /\ phase = "modules" /\ phase' = "writing" /\ IsNext(c)
      /\ carried' = carried \cup src.needs[c]
      /\ disk[FileOf[c]] # Module(c, carried')
      /\ UNCHANGED <<output, run, src, left, before>>
      /\ Write(FileOf[c], Torn)
  BY DEF CreateModule, Generate, HelpersWith, UpToDate
<1>2. /\ c \in left /\ left \subseteq src.crates /\ src.crates \subseteq Crates /\ TypeOK
      /\ FileOf[c] \in Paths
  BY <1>1, FilesArePaths, SourceTypes DEF SInv, IInv, TypeOK, IsNext
<1>3. FilesApart' = FilesApart /\ \A d : IsNext(d)' = IsNext(d)
  BY <1>1 DEF FilesApart, IsNext
<1>4. \A d : IsNext(d) => d = c
  BY <1>1, <1>2, NextIsOne
<1>5. ASSUME FilesApart, NEW d \in src.crates, d # c
      PROVE  mtime'[FileOf[d]] = mtime[FileOf[d]] /\ disk'[FileOf[d]] = disk[FileOf[d]]
  <2>1. FileOf[d] \in Paths \ {FileOf[c]}
    BY <1>2, <1>5, FilesArePaths DEF FilesApart
  <2> QED
    BY <1>1, <1>2, <2>1, WriteTimes
<1>6. HelpersHold'
  <2>1. \A d \in src.crates \ left : src.needs[d] \subseteq carried'
    BY <1>1 DEF SInv, HelpersHold
  <2>2. FilesApart /\ output # "apart" =>
          \A d \in src.crates \ left : src.needs[d] \subseteq disk'[FileOf[d]].helpers
    BY <1>1, <1>2, <1>5 DEF SInv, HelpersHold
  <2> QED
    BY <1>1, <1>3, <1>4, <2>1, <2>2 DEF HelpersHold
<1>7. CodableHasHelpers'
  BY <1>1 DEF CodableHasHelpers
<1>8. WrittenDiffer'
  <2> SUFFICES ASSUME FilesApart PROVE WrittenDiffer'
    BY <1>3 DEF WrittenDiffer
  <2>1. \A d \in src.crates \ left : mtime'[FileOf[d]] = run =>
                                       disk'[FileOf[d]] # before[FileOf[d]]
    BY <1>1, <1>2, <1>5 DEF SInv, WrittenDiffer
  <2>2. \A d \in left \ {c} : mtime'[FileOf[d]] # run
    BY <1>1, <1>2, <1>4, <1>5 DEF SInv, WrittenDiffer
  <2>3. disk[FileOf[c]] = before[FileOf[c]]
    BY <1>1, <1>2 DEF SInv, IInv, LeftAsBefore
  <2>4. Module(c, carried)' = Module(c, carried')
    BY <1>1 DEF Module
  <2> QED
    BY <1>1, <1>3, <1>4, <2>1, <2>2, <2>3, <2>4 DEF WrittenDiffer
<1> QED
  BY <1>6, <1>7, <1>8

LEMMA WriteModuleKeeps ==
  ASSUME SInv, NEW c \in Crates, WriteModule(c)
  PROVE  HelpersHold' /\ CodableHasHelpers' /\ WrittenDiffer'
<1>1. /\ phase = "writing" /\ phase' = "modules" /\ IsNext(c) /\ left' = left \ {c}
      /\ UNCHANGED <<output, run, src, carried, before>>
      /\ Write(FileOf[c], Module(c, carried))
  BY DEF WriteModule
<1>2. /\ c \in left /\ left \subseteq src.crates /\ src.crates \subseteq Crates /\ TypeOK
      /\ FileOf[c] \in Paths /\ FilesApart' = FilesApart
  BY <1>1, FilesArePaths, SourceTypes DEF SInv, IInv, TypeOK, IsNext, FilesApart
<1>3. disk'[FileOf[c]] = Module(c, carried)
  BY <1>1, <1>2 DEF Write, TypeOK
<1>4. ASSUME FilesApart, NEW d \in src.crates, d # c
      PROVE  mtime'[FileOf[d]] = mtime[FileOf[d]] /\ disk'[FileOf[d]] = disk[FileOf[d]]
  <2>1. FileOf[d] \in Paths \ {FileOf[c]}
    BY <1>2, <1>4, FilesArePaths DEF FilesApart
  <2> QED
    BY <1>1, <1>2, <2>1, WriteTimes
<1>5. src.needs[c] \subseteq carried
  BY <1>1, <1>2 DEF SInv, HelpersHold
<1>6. HelpersHold'
  <2>1. \A d \in src.crates \ left' : src.needs[d] \subseteq carried
    BY <1>1, <1>5 DEF SInv, HelpersHold
  <2>2. output # "apart" => Module(c, carried).helpers = carried
    BY DEF Module
  <2>3. FilesApart /\ output # "apart" =>
          \A d \in src.crates \ left' : src.needs[d] \subseteq disk'[FileOf[d]].helpers
    BY <1>1, <1>3, <1>4, <1>5, <2>2 DEF SInv, HelpersHold
  <2> QED
    BY <1>1, <1>2, <2>1, <2>3 DEF HelpersHold
<1>7. CodableHasHelpers'
  BY <1>1 DEF CodableHasHelpers
<1>8. WrittenDiffer'
  <2> SUFFICES ASSUME FilesApart PROVE WrittenDiffer'
    BY <1>2 DEF WrittenDiffer
  <2>1. \A d \in src.crates \ left' : mtime'[FileOf[d]] = run =>
                                        disk'[FileOf[d]] # before[FileOf[d]]
    BY <1>1, <1>2, <1>3, <1>4 DEF SInv, WrittenDiffer
  <2>2. \A d \in left : IsNext(d) => d = c
    BY <1>1, <1>2, NextIsOne
  <2>3. \A d \in left' : mtime'[FileOf[d]] # run
    BY <1>1, <1>2, <1>4, <2>2 DEF SInv, WrittenDiffer
  <2> QED
    BY <1>1, <2>1, <2>3 DEF WrittenDiffer
<1> QED
  BY <1>6, <1>7, <1>8

(* Codable.swift is found as it should be, but for the newline, or written. *)
LEMMA CodableKeeps ==
  ASSUME SInv, CreateCodable \/ WriteCodable \/ EndCodable
  PROVE  HelpersHold' /\ CodableHasHelpers' /\ WrittenDiffer'
<1>1. /\ phase \in {"after", "writingCodable", "endingCodable"} /\ left = {} /\ output = "apart"
      /\ phase' \in {"writingCodable", "endingCodable", "done"}
      /\ UNCHANGED <<output, run, src, left, carried, before>>
  BY DEF CreateCodable, WriteCodable, EndCodable, SInv, IInv, TypeOK, CodableApart
<1>2. TypeOK /\ src.crates \subseteq Crates /\ FilesApart' = FilesApart
  BY <1>1, SourceTypes DEF SInv, IInv, TypeOK, FilesApart
<1>3. \/ Untouched /\ (phase' = "done" => disk[CodableFile] = CodableString)
      \/ \E content : Write(CodableFile, content) /\ (phase' = "done" => content = CodableLine)
  BY DEF CreateCodable, WriteCodable, EndCodable
<1>5. phase' = "done" => disk'[CodableFile] \in {CodableString, CodableLine}
  BY <1>2, <1>3, FilesArePaths DEF Write, Untouched, TypeOK
<1>6. ASSUME FilesApart, NEW c \in src.crates
      PROVE  mtime'[FileOf[c]] = mtime[FileOf[c]] /\ disk'[FileOf[c]] = disk[FileOf[c]]
  <2>1. FileOf[c] \in Paths \ {CodableFile} /\ CodableFile \in Paths
    BY <1>1, <1>2, <1>6, FilesArePaths DEF FilesApart
  <2> QED
    BY <1>2, <1>3, <2>1, WriteTimes DEF Untouched
<1>7. HelpersHold'
  BY <1>1 DEF SInv, HelpersHold
<1>8. CodableHasHelpers'
  BY <1>5 DEF CodableHasHelpers
<1>9. WrittenDiffer'
  BY <1>1, <1>2, <1>6 DEF SInv, WrittenDiffer
<1> QED
  BY <1>7, <1>8, <1>9

LEMMA StepKeeps == SInv /\ [Next]_vars => SInv'
<1> SUFFICES ASSUME SInv, [Next]_vars PROVE HelpersHold' /\ CodableHasHelpers' /\ WrittenDiffer'
  BY StepHolds DEF SInv
<1>1. CASE \E c \in Crates : KeepModule(c)
  BY <1>1, KeepModuleKeeps
<1>2. CASE \E c \in Crates : CreateModule(c)
  BY <1>2, CreateModuleKeeps
<1>3. CASE \E c \in Crates : WriteModule(c)
  BY <1>3, WriteModuleKeeps
<1>4. CASE CreateCodable \/ WriteCodable \/ EndCodable
  BY <1>4, CodableKeeps
<1>5. CASE \/ \E c \in Crates : GenerateFails(c) \/ CreateFails(c)
           \/ WriteFails \/ EndModules \/ CodableFails \/ Kill
  <2>1. /\ phase # "idle" /\ UNCHANGED <<output, disk, mtime, run, src, left, before>>
        /\ carried \subseteq carried'
        /\ phase = "writing" => phase' \in {"failed", "killed"} /\ carried' = carried
        /\ phase \notin {"failed", "killed"} /\ phase' # "writing"
        /\ phase' = "done" /\ output = "apart" => carried' = {}
    BY <1>5 DEF GenerateFails, CreateFails, Generate, HelpersWith, WriteFails, EndModules,
                CodableFails, Kill, Running, Untouched
  <2> QED
    BY <2>1, UntouchedKeeps
<1>6. CASE StartRun
  <2>1. /\ phase' = "modules" /\ left' = src'.crates /\ run' = run + 1
        /\ UNCHANGED <<output, disk, mtime>> /\ src' \in Sources
    BY <1>6 DEF StartRun
  <2>2. ASSUME NEW p \in Paths PROVE mtime'[p] # run'
    <3>1. mtime[p] \in 0..run /\ run \in Nat
      BY <2>2, WriterAssumption DEF SInv, IInv, TypeOK, WriterAssumption
    <3> QED
      BY <2>1, <3>1
  <2>3. \A c \in src'.crates : FileOf[c] \in Paths
    BY <2>1, SourceTypes, FilesArePaths
  <2> QED
    BY <2>1, <2>2, <2>3 DEF HelpersHold, CodableHasHelpers, WrittenDiffer
<1>7. CASE Delete
  BY <1>7 DEF Delete, HelpersHold, CodableHasHelpers, WrittenDiffer
<1>8. CASE UNCHANGED vars
  BY <1>8 DEF vars, SInv, HelpersHold, CodableHasHelpers, WrittenDiffer, FilesApart, IsNext, Module
<1> QED
  BY <1>1, <1>2, <1>3, <1>4, <1>5, <1>6, <1>7, <1>8 DEF Next, Step

(* IInv with what it takes to say that of helpers and times. *)
THEOREM StrongInvariant == Spec => []SInv
BY SInitially, StepKeeps, PTL DEF Spec

(* After a run that succeeds the helpers of every crate are in its module, or
   in Codable.swift where they are kept apart, also if its module was not
   written because it had not changed. *)
THEOREM HelpersThere == Spec => []HelpersFound
<1>1. SInv => HelpersFound
  <2> SUFFICES ASSUME SInv, phase = "done", FilesApart, NEW c \in src.crates
               PROVE  IF output = "apart"
                      THEN src.needs[c] # {} => disk[CodableFile] \in {CodableString, CodableLine}
                      ELSE src.needs[c] \subseteq disk[FileOf[c]].helpers
    BY DEF HelpersFound
  <2>1. left = {} /\ src.needs[c] \subseteq carried
    BY DEF SInv, IInv, TypeOK, HelpersHold
  <2> QED
    BY <2>1 DEF SInv, HelpersHold, CodableHasHelpers
<1> QED
  BY <1>1, StrongInvariant, PTL

(* A run that succeeds has not touched a module that comes out as it was. *)
THEOREM UnchangedKept == Spec => []KeepsUnchanged
<1>1. SInv => KeepsUnchanged
  BY DEF SInv, IInv, TypeOK, WrittenDiffer, KeepsUnchanged
<1> QED
  BY <1>1, StrongInvariant, PTL
=============================================================================

------------------------------- MODULE Writer -------------------------------
(***************************************************************************)
(* write_generated of cli/src/writer.rs over a series of typeshare runs:   *)
(* each run generates the module of every crate in the order of the map,   *)
(* compares it with what is on disk and writes it if it differs; with      *)
(* Swift and an output folder it then writes Codable.swift.  Between runs  *)
(* sources change and generated files get deleted; a run may be killed, a  *)
(* write may fail and a module may fail to generate, by an error of its    *)
(* types' formatting or a todo!() for a const.                             *)
(*                                                                         *)
(* One Language instance generates all modules of a run. The helpers its   *)
(* types need (the JSON functions of TypeScript and Python, imports of Go  *)
(* and Python, Swift's CodableVoid) add up in it, and every backend but    *)
(* Swift with a folder writes those it has so far into each module.        *)
(* A module of generated code is never empty: it has items.                *)
(***************************************************************************)
EXTENDS Naturals

CONSTANTS Crates,
          Before,      \* order of the BTreeMap, as a set of pairs
          FileOf,      \* output file of a crate
          CodableFile, \* Codable.swift
          Texts,       \* what a crate's module may be but for helpers
          Helpers,
          Sources,     \* the parsed data a run may start from
          MaxRuns,
          Absent, Torn,      \* no file; a file created but not written
          CodableString,     \* get_codable_contents()
          CodableLine        \* that, and the newline of writeln!

Paths == {FileOf[c] : c \in Crates} \cup {CodableFile}
Modules == [crate : Crates, text : Texts, helpers : SUBSET Helpers]

ASSUME WriterAssumption ==
  /\ Before \subseteq Crates \X Crates
  /\ \A c, d \in Crates : c = d \/ <<c, d>> \in Before \/ <<d, c>> \in Before
  /\ \A c, d \in Crates : <<c, d>> \in Before => <<d, c>> \notin Before
  /\ \A c, d, e \in Crates : <<c, d>> \in Before /\ <<d, e>> \in Before => <<c, e>> \in Before
  /\ Sources \subseteq [crates : SUBSET Crates, text : [Crates -> Texts],
                        needs : [Crates -> SUBSET Helpers], failing : SUBSET Crates]
  /\ MaxRuns \in Nat
  /\ Torn \notin Modules \cup {Absent, CodableString, CodableLine}
  /\ Absent \notin Modules \cup {CodableString, CodableLine}
  /\ CodableString # CodableLine
  /\ CodableString \notin Modules /\ CodableLine \notin Modules

VARIABLES
  output,    \* "file", or "folder" with the helpers inside modules or "apart"
  disk,      \* path -> what is there
  mtime,     \* path -> the run that last wrote it
  run,       \* number of the run
  src,       \* the parsed data of the run
  phase,     \* where the run is
  left,      \* crates whose modules the run has not done with
  carried,   \* helpers in the state of the Language instance
  before     \* disk at the start of the run

vars == <<output, disk, mtime, run, src, phase, left, carried, before>>

Contents == Modules \cup {Absent, Torn, CodableString, CodableLine}
Running == {"modules", "writing", "after", "writingCodable", "endingCodable"}
Over == {"idle", "done", "failed", "killed"}

TypeOK ==
  /\ output \in {"file", "folder", "apart"}
  /\ disk \in [Paths -> Contents] /\ before \in [Paths -> Contents]
  /\ mtime \in [Paths -> 0..run] /\ run \in 0..MaxRuns
  /\ src \in Sources
  /\ phase \in Running \cup Over
  /\ left \subseteq src.crates
  /\ phase = "writing" => left # {}
  /\ phase \in {"after", "writingCodable", "endingCodable", "done"} => left = {}
  /\ carried \subseteq Helpers

Init ==
  /\ output \in {"file", "folder", "apart"}
  /\ disk = [p \in Paths |-> Absent] /\ before = disk
  /\ mtime = [p \in Paths |-> 0] /\ run = 0
  /\ src \in Sources
  /\ phase = "idle" /\ left = {} /\ carried = {}

-----------------------------------------------------------------------------
(* Between runs *)

(* typeshare is started, on whatever the sources are now, with a new Language
   instance. With an output file everything is one crate. *)
StartRun ==
  /\ phase \in Over /\ run < MaxRuns
  /\ run' = run + 1
  /\ src' \in {s \in Sources : output = "file" =>
                                 \A c, d \in s.crates : c = d}
  /\ left' = src'.crates
  /\ phase' = "modules" /\ carried' = {} /\ before' = disk
  /\ UNCHANGED <<output, disk, mtime>>

(* Someone deletes a generated file. *)
Delete ==
  /\ phase \in Over /\ run < MaxRuns
  /\ \E p \in Paths : disk[p] # Absent /\ disk' = [disk EXCEPT ![p] = Absent]
  /\ phase' = "idle"
  /\ UNCHANGED <<output, mtime, run, src, left, carried, before>>

-----------------------------------------------------------------------------
(* write_multiple_files and write_single_file *)

Write(p, content) ==
  /\ disk' = [disk EXCEPT ![p] = content]
  /\ mtime' = [mtime EXCEPT ![p] = run]

Untouched == UNCHANGED <<disk, mtime>>

IsNext(c) == c \in left /\ \A d \in left \ {c} : <<c, d>> \in Before

(* The instance forgets the helpers of the module before. *)
HelpersOf(c) == src.needs[c]

(* The helpers the instance has after generating c's module. *)
HelpersWith(c) == carried \cup src.needs[c]

(* What is generated for c when the instance has the given helpers. *)
Module(c, helpers) ==
  [crate |-> c, text |-> src.text[c], helpers |-> IF output = "apart" THEN {} ELSE helpers]

(* Every module is written anew. *)
NeverUpToDate(p, content) == FALSE

(* A file that is there is good enough. *)
IsPresent(p, content) == disk[p] # Absent

(* check_write_file finds the contents in place. *)
UpToDate(p, content) == disk[p] = content

(* The output file is opened before its module is generated. *)
GenerateIntoFile(c) ==
  /\ phase = "modules" /\ IsNext(c) /\ c \in src.failing
  /\ Write(FileOf[c], Torn)
  /\ phase' = "failed"
  /\ UNCHANGED <<output, run, src, left, carried, before>>

(* generate_types returns an error or panics, and nothing else is done. *)
GenerateFails(c) ==
  /\ phase = "modules" /\ IsNext(c) /\ c \in src.failing
  /\ phase' = "failed"
  /\ Untouched
  /\ UNCHANGED <<output, run, src, left, carried, before>>

Generate(c) ==
  /\ phase = "modules" /\ IsNext(c) /\ c \notin src.failing
  /\ carried' = HelpersWith(c)
  /\ UNCHANGED <<output, run, src, before>>

(* The file has these contents already. *)
KeepModule(c) ==
  /\ Generate(c) /\ UpToDate(FileOf[c], Module(c, carried'))
  /\ left' = left \ {c}
  /\ Untouched /\ UNCHANGED phase

(* It does not: fs::write first creates or truncates the file. *)
CreateModule(c) ==
  /\ Generate(c) /\ ~UpToDate(FileOf[c], Module(c, carried'))
  /\ Write(FileOf[c], Torn)
  /\ phase' = "writing"
  /\ UNCHANGED left

(* Creating the directory or the file fails. *)
CreateFails(c) ==
  /\ Generate(c) /\ ~UpToDate(FileOf[c], Module(c, carried'))
  /\ phase' = "failed"
  /\ Untouched /\ UNCHANGED left

WriteModule(c) ==
  /\ phase = "writing" /\ IsNext(c)
  /\ Write(FileOf[c], Module(c, carried))
  /\ phase' = "modules" /\ left' = left \ {c}
  /\ UNCHANGED <<output, run, src, carried, before>>

(* A write ends early with an error. *)
WriteFails ==
  /\ phase \in {"writing", "writingCodable", "endingCodable"}
  /\ phase' = "failed"
  /\ Untouched
  /\ UNCHANGED <<output, run, src, left, carried, before>>

(* The run goes on after some module. *)
EndModulesEarly ==
  /\ phase = "modules"
  /\ phase' = "done"
  /\ Untouched
  /\ UNCHANGED <<output, run, src, left, carried, before>>

(* All modules are done. With an output file there must have been one. *)
EndModules ==
  /\ phase = "modules" /\ left = {}
  /\ phase' = IF output = "file" /\ src.crates = {} THEN "failed"
              ELSE IF output = "apart" /\ carried # {} THEN "after"
              ELSE "done"
  /\ Untouched
  /\ UNCHANGED <<output, run, src, left, carried, before>>

-----------------------------------------------------------------------------
(* Swift's post_generation: write_codable_file *)

(* The file is compared with get_codable_contents(), and created unless it
   has just that, as after a run that stopped before the newline. *)
CreateCodable ==
  /\ phase = "after"
  /\ IF disk[CodableFile] = CodableString
     THEN phase' = "done" /\ Untouched
     ELSE phase' = "writingCodable" /\ Write(CodableFile, Torn)
  /\ UNCHANGED <<output, run, src, left, carried, before>>

CodableFails ==
  /\ phase = "after" /\ phase' = "failed"
  /\ Untouched
  /\ UNCHANGED <<output, run, src, left, carried, before>>

(* writeln! of get_codable_contents() to a file that is not buffered: one
   write for the text and one for the newline. *)
WriteCodable ==
  /\ phase = "writingCodable" /\ phase' = "endingCodable"
  /\ Write(CodableFile, CodableString)
  /\ UNCHANGED <<output, run, src, left, carried, before>>

EndCodable ==
  /\ phase = "endingCodable" /\ phase' = "done"
  /\ Write(CodableFile, CodableLine)
  /\ UNCHANGED <<output, run, src, left, carried, before>>

(* The process is killed. *)
Kill ==
  /\ phase \in Running /\ phase' = "killed"
  /\ Untouched
  /\ UNCHANGED <<output, run, src, left, carried, before>>

-----------------------------------------------------------------------------

Step ==
  \/ \E c \in Crates : \/ GenerateFails(c) \/ KeepModule(c) \/ CreateModule(c)
                       \/ CreateFails(c) \/ WriteModule(c)
  \/ WriteFails \/ EndModules \/ CreateCodable \/ CodableFails \/ WriteCodable
  \/ EndCodable

Next == Step \/ Kill \/ StartRun \/ Delete

Spec == Init /\ [][Next]_vars

-----------------------------------------------------------------------------
(* Properties *)

(* No two modules of the run share a file, nor one Codable.swift. *)
FilesApart ==
  /\ \A c, d \in src.crates : FileOf[c] = FileOf[d] => c = d
  /\ output = "apart" => \A c \in src.crates : FileOf[c] # CodableFile

Holds(c) ==
  LET there == disk[FileOf[c]]
  IN  there \in Modules /\ there.crate = c /\ there.text = src.text[c]

(* A run that succeeds leaves the module of every crate on disk, of these
   sources, whatever earlier runs left there: older modules, torn ones of a
   run that was killed, none. *)
DoneMeansWritten == phase = "done" /\ FilesApart => \A c \in src.crates : Holds(c)

(* What a module's types need is in the module, or in Codable.swift if the
   backend keeps it there, also when the module itself was not written. *)
HelpersFound ==
  phase = "done" /\ FilesApart =>
    \A c \in src.crates :
      IF output = "apart"
      THEN src.needs[c] # {} => disk[CodableFile] \in {CodableString, CodableLine}
      ELSE src.needs[c] \subseteq disk[FileOf[c]].helpers

(* A module that comes out as it was keeps its modification time, on which
   tools decide what to rebuild. *)
KeepsUnchanged ==
  phase = "done" /\ FilesApart =>
    \A c \in src.crates : disk[FileOf[c]] = before[FileOf[c]] => mtime[FileOf[c]] # run

(* A run that does not succeed has written the modules before the one it
   stopped at and none after it. That one is torn only if it was being
   written: a module that cannot be generated stays as it was. *)
AbortLeavesPrefix ==
  phase \in {"failed", "killed"} /\ FilesApart =>
    /\ \A c \in src.crates \ left : Holds(c)
    /\ \A c \in left :
         \/ disk[FileOf[c]] = before[FileOf[c]]
         \/ disk[FileOf[c]] = Torn /\ IsNext(c) /\ c \notin src.failing

(* "Don't recreate `Codable.swift` when the contents have not changed"
   (CHANGELOG.md line 49). *)
CodableKept ==
  phase = "done" /\ FilesApart /\ disk[CodableFile] = before[CodableFile]
    => mtime[CodableFile] # run
=============================================================================

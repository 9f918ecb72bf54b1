---------------------------- MODULE ParallelParse ----------------------------
(***************************************************************************)
(* parallel_parse of cli/src/parse.rs: the walker threads of               *)
(* ignore::WalkParallel parse directory entries and send one result per    *)
(* entry into a bounded crossbeam channel; a collector thread merges what  *)
(* it receives by crate and stops at the first error; the calling thread   *)
(* waits for the walk, drops its sender and joins the collector.           *)
(*                                                                         *)
(* The walk itself (which entry a thread takes, when threads stop) is the  *)
(* ignore crate's, modelled from how parallel_parse uses it: an entry      *)
(* becomes available when its directory was visited, any thread may take   *)
(* it, WalkState::Quit raises a flag after which no thread takes another,  *)
(* and otherwise threads stop when all of them are idle with nothing left. *)
(* A thread that panicked is never idle: the others keep waiting for work  *)
(* it might hand out, until the flag is raised.                            *)
(***************************************************************************)
EXTENDS Naturals, Sequences, Functions

CONSTANTS Walkers,      \* walker threads
          Entries,      \* directory entries: directories and files
          Root,         \* stands for the list of directories to walk
          Parent,       \* the directory an entry is in, or Root
          Crates,       \* crate names; just one in single-file mode
          CrateOf,      \* crate of a file (find_crate_name of its path)
          Capacity,     \* bound of the channel (100 in the code)
          NoEntry

(* Ok(None), Ok(Some), Err, or a panic of the parser itself: an `expect` or
   `unwrap` of core/src/parser.rs, rust_types.rs or visitors.rs. *)
Outcomes == {"skip", "data", "err", "panic"}

ASSUME ParallelParseAssumption ==
  /\ Walkers # {}
  /\ Root \notin Entries /\ NoEntry \notin Entries
  /\ Parent \in [Entries -> Entries \cup {Root}]
  \* a directory tree has no cycles
  /\ \A S \in SUBSET Entries : S # {} => \E e \in S : Parent[e] \notin S
  /\ CrateOf \in [Entries -> Crates]
  /\ Capacity \in Nat \ {0}

VARIABLES
  outcome,    \* what parse_dir_entry does with an entry
  unvisited,  \* entries no walker has taken yet
  quit,       \* the walk's quit flag
  pc,         \* where each walker thread is
  work,       \* the entry each walker thread is busy with, or panicked on
  chan,       \* the channel: results sent and not yet received
  collector,  \* where the collector thread is
  data,       \* the collector's crate_parsed_data: crate -> files in merge order
  error,      \* the entry whose error made the collector return
  main        \* where the calling thread is

vars == <<outcome, unvisited, quit, pc, work, chan, collector, data, error, main>>

PCs == {"idle", "visiting", "sending", "quitting", "done", "panicked"}

(* The type invariant: a walker that is busy, or that panicked, has the entry
   it worked on, and the channel never holds more than its capacity. *)
TypeOK ==
  /\ outcome \in [Entries -> Outcomes]
  /\ unvisited \in SUBSET Entries
  /\ quit \in BOOLEAN
  /\ pc \in [Walkers -> PCs]
  /\ work \in [Walkers -> Entries \cup {NoEntry}]
  /\ \A w \in Walkers : pc[w] \in {"visiting", "sending", "panicked"} <=> work[w] \in Entries
  /\ chan \in Seq(Entries) /\ Len(chan) <= Capacity
  /\ collector \in {"collecting", "failing", "failed", "ok"}
  /\ data \in [Crates -> Seq(Entries)]
  /\ error \in Entries \cup {NoEntry}
  /\ main \in {"walking", "joining", "ok", "err", "panicked"}

(* Directories yield Ok(None); a file has any of the outcomes. *)
Init ==
  /\ outcome \in {o \in [Entries -> Outcomes] :
                    \A e \in Entries : Parent[e] # Root => o[Parent[e]] = "skip"}
  /\ unvisited = Entries
  /\ quit = FALSE
  /\ pc = [w \in Walkers |-> "idle"]
  /\ work = [w \in Walkers |-> NoEntry]
  /\ chan = <<>>
  /\ collector = "collecting"
  /\ data = [c \in Crates |-> <<>>]
  /\ error = NoEntry
  /\ main = "walking"

-----------------------------------------------------------------------------
(* Walker threads *)

Goto(w, label) == pc' = [pc EXCEPT ![w] = label]

(* Entries whose directory was visited to the end. *)
Available ==
  {e \in unvisited : \/ Parent[e] = Root
                     \/ /\ Parent[e] \notin unvisited
                        /\ \A w \in Walkers : work[w] # Parent[e]}

(* Someone else keeps the receiver alive. *)
ReceiverAlive == TRUE

(* The collector owns the only receiver until it returns. *)
Connected == collector \in {"collecting", "failing"}

(* The walk hands a thread the next entry. *)
Take(w) ==
  /\ pc[w] = "idle" /\ ~quit
  /\ \E e \in Available :
       /\ work' = [work EXCEPT ![w] = e]
       /\ unvisited' = unvisited \ {e}
  /\ Goto(w, "visiting")
  /\ UNCHANGED <<outcome, quit, chan, collector, data, error, main>>

(* The closure parses the entry. Ok(None) has nothing to send. A parser that
   panics takes the thread with it: nothing is sent, and the quit flag is not
   raised. *)
Visit(w) ==
  /\ pc[w] = "visiting"
  /\ \/ /\ outcome[work[w]] = "skip"
        /\ Goto(w, "idle")
        /\ work' = [work EXCEPT ![w] = NoEntry]
     \/ /\ outcome[work[w]] \in {"data", "err"}
        /\ Goto(w, "sending")
        /\ UNCHANGED work
     \/ /\ outcome[work[w]] = "panic"
        /\ Goto(w, "panicked")
        /\ UNCHANGED work
  /\ UNCHANGED <<outcome, unvisited, quit, chan, collector, data, error, main>>

(* The result goes into the channel; an error is followed by WalkState::Quit. *)
Deliver(w) ==
  /\ pc[w] = "sending" /\ Connected
  /\ chan' = Append(chan, work[w])
  /\ work' = [work EXCEPT ![w] = NoEntry]
  /\ Goto(w, IF outcome[work[w]] = "err" THEN "quitting" ELSE "idle")
  /\ UNCHANGED <<outcome, unvisited, quit, collector, data, error, main>>

(* tx.send: blocks while the channel is full. *)
Send(w) == Len(chan) < Capacity /\ Deliver(w)

(* tx.send fails once the receiver is gone, and unwrap panics. *)
SendUnwrap(w) ==
  /\ pc[w] = "sending" /\ ~Connected
  /\ Goto(w, "panicked")
  /\ UNCHANGED <<outcome, unvisited, quit, work, chan, collector, data, error, main>>

(* The closure returned WalkState::Quit. *)
Quit(w) ==
  /\ pc[w] = "quitting"
  /\ quit' = TRUE
  /\ Goto(w, "idle")
  /\ UNCHANGED <<outcome, unvisited, work, chan, collector, data, error, main>>

(* A thread leaves the walk when told to quit, or when every thread is out
   of work. *)
Exit(w) ==
  /\ pc[w] = "idle"
  /\ \/ quit
     \/ Available = {} /\ \A v \in Walkers : pc[v] \in {"idle", "done"}
  /\ Goto(w, "done")
  /\ UNCHANGED <<outcome, unvisited, quit, work, chan, collector, data, error, main>>

Walker(w) == Take(w) \/ Visit(w) \/ Send(w) \/ SendUnwrap(w) \/ Quit(w) \/ Exit(w)

-----------------------------------------------------------------------------
(* The collector thread *)

(* The data of a file replaces what its crate had. *)
MergeReplacing(merged, e) == <<e>>

(* AddAssign of ParsedData: the items of the file follow those merged before. *)
Merge(merged, e) == Append(merged, e)

ReceiveHead ==
  /\ collector = "collecting" /\ chan # <<>>
  /\ chan' = Tail(chan)
  /\ UNCHANGED <<outcome, unvisited, quit, pc, work, main>>

ReceiveData ==
  /\ ReceiveHead
  /\ LET e == Head(chan) IN
       /\ outcome[e] = "data"
       /\ data' = [data EXCEPT ![CrateOf[e]] = Merge(@, e)]
  /\ UNCHANGED <<collector, error>>

(* An error is passed over. *)
IgnoreError ==
  /\ ReceiveHead
  /\ outcome[Head(chan)] = "err"
  /\ UNCHANGED <<collector, data, error>>

(* `result?`: the collector returns the error, and what it merged is gone
   with it. *)
ReceiveError ==
  /\ ReceiveHead
  /\ outcome[Head(chan)] = "err"
  /\ collector' = "failing" /\ error' = Head(chan)
  /\ UNCHANGED data

(* Returning drops the receiver, and with it what is still in the channel. *)
DropReceiver ==
  /\ collector = "failing" /\ collector' = "failed"
  /\ chan' = <<>>
  /\ UNCHANGED <<outcome, unvisited, quit, pc, work, data, error, main>>

(* The loop ends as soon as the channel is empty (try_iter for iter). *)
DrainTried ==
  /\ collector = "collecting" /\ chan = <<>>
  /\ collector' = "ok"
  /\ UNCHANGED <<outcome, unvisited, quit, pc, work, chan, data, error, main>>

(* The loop ends when the channel is empty and every sender was dropped:
   the walkers' clones with the walk, the caller's by drop(tx). *)
Drained ==
  /\ collector = "collecting" /\ chan = <<>>
  /\ main # "walking"
  /\ collector' = "ok"
  /\ UNCHANGED <<outcome, unvisited, quit, pc, work, chan, data, error, main>>

Collector == ReceiveData \/ ReceiveError \/ DropReceiver \/ Drained

-----------------------------------------------------------------------------
(* The calling thread *)

(* The walk joins all its threads, then propagates a panic of one of them;
   otherwise drop(tx) follows. *)
FinishWalk ==
  /\ main = "walking"
  /\ \A w \in Walkers : pc[w] \in {"done", "panicked"}
  /\ main' = IF \E w \in Walkers : pc[w] = "panicked" THEN "panicked" ELSE "joining"
  /\ UNCHANGED <<outcome, unvisited, quit, pc, work, chan, collector, data, error>>

(* collector_thread.join().unwrap() *)
Join ==
  /\ main = "joining"
  /\ \/ collector = "ok" /\ main' = "ok"
     \/ collector = "failed" /\ main' = "err"
  /\ UNCHANGED <<outcome, unvisited, quit, pc, work, chan, collector, data, error>>

Main == FinishWalk \/ Join

Returned == main \in {"ok", "err", "panicked"}

(* The call hangs: a walker panicked without an error to raise the quit flag,
   the walkers left poll for work that nobody will hand out, the collector
   waits for their senders and the caller for the walkers. *)
Hangs ==
  /\ \E w \in Walkers : pc[w] = "panicked"
  /\ \E w \in Walkers : pc[w] = "idle"
  /\ \A w \in Walkers : pc[w] \in {"idle", "panicked"}
  /\ ~quit /\ Available = {}
  /\ chan = <<>> /\ collector = "collecting"

(* The call is over and nothing more is asked of its threads, or it hangs and
   its threads poll and wait for ever. *)
Stopped == (Returned \/ Hangs) /\ UNCHANGED vars

Next == (\E w \in Walkers : Walker(w)) \/ Collector \/ Main \/ Stopped

Spec == Init /\ [][Next]_vars

(* Every thread is scheduled by the operating system until it ends. *)
Fairness == /\ \A w \in Walkers : WF_vars(Walker(w))
            /\ WF_vars(Collector)
            /\ WF_vars(Main)

FairSpec == Spec /\ Fairness

-----------------------------------------------------------------------------
(* Properties *)

Merged(c) == Range(data[c])

(* parallel_parse returns Ok only if nothing failed or panicked anywhere, and
   then every file that has data was merged exactly once, into its own crate:
   no result is lost between a walker that ends and the collector that stops,
   and none is merged twice. *)
OkMeansAllMerged ==
  main = "ok" =>
    /\ \A e \in Entries : outcome[e] \notin {"err", "panic"}
    /\ \A c \in Crates :
         /\ IsInjective(data[c])
         /\ Merged(c) = {e \in Entries : outcome[e] = "data" /\ CrateOf[e] = c}

(* A walker whose entry the parser survived panics only when the collector
   already returned the error of another entry, which was in the channel
   before: the threads' speeds alone never make the program panic, and the
   result they lose is never the first error. *)
PanicOnlyMasksAnError ==
  \A w \in Walkers :
    pc[w] = "panicked" /\ outcome[work[w]] # "panic" =>
      /\ collector = "failed"
      /\ error \in Entries \ {work[w]} /\ outcome[error] = "err"

(* The call returns, unwinds, or hangs; it does not hang when the parser
   panics on no entry, and not when the walk was told to quit, whatever
   panicked: apart from a parser's panic no thread waits for ever on the full
   channel, on work that a stopped thread will never hand out, or on the
   collector. *)
CallEnds ==
  /\ <>(Returned \/ Hangs)
  /\ (\A e \in Entries : outcome[e] # "panic") => <>Returned
  /\ quit ~> Returned

(* What parallel_parse promises, whatever the interleaving. *)
Promise == INSTANCE ParseDirs WITH
  verdict  <- IF Returned THEN main ELSE "running",
  crates   <- IF main = "ok" THEN data ELSE [c \in Crates |-> <<>>],
  reported <- IF main = "err" THEN error ELSE NoEntry

ImplementsParseDirs == Promise!Spec

(* The `unwrap` of each send (parse.rs lines 160 and 165) asserts that the
   receiver outlives the senders: a walker panics nowhere but in the parser. *)
SendNeverFails ==
  \A w \in Walkers : pc[w] = "panicked" => outcome[work[w]] = "panic"
=============================================================================

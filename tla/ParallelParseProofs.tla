------------------------- MODULE ParallelParseProofs -------------------------
(***************************************************************************)
(* Theorems about ParallelParse, for any number of walkers, any directory  *)
(* tree and any channel capacity.                                          *)
(***************************************************************************)
EXTENDS ParallelParse, TLAPS

-----------------------------------------------------------------------------
(* The inductive invariant *)

(* Only results are sent. *)
HoldsWork == \A w \in Walkers : pc[w] = "sending" => outcome[work[w]] \in {"data", "err"}

(* An entry is in one place only: not visited, with one walker, once in the
   channel, or once in its crate's data. *)
WorkIsOwn ==
  \A w \in Walkers : work[w] # NoEntry =>
    /\ work[w] \notin unvisited
    /\ \A v \in Walkers : work[v] = work[w] => v = w

ChanIsOwn ==
  \A i \in 1..Len(chan) :
    /\ outcome[chan[i]] \in {"data", "err"}
    /\ chan[i] \notin unvisited
    /\ \A w \in Walkers : work[w] # chan[i]
    /\ \A j \in 1..Len(chan) : chan[j] = chan[i] => j = i

DataIsOwn ==
  \A c \in Crates : \A i \in 1..Len(data[c]) :
    LET e == data[c][i] IN
      /\ outcome[e] = "data" /\ CrateOf[e] = c
      /\ e \notin unvisited
      /\ \A w \in Walkers : work[w] # e
      /\ \A j \in 1..Len(chan) : chan[j] # e
      /\ \A j \in 1..Len(data[c]) : data[c][j] = e => j = i

InWork(e) == \E w \in Walkers : work[w] = e
InChan(e) == \E i \in 1..Len(chan) : chan[i] = e
InData(e) == \E i \in 1..Len(data[CrateOf[e]]) : data[CrateOf[e]][i] = e

(* While the collector has met no error nothing is lost. *)
NothingLost ==
  collector \in {"collecting", "ok"} =>
    \A e \in Entries :
      outcome[e] # "skip" =>
        \/ e \in unvisited \/ InWork(e) \/ InChan(e)
        \/ outcome[e] = "data" /\ InData(e)

(* The walk is told to quit only after an error went into the channel. *)
QuitHasCause ==
  quit \/ (\E w \in Walkers : pc[w] = "quitting") =>
    \/ collector \in {"failing", "failed"}
    \/ \E i \in 1..Len(chan) : outcome[chan[i]] = "err"

(* Walkers that leave without being told to leave nothing behind. *)
DoneHasCause ==
  (\E w \in Walkers : pc[w] = "done") /\ ~quit =>
    unvisited = {} /\ \A v \in Walkers : pc[v] \in {"idle", "done"}

(* A walker panics in the parser, or sending a result after the collector
   returned an error. *)
PanicHasCause ==
  \A w \in Walkers : pc[w] = "panicked" =>
    \/ outcome[work[w]] = "panic"
    \/ collector = "failed" /\ outcome[work[w]] \in {"data", "err"}

(* The error the collector returns was received, so it is nowhere else. *)
ErrorIsReal ==
  collector \in {"failing", "failed"} =>
    /\ error \in Entries /\ outcome[error] = "err"
    /\ error \notin unvisited
    /\ \A w \in Walkers : work[w] # error
    /\ \A i \in 1..Len(chan) : chan[i] # error

MainWaits ==
  /\ main # "walking" => \A w \in Walkers : pc[w] \in {"done", "panicked"}
  /\ main = "panicked" => \E w \in Walkers : pc[w] = "panicked"
  /\ main \in {"joining", "ok", "err"} => \A w \in Walkers : pc[w] = "done"
  /\ main = "ok" => collector = "ok"
  /\ main = "err" => collector = "failed"
  /\ collector = "ok" => main # "walking" /\ chan = <<>>

IInv ==
  /\ TypeOK
  /\ HoldsWork /\ WorkIsOwn /\ ChanIsOwn /\ DataIsOwn
  /\ NothingLost
  /\ QuitHasCause /\ DoneHasCause /\ PanicHasCause /\ ErrorIsReal /\ MainWaits

-----------------------------------------------------------------------------
LEMMA TypeInit == Init => TypeOK
<1> SUFFICES ASSUME Init PROVE TypeOK
  OBVIOUS
<1>1. outcome \in [Entries -> Outcomes]
  BY DEF Init
<1>2. /\ chan \in Seq(Entries) /\ Len(chan) <= Capacity
      /\ data \in [Crates -> Seq(Entries)]
  BY ParallelParseAssumption DEF Init
<1>3. QED
  BY <1>1, <1>2, ParallelParseAssumption DEF Init, TypeOK, PCs

LEMMA TypeStep == TypeOK /\ [Next]_vars => TypeOK'
<1> SUFFICES ASSUME TypeOK, [Next]_vars PROVE TypeOK'
  OBVIOUS
<1> USE DEF TypeOK, PCs, Goto
<1>1. ASSUME NEW w \in Walkers, Walker(w) PROVE TypeOK'
  <2>1. CASE Take(w)
    BY <2>1 DEF Take, Available
  <2>2. CASE Visit(w)
    <3>1. CASE outcome[work[w]] = "skip"
      <4>1. /\ pc' = [pc EXCEPT ![w] = "idle"] /\ work' = [work EXCEPT ![w] = NoEntry]
            /\ UNCHANGED <<outcome, unvisited, quit, chan, collector, data, error, main>>
        BY <2>2, <3>1 DEF Visit
      <4>2. QED
        BY <4>1, ParallelParseAssumption
    <3>2. CASE outcome[work[w]] \in {"data", "err"}
      BY <2>2, <3>2 DEF Visit
    <3>3. CASE outcome[work[w]] = "panic"
      BY <2>2, <3>3 DEF Visit
    <3>4. QED
      BY <2>2, <3>1, <3>2, <3>3 DEF Visit
  <2>3. CASE Send(w)
    <3>1. work[w] \in Entries
      BY <2>3 DEF Send, Deliver
    <3>2. QED
      BY <2>3, <3>1, ParallelParseAssumption DEF Send, Deliver
  <2>4. CASE SendUnwrap(w)
    BY <2>4, ParallelParseAssumption DEF SendUnwrap
  <2>5. CASE Quit(w)
    BY <2>5 DEF Quit
  <2>6. CASE Exit(w)
    BY <2>6 DEF Exit
  <2>7. QED
    BY <1>1, <2>1, <2>2, <2>3, <2>4, <2>5, <2>6 DEF Walker
<1>2. CASE ReceiveData
  BY <1>2, ParallelParseAssumption DEF ReceiveData, ReceiveHead, Merge
<1>3. CASE ReceiveError
  <2>1. Head(chan) \in Entries /\ Tail(chan) \in Seq(Entries)
        /\ Len(Tail(chan)) <= Capacity
    BY <1>3, ParallelParseAssumption DEF ReceiveError, ReceiveHead
  <2>2. QED
    BY <1>3, <2>1 DEF ReceiveError, ReceiveHead
<1>4. CASE DropReceiver
  <2>1. chan' \in Seq(Entries) /\ Len(chan') <= Capacity
    BY <1>4, ParallelParseAssumption DEF DropReceiver
  <2>2. QED
    BY <1>4, <2>1 DEF DropReceiver
<1>9. CASE Drained
  BY <1>9 DEF Drained
<1>5. CASE FinishWalk
  <2>1. main' \in {"panicked", "joining"}
    BY <1>5, Zenon DEF FinishWalk
  <2>2. UNCHANGED <<outcome, unvisited, quit, pc, work, chan, collector, data, error>>
    BY <1>5 DEF FinishWalk
  <2>3. QED
    BY <2>1, <2>2
<1>6. CASE Join
  BY <1>6 DEF Join
<1>7. CASE UNCHANGED vars
  BY <1>7 DEF vars
<1>8. QED
  BY <1>1, <1>2, <1>3, <1>4, <1>5, <1>6, <1>7, <1>9 DEF Next, Collector, Main, Stopped

(* Every reachable state is well typed: a walker that parses or sends has an
   entry, and the channel never holds more than its capacity. *)
THEOREM TypeCorrect == Spec => []TypeOK
  BY TypeInit, TypeStep, PTL DEF Spec

-----------------------------------------------------------------------------
(* The inductive invariant holds initially ... *)
LEMMA InvInit == Init => IInv
<1> SUFFICES ASSUME Init PROVE IInv
  OBVIOUS
<1>1. TypeOK
  BY TypeInit
<1>2. WorkIsOwn /\ ChanIsOwn /\ DataIsOwn /\ NothingLost
  BY ParallelParseAssumption DEF Init, WorkIsOwn, ChanIsOwn, DataIsOwn, NothingLost
<1>3. HoldsWork /\ QuitHasCause /\ DoneHasCause /\ PanicHasCause /\ ErrorIsReal
      /\ MainWaits
  BY DEF Init, HoldsWork, QuitHasCause, DoneHasCause, PanicHasCause, ErrorIsReal,
         MainWaits
<1>4. QED
  BY <1>1, <1>2, <1>3 DEF IInv

(* A walker that waits for work or ends holds none. *)
LEMMA IdleHoldsNothing ==
  ASSUME TypeOK, NEW w \in Walkers, pc[w] \notin {"visiting", "sending", "panicked"}
  PROVE  work[w] = NoEntry
BY DEF TypeOK

LEMMA BusyHoldsEntry ==
  ASSUME TypeOK, NEW w \in Walkers, pc[w] \in {"visiting", "sending", "panicked"}
  PROVE  work[w] \in Entries /\ work[w] # NoEntry
BY ParallelParseAssumption DEF TypeOK

(* ... and every action of a walker preserves it. *)
LEMMA InvTake ==
  ASSUME IInv, TypeOK', NEW w \in Walkers, Take(w) PROVE IInv'
<1>1. PICK e \in Available : /\ work' = [work EXCEPT ![w] = e]
                            /\ unvisited' = unvisited \ {e}
  BY DEF Take
<1>2. e \in unvisited /\ e \in Entries /\ e # NoEntry
  BY <1>1, ParallelParseAssumption DEF Available, IInv, TypeOK
<1>3. pc[w] = "idle" /\ ~quit /\ pc' = [pc EXCEPT ![w] = "visiting"]
  BY DEF Take, Goto
<1>4. UNCHANGED <<outcome, quit, chan, collector, data, error, main>>
  BY DEF Take
<1>5. work[w] = NoEntry
  BY <1>3, IdleHoldsNothing DEF IInv
<1>6. pc \in [Walkers -> PCs] /\ work \in [Walkers -> Entries \cup {NoEntry}]
  BY DEF IInv, TypeOK
<1>7. HoldsWork'
  BY <1>1, <1>3, <1>4, <1>6 DEF HoldsWork, IInv
<1>8. WorkIsOwn'
  BY <1>1, <1>2, <1>6 DEF WorkIsOwn, IInv
<1>9. ChanIsOwn' /\ DataIsOwn'
  BY <1>1, <1>2, <1>4, <1>6 DEF ChanIsOwn, DataIsOwn, IInv
<1>10. NothingLost'
  <2>1. \A x \in Entries : InWork(x) => InWork(x)'
    BY <1>1, <1>5, <1>6, ParallelParseAssumption DEF InWork
  <2>2. InWork(e)'
    BY <1>1, <1>6 DEF InWork
  <2>3. QED
    BY <1>1, <1>4, <2>1, <2>2 DEF NothingLost, InChan, InData, IInv
<1>11. QuitHasCause' /\ DoneHasCause' /\ PanicHasCause' /\ ErrorIsReal' /\ MainWaits'
  BY <1>1, <1>2, <1>3, <1>4, <1>6
  DEF QuitHasCause, DoneHasCause, PanicHasCause, ErrorIsReal, MainWaits, IInv
<1>12. QED
  BY <1>7, <1>8, <1>9, <1>10, <1>11 DEF IInv

LEMMA InvVisit ==
  ASSUME IInv, TypeOK', NEW w \in Walkers, Visit(w) PROVE IInv'
<1>1. pc[w] = "visiting" /\ work[w] \in Entries /\ work[w] # NoEntry
  BY BusyHoldsEntry DEF Visit, IInv
<1>2. UNCHANGED <<outcome, unvisited, quit, chan, collector, data, error, main>>
  BY DEF Visit
<1>3. pc \in [Walkers -> PCs] /\ work \in [Walkers -> Entries \cup {NoEntry}]
  BY DEF IInv, TypeOK
<1>4. \/ /\ outcome[work[w]] = "skip"
         /\ pc' = [pc EXCEPT ![w] = "idle"] /\ work' = [work EXCEPT ![w] = NoEntry]
      \/ /\ outcome[work[w]] \in {"data", "err"}
         /\ pc' = [pc EXCEPT ![w] = "sending"] /\ work' = work
      \/ /\ outcome[work[w]] = "panic"
         /\ pc' = [pc EXCEPT ![w] = "panicked"] /\ work' = work
  BY DEF Visit, Goto
<1>5. \A v \in Walkers : work'[v] = work[v] \/ work'[v] = NoEntry
  BY <1>3, <1>4
<1>6. \A x \in Entries : outcome[x] # "skip" => (InWork(x) => InWork(x)')
  BY <1>3, <1>4 DEF InWork
<1>7. chan \in Seq(Entries) /\ data \in [Crates -> Seq(Entries)]
  BY DEF IInv, TypeOK
<1>8. HoldsWork'
  BY <1>2, <1>3, <1>4 DEF HoldsWork, IInv
<1>9. WorkIsOwn'
  BY <1>2, <1>5 DEF WorkIsOwn, IInv
<1>10. ChanIsOwn'
  BY <1>2, <1>5, <1>7, ParallelParseAssumption DEF ChanIsOwn, IInv
<1>11. DataIsOwn'
  BY <1>2, <1>5, <1>7, ParallelParseAssumption DEF DataIsOwn, IInv
<1>12. NothingLost'
  BY <1>2, <1>6 DEF NothingLost, InChan, InData, IInv
<1>13. ErrorIsReal'
  BY <1>2, <1>5, ParallelParseAssumption DEF ErrorIsReal, IInv
<1>14. QuitHasCause' /\ DoneHasCause' /\ MainWaits'
  BY <1>1, <1>2, <1>3, <1>4 DEF QuitHasCause, DoneHasCause, MainWaits, IInv
<1>15. PanicHasCause'
  BY <1>1, <1>2, <1>3, <1>4 DEF PanicHasCause, IInv
<1>16. QED
  BY <1>8, <1>9, <1>10, <1>11, <1>12, <1>13, <1>14, <1>15 DEF IInv

LEMMA InvSend ==
  ASSUME IInv, TypeOK', NEW w \in Walkers, Send(w) PROVE IInv'
<1> DEFINE e == work[w]
           n == Len(chan) + 1
<1>1. pc[w] = "sending" /\ e \in Entries /\ e # NoEntry /\ outcome[e] \in {"data", "err"}
      /\ e \notin unvisited
  BY BusyHoldsEntry DEF Send, Deliver, IInv, HoldsWork, WorkIsOwn
<1>2. UNCHANGED <<outcome, unvisited, quit, collector, data, error, main>>
  BY DEF Send, Deliver
<1>3. pc \in [Walkers -> PCs] /\ work \in [Walkers -> Entries \cup {NoEntry}]
      /\ chan \in Seq(Entries) /\ data \in [Crates -> Seq(Entries)]
  BY DEF IInv, TypeOK
<1>4. work' = [work EXCEPT ![w] = NoEntry]
  BY DEF Send, Deliver
<1>5. pc' = [pc EXCEPT ![w] = IF outcome[e] = "err" THEN "quitting" ELSE "idle"]
  BY DEF Send, Deliver, Goto
<1>6. /\ Len(chan') = n /\ n \in Nat /\ n \in 1..n
      /\ \A i \in 1..n : chan'[i] = IF i = n THEN e ELSE chan[i]
      /\ \A i \in 1..n : i # n => i \in 1..Len(chan)
      /\ \A i \in 1..Len(chan) : i \in 1..n /\ i # n
  BY <1>1, <1>3 DEF Send, Deliver
<1>7. \A v \in Walkers : work'[v] = work[v] \/ work'[v] = NoEntry
  BY <1>3, <1>4
<1>8. \A v \in Walkers : work'[v] # e
  BY <1>1, <1>3, <1>4 DEF WorkIsOwn, IInv
<1>9. \A i \in 1..Len(chan) : chan[i] # e
  BY DEF ChanIsOwn, IInv
<1>10. HoldsWork'
  BY <1>2, <1>3, <1>4, <1>5 DEF HoldsWork, IInv
<1>11. WorkIsOwn'
  BY <1>2, <1>7 DEF WorkIsOwn, IInv
<1>12. ChanIsOwn'
  <2>1. ASSUME NEW i \in 1..n PROVE
          /\ outcome[chan'[i]] \in {"data", "err"}
          /\ chan'[i] \notin unvisited
          /\ \A v \in Walkers : work'[v] # chan'[i]
    <3>1. CASE i = n
      BY <1>1, <1>6, <1>8, <3>1
    <3>2. CASE i # n
      <4>1. chan'[i] = chan[i] /\ i \in 1..Len(chan) /\ chan[i] \in Entries
        BY <1>3, <1>6, <3>2
      <4>2. QED
        BY <1>7, <4>1, ParallelParseAssumption DEF ChanIsOwn, IInv
    <3>3. QED
      BY <3>1, <3>2
  <2>2. ASSUME NEW i \in 1..n, NEW j \in 1..n, chan'[j] = chan'[i] PROVE j = i
    BY <1>6, <1>9, <2>2 DEF ChanIsOwn, IInv
  <2>3. QED
    BY <1>2, <1>6, <2>1, <2>2 DEF ChanIsOwn
<1>13. DataIsOwn'
  <2>1. ASSUME NEW c \in Crates, NEW i \in 1..Len(data[c])
        PROVE  /\ data[c][i] \in Entries
               /\ \A v \in Walkers : work'[v] # data[c][i]
               /\ \A j \in 1..n : chan'[j] # data[c][i]
    <3>1. data[c][i] \in Entries /\ data[c][i] # NoEntry
      BY <1>3, ParallelParseAssumption
    <3>2. data[c][i] # e
      BY DEF DataIsOwn, IInv
    <3>3. \A v \in Walkers : work'[v] # data[c][i]
      BY <1>7, <3>1 DEF DataIsOwn, IInv
    <3>4. \A j \in 1..n : chan'[j] # data[c][i]
      BY <1>6, <3>2 DEF DataIsOwn, IInv
    <3>5. QED
      BY <3>1, <3>3, <3>4
  <2>2. QED
    BY <1>2, <1>6, <2>1 DEF DataIsOwn, IInv
<1>14. NothingLost'
  <2>1. \A x \in Entries : InWork(x) => x = e \/ InWork(x)'
    BY <1>3, <1>4 DEF InWork
  <2>2. \A x \in Entries : x = e \/ InChan(x) => InChan(x)'
    BY <1>6 DEF InChan
  <2>3. QED
    BY <1>2, <2>1, <2>2 DEF NothingLost, InData, IInv
<1>15. QuitHasCause'
  <2>1. CASE outcome[e] = "err"
    BY <1>2, <1>6, <2>1 DEF QuitHasCause
  <2>2. CASE outcome[e] # "err"
    <3>1. \A v \in Walkers : pc'[v] = "quitting" => pc[v] = "quitting"
      BY <1>3, <1>5, <2>2
    <3>2. QED
      BY <1>2, <1>6, <3>1 DEF QuitHasCause, IInv
  <2>3. QED
    BY <2>1, <2>2
<1>16. pc'[w] \in {"quitting", "idle"} /\ \A v \in Walkers : v # w => pc'[v] = pc[v]
  BY <1>3, <1>5
<1>17. DoneHasCause' /\ PanicHasCause'
  <2>1. DoneHasCause'
    BY <1>1, <1>2, <1>16 DEF DoneHasCause, IInv
  <2>2. \A v \in Walkers : pc'[v] = "panicked" => pc[v] = "panicked" /\ work'[v] = work[v]
    BY <1>3, <1>4, <1>16
  <2>3. PanicHasCause'
    BY <1>2, <2>2 DEF PanicHasCause, IInv
  <2>4. QED
    BY <2>1, <2>3
<1>18. ErrorIsReal'
  <2>1. collector \in {"failing", "failed"} => error # e
    BY DEF ErrorIsReal, IInv
  <2>2. QED
    BY <1>2, <1>6, <1>7, <2>1, ParallelParseAssumption DEF ErrorIsReal, IInv
<1>19. MainWaits'
  <2>1. main = "walking" /\ collector # "ok"
    BY <1>1 DEF MainWaits, IInv
  <2>2. QED
    BY <1>2, <2>1 DEF MainWaits
<1>20. QED
  BY <1>10, <1>11, <1>12, <1>13, <1>14, <1>15, <1>17, <1>18, <1>19 DEF IInv

(* The steps of a walker that move no result leave the places of entries
   alone. *)
LEMMA PlacesUnchanged ==
  ASSUME IInv, UNCHANGED <<outcome, unvisited, work, chan, collector, data, error>>
  PROVE  WorkIsOwn' /\ ChanIsOwn' /\ DataIsOwn' /\ NothingLost' /\ ErrorIsReal'
<1>1. WorkIsOwn' /\ ChanIsOwn' /\ DataIsOwn' /\ ErrorIsReal'
  BY DEF IInv, WorkIsOwn, ChanIsOwn, DataIsOwn, ErrorIsReal
<1>2. NothingLost'
  BY DEF IInv, NothingLost, InWork, InChan, InData
<1>3. QED
  BY <1>1, <1>2

LEMMA InvSendUnwrap ==
  ASSUME IInv, TypeOK', NEW w \in Walkers, SendUnwrap(w) PROVE IInv'
<1>1. pc[w] = "sending" /\ outcome[work[w]] \in {"data", "err"}
  BY DEF SendUnwrap, IInv, HoldsWork
<1>2. /\ UNCHANGED <<outcome, unvisited, quit, work, chan, collector, data, error, main>>
      /\ pc' = [pc EXCEPT ![w] = "panicked"]
  BY DEF SendUnwrap, Goto
<1>3. pc \in [Walkers -> PCs]
  BY DEF IInv, TypeOK
<1>4. main = "walking" /\ collector = "failed"
  BY <1>1 DEF SendUnwrap, Connected, MainWaits, IInv, TypeOK
<1>5. HoldsWork' /\ QuitHasCause' /\ DoneHasCause' /\ MainWaits'
  BY <1>1, <1>2, <1>3, <1>4 DEF HoldsWork, QuitHasCause, DoneHasCause, MainWaits, IInv
<1>6. PanicHasCause'
  BY <1>1, <1>2, <1>3, <1>4 DEF PanicHasCause, IInv
<1>7. QED
  BY <1>2, <1>5, <1>6, PlacesUnchanged DEF IInv

LEMMA InvQuit ==
  ASSUME IInv, TypeOK', NEW w \in Walkers, Quit(w) PROVE IInv'
<1>1. /\ pc[w] = "quitting" /\ quit' = TRUE /\ pc' = [pc EXCEPT ![w] = "idle"]
      /\ UNCHANGED <<outcome, unvisited, work, chan, collector, data, error, main>>
  BY DEF Quit, Goto
<1>2. pc \in [Walkers -> PCs]
  BY DEF IInv, TypeOK
<1>3. HoldsWork' /\ DoneHasCause' /\ PanicHasCause' /\ MainWaits'
  BY <1>1, <1>2 DEF HoldsWork, DoneHasCause, PanicHasCause, MainWaits, IInv
<1>4. QuitHasCause'
  BY <1>1 DEF QuitHasCause, IInv
<1>5. QED
  BY <1>1, <1>3, <1>4, PlacesUnchanged DEF IInv

(* With every walker out of work, an entry that was not visited would lie
   below an available one. *)
LEMMA NothingLeft ==
  ASSUME TypeOK, Available = {}, \A v \in Walkers : work[v] = NoEntry
  PROVE  unvisited = {}
<1> SUFFICES ASSUME unvisited # {} PROVE FALSE
  OBVIOUS
<1>1. PICK e \in unvisited : Parent[e] \notin unvisited
  BY ParallelParseAssumption DEF TypeOK
<1>2. e \in Entries /\ Parent[e] \in Entries \cup {Root}
  BY ParallelParseAssumption DEF TypeOK
<1>3. \A v \in Walkers : Parent[e] # Root => work[v] # Parent[e]
  BY <1>2, ParallelParseAssumption
<1>4. e \in Available
  BY <1>1, <1>3 DEF Available
<1>5. QED
  BY <1>4

LEMMA InvExit ==
  ASSUME IInv, TypeOK', NEW w \in Walkers, Exit(w) PROVE IInv'
<1>1. /\ pc[w] = "idle" /\ pc' = [pc EXCEPT ![w] = "done"]
      /\ UNCHANGED <<outcome, unvisited, quit, work, chan, collector, data, error, main>>
  BY DEF Exit, Goto
<1>2. pc \in [Walkers -> PCs]
  BY DEF IInv, TypeOK
<1>3. HoldsWork' /\ PanicHasCause' /\ MainWaits' /\ QuitHasCause'
  BY <1>1, <1>2 DEF HoldsWork, PanicHasCause, MainWaits, QuitHasCause, IInv
<1>4. DoneHasCause'
  <2>1. CASE quit
    BY <1>1, <2>1 DEF DoneHasCause
  <2>2. CASE ~quit
    <3>1. Available = {} /\ \A v \in Walkers : pc[v] \in {"idle", "done"}
      BY <2>2 DEF Exit
    <3>2. \A v \in Walkers : work[v] = NoEntry
      BY <3>1, IdleHoldsNothing DEF IInv
    <3>3. unvisited = {}
      BY <3>1, <3>2, NothingLeft DEF IInv
    <3>4. QED
      BY <1>1, <1>2, <3>1, <3>3 DEF DoneHasCause
  <2>3. QED
    BY <2>1, <2>2
<1>5. QED
  BY <1>1, <1>3, <1>4, PlacesUnchanged DEF IInv

-----------------------------------------------------------------------------
(* The collector preserves the inductive invariant. *)

(* Receiving takes the first result off the channel. *)
LEMMA ReceivedHead ==
  ASSUME TypeOK, ReceiveHead
  PROVE  /\ Head(chan) \in Entries /\ Head(chan) # NoEntry
         /\ 1 \in 1..Len(chan) /\ chan[1] = Head(chan)
         /\ \A i \in 1..Len(chan') :
              /\ chan'[i] = chan[i + 1]
              /\ i + 1 \in 1..Len(chan) /\ i + 1 # 1
         /\ \A i \in 1..Len(chan) :
              i = 1 \/ \E j \in 1..Len(chan') : j + 1 = i /\ chan'[j] = chan[i]
<1>1. chan \in Seq(Entries) /\ chan # <<>> /\ chan' = Tail(chan)
  BY DEF TypeOK, ReceiveHead
<1>2. Head(chan) \in Entries /\ 1 \in 1..Len(chan) /\ chan[1] = Head(chan)
  BY <1>1
<1>3. \A i \in 1..Len(chan') : /\ chan'[i] = chan[i + 1]
                              /\ i + 1 \in 1..Len(chan) /\ i + 1 # 1
  BY <1>1
<1>4. ASSUME NEW i \in 1..Len(chan), i # 1
      PROVE  \E j \in 1..Len(chan') : j + 1 = i /\ chan'[j] = chan[i]
  <2>1. i - 1 \in 1..Len(chan') /\ (i - 1) + 1 = i /\ chan'[i - 1] = chan[i]
    BY <1>1, <1>4
  <2>2. QED
    BY <2>1
<1>5. QED
  BY <1>2, <1>3, <1>4, ParallelParseAssumption

(* What stays in the channel stays in one place. *)
LEMMA RestIsOwn ==
  ASSUME IInv, ReceiveHead
  PROVE  /\ ChanIsOwn'
         /\ \A j \in 1..Len(chan') : chan'[j] # Head(chan)
<1>1. UNCHANGED <<outcome, unvisited, work>>
  BY DEF ReceiveHead
<1>2. \A i \in 1..Len(chan') : /\ chan'[i] = chan[i + 1]
                              /\ i + 1 \in 1..Len(chan) /\ i + 1 # 1
  BY ReceivedHead DEF IInv
<1>3. ChanIsOwn'
  BY <1>1, <1>2 DEF ChanIsOwn, IInv
<1>4. \A j \in 1..Len(chan') : chan'[j] # Head(chan)
  BY <1>2, ReceivedHead DEF ChanIsOwn, IInv
<1>5. QED
  BY <1>3, <1>4

LEMMA InvReceiveError ==
  ASSUME IInv, TypeOK', ReceiveError PROVE IInv'
<1>1. ReceiveHead
  BY DEF ReceiveError
<1>2. /\ UNCHANGED <<outcome, unvisited, quit, pc, work, data, main>>
      /\ collector = "collecting" /\ collector' = "failing"
      /\ error' = Head(chan) /\ outcome[Head(chan)] = "err"
  BY DEF ReceiveError, ReceiveHead
<1>3. /\ Head(chan) \in Entries
      /\ 1 \in 1..Len(chan) /\ chan[1] = Head(chan)
      /\ \A i \in 1..Len(chan') : chan'[i] = chan[i + 1] /\ i + 1 \in 1..Len(chan)
  BY <1>1, ReceivedHead DEF IInv
<1>4. ChanIsOwn' /\ \A j \in 1..Len(chan') : chan'[j] # Head(chan)
  BY <1>1, RestIsOwn
<1>5. DataIsOwn'
  <2>1. ASSUME NEW c \in Crates, NEW i \in 1..Len(data[c])
        PROVE  \A j \in 1..Len(chan') : chan'[j] # data[c][i]
    BY <1>3 DEF DataIsOwn, IInv
  <2>2. QED
    BY <1>2, <2>1 DEF DataIsOwn, IInv
<1>6. ErrorIsReal'
  <2>1. /\ Head(chan) \notin unvisited
        /\ \A w \in Walkers : work[w] # Head(chan)
    BY <1>3 DEF ChanIsOwn, IInv
  <2>2. QED
    BY <1>2, <1>3, <1>4, <2>1 DEF ErrorIsReal
<1>7. HoldsWork' /\ WorkIsOwn' /\ NothingLost' /\ QuitHasCause' /\ DoneHasCause'
  BY <1>2
  DEF HoldsWork, WorkIsOwn, NothingLost, QuitHasCause, DoneHasCause, IInv
<1>8. PanicHasCause' /\ MainWaits'
  BY <1>2 DEF PanicHasCause, MainWaits, IInv
<1>9. QED
  BY <1>4, <1>5, <1>6, <1>7, <1>8 DEF IInv

LEMMA InvReceiveData ==
  ASSUME IInv, TypeOK', ReceiveData PROVE IInv'
<1> DEFINE e == Head(chan)
           c == CrateOf[e]
           n == Len(data[c]) + 1
<1>1. ReceiveHead
  BY DEF ReceiveData
<1>2. /\ UNCHANGED <<outcome, unvisited, quit, pc, work, collector, error, main>>
      /\ collector = "collecting" /\ outcome[e] = "data"
      /\ data' = [data EXCEPT ![c] = Append(data[c], e)]
  BY DEF ReceiveData, ReceiveHead, Merge
<1>3. /\ e \in Entries /\ e # NoEntry
      /\ 1 \in 1..Len(chan) /\ chan[1] = e
      /\ \A i \in 1..Len(chan') : chan'[i] = chan[i + 1] /\ i + 1 \in 1..Len(chan)
      /\ \A i \in 1..Len(chan) :
           i = 1 \/ \E j \in 1..Len(chan') : j + 1 = i /\ chan'[j] = chan[i]
  BY <1>1, ReceivedHead DEF IInv
<1>4. ChanIsOwn' /\ \A j \in 1..Len(chan') : chan'[j] # e
  BY <1>1, RestIsOwn
<1>5. c \in Crates /\ data \in [Crates -> Seq(Entries)]
  BY <1>3, ParallelParseAssumption DEF IInv, TypeOK
<1>6. /\ Len(data'[c]) = n /\ n \in Nat /\ n \in 1..n
      /\ \A i \in 1..n : data'[c][i] = IF i = n THEN e ELSE data[c][i]
      /\ \A i \in 1..n : i # n => i \in 1..Len(data[c])
      /\ \A i \in 1..Len(data[c]) : i \in 1..n /\ i # n
      /\ \A d \in Crates : d # c => data'[d] = data[d]
  BY <1>2, <1>3, <1>5
<1>7. /\ e \notin unvisited /\ \A w \in Walkers : work[w] # e
      /\ \A i \in 1..Len(data[c]) : data[c][i] # e
  <2>1. e \notin unvisited /\ \A w \in Walkers : work[w] # e
    BY <1>3 DEF ChanIsOwn, IInv
  <2>2. ASSUME NEW i \in 1..Len(data[c]) PROVE data[c][i] # e
    BY <1>3, <1>5 DEF DataIsOwn, IInv
  <2>3. QED
    BY <2>1, <2>2
<1>8. DataIsOwn'
  <2>1. ASSUME NEW d \in Crates, NEW i \in 1..Len(data[d])
        PROVE  \A j \in 1..Len(chan') : chan'[j] # data[d][i]
    <3>1. \A j \in 1..Len(chan) : chan[j] # data[d][i]
      BY DEF DataIsOwn, IInv
    <3>2. QED
      BY <1>3, <3>1
  <2>2. ASSUME NEW i \in 1..n
        PROVE  /\ outcome[data'[c][i]] = "data" /\ CrateOf[data'[c][i]] = c
               /\ data'[c][i] \notin unvisited
               /\ \A w \in Walkers : work[w] # data'[c][i]
               /\ \A j \in 1..Len(chan') : chan'[j] # data'[c][i]
               /\ \A j \in 1..n : data'[c][j] = data'[c][i] => j = i
    <3>1. CASE i = n
      BY <1>2, <1>4, <1>6, <1>7, <3>1
    <3>2. CASE i # n
      <4>1. data'[c][i] = data[c][i] /\ i \in 1..Len(data[c])
        BY <1>6, <3>2
      <4>2. \A j \in 1..n : data'[c][j] = data'[c][i] => j = i
        <5>1. \A j \in 1..Len(data[c]) : data[c][j] = data[c][i] => j = i
          BY <1>5, <4>1 DEF DataIsOwn, IInv
        <5>2. data[c][i] # e
          BY <1>7, <4>1
        <5>3. QED
          BY <1>6, <4>1, <5>1, <5>2
      <4>3. /\ outcome[data[c][i]] = "data" /\ CrateOf[data[c][i]] = c
            /\ data[c][i] \notin unvisited
            /\ \A w \in Walkers : work[w] # data[c][i]
        BY <1>5, <4>1 DEF DataIsOwn, IInv
      <4>4. \A j \in 1..Len(chan') : chan'[j] # data[c][i]
        BY <1>5, <2>1, <4>1
      <4>5. QED
        BY <4>1, <4>2, <4>3, <4>4
    <3>3. QED
      BY <3>1, <3>2
  <2>3. ASSUME NEW d \in Crates, NEW i \in 1..Len(data'[d])
        PROVE  /\ outcome[data'[d][i]] = "data" /\ CrateOf[data'[d][i]] = d
               /\ data'[d][i] \notin unvisited
               /\ \A w \in Walkers : work[w] # data'[d][i]
               /\ \A j \in 1..Len(chan') : chan'[j] # data'[d][i]
               /\ \A j \in 1..Len(data'[d]) : data'[d][j] = data'[d][i] => j = i
    <3>1. CASE d = c
      BY <1>6, <2>2, <3>1
    <3>2. CASE d # c
      <4>1. data'[d] = data[d]
        BY <1>6, <3>2
      <4>2. QED
        BY <2>1, <4>1 DEF DataIsOwn, IInv
    <3>3. QED
      BY <3>1, <3>2
  <2>4. QED
    BY <1>2, <2>3 DEF DataIsOwn
<1>9. NothingLost'
  <2>1. ASSUME NEW x \in Entries, InChan(x)
        PROVE  x = e \/ \E j \in 1..Len(chan') : chan'[j] = x
    BY <1>3, <2>1 DEF InChan
  <2>2. ASSUME NEW x \in Entries, x = e \/ InData(x)
        PROVE  \E j \in 1..Len(data'[CrateOf[x]]) : data'[CrateOf[x]][j] = x
    <3>1. CASE x = e
      BY <1>6, <3>1
    <3>2. CASE x # e /\ CrateOf[x] = c
      BY <1>6, <2>2, <3>2 DEF InData
    <3>3. CASE x # e /\ CrateOf[x] # c
      <4>1. CrateOf[x] \in Crates
        BY ParallelParseAssumption
      <4>2. data'[CrateOf[x]] = data[CrateOf[x]]
        BY <1>6, <3>3, <4>1
      <4>3. QED
        BY <2>2, <3>3, <4>2 DEF InData
    <3>4. QED
      BY <3>1, <3>2, <3>3
  <2>3. QED
    BY <1>2, <2>1, <2>2 DEF NothingLost, InWork, InChan, InData, IInv
<1>10. QuitHasCause'
  <2>1. ASSUME NEW i \in 1..Len(chan), outcome[chan[i]] = "err"
        PROVE  \E j \in 1..Len(chan') : outcome[chan'[j]] = "err"
    BY <1>2, <1>3, <2>1
  <2>2. QED
    BY <1>2, <2>1 DEF QuitHasCause, IInv
<1>11. HoldsWork' /\ WorkIsOwn' /\ DoneHasCause' /\ PanicHasCause' /\ ErrorIsReal'
       /\ MainWaits'
  BY <1>2
  DEF HoldsWork, WorkIsOwn, DoneHasCause, PanicHasCause, ErrorIsReal, MainWaits, IInv
<1>12. QED
  BY <1>4, <1>8, <1>9, <1>10, <1>11 DEF IInv

LEMMA InvDropReceiver ==
  ASSUME IInv, TypeOK', DropReceiver PROVE IInv'
<1>1. /\ collector = "failing" /\ collector' = "failed"
      /\ UNCHANGED <<outcome, unvisited, quit, pc, work, data, error, main>>
      /\ Len(chan') = 0 /\ 1..Len(chan') = {}
  BY DEF DropReceiver
<1>2. HoldsWork' /\ WorkIsOwn' /\ ChanIsOwn' /\ DataIsOwn' /\ NothingLost'
  BY <1>1 DEF HoldsWork, WorkIsOwn, ChanIsOwn, DataIsOwn, NothingLost, IInv
<1>3. QuitHasCause' /\ DoneHasCause' /\ PanicHasCause' /\ ErrorIsReal' /\ MainWaits'
  BY <1>1
  DEF QuitHasCause, DoneHasCause, PanicHasCause, ErrorIsReal, MainWaits, IInv
<1>4. QED
  BY <1>2, <1>3 DEF IInv

LEMMA InvDrained ==
  ASSUME IInv, TypeOK', Drained PROVE IInv'
<1>1. /\ collector = "collecting" /\ collector' = "ok" /\ chan = <<>>
      /\ main # "walking"
      /\ UNCHANGED <<outcome, unvisited, quit, pc, work, chan, data, error, main>>
      /\ 1..Len(chan) = {}
  BY DEF Drained
<1>2. HoldsWork' /\ WorkIsOwn' /\ ChanIsOwn' /\ DataIsOwn'
  BY <1>1 DEF HoldsWork, WorkIsOwn, ChanIsOwn, DataIsOwn, IInv
<1>3. NothingLost'
  BY <1>1 DEF NothingLost, InWork, InChan, InData, IInv
<1>4. QuitHasCause' /\ DoneHasCause' /\ PanicHasCause' /\ ErrorIsReal'
  BY <1>1 DEF QuitHasCause, DoneHasCause, PanicHasCause, ErrorIsReal, IInv
<1>5. MainWaits'
  BY <1>1 DEF MainWaits, IInv
<1>6. QED
  BY <1>2, <1>3, <1>4, <1>5 DEF IInv

-----------------------------------------------------------------------------
(* So does the calling thread. *)
LEMMA InvMain ==
  ASSUME IInv, TypeOK', Main PROVE IInv'
<1>1. UNCHANGED <<outcome, unvisited, quit, pc, work, chan, collector, data, error>>
  BY DEF Main, FinishWalk, Join
<1>2. HoldsWork' /\ QuitHasCause' /\ DoneHasCause' /\ PanicHasCause'
  BY <1>1 DEF HoldsWork, QuitHasCause, DoneHasCause, PanicHasCause, IInv
<1>3. MainWaits'
  <2>1. CASE FinishWalk
    <3>1. /\ main = "walking" /\ \A w \in Walkers : pc[w] \in {"done", "panicked"}
          /\ \/ main' = "panicked" /\ \E w \in Walkers : pc[w] = "panicked"
             \/ main' = "joining" /\ \A w \in Walkers : pc[w] = "done"
      BY <2>1 DEF FinishWalk
    <3>2. QED
      BY <1>1, <3>1 DEF MainWaits, IInv
  <2>2. CASE Join
    BY <1>1, <2>2 DEF Join, MainWaits, IInv
  <2>3. QED
    BY <2>1, <2>2 DEF Main
<1>4. QED
  BY <1>1, <1>2, <1>3, PlacesUnchanged DEF IInv

LEMMA InvStep == IInv /\ [Next]_vars => IInv'
<1> SUFFICES ASSUME IInv, [Next]_vars PROVE IInv'
  OBVIOUS
<1>1. TypeOK'
  BY TypeStep DEF IInv
<1>2. ASSUME NEW w \in Walkers, Walker(w) PROVE IInv'
  BY <1>1, <1>2, InvTake, InvVisit, InvSend, InvSendUnwrap, InvQuit, InvExit DEF Walker
<1>3. CASE Collector
  BY <1>1, <1>3, InvReceiveData, InvReceiveError, InvDropReceiver, InvDrained
  DEF Collector
<1>4. CASE Main
  BY <1>1, <1>4, InvMain
<1>5. CASE UNCHANGED vars
  <2>1. HoldsWork' /\ QuitHasCause' /\ DoneHasCause' /\ PanicHasCause' /\ MainWaits'
    BY <1>5
    DEF vars, HoldsWork, QuitHasCause, DoneHasCause, PanicHasCause, MainWaits, IInv
  <2>2. QED
    BY <1>1, <1>5, <2>1, PlacesUnchanged DEF vars, IInv
<1>6. QED
  BY <1>2, <1>3, <1>4, <1>5 DEF Next, Stopped

THEOREM Invariant == Spec => []IInv
  BY InvInit, InvStep, PTL DEF Spec

-----------------------------------------------------------------------------
(* The properties *)

(* Ok is returned only when no entry failed or panicked, and then each file
   with data was merged exactly once and into its own crate. *)
LEMMA InvOkMeansAllMerged == IInv => OkMeansAllMerged
<1> SUFFICES ASSUME IInv, main = "ok" PROVE OkMeansAllMerged
  BY DEF OkMeansAllMerged
<1>1. /\ collector = "ok" /\ \A w \in Walkers : pc[w] = "done"
      /\ chan = <<>> /\ 1..Len(chan) = {}
  BY DEF MainWaits, IInv
<1>2. \A w \in Walkers : work[w] = NoEntry
  BY <1>1, IdleHoldsNothing DEF IInv
<1>3. ~quit
  BY <1>1 DEF QuitHasCause, IInv
<1>4. unvisited = {}
  BY <1>1, <1>3, ParallelParseAssumption DEF DoneHasCause, IInv
<1>5. \A e \in Entries : outcome[e] # "skip" => outcome[e] = "data" /\ InData(e)
  BY <1>1, <1>2, <1>4, ParallelParseAssumption
  DEF NothingLost, InWork, InChan, IInv
<1>6. ASSUME NEW c \in Crates
      PROVE  /\ IsInjective(data[c])
             /\ Merged(c) = {e \in Entries : outcome[e] = "data" /\ CrateOf[e] = c}
  <2>1. data[c] \in Seq(Entries) /\ DOMAIN data[c] = 1..Len(data[c])
    BY DEF IInv, TypeOK
  <2>2. IsInjective(data[c])
    BY <2>1 DEF IsInjective, DataIsOwn, IInv
  <2>3. ASSUME NEW e \in Merged(c)
        PROVE  e \in Entries /\ outcome[e] = "data" /\ CrateOf[e] = c
    <3>1. PICK i \in 1..Len(data[c]) : data[c][i] = e
      BY <2>1 DEF Merged, Range
    <3>2. QED
      BY <2>1, <3>1 DEF DataIsOwn, IInv
  <2>4. ASSUME NEW e \in Entries, outcome[e] = "data", CrateOf[e] = c
        PROVE  e \in Merged(c)
    BY <1>5, <2>1, <2>4 DEF InData, Merged, Range
  <2>5. QED
    BY <2>2, <2>3, <2>4
<1>7. \A e \in Entries : outcome[e] \notin {"err", "panic"}
  BY <1>5
<1>8. QED
  BY <1>6, <1>7 DEF OkMeansAllMerged

THEOREM ParsedAll == Spec => []OkMeansAllMerged
  BY Invariant, InvOkMeansAllMerged, PTL

(* A walker that is not stopped by a panic of the parser panics only once the
   collector has returned another entry's error. *)
THEOREM PanicOnlyAfterError == Spec => []PanicOnlyMasksAnError
<1>1. IInv => PanicOnlyMasksAnError
  <2>1. SUFFICES ASSUME IInv, NEW w \in Walkers,
                        pc[w] = "panicked", outcome[work[w]] # "panic"
                 PROVE  /\ collector = "failed"
                        /\ error \in Entries \ {work[w]} /\ outcome[error] = "err"
    BY DEF PanicOnlyMasksAnError
  <2>2. collector = "failed"
    BY <2>1 DEF IInv, PanicHasCause
  <2>3. QED
    BY <2>1, <2>2 DEF IInv, ErrorIsReal
<1>2. QED
  BY <1>1, Invariant, PTL

(* The call hangs only when the parser panicked on an entry: a walker that lost
   its receiver never leaves the others waiting for it. *)
THEOREM HangNeedsParserPanic ==
  Spec => [](Hangs => \E w \in Walkers : pc[w] = "panicked" /\ outcome[work[w]] = "panic")
<1>1. IInv /\ Hangs => \E w \in Walkers : pc[w] = "panicked" /\ outcome[work[w]] = "panic"
  BY DEF IInv, PanicHasCause, Hangs
<1>2. QED
  BY <1>1, Invariant, PTL

-----------------------------------------------------------------------------
(* Refinement *)

LEMMA PromiseInit == Init => Promise!Init
<1> SUFFICES ASSUME Init PROVE Promise!Init
  OBVIOUS
<1>1. main = "walking" /\ ~Returned
  BY DEF Init, Returned
<1>2. QED
  BY <1>1 DEF Init, Outcomes, Promise!Init

(* Every step is a step of the promise or leaves its state alone. *)
LEMMA PromiseStep == IInv /\ IInv' /\ [Next]_vars => [Promise!Next]_Promise!vars
<1> SUFFICES ASSUME IInv, IInv', [Next]_vars PROVE [Promise!Next]_Promise!vars
  OBVIOUS
<1>1. outcome' = outcome
  BY DEF Next, Walker, Take, Visit, Send, Deliver, SendUnwrap, Quit, Exit, Collector,
         ReceiveData, ReceiveError, ReceiveHead, DropReceiver, Drained, Main, FinishWalk,
         Join, Stopped, vars
<1>2. CASE main' = main /\ data' = data /\ error' = error
  BY <1>1, <1>2 DEF Returned, Promise!vars
<1>3. CASE ReceiveData \/ ReceiveError
  <2>1. collector = "collecting" /\ main' = main
    BY <1>3 DEF ReceiveData, ReceiveError, ReceiveHead
  <2>2. main \notin {"ok", "err"}
    BY <2>1 DEF IInv, MainWaits
  <2>3. QED
    BY <1>1, <2>1, <2>2 DEF Returned, Promise!vars
<1>4. CASE Main
  <2>1. UNCHANGED <<data, error, pc, collector>>
    BY <1>4 DEF Main, FinishWalk, Join
  <2>2. CASE main' = "ok"
    <3>1. main = "joining"
      BY <1>4, <2>2 DEF Main, FinishWalk, Join
    <3>2. OkMeansAllMerged'
      BY InvOkMeansAllMerged, PTL
    <3>3. Promise!With("err") \cup Promise!With("panic") = {}
      BY <1>1, <2>2, <3>2 DEF OkMeansAllMerged, Promise!With
    <3>4. ASSUME NEW c \in Crates
          PROVE  /\ Promise!IsInjective(data'[c])
                 /\ Promise!Range(data'[c]) = {e \in Promise!With("data") : CrateOf[e] = c}
      <4>1. /\ IsInjective(data'[c])
            /\ Range(data'[c]) = {e \in Entries : outcome[e] = "data" /\ CrateOf[e] = c}
        BY <1>1, <2>2, <3>2 DEF OkMeansAllMerged, Merged, IsInjective, Range
      <4>2. {e \in Entries : outcome[e] = "data" /\ CrateOf[e] = c}
              = {e \in Promise!With("data") : CrateOf[e] = c}
        BY DEF Promise!With
      <4>3. QED
        BY <4>1, <4>2 DEF IsInjective, Range, Promise!IsInjective, Promise!Range
    <3>5. Promise!Succeed
      BY <1>1, <2>2, <3>1, <3>3, <3>4 DEF Returned, Promise!Succeed
    <3>6. QED
      BY <3>5 DEF Promise!Next
  <2>3. CASE main' = "err"
    <3>1. main = "joining" /\ collector = "failed"
      BY <1>4, <2>3 DEF Main, FinishWalk, Join
    <3>2. error \in Entries /\ outcome[error] = "err"
      BY <3>1 DEF IInv, ErrorIsReal
    <3>3. QED
      BY <1>1, <2>1, <2>3, <3>1, <3>2
      DEF Returned, Promise!Next, Promise!Fail, Promise!With
  <2>4. CASE main' = "panicked"
    <3>1. PICK w \in Walkers : main = "walking" /\ pc[w] = "panicked"
      BY <1>4, <2>4 DEF Main, FinishWalk, Join
    <3>2. work[w] \in Entries
      BY <3>1, BusyHoldsEntry DEF IInv
    <3>3. \/ Promise!With("panic") # {}
          \/ \E e \in Promise!With("err") :
               \E r \in Promise!With("err") \cup Promise!With("data") : r # e
      <4>1. CASE outcome[work[w]] = "panic"
        BY <3>2, <4>1 DEF Promise!With
      <4>2. CASE collector = "failed" /\ outcome[work[w]] \in {"data", "err"}
        <5>1. error \in Entries /\ outcome[error] = "err" /\ work[w] # error
          BY <4>2 DEF IInv, ErrorIsReal
        <5>2. /\ error \in Promise!With("err")
              /\ work[w] \in Promise!With("err") \cup Promise!With("data")
          BY <3>2, <4>2, <5>1 DEF Promise!With
        <5>3. QED
          BY <5>1, <5>2
      <4>3. QED
        BY <3>1, <4>1, <4>2 DEF IInv, PanicHasCause
    <3>4. QED
      BY <1>1, <2>1, <2>4, <3>1, <3>3 DEF Returned, Promise!Next, Promise!Unwind
  <2>5. CASE main' = "joining"
    <3>1. main = "walking"
      BY <1>4, <2>5 DEF Main, FinishWalk, Join
    <3>2. QED
      BY <1>1, <2>1, <2>5, <3>1 DEF Returned, Promise!vars
  <2>6. QED
    BY <1>4, <2>2, <2>3, <2>4, <2>5 DEF Main, FinishWalk, Join
<1>5. QED
  <2>1. \/ main' = main /\ data' = data /\ error' = error
        \/ ReceiveData \/ ReceiveError \/ Main
    BY DEF Next, Walker, Take, Visit, Send, Deliver, SendUnwrap, Quit, Exit, Collector,
           DropReceiver, Drained, Stopped, vars
  <2>2. QED
    BY <1>2, <1>3, <1>4, <2>1

(* parallel_parse keeps its promise, for any tree, threads and capacity. *)
THEOREM Refinement == Spec => ImplementsParseDirs
<1>1. Spec => Promise!Init /\ [][Promise!Next]_Promise!vars
  BY PromiseInit, PromiseStep, Invariant, PTL DEF Spec
<1>2. QED
  BY <1>1 DEF ImplementsParseDirs, Promise!Spec
=============================================================================

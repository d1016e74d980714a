-------------------------- MODULE FeedRunnerProofs --------------------------
(***************************************************************************)
(* Proofs about FeedRunner, for any callers and any number of threads:     *)
(* type correctness, that no thread lives outside the runner's hold, that  *)
(* the published pump is the live one, and that stops reach only the pump  *)
(* they were meant for.                                                    *)
(*                                                                         *)
(* A start needs a runner without a live thread, so with NoOrphan there is *)
(* no live thread at all when one is spawned; the last block of a stop     *)
(* forgets only a dead thread.  What a stop read in its first block stays  *)
(* a pair: a pump it holds is the pump of the thread it holds.             *)
(***************************************************************************)
EXTENDS FeedRunner, TLAPS

\* A published pump is its thread's until the thread withdraws it.
PublishedOK ==
  published # None =>
    /\ thread = published
    /\ at[published] \in {"looping", "connecting", "streaming", "waiting", "closing", "closed"}

\* A stop holds a thread, and no other thread's pump.
CallsOK ==
  \A c \in Callers :
    /\ call[c].at # "idle" => call[c].thread # None
    /\ call[c].pump # None => call[c].pump = call[c].thread

Inv == TypeOK /\ NoOrphan /\ PublishedOK /\ CallsOK

-----------------------------------------------------------------------------
\* None names no pump.
LEMMA NoneIsNoPump == None \notin Pumps
BY FeedAssumption DEF Pumps

LEMMA InitOK ==
  ASSUME Init
  PROVE  Inv
BY NoneIsNoPump DEF Init, Inv, TypeOK, NoOrphan, PublishedOK, CallsOK, Idle, Alive, Kinds, WebSockets, Places

\* Without a live thread of the runner no thread is alive.
LEMMA NothingAlive ==
  ASSUME Inv, ~ThreadAlive
  PROVE  /\ \A p \in Pumps : ~Alive(p)
         /\ published = None
<1>1. ASSUME NEW p \in Pumps, Alive(p)
      PROVE  FALSE
  BY <1>1, NoneIsNoPump DEF Inv, NoOrphan, ThreadAlive
<1>2. published = None
  BY <1>1 DEF Inv, PublishedOK, Alive, TypeOK
<1> QED
  BY <1>1, <1>2

\* What a stop tells is one pump that was told nothing.
LEMMA ToldType ==
  ASSUME TypeOK, NEW p \in Pumps \cup {None}
  PROVE  /\ Told(p) \in [Pumps -> {"no", "called", "set"}]
         /\ \A q \in Pumps : Told(p)[q] # stop[q] => p = q
BY DEF TypeOK, Told
-----------------------------------------------------------------------------
\* The thread that publishes is alive, hence the runner's.
LEMMA PublishStep ==
  ASSUME Inv, NEW p \in Pumps, Publish(p)
  PROVE  Inv'
<1>1. TypeOK'
  BY DEF Inv, TypeOK, Publish, Goes, Places
<1>2. NoOrphan'
  BY DEF Inv, TypeOK, NoOrphan, Alive, Publish, Goes
<1>3. PublishedOK'
  BY DEF Inv, TypeOK, NoOrphan, PublishedOK, Alive, Publish, Goes
<1>4. CallsOK'
  BY DEF Inv, CallsOK, Publish
<1> QED
  BY <1>1, <1>2, <1>3, <1>4 DEF Inv

\* A thread that never published closes its loop.
LEMMA BuildFailsStep ==
  ASSUME Inv, NEW p \in Pumps, BuildFails(p)
  PROVE  Inv'
<1>1. TypeOK'
  BY DEF Inv, TypeOK, BuildFails, Goes, Places
<1>2. NoOrphan'
  BY DEF Inv, TypeOK, NoOrphan, Alive, BuildFails, Goes
<1>3. PublishedOK'
  BY DEF Inv, TypeOK, NoOrphan, PublishedOK, Alive, BuildFails, Goes
<1>4. CallsOK'
  BY DEF Inv, CallsOK, BuildFails
<1> QED
  BY <1>1, <1>2, <1>3, <1>4 DEF Inv

\* Only the stop event changes.
LEMMA HearStep ==
  ASSUME Inv, NEW p \in Pumps, Hear(p)
  PROVE  Inv'
<1>1. TypeOK'
  BY DEF Inv, TypeOK, Hear, Goes, Places
<1>2. NoOrphan'
  BY DEF Inv, TypeOK, NoOrphan, Alive, Hear, Goes
<1>3. PublishedOK'
  BY DEF Inv, TypeOK, NoOrphan, PublishedOK, Alive, Hear, Goes
<1>4. CallsOK'
  BY DEF Inv, CallsOK, Hear
<1> QED
  BY <1>1, <1>2, <1>3, <1>4 DEF Inv

\* The pump goes on or leaves; its thread lives on.
LEMMA LoopStep ==
  ASSUME Inv, NEW p \in Pumps, Loop(p)
  PROVE  Inv'
<1>1. TypeOK'
  BY DEF Inv, TypeOK, Loop, Goes, Places
<1>2. NoOrphan'
  BY DEF Inv, TypeOK, NoOrphan, Alive, Loop, Goes
<1>3. PublishedOK'
  BY DEF Inv, TypeOK, NoOrphan, PublishedOK, Alive, Loop, Goes
<1>4. CallsOK'
  BY DEF Inv, CallsOK, Loop
<1> QED
  BY <1>1, <1>2, <1>3, <1>4 DEF Inv

\* The pump connects.
LEMMA ConnectStep ==
  ASSUME Inv, NEW p \in Pumps, Connect(p)
  PROVE  Inv'
<1>1. TypeOK'
  BY DEF Inv, TypeOK, Connect, Goes, Places
<1>2. NoOrphan'
  BY DEF Inv, TypeOK, NoOrphan, Alive, Connect, Goes
<1>3. PublishedOK'
  BY DEF Inv, TypeOK, NoOrphan, PublishedOK, Alive, Connect, Goes
<1>4. CallsOK'
  BY DEF Inv, CallsOK, Connect
<1> QED
  BY <1>1, <1>2, <1>3, <1>4 DEF Inv

\* The pump leaves its stream.
LEMMA FrameAfterStopStep ==
  ASSUME Inv, NEW p \in Pumps, FrameAfterStop(p)
  PROVE  Inv'
<1>1. TypeOK'
  BY DEF Inv, TypeOK, FrameAfterStop, Goes, Places
<1>2. NoOrphan'
  BY DEF Inv, TypeOK, NoOrphan, Alive, FrameAfterStop, Goes
<1>3. PublishedOK'
  BY DEF Inv, TypeOK, NoOrphan, PublishedOK, Alive, FrameAfterStop, Goes
<1>4. CallsOK'
  BY DEF Inv, CallsOK, FrameAfterStop
<1> QED
  BY <1>1, <1>2, <1>3, <1>4 DEF Inv

\* The pump's stream ends.
LEMMA StreamEndsStep ==
  ASSUME Inv, NEW p \in Pumps, StreamEnds(p)
  PROVE  Inv'
<1>1. TypeOK'
  BY DEF Inv, TypeOK, StreamEnds, Goes, Places
<1>2. NoOrphan'
  BY DEF Inv, TypeOK, NoOrphan, Alive, StreamEnds, Goes
<1>3. PublishedOK'
  BY DEF Inv, TypeOK, NoOrphan, PublishedOK, Alive, StreamEnds, Goes
<1>4. CallsOK'
  BY DEF Inv, CallsOK, StreamEnds
<1> QED
  BY <1>1, <1>2, <1>3, <1>4 DEF Inv

\* The pump's attempt ends.
LEMMA AttemptStep ==
  ASSUME Inv, NEW p \in Pumps, Attempt(p)
  PROVE  Inv'
<1>1. TypeOK'
  BY DEF Inv, TypeOK, Attempt, Goes, Places
<1>2. NoOrphan'
  BY DEF Inv, TypeOK, NoOrphan, Alive, Attempt, Goes
<1>3. PublishedOK'
  BY DEF Inv, TypeOK, NoOrphan, PublishedOK, Alive, Attempt, Goes
<1>4. CallsOK'
  BY DEF Inv, CallsOK, Attempt
<1> QED
  BY <1>1, <1>2, <1>3, <1>4 DEF Inv

\* The pump gives up.
LEMMA LeavesStep ==
  ASSUME Inv, NEW p \in Pumps, Leaves(p)
  PROVE  Inv'
<1>1. TypeOK'
  BY DEF Inv, TypeOK, Leaves, Goes, Places
<1>2. NoOrphan'
  BY DEF Inv, TypeOK, NoOrphan, Alive, Leaves, Goes
<1>3. PublishedOK'
  BY DEF Inv, TypeOK, NoOrphan, PublishedOK, Alive, Leaves, Goes
<1>4. CallsOK'
  BY DEF Inv, CallsOK, Leaves
<1> QED
  BY <1>1, <1>2, <1>3, <1>4 DEF Inv

\* The pump's wait ends.
LEMMA WakeStep ==
  ASSUME Inv, NEW p \in Pumps, Wake(p)
  PROVE  Inv'
<1>1. TypeOK'
  BY DEF Inv, TypeOK, Wake, Goes, Places
<1>2. NoOrphan'
  BY DEF Inv, TypeOK, NoOrphan, Alive, Wake, Goes
<1>3. PublishedOK'
  BY DEF Inv, TypeOK, NoOrphan, PublishedOK, Alive, Wake, Goes
<1>4. CallsOK'
  BY DEF Inv, CallsOK, Wake
<1> QED
  BY <1>1, <1>2, <1>3, <1>4 DEF Inv

\* A closed loop is published still.
LEMMA CloseLoopStep ==
  ASSUME Inv, NEW p \in Pumps, CloseLoop(p)
  PROVE  Inv'
<1>1. TypeOK'
  BY DEF Inv, TypeOK, CloseLoop, Goes, Places
<1>2. NoOrphan'
  BY DEF Inv, TypeOK, NoOrphan, Alive, CloseLoop, Goes
<1>3. PublishedOK'
  BY DEF Inv, TypeOK, NoOrphan, PublishedOK, Alive, CloseLoop, Goes
<1>4. CallsOK'
  BY DEF Inv, CallsOK, CloseLoop
<1> QED
  BY <1>1, <1>2, <1>3, <1>4 DEF Inv

\* Nothing is published once a thread has withdrawn.
LEMMA WithdrawStep ==
  ASSUME Inv, NEW p \in Pumps, Withdraw(p)
  PROVE  Inv'
<1>1. TypeOK'
  BY DEF Inv, TypeOK, Withdraw, Goes, Places
<1>2. NoOrphan'
  BY DEF Inv, TypeOK, NoOrphan, Alive, Withdraw, Goes
<1>3. PublishedOK'
  BY DEF Inv, TypeOK, NoOrphan, PublishedOK, Alive, Withdraw, Goes
<1>4. CallsOK'
  BY DEF Inv, CallsOK, Withdraw
<1> QED
  BY <1>1, <1>2, <1>3, <1>4 DEF Inv

\* The thread that ends has withdrawn its pump.
LEMMA EndStep ==
  ASSUME Inv, NEW p \in Pumps, End(p)
  PROVE  Inv'
<1>1. TypeOK'
  BY DEF Inv, TypeOK, End, Goes, Places
<1>2. NoOrphan'
  BY DEF Inv, TypeOK, NoOrphan, Alive, End, Goes
<1>3. PublishedOK'
  BY DEF Inv, TypeOK, NoOrphan, PublishedOK, Alive, End, Goes
<1>4. CallsOK'
  BY DEF Inv, CallsOK, End
<1> QED
  BY <1>1, <1>2, <1>3, <1>4 DEF Inv

-----------------------------------------------------------------------------
\* A thread is spawned only when none is alive, and then it is the runner's.
LEMMA StartStep ==
  ASSUME Inv, NEW c \in Callers, Start(c)
  PROVE  Inv'
<1>1. PICK p \in Pumps : Spawn(p)
  BY DEF Start
<1>2. (\A q \in Pumps : ~Alive(q)) /\ published = None
  BY NothingAlive DEF Start
<1>3. TypeOK'
  BY <1>1 DEF Inv, TypeOK, Start, Spawn, Goes, Places
<1>4. NoOrphan'
  BY <1>1, <1>2 DEF Inv, TypeOK, NoOrphan, Alive, Start, Spawn, Goes
<1>5. PublishedOK'
  BY <1>2 DEF PublishedOK, Start
<1>6. CallsOK'
  BY DEF Inv, CallsOK, Start
<1> QED
  BY <1>3, <1>4, <1>5, <1>6 DEF Inv

\* A stop reads a thread with the pump that is the thread's, if any.
LEMMA StopReadsStep ==
  ASSUME Inv, NEW c \in Callers, StopReads(c)
  PROVE  Inv'
<1>1. TypeOK'
  BY DEF Inv, TypeOK, StopReads
<1>2. NoOrphan' /\ PublishedOK'
  BY DEF Inv, NoOrphan, PublishedOK, Alive, StopReads
<1>3. CallsOK'
  BY DEF Inv, TypeOK, PublishedOK, CallsOK, StopReads
<1> QED
  BY <1>1, <1>2, <1>3 DEF Inv

\* A stop that gives up forgets what it read.
LEMMA StopGivesUpStep ==
  ASSUME Inv, NEW c \in Callers, StopGivesUp(c)
  PROVE  Inv'
<1>1. TypeOK'
  BY DEF Inv, TypeOK, StopGivesUp, Idle
<1>2. NoOrphan' /\ PublishedOK'
  BY DEF Inv, NoOrphan, PublishedOK, Alive, StopGivesUp
<1>3. CallsOK'
  BY DEF Inv, TypeOK, CallsOK, StopGivesUp, Idle
<1> QED
  BY <1>1, <1>2, <1>3 DEF Inv

\* A stop that has told its pump waits for the thread.
LEMMA SignalStep ==
  ASSUME Inv, NEW c \in Callers, Signal(c)
  PROVE  Inv'
<1>0. call[c].pump \in Pumps \cup {None}
  BY DEF Inv, TypeOK
<1>1. TypeOK'
  BY ToldType, <1>0 DEF Inv, TypeOK, Signal
<1>2. NoOrphan' /\ PublishedOK'
  BY DEF Inv, NoOrphan, PublishedOK, Alive, Signal
<1>3. CallsOK'
  BY DEF Inv, TypeOK, CallsOK, Signal, Idle
<1> QED
  BY <1>1, <1>2, <1>3 DEF Inv

\* A join ends.
LEMMA JoinStep ==
  ASSUME Inv, NEW c \in Callers, Join(c)
  PROVE  Inv'
<1>1. TypeOK'
  BY DEF Inv, TypeOK, Join, Idle
<1>2. NoOrphan' /\ PublishedOK'
  BY DEF Inv, NoOrphan, PublishedOK, Alive, Join
<1>3. CallsOK'
  BY DEF Inv, TypeOK, CallsOK, Join, Idle
<1> QED
  BY <1>1, <1>2, <1>3 DEF Inv

\* Only a dead thread is forgotten, so nothing alive or published is lost.
LEMMA ClearStep ==
  ASSUME Inv, NEW c \in Callers, Clear(c)
  PROVE  Inv'
<1>1. TypeOK'
  BY DEF Inv, TypeOK, Clear, Idle
<1>2. NoOrphan'
  BY DEF Inv, NoOrphan, Alive, Clear
<1>3. PublishedOK'
  BY DEF Inv, PublishedOK, Alive, Clear
<1>4. CallsOK'
  BY DEF Inv, TypeOK, CallsOK, Clear, Idle
<1> QED
  BY <1>1, <1>2, <1>3, <1>4 DEF Inv
-----------------------------------------------------------------------------
LEMMA StepOK ==
  ASSUME Inv, [Next]_vars
  PROVE  Inv'
<1>1. ASSUME NEW c \in Callers, Start(c) \/ StopReads(c) \/ StopSteps(c)
      PROVE  Inv'
  BY <1>1, StartStep, StopReadsStep, StopGivesUpStep, SignalStep, JoinStep, ClearStep DEF StopSteps
<1>2. ASSUME NEW p \in Pumps, ThreadSteps(p)
      PROVE  Inv'
  BY <1>2, PublishStep, LoopStep, WakeStep, CloseLoopStep, WithdrawStep, EndStep DEF ThreadSteps
<1>3. ASSUME NEW p \in Pumps,
             AttemptEnds(p) \/ Hear(p) \/ BuildFails(p) \/ FrameAfterStop(p) \/ StreamEnds(p)
      PROVE  Inv'
  BY <1>3, ConnectStep, AttemptStep, LeavesStep, HearStep, BuildFailsStep,
     FrameAfterStopStep, StreamEndsStep DEF AttemptEnds
<1>4. CASE UNCHANGED vars
  BY <1>4 DEF vars, Inv, TypeOK, NoOrphan, PublishedOK, CallsOK, Alive
<1> QED
  BY <1>1, <1>2, <1>3, <1>4 DEF Next

\* The inductive invariant holds in every behaviour.
THEOREM InvHolds == Spec => []Inv
<1>1. Init => Inv
  BY InitOK
<1>2. Inv /\ [Next]_vars => Inv'
  BY StepOK
<1> QED
  BY <1>1, <1>2, PTL DEF Spec

\* Every variable of the runner, its threads and its callers keeps its type.
THEOREM TypeCorrect == Spec => []TypeOK
<1>1. Inv => TypeOK
  BY DEF Inv
<1> QED
  BY <1>1, InvHolds, PTL

\* No thread lives that the runner does not hold, whatever starts, stops,
\* timeouts and crashes overlap: there is never a second feed into the sink.
THEOREM NoThreadIsOrphaned == Spec => []NoOrphan
<1>1. Inv => NoOrphan
  BY DEF Inv
<1> QED
  BY <1>1, InvHolds, PTL

\* What a stop or a status finds published is the live thread's pump.
THEOREM PublishedPumpIsLive == Spec => []PublishedIsLive
<1>1. Inv => PublishedIsLive
  BY DEF Inv, PublishedOK, PublishedIsLive, Alive
<1> QED
  BY <1>1, InvHolds, PTL

\* Only a stop that found a thread as the runner's tells that thread's pump
\* to stop.
THEOREM StopsReachTheirPump == Spec => StopsAreAddressed
<1> DEFINE Addressed ==
      \A p \in Pumps :
        stop[p] = "no" /\ stop'[p] # "no" =>
          \E c \in Callers : call[c].at = "signal" /\ call[c].thread = p
<1>1. ASSUME Inv, [Next]_vars
      PROVE  [Addressed]_vars
  <2> SUFFICES ASSUME NEW p \in Pumps, stop[p] = "no", stop'[p] # "no"
               PROVE  \E c \in Callers : call[c].at = "signal" /\ call[c].thread = p
    OBVIOUS
  <2>1. CASE \E c \in Callers : Signal(c)
    <3>1. PICK c \in Callers : Signal(c)
      BY <2>1
    <3>2. call[c].pump \in Pumps \cup {None} /\ stop' = Told(call[c].pump)
      BY <1>1, <3>1 DEF Inv, TypeOK, Signal
    <3>3. call[c].pump = p
      BY <1>1, <3>2, ToldType DEF Inv
    <3>4. call[c].thread = p
      BY <1>1, <3>3, NoneIsNoPump DEF Inv, CallsOK
    <3> QED
      BY <3>1, <3>4 DEF Signal
  <2>2. CASE \E q \in Pumps : Hear(q)
    BY <1>1, <2>2 DEF Inv, TypeOK, Hear
  <2>3. CASE UNCHANGED stop
    BY <2>3
  <2> QED
    BY <1>1, <2>1, <2>2, <2>3
    DEF Next, vars, Start, StopReads, StopSteps, StopGivesUp, Join, Clear, ThreadSteps,
        Publish, Loop, Wake, CloseLoop, Withdraw, End, AttemptEnds, Connect, Attempt,
        Leaves, BuildFails, FrameAfterStop, StreamEnds
<1> QED
  BY <1>1, InvHolds, PTL DEF Spec, StopsAreAddressed
=============================================================================

----------------------------- MODULE FeedRunner -----------------------------
(***************************************************************************)
(* A live feed of the harness: a runner that owns at most one background   *)
(* thread, the asyncio loop and the pump on it (ui/feeds/runner.py and its *)
(* three siblings).  The operator's routes and the plugin page start and   *)
(* stop it from the server's thread pool, the boot starts it once.         *)
(*                                                                         *)
(* A step is what happens between two points where another thread can see  *)
(* or change something: a block under the runner's lock, a callback of the *)
(* loop, an await of the pump.  A start spawns a new thread with a new     *)
(* pump, so both are named by one number.  The order in which the loop     *)
(* serves a callback and a wake-up that are due together is left open.     *)
(***************************************************************************)
EXTENDS Naturals

CONSTANTS
  Callers,    \* request threads that may call start and stop at once
  MaxPumps,   \* bound: how many threads a behaviour may spawn
  None

ASSUME FeedAssumption == MaxPumps \in Nat /\ None \notin Nat

Pumps == 1 .. MaxPumps

\* Binance and Pump.fun keep a web socket, CoinDesk and Raydium poll.
WebSockets == {"FeedRunner", "PumpFunFeedRunner"}
Kinds == WebSockets \cup {"CoinDeskRSSFeedRunner", "RaydiumPoolFeedRunner"}

VARIABLES
  kind,       \* the class of the runner
  thread,     \* _thread
  published,  \* _pump and _loop, set and cleared together
  at,         \* at[p]: where the thread of pump p is
  stop,       \* stop[p]: pump p's stop event and the callback that sets it
  call        \* call[c]: the stop that caller c is in

vars == <<kind, thread, published, at, stop, call>>

Places ==
  {"unborn", "launched", "looping", "connecting", "streaming", "waiting",
   "closing", "closed", "ending", "dead"}

\* Thread.is_alive, and the loop that still takes callbacks.
Alive(p) == at[p] \notin {"unborn", "dead"}
LoopOpen(p) == at[p] \in {"looping", "connecting", "streaming", "waiting", "closing"}

Idle == [at |-> "idle", thread |-> None, pump |-> None]

ThreadAlive == thread # None /\ Alive(thread)

Goes(p, place) == at' = [at EXCEPT ![p] = place]

-----------------------------------------------------------------------------
Init ==
  /\ kind \in Kinds
  /\ thread = None
  /\ published = None
  /\ at = [p \in Pumps |-> "unborn"]
  /\ stop = [p \in Pumps |-> "no"]
  /\ call = [c \in Callers |-> Idle]

\* A start makes the next thread the runner's and lets it run.
Spawn(p) ==
  /\ at[p] = "unborn"
  /\ \A q \in Pumps : q < p => at[q] # "unborn"
  /\ Goes(p, "launched")
  /\ thread' = p

\* Mutant: a thread without a published pump counts as none.
Start_InTheWindow(c) ==
  /\ call[c].at = "idle"
  /\ ThreadAlive => published = None
  /\ \E p \in Pumps : Spawn(p)
  /\ UNCHANGED <<kind, published, stop, call>>

\* start of a runner whose thread is not alive.  On a live thread start only
\* reads a status, the pump's or a provisional one.
Start(c) ==
  /\ call[c].at = "idle"
  /\ ~ThreadAlive
  /\ \E p \in Pumps : Spawn(p)
  /\ UNCHANGED <<kind, published, stop, call>>

\* stop, first block: loop, pump and thread are read together.  Without a
\* thread the rest of stop changes nothing.
StopReads(c) ==
  /\ call[c].at = "idle"
  /\ thread # None
  /\ call' = [call EXCEPT ![c] = [at |-> "signal", thread |-> thread, pump |-> published]]
  /\ UNCHANGED <<kind, thread, published, at, stop>>

\* Only FeedRunner.stop asks whether the thread is alive before it goes on.
StopGivesUp(c) ==
  /\ call[c].at = "signal"
  /\ kind = "FeedRunner"
  /\ ~Alive(call[c].thread)
  /\ call' = [call EXCEPT ![c] = Idle]
  /\ UNCHANGED <<kind, thread, published, at, stop>>

\* call_soon_threadsafe(pump.stop), which does nothing without a pump and
\* raises, to be swallowed, once the loop is closed.
Told(p) ==
  IF p # None /\ LoopOpen(p) /\ stop[p] = "no" THEN [stop EXCEPT ![p] = "called"] ELSE stop

\* Mutant: the pump is read again after the lock was released.
Signal_Rereads(c) ==
  /\ call[c].at = "signal"
  /\ kind = "FeedRunner" => Alive(call[c].thread)
  /\ stop' = Told(published)
  /\ call' = [call EXCEPT ![c].at = "join"]
  /\ UNCHANGED <<kind, thread, published, at>>

Signal(c) ==
  /\ call[c].at = "signal"
  /\ kind = "FeedRunner" => Alive(call[c].thread)
  /\ stop' = Told(call[c].pump)
  /\ call' = [call EXCEPT ![c].at = "join"]
  /\ UNCHANGED <<kind, thread, published, at>>

\* Mutant: the join waits for the thread alone.
Join_NoTimeout(c) ==
  /\ call[c].at = "join"
  /\ ~Alive(call[c].thread)
  /\ call' = [call EXCEPT ![c].at = "clear"]
  /\ UNCHANGED <<kind, thread, published, at, stop>>

\* join ends with the thread or with its timeout.
Join(c) ==
  /\ call[c].at = "join"
  /\ call' = [call EXCEPT ![c].at = "clear"]
  /\ UNCHANGED <<kind, thread, published, at, stop>>

\* stop, last block: the thread is forgotten only if it is the one that was
\* joined and the join did not time out.
Clear(c) ==
  /\ call[c].at = "clear"
  /\ thread' = IF thread = call[c].thread /\ ~Alive(call[c].thread) THEN None ELSE thread
  /\ call' = [call EXCEPT ![c] = Idle]
  /\ UNCHANGED <<kind, published, at, stop>>

-----------------------------------------------------------------------------
\* The thread builds its pump and publishes it with the loop.
Publish(p) ==
  /\ at[p] = "launched"
  /\ published' = p
  /\ Goes(p, "looping")
  /\ UNCHANGED <<kind, thread, stop, call>>

\* The pump refuses its arguments: start's symbols reach it unchecked.
BuildFails(p) ==
  /\ at[p] = "launched"
  /\ kind = "FeedRunner"
  /\ Goes(p, "closing")
  /\ UNCHANGED <<kind, thread, published, stop, call>>

\* The loop runs the callback of a stop while the pump awaits something.
Hear(p) ==
  /\ stop[p] = "called"
  /\ at[p] \in {"looping", "connecting", "streaming", "waiting"}
  /\ stop' = [stop EXCEPT ![p] = "set"]
  /\ UNCHANGED <<kind, thread, published, at, call>>

\* Mutant: the loop does not look at the stop event.
Loop_ForEver(p) ==
  /\ at[p] = "looping"
  /\ Goes(p, "connecting")
  /\ UNCHANGED <<kind, thread, published, stop, call>>

\* The head of the pump's loop.
Loop(p) ==
  /\ at[p] = "looping"
  /\ Goes(p, IF stop[p] = "set" THEN "closing" ELSE "connecting")
  /\ UNCHANGED <<kind, thread, published, stop, call>>

\* A socket connects and streams.  A frame is handled without a change here,
\* unless the stop event is set: only a frame makes the pump look.
Connect(p) ==
  /\ at[p] = "connecting"
  /\ kind \in WebSockets
  /\ Goes(p, "streaming")
  /\ UNCHANGED <<kind, thread, published, stop, call>>

FrameAfterStop(p) ==
  /\ at[p] = "streaming"
  /\ stop[p] = "set"
  /\ Goes(p, "closing")
  /\ UNCHANGED <<kind, thread, published, stop, call>>

StreamEnds(p) ==
  /\ at[p] = "streaming"
  /\ Goes(p, "waiting")
  /\ UNCHANGED <<kind, thread, published, stop, call>>

\* A failed connection, or a poll with or without a result: the pump waits
\* for its delay or for the stop event.
Attempt(p) ==
  /\ at[p] = "connecting"
  /\ Goes(p, "waiting")
  /\ UNCHANGED <<kind, thread, published, stop, call>>

\* Solana answers 403, or a poll of Raydium raises what the poller does not
\* catch: the pump leaves its loop for good.
Leaves(p) ==
  /\ at[p] = "connecting"
  /\ kind \in {"PumpFunFeedRunner", "RaydiumPoolFeedRunner"}
  /\ Goes(p, "closing")
  /\ UNCHANGED <<kind, thread, published, stop, call>>

Wake(p) ==
  /\ at[p] = "waiting"
  /\ Goes(p, "looping")
  /\ UNCHANGED <<kind, thread, published, stop, call>>

\* The thread's finally: the loop is closed, then pump and loop withdrawn
\* under the lock, then the thread ends.
CloseLoop(p) ==
  /\ at[p] = "closing"
  /\ Goes(p, "closed")
  /\ UNCHANGED <<kind, thread, published, stop, call>>

Withdraw(p) ==
  /\ at[p] = "closed"
  /\ published' = None
  /\ Goes(p, "ending")
  /\ UNCHANGED <<kind, thread, stop, call>>

End(p) ==
  /\ at[p] = "ending"
  /\ Goes(p, "dead")
  /\ UNCHANGED <<kind, thread, published, stop, call>>

-----------------------------------------------------------------------------
StopSteps(c) == StopGivesUp(c) \/ Signal(c) \/ Join(c) \/ Clear(c)

\* The end of an attempt, which has a timeout in every class.
AttemptEnds(p) == Connect(p) \/ Attempt(p) \/ Leaves(p)

\* What the thread does without waiting for anyone.
ThreadSteps(p) == Publish(p) \/ Loop(p) \/ Wake(p) \/ CloseLoop(p) \/ Withdraw(p) \/ End(p)

Next ==
  \/ \E c \in Callers : Start(c) \/ StopReads(c) \/ StopSteps(c)
  \/ \E p \in Pumps :
       \/ ThreadSteps(p) \/ AttemptEnds(p) \/ Hear(p)
       \/ BuildFails(p) \/ FrameAfterStop(p) \/ StreamEnds(p)

\* A call that has begun goes on, and so do a thread and its loop; nothing is
\* assumed of operators, nor of a stream: the client sends no pings, so a
\* silent one may stay silent for ever.
Fairness ==
  /\ \A c \in Callers : WF_vars(StopSteps(c))
  /\ \A p \in Pumps : WF_vars(ThreadSteps(p)) /\ WF_vars(AttemptEnds(p)) /\ WF_vars(Hear(p))

Spec == Init /\ [][Next]_vars /\ Fairness

-----------------------------------------------------------------------------
\* Every variable keeps its type.
TypeOK ==
  /\ kind \in Kinds
  /\ thread \in Pumps \cup {None}
  /\ published \in Pumps \cup {None}
  /\ at \in [Pumps -> Places]
  /\ stop \in [Pumps -> {"no", "called", "set"}]
  /\ call \in [Callers -> [at : {"idle", "signal", "join", "clear"},
                           thread : Pumps \cup {None}, pump : Pumps \cup {None}]]

\* A thread that lives is the one the runner holds, so there is never a
\* second one that nobody can stop and that feeds the sink twice: not in the
\* window before the pump is published, not after a join that timed out, not
\* when a late stop meets the thread of a later start.
NoOrphan == \A p \in Pumps : Alive(p) => thread = p

\* The pump and loop a stop or a status may find are those of the live
\* thread, though threads publish and withdraw them on their own.
PublishedIsLive == published # None => thread = published /\ Alive(published)

\* A pump is told to stop only by a stop that found its thread as the
\* runner's: a stop that was overtaken by a later start does not kill it.
StopsAreAddressed ==
  [][\A p \in Pumps :
       stop[p] = "no" /\ stop'[p] # "no" =>
         \E c \in Callers : call[c].at = "signal" /\ call[c].thread = p]_vars

\* A pump that was told to stop ends, unless it sits in a stream that brings
\* nothing more: backoff, reconnects and polls never hide the stop event.
ToldPumpsEnd ==
  \A p \in Pumps : stop[p] # "no" ~> (at[p] = "dead" \/ [](at[p] = "streaming"))

\* Every stop returns to its caller, also one that told no pump.
StopsReturn == \A c \in Callers : call[c].at # "idle" ~> call[c].at = "idle"
=============================================================================

------------------------------ MODULE EventLedger ------------------------------
(***************************************************************************)
(* The event store (a hash-chained SQLite table) and the asynchronous      *)
(* writer in front of it.                                                  *)
(*                                                                         *)
(* Callers hand events to the writer, which queues them for its own        *)
(* thread; when the queue is full the caller appends for itself, and some  *)
(* callers append directly.  Every append runs under the store's lock.     *)
(* The model keeps the interleaving of the callers, the writer's thread    *)
(* and the shutdown sequence, appends that raise, the breaker that kills   *)
(* the process, crashes, and power losses that undo the latest commits     *)
(* (WAL with synchronous = NORMAL).                                        *)
(*                                                                         *)
(* A hash is modelled by what it commits to: the sequence of the events up *)
(* to its row.                                                             *)
(***************************************************************************)
EXTENDS Naturals, Sequences

CONSTANTS
  Callers,          \* threads that write events
  Events,           \* events; each is handed over once
  ShutdownComplete, \* the last event of run_shutdown
  None,             \* no event
  Capacity,         \* maxsize of the writer's queue
  FailThreshold,    \* LEDGER_FAIL_THRESHOLD
  AppendMayRaise,   \* an INSERT or a commit may raise (and is rolled back)
  MaxBoots          \* bound on the boots explored

ASSUME LedgerConstantsOK ==
  /\ None \notin Events
  /\ ShutdownComplete \notin Events \cup {None}
  /\ Capacity \in Nat \ {0}
  /\ FailThreshold \in Nat \ {0}
  /\ AppendMayRaise \in BOOLEAN
  /\ MaxBoots \in Nat

VARIABLES
  rows,      \* the events table (durable)
  lastHash,  \* EventStore._prev_hash
  queue,     \* AsyncWriter._q
  thread,    \* where the writer's thread is
  hand,      \* the job the writer's thread took from the queue
  direct,    \* the event each caller is appending for itself
  stopping,  \* AsyncWriter._stop
  failures,  \* AsyncWriter._consecutive_failures
  shutdown,  \* how far run_shutdown has gone
  alive,     \* the process runs
  boots,     \* boots so far
  submitted, \* history: events handed over
  accepted,  \* history: events queued since the boot, in order
  dropped    \* history: queued events whose append raised

memory  == <<lastHash, queue, thread, hand, direct, stopping, failures,
             shutdown, alive, accepted>>
history == <<submitted, accepted, dropped>>
vars    == <<rows, memory, boots, submitted, dropped>>
-----------------------------------------------------------------------------
GENESIS == <<>>

HashOf(e, prev) == Append(prev, e)

Row(e, prev) == [event |-> e, prev_hash |-> prev, event_hash |-> HashOf(e, prev)]

AllEvents == Events \cup {ShutdownComplete}

Rows == [event : AllEvents, prev_hash : Seq(AllEvents),
         event_hash : Seq(AllEvents)]

\* EventStore._load_last_hash
HeadHash(s) == IF s = <<>> THEN GENESIS ELSE s[Len(s)].event_hash

\* EventStore.append, when it returns: the row is committed, then the cached
\* hash advances, all under the store's lock.
StoreAppend(e) ==
  /\ rows' = Append(rows, Row(e, lastHash))
  /\ lastHash' = HashOf(e, lastHash)

\* Memory of a process that is not running.
Vanish ==
  /\ lastHash' = GENESIS
  /\ queue' = <<>>
  /\ thread' = "exited"
  /\ hand' = None
  /\ direct' = [c \in Callers |-> None]
  /\ stopping' = FALSE
  /\ failures' = 0
  /\ shutdown' = "no"
  /\ alive' = FALSE
  /\ accepted' = <<>>

Init ==
  /\ rows = <<>>
  /\ lastHash = HeadHash(rows)
  /\ queue = <<>>
  /\ thread = "looping"
  /\ hand = None
  /\ direct = [c \in Callers |-> None]
  /\ stopping = FALSE
  /\ failures = 0
  /\ shutdown = "no"
  /\ alive = TRUE
  /\ boots = 1
  /\ submitted = {}
  /\ accepted = <<>>
  /\ dropped = {}
-----------------------------------------------------------------------------
(***************************************************************************)
(* Callers.                                                                *)
(***************************************************************************)
MaySubmit(c, e) ==
  /\ alive
  /\ direct[c] = None
  /\ e \notin submitted

\* AsyncWriter.write, put_nowait succeeds.  It does not look at _stop.
Write(c, e) ==
  /\ MaySubmit(c, e)
  /\ Len(queue) < Capacity
  /\ queue' = Append(queue, e)
  /\ submitted' = submitted \cup {e}
  /\ accepted' = Append(accepted, e)
  /\ UNCHANGED <<rows, lastHash, thread, hand, direct, stopping, failures,
                 shutdown, alive, boots, dropped>>

TakeForItself(c, e) ==
  /\ MaySubmit(c, e)
  /\ direct' = [direct EXCEPT ![c] = e]
  /\ submitted' = submitted \cup {e}
  /\ UNCHANGED <<rows, lastHash, queue, thread, hand, stopping, failures,
                 shutdown, alive, boots, accepted, dropped>>

\* AsyncWriter.write, queue.Full: the caller is about to append for itself.
\* The queue may drain before it does.
WriteFull(c, e) == Len(queue) = Capacity /\ TakeForItself(c, e)

\* event_store.append_event: callers that bypass the writer.
AppendEvent(c, e) == TakeForItself(c, e)

AppendReturns(c) ==
  /\ alive
  /\ direct[c] # None
  /\ StoreAppend(direct[c])
  /\ direct' = [direct EXCEPT ![c] = None]
  /\ UNCHANGED <<queue, thread, hand, stopping, failures, shutdown, alive,
                 boots, history>>

\* The exception reaches the caller; the writer's counter does not move.
AppendRaises(c) ==
  /\ AppendMayRaise
  /\ alive
  /\ direct[c] # None
  /\ direct' = [direct EXCEPT ![c] = None]
  /\ UNCHANGED <<rows, lastHash, queue, thread, hand, stopping, failures,
                 shutdown, alive, boots, history>>
-----------------------------------------------------------------------------
(***************************************************************************)
(* The writer's thread.                                                    *)
(***************************************************************************)
\* while not self._stop.is_set()
CheckStop ==
  /\ thread = "looping"
  /\ thread' = IF stopping THEN "exited" ELSE "getting"
  /\ UNCHANGED <<rows, lastHash, queue, hand, direct, stopping, failures,
                 shutdown, alive, boots, history>>

\* queue.Empty after 0.1 s.
GetTimesOut ==
  /\ thread = "getting"
  /\ queue = <<>>
  /\ thread' = "looping"
  /\ UNCHANGED <<rows, lastHash, queue, hand, direct, stopping, failures,
                 shutdown, alive, boots, history>>

\* Mutant: the job leaves the queue only when it is done.
Get_Peek ==
  /\ thread = "getting"
  /\ queue # <<>>
  /\ hand' = Head(queue)
  /\ thread' = "writing"
  /\ UNCHANGED <<rows, lastHash, queue, direct, stopping, failures, shutdown,
                 alive, boots, history>>

\* The thread may be inside get() when stop() is called: it still takes the
\* job.
Get ==
  /\ thread = "getting"
  /\ queue # <<>>
  /\ hand' = Head(queue)
  /\ queue' = Tail(queue)
  /\ thread' = "writing"
  /\ UNCHANGED <<rows, lastHash, direct, stopping, failures, shutdown, alive,
                 boots, history>>

JobDone ==
  /\ StoreAppend(hand)
  /\ hand' = None
  /\ thread' = "looping"
  /\ UNCHANGED <<queue, direct, stopping, shutdown, alive, boots, history>>

\* Mutant: a successful write does not reset the counter.
JobReturns_NoReset ==
  /\ thread = "writing"
  /\ JobDone
  /\ UNCHANGED failures

JobReturns ==
  /\ thread = "writing"
  /\ JobDone
  /\ failures' = 0

\* The exception is logged and the job forgotten.
JobForgotten ==
  /\ AppendMayRaise
  /\ thread = "writing"
  /\ dropped' = dropped \cup {hand}
  /\ hand' = None
  /\ failures' = failures + 1
  /\ UNCHANGED <<rows, queue, direct, stopping, shutdown, alive, boots,
                 submitted, accepted>>

\* Mutants: the cached hash advances before the commit; the job goes back to
\* the queue; the breaker waits for one failure more; the exception ends the
\* thread.
JobRaises_HashAdvanced ==
  /\ failures + 1 < FailThreshold
  /\ JobForgotten
  /\ thread' = "looping"
  /\ lastHash' = HashOf(hand, lastHash)

JobRaises_Requeued ==
  /\ AppendMayRaise
  /\ thread = "writing"
  /\ failures + 1 < FailThreshold
  /\ Len(queue) < Capacity
  /\ queue' = Append(queue, hand)
  /\ hand' = None
  /\ failures' = failures + 1
  /\ thread' = "looping"
  /\ UNCHANGED <<rows, lastHash, direct, stopping, shutdown, alive, boots,
                 history>>

JobRaises_OffByOne ==
  /\ failures < FailThreshold
  /\ JobForgotten
  /\ thread' = "looping"
  /\ UNCHANGED lastHash

JobRaises_EndsThread ==
  /\ failures + 1 < FailThreshold
  /\ JobForgotten
  /\ thread' = "exited"
  /\ UNCHANGED lastHash

\* Below the threshold the loop goes on.
JobRaises ==
  /\ failures + 1 < FailThreshold
  /\ JobForgotten
  /\ thread' = "looping"
  /\ UNCHANGED lastHash

\* At the threshold trigger_kill_switch ends the process (os._exit) with
\* whatever its memory held.
BreakerKills ==
  /\ AppendMayRaise
  /\ thread = "writing"
  /\ failures + 1 >= FailThreshold
  /\ dropped' = dropped \cup {hand}
  /\ Vanish
  /\ UNCHANGED <<rows, boots, submitted>>
-----------------------------------------------------------------------------
(***************************************************************************)
(* run_shutdown: stop the writer ("ledger_flush"), then the last record.   *)
(***************************************************************************)
StopWriter ==
  /\ alive
  /\ shutdown = "no"
  /\ shutdown' = "stopped"
  /\ stopping' = TRUE
  /\ UNCHANGED <<rows, lastHash, queue, thread, hand, direct, failures, alive,
                 boots, history>>

RecordShutdown ==
  /\ shutdown = "stopped"
  /\ shutdown' = "complete"
  /\ \/ StoreAppend(ShutdownComplete)
     \/ AppendMayRaise /\ UNCHANGED <<rows, lastHash>>
  /\ UNCHANGED <<queue, thread, hand, direct, stopping, failures, alive, boots,
                 history>>

(***************************************************************************)
(* The process and the machine.                                            *)
(***************************************************************************)
\* The process exits or is killed; every commit stays.
Exit ==
  /\ alive
  /\ Vanish
  /\ UNCHANGED <<rows, boots, submitted, dropped>>

\* The machine stops: commits not yet checkpointed are undone, latest first.
PowerLoss(k) ==
  /\ alive
  /\ rows' = SubSeq(rows, 1, k)
  /\ Vanish
  /\ UNCHANGED <<boots, submitted, dropped>>

\* EventStore.__init__ and the first get_writer.
Boot ==
  /\ ~alive
  /\ boots < MaxBoots
  /\ boots' = boots + 1
  /\ alive' = TRUE
  /\ lastHash' = HeadHash(rows)
  /\ thread' = "looping"
  /\ UNCHANGED <<rows, queue, hand, direct, stopping, failures, shutdown,
                 history>>

WriterThread ==
  CheckStop \/ GetTimesOut \/ Get \/ JobReturns \/ JobRaises \/ BreakerKills

Next ==
  \/ \E c \in Callers, e \in Events :
       Write(c, e) \/ WriteFull(c, e) \/ AppendEvent(c, e)
  \/ \E c \in Callers : AppendReturns(c) \/ AppendRaises(c)
  \/ WriterThread
  \/ StopWriter
  \/ RecordShutdown
  \/ Exit
  \/ \E k \in 0 .. Len(rows) : PowerLoss(k)
  \/ Boot

Spec == Init /\ [][Next]_vars

\* The writer's thread runs as long as its process does: get() times out,
\* an append returns or raises.
FairSpec == Spec /\ WF_vars(WriterThread)
-----------------------------------------------------------------------------
TypeOK ==
  /\ rows \in Seq(Rows)
  /\ lastHash \in Seq(AllEvents)
  /\ queue \in Seq(Events)
  /\ Len(queue) <= Capacity
  /\ thread \in {"looping", "getting", "writing", "exited"}
  /\ hand \in Events \cup {None}
  /\ thread = "writing" <=> hand # None
  /\ direct \in [Callers -> Events \cup {None}]
  /\ stopping \in BOOLEAN
  /\ failures \in Nat
  /\ failures < FailThreshold
  /\ shutdown \in {"no", "stopped", "complete"}
  /\ alive \in BOOLEAN
  /\ boots \in Nat
  /\ submitted \subseteq Events
  /\ accepted \in Seq(Events)
  /\ dropped \subseteq Events

\* EventStore.verify_chain succeeds: from GENESIS on, every row names the hash
\* of the row before it, through failed appends, crashes and power losses.
ChainIntact ==
  \A i \in 1 .. Len(rows) :
    /\ rows[i].prev_hash = IF i = 1 THEN GENESIS ELSE rows[i - 1].event_hash
    /\ rows[i].event_hash = HashOf(rows[i].event, rows[i].prev_hash)

\* The places an event can be in, each with its position.
Places(e) ==
  {<<"rows", i>>   : i \in {j \in 1 .. Len(rows) : rows[j].event = e}} \cup
  {<<"queue", i>>  : i \in {j \in 1 .. Len(queue) : queue[j] = e}} \cup
  {<<"direct", c>> : c \in {d \in Callers : direct[d] = e}} \cup
  {<<"hand", 1>>   : i \in {j \in {1} : hand = e}}

\* No event is recorded twice, whichever of its two paths it takes and
\* wherever the process stops: it is in at most one place, and a dropped one
\* is in none.
RecordedOnce ==
  \A e \in Events :
    /\ \A p, q \in Places(e) : p = q
    /\ e \in dropped => Places(e) = {}

\* Queued events reach the table in the order they were accepted, and none is
\* skipped but those whose own append raised: an overtaking event did not go
\* through the queue.
NoSilentGap ==
  \A i, j \in 1 .. Len(accepted) : \A n \in 1 .. Len(rows) :
    i < j /\ rows[n].event = accepted[j] =>
      \/ accepted[i] \in dropped
      \/ \E m \in 1 .. n - 1 : rows[m].event = accepted[i]

\* A process that has dropped FailThreshold queued events in a row is dead:
\* trading does not go on without an audit trail (INV-65).
OutageKills ==
  \A i \in 1 .. Len(accepted) :
    i + FailThreshold - 1 <= Len(accepted) =>
      \E j \in i .. i + FailThreshold - 1 : accepted[j] \notin dropped

\* How many of the accepted events the writer's thread has taken.
Taken == Len(accepted) - Len(queue)

\* The breaker fires only on an outage: the last FailThreshold events taken
\* from the queue were all dropped.  A failed append of a caller does not
\* count, and one success starts the count again.
OnlyAnOutageKills ==
  [][~alive' /\ dropped' # dropped =>
       /\ Taken >= FailThreshold
       /\ \A j \in Taken - FailThreshold + 1 .. Taken :
            accepted[j] \in dropped']_vars

\* The writer never loses its thread: while nobody asks it to stop and the
\* process lives, an event at the head of the queue leaves the queue.
QueueDrains ==
  \A e \in Events :
    (queue # <<>> /\ Head(queue) = e) ~>
      (queue = <<>> \/ Head(queue) # e \/ stopping \/ ~alive)

\* What run_shutdown says of its steps: the last record is written once the
\* writer is flushed ("ledger_flush", "we drain as much state as possible
\* before process exit").
ShutdownFlushes ==
  [][shutdown = "stopped" /\ shutdown' = "complete" =>
       queue = <<>> /\ hand = None]_vars
=============================================================================

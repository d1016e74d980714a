# Formal models of DIX VISION

TLA+ models of the parts of DIX VISION v42.2 that decide whether an order may
reach a venue and what the ledgers say about it: the write path to the system
mode, the hash-chained event ledger and its asynchronous writer, the lifecycle
of orders and fills, the execution gate, the approval of proposals, the
registry of strategies and its updates, the lifecycle of mutation proposals,
and the live feeds. TLC checks them on small instances; TLAPS proves the
results listed below for every value of the constants. Paths are relative to the repository's `src/`.

Contents: 1 inventory, 2 models, 3 runs, 4 proofs, 5 where code and
documentation disagree, 6 what is not modelled, 7 what is left.

## 1. Inventory

The deployed program is the harness (`ui/server.py`), a FastAPI process. It
builds every engine in one `_State` object and runs most routes and the feed
pumps' sinks under one non-reentrant lock (`server.py:332`). Routes run on a
thread pool, each feed on a thread with an asyncio loop of its own. The
approval edge, the evolution routes and the starts and stops of feeds are
called from the pool without the harness lock.

| Component | State | Operations | Interacts through | Hard because | Must hold |
|---|---|---|---|---|---|
| State transition manager (`governance_engine/control_plane/state_transition_manager.py`) | mode | propose, propose_intent, current_mode | its lock; ledger; consent, gates, readiness, policy | callers read the mode before they take the lock; up to three ledger writes and a flip in one commit; an append may raise | ledger explains the mode; legal history |
| Operator consent (`core/contracts/operator_consent.py`) | nonce ring | validate, commit | called by propose | freshness window, bounded ring, restart | no consent is used again while the ring holds it; none but under the table it was signed for |
| Promotion gates (`promotion_gates.py`) | bound hash | bind, check, replay_from_ledger | a file on disk, the ledger | the file changes under it; bind raises after the flip; an anchor may be of an earlier boot | gated entry under the document anchored last |
| Policy engine (`policy_engine.py`) | decision tables, their hash | permit_*, install | called by bridge and manager | upgraded between boots | only operators raise the mode |
| Operator bridge, kill switch, hazard handler, drift oracle | none | submit, engage, process, evaluate | propose | decide on a mode read earlier | a kill locks; an unlock undoes only a lock it saw |
| Authority ledger writer (`ledger_authority_writer.py`) | hash chain, SQLite mirror | append, verify | every governance component | raises | rows are written before state changes |
| Event store and writer (`state/ledger/event_store.py`, `writer.py`) | events table, cached head, queue, failure count | append, write, loop, stop | a queue and a thread; the breaker kills the process | overtaking, crash, power loss, breaker | the chain verifies; nothing twice, no silent gap |
| Order lifecycle (`execution_engine/lifecycle/`) | order records, fill book, seen keys | open, transition, register, apply | the venue's reports | late, duplicate, crossing reports; restart | the book is the sum of distinct fills |
| Execution gate and hazard throttle (`execution_engine/engine.py`, `system_engine/coupling/`) | hazard ring, marks, trading policy | execute, on_hazard, on_market, set policy | the harness under its lock | order of hazard, flip and signal; bounded ring; half-done flips | a blocking hazard halts for its window; the ledger explains the gate |
| Strategy registry and update loop (`governance_engine/strategy_registry.py`, `control_plane/update_*.py`) | strategy records | register, transition, apply update, replay | UPDATE_PROPOSED events | ratify and apply are two appends; never replayed at boot | records are the replay of the ledger |
| Approval edge (`intelligence_engine/cognitive/approval_*.py`, `ui/cognitive_chat_runtime.py`) | approval queue, ledger rows | submit, decide, approve, reject, rehydrate | chat turns, operators' tabs, the authority ledger, the signal path | look, decide, record, emit are four steps; submit and PENDING row are two; restart | recorded before emitted; one decision, kept across restarts |
| Evolution lifecycle (`evolution_engine/lifecycle/`, `ui/evolution_routes.py`) | active and completed records, gate's pending set, snapshots | submit, tick, review, roll back, approve deployment | operators' routes and a ticking thread share the records | every call checks under the lock and acts after it | nothing deploys unreviewed; entries and snapshots are used once |
| Live feeds (`ui/feeds/`, `ui/feeds_routes.py`) | thread, loop and pump of each runner, a stop event | start, stop, run | routes, plugin page, boot; the loop's callbacks | the thread exists before its pump; a join times out; reconnects | one thread at a time; a told pump ends; a stop returns |

Everything else (intelligence, learning, simulation, sensory,
integrations, dashboards, tools) is numeric, presentation or I/O; section 6
says how the models stand in for what it does to them. `PROJECT.json` lists
every component, and under `hazards` each place where this code can go wrong
in a way a test would hardly reach, with the properties that watch it.

## 2. Models

| Module | Models |
|---|---|
| `ModeFSM` | pure tables and predicates: FSM edges, consent edges, policy verdicts, readiness order, downgrade targets |
| `GovernanceControlPlane` | the write path to the mode as threads over one ledger (extends `ModeFSM`) |
| `ModeAuthority` | the abstract specification: what may happen to the mode at all |
| `GovernanceClaims` | statements of the documentation that the control plane does not keep |
| `EventLedger` | event store, writer thread, shutdown, process and machine |
| `OrderLifecycle` | order state machine and fill handler |
| `ExecutionGate` | hazards, operators and signals before the broker (extends `ModeFSM`) |
| `ApprovalEdge` | a proposal from the chat turn to the signal, with restarts |
| `StrategyRegistry` | strategy records, the update path, boot and replay |
| `EvolutionLifecycle` | coordinator, deployment gate and rollback engine under concurrent operators |
| `FeedRunner` | a feed's runner, its thread, loop and pump |
| `MC*` | symmetric sets and instances for TLC |
| `*Proofs` | theorems |

### GovernanceControlPlane

A caller is a thread serving one request. It reads the mode in one critical
section of the manager's lock and proposes in a second, so two callers may
interleave between the two. `pc` says where each caller is:

| Action | Code |
|---|---|
| `RequestMode`, `RequestKill`, `RequestUnlock`, `Refuse`, `RecordRefusal` | `OperatorInterfaceBridge.submit` and its handlers, `KillSwitch.engage` |
| `HazardLock` | `GovernanceEngine._handle_hazard` |
| `DriftDowngrade` | `DriftCompositeOracle.evaluate_and_downgrade` |
| `Reject` | `propose` when a check refuses: one row, mode unchanged |
| `CommitConsent`, `CommitTransition`, `Bind`, `BindFails` | the three appends of `propose` in the code's order |
| `AppendFails` | `LedgerAuthorityWriter.append` raises at any of them; what was done before stays done |
| `ProposeIntent`, `AuditAppend` | other ledger writers, with and without the manager's lock |
| `IssueConsent`, `EditGates`, `ReadinessChanges`, `Tick` | operators, file, validator, clock |
| `Restart` | the process stops anywhere and boots in a mode from the environment with empty memory |
| `ReplayGates` | `PromotionGates.replay_from_ledger`: the last anchor of the ledger, of any boot, is adopted; nothing in the program calls it yet, so it may happen at any time or never |

`propose`'s checks are one operator, `Verdict`, in the code's order: FSM,
consent, gates, readiness, policy. While a caller is between two appends of
one commit it holds the manager's lock (`LockFree` is false), so only writers
that do not take that lock append in between. `HarnessLock = TRUE` models the
deployed harness: no second request starts while one is served.

`Restart` appends the boot row (`POLICY_TABLE_INSTALLED`), which like the
code's holds the hash of the decision table and nothing else. The mode a boot
starts in is in no row (section 5). Two history variables hold what properties
need beside the ledger: `initial`, the `initial_mode` this process was given,
and `used`, the nonces committed since it booted, in order.

`ModeAuthority` forgets threads, ledger and checks: the mode moves along FSM
edges, a step up over a consent edge uses a consent that is not among the last
`Memory` ones used since the boot, anything may lock, LOCKED leads only to
SAFE. `GovernanceControlPlane` implements it with `Memory <- RingCapacity` and
`spent` read from `used`, one in flight excepted (`Spent`): it promises what
the ring gives, which forgets the oldest nonce when full, and no more.

### EventLedger

A hash is modelled by what it commits to: the sequence of events up to its
row. `Write`, `WriteFull` and `AppendEvent` are `AsyncWriter.write` with room,
`AsyncWriter.write` on a full queue (the caller appends for itself, later, and
may overtake), and direct callers of `append_event`. `CheckStop`, `Get`,
`GetTimesOut`, `JobReturns`, `JobRaises`, `BreakerKills` are `_loop`, one
statement a step. `StopWriter` and `RecordShutdown` are the two steps of
`run_shutdown` that touch the ledger. `Exit` keeps every commit; `PowerLoss`
undoes the latest commits (WAL with `synchronous=NORMAL`); `Boot` reloads the
head.

### OrderLifecycle

`Open`, `Move`: `OrderStateMachine`. `Register`: the state machine first, the
book second. `Apply`, `ApplyRejects`, `ApplyRaises`: `FillHandler.apply` when
it succeeds, refuses after adding the key, and books before `transition`
raises. A report with a key seen before changes nothing. `Restart` loses the
book, the keys and any of the order records: the constructor takes records "for
replay", but nothing in the code persists them, so the model keeps an arbitrary
subset, the empty one included. Quantities are units: the code's float
tolerances are below one unit. A report is identified by its key.

### ExecutionGate

Every entry point runs under the harness lock, so an action is a whole entry
point: `IngestHazard`, `FeedTick`, `PostSignal`, `OperatorMode`, `FlipTrading`,
`FlipDevelopment`. A signal carries the hazards its own recording raises before
and after `execute` (`_State.record` polls the sensors). An append that raises
leaves what the code did before it. `PassModes` says whether a caller of
`execute` passes `current_mode`: the harness never does, other callers may.
`observed` and `dispatches` are history variables.

### ApprovalEdge

A thread is a chat turn (`TurnSubmits`, `TurnRecords`, then
`TurnLeavesToOperator` or `TurnApproves`) or an operator's request (`Look`).
Both go through `ApprovalEdge.approve` and `reject` one shared access a step:
`Look` reads the queue's row, `Decide` or `Refused` is `ApprovalQueue.decide`
under its lock, `Record` the ledger row, `Emit` the signal. `AppendRaises` and
`EmitRaises` leave what was done before. `Exit` stops the process anywhere;
`Boot` rebuilds the queue with `Rehydrated`, which is
`projection_rows_from_payloads`: an approval without a PENDING row does not
exist, a decision before its PENDING row is dropped, the first after it counts.
`AutoApprove` says whether `operator_attention` and the edge are given to the
chat runtime; the harness does not wire them, the code and its tests support
it, and the run and the proofs allow both. An emission names its ledger row, so
that properties can relate the two.

### StrategyRegistry

One step per call: the harness hands governance its events under one lock, and
the registry has none of its own. A call that appends and then assigns is a
step for each place it can stop at: `Register`, `Transition`, `ApplyUpdate`
append and assign, `RatifyOnly` stands for an update whose second append
raised, and an append that raises as the first changes nothing at all.
`RejectUpdate` writes `UpdateValidator.validate`'s code (`UpdateCode`, in the
code's order, with the mode's `learning_apply`). `Boot` forgets the records, as
`server.py:619` does; `Replay` is `replay_from_ledger`. A record keeps what the
properties tell apart: version, lifecycle, one parameter, whether it may
change. Rows carry the boot that wrote them, which the code's do not.

### EvolutionLifecycle

Up to BENCHMARK only the tick touches a record, so `Sandboxed`, `Simulated`,
`Benchmarked`, `ReviewOpens` and `FailedTest` read the stage and act in one
step. From GOV_REVIEW on every call is a check (`Review`, `RollBack`, `Clear`,
`TickTakesUp`) and the steps it then takes without the lock: `Approve` and
`Promote`; `Reject`; `Restore`, `MarkRolledBack`, `Audit`, `AfterAudit`;
`Enter`; `Deploy`, then `Learn` or `DeployedGone` (the record is looked up under
the lock once the gate has deployed), then `MarkDeployed`; `Close`. `todo` is what
is left of the tick's copy. CLASS_A is automatic, as by default; CLASS_C takes
the path of CLASS_B. `events` are the deployments and rollbacks published.
`shared` is a history variable: the proposals two threads have met on.

### FeedRunner

The four runners are one machine with a `kind` for the few differences (who
asks whether the thread is alive before it signals; who leaves the loop for
good). A start spawns a new thread with a new pump, so one number names both.
`Start`; `StopReads`, `StopGivesUp`, `Signal`, `Join`, `Clear` are the two
operations, one lock block or wait a step; `Publish`, `BuildFails`, `CloseLoop`,
`Withdraw`, `End` the thread; `Loop`, `Connect`, `FrameAfterStop`,
`StreamEnds`, `Attempt`, `Leaves`, `Wake` the pump. A stop reaches the pump as
a callback of its loop: `Signal` schedules it (`Told`), `Hear` runs it.

## 3. Runs

| Run | Module, configuration | Checks |
|---|---|---|
| `harness` | control plane as deployed: two callers under the harness lock, boot in LIVE, no gates, appends may raise, two nonces over a ring of one | `OnlyOperatorsRaise`, `UnlockUndoesTheLockItSaw`, `ImplementsModeAuthority` |
| `threads` | two unserialised callers, gates wired and their file edited | `TypeOK`, `LegalHistory`, `ConsentCoversTransition`, `EveryRequestAnswered`, `KillLocks` |
| `crash` | one caller, appends raise, restarts, table upgrades, document edited, anchors replayed | `LedgerExplainsMode`, `ConsentUnderInstalledPolicy`, `GatedEntryUnderAnchoredDocument` |
| `event_ledger` | two callers, queue of two, breaker at two, two boots | `ChainIntact`, `RecordedOnce`, `NoSilentGap`, `OutageKills`, `OnlyAnOutageKills`, `QueueDrains` |
| `orders` | two orders, four reports, two restarts that keep or lose each record | `HistoryReplays`, `BookIsSumOfDistinctFills`, `FilledIsEarned`, `NoFillTwiceAcrossRestarts` |
| `gate` | two severities, ring of two, callers with and without a mode, failing appends | `HazardHaltsDispatch`, `LedgerExplainsGate` |
| `approvals` | three threads, two proposals, automatic approval, three process lives | `EmissionsAreRecorded`, `RestartForgetsNoDecision`, `OneDecisionAfterPending`, `DecisionsStand`, `RejectionIsFinal` |
| `evolution` | two proposals, two operators and the tick, one snapshot slot, three operator calls | `DeploymentsWereReviewed`, `FailuresStop`, `EntriesPay`, `SnapshotsRestoreOnce`, `TurnsAreClean` |
| `strategies` | one strategy, two values of which one is in bounds, eight rows, two boots | `MemoryIsReplay`, `ChainContinues`, `EveryChangeWasRatified` |
| `feeds` | two callers, three pumps, each of the four runners | `NoOrphan`, `StopsAreAddressed`, `ToldPumpsEnd`, `StopsReturn` |
| `claim_locked`, `claim_evolution` | one statement of the documentation each; TLC finds it violated | section 5 |

`TypeOK` is an invariant of one run only: it is proved for every module that
has theorems (section 4), so the other runs spend their properties elsewhere.

What the properties say, in short:

- `LedgerExplainsMode`, `LegalHistory`: the rows since the last boot row and the
  mode that boot started in give the mode, and the rows are a path of legal
  edges, through any interleaving and failed append. Across a restart the
  account starts over: no row says which mode a boot chose (section 5). An
  append that raised half way may leave a consent row without its transition,
  never a transition the mode did not take.
- `ConsentCoversTransition`: between a consent row and the transition it pays
  for, only writers without the manager's lock have appended. Its run has no
  failing appends (the proof has). The comment at
  `state_transition_manager.py:415` says "immediately before"; the approval
  edge's lock-free append may come between.
- `ImplementsModeAuthority`: no step of the control plane, failed appends and an
  evicting ring included, does more to the mode than `ModeAuthority` allows.
- `UnlockUndoesTheLockItSaw`: leaving LOCKED takes an unlock requested after
  the latest lock.
- `ConsentUnderInstalledPolicy`, `GatedEntryUnderAnchoredDocument`: a consent
  crosses no upgrade; a gated entry meets the document the ledger anchored
  last, in this boot or, after a replay, in an earlier one.
- `ChainIntact`, `RecordedOnce`, `NoSilentGap`: every row extends the hash of
  the one before; no event appears twice though a full queue lets one
  overtake; while the process lives, an event accepted by the queue is skipped
  only if its append raised. `NoSilentGap` speaks of one process: what was
  accepted is forgotten with it, and across crashes and power losses it is
  `ChainIntact` that holds.
- `OutageKills`, `OnlyAnOutageKills`: the breaker kills at the threshold of
  consecutive failures, and nothing else in the writer does.
- `HistoryReplays`, `FilledIsEarned`, `NoFillTwiceAcrossRestarts`: an order's
  history replays to its state; FILLED means the recorded fills add up to what
  was asked, and no report is recorded twice on one order record, even across a
  restart that forgets which reports were seen but keeps the record. A record
  that was lost is opened anew, and there the report counts again (section 5).
- `HazardHaltsDispatch`: no call of the broker while a HIGH or CRITICAL hazard
  among the last `Capacity` ones is inside its window, although governance may
  have failed to lock, an operator may have unlocked, and the signal itself
  may have raised the hazard. The bound is exact: one more hazard evicts it.
- `LedgerExplainsGate`: the trading policy in the engine is the one of the
  last POLICY_STATE row, whichever flip failed half way.
- `EmissionsAreRecorded`, `RejectionIsFinal`: "ledger first, bus second" holds
  through every race: each signal has an APPROVED row of its own, and none
  leaves once the ledger shows a rejection.
- `RestartForgetsNoDecision`, `OneDecisionAfterPending`, `DecisionsStand`: what
  a restart rebuilds agrees with what the running process shows; after its
  PENDING row an approval is decided once. *Before* its PENDING row it may be
  decided once more (section 5): the property is stated so as to hold.
- `MemoryIsReplay`, `ChainContinues`, `EveryChangeWasRatified`: the registry is
  the replay of the ledger after any failed append; each row continues the
  history before it; each change is ratified in the row before.
- `DeploymentsWereReviewed`, `FailuresStop`: the two things governance must
  never let through survive every race of the check-then-act.
- `EntriesPay`, `SnapshotsRestoreOnce`: the two steps the code does protect
  with a lock (the gate's pending set, the snapshot's pop) pay out once each.
- `TurnsAreClean`: what two threads can break (double closing, deployment,
  resurrection of a record) they break only by meeting on it: where they took
  turns the record is closed once and in a final stage.
- `NoOrphan`, `StopsAreAddressed`: the comment at `ui/feeds/runner.py:94-107`
  as an invariant, in every window, and for late stops.
- `ToldPumpsEnd`, `StopsReturn`: liveness of stop.

Every property has a mutant in `PROJECT.json`: a plausible bug of the code
under which TLC finds the property violated.

### Bounds and why they are enough

- Two callers exhibit every race between the read of the mode and the
  proposal: a commit needs one lock, and a third caller would wait like the
  second. The `crash` run uses one because restarts and failures, not
  interleaving, are its subject.
- Three to six ledger rows hold a boot row, a consented transition, a second
  one, and what comes between. `FewSideRows` limits rows that change nothing
  but the length of the ledger; it prunes the state space of two passing runs,
  so they show their invariants for histories with that many side rows. The
  proofs have no such bound.
- Window 0 or 1 and a clock up to 2 cover fresh, stale and future envelopes. In
  `harness` two nonces share a ring of one: the second consent evicts the first,
  which may then be used again, and a ring that took no more nonces when full
  would break the refinement (its mutant). A nonce whose row could not be written
  could be used again without end; `FewUses` explores three uses a boot.
- `crash` boots in SAFE or CANARY and asks for PAPER, CANARY or LIVE: from CANARY
  a gated entry is one step away from a boot, so an anchor of an earlier boot is
  met, with and without a replay; PAPER and its anchoring are one step from both.
- Two restarts of the orders: a record is kept over one and lost in the other.
- Four events over a queue of two and a threshold of two: a full queue with an
  overtaker, one failure short of the threshold, and a second boot.
- Reports of one and two units for targets one and two: exact, partial,
  oversized and duplicate fills.
- A ring of two and three hazards: an eviction. One dispatch suffices, since
  the property looks at each by itself. Two severities, one blocking, with
  windows of 1 and 2 ticks keep the order of the real windows (5 and 10
  minutes); INFO and LOW differ from MEDIUM only in numbers `execute` does not
  read, HIGH from CRITICAL in nothing.
- Three threads on an approval: a chat turn that approves by itself and two
  tabs. Two proposals, since rows of one fall between rows of the other. Three
  lives: a decision must survive a restart and then another.
- Two operators and the tick on two proposals with one snapshot slot evict a
  snapshot; three operator calls are an approval, a rollback and a deployment
  of one record, or a race of any two. The proofs have no such bound.
- One strategy: records of two strategies share only the ledger, and each
  property speaks of one. Eight rows hold a registration, both transitions,
  an update with its ratification, a retirement and a second registration
  after a boot. Values in and out of bounds.
- Three pumps: one whose join timed out, the next, and one more for a late
  stop to hit. Two callers: each race is between a start and a stop or two
  stops.
- Callers, nonces, proposals and threads are symmetric sets where no liveness is checked.
- `CHECK_DEADLOCK FALSE`: the bounds stop every model, and the real system
  may be idle for ever.

### Fairness

`threads` assumes weak fairness of each caller's steps inside a request
(`Serve(c)`): a thread in `propose` holds a lock and calls nothing that blocks,
so it runs to its end. `KillLocks` and `EveryRequestAnswered` need it.
`event_ledger` assumes weak fairness of the writer's thread: `get` times out
after 0.1 s, and an append returns or raises. No fairness is assumed of
operators, sensors, the clock, the shutdown sequence or the machine.
`feeds` assumes weak fairness of a stop once called (`StopSteps`), of the
feed's thread (`ThreadSteps`), of the end of a connection attempt or poll
(`AttemptEnds`: each has a timeout) and of the loop's callbacks (`Hear`). It
assumes nothing of a stream: the sockets are opened with `ping_interval=None`,
so a silent one may stay silent for ever, and `ToldPumpsEnd` excepts exactly
the pump that streams for ever. `approvals`, `evolution` and `strategies` state
no liveness: operators may never come, and nothing in the program calls the
tick or the registry.

## 4. Proofs

All theorems hold for every value of the constants that satisfies the named
assumptions (`ConstantsOK`, `LedgerConstantsOK`, `GateConstantsOK`,
`NoHazardOK`, `OrderConstantsOK`, `ApprovalConstantsOK`,
`EvolutionConstantsOK`, `StrategyConstantsOK`, `FeedAssumption`), which state
only what the code gives: sets are of the right kind, capacities and thresholds
are positive. Two theorems assume more: `OperatorsRaise` and
`UnlocksSawTheLock` assume that the harness lock is taken, as `ui/server.py`
does, and are false without it (section 5).

Every safety property that a passing run checks, invariant or action property,
is the statement of a theorem; so is the refinement.

| Theorem | Says |
|---|---|
| `GovernanceControlPlaneProofs!TypeCorrect` | `Spec => []TypeOK` |
| `GovernanceControlPlaneProofs!LedgerCorrect` | `LedgerExplainsMode`, `LegalHistory`, `ConsentCoversTransition` are invariants |
| `GovernanceControlPlaneProofs!HistoryIsLegal`, `ConsentIsCovered` | the second and third of these as theorems of their own |
| `GovernanceControlPlaneProofs!ConsentPolicyCorrect` | `Spec => []ConsentUnderInstalledPolicy` |
| `GovernanceControlPlaneProofs!OperatorsRaise` | `HarnessLock` implies `Spec => []OnlyOperatorsRaise` |
| `GovernanceControlPlaneProofs!GatedEntriesAnchored` | `Spec => GatedEntryUnderAnchoredDocument` |
| `GovernanceControlPlaneProofs!UnlocksSawTheLock` | `HarnessLock` implies `Spec => UnlockUndoesTheLockItSaw` |
| `GovernanceControlPlaneProofs!RefinesModeAuthority` | `Spec => ImplementsModeAuthority` |
| `EventLedgerProofs!LedgerTypeCorrect` | `Spec => []TypeOK` |
| `EventLedgerProofs!ChainCorrect` | `Spec => []ChainIntact` |
| `EventLedgerProofs!RecordedAtMostOnce`, `NoGapIsSilent`, `OutagesKill` | `RecordedOnce`, `NoSilentGap`, `OutageKills` are invariants |
| `EventLedgerProofs!OnlyOutagesKill` | `Spec => OnlyAnOutageKills` |
| `ExecutionGateProofs!GateTypeCorrect` | `Spec => []TypeOK` |
| `ExecutionGateProofs!HaltCorrect` | `Spec => []HazardHaltsDispatch` |
| `ExecutionGateProofs!GateExplained` | `Spec => []LedgerExplainsGate` |
| `OrderLifecycleProofs!OrderTypeCorrect` | `Spec => []TypeOK` |
| `OrderLifecycleProofs!HistoryIsReplayLog` | `Spec => []HistoryReplays` |
| `OrderLifecycleProofs!RestartsCountOnce` | `Spec => []NoFillTwiceAcrossRestarts` |
| `OrderLifecycleProofs!BookCorrect` | `Spec => []BookHoldsDistinctFills`, the part of the next one that adds nothing up |
| `OrderLifecycleProofs!FilledIsTheSum` | `Spec => []BookIsSumOfDistinctFills` |
| `OrderLifecycleProofs!FilledOrdersAreEarned` | `Spec => []FilledIsEarned` |
| `ApprovalEdgeProofs!TypeCorrect` | `Spec => []TypeOK` |
| `ApprovalEdgeProofs!EmissionsRecorded`, `RestartSafe`, `OneDecision` | `EmissionsAreRecorded`, `RestartForgetsNoDecision`, `OneDecisionAfterPending` are invariants |
| `ApprovalEdgeProofs!DecisionsAreOneWay`, `NoSignalAfterRejection` | `Spec => DecisionsStand`, `Spec => RejectionIsFinal` |
| `EvolutionLifecycleProofs!TypeCorrect` | `Spec => []TypeOK` |
| `EvolutionLifecycleProofs!DeploymentsReviewed`, `FailuresAreFinal` | `DeploymentsWereReviewed`, `FailuresStop` are invariants |
| `EvolutionLifecycleProofs!DeploymentsUseUpEntries`, `RestoresUseUpApprovals`, `TurnsCloseOnce` | `EntriesPay`, `SnapshotsRestoreOnce`, `TurnsAreClean` are invariants |
| `StrategyRegistryProofs!TypeCorrect` | `Spec => []TypeOK` |
| `StrategyRegistryProofs!ReplayGivesMemory`, `HistoryContinues`, `ChangesRatified` | `MemoryIsReplay`, `ChainContinues`, `EveryChangeWasRatified` are invariants |
| `FeedRunnerProofs!TypeCorrect` | `Spec => []TypeOK` |
| `FeedRunnerProofs!NoThreadIsOrphaned`, `PublishedPumpIsLive` | `NoOrphan`, `PublishedIsLive` are invariants |
| `FeedRunnerProofs!StopsReachTheirPump` | `Spec => StopsAreAddressed` |

**Control plane.** The ledger properties are not inductive: a caller between
its consent row and its transition row, or one that has passed the checks,
carries obligations the ledger does not show yet. `LedgerInv` adds
`OneInPropose` (at most one caller is between two appends, and the mode has not
moved since its checks) and `ConsentInFlight` (a caller that wrote a consent
row still has it standing, with only lock-free rows after it). Each action
appends at most one row, so the proof is a handful of lemmas on `Append`
(`EarlierRowsStand`, `HistoryStands`, `SideRowExplains`, `ModeRowExplains`,
`TransitionTakesPlace`) and one step per action.

`OnlyOperatorsRaise` holds only because requests are served one at a time:
`OneRequest` says so, and then the mode a request was made in is the mode it is
decided in (`OthersRestrict`): a target that was a step down when a kill, an
unlock, a hazard or the oracle chose it is still one. `UnlockUndoesTheLockItSaw`
rests on the same `RaiseInv` and on `RequestIsFresh`: no transition was written
since the pending request read the mode, and in LOCKED only an unlock asks for
SAFE.

`LedgerExplainsMode` is about one boot: `Explains` reads the last transition
since the boot row, or the initial mode while there is none. Rows of earlier
boots play no part, because the boot row sets the mode again.

`GatedEntryUnderAnchoredDocument` needs `BoundIsAnchored`: a hash in memory is
the one the last PROMOTION_GATES_BOUND row of the ledger names, whichever boot
wrote it. A restart empties it, a replay sets it to `AnchorOf` the ledger, a
failed append or bind may leave an anchor older than the mode, and none leaves
one the ledger does not show. `PassesGates` then identifies the only steps in
which a request passes, and in these the gates have just compared that hash
with the file.

The refinement maps `spent` to `used` without the consent in flight, so a
consent is spent at the transition row and not at its own. `RingInv` ties the
ring to that history: the ring is its last `RingCapacity` members
(`RingIsTail`, kept by one more push, `PushKeepsTail`), and the consent in
flight is the very last (`FlightIsLast`). So a nonce that `validate` does not
find in the ring is one the authority may use (`NotAmongLast`,
`AcceptedIsUsable`), for a ring of any size. `CommitConsent` stutters
(`ConsentStutters`), `CommitTransition` is a lock, an unlock or a step
(`TransitionRefines`), a failed append in flight wastes the consent
(`FailureRefines`), a restart is a boot, and every other step stutters
(`SideSteps`).

**Event ledger.** `ChainIntact` speaks of the table alone; an append extends
the cached head. `CacheOK` (a living process's cache is the head of the table)
closes the induction; `DeadOK` is needed because a dead process must hold no
job that a later step could append.

`RecordedOnce` rests on `OnceAt`: an event is in at most one of the queue, a
caller's hands, the drain thread's hand, the table and the set of dropped
events, once in each, and only if it was submitted. `QueueInv` relates the
queue to the sequence of accepted events: the queue is its untaken end
(`QueueIsRest`), everything taken but the event in hand is recorded or dropped
and recorded in order (`InOrder`), and `failures` is the length of the current
run of drops (`CountsDrops`), which is below the threshold and so are all the
runs before it (`RunsAreShort`). The first three bring `NoSilentGap`, the last
two both directions of the breaker.

**Execution gate.** The gate looks at the ring, the property at the whole
history. `RingIsTail` says the ring is the end of the history, all of it while
the ring is not full; then what the gate finds in the ring it would find among
the last `Capacity` hazards (`QuietRing`). `CallsQuiet` remembers it for every
earlier call: a call names a place in a history that only grows
(`CallsStayQuiet`). `LedgerExplainsGate` is inductive by itself: the row of
the policy is appended before the policy is installed, and a row of another
kind disturbs nothing (`InstallExplained`).

**Orders.** `HistoryReplays` is inductive; its one lemma is that a transition
appends a row that continues the history (`TransitionReplays`).
`NoFillTwiceAcrossRestarts` is not: the keys seen are lost with the process, so
nothing in the handler refuses the report a second time. `RecordedFillsAreKnown`
says what does: an order with a recorded fill is past NEW, no legal edge leads
back, and `register` needs the edge to PENDING; while the order stays
registered, its recorded fills are among the keys seen. A restart leaves of
each order either what it was or nothing (`AfterRestart`), and keeps all of
these facts in both cases.

The sums are recursive functions over sequences. What one more quantity adds to
such a sum (`SumOfOneMore`) is an induction over its length; the induction
theorems of the library take an operator, which the provers cannot
instantiate, but the well-foundedness of the numbers is a statement about sets
(`NatSetInduction`) and serves. `FilledIsTheSum` then needs `BookSums` alone.
`FilledIsEarned` is about the history and the registered quantity, which a
restart keeps or loses together, while the check is made against the book, which
it empties:
`Tally` says that the book of an open registered order agrees with its
history, and that an order not yet submitted has recorded nothing.

**Approvals.** A thread between `decide` and its emission owns the approval
(`OwnerOK`): the queue holds its verdict, no other thread is there, and the
ledger has no decision of it that the projection would see. The lock in
`decide` establishes this, because a PENDING status excludes both such a row
(`RestartForgetsNoDecision`, which is therefore part of the invariant) and such
a thread. From it follow the single row, the single signal and their order.

**Evolution.** Past governance everything that can lead to a deployment (a
stage, a place in the gate, a thread on its way) belongs to a proposal that was
reviewed (`ReviewedAt`), however stale the check it rests on, because a review
is never taken back. Before governance no thread but the tick is on a proposal
(`EarlyAt`), so nothing overtakes what the tests found (`TestsAt`).

`EntriesPay` and `SnapshotsRestoreOnce` are conservation laws. `PaidInv`: the
operators' deployments so far, the operators whom the gate let through and the
place still taken in it are together no more than the entries. `SnapshotInv`:
the restores so far and the snapshot still kept are no more than the
approvals, and a proposal has one snapshot at most. `TurnsAreClean` is about
proposals on which no two threads ever were at once: `CleanInv` says that the
thread on an active one finds the stage its check saw (`Fits`), that one no
longer active was never submitted or closed once (`NeverSubmitted`,
`Closed`), and that what waits in the gate is not deployed (`GateAt`). The
last is needed because a rollback leaves the entry in the gate: an operator
may deploy after the closing, and does so at most once.

**Strategies.** `Sound` relates records, ledger and boot: a record is what a
replay gives, and a strategy without one has no row of this boot that it could
have come from. The lemmas say what one more row changes in a replay
(`Replayed` is defined by the last row of a kind, not by recursion, so that
they can be proved).

**Feeds.** A start needs a runner without a live thread, so with `NoOrphan`
there is no live thread at all when one is spawned; `PublishedOK` and `CallsOK`
say that a published pump and a pump a stop holds belong to the thread held
with it.

Model-checked only: liveness (`EveryRequestAnswered`, `KillLocks`,
`QueueDrains`, `ToldPumpsEnd`, `StopsReturn`), because fairness needs ENABLED,
which the prover does not support; and the claims of section 5, which are
false.

## 5. Where code and documentation disagree

Eight are definitions that TLC refutes. The first two are runs of the project
(`findings` in `PROJECT.json` quotes the lines); the others keep their
configuration beside the modules, and `tlc -config <configuration> <module>`
shows the counterexample.

| Configuration, module | Definition | Statement | What happens |
|---|---|---|---|
| `claim_locked`, `MCExecutionGate` | `DispatchOnlyInExecutingModes` | dispatch iff the mode's `executions_dispatch` | no caller passes the mode: after an operator's kill the next tick dispatches |
| `claim_evolution`, `MCEvolution` | `RolledBackNeverDeployed` | `coordinator.py:17`, "rollback path, no DEPLOYED" | a rollback leaves the gate's pending entry; the operator's later approval deploys |
| `claim_decided_once`, `MCApprovalEdge` | `DecidedOnce` | `approval_projection.py:179-182`, "the approval edge refuses double decides at write time" | an operator decides between submit and the PENDING row; a restart opens the proposal again, and it is decided and emitted a second time |
| `claim_replay`, `MCGovernance` | `NonceUsedOncePerWindow` | `operator_consent.py:117-119`, a nonce is rejected after first use within the freshness window | a restart empties the ring |
| `claim_readiness`, `MCGovernance` | `EntryAtRequiredReadiness` | `state_transition_manager.py:325-327`, readiness blocks CANARY, LIVE and AUTO below their level | levels are compared as strings: NOT_READY passes |
| `claim_shutdown`, `MCEventLedger` | `ShutdownFlushes` | `shutdown_sequence.py:17`, "Flush event store writer" | `stop()` only sets an event; SHUTDOWN_COMPLETE overtakes the queue |
| `claim_fills`, `MCOrderLifecycle` | `FillsDriveLegalEdges` | `fill_handler.py:56-57`, only legal edges are requested | a fill after a cancel is booked, then raises |
| `claim_flip`, `MCExecutionGate` | `GateFlipsAreAudited` | `server.py:486-488`, every flip is audited under its own name | a half-done trading flip is installed by a later development flip |

Met while modelling, not refuted by a run of their own:

- `operator_interface_bridge.py:13` says LOCKED is left by REQUEST_UNLOCK
  only; `propose` takes LOCKED to SAFE for any requestor, so a REQUEST_MODE for
  SAFE admitted before a kill undoes it. The harness lock hides this;
  `UnlockUndoesTheLockItSaw` fails as soon as that lock is taken away (its
  mutant).
- `drift_oracle.py:249` reads the mode outside the manager's lock: a
  "downgrade" computed from LIVE and proposed after another step down is a
  step up. Again only the harness lock prevents it.
- `mode_effects.py` lets PAPER be entered without operator authorisation, and
  CANARY needs consent only along the listed edges.
- A step *down* into LIVE or CANARY is subject to gates and readiness and may
  be refused.
- `GovernanceEngine` builds its manager without gates or readiness
  (`engine.py:135`), so in the harness neither check runs.
- `DIXVISION_TRADING_ALLOWED` is documented as `false` by default
  (`server.py:475`, `development_mode.py:38`); the code's default is `"true"`
  (`server.py:505`).
- `/api/health` (`server.py:2159`) holds the harness lock while
  `LearningEngine.check_self` takes it again, until the runtime has booted.
- `state/ledger/append.py:231`: `AppendBatch` appends while holding the
  store's non-reentrant lock. `governance_engine/hardening/*` imports
  `append_event` from that module, which has none, so those audit rows are
  never written.
- Governance hardening has no caller for its enforcement (the firewall's
  `check`, the coordinator's `tick`); its routes lock, unlock, erode and sign
  off. `trust_scorer.py:159-165` persists a score outside the lock that
  computed it, so of two racing erosions the older score may reach the database
  last and a restart loads it. `mutation_firewall.py` `snapshot` calls
  `quarantine_status` under the lock that takes again: it would hang with an
  entry in quarantine. `policy_lock.py` `_run_drift_check` imports
  `get_policy_hash_anchor`, which `policy_hash_anchor.py` does not define; the
  error is swallowed and a drift is never seen.
- `AsyncWriter.write` accepts events after `stop()`; `_stop` is never cleared.
- `FillHandler` after a restart raises KeyError for orders that are PENDING.
  Where the order's record was lost with the process and the order is opened and
  registered again, a report the venue repeats counts a second time. Two genuine
  fills with equal time, quantity and price share a key.
- The mode of a boot comes from `DIXVISION_BOOT_MODE` (`server.py:650`, LIVE by
  default) and no row records it: POLICY_TABLE_INSTALLED holds the table's hash
  only. After a restart the ledger's last transition is of the old process, and
  the ledger alone does not tell the mode until the next one.
- `PromotionGates.replay_from_ledger` is to let a fresh process "pick up the
  gate state as it was" (`promotion_gates.py:181-186`); nothing calls it, so a
  wired process starts unbound and refuses gated entries until it anchors again.
- A rollback that meets the tick while it deploys a CLASS_A proposal is a second
  way to a rolled-back proposal that is deployed, beside the pending entry of
  `claim_evolution`: both have checked the stage and neither looks again.
- `hazard_throttle.py:15-18` says a hazard can never relax a throttle; the
  ring's eviction can (1024 later hazards).
- Approvals: a REJECTED row written before the PENDING row is forgotten by a
  restart, like an approval. A PENDING append that raises leaves a proposal on
  the dashboard that no restart knows.
- Strategies: `strategy_registry.py` says the chain only ever holds legal
  histories; after a boot without a replay a retired id is registered again as
  version 1 (`ChainContinues` excepts exactly this). Outside tests nothing
  calls `register_draft`, `transition` or `replay_from_ledger`, and the harness
  counts UPDATE_PROPOSED without handing it to governance, although
  `server.py:612-618` says the registry serves those events. `old_value` is
  recorded and never compared; the value a strategy is registered with is not
  checked against its bounds.
- Evolution: the benchmark's `passed` is recorded and never read, though
  `coordinator.py:16` sends a benchmark failure to REJECTED. The gate records
  CLASS_B for every operator's deployment ("coordinator overrides", which it
  does not). `EVOLUTION_DEPLOYED` and `EVOLUTION_ROLLBACK` never reach the
  ledger: both import `append_event` from `state/ledger/append.py`, which has
  none, and swallow the error; `get_strategy_registry` does not exist either,
  so deployments and rollbacks change no registry.
- Feeds: `stop` promises to signal the pump and join the thread. A stop that
  meets a launched thread before its pump is published signals nothing, its
  join times out and the feed runs on. A socket that stays silent delays a
  stop until its next frame; a start in between finds a live thread, answers
  `running=True` and is lost when the pump ends. A malformed symbol raises in
  the worker, not in `start`, so the route's `except ValueError` never answers
  400 and the reply says `started: true`.
- `ExecutionLifecycleManager.create` overwrites a record, `record_failure`
  moves SUBMITTED back to APPROVED. `runtime/kernel.py`: an exception in the
  middle of a reconciliation leaves its pending fills to be reconciled again; a
  fill submitted between the loop and the clear is lost.

## 6. Not modelled, and why

- Signal generation, learning, mutation search, simulation, risk scores: numeric.
  The gate takes any signal and any hazard at any time.
- What feeds carry, venues, integrations, dashboards, credentials: I/O. The
  feed model keeps the runner and drops the frames. The order model
  takes from venues what the handler must bear.
- The approver and the authority guard: they refuse a signal before the gate
  by raising, and leave no state. `ApprovalEdge` covers this as an emission
  that raises.
- The runtime kernel: its capability tier starts at 0 and gates every intent,
  `register_order` is called by tests only, `submit_fill` by the legacy
  executor, and only `runtime/convergence.py` starts it. A model would have to
  invent the callers. The execution protections are wired into nothing.
  `core/kernel.py` holds a second mode, set from governance at boot only.
- The other evolution pipelines: the cognitive spine ticks
  `governed_pipeline.py`, but nothing outside tests calls its `submit`, its
  approvals or its rollback, so the tick walks an empty map; `pipeline.py` is
  imported by tests only. Nothing calls `submit_proposal` and `tick` of the
  modelled coordinator either, but its operator routes are mounted; the model
  takes the tick as a thread like the code's docstring does.
- The authority ledger's own chain: the same construction as the event
  store's. Its callers see that an append returns or raises.
- Two processes on one database, and a full disk other than as an append that
  raises.
- The legacy packages `governance/`, `execution/`, `interrupt/`,
  `enforcement/`: not built by the harness.

## 7. What is left

Most of the repository is numeric code, presentation, I/O, tools, or code that
the deployed program does not run; a model of it would check nothing that its
callers rely on. Of the code that decides or records something, what is left:

1. Abstract specifications of the event ledger (an append-only log that each
   event enters at most once) and of the approval edge (one decision for each
   proposal), and their refinement; the invariants proved in section 4 are the
   step simulations they need.
2. One composition of `ApprovalEdge` with `ExecutionGate`: they meet in
   `_emit_cognitive_signal_locked` only, which the gate takes as a signal that
   may come at any time and the edge as an emission that may raise.
3. `ExecutionLifecycleManager` and the kernel's tick, once something that runs
   in the harness calls them.

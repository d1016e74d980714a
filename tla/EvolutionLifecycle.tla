--------------------------- MODULE EvolutionLifecycle ---------------------------
(***************************************************************************)
(* The closed loop a mutation proposal goes through: the lifecycle         *)
(* coordinator, its deployment gate and its rollback engine.               *)
(*                                                                         *)
(* A tick walks over a copy of the active records and moves each one stage *)
(* on; operators approve, reject, roll back and deploy from the threads of *)
(* the HTTP pool.  Every operation looks at a record under the lock and    *)
(* acts on it after the lock is released, so the model splits each of them *)
(* into the check and the steps that follow.                               *)
(*                                                                         *)
(* CLASS_A is approved and deployed automatically (the defaults, which     *)
(* nobody overrides); CLASS_C is handled as CLASS_B.  A proposal id names  *)
(* one record: ids are not submitted again.                                *)
(***************************************************************************)
EXTENDS Naturals, FiniteSets, SequencesExt

CONSTANTS
  Proposals, \* proposal ids
  Operators, \* threads of the HTTP pool
  Ticker,    \* the thread that calls tick
  MaxActive, \* max_active
  MaxSnapshots, \* max_snapshots of the rollback engine
  MaxCalls,  \* bound: operator calls that are accepted
  None       \* no proposal

ASSUME EvolutionConstantsOK ==
  /\ Ticker \notin Operators
  /\ None \notin Proposals
  /\ MaxActive \in Nat
  /\ MaxSnapshots \in Nat \ {0}
  /\ MaxCalls \in Nat

VARIABLES
  rec,       \* the ProposalRecord of each proposal
  active,    \* EvolutionLifecycleCoordinator._active
  completed, \* how often each proposal is in _completed
  pending,   \* DeploymentGate._pending
  snapshots, \* RollbackEngine._snapshots, oldest first
  events,    \* the deployments and rollbacks published for each proposal
             \* (pipeline_stage), in order
  thread,    \* where each thread is, and on which proposal
  todo,      \* what is left of the copy the running tick took
  approvals, \* history: who took each proposal through governance
  entries,   \* history: how often the gate took each proposal in
  calls,     \* operator calls accepted so far, for the bound
  shared     \* history: proposals threads have raced on

records == <<rec, active, completed>>
engines == <<pending, snapshots, events>>
history == <<approvals, entries, calls>>
vars    == <<records, engines, thread, todo, history, shared>>
-----------------------------------------------------------------------------
Threads == Operators \cup {Ticker}

Classes == {"CLASS_A", "CLASS_B"}

Stages == {"none", "PROPOSED", "SANDBOX", "SIMULATION", "BENCHMARK",
           "GOV_REVIEW", "PROMOTED", "ROLLED_BACK", "REPLAY_AUDIT",
           "DEPLOYED", "REJECTED"}

Steps == {"approving", "promoting", "rejecting", "rolling_back", "restored",
          "auditing", "audited", "entering", "deploying", "deployed",
          "marking", "closing"}

Outcomes == {"PASS", "FAIL"}

Records == [stage : Stages, class : Classes, sandbox : {""} \cup Outcomes,
            simulation : {""} \cup Outcomes, rolled_back : BOOLEAN]

NoRecord == [stage |-> "none", class |-> "CLASS_B", sandbox |-> "",
             simulation |-> "", rolled_back |-> FALSE]

Idle == [step |-> "idle", on |-> None]

Works == {Idle} \cup [step : Steps, on : Proposals]

\* A deployment names who deployed, a rollback what it restored.
Rows == [kind : {"DEPLOYED"}, by : {"AUTO", "OPERATOR"}]
        \cup [kind : {"ROLLBACK"}, by : {"key", "tombstone"}]

By(t) == IF t = Ticker THEN "AUTO" ELSE "OPERATOR"

Advance(p, stage) == rec' = [rec EXCEPT ![p].stage = stage]

\* A thread takes up a proposal, moves on with it, or is done with it.  The
\* proposal is shared when another thread is on it, or when the tick finds it in
\* its copy and the record has been closed since the copy was taken.
TakeUp(t, step, p) ==
  /\ thread' = [thread EXCEPT ![t] = [step |-> step, on |-> p]]
  /\ shared' = IF \/ \E u \in Threads \ {t} : thread[u].on = p
                  \/ t = Ticker /\ p \notin active
               THEN shared \cup {p} ELSE shared

GoOn(t, step) == thread' = [thread EXCEPT ![t].step = step] /\ UNCHANGED shared

Done(t) == thread' = [thread EXCEPT ![t] = Idle] /\ UNCHANGED shared

At(t, step, p) == thread[t] = [step |-> step, on |-> p]

Init ==
  /\ rec = [p \in Proposals |-> NoRecord]
  /\ active = {}
  /\ completed = [p \in Proposals |-> 0]
  /\ pending = {}
  /\ snapshots = <<>>
  /\ events = [p \in Proposals |-> <<>>]
  /\ thread = [t \in Threads |-> Idle]
  /\ todo = {}
  /\ approvals = [p \in Proposals |-> <<>>]
  /\ entries = [p \in Proposals |-> 0]
  /\ calls = 0
  /\ shared = {}
-----------------------------------------------------------------------------
\* submit_proposal: refused while the pipeline is full.
Submit(p, class) ==
  /\ rec[p] = NoRecord
  /\ Cardinality(active) < MaxActive
  /\ rec' = [rec EXCEPT ![p].stage = "PROPOSED", ![p].class = class]
  /\ active' = active \cup {p}
  /\ UNCHANGED <<completed, engines, thread, todo, history, shared>>

(***************************************************************************)
(* tick: a copy of the active records, then _advance on each.              *)
(***************************************************************************)
TickStarts ==
  /\ thread[Ticker] = Idle
  /\ todo = {}
  /\ todo' = active
  /\ UNCHANGED <<records, engines, thread, history, shared>>

\* _advance reads the stage of the next record of the copy.
Takes(p) ==
  /\ thread[Ticker] = Idle
  /\ p \in todo
  /\ todo' = todo \ {p}

\* Up to BENCHMARK no other thread touches a record: the stage is read and
\* acted on in one step.
Sandboxed(p, outcome) ==
  /\ Takes(p)
  /\ rec[p].stage = "PROPOSED"
  /\ rec' = [rec EXCEPT ![p].stage = "SANDBOX", ![p].sandbox = outcome]
  /\ UNCHANGED <<active, completed, engines, thread, history, shared>>

\* Mutant: a proposal that failed in the sandbox goes on.
Simulated_AnyOutcome(p, outcome) ==
  /\ Takes(p)
  /\ rec[p].stage = "SANDBOX"
  /\ rec' = [rec EXCEPT ![p].stage = "SIMULATION", ![p].simulation = outcome]
  /\ UNCHANGED <<active, completed, engines, thread, history, shared>>

Simulated(p, outcome) ==
  /\ Takes(p)
  /\ rec[p].stage = "SANDBOX"
  /\ rec[p].sandbox # "FAIL"
  /\ rec' = [rec EXCEPT ![p].stage = "SIMULATION", ![p].simulation = outcome]
  /\ UNCHANGED <<active, completed, engines, thread, history, shared>>

\* The benchmark's own verdict is recorded and never looked at.
Benchmarked(p) ==
  /\ Takes(p)
  /\ rec[p].stage = "SIMULATION"
  /\ rec[p].simulation # "FAIL"
  /\ Advance(p, "BENCHMARK")
  /\ UNCHANGED <<active, completed, engines, thread, history, shared>>

FailedTest(p) ==
  /\ Takes(p)
  /\ \/ rec[p].stage = "SANDBOX" /\ rec[p].sandbox = "FAIL"
     \/ rec[p].stage = "SIMULATION" /\ rec[p].simulation = "FAIL"
  /\ Advance(p, "REJECTED")
  /\ TakeUp(Ticker, "closing", p)
  /\ UNCHANGED <<active, completed, engines, history>>

ReviewOpens(p) ==
  /\ Takes(p)
  /\ rec[p].stage = "BENCHMARK"
  /\ Advance(p, "GOV_REVIEW")
  /\ UNCHANGED <<active, completed, engines, thread, history, shared>>

\* Mutant: the class is not looked at.
TickTakesUp_AnyClass(p) ==
  /\ Takes(p)
  /\ \/ rec[p].stage = "GOV_REVIEW" /\ TakeUp(Ticker, "approving", p)
     \/ rec[p].stage = "PROMOTED" /\ TakeUp(Ticker, "auditing", p)
     \/ rec[p].stage = "REPLAY_AUDIT"
        /\ TakeUp(Ticker, IF rec[p].class = "CLASS_A" THEN "deploying"
                                                      ELSE "entering", p)
  /\ UNCHANGED <<records, engines, history>>

\* From GOV_REVIEW on the operators act on the record too: the tick has read
\* the stage and is on its way.
TickTakesUp(p) ==
  /\ Takes(p)
  /\ \/ rec[p].stage = "GOV_REVIEW" /\ rec[p].class = "CLASS_A"
        /\ TakeUp(Ticker, "approving", p)
     \/ rec[p].stage = "PROMOTED" /\ TakeUp(Ticker, "auditing", p)
     \/ rec[p].stage = "REPLAY_AUDIT"
        /\ TakeUp(Ticker, IF rec[p].class = "CLASS_A" THEN "deploying"
                                                      ELSE "entering", p)
  /\ UNCHANGED <<records, engines, history>>

\* Nothing to do: an operator is awaited, or the record was closed meanwhile.
TickSkips(p) ==
  /\ Takes(p)
  /\ \/ rec[p].stage = "GOV_REVIEW" /\ rec[p].class # "CLASS_A"
     \/ rec[p].stage \in {"ROLLED_BACK", "DEPLOYED", "REJECTED"}
  /\ UNCHANGED <<records, engines, thread, history, shared>>
-----------------------------------------------------------------------------
(***************************************************************************)
(* The operator API: the check under the lock.                             *)
(***************************************************************************)
Called == calls < MaxCalls /\ calls' = calls + 1

\* approve_governance, reject_governance
Review(t, p) ==
  /\ thread[t] = Idle
  /\ p \in active
  /\ rec[p].stage = "GOV_REVIEW"
  /\ Called
  /\ TakeUp(t, "approving", p) \/ TakeUp(t, "rejecting", p)
  /\ UNCHANGED <<records, engines, todo, approvals, entries>>

\* trigger_rollback
RollBack(t, p) ==
  /\ thread[t] = Idle
  /\ p \in active
  /\ rec[p].stage \in {"PROMOTED", "REPLAY_AUDIT"}
  /\ Called
  /\ TakeUp(t, "rolling_back", p)
  /\ UNCHANGED <<records, engines, todo, approvals, entries>>

\* Mutant: the gate's lock is released between the check and the discard.
Clear_KeepsPending(t, p) ==
  /\ thread[t] = Idle
  /\ p \in pending
  /\ Called
  /\ TakeUp(t, "deploying", p)
  /\ UNCHANGED <<records, engines, todo, approvals, entries>>

\* approve_deployment asks the gate first, and the gate the pending set.
Clear(t, p) ==
  /\ thread[t] = Idle
  /\ p \in pending
  /\ pending' = pending \ {p}
  /\ Called
  /\ TakeUp(t, "deploying", p)
  /\ UNCHANGED <<records, snapshots, events, todo, approvals, entries>>
-----------------------------------------------------------------------------
(***************************************************************************)
(* What follows the check.                                                 *)
(***************************************************************************)
Keyed(p) == \E i \in DOMAIN snapshots : snapshots[i] = p

\* RollbackEngine.register_for_rollback: a proposal keeps its place in the
\* dict; the oldest is evicted when there are too many.
Registered(p) ==
  LET s == IF Keyed(p) THEN snapshots ELSE Append(snapshots, p)
  IN IF Len(s) > MaxSnapshots THEN Tail(s) ELSE s

\* The governance decision, and the snapshot _transition_to_promoted takes.
Approve(t, p) ==
  /\ At(t, "approving", p)
  /\ approvals' = [approvals EXCEPT ![p] = Append(@, By(t))]
  /\ snapshots' = Registered(p)
  /\ GoOn(t, "promoting")
  /\ UNCHANGED <<records, pending, events, todo, entries, calls>>

Promote(t, p) ==
  /\ At(t, "promoting", p)
  /\ Advance(p, "PROMOTED")
  /\ Done(t)
  /\ UNCHANGED <<active, completed, engines, todo, history>>

Reject(t, p) ==
  /\ At(t, "rejecting", p)
  /\ Advance(p, "REJECTED")
  /\ GoOn(t, "closing")
  /\ UNCHANGED <<active, completed, engines, todo, history>>

Emit(p, kind, by) ==
  events' = [events EXCEPT ![p] = Append(@, [kind |-> kind, by |-> by])]

\* Mutant: the snapshot stays registered.
Restore_Keep(t, p) ==
  /\ At(t, "rolling_back", p)
  /\ Emit(p, "ROLLBACK", IF Keyed(p) THEN "key" ELSE "tombstone")
  /\ GoOn(t, "restored")
  /\ UNCHANGED <<records, pending, snapshots, todo, history>>

\* execute_rollback pops the snapshot under its lock, restores it, or notes a
\* tombstone where there is none.
Restore(t, p) ==
  /\ At(t, "rolling_back", p)
  /\ \/ ~Keyed(p) /\ Emit(p, "ROLLBACK", "tombstone") /\ UNCHANGED snapshots
     \/ \E i \in DOMAIN snapshots :
          /\ snapshots[i] = p
          /\ Emit(p, "ROLLBACK", "key")
          /\ snapshots' = RemoveAt(snapshots, i)
  /\ GoOn(t, "restored")
  /\ UNCHANGED <<records, pending, todo, history>>

MarkRolledBack(t, p) ==
  /\ At(t, "restored", p)
  /\ rec' = [rec EXCEPT ![p].stage = "ROLLED_BACK", ![p].rolled_back = TRUE]
  /\ GoOn(t, "auditing")
  /\ UNCHANGED <<active, completed, engines, todo, history>>

\* _run_replay_audit: the trail is written, the stage set.
Audit(t, p) ==
  /\ At(t, "auditing", p)
  /\ Advance(p, "REPLAY_AUDIT")
  /\ GoOn(t, "audited")
  /\ UNCHANGED <<active, completed, engines, todo, history>>

\* "Rolled-back proposals terminate here"; the others wait for a tick.
AfterAudit(t, p) ==
  /\ At(t, "audited", p)
  /\ IF rec[p].rolled_back THEN GoOn(t, "closing") ELSE Done(t)
  /\ UNCHANGED <<records, engines, todo, history>>

\* DeploymentGate.enter, CLASS_B: every tick enters again while it waits.
Enter(t, p) ==
  /\ At(t, "entering", p)
  /\ pending' = pending \cup {p}
  /\ entries' = [entries EXCEPT ![p] = IF p \in pending THEN @ ELSE @ + 1]
  /\ Done(t)
  /\ UNCHANGED <<records, snapshots, events, todo, approvals, calls>>

\* _build_and_register
Deploy(t, p) ==
  /\ At(t, "deploying", p)
  /\ Emit(p, "DEPLOYED", By(t))
  /\ GoOn(t, "deployed")
  /\ UNCHANGED <<records, pending, snapshots, todo, history>>

\* approve_deployment looks under the lock whether the record is still there,
\* and gives up when it is gone by now; the tick does not look.
Learn(t, p) ==
  /\ At(t, "deployed", p)
  /\ t # Ticker
  /\ p \in active
  /\ GoOn(t, "marking")
  /\ UNCHANGED <<records, engines, todo, history>>

DeployedGone(t, p) ==
  /\ At(t, "deployed", p)
  /\ t # Ticker
  /\ p \notin active
  /\ Done(t)
  /\ UNCHANGED <<records, engines, todo, history>>

\* The record is marked after the lock is released.
MarkDeployed(t, p) ==
  /\ At(t, IF t = Ticker THEN "deployed" ELSE "marking", p)
  /\ Advance(p, "DEPLOYED")
  /\ GoOn(t, "closing")
  /\ UNCHANGED <<active, completed, engines, todo, history>>

\* Mutant: the record stays active.
Close_StaysActive(t, p) ==
  /\ At(t, "closing", p)
  /\ completed' = [completed EXCEPT ![p] = @ + 1]
  /\ Done(t)
  /\ UNCHANGED <<rec, active, engines, todo, history>>

\* _finalize
Close(t, p) ==
  /\ At(t, "closing", p)
  /\ active' = active \ {p}
  /\ completed' = [completed EXCEPT ![p] = @ + 1]
  /\ Done(t)
  /\ UNCHANGED <<rec, engines, todo, history>>

Next ==
  \E p \in Proposals :
    \/ \E class \in Classes : Submit(p, class)
    \/ TickStarts
    \/ \E outcome \in Outcomes : Sandboxed(p, outcome) \/ Simulated(p, outcome)
    \/ Benchmarked(p) \/ FailedTest(p) \/ ReviewOpens(p)
    \/ TickTakesUp(p) \/ TickSkips(p)
    \/ \E t \in Operators : Review(t, p) \/ RollBack(t, p) \/ Clear(t, p)
    \/ \E t \in Threads :
         \/ Approve(t, p) \/ Promote(t, p) \/ Reject(t, p)
         \/ Restore(t, p) \/ MarkRolledBack(t, p)
         \/ Audit(t, p) \/ AfterAudit(t, p)
         \/ Enter(t, p) \/ Deploy(t, p) \/ Learn(t, p) \/ DeployedGone(t, p)
         \/ MarkDeployed(t, p) \/ Close(t, p)

Spec == Init /\ [][Next]_vars
-----------------------------------------------------------------------------
\* How many deployments or rollbacks of a proposal were published.
Count(kind, p, by) ==
  Cardinality({i \in DOMAIN events[p] : events[p][i] = [kind |-> kind, by |-> by]})

TypeOK ==
  /\ rec \in [Proposals -> Records]
  /\ active \subseteq Proposals
  /\ completed \in [Proposals -> Nat]
  /\ pending \subseteq Proposals
  /\ snapshots \in Seq(Proposals)
  /\ Len(snapshots) <= MaxSnapshots
  /\ events \in [Proposals -> Seq(Rows)]
  /\ thread \in [Threads -> Works]
  /\ todo \subseteq Proposals
  /\ approvals \in [Proposals -> Seq({"AUTO", "OPERATOR"})]
  /\ entries \in [Proposals -> Nat]
  /\ calls \in 0 .. MaxCalls
  /\ shared \subseteq Proposals

Approvers(p) == {approvals[p][i] : i \in DOMAIN approvals[p]}

\* "No direct uncontrolled mutation": whoever races with whom, what is
\* deployed went through governance, and what is not CLASS_A was approved and
\* deployed by operators.
DeploymentsWereReviewed ==
  \A p \in Proposals : \A i \in DOMAIN events[p] :
    events[p][i].kind = "DEPLOYED" =>
      /\ Approvers(p) # {}
      /\ rec[p].class # "CLASS_A" =>
           "OPERATOR" \in Approvers(p) /\ events[p][i].by = "OPERATOR"

\* A proposal that failed its sandbox or its simulation is never approved,
\* and so never promoted or deployed.
FailuresStop ==
  \A p \in Proposals :
    rec[p].sandbox = "FAIL" \/ rec[p].simulation = "FAIL" => approvals[p] = <<>>

\* Operators who press the button together share one deployment: each one of
\* theirs uses up an entry of the gate.
EntriesPay ==
  \A p \in Proposals : Count("DEPLOYED", p, "OPERATOR") <= entries[p]

\* Rollbacks that race restore a snapshot once: at most one for each
\* promotion, and the others are tombstones.
SnapshotsRestoreOnce ==
  \A p \in Proposals : Count("ROLLBACK", p, "key") <= Len(approvals[p])

\* Where threads have taken turns on a proposal it is closed once, in a stage
\* that is an end, and deployed at most once: every double closing, deployment
\* or resurrection the check-then-act allows takes two threads at a time, or a
\* tick that acts on a copy older than the closing.
TurnsAreClean ==
  \A p \in Proposals \ shared :
    /\ completed[p] <= 1
    /\ p \in active \/ rec[p] = NoRecord <=> completed[p] = 0
    /\ completed[p] = 1 => \/ rec[p].stage \in {"DEPLOYED", "REJECTED"}
                           \/ rec[p].stage = "REPLAY_AUDIT" /\ rec[p].rolled_back
    /\ Count("DEPLOYED", p, "AUTO") + Count("DEPLOYED", p, "OPERATOR") <= 1

\* "rollback path, no DEPLOYED": where threads have taken turns on a proposal,
\* nothing is deployed after its rollback.  (Where a tick and a rollback race, the
\* automatic deployment may follow the rollback too.)
RolledBackNeverDeployed ==
  \A p \in Proposals \ shared : \A i, j \in DOMAIN events[p] :
    i < j => ~(events[p][i].kind = "ROLLBACK" /\ events[p][j].kind = "DEPLOYED")
=============================================================================

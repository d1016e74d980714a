------------------------- MODULE EvolutionLifecycleProofs -------------------------
(***************************************************************************)
(* Proofs about EvolutionLifecycle, for any number of proposals, operators *)
(* and calls: type correctness; that a deployment was reviewed and that a  *)
(* failed test is the end; that operators' deployments use up entries of   *)
(* the gate and restores use up approvals; and that threads which take     *)
(* turns close and deploy a proposal once.                                 *)
(*                                                                         *)
(* The arguments.  Past governance everything that can lead to a           *)
(* deployment (a stage, a place in the gate, a thread on its way) belongs  *)
(* to a proposal that was reviewed (ReviewedAt), however stale the check   *)
(* it rests on, because a review is never taken back; and no thread but    *)
(* the tick is on a proposal before governance (EarlyAt), so what the      *)
(* tests found is not overtaken (TestsAt).  A deployment is paid for with  *)
(* the place in the gate its operator took, a restore with the snapshot it *)
(* popped: PaidInv and SnapshotInv count what is spent and what is still   *)
(* to spend.  A thread that is alone on a record finds it as its check     *)
(* left it (Fits), so its turn ends where it should (CleanInv).            *)
(***************************************************************************)
EXTENDS EvolutionLifecycle, Integers, FiniteSetTheorems, TLAPS

Early == {"none", "PROPOSED", "SANDBOX", "SIMULATION", "BENCHMARK"}

Late == {"PROMOTED", "ROLLED_BACK", "REPLAY_AUDIT", "DEPLOYED"}

LateSteps == {"promoting", "rolling_back", "restored", "auditing", "audited",
              "entering", "deploying", "deployed", "marking"}

Reviewed(p) ==
  /\ approvals[p] # <<>>
  /\ rec[p].class # "CLASS_A" => "OPERATOR" \in Approvers(p)

Failed(p) == rec[p].sandbox = "FAIL" \/ rec[p].simulation = "FAIL"

\* Before governance no thread holds the proposal and nobody has approved it.
EarlyAt(p) ==
  rec[p].stage \in Early =>
    approvals[p] = <<>> /\ \A t \in Threads : thread[t].on # p

\* A failed test leads to REJECTED and nowhere else.
TestsAt(p) ==
  /\ rec[p].stage = "PROPOSED" => rec[p].sandbox = "" /\ rec[p].simulation = ""
  /\ rec[p].stage = "SANDBOX" => rec[p].simulation = ""
  /\ rec[p].stage = "SIMULATION" => rec[p].sandbox # "FAIL"
  /\ Failed(p) =>
       /\ rec[p].stage \in {"SANDBOX", "SIMULATION", "REJECTED"}
       /\ approvals[p] = <<>>
       /\ \A t \in Threads : thread[t].on = p => thread[t].step = "closing"

\* Past governance there was a review, and the tick only approves and deploys
\* what is CLASS_A.
ReviewedAt(p) ==
  /\ rec[p].stage \in Late => Reviewed(p)
  /\ p \in pending => Reviewed(p)
  /\ \A t \in Threads :
       thread[t].on = p /\ thread[t].step \in LateSteps => Reviewed(p)
  /\ thread[Ticker].on = p /\ thread[Ticker].step \in {"approving", "deploying"} =>
       rec[p].class = "CLASS_A"

DeployedAt(p) ==
  \A i \in DOMAIN events[p] : events[p][i].kind = "DEPLOYED" =>
    Reviewed(p) /\ (rec[p].class # "CLASS_A" => events[p][i].by = "OPERATOR")

SafeAt(p) == EarlyAt(p) /\ TestsAt(p) /\ ReviewedAt(p) /\ DeployedAt(p)

Inv == TypeOK /\ \A p \in Proposals : SafeAt(p)
-----------------------------------------------------------------------------

(***************************************************************************)
(* Type correctness.                                                       *)
(***************************************************************************)
\* A record that changes its stage, or a result, is a record.
LEMMA StageType ==
  ASSUME rec \in [Proposals -> Records], NEW p \in Proposals, NEW s \in Stages,
         Advance(p, s)
  PROVE  rec' \in [Proposals -> Records]
BY DEF Advance, Records

\* A thread that takes up a proposal, goes on or is done is at a step it knows.
LEMMA TakeUpType ==
  ASSUME thread \in [Threads -> Works], shared \subseteq Proposals,
         NEW p \in Proposals, NEW t \in Threads, NEW s \in Steps, TakeUp(t, s, p)
  PROVE  thread' \in [Threads -> Works] /\ shared' \subseteq Proposals
BY DEF TakeUp, Works

LEMMA GoOnType ==
  ASSUME thread \in [Threads -> Works], NEW p \in Proposals, NEW t \in Threads,
         NEW s \in Steps, NEW r \in Steps, At(t, r, p), GoOn(t, s)
  PROVE  thread' \in [Threads -> Works] /\ shared' = shared
<1>1. [thread[t] EXCEPT !.step = s] \in Works
  BY DEF At, Works
<1> QED
  BY <1>1 DEF GoOn

LEMMA DoneType ==
  ASSUME thread \in [Threads -> Works], NEW t \in Threads, Done(t)
  PROVE  thread' \in [Threads -> Works] /\ shared' = shared
BY DEF Done, Works

\* A row more is a history still.
LEMMA EmitType ==
  ASSUME events \in [Proposals -> Seq(Rows)], NEW p \in Proposals, NEW kind, NEW by,
         [kind |-> kind, by |-> by] \in Rows, Emit(p, kind, by)
  PROVE  events' \in [Proposals -> Seq(Rows)]
<1> DEFINE row == [kind |-> kind, by |-> by]
<1>1. row \in Rows
  OBVIOUS
<1>2. Append(events[p], row) \in Seq(Rows)
  <2> HIDE DEF row
  <2> QED
    BY <1>1
<1> QED
  BY <1>2 DEF Emit

\* The snapshots stay within their bound.
LEMMA RegisteredType ==
  ASSUME TypeOK, NEW p \in Proposals
  PROVE  Registered(p) \in Seq(Proposals) /\ Len(Registered(p)) <= MaxSnapshots
<1> DEFINE s == IF Keyed(p) THEN snapshots ELSE Append(snapshots, p)
<1>1. s \in Seq(Proposals) /\ Len(s) <= MaxSnapshots + 1 /\ Len(s) \in Nat
  BY EvolutionConstantsOK DEF TypeOK
<1>2. CASE Len(s) > MaxSnapshots
  <2>1. Registered(p) = Tail(s)
    BY <1>2 DEF Registered
  <2> HIDE DEF s
  <2>2. Tail(s) \in Seq(Proposals) /\ Len(Tail(s)) = Len(s) - 1
    BY <1>1, <1>2, EvolutionConstantsOK
  <2> QED
    BY <1>1, <2>1, <2>2, EvolutionConstantsOK
<1>3. CASE ~(Len(s) > MaxSnapshots)
  <2>1. Registered(p) = s
    BY <1>3 DEF Registered
  <2> HIDE DEF s
  <2> QED
    BY <1>1, <1>3, <2>1, EvolutionConstantsOK
<1> QED
  BY <1>2, <1>3

LEMMA RemovedType ==
  ASSUME TypeOK, NEW i \in DOMAIN snapshots
  PROVE  RemoveAt(snapshots, i) \in Seq(Proposals) /\ Len(RemoveAt(snapshots, i)) <= MaxSnapshots
<1>1. /\ snapshots \in Seq(Proposals)
      /\ Len(snapshots) <= MaxSnapshots
      /\ i \in 1 .. Len(snapshots)
      /\ MaxSnapshots \in Nat
      /\ Len(snapshots) \in Nat
  BY EvolutionConstantsOK DEF TypeOK
<1> DEFINE a == SubSeq(snapshots, 1, i - 1)
           b == SubSeq(snapshots, i + 1, Len(snapshots))
<1>2. a \in Seq(Proposals) /\ Len(a) = i - 1
  BY <1>1
<1>3. b \in Seq(Proposals) /\ Len(b) = Len(snapshots) - i
  BY <1>1
<1>4. RemoveAt(snapshots, i) = a \o b
  BY DEF RemoveAt
<1> HIDE DEF a, b
<1>5. a \o b \in Seq(Proposals) /\ Len(a \o b) = Len(a) + Len(b)
  BY <1>2, <1>3
<1> QED
  BY <1>1, <1>2, <1>3, <1>4, <1>5

LEMMA SubmitType ==
  ASSUME TypeOK, NEW p \in Proposals, NEW class \in Classes, Submit(p, class)
  PROVE  TypeOK'
<1>1. rec' \in [Proposals -> Records]
  BY DEF Submit, TypeOK, Records, Stages
<1> QED
  BY <1>1 DEF Submit, TypeOK, records, engines, history

LEMMA TickStartsType ==
  ASSUME TypeOK, NEW p \in Proposals, TickStarts
  PROVE  TypeOK'
<1> QED
  BY DEF TickStarts, TypeOK, records, engines, history

LEMMA SandboxedType ==
  ASSUME TypeOK, NEW p \in Proposals, NEW outcome \in Outcomes, Sandboxed(p, outcome)
  PROVE  TypeOK'
<1>1. rec' \in [Proposals -> Records]
  BY DEF Sandboxed, TypeOK, Records, Stages
<1> QED
  BY <1>1 DEF Sandboxed, TypeOK, records, engines, history, Takes

LEMMA SimulatedType ==
  ASSUME TypeOK, NEW p \in Proposals, NEW outcome \in Outcomes, Simulated(p, outcome)
  PROVE  TypeOK'
<1>1. rec' \in [Proposals -> Records]
  BY DEF Simulated, TypeOK, Records, Stages
<1> QED
  BY <1>1 DEF Simulated, TypeOK, records, engines, history, Takes

LEMMA BenchmarkedType ==
  ASSUME TypeOK, NEW p \in Proposals, Benchmarked(p)
  PROVE  TypeOK'
<1>1. rec' \in [Proposals -> Records]
  BY StageType, "BENCHMARK" \in Stages DEF Benchmarked, TypeOK, Stages
<1> QED
  BY <1>1 DEF Benchmarked, TypeOK, records, engines, history, Takes

LEMMA FailedTestType ==
  ASSUME TypeOK, NEW p \in Proposals, FailedTest(p)
  PROVE  TypeOK'
<1>1. rec' \in [Proposals -> Records]
  BY StageType, "REJECTED" \in Stages DEF FailedTest, TypeOK, Stages
<1>2. thread' \in [Threads -> Works] /\ shared' \subseteq Proposals
  BY TakeUpType, Ticker \in Threads, "closing" \in Steps
     DEF FailedTest, TypeOK, Threads, Steps
<1> QED
  BY <1>1, <1>2 DEF FailedTest, TypeOK, records, engines, history, Takes

LEMMA ReviewOpensType ==
  ASSUME TypeOK, NEW p \in Proposals, ReviewOpens(p)
  PROVE  TypeOK'
<1>1. rec' \in [Proposals -> Records]
  BY StageType, "GOV_REVIEW" \in Stages DEF ReviewOpens, TypeOK, Stages
<1> QED
  BY <1>1 DEF ReviewOpens, TypeOK, records, engines, history, Takes

LEMMA TickTakesUpType ==
  ASSUME TypeOK, NEW p \in Proposals, TickTakesUp(p)
  PROVE  TypeOK'
<1>1. thread' \in [Threads -> Works] /\ shared' \subseteq Proposals
  BY TakeUpType, Ticker \in Threads, "approving" \in Steps, "auditing" \in Steps,
     "deploying" \in Steps, "entering" \in Steps
     DEF TickTakesUp, TypeOK, Threads, Steps
<1> QED
  BY <1>1 DEF TickTakesUp, TypeOK, records, engines, history, Takes

LEMMA TickSkipsType ==
  ASSUME TypeOK, NEW p \in Proposals, TickSkips(p)
  PROVE  TypeOK'
<1> QED
  BY DEF TickSkips, TypeOK, records, engines, history, Takes

LEMMA ReviewType ==
  ASSUME TypeOK, NEW p \in Proposals, NEW t \in Operators, Review(t, p)
  PROVE  TypeOK'
<1>1. thread' \in [Threads -> Works] /\ shared' \subseteq Proposals
  BY TakeUpType, Ticker \in Threads, "approving" \in Steps, "rejecting" \in Steps
     DEF Review, TypeOK, Threads, Steps
<1>2. calls' \in 0 .. MaxCalls
  BY EvolutionConstantsOK DEF Review, Called, TypeOK
<1> QED
  BY <1>1, <1>2 DEF Review, TypeOK, records, engines, history

LEMMA RollBackType ==
  ASSUME TypeOK, NEW p \in Proposals, NEW t \in Operators, RollBack(t, p)
  PROVE  TypeOK'
<1>1. thread' \in [Threads -> Works] /\ shared' \subseteq Proposals
  BY TakeUpType, Ticker \in Threads, "rolling_back" \in Steps
     DEF RollBack, TypeOK, Threads, Steps
<1>2. calls' \in 0 .. MaxCalls
  BY EvolutionConstantsOK DEF RollBack, Called, TypeOK
<1> QED
  BY <1>1, <1>2 DEF RollBack, TypeOK, records, engines, history

LEMMA ClearType ==
  ASSUME TypeOK, NEW p \in Proposals, NEW t \in Operators, Clear(t, p)
  PROVE  TypeOK'
<1>1. thread' \in [Threads -> Works] /\ shared' \subseteq Proposals
  BY TakeUpType, Ticker \in Threads, "deploying" \in Steps
     DEF Clear, TypeOK, Threads, Steps
<1>2. calls' \in 0 .. MaxCalls
  BY EvolutionConstantsOK DEF Clear, Called, TypeOK
<1> QED
  BY <1>1, <1>2 DEF Clear, TypeOK, records, engines, history

LEMMA ApproveType ==
  ASSUME TypeOK, NEW p \in Proposals, NEW t \in Threads, Approve(t, p)
  PROVE  TypeOK'
<1>1. thread' \in [Threads -> Works] /\ shared' = shared
  BY GoOnType, "approving" \in Steps, "promoting" \in Steps DEF Approve, TypeOK, Steps
<1>2. approvals' \in [Proposals -> Seq({"AUTO", "OPERATOR"})]
  BY DEF Approve, TypeOK, By
<1>3. snapshots' \in Seq(Proposals) /\ Len(snapshots') <= MaxSnapshots
  BY RegisteredType DEF Approve
<1> QED
  BY <1>1, <1>2, <1>3 DEF Approve, TypeOK, records, engines, history

LEMMA PromoteType ==
  ASSUME TypeOK, NEW p \in Proposals, NEW t \in Threads, Promote(t, p)
  PROVE  TypeOK'
<1>1. rec' \in [Proposals -> Records]
  BY StageType, "PROMOTED" \in Stages DEF Promote, TypeOK, Stages
<1>2. thread' \in [Threads -> Works] /\ shared' = shared
  BY DoneType DEF Promote, TypeOK
<1> QED
  BY <1>1, <1>2 DEF Promote, TypeOK, records, engines, history

LEMMA RejectType ==
  ASSUME TypeOK, NEW p \in Proposals, NEW t \in Threads, Reject(t, p)
  PROVE  TypeOK'
<1>1. rec' \in [Proposals -> Records]
  BY StageType, "REJECTED" \in Stages DEF Reject, TypeOK, Stages
<1>2. thread' \in [Threads -> Works] /\ shared' = shared
  BY GoOnType, "rejecting" \in Steps, "closing" \in Steps DEF Reject, TypeOK, Steps
<1> QED
  BY <1>1, <1>2 DEF Reject, TypeOK, records, engines, history

LEMMA RestoreType ==
  ASSUME TypeOK, NEW p \in Proposals, NEW t \in Threads, Restore(t, p)
  PROVE  TypeOK'
<1>1. thread' \in [Threads -> Works] /\ shared' = shared
  BY GoOnType, "rolling_back" \in Steps, "restored" \in Steps DEF Restore, TypeOK, Steps
<1>2. events' \in [Proposals -> Seq(Rows)]
  BY EmitType, [kind |-> "ROLLBACK", by |-> "key"] \in Rows,
     [kind |-> "ROLLBACK", by |-> "tombstone"] \in Rows
     DEF Restore, TypeOK, Rows
<1>3. snapshots' \in Seq(Proposals) /\ Len(snapshots') <= MaxSnapshots
  BY RemovedType DEF Restore, TypeOK
<1> QED
  BY <1>1, <1>2, <1>3 DEF Restore, TypeOK, records, engines, history

LEMMA MarkRolledBackType ==
  ASSUME TypeOK, NEW p \in Proposals, NEW t \in Threads, MarkRolledBack(t, p)
  PROVE  TypeOK'
<1>1. rec' \in [Proposals -> Records]
  BY DEF MarkRolledBack, TypeOK, Records, Stages
<1>2. thread' \in [Threads -> Works] /\ shared' = shared
  BY GoOnType, "restored" \in Steps, "auditing" \in Steps
     DEF MarkRolledBack, TypeOK, Steps
<1> QED
  BY <1>1, <1>2 DEF MarkRolledBack, TypeOK, records, engines, history

LEMMA AuditType ==
  ASSUME TypeOK, NEW p \in Proposals, NEW t \in Threads, Audit(t, p)
  PROVE  TypeOK'
<1>1. rec' \in [Proposals -> Records]
  BY StageType, "REPLAY_AUDIT" \in Stages DEF Audit, TypeOK, Stages
<1>2. thread' \in [Threads -> Works] /\ shared' = shared
  BY GoOnType, "auditing" \in Steps, "audited" \in Steps DEF Audit, TypeOK, Steps
<1> QED
  BY <1>1, <1>2 DEF Audit, TypeOK, records, engines, history

LEMMA AfterAuditType ==
  ASSUME TypeOK, NEW p \in Proposals, NEW t \in Threads, AfterAudit(t, p)
  PROVE  TypeOK'
<1>1. thread' \in [Threads -> Works] /\ shared' = shared
  BY GoOnType, DoneType, "audited" \in Steps, "closing" \in Steps
     DEF AfterAudit, TypeOK, Steps
<1> QED
  BY <1>1 DEF AfterAudit, TypeOK, records, engines, history

LEMMA EnterType ==
  ASSUME TypeOK, NEW p \in Proposals, NEW t \in Threads, Enter(t, p)
  PROVE  TypeOK'
<1>1. thread' \in [Threads -> Works] /\ shared' = shared
  BY DoneType DEF Enter, TypeOK
<1> QED
  BY <1>1 DEF Enter, TypeOK, records, engines, history

LEMMA DeployType ==
  ASSUME TypeOK, NEW p \in Proposals, NEW t \in Threads, Deploy(t, p)
  PROVE  TypeOK'
<1>1. thread' \in [Threads -> Works] /\ shared' = shared
  BY GoOnType, "deploying" \in Steps, "deployed" \in Steps DEF Deploy, TypeOK, Steps
<1>2. events' \in [Proposals -> Seq(Rows)]
  BY EmitType, [kind |-> "DEPLOYED", by |-> By(t)] \in Rows DEF Deploy, TypeOK, Rows, By
<1> QED
  BY <1>1, <1>2 DEF Deploy, TypeOK, records, engines, history

LEMMA MarkDeployedType ==
  ASSUME TypeOK, NEW p \in Proposals, NEW t \in Threads, MarkDeployed(t, p)
  PROVE  TypeOK'
<1>1. rec' \in [Proposals -> Records]
  BY StageType, "DEPLOYED" \in Stages DEF MarkDeployed, TypeOK, Stages
<1>2. thread' \in [Threads -> Works] /\ shared' = shared
  BY GoOnType, "deployed" \in Steps, "marking" \in Steps, "closing" \in Steps
     DEF MarkDeployed, TypeOK, Steps
<1> QED
  BY <1>1, <1>2 DEF MarkDeployed, TypeOK, records, engines, history

LEMMA LearnType ==
  ASSUME TypeOK, NEW p \in Proposals, NEW t \in Threads, Learn(t, p)
  PROVE  TypeOK'
<1>1. thread' \in [Threads -> Works] /\ shared' = shared
  BY GoOnType, "deployed" \in Steps, "marking" \in Steps DEF Learn, TypeOK, Steps
<1> QED
  BY <1>1 DEF Learn, TypeOK, records, engines, history

LEMMA DeployedGoneType ==
  ASSUME TypeOK, NEW p \in Proposals, NEW t \in Threads, DeployedGone(t, p)
  PROVE  TypeOK'
<1>1. thread' \in [Threads -> Works] /\ shared' = shared
  BY DoneType DEF DeployedGone, TypeOK
<1> QED
  BY <1>1 DEF DeployedGone, TypeOK, records, engines, history

LEMMA CloseType ==
  ASSUME TypeOK, NEW p \in Proposals, NEW t \in Threads, Close(t, p)
  PROVE  TypeOK'
<1>1. thread' \in [Threads -> Works] /\ shared' = shared
  BY DoneType DEF Close, TypeOK
<1> QED
  BY <1>1 DEF Close, TypeOK, records, engines, history

-----------------------------------------------------------------------------
(***************************************************************************)
(* What a step does, point by point.                                       *)
(***************************************************************************)
\* Only the stage of the one record changes.
LEMMA AdvanceFacts ==
  ASSUME rec \in [Proposals -> Records], NEW p \in Proposals, NEW s, Advance(p, s),
         NEW q \in Proposals
  PROVE  /\ rec'[q].stage = IF q = p THEN s ELSE rec[q].stage
         /\ rec'[q].class = rec[q].class
         /\ rec'[q].sandbox = rec[q].sandbox
         /\ rec'[q].simulation = rec[q].simulation
BY DEF Advance, Records

\* Only the one thread moves.
LEMMA TakeUpFacts ==
  ASSUME thread \in [Threads -> Works], NEW t \in Threads, NEW s, NEW p, TakeUp(t, s, p),
         NEW u \in Threads
  PROVE  /\ thread'[u].on = IF u = t THEN p ELSE thread[u].on
         /\ thread'[u].step = IF u = t THEN s ELSE thread[u].step
BY DEF TakeUp

LEMMA GoOnFacts ==
  ASSUME thread \in [Threads -> Works], NEW t \in Threads, NEW s, NEW r, NEW p, At(t, r, p),
         GoOn(t, s), NEW u \in Threads
  PROVE  /\ thread'[u].on = thread[u].on
         /\ thread'[u].step = IF u = t THEN s ELSE thread[u].step
         /\ thread[t].on = p
         /\ thread[t].step = r
BY DEF GoOn, At

LEMMA DoneFacts ==
  ASSUME thread \in [Threads -> Works], NEW t \in Threads, Done(t), NEW u \in Threads
  PROVE  /\ thread'[u].on = IF u = t THEN None ELSE thread[u].on
         /\ thread'[u].step = IF u = t THEN "idle" ELSE thread[u].step
BY DEF Done, Idle

\* A review is never taken back.
LEMMA ReviewedKept ==
  ASSUME NEW q \in Proposals, rec'[q].class = rec[q].class,
         approvals'[q] = approvals[q]
  PROVE  Reviewed(q)' <=> Reviewed(q)
BY DEF Reviewed, Approvers

\* A proposal a step is not about stays as it is.
LEMMA OthersSafe ==
  ASSUME NEW q \in Proposals, SafeAt(q), rec'[q] = rec[q],
         approvals'[q] = approvals[q], events'[q] = events[q],
         q \in pending' => q \in pending,
         \A u \in Threads : thread'[u].on = q => thread'[u] = thread[u]
  PROVE  SafeAt(q)'
<1>1. Reviewed(q)' <=> Reviewed(q)
  BY ReviewedKept
<1>2. Ticker \in Threads
  BY DEF Threads
<1>3. EarlyAt(q)'
  BY DEF SafeAt, EarlyAt
<1>4. TestsAt(q)'
  BY DEF SafeAt, TestsAt, Failed
<1>5. ReviewedAt(q)'
  BY <1>1, <1>2 DEF SafeAt, ReviewedAt
<1>6. DeployedAt(q)'
  BY <1>1 DEF SafeAt, DeployedAt
<1> QED
  BY <1>3, <1>4, <1>5, <1>6 DEF SafeAt

-----------------------------------------------------------------------------
(***************************************************************************)
(* The invariant, action by action.                                        *)
(***************************************************************************)
LEMMA BenchmarkedSafe ==
  ASSUME Inv, NEW p \in Proposals, Benchmarked(p)
  PROVE  \A q \in Proposals : SafeAt(q)'
<1>1. SafeAt(p)
  BY DEF Inv
<1>2. /\ rec'[p].stage = "BENCHMARK"
      /\ rec'[p].class = rec[p].class
      /\ rec'[p].sandbox = rec[p].sandbox
      /\ rec'[p].simulation = rec[p].simulation
  BY AdvanceFacts DEF Benchmarked, Inv, TypeOK
<1>3. thread' = thread
  BY DEF Benchmarked, Takes
<1>4. Reviewed(p)' <=> Reviewed(p)
  BY <1>2, <1>3, ReviewedKept DEF Benchmarked, history, Takes
<1>5. EarlyAt(p)'
  BY <1>2, <1>3, <1>4, <1>1, EvolutionConstantsOK
     DEF SafeAt, EarlyAt, Early, ReviewedAt, Reviewed, Late, Benchmarked, Takes,
         records, history
<1>6. TestsAt(p)'
  BY <1>2, <1>3, <1>4, <1>1, EvolutionConstantsOK
     DEF SafeAt, EarlyAt, Early, TestsAt, Failed, Benchmarked, Takes, records, history
<1>7. ReviewedAt(p)'
  BY <1>2, <1>3, <1>4, <1>1, EvolutionConstantsOK
     DEF SafeAt, ReviewedAt, Late, LateSteps, Threads, Benchmarked, Takes, engines,
         records
<1>8. DeployedAt(p)'
  BY <1>2, <1>3, <1>4, <1>1 DEF SafeAt, DeployedAt, Benchmarked, Takes, engines, records
<1>9. ASSUME NEW q \in Proposals, q # p PROVE SafeAt(q)'
  <2>1. \A u \in Threads : thread'[u].on = q => thread'[u] = thread[u]
    BY <1>9, EvolutionConstantsOK
       DEF Benchmarked, Takes, TakeUp, GoOn, Done, Idle, At, Inv, TypeOK
  <2>2. rec'[q] = rec[q] /\ approvals'[q] = approvals[q] /\ events'[q] = events[q]
    BY <1>9 DEF Benchmarked, Takes, Advance, Emit, records, engines, history, Inv, TypeOK
  <2>3. q \in pending' => q \in pending
    BY <1>9 DEF Benchmarked, engines
  <2> QED
    BY <2>1, <2>2, <2>3, OthersSafe DEF Inv
<1> QED
  BY <1>5, <1>6, <1>7, <1>8, <1>9 DEF SafeAt

LEMMA ReviewOpensSafe ==
  ASSUME Inv, NEW p \in Proposals, ReviewOpens(p)
  PROVE  \A q \in Proposals : SafeAt(q)'
<1>1. SafeAt(p)
  BY DEF Inv
<1>2. /\ rec'[p].stage = "GOV_REVIEW"
      /\ rec'[p].class = rec[p].class
      /\ rec'[p].sandbox = rec[p].sandbox
      /\ rec'[p].simulation = rec[p].simulation
  BY AdvanceFacts DEF ReviewOpens, Inv, TypeOK
<1>3. thread' = thread
  BY DEF ReviewOpens, Takes
<1>4. Reviewed(p)' <=> Reviewed(p)
  BY <1>2, <1>3, ReviewedKept DEF ReviewOpens, history, Takes
<1>5. EarlyAt(p)'
  BY <1>2, <1>3, <1>4, <1>1, EvolutionConstantsOK
     DEF SafeAt, EarlyAt, Early, ReviewedAt, Reviewed, Late, ReviewOpens, Takes,
         records, history
<1>6. TestsAt(p)'
  BY <1>2, <1>3, <1>4, <1>1, EvolutionConstantsOK
     DEF SafeAt, EarlyAt, Early, TestsAt, Failed, ReviewOpens, Takes, records, history
<1>7. ReviewedAt(p)'
  BY <1>2, <1>3, <1>4, <1>1, EvolutionConstantsOK
     DEF SafeAt, ReviewedAt, Late, LateSteps, Threads, ReviewOpens, Takes, engines,
         records
<1>8. DeployedAt(p)'
  BY <1>2, <1>3, <1>4, <1>1 DEF SafeAt, DeployedAt, ReviewOpens, Takes, engines, records
<1>9. ASSUME NEW q \in Proposals, q # p PROVE SafeAt(q)'
  <2>1. \A u \in Threads : thread'[u].on = q => thread'[u] = thread[u]
    BY <1>9, EvolutionConstantsOK
       DEF ReviewOpens, Takes, TakeUp, GoOn, Done, Idle, At, Inv, TypeOK
  <2>2. rec'[q] = rec[q] /\ approvals'[q] = approvals[q] /\ events'[q] = events[q]
    BY <1>9 DEF ReviewOpens, Takes, Advance, Emit, records, engines, history, Inv, TypeOK
  <2>3. q \in pending' => q \in pending
    BY <1>9 DEF ReviewOpens, engines
  <2> QED
    BY <2>1, <2>2, <2>3, OthersSafe DEF Inv
<1> QED
  BY <1>5, <1>6, <1>7, <1>8, <1>9 DEF SafeAt

LEMMA FailedTestSafe ==
  ASSUME Inv, NEW p \in Proposals, FailedTest(p)
  PROVE  \A q \in Proposals : SafeAt(q)'
<1>1. SafeAt(p)
  BY DEF Inv
<1>2. /\ rec'[p].stage = "REJECTED"
      /\ rec'[p].class = rec[p].class
      /\ rec'[p].sandbox = rec[p].sandbox
      /\ rec'[p].simulation = rec[p].simulation
  BY AdvanceFacts DEF FailedTest, Inv, TypeOK
<1>3. \E s \in Steps :
        /\ s = "closing"
        /\ \A u \in Threads :
             /\ thread'[u].on = IF u = Ticker THEN p ELSE thread[u].on
             /\ thread'[u].step = IF u = Ticker THEN s ELSE thread[u].step
  <2> DEFINE F(s) == \A u \in Threads :
             /\ thread'[u].on = IF u = Ticker THEN p ELSE thread[u].on
             /\ thread'[u].step = IF u = Ticker THEN s ELSE thread[u].step
  <2>1. \A s \in Steps : TakeUp(Ticker, s, p) => F(s)
    BY TakeUpFacts, Ticker \in Threads DEF Inv, TypeOK, Threads
  <2> HIDE DEF F
  <2>2. \E s \in Steps : TakeUp(Ticker, s, p) /\ (s = "closing")
    BY DEF FailedTest, Steps
  <2> QED
    BY <2>1, <2>2 DEF F
<1>4. Reviewed(p)' <=> Reviewed(p)
  BY <1>2, <1>3, ReviewedKept DEF FailedTest, history, Takes
<1>5. EarlyAt(p)'
  BY <1>2, <1>3, <1>4, <1>1, EvolutionConstantsOK
     DEF SafeAt, EarlyAt, Early, ReviewedAt, Reviewed, Late, FailedTest, Takes,
         records, history
<1>6. TestsAt(p)'
  BY <1>2, <1>3, <1>4, <1>1, EvolutionConstantsOK
     DEF SafeAt, EarlyAt, Early, TestsAt, Failed, FailedTest, Takes, records, history
<1>7. ReviewedAt(p)'
  BY <1>2, <1>3, <1>4, <1>1, EvolutionConstantsOK
     DEF SafeAt, ReviewedAt, Late, LateSteps, Threads, FailedTest, Takes, engines,
         records
<1>8. DeployedAt(p)'
  BY <1>2, <1>3, <1>4, <1>1 DEF SafeAt, DeployedAt, FailedTest, Takes, engines, records
<1>9. ASSUME NEW q \in Proposals, q # p PROVE SafeAt(q)'
  <2>1. \A u \in Threads : thread'[u].on = q => thread'[u] = thread[u]
    BY <1>9, EvolutionConstantsOK
       DEF FailedTest, Takes, TakeUp, GoOn, Done, Idle, At, Inv, TypeOK
  <2>2. rec'[q] = rec[q] /\ approvals'[q] = approvals[q] /\ events'[q] = events[q]
    BY <1>9 DEF FailedTest, Takes, Advance, Emit, records, engines, history, Inv, TypeOK
  <2>3. q \in pending' => q \in pending
    BY <1>9 DEF FailedTest, engines
  <2> QED
    BY <2>1, <2>2, <2>3, OthersSafe DEF Inv
<1> QED
  BY <1>5, <1>6, <1>7, <1>8, <1>9 DEF SafeAt

LEMMA TickTakesUpSafe ==
  ASSUME Inv, NEW p \in Proposals, TickTakesUp(p)
  PROVE  \A q \in Proposals : SafeAt(q)'
<1>1. SafeAt(p)
  BY DEF Inv
<1>2. rec' = rec
  BY DEF TickTakesUp, records
<1>3. \E s \in Steps :
        /\ s \in {"approving", "auditing", "deploying", "entering"}
        /\ s = "approving" => rec[p].stage = "GOV_REVIEW" /\ rec[p].class = "CLASS_A"
        /\ s = "deploying" => rec[p].class = "CLASS_A"
        /\ s # "approving" => rec[p].stage \in {"PROMOTED", "REPLAY_AUDIT"}
        /\ \A u \in Threads :
             /\ thread'[u].on = IF u = Ticker THEN p ELSE thread[u].on
             /\ thread'[u].step = IF u = Ticker THEN s ELSE thread[u].step
  <2> DEFINE F(s) == \A u \in Threads :
             /\ thread'[u].on = IF u = Ticker THEN p ELSE thread[u].on
             /\ thread'[u].step = IF u = Ticker THEN s ELSE thread[u].step
  <2>1. \A s \in Steps : TakeUp(Ticker, s, p) => F(s)
    BY TakeUpFacts, Ticker \in Threads DEF Inv, TypeOK, Threads
  <2> HIDE DEF F
  <2>2. \E s \in Steps :
          /\ TakeUp(Ticker, s, p)
          /\ s \in {"approving", "auditing", "deploying", "entering"}
          /\ s = "approving" => rec[p].stage = "GOV_REVIEW" /\ rec[p].class = "CLASS_A"
          /\ s = "deploying" => rec[p].class = "CLASS_A"
          /\ s # "approving" => rec[p].stage \in {"PROMOTED", "REPLAY_AUDIT"}
    BY DEF TickTakesUp, Steps
  <2> QED
    BY <2>1, <2>2 DEF F
<1>4. Reviewed(p)' <=> Reviewed(p)
  BY <1>2, <1>3, ReviewedKept DEF TickTakesUp, history, Takes
<1>5. EarlyAt(p)'
  BY <1>2, <1>3, <1>4, <1>1, EvolutionConstantsOK
     DEF SafeAt, EarlyAt, Early, ReviewedAt, Reviewed, Late, TickTakesUp, Takes,
         records, history
<1>6. TestsAt(p)'
  BY <1>2, <1>3, <1>4, <1>1, EvolutionConstantsOK
     DEF SafeAt, EarlyAt, Early, TestsAt, Failed, TickTakesUp, Takes, records, history
<1>7. ReviewedAt(p)'
  BY <1>2, <1>3, <1>4, <1>1, EvolutionConstantsOK
     DEF SafeAt, ReviewedAt, Late, LateSteps, Threads, TickTakesUp, Takes, engines,
         records
<1>8. DeployedAt(p)'
  BY <1>2, <1>3, <1>4, <1>1 DEF SafeAt, DeployedAt, TickTakesUp, Takes, engines, records
<1>9. ASSUME NEW q \in Proposals, q # p PROVE SafeAt(q)'
  <2>1. \A u \in Threads : thread'[u].on = q => thread'[u] = thread[u]
    BY <1>9, EvolutionConstantsOK
       DEF TickTakesUp, Takes, TakeUp, GoOn, Done, Idle, At, Inv, TypeOK
  <2>2. rec'[q] = rec[q] /\ approvals'[q] = approvals[q] /\ events'[q] = events[q]
    BY <1>9 DEF TickTakesUp, Takes, Advance, Emit, records, engines, history, Inv, TypeOK
  <2>3. q \in pending' => q \in pending
    BY <1>9 DEF TickTakesUp, engines
  <2> QED
    BY <2>1, <2>2, <2>3, OthersSafe DEF Inv
<1> QED
  BY <1>5, <1>6, <1>7, <1>8, <1>9 DEF SafeAt

LEMMA ReviewSafe ==
  ASSUME Inv, NEW p \in Proposals, NEW t \in Operators, Review(t, p)
  PROVE  \A q \in Proposals : SafeAt(q)'
<1>1. SafeAt(p)
  BY DEF Inv
<1>2. rec' = rec
  BY DEF Review, records
<1>3. \E s \in Steps :
        /\ s \in {"approving", "rejecting"}
        /\ \A u \in Threads :
             /\ thread'[u].on = IF u = t THEN p ELSE thread[u].on
             /\ thread'[u].step = IF u = t THEN s ELSE thread[u].step
  <2> DEFINE F(s) == \A u \in Threads :
             /\ thread'[u].on = IF u = t THEN p ELSE thread[u].on
             /\ thread'[u].step = IF u = t THEN s ELSE thread[u].step
  <2>1. \A s \in Steps : TakeUp(t, s, p) => F(s)
    BY TakeUpFacts, Ticker \in Threads DEF Inv, TypeOK, Threads
  <2> HIDE DEF F
  <2>2. \E s \in Steps : TakeUp(t, s, p) /\ (s \in {"approving", "rejecting"})
    BY DEF Review, Steps
  <2> QED
    BY <2>1, <2>2 DEF F
<1>4. Reviewed(p)' <=> Reviewed(p)
  BY <1>2, <1>3, ReviewedKept DEF Review, history, Takes
<1>5. EarlyAt(p)'
  BY <1>2, <1>3, <1>4, <1>1, EvolutionConstantsOK
     DEF SafeAt, EarlyAt, Early, ReviewedAt, Reviewed, Late, Review, Takes, records,
         history
<1>6. TestsAt(p)'
  BY <1>2, <1>3, <1>4, <1>1, EvolutionConstantsOK
     DEF SafeAt, EarlyAt, Early, TestsAt, Failed, Review, Takes, records, history
<1>7. ReviewedAt(p)'
  BY <1>2, <1>3, <1>4, <1>1, EvolutionConstantsOK
     DEF SafeAt, ReviewedAt, Late, LateSteps, Threads, Review, Takes, engines, records
<1>8. DeployedAt(p)'
  BY <1>2, <1>3, <1>4, <1>1 DEF SafeAt, DeployedAt, Review, Takes, engines, records
<1>9. ASSUME NEW q \in Proposals, q # p PROVE SafeAt(q)'
  <2>1. \A u \in Threads : thread'[u].on = q => thread'[u] = thread[u]
    BY <1>9, EvolutionConstantsOK
       DEF Review, Takes, TakeUp, GoOn, Done, Idle, At, Inv, TypeOK
  <2>2. rec'[q] = rec[q] /\ approvals'[q] = approvals[q] /\ events'[q] = events[q]
    BY <1>9 DEF Review, Takes, Advance, Emit, records, engines, history, Inv, TypeOK
  <2>3. q \in pending' => q \in pending
    BY <1>9 DEF Review, engines
  <2> QED
    BY <2>1, <2>2, <2>3, OthersSafe DEF Inv
<1> QED
  BY <1>5, <1>6, <1>7, <1>8, <1>9 DEF SafeAt

LEMMA RollBackSafe ==
  ASSUME Inv, NEW p \in Proposals, NEW t \in Operators, RollBack(t, p)
  PROVE  \A q \in Proposals : SafeAt(q)'
<1>1. SafeAt(p)
  BY DEF Inv
<1>2. rec' = rec
  BY DEF RollBack, records
<1>3. \E s \in Steps :
        /\ s = "rolling_back"
        /\ \A u \in Threads :
             /\ thread'[u].on = IF u = t THEN p ELSE thread[u].on
             /\ thread'[u].step = IF u = t THEN s ELSE thread[u].step
  <2> DEFINE F(s) == \A u \in Threads :
             /\ thread'[u].on = IF u = t THEN p ELSE thread[u].on
             /\ thread'[u].step = IF u = t THEN s ELSE thread[u].step
  <2>1. \A s \in Steps : TakeUp(t, s, p) => F(s)
    BY TakeUpFacts, Ticker \in Threads DEF Inv, TypeOK, Threads
  <2> HIDE DEF F
  <2>2. \E s \in Steps : TakeUp(t, s, p) /\ (s = "rolling_back")
    BY DEF RollBack, Steps
  <2> QED
    BY <2>1, <2>2 DEF F
<1>4. Reviewed(p)' <=> Reviewed(p)
  BY <1>2, <1>3, ReviewedKept DEF RollBack, history, Takes
<1>5. EarlyAt(p)'
  BY <1>2, <1>3, <1>4, <1>1, EvolutionConstantsOK
     DEF SafeAt, EarlyAt, Early, ReviewedAt, Reviewed, Late, RollBack, Takes, records,
         history
<1>6. TestsAt(p)'
  BY <1>2, <1>3, <1>4, <1>1, EvolutionConstantsOK
     DEF SafeAt, EarlyAt, Early, TestsAt, Failed, RollBack, Takes, records, history
<1>7. ReviewedAt(p)'
  BY <1>2, <1>3, <1>4, <1>1, EvolutionConstantsOK
     DEF SafeAt, ReviewedAt, Late, LateSteps, Threads, RollBack, Takes, engines,
         records
<1>8. DeployedAt(p)'
  BY <1>2, <1>3, <1>4, <1>1 DEF SafeAt, DeployedAt, RollBack, Takes, engines, records
<1>9. ASSUME NEW q \in Proposals, q # p PROVE SafeAt(q)'
  <2>1. \A u \in Threads : thread'[u].on = q => thread'[u] = thread[u]
    BY <1>9, EvolutionConstantsOK
       DEF RollBack, Takes, TakeUp, GoOn, Done, Idle, At, Inv, TypeOK
  <2>2. rec'[q] = rec[q] /\ approvals'[q] = approvals[q] /\ events'[q] = events[q]
    BY <1>9 DEF RollBack, Takes, Advance, Emit, records, engines, history, Inv, TypeOK
  <2>3. q \in pending' => q \in pending
    BY <1>9 DEF RollBack, engines
  <2> QED
    BY <2>1, <2>2, <2>3, OthersSafe DEF Inv
<1> QED
  BY <1>5, <1>6, <1>7, <1>8, <1>9 DEF SafeAt

LEMMA ClearSafe ==
  ASSUME Inv, NEW p \in Proposals, NEW t \in Operators, Clear(t, p)
  PROVE  \A q \in Proposals : SafeAt(q)'
<1>1. SafeAt(p)
  BY DEF Inv
<1>2. rec' = rec
  BY DEF Clear, records
<1>3. \E s \in Steps :
        /\ s = "deploying"
        /\ \A u \in Threads :
             /\ thread'[u].on = IF u = t THEN p ELSE thread[u].on
             /\ thread'[u].step = IF u = t THEN s ELSE thread[u].step
  <2> DEFINE F(s) == \A u \in Threads :
             /\ thread'[u].on = IF u = t THEN p ELSE thread[u].on
             /\ thread'[u].step = IF u = t THEN s ELSE thread[u].step
  <2>1. \A s \in Steps : TakeUp(t, s, p) => F(s)
    BY TakeUpFacts, Ticker \in Threads DEF Inv, TypeOK, Threads
  <2> HIDE DEF F
  <2>2. \E s \in Steps : TakeUp(t, s, p) /\ (s = "deploying")
    BY DEF Clear, Steps
  <2> QED
    BY <2>1, <2>2 DEF F
<1>4. Reviewed(p)' <=> Reviewed(p)
  BY <1>2, <1>3, ReviewedKept DEF Clear, history, Takes
<1>5. EarlyAt(p)'
  BY <1>2, <1>3, <1>4, <1>1, EvolutionConstantsOK
     DEF SafeAt, EarlyAt, Early, ReviewedAt, Reviewed, Late, Clear, Takes, records,
         history
<1>6. TestsAt(p)'
  BY <1>2, <1>3, <1>1 DEF SafeAt, TestsAt, Failed, ReviewedAt, Reviewed, Clear, history
<1>7. ReviewedAt(p)'
  BY <1>2, <1>3, <1>4, <1>1, EvolutionConstantsOK
     DEF SafeAt, ReviewedAt, Late, LateSteps, Threads, Clear, Takes, engines, records
<1>8. DeployedAt(p)'
  BY <1>2, <1>3, <1>4, <1>1 DEF SafeAt, DeployedAt, Clear, Takes, engines, records
<1>9. ASSUME NEW q \in Proposals, q # p PROVE SafeAt(q)'
  <2>1. \A u \in Threads : thread'[u].on = q => thread'[u] = thread[u]
    BY <1>9, EvolutionConstantsOK
       DEF Clear, Takes, TakeUp, GoOn, Done, Idle, At, Inv, TypeOK
  <2>2. rec'[q] = rec[q] /\ approvals'[q] = approvals[q] /\ events'[q] = events[q]
    BY <1>9 DEF Clear, Takes, Advance, Emit, records, engines, history, Inv, TypeOK
  <2>3. q \in pending' => q \in pending
    BY <1>9 DEF Clear, engines
  <2> QED
    BY <2>1, <2>2, <2>3, OthersSafe DEF Inv
<1> QED
  BY <1>5, <1>6, <1>7, <1>8, <1>9 DEF SafeAt

LEMMA PromoteSafe ==
  ASSUME Inv, NEW p \in Proposals, NEW t \in Threads, Promote(t, p)
  PROVE  \A q \in Proposals : SafeAt(q)'
<1>1. SafeAt(p)
  BY DEF Inv
<1>2. /\ rec'[p].stage = "PROMOTED"
      /\ rec'[p].class = rec[p].class
      /\ rec'[p].sandbox = rec[p].sandbox
      /\ rec'[p].simulation = rec[p].simulation
  BY AdvanceFacts DEF Promote, Inv, TypeOK
<1>3. /\ thread[t].on = p /\ thread[t].step = "promoting"
      /\ \A u \in Threads :
           /\ thread'[u].on = IF u = t THEN None ELSE thread[u].on
           /\ thread'[u].step = IF u = t THEN "idle" ELSE thread[u].step
  BY DoneFacts DEF Promote, Inv, TypeOK, At
<1>4. Reviewed(p)' <=> Reviewed(p)
  BY <1>2, <1>3, ReviewedKept DEF Promote, history, Takes
<1>5. EarlyAt(p)'
  BY <1>2, <1>3, <1>4, <1>1, EvolutionConstantsOK
     DEF SafeAt, EarlyAt, Early, ReviewedAt, Reviewed, Late, Promote, records, history
<1>6. TestsAt(p)'
  BY <1>2, <1>3, <1>4, <1>1, EvolutionConstantsOK
     DEF SafeAt, EarlyAt, Early, TestsAt, Failed, Promote, records, history
<1>7. ReviewedAt(p)'
  BY <1>2, <1>3, <1>4, <1>1, EvolutionConstantsOK
     DEF SafeAt, ReviewedAt, Late, LateSteps, Threads, Promote, engines, records
<1>8. DeployedAt(p)'
  BY <1>2, <1>3, <1>4, <1>1 DEF SafeAt, DeployedAt, Promote, engines, records
<1>9. ASSUME NEW q \in Proposals, q # p PROVE SafeAt(q)'
  <2>1. \A u \in Threads : thread'[u].on = q => thread'[u] = thread[u]
    BY <1>9, EvolutionConstantsOK
       DEF Promote, Takes, TakeUp, GoOn, Done, Idle, At, Inv, TypeOK
  <2>2. rec'[q] = rec[q] /\ approvals'[q] = approvals[q] /\ events'[q] = events[q]
    BY <1>9 DEF Promote, Takes, Advance, Emit, records, engines, history, Inv, TypeOK
  <2>3. q \in pending' => q \in pending
    BY <1>9 DEF Promote, engines
  <2> QED
    BY <2>1, <2>2, <2>3, OthersSafe DEF Inv
<1> QED
  BY <1>5, <1>6, <1>7, <1>8, <1>9 DEF SafeAt

LEMMA RejectSafe ==
  ASSUME Inv, NEW p \in Proposals, NEW t \in Threads, Reject(t, p)
  PROVE  \A q \in Proposals : SafeAt(q)'
<1>1. SafeAt(p)
  BY DEF Inv
<1>2. /\ rec'[p].stage = "REJECTED"
      /\ rec'[p].class = rec[p].class
      /\ rec'[p].sandbox = rec[p].sandbox
      /\ rec'[p].simulation = rec[p].simulation
  BY AdvanceFacts DEF Reject, Inv, TypeOK
<1>3. /\ thread[t].on = p /\ thread[t].step = "rejecting"
      /\ \A u \in Threads :
           /\ thread'[u].on = thread[u].on
           /\ thread'[u].step = IF u = t THEN "closing" ELSE thread[u].step
  BY GoOnFacts DEF Reject, Inv, TypeOK
<1>4. Reviewed(p)' <=> Reviewed(p)
  BY <1>2, <1>3, ReviewedKept DEF Reject, history, Takes
<1>5. EarlyAt(p)'
  BY <1>2, <1>3, <1>4, <1>1, EvolutionConstantsOK
     DEF SafeAt, EarlyAt, Early, ReviewedAt, Reviewed, Late, Reject, records, history
<1>6. TestsAt(p)'
  BY <1>2, <1>3, <1>4, <1>1, EvolutionConstantsOK
     DEF SafeAt, EarlyAt, Early, TestsAt, Failed, Reject, records, history
<1>7. ReviewedAt(p)'
  BY <1>2, <1>3, <1>4, <1>1, EvolutionConstantsOK
     DEF SafeAt, ReviewedAt, Late, LateSteps, Threads, Reject, engines, records
<1>8. DeployedAt(p)'
  BY <1>2, <1>3, <1>4, <1>1 DEF SafeAt, DeployedAt, Reject, engines, records
<1>9. ASSUME NEW q \in Proposals, q # p PROVE SafeAt(q)'
  <2>1. \A u \in Threads : thread'[u].on = q => thread'[u] = thread[u]
    BY <1>9, EvolutionConstantsOK
       DEF Reject, Takes, TakeUp, GoOn, Done, Idle, At, Inv, TypeOK
  <2>2. rec'[q] = rec[q] /\ approvals'[q] = approvals[q] /\ events'[q] = events[q]
    BY <1>9 DEF Reject, Takes, Advance, Emit, records, engines, history, Inv, TypeOK
  <2>3. q \in pending' => q \in pending
    BY <1>9 DEF Reject, engines
  <2> QED
    BY <2>1, <2>2, <2>3, OthersSafe DEF Inv
<1> QED
  BY <1>5, <1>6, <1>7, <1>8, <1>9 DEF SafeAt

LEMMA AuditSafe ==
  ASSUME Inv, NEW p \in Proposals, NEW t \in Threads, Audit(t, p)
  PROVE  \A q \in Proposals : SafeAt(q)'
<1>1. SafeAt(p)
  BY DEF Inv
<1>2. /\ rec'[p].stage = "REPLAY_AUDIT"
      /\ rec'[p].class = rec[p].class
      /\ rec'[p].sandbox = rec[p].sandbox
      /\ rec'[p].simulation = rec[p].simulation
  BY AdvanceFacts DEF Audit, Inv, TypeOK
<1>3. /\ thread[t].on = p /\ thread[t].step = "auditing"
      /\ \A u \in Threads :
           /\ thread'[u].on = thread[u].on
           /\ thread'[u].step = IF u = t THEN "audited" ELSE thread[u].step
  BY GoOnFacts DEF Audit, Inv, TypeOK
<1>4. Reviewed(p)' <=> Reviewed(p)
  BY <1>2, <1>3, ReviewedKept DEF Audit, history, Takes
<1>5. EarlyAt(p)'
  BY <1>2, <1>3, <1>4, <1>1, EvolutionConstantsOK
     DEF SafeAt, EarlyAt, Early, ReviewedAt, Reviewed, Late, Audit, records, history
<1>6. TestsAt(p)'
  BY <1>2, <1>3, <1>4, <1>1, EvolutionConstantsOK
     DEF SafeAt, EarlyAt, Early, TestsAt, Failed, Audit, records, history
<1>7. ReviewedAt(p)'
  BY <1>2, <1>3, <1>4, <1>1, EvolutionConstantsOK
     DEF SafeAt, ReviewedAt, Late, LateSteps, Threads, Audit, engines, records
<1>8. DeployedAt(p)'
  BY <1>2, <1>3, <1>4, <1>1 DEF SafeAt, DeployedAt, Audit, engines, records
<1>9. ASSUME NEW q \in Proposals, q # p PROVE SafeAt(q)'
  <2>1. \A u \in Threads : thread'[u].on = q => thread'[u] = thread[u]
    BY <1>9, EvolutionConstantsOK
       DEF Audit, Takes, TakeUp, GoOn, Done, Idle, At, Inv, TypeOK
  <2>2. rec'[q] = rec[q] /\ approvals'[q] = approvals[q] /\ events'[q] = events[q]
    BY <1>9 DEF Audit, Takes, Advance, Emit, records, engines, history, Inv, TypeOK
  <2>3. q \in pending' => q \in pending
    BY <1>9 DEF Audit, engines
  <2> QED
    BY <2>1, <2>2, <2>3, OthersSafe DEF Inv
<1> QED
  BY <1>5, <1>6, <1>7, <1>8, <1>9 DEF SafeAt

LEMMA EnterSafe ==
  ASSUME Inv, NEW p \in Proposals, NEW t \in Threads, Enter(t, p)
  PROVE  \A q \in Proposals : SafeAt(q)'
<1>1. SafeAt(p)
  BY DEF Inv
<1>2. rec' = rec
  BY DEF Enter, records
<1>3. /\ thread[t].on = p /\ thread[t].step = "entering"
      /\ \A u \in Threads :
           /\ thread'[u].on = IF u = t THEN None ELSE thread[u].on
           /\ thread'[u].step = IF u = t THEN "idle" ELSE thread[u].step
  BY DoneFacts DEF Enter, Inv, TypeOK, At
<1>4. Reviewed(p)' <=> Reviewed(p)
  BY <1>2, <1>3, ReviewedKept DEF Enter, history, Takes
<1>5. EarlyAt(p)'
  BY <1>2, <1>3, <1>4, <1>1, EvolutionConstantsOK
     DEF SafeAt, EarlyAt, Early, ReviewedAt, Reviewed, Late, Enter, records, history
<1>6. TestsAt(p)'
  BY <1>2, <1>3, <1>4, <1>1, EvolutionConstantsOK
     DEF SafeAt, EarlyAt, Early, TestsAt, Failed, Enter, records, history
<1>7. ReviewedAt(p)'
  BY <1>2, <1>3, <1>4, <1>1, EvolutionConstantsOK
     DEF SafeAt, ReviewedAt, Late, LateSteps, Threads, Enter, engines, records
<1>8. DeployedAt(p)'
  BY <1>2, <1>3, <1>4, <1>1 DEF SafeAt, DeployedAt, Enter, engines, records
<1>9. ASSUME NEW q \in Proposals, q # p PROVE SafeAt(q)'
  <2>1. \A u \in Threads : thread'[u].on = q => thread'[u] = thread[u]
    BY <1>9, EvolutionConstantsOK
       DEF Enter, Takes, TakeUp, GoOn, Done, Idle, At, Inv, TypeOK
  <2>2. rec'[q] = rec[q] /\ approvals'[q] = approvals[q] /\ events'[q] = events[q]
    BY <1>9 DEF Enter, Takes, Advance, Emit, records, engines, history, Inv, TypeOK
  <2>3. q \in pending' => q \in pending
    BY <1>9 DEF Enter, engines
  <2> QED
    BY <2>1, <2>2, <2>3, OthersSafe DEF Inv
<1> QED
  BY <1>5, <1>6, <1>7, <1>8, <1>9 DEF SafeAt

LEMMA DeploySafe ==
  ASSUME Inv, NEW p \in Proposals, NEW t \in Threads, Deploy(t, p)
  PROVE  \A q \in Proposals : SafeAt(q)'
<1>1. SafeAt(p)
  BY DEF Inv
<1>2. rec' = rec
  BY DEF Deploy, records
<1>3. /\ thread[t].on = p /\ thread[t].step = "deploying"
      /\ \A u \in Threads :
           /\ thread'[u].on = thread[u].on
           /\ thread'[u].step = IF u = t THEN "deployed" ELSE thread[u].step
  BY GoOnFacts DEF Deploy, Inv, TypeOK
<1>4. Reviewed(p)' <=> Reviewed(p)
  BY <1>2, <1>3, ReviewedKept DEF Deploy, history, Takes
<1>5. EarlyAt(p)'
  BY <1>2, <1>3, <1>4, <1>1, EvolutionConstantsOK
     DEF SafeAt, EarlyAt, Early, ReviewedAt, Reviewed, Late, Deploy, records, history
<1>6. TestsAt(p)'
  BY <1>2, <1>3, <1>4, <1>1, EvolutionConstantsOK
     DEF SafeAt, EarlyAt, Early, TestsAt, Failed, Deploy, records, history
<1>7. ReviewedAt(p)'
  BY <1>2, <1>3, <1>4, <1>1, EvolutionConstantsOK
     DEF SafeAt, ReviewedAt, Late, LateSteps, Threads, Deploy, engines, records
<1>8. DeployedAt(p)'
  <2>1. /\ events[p] \in Seq(Rows)
        /\ events'[p] = Append(events[p], [kind |-> "DEPLOYED", by |-> By(t)])
    BY DEF Deploy, Emit, Inv, TypeOK
  <2>2. Reviewed(p) /\ (rec[p].class # "CLASS_A" => By(t) = "OPERATOR")
    BY <1>1, <1>3 DEF SafeAt, ReviewedAt, LateSteps, By
  <2>3. \A i \in DOMAIN events'[p] :
          \/ i \in DOMAIN events[p] /\ events'[p][i] = events[p][i]
          \/ events'[p][i] = [kind |-> "DEPLOYED", by |-> By(t)]
    BY <2>1
  <2> QED
    BY <1>1, <1>2, <1>4, <2>2, <2>3 DEF SafeAt, DeployedAt
<1>9. ASSUME NEW q \in Proposals, q # p PROVE SafeAt(q)'
  <2>1. \A u \in Threads : thread'[u].on = q => thread'[u] = thread[u]
    BY <1>9, EvolutionConstantsOK
       DEF Deploy, Takes, TakeUp, GoOn, Done, Idle, At, Inv, TypeOK
  <2>2. rec'[q] = rec[q] /\ approvals'[q] = approvals[q] /\ events'[q] = events[q]
    BY <1>9 DEF Deploy, Takes, Advance, Emit, records, engines, history, Inv, TypeOK
  <2>3. q \in pending' => q \in pending
    BY <1>9 DEF Deploy, engines
  <2> QED
    BY <2>1, <2>2, <2>3, OthersSafe DEF Inv
<1> QED
  BY <1>5, <1>6, <1>7, <1>8, <1>9 DEF SafeAt

LEMMA MarkDeployedSafe ==
  ASSUME Inv, NEW p \in Proposals, NEW t \in Threads, MarkDeployed(t, p)
  PROVE  \A q \in Proposals : SafeAt(q)'
<1>1. SafeAt(p)
  BY DEF Inv
<1>2. /\ rec'[p].stage = "DEPLOYED"
      /\ rec'[p].class = rec[p].class
      /\ rec'[p].sandbox = rec[p].sandbox
      /\ rec'[p].simulation = rec[p].simulation
  BY AdvanceFacts DEF MarkDeployed, Inv, TypeOK
<1>3. /\ thread[t].on = p /\ thread[t].step \in {"deployed", "marking"}
      /\ \A u \in Threads :
           /\ thread'[u].on = thread[u].on
           /\ thread'[u].step = IF u = t THEN "closing" ELSE thread[u].step
  BY GoOnFacts DEF MarkDeployed, Inv, TypeOK
<1>4. Reviewed(p)' <=> Reviewed(p)
  BY <1>2, <1>3, ReviewedKept DEF MarkDeployed, history, Takes
<1>5. EarlyAt(p)'
  BY <1>2, <1>3, <1>4, <1>1, EvolutionConstantsOK
     DEF SafeAt, EarlyAt, Early, ReviewedAt, Reviewed, Late, MarkDeployed, records,
         history
<1>6. TestsAt(p)'
  BY <1>2, <1>3, <1>4, <1>1, EvolutionConstantsOK
     DEF SafeAt, EarlyAt, Early, TestsAt, Failed, MarkDeployed, records, history
<1>7. ReviewedAt(p)'
  BY <1>2, <1>3, <1>4, <1>1, EvolutionConstantsOK
     DEF SafeAt, ReviewedAt, Late, LateSteps, Threads, MarkDeployed, engines, records
<1>8. DeployedAt(p)'
  BY <1>2, <1>3, <1>4, <1>1 DEF SafeAt, DeployedAt, MarkDeployed, engines, records
<1>9. ASSUME NEW q \in Proposals, q # p PROVE SafeAt(q)'
  <2>1. \A u \in Threads : thread'[u].on = q => thread'[u] = thread[u]
    BY <1>9, EvolutionConstantsOK
       DEF MarkDeployed, Takes, TakeUp, GoOn, Done, Idle, At, Inv, TypeOK
  <2>2. rec'[q] = rec[q] /\ approvals'[q] = approvals[q] /\ events'[q] = events[q]
    BY <1>9 DEF MarkDeployed, Takes, Advance, Emit, records, engines, history, Inv, TypeOK
  <2>3. q \in pending' => q \in pending
    BY <1>9 DEF MarkDeployed, engines
  <2> QED
    BY <2>1, <2>2, <2>3, OthersSafe DEF Inv
<1> QED
  BY <1>5, <1>6, <1>7, <1>8, <1>9 DEF SafeAt

LEMMA LearnSafe ==
  ASSUME Inv, NEW p \in Proposals, NEW t \in Threads, Learn(t, p)
  PROVE  \A q \in Proposals : SafeAt(q)'
<1>1. SafeAt(p)
  BY DEF Inv
<1>2. rec' = rec
  BY DEF Learn, records
<1>3. /\ thread[t].on = p /\ thread[t].step = "deployed"
      /\ \A u \in Threads :
           /\ thread'[u].on = thread[u].on
           /\ thread'[u].step = IF u = t THEN "marking" ELSE thread[u].step
  BY GoOnFacts DEF Learn, Inv, TypeOK
<1>4. Reviewed(p)' <=> Reviewed(p)
  BY <1>2, <1>3, ReviewedKept DEF Learn, history, Takes
<1>5. EarlyAt(p)'
  BY <1>2, <1>3, <1>4, <1>1, EvolutionConstantsOK
     DEF SafeAt, EarlyAt, Early, ReviewedAt, Reviewed, Late, Learn, records,
         history
<1>6. TestsAt(p)'
  BY <1>2, <1>3, <1>4, <1>1, EvolutionConstantsOK
     DEF SafeAt, EarlyAt, Early, TestsAt, Failed, Learn, records, history
<1>7. ReviewedAt(p)'
  BY <1>2, <1>3, <1>4, <1>1, EvolutionConstantsOK
     DEF SafeAt, ReviewedAt, Late, LateSteps, Threads, Learn, engines, records
<1>8. DeployedAt(p)'
  BY <1>2, <1>3, <1>4, <1>1 DEF SafeAt, DeployedAt, Learn, engines, records
<1>9. ASSUME NEW q \in Proposals, q # p PROVE SafeAt(q)'
  <2>1. \A u \in Threads : thread'[u].on = q => thread'[u] = thread[u]
    BY <1>9, EvolutionConstantsOK
       DEF Learn, Takes, TakeUp, GoOn, Done, Idle, At, Inv, TypeOK
  <2>2. rec'[q] = rec[q] /\ approvals'[q] = approvals[q] /\ events'[q] = events[q]
    BY <1>9 DEF Learn, Takes, Advance, Emit, records, engines, history, Inv, TypeOK
  <2>3. q \in pending' => q \in pending
    BY <1>9 DEF Learn, engines
  <2> QED
    BY <2>1, <2>2, <2>3, OthersSafe DEF Inv
<1> QED
  BY <1>5, <1>6, <1>7, <1>8, <1>9 DEF SafeAt

LEMMA DeployedGoneSafe ==
  ASSUME Inv, NEW p \in Proposals, NEW t \in Threads, DeployedGone(t, p)
  PROVE  \A q \in Proposals : SafeAt(q)'
<1>1. SafeAt(p)
  BY DEF Inv
<1>2. rec' = rec
  BY DEF DeployedGone, records
<1>3. /\ thread[t].on = p /\ thread[t].step = "deployed"
      /\ \A u \in Threads :
           /\ thread'[u].on = IF u = t THEN None ELSE thread[u].on
           /\ thread'[u].step = IF u = t THEN "idle" ELSE thread[u].step
  BY DoneFacts DEF DeployedGone, Inv, TypeOK, At
<1>4. Reviewed(p)' <=> Reviewed(p)
  BY <1>2, <1>3, ReviewedKept DEF DeployedGone, history, Takes
<1>5. EarlyAt(p)'
  BY <1>2, <1>3, <1>4, <1>1, EvolutionConstantsOK
     DEF SafeAt, EarlyAt, Early, ReviewedAt, Reviewed, Late, DeployedGone, records,
         history
<1>6. TestsAt(p)'
  BY <1>2, <1>3, <1>4, <1>1, EvolutionConstantsOK
     DEF SafeAt, EarlyAt, Early, TestsAt, Failed, DeployedGone, records, history
<1>7. ReviewedAt(p)'
  BY <1>2, <1>3, <1>4, <1>1, EvolutionConstantsOK
     DEF SafeAt, ReviewedAt, Late, LateSteps, Threads, DeployedGone, engines, records
<1>8. DeployedAt(p)'
  BY <1>2, <1>3, <1>4, <1>1 DEF SafeAt, DeployedAt, DeployedGone, engines, records
<1>9. ASSUME NEW q \in Proposals, q # p PROVE SafeAt(q)'
  <2>1. \A u \in Threads : thread'[u].on = q => thread'[u] = thread[u]
    BY <1>9, EvolutionConstantsOK
       DEF DeployedGone, Takes, TakeUp, GoOn, Done, Idle, At, Inv, TypeOK
  <2>2. rec'[q] = rec[q] /\ approvals'[q] = approvals[q] /\ events'[q] = events[q]
    BY <1>9 DEF DeployedGone, Takes, Advance, Emit, records, engines, history, Inv, TypeOK
  <2>3. q \in pending' => q \in pending
    BY <1>9 DEF DeployedGone, engines
  <2> QED
    BY <2>1, <2>2, <2>3, OthersSafe DEF Inv
<1> QED
  BY <1>5, <1>6, <1>7, <1>8, <1>9 DEF SafeAt

LEMMA CloseSafe ==
  ASSUME Inv, NEW p \in Proposals, NEW t \in Threads, Close(t, p)
  PROVE  \A q \in Proposals : SafeAt(q)'
<1>1. SafeAt(p)
  BY DEF Inv
<1>2. rec' = rec
  BY DEF Close, records
<1>3. /\ thread[t].on = p /\ thread[t].step = "closing"
      /\ \A u \in Threads :
           /\ thread'[u].on = IF u = t THEN None ELSE thread[u].on
           /\ thread'[u].step = IF u = t THEN "idle" ELSE thread[u].step
  BY DoneFacts DEF Close, Inv, TypeOK, At
<1>4. Reviewed(p)' <=> Reviewed(p)
  BY <1>2, <1>3, ReviewedKept DEF Close, history, Takes
<1>5. EarlyAt(p)'
  BY <1>2, <1>3, <1>4, <1>1, EvolutionConstantsOK
     DEF SafeAt, EarlyAt, Early, ReviewedAt, Reviewed, Late, Close, records, history
<1>6. TestsAt(p)'
  BY <1>2, <1>3, <1>4, <1>1, EvolutionConstantsOK
     DEF SafeAt, EarlyAt, Early, TestsAt, Failed, Close, records, history
<1>7. ReviewedAt(p)'
  BY <1>2, <1>3, <1>4, <1>1, EvolutionConstantsOK
     DEF SafeAt, ReviewedAt, Late, LateSteps, Threads, Close, engines, records
<1>8. DeployedAt(p)'
  BY <1>2, <1>3, <1>4, <1>1 DEF SafeAt, DeployedAt, Close, engines, records
<1>9. ASSUME NEW q \in Proposals, q # p PROVE SafeAt(q)'
  <2>1. \A u \in Threads : thread'[u].on = q => thread'[u] = thread[u]
    BY <1>9, EvolutionConstantsOK
       DEF Close, Takes, TakeUp, GoOn, Done, Idle, At, Inv, TypeOK
  <2>2. rec'[q] = rec[q] /\ approvals'[q] = approvals[q] /\ events'[q] = events[q]
    BY <1>9 DEF Close, Takes, Advance, Emit, records, engines, history, Inv, TypeOK
  <2>3. q \in pending' => q \in pending
    BY <1>9 DEF Close, engines
  <2> QED
    BY <2>1, <2>2, <2>3, OthersSafe DEF Inv
<1> QED
  BY <1>5, <1>6, <1>7, <1>8, <1>9 DEF SafeAt

LEMMA NoRecordFacts ==
  /\ NoRecord.stage = "none"
  /\ NoRecord.sandbox = ""
  /\ NoRecord.simulation = ""
BY DEF NoRecord

LEMMA SandboxedSafe ==
  ASSUME Inv, NEW p \in Proposals, NEW outcome \in Outcomes, Sandboxed(p, outcome)
  PROVE  \A q \in Proposals : SafeAt(q)'
<1>1. SafeAt(p)
  BY DEF Inv
<1>2. /\ rec'[p].stage = "SANDBOX"
      /\ rec'[p].class = rec[p].class
      /\ rec'[p].simulation = rec[p].simulation
      /\ rec'[p].sandbox = outcome
      /\ \A q \in Proposals \ {p} : rec'[q] = rec[q]
  BY DEF Sandboxed, Inv, TypeOK, Records
<1>3. thread' = thread
  BY DEF Sandboxed, Takes
<1>4. Reviewed(p)' <=> Reviewed(p)
  BY <1>2, <1>3, ReviewedKept DEF Sandboxed, history, Takes
<1>5. EarlyAt(p)'
  BY <1>2, <1>3, <1>4, <1>1, EvolutionConstantsOK
     DEF SafeAt, EarlyAt, Early, ReviewedAt, Reviewed, Late, Sandboxed, Takes,
         records, history
<1>6. TestsAt(p)'
  BY <1>2, <1>3, <1>4, <1>1, EvolutionConstantsOK
     DEF SafeAt, EarlyAt, Early, TestsAt, Failed, Sandboxed, Takes, records, history
<1>7. ReviewedAt(p)'
  BY <1>2, <1>3, <1>4, <1>1, EvolutionConstantsOK
     DEF SafeAt, ReviewedAt, Late, LateSteps, Threads, Sandboxed, Takes, engines,
         records
<1>8. DeployedAt(p)'
  BY <1>2, <1>3, <1>4, <1>1 DEF SafeAt, DeployedAt, Sandboxed, Takes, engines, records
<1>9. ASSUME NEW q \in Proposals, q # p PROVE SafeAt(q)'
  <2>1. \A u \in Threads : thread'[u].on = q => thread'[u] = thread[u]
    BY <1>9, EvolutionConstantsOK
       DEF Sandboxed, Takes, TakeUp, GoOn, Done, Idle, At, Inv, TypeOK
  <2>2. rec'[q] = rec[q] /\ approvals'[q] = approvals[q] /\ events'[q] = events[q]
    BY <1>9 DEF Sandboxed, Takes, Advance, Emit, records, engines, history, Inv, TypeOK
  <2>3. q \in pending' => q \in pending
    BY <1>9 DEF Sandboxed, engines
  <2> QED
    BY <2>1, <2>2, <2>3, OthersSafe DEF Inv
<1> QED
  BY <1>5, <1>6, <1>7, <1>8, <1>9 DEF SafeAt

LEMMA SimulatedSafe ==
  ASSUME Inv, NEW p \in Proposals, NEW outcome \in Outcomes, Simulated(p, outcome)
  PROVE  \A q \in Proposals : SafeAt(q)'
<1>1. SafeAt(p)
  BY DEF Inv
<1>2. /\ rec'[p].stage = "SIMULATION"
      /\ rec'[p].class = rec[p].class
      /\ rec'[p].sandbox = rec[p].sandbox
      /\ rec'[p].simulation = outcome
      /\ \A q \in Proposals \ {p} : rec'[q] = rec[q]
  BY DEF Simulated, Inv, TypeOK, Records
<1>3. thread' = thread
  BY DEF Simulated, Takes
<1>4. Reviewed(p)' <=> Reviewed(p)
  BY <1>2, <1>3, ReviewedKept DEF Simulated, history, Takes
<1>5. EarlyAt(p)'
  BY <1>2, <1>3, <1>4, <1>1, EvolutionConstantsOK
     DEF SafeAt, EarlyAt, Early, ReviewedAt, Reviewed, Late, Simulated, Takes,
         records, history
<1>6. TestsAt(p)'
  BY <1>2, <1>3, <1>4, <1>1, EvolutionConstantsOK
     DEF SafeAt, EarlyAt, Early, TestsAt, Failed, Simulated, Takes, records, history
<1>7. ReviewedAt(p)'
  BY <1>2, <1>3, <1>4, <1>1, EvolutionConstantsOK
     DEF SafeAt, ReviewedAt, Late, LateSteps, Threads, Simulated, Takes, engines,
         records
<1>8. DeployedAt(p)'
  BY <1>2, <1>3, <1>4, <1>1 DEF SafeAt, DeployedAt, Simulated, Takes, engines, records
<1>9. ASSUME NEW q \in Proposals, q # p PROVE SafeAt(q)'
  <2>1. \A u \in Threads : thread'[u].on = q => thread'[u] = thread[u]
    BY <1>9, EvolutionConstantsOK
       DEF Simulated, Takes, TakeUp, GoOn, Done, Idle, At, Inv, TypeOK
  <2>2. rec'[q] = rec[q] /\ approvals'[q] = approvals[q] /\ events'[q] = events[q]
    BY <1>9 DEF Simulated, Takes, Advance, Emit, records, engines, history, Inv, TypeOK
  <2>3. q \in pending' => q \in pending
    BY <1>9 DEF Simulated, engines
  <2> QED
    BY <2>1, <2>2, <2>3, OthersSafe DEF Inv
<1> QED
  BY <1>5, <1>6, <1>7, <1>8, <1>9 DEF SafeAt

LEMMA SubmitSafe ==
  ASSUME Inv, NEW p \in Proposals, NEW class \in Classes, Submit(p, class)
  PROVE  \A q \in Proposals : SafeAt(q)'
<1>1. SafeAt(p)
  BY DEF Inv
<1>2. /\ rec'[p].stage = "PROPOSED"
      /\ rec'[p].sandbox = ""
      /\ rec'[p].simulation = ""
      /\ \A q \in Proposals \ {p} : rec'[q] = rec[q]
  <2>1. rec' = [rec EXCEPT ![p] = [[rec[p] EXCEPT !.stage = "PROPOSED"] EXCEPT !.class = class]]
    BY DEF Submit
  <2>2. p \in DOMAIN rec /\ rec[p] = NoRecord
    BY DEF Submit, Inv, TypeOK
  <2>3. rec'[p] = [[NoRecord EXCEPT !.stage = "PROPOSED"] EXCEPT !.class = class]
    BY <2>1, <2>2
  <2>4. \A q \in Proposals \ {p} : rec'[q] = rec[q]
    BY <2>1 DEF Inv, TypeOK
  <2> QED
    BY <2>3, <2>4 DEF NoRecord
<1>3. thread' = thread
  BY DEF Submit, Takes
<1>4. /\ approvals[p] = <<>>
      /\ \A u \in Threads : thread[u].on # p
  <2>1. rec[p].stage = "none"
    BY NoRecordFacts DEF Submit
  <2> QED
    BY <2>1, <1>1 DEF SafeAt, EarlyAt, Early
<1>5. ~Reviewed(p)
  BY <1>4 DEF Reviewed
<1>6. ~Reviewed(p)'
  BY <1>4 DEF Reviewed, Submit, history
<1>7. Reviewed(p)' <=> Reviewed(p)
  BY <1>5, <1>6
<1>8. EarlyAt(p)'
  BY <1>2, <1>3, <1>4, <1>5, <1>6, <1>7, <1>1, EvolutionConstantsOK
     DEF SafeAt, EarlyAt, Early, ReviewedAt, Reviewed, Late, Submit, records, history
<1>9. TestsAt(p)'
  BY <1>2, <1>3, <1>4, <1>5, <1>6, <1>7, <1>1, EvolutionConstantsOK
     DEF SafeAt, EarlyAt, Early, TestsAt, Failed, Submit, records, history
<1>10. ReviewedAt(p)'
  BY <1>2, <1>3, <1>4, <1>5, <1>6, <1>7, <1>1, EvolutionConstantsOK
     DEF SafeAt, ReviewedAt, Late, LateSteps, Threads, Submit, engines, records
<1>11. DeployedAt(p)'
  BY <1>2, <1>3, <1>4, <1>5, <1>6, <1>7, <1>1
     DEF SafeAt, DeployedAt, Submit, engines, records
<1>12. ASSUME NEW q \in Proposals, q # p PROVE SafeAt(q)'
  <2>1. \A u \in Threads : thread'[u].on = q => thread'[u] = thread[u]
    BY <1>12, EvolutionConstantsOK
       DEF Submit, Takes, TakeUp, GoOn, Done, Idle, At, Inv, TypeOK
  <2>2. rec'[q] = rec[q] /\ approvals'[q] = approvals[q] /\ events'[q] = events[q]
    BY <1>12 DEF Submit, Takes, Advance, Emit, records, engines, history, Inv, TypeOK
  <2>3. q \in pending' => q \in pending
    BY <1>12 DEF Submit, engines
  <2> QED
    BY <2>1, <2>2, <2>3, OthersSafe DEF Inv
<1> QED
  BY <1>8, <1>9, <1>10, <1>11, <1>12 DEF SafeAt

LEMMA MarkRolledBackSafe ==
  ASSUME Inv, NEW p \in Proposals, NEW t \in Threads, MarkRolledBack(t, p)
  PROVE  \A q \in Proposals : SafeAt(q)'
<1>1. SafeAt(p)
  BY DEF Inv
<1>2. /\ rec'[p].stage = "ROLLED_BACK"
      /\ rec'[p].class = rec[p].class
      /\ rec'[p].sandbox = rec[p].sandbox
      /\ rec'[p].simulation = rec[p].simulation
  BY DEF MarkRolledBack, Inv, TypeOK, Records
<1>3. /\ thread[t].on = p /\ thread[t].step = "restored"
      /\ \A u \in Threads :
           /\ thread'[u].on = thread[u].on
           /\ thread'[u].step = IF u = t THEN "auditing" ELSE thread[u].step
  BY GoOnFacts DEF MarkRolledBack, Inv, TypeOK
<1>4. Reviewed(p)' <=> Reviewed(p)
  BY <1>2, <1>3, ReviewedKept DEF MarkRolledBack, history, Takes
<1>5. EarlyAt(p)'
  BY <1>2, <1>3, <1>4, <1>1, EvolutionConstantsOK
     DEF SafeAt, EarlyAt, Early, ReviewedAt, Reviewed, Late, MarkRolledBack, records,
         history
<1>6. TestsAt(p)'
  BY <1>2, <1>3, <1>4, <1>1, EvolutionConstantsOK
     DEF SafeAt, EarlyAt, Early, TestsAt, Failed, MarkRolledBack, records, history
<1>7. ReviewedAt(p)'
  BY <1>2, <1>3, <1>4, <1>1, EvolutionConstantsOK
     DEF SafeAt, ReviewedAt, Late, LateSteps, Threads, MarkRolledBack, engines,
         records
<1>8. DeployedAt(p)'
  BY <1>2, <1>3, <1>4, <1>1 DEF SafeAt, DeployedAt, MarkRolledBack, engines, records
<1>9. ASSUME NEW q \in Proposals, q # p PROVE SafeAt(q)'
  <2>1. \A u \in Threads : thread'[u].on = q => thread'[u] = thread[u]
    BY <1>9, EvolutionConstantsOK
       DEF MarkRolledBack, Takes, TakeUp, GoOn, Done, Idle, At, Inv, TypeOK
  <2>2. rec'[q] = rec[q] /\ approvals'[q] = approvals[q] /\ events'[q] = events[q]
    BY <1>9
       DEF MarkRolledBack, Takes, Advance, Emit, records, engines, history, Inv,
           TypeOK
  <2>3. q \in pending' => q \in pending
    BY <1>9 DEF MarkRolledBack, engines
  <2> QED
    BY <2>1, <2>2, <2>3, OthersSafe DEF Inv
<1> QED
  BY <1>5, <1>6, <1>7, <1>8, <1>9 DEF SafeAt

LEMMA RestoreSafe ==
  ASSUME Inv, NEW p \in Proposals, NEW t \in Threads, Restore(t, p)
  PROVE  \A q \in Proposals : SafeAt(q)'
<1>1. SafeAt(p)
  BY DEF Inv
<1>2. rec' = rec
  BY DEF Restore, records
<1>3. /\ thread[t].on = p /\ thread[t].step = "rolling_back"
      /\ \A u \in Threads :
           /\ thread'[u].on = thread[u].on
           /\ thread'[u].step = IF u = t THEN "restored" ELSE thread[u].step
  BY GoOnFacts DEF Restore, Inv, TypeOK
<1>4. Reviewed(p)' <=> Reviewed(p)
  BY <1>2, <1>3, ReviewedKept DEF Restore, history, Takes
<1>5. EarlyAt(p)'
  BY <1>2, <1>3, <1>4, <1>1, EvolutionConstantsOK
     DEF SafeAt, EarlyAt, Early, ReviewedAt, Reviewed, Late, Restore, records, history
<1>6. TestsAt(p)'
  BY <1>2, <1>3, <1>4, <1>1, EvolutionConstantsOK
     DEF SafeAt, EarlyAt, Early, TestsAt, Failed, Restore, records, history
<1>7. ReviewedAt(p)'
  BY <1>2, <1>3, <1>4, <1>1, EvolutionConstantsOK
     DEF SafeAt, ReviewedAt, Late, LateSteps, Threads, Restore, engines, records
<1>8. DeployedAt(p)'
  <2>1. PICK b : events' = [events EXCEPT ![p] = Append(@, [kind |-> "ROLLBACK", by |-> b])]
    BY DEF Restore, Emit
  <2>2. /\ events[p] \in Seq(Rows)
        /\ events'[p] = Append(events[p], [kind |-> "ROLLBACK", by |-> b])
    BY <2>1 DEF Inv, TypeOK
  <2>3. \A i \in DOMAIN events'[p] :
          \/ i \in DOMAIN events[p] /\ events'[p][i] = events[p][i]
          \/ events'[p][i].kind = "ROLLBACK"
    BY <2>2
  <2> QED
    BY <1>1, <1>2, <1>4, <2>3 DEF SafeAt, DeployedAt
<1>9. ASSUME NEW q \in Proposals, q # p PROVE SafeAt(q)'
  <2>1. \A u \in Threads : thread'[u].on = q => thread'[u] = thread[u]
    BY <1>9, EvolutionConstantsOK
       DEF Restore, Takes, TakeUp, GoOn, Done, Idle, At, Inv, TypeOK
  <2>2. rec'[q] = rec[q] /\ approvals'[q] = approvals[q] /\ events'[q] = events[q]
    BY <1>9 DEF Restore, Takes, Advance, Emit, records, engines, history, Inv, TypeOK
  <2>3. q \in pending' => q \in pending
    BY <1>9 DEF Restore, engines
  <2> QED
    BY <2>1, <2>2, <2>3, OthersSafe DEF Inv
<1> QED
  BY <1>5, <1>6, <1>7, <1>8, <1>9 DEF SafeAt

LEMMA AfterAuditSafe ==
  ASSUME Inv, NEW p \in Proposals, NEW t \in Threads, AfterAudit(t, p)
  PROVE  \A q \in Proposals : SafeAt(q)'
<1>1. SafeAt(p)
  BY DEF Inv
<1>2. rec' = rec
  BY DEF AfterAudit, records
<1>3. /\ thread[t].on = p /\ thread[t].step = "audited"
      /\ thread' = [thread EXCEPT ![t].step = "closing"] \/ thread' = [thread EXCEPT ![t] = Idle]
      /\ thread \in [Threads -> Works]
  BY DEF AfterAudit, At, GoOn, Done, Inv, TypeOK
<1>4. \A u \in Threads :
        /\ thread'[u].on \in {thread[u].on, None}
        /\ u # t => thread'[u].on = thread[u].on
        /\ thread'[u].step = IF u = t THEN thread'[t].step ELSE thread[u].step
  <2>1. CASE thread' = [thread EXCEPT ![t].step = "closing"]
    BY <2>1, <1>3
  <2>2. CASE thread' = [thread EXCEPT ![t] = Idle]
    BY <2>2, <1>3 DEF Idle
  <2> QED
    BY <1>3, <2>1, <2>2
<1>5. thread'[t].step \in {"closing", "idle"}
  <2>1. CASE thread' = [thread EXCEPT ![t].step = "closing"]
    BY <2>1, <1>3
  <2>2. CASE thread' = [thread EXCEPT ![t] = Idle]
    BY <2>2, <1>3 DEF Idle
  <2> QED
    BY <1>3, <2>1, <2>2
<1>6. Reviewed(p)' <=> Reviewed(p)
  BY <1>2, <1>3, <1>4, <1>5, ReviewedKept DEF AfterAudit, history, Takes
<1>7. EarlyAt(p)'
  BY <1>2, <1>3, <1>4, <1>5, <1>6, <1>1, EvolutionConstantsOK
     DEF SafeAt, EarlyAt, Early, ReviewedAt, Reviewed, Late, AfterAudit, records,
         history
<1>8. TestsAt(p)'
  BY <1>2, <1>3, <1>4, <1>5, <1>6, <1>1, EvolutionConstantsOK
     DEF SafeAt, EarlyAt, Early, TestsAt, Failed, AfterAudit, records, history
<1>9. ReviewedAt(p)'
  BY <1>2, <1>3, <1>4, <1>5, <1>6, <1>1, EvolutionConstantsOK
     DEF SafeAt, ReviewedAt, Late, LateSteps, Threads, AfterAudit, engines, records
<1>10. DeployedAt(p)'
  BY <1>2, <1>3, <1>4, <1>5, <1>6, <1>1
     DEF SafeAt, DeployedAt, AfterAudit, engines, records
<1>11. ASSUME NEW q \in Proposals, q # p PROVE SafeAt(q)'
  <2>1. \A u \in Threads : thread'[u].on = q => thread'[u] = thread[u]
    BY <1>11, EvolutionConstantsOK
       DEF AfterAudit, Takes, TakeUp, GoOn, Done, Idle, At, Inv, TypeOK
  <2>2. rec'[q] = rec[q] /\ approvals'[q] = approvals[q] /\ events'[q] = events[q]
    BY <1>11 DEF AfterAudit, Takes, Advance, Emit, records, engines, history, Inv, TypeOK
  <2>3. q \in pending' => q \in pending
    BY <1>11 DEF AfterAudit, engines
  <2> QED
    BY <2>1, <2>2, <2>3, OthersSafe DEF Inv
<1> QED
  BY <1>7, <1>8, <1>9, <1>10, <1>11 DEF SafeAt

LEMMA ApproveSafe ==
  ASSUME Inv, NEW p \in Proposals, NEW t \in Threads, Approve(t, p)
  PROVE  \A q \in Proposals : SafeAt(q)'
<1>1. SafeAt(p)
  BY DEF Inv
<1>2. rec' = rec
  BY DEF Approve, records
<1>3. /\ thread[t].on = p /\ thread[t].step = "approving"
      /\ \A u \in Threads :
           /\ thread'[u].on = thread[u].on
           /\ thread'[u].step = IF u = t THEN "promoting" ELSE thread[u].step
  BY GoOnFacts DEF Approve, Inv, TypeOK
<1>4. approvals[p] \in Seq({"AUTO", "OPERATOR"}) /\ approvals'[p] = Append(approvals[p], By(t))
  BY DEF Approve, Inv, TypeOK
<1>5. approvals'[p] # <<>>
  BY <1>4
<1>6. By(t) \in Approvers(p)' /\ Approvers(p) \subseteq Approvers(p)'
  <2>1. DOMAIN approvals'[p] = DOMAIN approvals[p] \cup {Len(approvals[p]) + 1}
    BY <1>4
  <2>2. \A i \in DOMAIN approvals[p] : approvals'[p][i] = approvals[p][i]
    BY <1>4
  <2>3. approvals'[p][Len(approvals[p]) + 1] = By(t)
    BY <1>4
  <2> QED
    BY <2>1, <2>2, <2>3, Zenon DEF Approvers
<1>7. rec[p].class # "CLASS_A" => By(t) = "OPERATOR"
  BY <1>1, <1>3 DEF SafeAt, ReviewedAt, By
<1>8. Reviewed(p)'
  BY <1>2, <1>5, <1>6, <1>7 DEF Reviewed
<1>9. EarlyAt(p)'
  BY <1>2, <1>3, <1>1 DEF SafeAt, EarlyAt
<1>10. TestsAt(p)'
  BY <1>2, <1>3, <1>1 DEF SafeAt, TestsAt, Failed
<1>11. ReviewedAt(p)'
  BY <1>2, <1>3, <1>4, <1>5, <1>6, <1>7, <1>8, <1>1, EvolutionConstantsOK
     DEF SafeAt, ReviewedAt, Late, LateSteps, Threads, Approve, engines, records
<1>12. DeployedAt(p)'
  BY <1>2, <1>3, <1>4, <1>5, <1>6, <1>7, <1>8, <1>1
     DEF SafeAt, DeployedAt, Approve, engines, records
<1>13. ASSUME NEW q \in Proposals, q # p PROVE SafeAt(q)'
  <2>1. \A u \in Threads : thread'[u].on = q => thread'[u] = thread[u]
    BY <1>13, EvolutionConstantsOK
       DEF Approve, Takes, TakeUp, GoOn, Done, Idle, At, Inv, TypeOK
  <2>2. rec'[q] = rec[q] /\ approvals'[q] = approvals[q] /\ events'[q] = events[q]
    BY <1>13 DEF Approve, Takes, Advance, Emit, records, engines, history, Inv, TypeOK
  <2>3. q \in pending' => q \in pending
    BY <1>13 DEF Approve, engines
  <2> QED
    BY <2>1, <2>2, <2>3, OthersSafe DEF Inv
<1> QED
  BY <1>9, <1>10, <1>11, <1>12, <1>13 DEF SafeAt

(***************************************************************************)
(* The theorems.                                                           *)
(***************************************************************************)
LEMMA InitSafe == Init => Inv
<1> SUFFICES ASSUME Init PROVE Inv
  OBVIOUS
<1>1. TypeOK
  <2>1. NoRecord \in Records
    BY DEF NoRecord, Records, Stages, Classes
  <2>2. Idle \in Works
    BY DEF Works
  <2> QED
    BY <2>1, <2>2, EvolutionConstantsOK DEF Init, TypeOK
<1>2. ASSUME NEW p \in Proposals PROVE SafeAt(p)
  <2>1. /\ rec[p] = NoRecord
        /\ approvals[p] = <<>>
        /\ events[p] = <<>>
        /\ pending = {}
        /\ \A t \in Threads : thread[t].on = None
    BY DEF Init, Idle
  <2>2. thread[Ticker].on # p /\ \A t \in Threads : thread[t].on # p
    BY <2>1, EvolutionConstantsOK DEF Threads
  <2>3. /\ rec[p].stage = "none"
        /\ rec[p].sandbox = ""
        /\ rec[p].simulation = ""
    BY <2>1, NoRecordFacts
  <2>4. EarlyAt(p)
    BY <2>1, <2>2 DEF EarlyAt
  <2>5. TestsAt(p)
    BY <2>3 DEF TestsAt, Failed
  <2>6. ReviewedAt(p)
    BY <2>1, <2>2, <2>3 DEF ReviewedAt, Late
  <2>7. DeployedAt(p)
    BY <2>1 DEF DeployedAt
  <2> QED
    BY <2>4, <2>5, <2>6, <2>7 DEF SafeAt
<1> QED
  BY <1>1, <1>2 DEF Inv

\* What a step leaves to the records of proposals it does not touch.
LEMMA StutterSafe ==
  ASSUME Inv, UNCHANGED <<rec, thread, approvals, events, pending>>
  PROVE  \A q \in Proposals : SafeAt(q)'
BY OthersSafe DEF Inv

LEMMA NextType == TypeOK /\ [Next]_vars => TypeOK'
<1> SUFFICES ASSUME TypeOK, [Next]_vars PROVE TypeOK'
  OBVIOUS
<1>0. CASE UNCHANGED vars
  BY <1>0 DEF TypeOK, vars, records, engines, history
<1>1. CASE Next
  <2>1. PICK p \in Proposals : Next!(p)
    BY <1>1 DEF Next
  <2> QED
    BY <2>1, SubmitType, TickStartsType, SandboxedType, SimulatedType,
       BenchmarkedType, FailedTestType, ReviewOpensType, TickTakesUpType,
       TickSkipsType, ReviewType, RollBackType, ClearType, ApproveType, PromoteType,
       RejectType, RestoreType, MarkRolledBackType, AuditType, AfterAuditType,
       EnterType, DeployType, LearnType, DeployedGoneType, MarkDeployedType, CloseType
<1> QED
  BY <1>0, <1>1

LEMMA NextSafe == Inv /\ [Next]_vars => Inv'
<1> SUFFICES ASSUME Inv, [Next]_vars PROVE \A q \in Proposals : SafeAt(q)'
  BY NextType DEF Inv
<1>0. CASE UNCHANGED vars
  BY <1>0, StutterSafe DEF vars, records, engines, history
<1>1. CASE Next
  <2>1. PICK p \in Proposals : Next!(p)
    BY <1>1 DEF Next
  <2>2. TickStarts \/ TickSkips(p) => UNCHANGED <<rec, thread, approvals, events, pending>>
    BY DEF TickStarts, TickSkips, records, engines, history
  <2> QED
    BY <2>1, <2>2, StutterSafe, SubmitSafe, SandboxedSafe, SimulatedSafe,
       BenchmarkedSafe, FailedTestSafe, ReviewOpensSafe, TickTakesUpSafe, ReviewSafe,
       RollBackSafe, ClearSafe, ApproveSafe, PromoteSafe, RejectSafe, RestoreSafe,
       MarkRolledBackSafe, AuditSafe, AfterAuditSafe, EnterSafe, DeploySafe,
       LearnSafe, DeployedGoneSafe, MarkDeployedSafe, CloseSafe
<1> QED
  BY <1>0, <1>1

LEMMA AlwaysSafe == Spec => []Inv
BY InitSafe, NextSafe, PTL DEF Spec

\* Every record, gate entry, snapshot and row has its type, and the rollback
\* engine never holds more than max_snapshots.
THEOREM TypeCorrect == Spec => []TypeOK
<1>1. Inv => TypeOK
  BY DEF Inv
<1> QED
  BY AlwaysSafe, <1>1, PTL

\* "No direct uncontrolled mutation", for any number of racing operators: what
\* is deployed was reviewed, and by an operator unless it is CLASS_A.
THEOREM DeploymentsReviewed == Spec => []DeploymentsWereReviewed
<1>1. Inv => DeploymentsWereReviewed
  <2> SUFFICES ASSUME Inv, NEW p \in Proposals, NEW i \in DOMAIN events[p],
                      events[p][i].kind = "DEPLOYED"
               PROVE  /\ Approvers(p) # {}
                      /\ rec[p].class # "CLASS_A" =>
                           "OPERATOR" \in Approvers(p) /\ events[p][i].by = "OPERATOR"
    BY DEF DeploymentsWereReviewed
  <2>1. Reviewed(p) /\ (rec[p].class # "CLASS_A" => events[p][i].by = "OPERATOR")
    BY DEF Inv, SafeAt, DeployedAt
  <2>2. approvals[p] \in Seq({"AUTO", "OPERATOR"}) /\ approvals[p] # <<>>
    BY <2>1 DEF Inv, TypeOK, Reviewed
  <2>3. 1 \in DOMAIN approvals[p]
    BY <2>2
  <2> QED
    BY <2>1, <2>3 DEF Approvers, Reviewed
<1> QED
  BY AlwaysSafe, <1>1, PTL

\* A proposal that failed its sandbox or its simulation is never approved.
THEOREM FailuresAreFinal == Spec => []FailuresStop
<1>1. Inv => FailuresStop
  BY DEF Inv, SafeAt, TestsAt, Failed, FailuresStop
<1> QED
  BY AlwaysSafe, <1>1, PTL

-----------------------------------------------------------------------------
(***************************************************************************)
(* Each deployment by an operator uses up an entry of the gate.            *)
(***************************************************************************)
\* Count, of the history es.
CountIn(es, kind, by) ==
  Cardinality({i \in DOMAIN es : es[i] = [kind |-> kind, by |-> by]})

LEMMA CountIsCountIn ==
  \A kind, by, p : Count(kind, p, by) = CountIn(events[p], kind, by)
BY DEF Count, CountIn

\* A row more counts where it matches.
LEMMA CountAppend ==
  ASSUME NEW es \in Seq(Rows), NEW row \in Rows, NEW kind, NEW by
  PROVE  /\ CountIn(es, kind, by) \in Nat
         /\ CountIn(Append(es, row), kind, by) =
              IF row = [kind |-> kind, by |-> by] THEN CountIn(es, kind, by) + 1
                                                  ELSE CountIn(es, kind, by)
<1> DEFINE k == Append(es, row)
           n == Len(es)
           A == {i \in DOMAIN es : es[i] = [kind |-> kind, by |-> by]}
           B == {i \in DOMAIN k : k[i] = [kind |-> kind, by |-> by]}
<1>1. /\ n \in Nat /\ DOMAIN es = 1 .. n
      /\ DOMAIN k = 1 .. n + 1 /\ k[n + 1] = row
      /\ \A i \in 1 .. n : k[i] = es[i]
  OBVIOUS
<1>2. \A i : i \in 1 .. n + 1 <=> i \in 1 .. n \/ i = n + 1
  BY <1>1
<1>3. A \subseteq 1 .. n
  BY <1>1
<1>4. IsFiniteSet(A) /\ Cardinality(A) \in Nat /\ n + 1 \notin A
  <2> HIDE DEF A, n
  <2>1. IsFiniteSet(1 .. n)
    BY <1>1, FS_Interval
  <2>2. IsFiniteSet(A)
    BY <1>3, <2>1, FS_Subset
  <2> QED
    BY <1>1, <1>3, <2>2, FS_CardinalityType
<1> HIDE DEF k
<1>5. B = IF row = [kind |-> kind, by |-> by] THEN A \cup {n + 1} ELSE A
  BY <1>1, <1>2
<1>6. CountIn(es, kind, by) = Cardinality(A) /\ CountIn(k, kind, by) = Cardinality(B)
  BY DEF CountIn
<1> HIDE DEF A, B
<1> QED
  BY <1>4, <1>5, <1>6, FS_AddElement DEF k

LEMMA CountType ==
  ASSUME NEW es \in Seq(Rows), NEW kind, NEW by
  PROVE  CountIn(es, kind, by) \in Nat
BY CountAppend, [kind |-> "DEPLOYED", by |-> "AUTO"] \in Rows DEF Rows

\* The operators the gate has let through with p: each is about to deploy it.
Cleared(p) == {t \in Operators : At(t, "deploying", p)}

\* Deployments es that operators made, operators who are about to, and a place
\* in the gate that waits: together no more than the entries.
Paid(es, operators, waits, entered) ==
  /\ IsFiniteSet(operators)
  /\ CountIn(es, "DEPLOYED", "OPERATOR") + Cardinality(operators)
       + (IF waits THEN 1 ELSE 0) <= entered

PaidInv ==
  \A p \in Proposals : Paid(events[p], Cleared(p), p \in pending, entries[p])

\* Nobody else is let through: the payment stands.
LEMMA PaidKept ==
  ASSUME NEW es \in Seq(Rows), NEW operators, NEW waits \in BOOLEAN,
         NEW entered \in Nat, Paid(es, operators, waits, entered),
         NEW fewer \in SUBSET operators
  PROVE  Paid(es, fewer, waits, entered)
<1>1. /\ IsFiniteSet(fewer)
      /\ Cardinality(fewer) \in Nat /\ Cardinality(operators) \in Nat
      /\ Cardinality(fewer) <= Cardinality(operators)
  BY FS_Subset, FS_CardinalityType DEF Paid
<1>2. CountIn(es, "DEPLOYED", "OPERATOR") \in Nat
  BY CountType
<1> QED
  BY <1>1, <1>2 DEF Paid

\* Only Clear lets an operator through.
LEMMA TakeUpClearsNone ==
  ASSUME thread \in [Threads -> Works], NEW t \in Threads, NEW s, NEW p,
         TakeUp(t, s, p), t = Ticker \/ s # "deploying"
  PROVE  \A q : Cleared(q)' \subseteq Cleared(q)
<1> SUFFICES ASSUME NEW q, NEW u \in Operators, At(u, "deploying", q)'
             PROVE  At(u, "deploying", q)
  BY DEF Cleared
<1>1. u \in Threads /\ u # Ticker
  BY EvolutionConstantsOK DEF Threads
<1>2. thread' = [thread EXCEPT ![t] = [step |-> s, on |-> p]]
  BY DEF TakeUp
<1> QED
  BY <1>1, <1>2 DEF At

LEMMA GoOnClearsNone ==
  ASSUME thread \in [Threads -> Works], NEW t \in Threads, NEW s, GoOn(t, s),
         s # "deploying"
  PROVE  \A q : Cleared(q)' \subseteq Cleared(q)
<1> SUFFICES ASSUME NEW q, NEW u \in Operators, At(u, "deploying", q)'
             PROVE  At(u, "deploying", q)
  BY DEF Cleared
<1>1. u \in Threads /\ thread' = [thread EXCEPT ![t].step = s]
  BY DEF Threads, GoOn
<1>2. u # t
  BY <1>1 DEF At
<1> QED
  BY <1>1, <1>2 DEF At

LEMMA DoneClearsNone ==
  ASSUME thread \in [Threads -> Works], NEW t \in Threads, Done(t)
  PROVE  \A q : Cleared(q)' \subseteq Cleared(q)
<1> SUFFICES ASSUME NEW q, NEW u \in Operators, At(u, "deploying", q)'
             PROVE  At(u, "deploying", q)
  BY DEF Cleared
<1>1. u \in Threads /\ thread' = [thread EXCEPT ![t] = Idle]
  BY DEF Threads, Done
<1>2. u # t
  BY <1>1 DEF At, Idle
<1> QED
  BY <1>1, <1>2 DEF At

LEMMA StillClearsNone ==
  ASSUME UNCHANGED thread
  PROVE  \A q : Cleared(q)' \subseteq Cleared(q)
BY DEF Cleared, At

\* A step that neither deploys nor touches the gate.
LEMMA QuietPaid ==
  ASSUME TypeOK, PaidInv, UNCHANGED <<events, pending, entries>>,
         \A q : Cleared(q)' \subseteq Cleared(q)
  PROVE  PaidInv'
<1> SUFFICES ASSUME NEW q \in Proposals
             PROVE  Paid(events[q], Cleared(q)', q \in pending, entries[q])
  BY DEF PaidInv
<1>1. Paid(events[q], Cleared(q), q \in pending, entries[q])
  BY DEF PaidInv
<1>2. events[q] \in Seq(Rows) /\ entries[q] \in Nat /\ (q \in pending) \in BOOLEAN
  BY DEF TypeOK
<1> QED
  BY <1>1, <1>2, PaidKept

LEMMA ClearPaid ==
  ASSUME TypeOK, PaidInv, NEW p \in Proposals, NEW t \in Operators, Clear(t, p)
  PROVE  PaidInv'
<1> SUFFICES ASSUME NEW q \in Proposals
             PROVE  Paid(events[q], Cleared(q)', q \in pending', entries[q])
  BY DEF Clear, PaidInv
<1>1. /\ Paid(events[q], Cleared(q), q \in pending, entries[q])
      /\ events[q] \in Seq(Rows) /\ entries[q] \in Nat
  BY DEF PaidInv, TypeOK
<1>2. t \in Threads /\ thread \in [Threads -> Works]
  BY DEF Threads, TypeOK
<1>3. /\ thread' = [thread EXCEPT ![t] = [step |-> "deploying", on |-> p]]
      /\ thread[t] = Idle
      /\ p \in pending /\ pending' = pending \ {p}
  BY DEF Clear, TakeUp
<1>4. CountIn(events[q], "DEPLOYED", "OPERATOR") \in Nat
  BY <1>1, CountType
<1>5. CASE q = p
  <2>1. t \notin Cleared(p)
    BY <1>3 DEF Cleared, At, Idle
  <2>2. Cleared(p)' = Cleared(p) \cup {t}
    <3>1. ASSUME NEW u \in Operators
          PROVE  At(u, "deploying", p)' <=> At(u, "deploying", p) \/ u = t
      BY <1>2, <1>3 DEF At, Threads
    <3> QED
      BY <3>1 DEF Cleared
  <2>3. /\ IsFiniteSet(Cleared(p)')
        /\ Cardinality(Cleared(p)') = Cardinality(Cleared(p)) + 1
        /\ Cardinality(Cleared(p)) \in Nat
    BY <1>1, <1>5, <2>1, <2>2, FS_AddElement, FS_CardinalityType DEF Paid
  <2> QED
    BY <1>1, <1>3, <1>4, <1>5, <2>3 DEF Paid
<1>6. CASE q # p
  <2>1. Cleared(q)' = Cleared(q)
    <3>1. ASSUME NEW u \in Operators
          PROVE  At(u, "deploying", q)' <=> At(u, "deploying", q)
      BY <1>2, <1>3, <1>6 DEF At, Threads, Idle
    <3> QED
      BY <3>1 DEF Cleared
  <2> QED
    BY <1>1, <1>3, <1>6, <2>1
<1> QED
  BY <1>5, <1>6

LEMMA EnterPaid ==
  ASSUME TypeOK, PaidInv, NEW p \in Proposals, NEW t \in Threads, Enter(t, p)
  PROVE  PaidInv'
<1> SUFFICES ASSUME NEW q \in Proposals
             PROVE  Paid(events[q], Cleared(q)', q \in pending', entries'[q])
  BY DEF Enter, PaidInv
<1>1. /\ Paid(events[q], Cleared(q), q \in pending, entries[q])
      /\ events[q] \in Seq(Rows) /\ entries[q] \in Nat
      /\ (q \in pending) \in BOOLEAN
  BY DEF PaidInv, TypeOK
<1>2. Cleared(q)' \subseteq Cleared(q)
  BY DoneClearsNone DEF Enter, TypeOK
<1>3. Paid(events[q], Cleared(q)', q \in pending, entries[q])
  BY <1>1, <1>2, PaidKept
<1>4. /\ pending' = pending \cup {p}
      /\ entries'[q] = IF q = p /\ p \notin pending THEN entries[q] + 1
                                                    ELSE entries[q]
  BY DEF Enter, TypeOK
<1>5. /\ CountIn(events[q], "DEPLOYED", "OPERATOR") \in Nat
      /\ Cardinality(Cleared(q)') \in Nat
  BY <1>1, <1>3, CountType, FS_CardinalityType DEF Paid
<1> QED
  BY <1>1, <1>3, <1>4, <1>5 DEF Paid

\* A row more: the rows of a proposal grow by it, those of the others do not.
LEMMA EmitFacts ==
  ASSUME events \in [Proposals -> Seq(Rows)], NEW p \in Proposals, NEW kind, NEW by,
         [kind |-> kind, by |-> by] \in Rows, Emit(p, kind, by), NEW q \in Proposals
  PROVE  /\ events'[q] = IF q = p THEN Append(events[q], [kind |-> kind, by |-> by])
                                  ELSE events[q]
         /\ \A k, b : /\ CountIn(events[q], k, b) \in Nat
                      /\ CountIn(events'[q], k, b) =
                           IF q = p /\ k = kind /\ b = by
                             THEN CountIn(events[q], k, b) + 1
                             ELSE CountIn(events[q], k, b)
<1>1. events'[q] = IF q = p THEN Append(events[q], [kind |-> kind, by |-> by])
                            ELSE events[q]
  BY DEF Emit
<1>2. events[q] \in Seq(Rows)
  OBVIOUS
<1>3. ASSUME NEW k, NEW b
      PROVE  /\ CountIn(events[q], k, b) \in Nat
             /\ CountIn(events'[q], k, b) =
                  IF q = p /\ k = kind /\ b = by
                    THEN CountIn(events[q], k, b) + 1
                    ELSE CountIn(events[q], k, b)
  <2>1. [kind |-> kind, by |-> by] = [kind |-> k, by |-> b] <=> k = kind /\ b = by
    <3>1. \A r, s : r = s => r.kind = s.kind /\ r.by = s.by
      OBVIOUS
    <3>2. /\ [kind |-> kind, by |-> by].kind = kind
          /\ [kind |-> kind, by |-> by].by = by
          /\ [kind |-> k, by |-> b].kind = k /\ [kind |-> k, by |-> b].by = b
      OBVIOUS
    <3> QED
      BY <3>1, <3>2
  <2> QED
    BY <1>1, <1>2, <2>1, CountAppend
<1> QED
  BY <1>1, <1>3

LEMMA RestorePaid ==
  ASSUME TypeOK, PaidInv, NEW p \in Proposals, NEW t \in Threads, Restore(t, p)
  PROVE  PaidInv'
<1> SUFFICES ASSUME NEW q \in Proposals
             PROVE  Paid(events'[q], Cleared(q)', q \in pending, entries[q])
  BY DEF Restore, PaidInv, history
<1>1. /\ Paid(events[q], Cleared(q), q \in pending, entries[q])
      /\ events[q] \in Seq(Rows) /\ entries[q] \in Nat
      /\ (q \in pending) \in BOOLEAN
  BY DEF PaidInv, TypeOK
<1>2. Cleared(q)' \subseteq Cleared(q)
  BY GoOnClearsNone DEF Restore, TypeOK
<1>3. Paid(events[q], Cleared(q)', q \in pending, entries[q])
  BY <1>1, <1>2, PaidKept
<1>4. PICK by \in {"key", "tombstone"} : Emit(p, "ROLLBACK", by)
  BY DEF Restore
<1>5. [kind |-> "ROLLBACK", by |-> by] \in Rows
  BY DEF Rows
<1>6. CountIn(events'[q], "DEPLOYED", "OPERATOR")
        = CountIn(events[q], "DEPLOYED", "OPERATOR")
  BY <1>4, <1>5, EmitFacts DEF TypeOK
<1> QED
  BY <1>3, <1>6 DEF Paid

LEMMA DeployPaid ==
  ASSUME TypeOK, PaidInv, NEW p \in Proposals, NEW t \in Threads, Deploy(t, p)
  PROVE  PaidInv'
<1> SUFFICES ASSUME NEW q \in Proposals
             PROVE  Paid(events'[q], Cleared(q)', q \in pending, entries[q])
  BY DEF Deploy, PaidInv, history
<1>1. /\ Paid(events[q], Cleared(q), q \in pending, entries[q])
      /\ events[q] \in Seq(Rows) /\ entries[q] \in Nat
      /\ (q \in pending) \in BOOLEAN
  BY DEF PaidInv, TypeOK
<1>2. Cleared(q)' \subseteq Cleared(q)
  BY GoOnClearsNone DEF Deploy, TypeOK
<1>3. Paid(events[q], Cleared(q)', q \in pending, entries[q])
  BY <1>1, <1>2, PaidKept
<1>4. Emit(p, "DEPLOYED", By(t)) /\ [kind |-> "DEPLOYED", by |-> By(t)] \in Rows
  BY DEF Deploy, Rows, By
<1>5. /\ CountIn(events[q], "DEPLOYED", "OPERATOR") \in Nat
      /\ CountIn(events'[q], "DEPLOYED", "OPERATOR") =
           IF q = p /\ By(t) = "OPERATOR"
             THEN CountIn(events[q], "DEPLOYED", "OPERATOR") + 1
             ELSE CountIn(events[q], "DEPLOYED", "OPERATOR")
  BY <1>4, EmitFacts DEF TypeOK
<1>6. CASE q = p /\ t # Ticker
  <2>1. t \in Cleared(p) /\ t \notin Cleared(p)'
    <3>1. t \in Operators /\ At(t, "deploying", p)
      BY <1>6 DEF Threads, Deploy
    <3>2. thread'[t].step = "deployed"
      BY DEF Deploy, GoOn, TypeOK
    <3> QED
      BY <3>1, <3>2 DEF Cleared, At
  <2>2. Cleared(p)' \subseteq Cleared(p) \ {t}
    BY <1>2, <1>6, <2>1
  <2>3. /\ IsFiniteSet(Cleared(p)') /\ Cardinality(Cleared(p)') \in Nat
        /\ Cardinality(Cleared(p)) \in Nat
        /\ Cardinality(Cleared(p)') <= Cardinality(Cleared(p)) - 1
    <3>1. /\ IsFiniteSet(Cleared(p) \ {t})
          /\ Cardinality(Cleared(p) \ {t}) = Cardinality(Cleared(p)) - 1
          /\ Cardinality(Cleared(p)) \in Nat
      BY <1>1, <1>6, <2>1, FS_RemoveElement, FS_CardinalityType DEF Paid
    <3> QED
      BY <2>2, <3>1, FS_Subset, FS_CardinalityType
  <2> QED
    BY <1>1, <1>5, <1>6, <2>3 DEF Paid
<1>7. CASE ~(q = p /\ t # Ticker)
  BY <1>3, <1>5, <1>7 DEF Paid, By
<1> QED
  BY <1>6, <1>7

LEMMA InitPaid == Init => PaidInv
<1> SUFFICES ASSUME Init, NEW p \in Proposals
             PROVE  Paid(<<>>, Cleared(p), p \in pending, 0)
  BY DEF Init, PaidInv
<1>1. Cleared(p) = {} /\ p \notin pending
  BY DEF Init, Cleared, At, Idle, Threads
<1>2. CountIn(<<>>, "DEPLOYED", "OPERATOR") = 0
  <2>1. DOMAIN <<>> = {}
    OBVIOUS
  <2> QED
    BY <2>1, FS_EmptySet DEF CountIn
<1> QED
  BY <1>1, <1>2, FS_EmptySet DEF Paid

LEMMA NextPaid == TypeOK /\ PaidInv /\ [Next]_vars => PaidInv'
<1> SUFFICES ASSUME TypeOK, PaidInv, [Next]_vars PROVE PaidInv'
  OBVIOUS
<1>0. CASE UNCHANGED vars
  BY <1>0, QuietPaid, StillClearsNone DEF vars, engines, history
<1>1. CASE Next
  <2>1. PICK p \in Proposals : Next!(p)
    BY <1>1 DEF Next
  <2>2. ASSUME \/ \E class \in Classes : Submit(p, class)
               \/ TickStarts
               \/ \E outcome \in Outcomes : Sandboxed(p, outcome) \/ Simulated(p, outcome)
               \/ Benchmarked(p) \/ ReviewOpens(p) \/ TickSkips(p)
        PROVE  PaidInv'
    BY <2>2, QuietPaid, StillClearsNone
       DEF Submit, TickStarts, Sandboxed, Simulated, Benchmarked, ReviewOpens,
           TickSkips, engines, history
  <2>3. ASSUME FailedTest(p) \/ TickTakesUp(p) PROVE PaidInv'
    <3>1. /\ \E s : TakeUp(Ticker, s, p)
          /\ UNCHANGED <<events, pending, entries>>
      BY <2>3 DEF FailedTest, TickTakesUp, engines, history
    <3> QED
      BY <3>1, TakeUpClearsNone, QuietPaid DEF TypeOK, Threads
  <2>4. ASSUME NEW t \in Operators, Review(t, p) \/ RollBack(t, p) PROVE PaidInv'
    <3>1. /\ \E s \in {"approving", "rejecting", "rolling_back"} : TakeUp(t, s, p)
          /\ UNCHANGED <<events, pending, entries>>
      BY <2>4 DEF Review, RollBack, engines
    <3> QED
      BY <3>1, TakeUpClearsNone, QuietPaid DEF TypeOK, Threads
  <2>5. ASSUME NEW t \in Threads,
               \/ Approve(t, p) \/ Reject(t, p) \/ MarkRolledBack(t, p)
               \/ Audit(t, p) \/ AfterAudit(t, p) \/ MarkDeployed(t, p)
               \/ Promote(t, p) \/ Learn(t, p) \/ DeployedGone(t, p) \/ Close(t, p)
        PROVE  PaidInv'
    <3>1. /\ \/ \E s \in {"promoting", "closing", "auditing", "audited", "marking"} :
                  GoOn(t, s)
             \/ Done(t)
          /\ UNCHANGED <<events, pending, entries>>
      BY <2>5 DEF Approve, Reject, MarkRolledBack, Audit, AfterAudit, MarkDeployed,
                  Promote, Learn, DeployedGone, Close, engines, history
    <3> QED
      BY <3>1, GoOnClearsNone, DoneClearsNone, QuietPaid DEF TypeOK
  <2> QED
    BY <2>1, <2>2, <2>3, <2>4, <2>5, ClearPaid, EnterPaid, RestorePaid, DeployPaid
<1> QED
  BY <1>0, <1>1

\* Operators who press the button together share one deployment: each of
\* theirs uses up an entry of the gate, because the gate takes the proposal out
\* of its pending set in the step that lets the operator through.
THEOREM DeploymentsUseUpEntries == Spec => []EntriesPay
<1>1. Init => TypeOK /\ PaidInv
  BY InitSafe, InitPaid DEF Inv
<1>2. TypeOK /\ PaidInv /\ [Next]_vars => (TypeOK /\ PaidInv)'
  BY NextType, NextPaid
<1>3. TypeOK /\ PaidInv => EntriesPay
  <2> SUFFICES ASSUME TypeOK, PaidInv, NEW p \in Proposals
               PROVE  CountIn(events[p], "DEPLOYED", "OPERATOR") <= entries[p]
    BY CountIsCountIn DEF EntriesPay
  <2>1. Paid(events[p], Cleared(p), p \in pending, entries[p])
    BY DEF PaidInv
  <2>2. /\ CountIn(events[p], "DEPLOYED", "OPERATOR") \in Nat
        /\ Cardinality(Cleared(p)) \in Nat /\ entries[p] \in Nat
    BY <2>1, CountType, FS_CardinalityType DEF TypeOK, Paid
  <2> QED
    BY <2>1, <2>2 DEF Paid
<1> QED
  BY <1>1, <1>2, <1>3, PTL DEF Spec

-----------------------------------------------------------------------------
(***************************************************************************)
(* A snapshot is restored once for each approval.                          *)
(***************************************************************************)
\* A proposal has one snapshot at most: register_for_rollback keeps its key.
KeyedOnce == \A i, j \in DOMAIN snapshots : snapshots[i] = snapshots[j] => i = j

\* Restores so far, and one more if the snapshot is there: no more than the
\* approvals, each of which registers a snapshot.
RestoredAt(p) ==
  CountIn(events[p], "ROLLBACK", "key") + (IF Keyed(p) THEN 1 ELSE 0)
    <= Len(approvals[p])

SnapshotInv == KeyedOnce /\ \A p \in Proposals : RestoredAt(p)

\* What a sequence without duplicates holds with one element more at its end,
\* without its first one, or without the one at i.
LEMMA OneMore ==
  ASSUME NEW s \in Seq(Proposals), NEW p \in Proposals,
         \A i, j \in DOMAIN s : s[i] = s[j] => i = j,
         \A i \in DOMAIN s : s[i] # p
  PROVE  LET k == Append(s, p) IN
         /\ \A i, j \in DOMAIN k : k[i] = k[j] => i = j
         /\ \A i \in DOMAIN k : k[i] = p \/ \E j \in DOMAIN s : s[j] = k[i]
<1> DEFINE k == Append(s, p)
           n == Len(s)
<1>1. /\ n \in Nat /\ DOMAIN s = 1 .. n /\ DOMAIN k = 1 .. n + 1
      /\ k[n + 1] = p /\ \A i \in 1 .. n : k[i] = s[i]
  OBVIOUS
<1>2. \A i : i \in 1 .. n + 1 <=> i \in 1 .. n \/ i = n + 1
  BY <1>1
<1> HIDE DEF k, n
<1>3. /\ \A i, j \in DOMAIN k : k[i] = k[j] => i = j
      /\ \A i \in DOMAIN k : k[i] = p \/ \E j \in DOMAIN s : s[j] = k[i]
  BY <1>1, <1>2
<1> QED
  BY <1>3 DEF k

LEMMA OneLess ==
  ASSUME NEW s \in Seq(Proposals), s # <<>>,
         \A i, j \in DOMAIN s : s[i] = s[j] => i = j
  PROVE  LET k == Tail(s) IN
         /\ \A i, j \in DOMAIN k : k[i] = k[j] => i = j
         /\ \A i \in DOMAIN k : \E j \in DOMAIN s : s[j] = k[i]
<1> DEFINE k == Tail(s)
           n == Len(s)
<1>1. /\ n \in Nat \ {0} /\ DOMAIN s = 1 .. n /\ DOMAIN k = 1 .. n - 1
      /\ \A i \in 1 .. n - 1 : k[i] = s[i + 1]
  OBVIOUS
<1>2. \A i \in 1 .. n - 1 : i + 1 \in 1 .. n
  BY <1>1
<1> HIDE DEF k, n
<1>3. \A i \in DOMAIN k : \E j \in DOMAIN s : s[j] = k[i]
  BY <1>1, <1>2
<1>4. ASSUME NEW i \in DOMAIN k, NEW j \in DOMAIN k, k[i] = k[j] PROVE i = j
  <2>1. i \in 1 .. n - 1 /\ j \in 1 .. n - 1 /\ s[i + 1] = s[j + 1]
    BY <1>1, <1>4
  <2>2. i + 1 = j + 1
    BY <1>1, <1>2, <2>1
  <2> QED
    BY <1>1, <2>1, <2>2
<1> QED
  BY <1>3, <1>4 DEF k

LEMMA OneRemoved ==
  ASSUME NEW s \in Seq(Proposals), NEW d \in DOMAIN s,
         \A i, j \in DOMAIN s : s[i] = s[j] => i = j
  PROVE  LET k == RemoveAt(s, d) IN
         /\ \A i, j \in DOMAIN k : k[i] = k[j] => i = j
         /\ \A i \in DOMAIN k : k[i] # s[d] /\ \E j \in DOMAIN s : s[j] = k[i]
<1> DEFINE a == SubSeq(s, 1, d - 1)
           b == SubSeq(s, d + 1, Len(s))
           k == RemoveAt(s, d)
           n == Len(s)
           at(i) == IF i < d THEN i ELSE i + 1
<1>1. n \in Nat /\ DOMAIN s = 1 .. n /\ d \in 1 .. n
  OBVIOUS
<1>2. /\ a \in Seq(Proposals) /\ Len(a) = d - 1
      /\ \A i \in 1 .. d - 1 : a[i] = s[i]
  BY <1>1
<1>3. /\ b \in Seq(Proposals) /\ Len(b) = n - d
      /\ \A i \in 1 .. n - d : b[i] = s[i + d]
  BY <1>1
<1>4. k = a \o b
  BY DEF RemoveAt
<1> HIDE DEF a, b, k, n
<1>5. /\ DOMAIN k = 1 .. n - 1
      /\ \A i \in 1 .. n - 1 : k[i] = IF i < d THEN a[i] ELSE b[i - (d - 1)]
  BY <1>1, <1>2, <1>3, <1>4
<1>6. \A i \in 1 .. n - 1 : k[i] = s[at(i)] /\ at(i) \in 1 .. n /\ at(i) # d
  <2> SUFFICES ASSUME NEW i \in 1 .. n - 1
               PROVE  k[i] = s[at(i)] /\ at(i) \in 1 .. n /\ at(i) # d
    OBVIOUS
  <2>1. CASE i < d
    <3>1. i \in 1 .. d - 1
      BY <1>1, <2>1
    <3> QED
      BY <1>1, <1>2, <1>5, <2>1, <3>1
  <2>2. CASE ~(i < d)
    <3>1. i - (d - 1) \in 1 .. n - d /\ (i - (d - 1)) + d = i + 1
      BY <1>1, <2>2
    <3>2. b[i - (d - 1)] = s[i + 1]
      BY <1>3, <3>1
    <3> QED
      BY <1>1, <1>5, <2>2, <3>2
  <2> QED
    BY <2>1, <2>2
<1>7. \A i, j \in 1 .. n - 1 : at(i) = at(j) => i = j
  BY <1>1
<1> HIDE DEF at
<1>8. /\ \A i, j \in DOMAIN k : k[i] = k[j] => i = j
      /\ \A i \in DOMAIN k : k[i] # s[d] /\ \E j \in DOMAIN s : s[j] = k[i]
  BY <1>1, <1>5, <1>6, <1>7
<1> QED
  BY <1>8 DEF k

\* Registering p keeps the keys distinct and adds no other key.
LEMMA RegisteredKeys ==
  ASSUME TypeOK, KeyedOnce, NEW p \in Proposals, snapshots' = Registered(p)
  PROVE  KeyedOnce' /\ \A q \in Proposals : Keyed(q)' => q = p \/ Keyed(q)
<1> DEFINE s == IF Keyed(p) THEN snapshots ELSE Append(snapshots, p)
<1>1. /\ s \in Seq(Proposals)
      /\ \A i, j \in DOMAIN s : s[i] = s[j] => i = j
      /\ \A i \in DOMAIN s : s[i] = p \/ Keyed(s[i])
  <2>1. /\ snapshots \in Seq(Proposals)
        /\ \A i, j \in DOMAIN snapshots : snapshots[i] = snapshots[j] => i = j
        /\ \A i \in DOMAIN snapshots : Keyed(snapshots[i])
    BY DEF TypeOK, Keyed, KeyedOnce
  <2>2. CASE Keyed(p)
    BY <2>1, <2>2
  <2>3. CASE ~Keyed(p)
    <3> DEFINE k == Append(snapshots, p)
    <3>1. \A i \in DOMAIN snapshots : snapshots[i] # p
      BY <2>3 DEF Keyed
    <3>2. /\ \A i, j \in DOMAIN k : k[i] = k[j] => i = j
          /\ \A i \in DOMAIN k : \/ k[i] = p
                                 \/ \E j \in DOMAIN snapshots : snapshots[j] = k[i]
      BY <2>1, <3>1, OneMore
    <3>3. s = k /\ k \in Seq(Proposals)
      BY <2>1, <2>3
    <3> HIDE DEF k, s
    <3> QED
      BY <3>2, <3>3 DEF Keyed
  <2> QED
    BY <2>2, <2>3
<1>2. snapshots' = IF Len(s) > MaxSnapshots THEN Tail(s) ELSE s
  BY DEF Registered
<1> HIDE DEF s
<1>3. Len(s) > MaxSnapshots => s # <<>>
  BY <1>1, EvolutionConstantsOK
<1>4. /\ \A i, j \in DOMAIN snapshots' : snapshots'[i] = snapshots'[j] => i = j
      /\ \A i \in DOMAIN snapshots' : \E j \in DOMAIN s : s[j] = snapshots'[i]
  BY <1>1, <1>2, <1>3, OneLess
<1> QED
  BY <1>1, <1>4 DEF Keyed, KeyedOnce

LEMMA ApproveSnapshots ==
  ASSUME TypeOK, SnapshotInv, NEW p \in Proposals, NEW t \in Threads, Approve(t, p)
  PROVE  SnapshotInv'
<1>1. snapshots' = Registered(p) /\ events' = events
      /\ approvals' = [approvals EXCEPT ![p] = Append(approvals[p], By(t))]
  BY DEF Approve
<1>2. KeyedOnce' /\ \A q \in Proposals : Keyed(q)' => q = p \/ Keyed(q)
  BY <1>1, RegisteredKeys DEF SnapshotInv
<1>3. ASSUME NEW q \in Proposals PROVE RestoredAt(q)'
  <2>1. /\ CountIn(events[q], "ROLLBACK", "key") \in Nat
        /\ RestoredAt(q)
    BY CountType DEF TypeOK, SnapshotInv
  <2>2. /\ Len(approvals[q]) \in Nat
        /\ Len(approvals'[q]) = IF q = p THEN Len(approvals[q]) + 1
                                         ELSE Len(approvals[q])
    BY <1>1 DEF TypeOK
  <2> QED
    BY <1>1, <1>2, <2>1, <2>2 DEF RestoredAt
<1> QED
  BY <1>2, <1>3 DEF SnapshotInv

LEMMA RestoreSnapshots ==
  ASSUME TypeOK, SnapshotInv, NEW p \in Proposals, NEW t \in Threads, Restore(t, p)
  PROVE  SnapshotInv'
<1>1. approvals' = approvals
  BY DEF Restore, history
<1>2. \A q \in Proposals : /\ CountIn(events[q], "ROLLBACK", "key") \in Nat
                           /\ Len(approvals[q]) \in Nat
                           /\ RestoredAt(q)
  <2> SUFFICES ASSUME NEW q \in Proposals
               PROVE  /\ CountIn(events[q], "ROLLBACK", "key") \in Nat
                      /\ Len(approvals[q]) \in Nat
    BY DEF SnapshotInv
  <2> QED
    BY CountType DEF TypeOK
<1>3. CASE ~Keyed(p) /\ Emit(p, "ROLLBACK", "tombstone") /\ UNCHANGED snapshots
  <2>1. [kind |-> "ROLLBACK", by |-> "tombstone"] \in Rows
    BY DEF Rows
  <2>2. \A q \in Proposals : CountIn(events'[q], "ROLLBACK", "key")
                               = CountIn(events[q], "ROLLBACK", "key")
    BY <1>3, <2>1, EmitFacts DEF TypeOK
  <2> QED
    BY <1>1, <1>2, <1>3, <2>2 DEF SnapshotInv, KeyedOnce, RestoredAt, Keyed
<1>4. ASSUME NEW i \in DOMAIN snapshots, snapshots[i] = p,
             Emit(p, "ROLLBACK", "key"), snapshots' = RemoveAt(snapshots, i)
      PROVE  SnapshotInv'
  <2>1. [kind |-> "ROLLBACK", by |-> "key"] \in Rows
    BY DEF Rows
  <2>2. \A q \in Proposals : CountIn(events'[q], "ROLLBACK", "key") =
          IF q = p THEN CountIn(events[q], "ROLLBACK", "key") + 1
                   ELSE CountIn(events[q], "ROLLBACK", "key")
    BY <1>4, <2>1, EmitFacts DEF TypeOK
  <2>3. KeyedOnce' /\ \A q \in Proposals : Keyed(q)' => q # p /\ Keyed(q)
    <3> DEFINE k == RemoveAt(snapshots, i)
    <3>1. snapshots \in Seq(Proposals)
          /\ \A m, n \in DOMAIN snapshots : snapshots[m] = snapshots[n] => m = n
      BY DEF TypeOK, SnapshotInv, KeyedOnce
    <3>2. /\ \A m, n \in DOMAIN k : k[m] = k[n] => m = n
          /\ \A m \in DOMAIN k : /\ k[m] # snapshots[i]
                                 /\ \E n \in DOMAIN snapshots : snapshots[n] = k[m]
      BY <3>1, OneRemoved
    <3>3. snapshots' = k
      BY <1>4
    <3> HIDE DEF k
    <3> QED
      BY <1>4, <3>2, <3>3 DEF KeyedOnce, Keyed
  <2>4. Keyed(p)
    BY <1>4 DEF Keyed
  <2>5. ASSUME NEW q \in Proposals PROVE RestoredAt(q)'
    BY <1>1, <1>2, <2>2, <2>3, <2>4 DEF RestoredAt
  <2> QED
    BY <2>3, <2>5 DEF SnapshotInv
<1> QED
  BY <1>3, <1>4 DEF Restore

\* Deployments restore nothing.
LEMMA DeploySnapshots ==
  ASSUME TypeOK, SnapshotInv, NEW p \in Proposals, NEW t \in Threads, Deploy(t, p)
  PROVE  SnapshotInv'
<1>1. snapshots' = snapshots /\ approvals' = approvals
  BY DEF Deploy, history
<1>2. Emit(p, "DEPLOYED", By(t)) /\ [kind |-> "DEPLOYED", by |-> By(t)] \in Rows
  BY DEF Deploy, Rows, By
<1>3. \A q \in Proposals : CountIn(events'[q], "ROLLBACK", "key")
                             = CountIn(events[q], "ROLLBACK", "key")
  BY <1>2, EmitFacts DEF TypeOK
<1> QED
  BY <1>1, <1>3 DEF SnapshotInv, KeyedOnce, RestoredAt, Keyed

LEMMA QuietSnapshots ==
  ASSUME SnapshotInv, UNCHANGED <<snapshots, events, approvals>>
  PROVE  SnapshotInv'
BY DEF SnapshotInv, KeyedOnce, RestoredAt, Keyed

LEMMA InitSnapshots == Init => SnapshotInv
<1>1. DOMAIN <<>> = {} /\ Len(<<>>) = 0
  OBVIOUS
<1>2. CountIn(<<>>, "ROLLBACK", "key") = 0
  BY <1>1, FS_EmptySet DEF CountIn
<1> QED
  BY <1>1, <1>2 DEF Init, SnapshotInv, KeyedOnce, RestoredAt, Keyed

LEMMA NextSnapshots == TypeOK /\ SnapshotInv /\ [Next]_vars => SnapshotInv'
<1> SUFFICES ASSUME TypeOK, SnapshotInv, [Next]_vars PROVE SnapshotInv'
  OBVIOUS
<1>0. CASE UNCHANGED vars
  BY <1>0, QuietSnapshots DEF vars, engines, history
<1>1. CASE Next
  <2>1. PICK p \in Proposals : Next!(p)
    BY <1>1 DEF Next
  <2>2. ASSUME \/ \E class \in Classes : Submit(p, class)
               \/ TickStarts
               \/ \E outcome \in Outcomes : Sandboxed(p, outcome) \/ Simulated(p, outcome)
               \/ Benchmarked(p) \/ ReviewOpens(p) \/ TickSkips(p)
               \/ FailedTest(p) \/ TickTakesUp(p)
        PROVE  SnapshotInv'
    BY <2>2, QuietSnapshots
       DEF Submit, TickStarts, Sandboxed, Simulated, Benchmarked, ReviewOpens,
           TickSkips, FailedTest, TickTakesUp, engines, history
  <2>3. ASSUME NEW t \in Operators, Review(t, p) \/ RollBack(t, p) \/ Clear(t, p)
        PROVE  SnapshotInv'
    BY <2>3, QuietSnapshots DEF Review, RollBack, Clear, engines
  <2>4. ASSUME NEW t \in Threads,
               \/ Reject(t, p) \/ MarkRolledBack(t, p) \/ Audit(t, p)
               \/ AfterAudit(t, p) \/ MarkDeployed(t, p) \/ Promote(t, p)
               \/ Learn(t, p) \/ DeployedGone(t, p) \/ Close(t, p) \/ Enter(t, p)
        PROVE  SnapshotInv'
    BY <2>4, QuietSnapshots
       DEF Reject, MarkRolledBack, Audit, AfterAudit, MarkDeployed, Promote,
           Learn, DeployedGone, Close, Enter, engines, history
  <2> QED
    BY <2>1, <2>2, <2>3, <2>4, ApproveSnapshots, RestoreSnapshots, DeploySnapshots
<1> QED
  BY <1>0, <1>1

\* However rollbacks race, at most one snapshot is restored for each approval:
\* the engine pops the snapshot in the step that restores it.
THEOREM RestoresUseUpApprovals == Spec => []SnapshotsRestoreOnce
<1>1. Init => TypeOK /\ SnapshotInv
  BY InitSafe, InitSnapshots DEF Inv
<1>2. TypeOK /\ SnapshotInv /\ [Next]_vars => (TypeOK /\ SnapshotInv)'
  BY NextType, NextSnapshots
<1>3. TypeOK /\ SnapshotInv => SnapshotsRestoreOnce
  <2> SUFFICES ASSUME TypeOK, SnapshotInv, NEW p \in Proposals
               PROVE  CountIn(events[p], "ROLLBACK", "key") <= Len(approvals[p])
    BY CountIsCountIn DEF SnapshotsRestoreOnce
  <2>1. /\ CountIn(events[p], "ROLLBACK", "key") \in Nat
        /\ Len(approvals[p]) \in Nat
        /\ RestoredAt(p)
    BY CountType DEF TypeOK, SnapshotInv
  <2> QED
    BY <2>1 DEF RestoredAt
<1> QED
  BY <1>1, <1>2, <1>3, PTL DEF Spec

-----------------------------------------------------------------------------
(***************************************************************************)
(* Threads that take turns.                                                *)
(***************************************************************************)
Undeployed(p) == \A i \in DOMAIN events[p] : events[p][i].kind # "DEPLOYED"

DeployedOnce(p) ==
  \A i, j \in DOMAIN events[p] :
    events[p][i].kind = "DEPLOYED" /\ events[p][j].kind = "DEPLOYED" => i = j

Free(p) == \A t \in Threads : thread[t].on # p

\* The stages a record waits in for the tick or for an operator.
Waiting == {"PROPOSED", "SANDBOX", "SIMULATION", "BENCHMARK", "GOV_REVIEW",
            "PROMOTED", "REPLAY_AUDIT"}

\* The record has reached an end.
Over(r) == \/ r.stage \in {"DEPLOYED", "REJECTED"}
           \/ r.stage = "REPLAY_AUDIT" /\ r.rolled_back

\* What a thread that took record r up finds when it acts at a step: the stage
\* its check saw, because nobody else moved the record meanwhile.
Fits(step, r) ==
  /\ step \in {"approving", "promoting", "rejecting"} =>
       r.stage = "GOV_REVIEW" /\ ~r.rolled_back
  /\ step \in {"rolling_back", "restored"} =>
       r.stage \in {"PROMOTED", "REPLAY_AUDIT"} /\ ~r.rolled_back
  /\ step = "auditing" =>
       r.stage = IF r.rolled_back THEN "ROLLED_BACK" ELSE "PROMOTED"
  /\ step = "audited" => r.stage = "REPLAY_AUDIT"
  /\ step \in {"entering", "deploying", "deployed", "marking"} =>
       r.stage = "REPLAY_AUDIT" /\ ~r.rolled_back
  /\ step = "closing" => Over(r)

AloneAt(p) ==
  \A t, u \in Threads : thread[t].on = p /\ thread[u].on = p => t = u

OpenAt(p) ==
  p \in active =>
    /\ rec[p].stage # "none"
    /\ completed[p] = 0
    /\ Free(p) => rec[p].stage \in Waiting /\ ~rec[p].rolled_back
    /\ \A t \in Threads : thread[t].on = p => Fits(thread[t].step, rec[p])

\* A record that is not active was never submitted, or closed once.  What was
\* closed after a rollback may still wait in the gate, and an operator may be
\* on the way to deploy it.
NeverSubmitted(p) ==
  /\ rec[p] = NoRecord
  /\ completed[p] = 0
  /\ p \notin pending
  /\ Undeployed(p)
  /\ Free(p)

Closed(p) ==
  /\ completed[p] = 1
  /\ Over(rec[p])
  /\ \A t \in Threads : thread[t].on = p =>
       t # Ticker /\ thread[t].step \in {"deploying", "deployed"}

\* Who waits in the gate is not deployed and nobody is about to deploy it; what
\* is deployed and active is about to be marked or marked.
GateAt(p) ==
  /\ p \in pending =>
       /\ rec[p].class # "CLASS_A"
       /\ rec[p].stage \in {"REPLAY_AUDIT", "ROLLED_BACK"}
       /\ Undeployed(p)
       /\ \A t \in Threads : thread[t].on = p =>
            thread[t].step \notin {"deploying", "deployed", "marking"}
  /\ \A t \in Threads : thread[t].on = p /\ thread[t].step = "entering" =>
       rec[p].class # "CLASS_A" /\ t = Ticker
  /\ \A t \in Threads : thread[t].on = p /\ thread[t].step = "deploying" =>
       Undeployed(p)
  /\ \/ Undeployed(p)
     \/ p \notin active
     \/ rec[p].stage = "DEPLOYED"
     \/ \E t \in Threads :
          thread[t].on = p /\ thread[t].step \in {"deployed", "marking"}
  /\ DeployedOnce(p)

CleanAt(p) ==
  /\ AloneAt(p)
  /\ OpenAt(p)
  /\ p \notin active => NeverSubmitted(p) \/ Closed(p)
  /\ GateAt(p)

CleanInv == \A p \in Proposals : p \notin shared => CleanAt(p)

\* A proposal a step is not about stays clean.
LEMMA OthersClean ==
  ASSUME NEW q \in Proposals, CleanAt(q), rec'[q] = rec[q],
         q \in active' <=> q \in active, completed'[q] = completed[q],
         q \in pending' <=> q \in pending, events'[q] = events[q],
         \A u \in Threads : thread'[u].on = q \/ thread[u].on = q =>
                              thread'[u] = thread[u]
  PROVE  CleanAt(q)'
<1>1. \A u \in Threads : thread'[u].on = q <=> thread[u].on = q
  OBVIOUS
<1>2. /\ Undeployed(q)' <=> Undeployed(q)
      /\ DeployedOnce(q)' <=> DeployedOnce(q)
      /\ Free(q)' <=> Free(q)
  BY <1>1 DEF Undeployed, DeployedOnce, Free
<1>3. AloneAt(q)'
  BY <1>1 DEF CleanAt, AloneAt
<1>4. OpenAt(q)'
  BY <1>1, <1>2 DEF CleanAt, OpenAt
<1>5. (q \notin active => NeverSubmitted(q) \/ Closed(q))'
  BY <1>1, <1>2 DEF CleanAt, NeverSubmitted, Closed
<1>6. GateAt(q)'
  BY <1>1, <1>2 DEF CleanAt, GateAt
<1> QED
  BY <1>3, <1>4, <1>5, <1>6 DEF CleanAt

\* So a step is judged by the one proposal it is about.
LEMMA OneClean ==
  ASSUME CleanInv, NEW p \in Proposals, shared \subseteq shared',
         p \notin shared' /\ CleanAt(p) => CleanAt(p)',
         \A q \in Proposals \ {p} :
           /\ rec'[q] = rec[q] /\ completed'[q] = completed[q]
           /\ events'[q] = events[q]
           /\ q \in active' <=> q \in active
           /\ q \in pending' <=> q \in pending
           /\ \A u \in Threads : thread'[u].on = q \/ thread[u].on = q =>
                                   thread'[u] = thread[u]
  PROVE  CleanInv'
<1> SUFFICES ASSUME NEW q \in Proposals, q \notin shared' PROVE CleanAt(q)'
  BY DEF CleanInv
<1>1. CleanAt(q)
  BY DEF CleanInv
<1>2. CASE q = p
  BY <1>1, <1>2
<1>3. CASE q # p
  BY <1>1, <1>3, OthersClean
<1> QED
  BY <1>2, <1>3

\* A thread that is on a proposal is at a step.
LEMMA BusySteps ==
  ASSUME thread \in [Threads -> Works], NEW t \in Threads, NEW p \in Proposals,
         thread[t].on = p
  PROVE  thread[t].step \in Steps
<1>1. thread[t] \in Works /\ thread[t] # Idle
  BY EvolutionConstantsOK DEF Idle
<1>2. thread[t] \in [step : Steps, on : Proposals]
  BY <1>1 DEF Works
<1> QED
  BY <1>2

\* What a move of one thread leaves to the proposals it is not about.
LEMMA MoveIsAbout ==
  ASSUME thread \in [Threads -> Works], NEW p \in Proposals, NEW t \in Threads,
         \/ thread[t] = Idle /\ \E s : TakeUp(t, s, p)
         \/ \E r : At(t, r, p) /\ (Done(t) \/ \E s : GoOn(t, s))
  PROVE  /\ shared \subseteq shared'
         /\ \A q \in Proposals \ {p} : \A u \in Threads :
              thread'[u].on = q \/ thread[u].on = q => thread'[u] = thread[u]
<1>1. shared \subseteq shared'
  BY DEF TakeUp, Done, GoOn
<1>2. None \notin Proposals
  BY EvolutionConstantsOK
<1>3. \A u \in Threads \ {t} : thread'[u] = thread[u]
  BY DEF TakeUp, Done, GoOn
<1>4. thread[t].on \in {None, p} /\ thread'[t].on \in {None, p}
  BY DEF TakeUp, Done, GoOn, Idle, At
<1> QED
  BY <1>1, <1>2, <1>3, <1>4

\* A thread takes up p and p is not shared afterwards: the thread is alone.
LEMMA TakeUpAlone ==
  ASSUME thread \in [Threads -> Works], NEW p \in Proposals, NEW t \in Threads,
         NEW s, TakeUp(t, s, p), p \notin shared', thread[t] = Idle
  PROVE  /\ \A u \in Threads : thread[u].on # p
         /\ t = Ticker => p \in active
         /\ \A u \in Threads : thread'[u].on = p <=> u = t
         /\ thread'[t].step = s
<1>1. p # None
  BY EvolutionConstantsOK
<1>2. /\ \A u \in Threads \ {t} : thread[u].on # p
      /\ t = Ticker => p \in active
  BY DEF TakeUp
<1>3. /\ \A u \in Threads : thread'[u].on = IF u = t THEN p ELSE thread[u].on
      /\ thread'[t].step = s
  BY TakeUpFacts
<1> QED
  BY <1>1, <1>2, <1>3 DEF Idle

\* A thread on p goes on: it stays the only one.
LEMMA GoOnAlone ==
  ASSUME thread \in [Threads -> Works], NEW p \in Proposals, NEW t \in Threads,
         NEW r, NEW s, At(t, r, p), GoOn(t, s), AloneAt(p)
  PROVE  /\ \A u \in Threads : thread[u].on = p <=> u = t
         /\ \A u \in Threads : thread'[u].on = p <=> u = t
         /\ thread[t].step = r
         /\ thread'[t].step = s
<1>1. thread[t].on = p /\ thread[t].step = r
  BY DEF At
<1>2. /\ \A u \in Threads : thread'[u].on = thread[u].on
      /\ thread'[t].step = s
  BY GoOnFacts
<1> QED
  BY <1>1, <1>2 DEF AloneAt

\* A thread on p is done: nobody is on p.
LEMMA DoneAlone ==
  ASSUME thread \in [Threads -> Works], NEW p \in Proposals, NEW t \in Threads,
         NEW r, At(t, r, p), Done(t), AloneAt(p)
  PROVE  /\ \A u \in Threads : thread[u].on = p <=> u = t
         /\ \A u \in Threads : thread'[u].on # p
         /\ thread[t].step = r
<1>1. thread[t].on = p /\ thread[t].step = r /\ p # None
  BY EvolutionConstantsOK DEF At
<1>2. \A u \in Threads : thread'[u].on = IF u = t THEN None ELSE thread[u].on
  BY DoneFacts
<1> QED
  BY <1>1, <1>2 DEF AloneAt

\* The record of the one proposal a step advances.
LEMMA AdvanceAbout ==
  ASSUME rec \in [Proposals -> Records], NEW p \in Proposals, NEW s, Advance(p, s)
  PROVE  /\ \A q \in Proposals \ {p} : rec'[q] = rec[q]
         /\ rec'[p].stage = s
         /\ rec'[p].class = rec[p].class
         /\ rec'[p].rolled_back = rec[p].rolled_back
BY DEF Advance, Records

\* As long as events stay, so does what they say.
LEMMA EventsStay ==
  ASSUME UNCHANGED events, NEW p
  PROVE  /\ Undeployed(p)' <=> Undeployed(p)
         /\ DeployedOnce(p)' <=> DeployedOnce(p)
BY DEF Undeployed, DeployedOnce

\* A submitted record is active until it is over.
LEMMA ActiveUntilOver ==
  ASSUME NEW p \in Proposals, CleanAt(p), rec[p].stage # "none", ~Over(rec[p])
  PROVE  p \in active
BY NoRecordFacts DEF CleanAt, NeverSubmitted, Closed

-----------------------------------------------------------------------------
LEMMA SubmitClean ==
  ASSUME TypeOK, CleanInv, NEW p \in Proposals, NEW class \in Classes, Submit(p, class)
  PROVE  CleanInv'
<1>1. /\ rec[p] = NoRecord /\ active' = active \cup {p}
      /\ UNCHANGED <<completed, pending, events, thread, shared>>
      /\ rec' = [rec EXCEPT ![p].stage = "PROPOSED", ![p].class = class]
  BY DEF Submit, engines
<1>2. /\ rec'[p].stage = "PROPOSED" /\ ~rec'[p].rolled_back
      /\ \A q \in Proposals \ {p} : rec'[q] = rec[q]
  <2>1. rec'[p] = [NoRecord EXCEPT !.stage = "PROPOSED", !.class = class]
    BY <1>1 DEF TypeOK
  <2>2. rec'[p].stage = "PROPOSED" /\ rec'[p].rolled_back = FALSE
    BY <2>1 DEF NoRecord
  <2> QED
    BY <1>1, <2>2 DEF TypeOK
<1>3. ASSUME CleanAt(p) PROVE CleanAt(p)'
  <2>1. NeverSubmitted(p)
    BY <1>1, <1>3, NoRecordFacts DEF CleanAt, OpenAt, Closed, Over
  <2>2. Free(p) /\ Free(p)' /\ Undeployed(p) /\ Undeployed(p)' /\ DeployedOnce(p)'
    BY <1>1, <1>3, <2>1, EventsStay DEF NeverSubmitted, Free, CleanAt, GateAt
  <2>3. OpenAt(p)'
    BY <1>1, <1>2, <2>1, <2>2 DEF OpenAt, NeverSubmitted, Free, Waiting
  <2>4. GateAt(p)' /\ AloneAt(p)'
    BY <1>1, <2>1, <2>2 DEF GateAt, NeverSubmitted, Free, AloneAt
  <2> QED
    BY <1>1, <2>3, <2>4 DEF CleanAt
<1> QED
  BY <1>1, <1>2, <1>3, OneClean

\* A stage before governance that the tick moves on from by itself.
LEMMA EarlyClean ==
  ASSUME TypeOK, CleanInv, NEW p \in Proposals, NEW s,
         rec[p].stage \in {"PROPOSED", "SANDBOX", "SIMULATION", "BENCHMARK"},
         s \in {"SANDBOX", "SIMULATION", "BENCHMARK", "GOV_REVIEW"},
         rec'[p].stage = s, rec'[p].rolled_back = rec[p].rolled_back,
         \A q \in Proposals \ {p} : rec'[q] = rec[q],
         UNCHANGED <<active, completed, pending, events, thread, shared>>
  PROVE  CleanInv'
<1>1. ASSUME CleanAt(p) PROVE CleanAt(p)'
  <2>1. p \in active
    BY <1>1, ActiveUntilOver DEF Over
  <2>2. Free(p) /\ Free(p)'
    <3>1. ASSUME NEW t \in Threads, thread[t].on = p PROVE FALSE
      <4>1. Fits(thread[t].step, rec[p])
        BY <1>1, <2>1, <3>1 DEF CleanAt, OpenAt
      <4>2. thread[t].step \in Steps
        BY <3>1, BusySteps DEF TypeOK
      <4> QED
        BY <4>1, <4>2 DEF Fits, Steps, Over
    <3> QED
      BY <3>1 DEF Free
  <2>3. ~rec[p].rolled_back /\ completed[p] = 0
    BY <1>1, <2>1, <2>2 DEF CleanAt, OpenAt
  <2>4. p \notin pending /\ Undeployed(p) /\ Undeployed(p)' /\ DeployedOnce(p)'
    BY <1>1, <2>1, <2>2, EventsStay DEF CleanAt, GateAt, Free
  <2> QED
    BY <2>1, <2>2, <2>3, <2>4 DEF CleanAt, AloneAt, OpenAt, GateAt, Free, Waiting
<1> QED
  BY <1>1, OneClean

\* A thread takes up a proposal nobody holds, at the step its stage calls for.
LEMMA TakeUpClean ==
  ASSUME TypeOK, CleanInv, NEW p \in Proposals, NEW t \in Threads, NEW s,
         thread[t] = Idle, TakeUp(t, s, p), p \in active \/ t = Ticker,
         s \notin {"deployed", "marking"},
         ~rec[p].rolled_back => Fits(s, rec[p]),
         s = "entering" => rec[p].class # "CLASS_A" /\ t = Ticker,
         s = "deploying" => rec[p].class = "CLASS_A",
         UNCHANGED <<rec, active, completed, pending, events>>
  PROVE  CleanInv'
<1>1. ASSUME p \notin shared', CleanAt(p) PROVE CleanAt(p)'
  <2>1. /\ \A u \in Threads : thread[u].on # p
        /\ p \in active
        /\ \A u \in Threads : thread'[u].on = p <=> u = t
        /\ thread'[t].step = s
    BY <1>1, TakeUpAlone DEF TypeOK
  <2>2. /\ rec[p].stage \in Waiting /\ ~rec[p].rolled_back /\ completed[p] = 0
    BY <1>1, <2>1 DEF CleanAt, OpenAt, Free
  <2>3. Undeployed(p) /\ Undeployed(p)' /\ DeployedOnce(p)'
    BY <1>1, <2>1, <2>2, EventsStay DEF CleanAt, GateAt, Waiting
  <2>4. OpenAt(p)'
    BY <1>1, <2>1, <2>2 DEF OpenAt, Free, Waiting
  <2>5. GateAt(p)'
    BY <1>1, <2>1, <2>3 DEF GateAt, CleanAt
  <2> QED
    BY <2>1, <2>4, <2>5 DEF CleanAt, AloneAt
<1>2. /\ shared \subseteq shared'
      /\ \A q \in Proposals \ {p} : \A u \in Threads :
           thread'[u].on = q \/ thread[u].on = q => thread'[u] = thread[u]
  BY MoveIsAbout DEF TypeOK
<1> QED
  BY <1>1, <1>2, OneClean

LEMMA TickTakesUpClean ==
  ASSUME TypeOK, CleanInv, NEW p \in Proposals, TickTakesUp(p)
  PROVE  CleanInv'
<1>1. /\ Ticker \in Threads /\ thread[Ticker] = Idle
      /\ UNCHANGED <<rec, active, completed, pending, events>>
  BY DEF TickTakesUp, Takes, Threads, records, engines
<1>2. PICK s : /\ TakeUp(Ticker, s, p)
               /\ \/ s = "approving" /\ rec[p].stage = "GOV_REVIEW"
                  \/ s = "auditing" /\ rec[p].stage = "PROMOTED"
                  \/ s = "deploying" /\ rec[p].stage = "REPLAY_AUDIT"
                     /\ rec[p].class = "CLASS_A"
                  \/ s = "entering" /\ rec[p].stage = "REPLAY_AUDIT"
                     /\ rec[p].class # "CLASS_A"
  BY DEF TickTakesUp
<1>3. ~rec[p].rolled_back => Fits(s, rec[p])
  BY <1>2 DEF Fits
<1> QED
  BY <1>1, <1>2, <1>3, TakeUpClean

LEMMA ReviewClean ==
  ASSUME TypeOK, CleanInv, NEW p \in Proposals, NEW t \in Operators, Review(t, p)
  PROVE  CleanInv'
<1>1. /\ t \in Threads /\ thread[t] = Idle /\ p \in active
      /\ rec[p].stage = "GOV_REVIEW"
      /\ UNCHANGED <<rec, active, completed, pending, events>>
  BY DEF Review, Threads, records, engines
<1>2. PICK s \in {"approving", "rejecting"} : TakeUp(t, s, p)
  BY DEF Review
<1>3. ~rec[p].rolled_back => Fits(s, rec[p])
  BY <1>1, <1>2 DEF Fits
<1> QED
  BY <1>1, <1>2, <1>3, TakeUpClean

LEMMA RollBackClean ==
  ASSUME TypeOK, CleanInv, NEW p \in Proposals, NEW t \in Operators, RollBack(t, p)
  PROVE  CleanInv'
<1>1. /\ t \in Threads /\ thread[t] = Idle /\ p \in active
      /\ rec[p].stage \in {"PROMOTED", "REPLAY_AUDIT"}
      /\ TakeUp(t, "rolling_back", p)
      /\ UNCHANGED <<rec, active, completed, pending, events>>
  BY DEF RollBack, Threads, records, engines
<1>2. ~rec[p].rolled_back => Fits("rolling_back", rec[p])
  BY <1>1 DEF Fits
<1> QED
  BY <1>1, <1>2, TakeUpClean

\* Nobody holds a record that the tests have just failed.
LEMMA FailedTestClean ==
  ASSUME TypeOK, CleanInv, NEW p \in Proposals, FailedTest(p)
  PROVE  CleanInv'
<1>1. /\ Ticker \in Threads /\ thread[Ticker] = Idle
      /\ rec[p].stage \in {"SANDBOX", "SIMULATION"}
      /\ Advance(p, "REJECTED")
      /\ TakeUp(Ticker, "closing", p)
      /\ UNCHANGED <<active, completed, pending, events>>
  BY DEF FailedTest, Takes, Threads, engines
<1>2. /\ \A q \in Proposals \ {p} : rec'[q] = rec[q]
      /\ rec'[p].stage = "REJECTED"
  BY <1>1, AdvanceAbout DEF TypeOK
<1>3. ASSUME p \notin shared', CleanAt(p) PROVE CleanAt(p)'
  <2>1. /\ \A u \in Threads : thread[u].on # p
        /\ p \in active
        /\ \A u \in Threads : thread'[u].on = p <=> u = Ticker
        /\ thread'[Ticker].step = "closing"
    BY <1>1, <1>3, TakeUpAlone DEF TypeOK
  <2>2. completed[p] = 0 /\ p \notin pending
    BY <1>1, <1>3, <2>1 DEF CleanAt, OpenAt, GateAt
  <2>3. Undeployed(p)' /\ DeployedOnce(p)'
    BY <1>1, <1>3, <2>1, EventsStay DEF CleanAt, GateAt
  <2>4. OpenAt(p)'
    BY <1>1, <1>2, <2>1, <2>2 DEF OpenAt, Free, Fits, Over
  <2>5. GateAt(p)'
    BY <1>1, <2>1, <2>2, <2>3 DEF GateAt
  <2> QED
    BY <1>1, <2>1, <2>4, <2>5 DEF CleanAt, AloneAt
<1>4. /\ shared \subseteq shared'
      /\ \A q \in Proposals \ {p} : \A u \in Threads :
           thread'[u].on = q \/ thread[u].on = q => thread'[u] = thread[u]
  BY <1>1, MoveIsAbout DEF TypeOK
<1> QED
  BY <1>1, <1>2, <1>3, <1>4, OneClean

\* An operator the gate lets through: the record waits, or was closed after a
\* rollback.
LEMMA ClearClean ==
  ASSUME TypeOK, CleanInv, NEW p \in Proposals, NEW t \in Operators, Clear(t, p)
  PROVE  CleanInv'
<1>1. /\ t \in Threads /\ t # Ticker /\ thread[t] = Idle
      /\ p \in pending /\ pending' = pending \ {p}
      /\ TakeUp(t, "deploying", p)
      /\ UNCHANGED <<rec, active, completed, events>>
  BY EvolutionConstantsOK DEF Clear, Threads, records
<1>2. ASSUME p \notin shared', CleanAt(p) PROVE CleanAt(p)'
  <2>1. /\ \A u \in Threads : thread[u].on # p
        /\ \A u \in Threads : thread'[u].on = p <=> u = t
        /\ thread'[t].step = "deploying"
    BY <1>1, <1>2, TakeUpAlone DEF TypeOK
  <2>2. /\ Undeployed(p)' /\ DeployedOnce(p)'
        /\ rec[p].stage \in {"REPLAY_AUDIT", "ROLLED_BACK"}
    BY <1>1, <1>2, EventsStay DEF CleanAt, GateAt
  <2>3. OpenAt(p)'
    BY <1>1, <1>2, <2>1, <2>2 DEF CleanAt, OpenAt, Free, Fits, Waiting
  <2>4. GateAt(p)'
    BY <1>1, <2>1, <2>2 DEF GateAt
  <2>5. p \notin active => Closed(p)'
    BY <1>1, <1>2, <2>1 DEF CleanAt, NeverSubmitted, Closed
  <2> QED
    BY <1>1, <2>1, <2>3, <2>4, <2>5 DEF CleanAt, AloneAt
<1>3. /\ shared \subseteq shared'
      /\ \A q \in Proposals \ {p} : \A u \in Threads :
           thread'[u].on = q \/ thread[u].on = q => thread'[u] = thread[u]
  BY <1>1, MoveIsAbout DEF TypeOK
<1> QED
  BY <1>1, <1>2, <1>3, OneClean

\* A thread between its check and its end holds an active record that fits.
LEMMA HolderIsActive ==
  ASSUME NEW p \in Proposals, CleanAt(p), NEW t \in Threads, NEW r, At(t, r, p),
         r \notin {"deploying", "deployed"}
  PROVE  p \in active /\ completed[p] = 0 /\ Fits(r, rec[p])
<1>1. thread[t].on = p /\ thread[t].step = r
  BY DEF At
<1>2. p \in active
  BY <1>1 DEF CleanAt, NeverSubmitted, Free, Closed
<1> QED
  BY <1>1, <1>2 DEF CleanAt, OpenAt

\* The steps between the check and the end that deploy nothing.
Middle == {"approving", "promoting", "rejecting", "rolling_back", "restored",
           "auditing", "audited", "entering"}

\* Who holds a record in the middle knows that it is not deployed.
LEMMA MiddleIsUndeployed ==
  ASSUME NEW p \in Proposals, CleanAt(p), NEW t \in Threads, NEW r \in Middle,
         At(t, r, p)
  PROVE  Undeployed(p)
<1>1. /\ p \in active /\ Fits(r, rec[p])
      /\ thread[t].on = p /\ thread[t].step = r
  BY HolderIsActive DEF Middle, At
<1>2. rec[p].stage # "DEPLOYED"
  BY <1>1 DEF Fits, Middle
<1>3. \A u \in Threads : thread[u].on = p => thread[u].step \notin {"deployed", "marking"}
  BY <1>1 DEF CleanAt, AloneAt, Middle
<1> QED
  BY <1>1, <1>2, <1>3 DEF CleanAt, GateAt

\* A thread in the middle goes on, to a step that fits what it made of the
\* record.
LEMMA GoOnClean ==
  ASSUME TypeOK, CleanInv, NEW p \in Proposals, NEW t \in Threads, NEW r \in Middle,
         NEW s \in {"promoting", "closing", "restored", "auditing", "audited"},
         At(t, r, p), GoOn(t, s),
         Fits(r, rec[p]) => Fits(s, rec'[p]) /\ rec'[p].stage # "none",
         Fits(r, rec[p]) /\ rec[p].stage \in {"REPLAY_AUDIT", "ROLLED_BACK"} =>
           rec'[p].stage \in {"REPLAY_AUDIT", "ROLLED_BACK"},
         rec'[p].class = rec[p].class,
         \A q \in Proposals \ {p} : rec'[q] = rec[q] /\ events'[q] = events[q],
         Undeployed(p)' <=> Undeployed(p),
         UNCHANGED <<active, completed, pending>>
  PROVE  CleanInv'
<1>1. ASSUME p \notin shared', CleanAt(p) PROVE CleanAt(p)'
  <2>1. /\ \A u \in Threads : thread[u].on = p <=> u = t
        /\ \A u \in Threads : thread'[u].on = p <=> u = t
        /\ thread[t].step = r /\ thread'[t].step = s
    BY <1>1, GoOnAlone DEF TypeOK, CleanAt
  <2>2. /\ p \in active /\ completed[p] = 0
        /\ Fits(r, rec[p]) /\ Fits(s, rec'[p]) /\ rec'[p].stage # "none"
    BY <1>1, HolderIsActive DEF Middle
  <2>3. Undeployed(p)' /\ DeployedOnce(p)'
    BY <1>1, MiddleIsUndeployed DEF Undeployed, DeployedOnce
  <2>4. OpenAt(p)'
    BY <2>1, <2>2 DEF OpenAt, Free
  <2>5. GateAt(p)'
    BY <1>1, <2>1, <2>2, <2>3 DEF CleanAt, GateAt
  <2> QED
    BY <2>1, <2>2, <2>4, <2>5 DEF CleanAt, AloneAt
<1>2. /\ shared \subseteq shared'
      /\ \A q \in Proposals \ {p} : \A u \in Threads :
           thread'[u].on = q \/ thread[u].on = q => thread'[u] = thread[u]
  BY MoveIsAbout DEF TypeOK
<1> QED
  BY <1>1, <1>2, OneClean

\* A thread in the middle is done and leaves a record that waits.
LEMMA DoneClean ==
  ASSUME TypeOK, CleanInv, NEW p \in Proposals, NEW t \in Threads, NEW r \in Middle,
         At(t, r, p), Done(t),
         Fits(r, rec[p]) => rec'[p].stage \in Waiting /\ ~rec'[p].rolled_back,
         Fits(r, rec[p]) /\ rec[p].stage \in {"REPLAY_AUDIT", "ROLLED_BACK"} =>
           rec'[p].stage \in {"REPLAY_AUDIT", "ROLLED_BACK"},
         rec'[p].class = rec[p].class,
         \A q \in Proposals \ {p} : rec'[q] = rec[q],
         pending' = IF r = "entering" THEN pending \cup {p} ELSE pending,
         UNCHANGED <<active, completed, events>>
  PROVE  CleanInv'
<1>1. ASSUME p \notin shared', CleanAt(p) PROVE CleanAt(p)'
  <2>1. /\ \A u \in Threads : thread[u].on = p <=> u = t
        /\ \A u \in Threads : thread'[u].on # p
        /\ thread[t].step = r
    BY <1>1, DoneAlone DEF TypeOK, CleanAt
  <2>2. /\ p \in active /\ completed[p] = 0 /\ Fits(r, rec[p])
        /\ rec'[p].stage \in Waiting /\ ~rec'[p].rolled_back
    BY <1>1, HolderIsActive DEF Middle
  <2>3. Undeployed(p)' /\ DeployedOnce(p)'
    BY <1>1, MiddleIsUndeployed, EventsStay DEF Undeployed, DeployedOnce
  <2>4. OpenAt(p)'
    BY <2>1, <2>2 DEF OpenAt, Free, Waiting
  <2>5. p \in pending' => /\ rec'[p].class # "CLASS_A"
                          /\ rec'[p].stage \in {"REPLAY_AUDIT", "ROLLED_BACK"}
    <3>1. CASE r = "entering"
      BY <1>1, <2>1, <2>2, <3>1 DEF CleanAt, GateAt, Fits
    <3>2. CASE r # "entering"
      BY <1>1, <2>2, <3>2 DEF CleanAt, GateAt
    <3> QED
      BY <3>1, <3>2
  <2>6. GateAt(p)'
    BY <2>1, <2>3, <2>5 DEF GateAt
  <2> QED
    BY <2>1, <2>2, <2>4, <2>6 DEF CleanAt, AloneAt
<1>2. /\ shared \subseteq shared'
      /\ \A q \in Proposals \ {p} : \A u \in Threads :
           thread'[u].on = q \/ thread[u].on = q => thread'[u] = thread[u]
  BY MoveIsAbout DEF TypeOK
<1> QED
  BY <1>1, <1>2, OneClean

LEMMA ApproveClean ==
  ASSUME TypeOK, CleanInv, NEW p \in Proposals, NEW t \in Threads, Approve(t, p)
  PROVE  CleanInv'
<1>1. /\ At(t, "approving", p) /\ GoOn(t, "promoting")
      /\ UNCHANGED <<rec, active, completed, pending, events>>
  BY DEF Approve, records
<1>2. Fits("approving", rec[p]) => Fits("promoting", rec[p]) /\ rec[p].stage # "none"
  BY DEF Fits
<1>3. Undeployed(p)' <=> Undeployed(p)
  BY <1>1, EventsStay
<1> QED
  BY <1>1, <1>2, <1>3, GoOnClean DEF Middle

LEMMA RejectClean ==
  ASSUME TypeOK, CleanInv, NEW p \in Proposals, NEW t \in Threads, Reject(t, p)
  PROVE  CleanInv'
<1>1. /\ At(t, "rejecting", p) /\ GoOn(t, "closing") /\ Advance(p, "REJECTED")
      /\ UNCHANGED <<active, completed, pending, events>>
  BY DEF Reject, engines
<1>2. /\ \A q \in Proposals \ {p} : rec'[q] = rec[q]
      /\ rec'[p].stage = "REJECTED" /\ rec'[p].class = rec[p].class
  BY <1>1, AdvanceAbout DEF TypeOK
<1>3. Fits("closing", rec'[p]) /\ rec'[p].stage # "none"
  BY <1>2 DEF Fits, Over
<1>4. Fits("rejecting", rec[p]) => rec[p].stage \notin {"REPLAY_AUDIT", "ROLLED_BACK"}
  BY DEF Fits
<1>5. Undeployed(p)' <=> Undeployed(p)
  BY <1>1, EventsStay
<1> QED
  BY <1>1, <1>2, <1>3, <1>4, <1>5, GoOnClean DEF Middle

\* A rollback adds no deployment.
LEMMA RestoreClean ==
  ASSUME TypeOK, CleanInv, NEW p \in Proposals, NEW t \in Threads, Restore(t, p)
  PROVE  CleanInv'
<1>1. /\ At(t, "rolling_back", p) /\ GoOn(t, "restored")
      /\ UNCHANGED <<rec, active, completed, pending>>
  BY DEF Restore, records
<1>2. PICK by \in {"key", "tombstone"} : Emit(p, "ROLLBACK", by)
  BY DEF Restore
<1> DEFINE row == [kind |-> "ROLLBACK", by |-> by]
<1>3. /\ \A q \in Proposals \ {p} : events'[q] = events[q]
      /\ events'[p] = Append(events[p], row)
      /\ events[p] \in Seq(Rows) /\ row \in Rows /\ row.kind # "DEPLOYED"
  <2>1. row \in Rows /\ row.kind # "DEPLOYED"
    BY DEF Rows
  <2> QED
    BY <1>2, <2>1, EmitFacts DEF TypeOK
<1> HIDE DEF row
<1>4. Undeployed(p)' <=> Undeployed(p)
  <2> DEFINE n == Len(events[p])
             k == Append(events[p], row)
  <2>1. /\ n \in Nat /\ DOMAIN events[p] = 1 .. n /\ DOMAIN k = 1 .. n + 1
        /\ k[n + 1] = row /\ \A i \in 1 .. n : k[i] = events[p][i]
    BY <1>3
  <2>2. \A i : i \in 1 .. n + 1 <=> i \in 1 .. n \/ i = n + 1
    BY <2>1
  <2> HIDE DEF k, n
  <2>3. (\A i \in DOMAIN k : k[i].kind # "DEPLOYED")
          <=> \A i \in DOMAIN events[p] : events[p][i].kind # "DEPLOYED"
    BY <1>3, <2>1, <2>2
  <2> QED
    BY <1>3, <2>3 DEF Undeployed, k
<1>5. /\ Fits("rolling_back", rec[p]) => Fits("restored", rec[p])
      /\ Fits("rolling_back", rec[p]) => rec[p].stage # "none"
  BY DEF Fits
<1> QED
  BY <1>1, <1>3, <1>4, <1>5, GoOnClean DEF Middle

LEMMA MarkRolledBackClean ==
  ASSUME TypeOK, CleanInv, NEW p \in Proposals, NEW t \in Threads, MarkRolledBack(t, p)
  PROVE  CleanInv'
<1>1. /\ At(t, "restored", p) /\ GoOn(t, "auditing")
      /\ rec' = [rec EXCEPT ![p].stage = "ROLLED_BACK", ![p].rolled_back = TRUE]
      /\ UNCHANGED <<active, completed, pending, events>>
  BY DEF MarkRolledBack, engines
<1>2. /\ \A q \in Proposals \ {p} : rec'[q] = rec[q]
      /\ rec'[p].stage = "ROLLED_BACK" /\ rec'[p].class = rec[p].class
      /\ rec'[p].rolled_back = TRUE
  BY <1>1 DEF TypeOK, Records
<1>3. Fits("auditing", rec'[p]) /\ rec'[p].stage # "none"
  BY <1>2 DEF Fits
<1>4. Undeployed(p)' <=> Undeployed(p)
  BY <1>1, EventsStay
<1> QED
  BY <1>1, <1>2, <1>3, <1>4, GoOnClean DEF Middle

LEMMA AuditClean ==
  ASSUME TypeOK, CleanInv, NEW p \in Proposals, NEW t \in Threads, Audit(t, p)
  PROVE  CleanInv'
<1>1. /\ At(t, "auditing", p) /\ GoOn(t, "audited") /\ Advance(p, "REPLAY_AUDIT")
      /\ UNCHANGED <<active, completed, pending, events>>
  BY DEF Audit, engines
<1>2. /\ \A q \in Proposals \ {p} : rec'[q] = rec[q]
      /\ rec'[p].stage = "REPLAY_AUDIT" /\ rec'[p].class = rec[p].class
  BY <1>1, AdvanceAbout DEF TypeOK
<1>3. Fits("audited", rec'[p]) /\ rec'[p].stage # "none"
  BY <1>2 DEF Fits
<1>4. Undeployed(p)' <=> Undeployed(p)
  BY <1>1, EventsStay
<1> QED
  BY <1>1, <1>2, <1>3, <1>4, GoOnClean DEF Middle

LEMMA AfterAuditClean ==
  ASSUME TypeOK, CleanInv, NEW p \in Proposals, NEW t \in Threads, AfterAudit(t, p)
  PROVE  CleanInv'
<1>1. /\ At(t, "audited", p)
      /\ UNCHANGED <<rec, active, completed, pending, events>>
  BY DEF AfterAudit, records, engines
<1>2. Undeployed(p)' <=> Undeployed(p)
  BY <1>1, EventsStay
<1>3. CASE rec[p].rolled_back
  <2>1. GoOn(t, "closing")
    BY <1>3 DEF AfterAudit
  <2>2. Fits("audited", rec[p]) => Fits("closing", rec[p]) /\ rec[p].stage # "none"
    BY <1>3 DEF Fits, Over
  <2> QED
    BY <1>1, <1>2, <2>1, <2>2, GoOnClean DEF Middle
<1>4. CASE ~rec[p].rolled_back
  <2>1. Done(t)
    BY <1>4 DEF AfterAudit
  <2>2. Fits("audited", rec[p]) => rec[p].stage \in Waiting
    BY DEF Fits, Waiting
  <2> QED
    BY <1>1, <1>4, <2>1, <2>2, DoneClean DEF Middle
<1> QED
  BY <1>3, <1>4

LEMMA PromoteClean ==
  ASSUME TypeOK, CleanInv, NEW p \in Proposals, NEW t \in Threads, Promote(t, p)
  PROVE  CleanInv'
<1>1. /\ At(t, "promoting", p) /\ Done(t) /\ Advance(p, "PROMOTED")
      /\ UNCHANGED <<active, completed, pending, events>>
  BY DEF Promote, engines
<1>2. /\ \A q \in Proposals \ {p} : rec'[q] = rec[q]
      /\ rec'[p].stage = "PROMOTED" /\ rec'[p].class = rec[p].class
      /\ rec'[p].rolled_back = rec[p].rolled_back
  BY <1>1, AdvanceAbout DEF TypeOK
<1>3. Fits("promoting", rec[p]) =>
        rec[p].stage \notin {"REPLAY_AUDIT", "ROLLED_BACK"} /\ ~rec[p].rolled_back
  BY DEF Fits
<1>4. rec'[p].stage \in Waiting
  BY <1>2 DEF Waiting
<1> QED
  BY <1>1, <1>2, <1>3, <1>4, DoneClean DEF Middle

LEMMA EnterClean ==
  ASSUME TypeOK, CleanInv, NEW p \in Proposals, NEW t \in Threads, Enter(t, p)
  PROVE  CleanInv'
<1>1. /\ At(t, "entering", p) /\ Done(t) /\ pending' = pending \cup {p}
      /\ UNCHANGED <<rec, active, completed, events>>
  BY DEF Enter, records
<1>2. Fits("entering", rec[p]) => rec[p].stage \in Waiting /\ ~rec[p].rolled_back
  BY DEF Fits, Waiting
<1> QED
  BY <1>1, <1>2, DoneClean DEF Middle

\* The one deployment: whoever makes it, nobody else waits or is about to.
LEMMA DeployClean ==
  ASSUME TypeOK, CleanInv, NEW p \in Proposals, NEW t \in Threads, Deploy(t, p)
  PROVE  CleanInv'
<1>1. /\ At(t, "deploying", p) /\ GoOn(t, "deployed")
      /\ Emit(p, "DEPLOYED", By(t)) /\ [kind |-> "DEPLOYED", by |-> By(t)] \in Rows
      /\ UNCHANGED <<rec, active, completed, pending>>
  BY DEF Deploy, records, By, Rows
<1> DEFINE row == [kind |-> "DEPLOYED", by |-> By(t)]
           n == Len(events[p])
           k == Append(events[p], row)
<1>2. \A q \in Proposals \ {p} : events'[q] = events[q]
  BY <1>1, EmitFacts DEF TypeOK
<1>3. events'[p] = k
  BY <1>1, EmitFacts DEF TypeOK
<1>4. /\ n \in Nat /\ DOMAIN events[p] = 1 .. n /\ DOMAIN k = 1 .. n + 1
      /\ \A i \in 1 .. n : k[i] = events[p][i]
  <2>1. events[p] \in Seq(Rows)
    BY DEF TypeOK
  <2> QED
    BY <2>1
<1> HIDE DEF k, n, row
<1>5. ASSUME p \notin shared', CleanAt(p) PROVE CleanAt(p)'
  <2>1. /\ \A u \in Threads : thread[u].on = p <=> u = t
        /\ \A u \in Threads : thread'[u].on = p <=> u = t
        /\ thread[t].step = "deploying" /\ thread'[t].step = "deployed"
    BY <1>1, <1>5, GoOnAlone DEF TypeOK, CleanAt
  <2>2. Undeployed(p) /\ p \notin pending
    BY <1>5, <2>1 DEF CleanAt, GateAt
  <2>3. DeployedOnce(p)'
    <3>1. \A i \in 1 .. n : k[i].kind # "DEPLOYED"
      BY <1>4, <2>2 DEF Undeployed
    <3>2. \A i : i \in 1 .. n + 1 => i \in 1 .. n \/ i = n + 1
      BY <1>4
    <3>3. \A i \in DOMAIN k : k[i].kind = "DEPLOYED" => i = n + 1
      BY <1>4, <3>1, <3>2
    <3> QED
      BY <1>3, <3>3 DEF DeployedOnce
  <2>4. OpenAt(p)'
    BY <1>1, <1>5, <2>1 DEF CleanAt, OpenAt, Free, Fits
  <2>5. GateAt(p)'
    BY <1>1, <2>1, <2>2, <2>3 DEF GateAt
  <2>6. p \notin active => Closed(p)'
    BY <1>1, <1>5, <2>1 DEF CleanAt, NeverSubmitted, Free, Closed
  <2> QED
    BY <1>1, <2>1, <2>4, <2>5, <2>6 DEF CleanAt, AloneAt
<1>6. /\ shared \subseteq shared'
      /\ \A q \in Proposals \ {p} : \A u \in Threads :
           thread'[u].on = q \/ thread[u].on = q => thread'[u] = thread[u]
  BY <1>1, MoveIsAbout DEF TypeOK
<1> QED
  BY <1>1, <1>2, <1>5, <1>6, OneClean

LEMMA MarkDeployedClean ==
  ASSUME TypeOK, CleanInv, NEW p \in Proposals, NEW t \in Threads, MarkDeployed(t, p)
  PROVE  CleanInv'
<1> DEFINE r == IF t = Ticker THEN "deployed" ELSE "marking"
<1>1. /\ At(t, r, p) /\ GoOn(t, "closing") /\ Advance(p, "DEPLOYED")
      /\ UNCHANGED <<active, completed, pending, events>>
  BY DEF MarkDeployed, engines
<1>2. /\ \A q \in Proposals \ {p} : rec'[q] = rec[q]
      /\ rec'[p].stage = "DEPLOYED" /\ rec'[p].class = rec[p].class
  BY <1>1, AdvanceAbout DEF TypeOK
<1>3. ASSUME p \notin shared', CleanAt(p) PROVE CleanAt(p)'
  <2>1. /\ \A u \in Threads : thread[u].on = p <=> u = t
        /\ \A u \in Threads : thread'[u].on = p <=> u = t
        /\ thread[t].step = r /\ thread'[t].step = "closing"
    BY <1>1, <1>3, GoOnAlone DEF TypeOK, CleanAt
  <2>2. p \in active
    BY <1>3, <2>1 DEF CleanAt, NeverSubmitted, Free, Closed
  <2>3. completed[p] = 0
    BY <1>3, <2>2 DEF CleanAt, OpenAt
  <2>4. p \notin pending /\ DeployedOnce(p)'
    BY <1>1, <1>3, <2>1, EventsStay DEF CleanAt, GateAt
  <2>5. OpenAt(p)'
    BY <1>1, <1>2, <2>1, <2>2, <2>3 DEF OpenAt, Free, Fits, Over
  <2>6. GateAt(p)'
    BY <1>1, <1>2, <2>1, <2>4 DEF GateAt
  <2> QED
    BY <1>1, <2>1, <2>2, <2>5, <2>6 DEF CleanAt, AloneAt
<1>4. /\ shared \subseteq shared'
      /\ \A q \in Proposals \ {p} : \A u \in Threads :
           thread'[u].on = q \/ thread[u].on = q => thread'[u] = thread[u]
  BY <1>1, MoveIsAbout DEF TypeOK
<1> QED
  BY <1>1, <1>2, <1>3, <1>4, OneClean

\* The deployment is there, and the record still is: it waits to be marked.
LEMMA LearnClean ==
  ASSUME TypeOK, CleanInv, NEW p \in Proposals, NEW t \in Threads, Learn(t, p)
  PROVE  CleanInv'
<1>1. /\ At(t, "deployed", p) /\ GoOn(t, "marking") /\ p \in active
      /\ UNCHANGED <<rec, active, completed, pending, events>>
  BY DEF Learn, records, engines
<1>2. ASSUME p \notin shared', CleanAt(p) PROVE CleanAt(p)'
  <2>1. /\ \A u \in Threads : thread[u].on = p <=> u = t
        /\ \A u \in Threads : thread'[u].on = p <=> u = t
        /\ thread[t].step = "deployed" /\ thread'[t].step = "marking"
    BY <1>1, <1>2, GoOnAlone DEF TypeOK, CleanAt
  <2>2. p \notin pending /\ DeployedOnce(p)'
    BY <1>1, <1>2, <2>1, EventsStay DEF CleanAt, GateAt
  <2>3. OpenAt(p)'
    BY <1>1, <1>2, <2>1 DEF CleanAt, OpenAt, Free, Fits
  <2>4. GateAt(p)'
    BY <1>1, <2>1, <2>2 DEF GateAt
  <2> QED
    BY <1>1, <2>1, <2>3, <2>4 DEF CleanAt, AloneAt
<1>3. /\ shared \subseteq shared'
      /\ \A q \in Proposals \ {p} : \A u \in Threads :
           thread'[u].on = q \/ thread[u].on = q => thread'[u] = thread[u]
  BY <1>1, MoveIsAbout DEF TypeOK
<1> QED
  BY <1>1, <1>2, <1>3, OneClean

LEMMA DeployedGoneClean ==
  ASSUME TypeOK, CleanInv, NEW p \in Proposals, NEW t \in Threads, DeployedGone(t, p)
  PROVE  CleanInv'
<1>1. /\ At(t, "deployed", p) /\ Done(t) /\ p \notin active
      /\ UNCHANGED <<rec, active, completed, pending, events>>
  BY DEF DeployedGone, records, engines
<1>2. ASSUME p \notin shared', CleanAt(p) PROVE CleanAt(p)'
  <2>1. /\ \A u \in Threads : thread[u].on = p <=> u = t
        /\ \A u \in Threads : thread'[u].on # p
    BY <1>1, <1>2, DoneAlone DEF TypeOK, CleanAt
  <2>2. Closed(p)'
    BY <1>1, <1>2, <2>1 DEF CleanAt, NeverSubmitted, Free, Closed
  <2>3. GateAt(p)'
    <3>1. /\ Undeployed(p)' <=> Undeployed(p)
          /\ DeployedOnce(p)' <=> DeployedOnce(p)
      BY <1>1, EventsStay
    <3> QED
      BY <1>1, <1>2, <2>1, <3>1 DEF CleanAt, GateAt
  <2> QED
    BY <1>1, <2>1, <2>2, <2>3 DEF CleanAt, AloneAt, OpenAt
<1>3. /\ shared \subseteq shared'
      /\ \A q \in Proposals \ {p} : \A u \in Threads :
           thread'[u].on = q \/ thread[u].on = q => thread'[u] = thread[u]
  BY <1>1, MoveIsAbout DEF TypeOK
<1> QED
  BY <1>1, <1>2, <1>3, OneClean

\* The one closing.
LEMMA CloseClean ==
  ASSUME TypeOK, CleanInv, NEW p \in Proposals, NEW t \in Threads, Close(t, p)
  PROVE  CleanInv'
<1>1. /\ At(t, "closing", p) /\ Done(t)
      /\ active' = active \ {p}
      /\ completed' = [completed EXCEPT ![p] = completed[p] + 1]
      /\ UNCHANGED <<rec, pending, events>>
  BY DEF Close, engines
<1>2. ASSUME p \notin shared', CleanAt(p) PROVE CleanAt(p)'
  <2>1. /\ \A u \in Threads : thread[u].on = p <=> u = t
        /\ \A u \in Threads : thread'[u].on # p
        /\ thread[t].step = "closing"
    BY <1>1, <1>2, DoneAlone DEF TypeOK, CleanAt
  <2>2. p \in active /\ completed[p] = 0 /\ Over(rec[p])
    BY <1>1, <1>2, HolderIsActive DEF Fits
  <2>3. Closed(p)'
    BY <1>1, <2>1, <2>2 DEF TypeOK, Closed
  <2>4. GateAt(p)'
    <3>1. /\ Undeployed(p)' <=> Undeployed(p)
          /\ DeployedOnce(p)' <=> DeployedOnce(p)
      BY <1>1, EventsStay
    <3> QED
      BY <1>1, <1>2, <2>1, <3>1 DEF CleanAt, GateAt
  <2> QED
    BY <1>1, <2>1, <2>3, <2>4 DEF CleanAt, AloneAt, OpenAt
<1>3. /\ shared \subseteq shared'
      /\ \A q \in Proposals \ {p} : \A u \in Threads :
           thread'[u].on = q \/ thread[u].on = q => thread'[u] = thread[u]
  BY <1>1, MoveIsAbout DEF TypeOK
<1>4. \A q \in Proposals \ {p} : completed'[q] = completed[q]
  BY <1>1 DEF TypeOK
<1> QED
  BY <1>1, <1>2, <1>3, <1>4, OneClean

\* The tests, the benchmark and the opening of the review.
LEMMA TestsClean ==
  ASSUME TypeOK, CleanInv, NEW p \in Proposals,
         \/ \E outcome \in Outcomes : Sandboxed(p, outcome) \/ Simulated(p, outcome)
         \/ Benchmarked(p) \/ ReviewOpens(p)
  PROVE  CleanInv'
<1>1. UNCHANGED <<active, completed, pending, events, thread, shared>>
  BY DEF Sandboxed, Simulated, Benchmarked, ReviewOpens, engines
<1>2. rec[p].stage \in {"PROPOSED", "SANDBOX", "SIMULATION", "BENCHMARK"}
  BY DEF Sandboxed, Simulated, Benchmarked, ReviewOpens
<1>3. /\ rec'[p].stage \in {"SANDBOX", "SIMULATION", "BENCHMARK", "GOV_REVIEW"}
      /\ rec'[p].rolled_back = rec[p].rolled_back
      /\ \A q \in Proposals \ {p} : rec'[q] = rec[q]
  <2>1. ASSUME NEW outcome \in Outcomes, Sandboxed(p, outcome)
        PROVE  /\ rec'[p] = [rec[p] EXCEPT !.stage = "SANDBOX", !.sandbox = outcome]
               /\ \A q \in Proposals \ {p} : rec'[q] = rec[q]
    BY <2>1 DEF Sandboxed, TypeOK
  <2>2. ASSUME NEW outcome \in Outcomes, Simulated(p, outcome)
        PROVE  /\ rec'[p] = [rec[p] EXCEPT !.stage = "SIMULATION",
                                          !.simulation = outcome]
               /\ \A q \in Proposals \ {p} : rec'[q] = rec[q]
    BY <2>2 DEF Simulated, TypeOK
  <2>3. ASSUME NEW s \in {"BENCHMARK", "GOV_REVIEW"}, Advance(p, s)
        PROVE  /\ rec'[p].stage = s
               /\ rec'[p].rolled_back = rec[p].rolled_back
               /\ \A q \in Proposals \ {p} : rec'[q] = rec[q]
    BY <2>3, AdvanceAbout DEF TypeOK
  <2>4. rec[p] \in Records
    BY DEF TypeOK
  <2>5. CASE \E outcome \in Outcomes : Sandboxed(p, outcome) \/ Simulated(p, outcome)
    BY <2>1, <2>2, <2>4, <2>5 DEF Records
  <2>6. CASE Benchmarked(p) \/ ReviewOpens(p)
    BY <2>3, <2>6 DEF Benchmarked, ReviewOpens
  <2> QED
    BY <2>5, <2>6
<1> QED
  BY <1>1, <1>2, <1>3, EarlyClean

LEMMA QuietClean ==
  ASSUME CleanInv, UNCHANGED <<records, engines, thread, shared>>
  PROVE  CleanInv'
<1> SUFFICES ASSUME NEW q \in Proposals, q \notin shared PROVE CleanAt(q)'
  BY DEF CleanInv
<1> QED
  BY OthersClean DEF CleanInv, records, engines

LEMMA InitClean == Init => CleanInv
<1> SUFFICES ASSUME Init, NEW p \in Proposals PROVE CleanAt(p)
  BY DEF CleanInv
<1>1. /\ rec[p] = NoRecord /\ active = {} /\ pending = {} /\ completed[p] = 0
      /\ events[p] = <<>> /\ \A t \in Threads : thread[t].on = None
  BY DEF Init, Idle
<1>2. DOMAIN <<>> = {} /\ p # None
  BY EvolutionConstantsOK
<1>3. Undeployed(p) /\ DeployedOnce(p) /\ Free(p)
  BY <1>1, <1>2 DEF Undeployed, DeployedOnce, Free
<1> QED
  BY <1>1, <1>3 DEF CleanAt, AloneAt, OpenAt, GateAt, NeverSubmitted, Free

LEMMA NextClean == TypeOK /\ CleanInv /\ [Next]_vars => CleanInv'
<1> SUFFICES ASSUME TypeOK, CleanInv, [Next]_vars PROVE CleanInv'
  OBVIOUS
<1>0. CASE UNCHANGED vars
  BY <1>0, QuietClean DEF vars
<1>1. CASE Next
  <2>1. PICK p \in Proposals : Next!(p)
    BY <1>1 DEF Next
  <2>2. TickStarts \/ TickSkips(p) => CleanInv'
    BY QuietClean DEF TickStarts, TickSkips
  <2> QED
    BY <2>1, <2>2, SubmitClean, TestsClean, FailedTestClean, TickTakesUpClean,
       ReviewClean, RollBackClean, ClearClean, ApproveClean, PromoteClean,
       RejectClean, RestoreClean, MarkRolledBackClean, AuditClean, AfterAuditClean,
       EnterClean, DeployClean, LearnClean, DeployedGoneClean, MarkDeployedClean,
       CloseClean
<1> QED
  BY <1>0, <1>1

\* One deployment in the history is one deployment counted.
LEMMA OnceCounted ==
  ASSUME TypeOK, NEW p \in Proposals, DeployedOnce(p)
  PROVE  Count("DEPLOYED", p, "AUTO") + Count("DEPLOYED", p, "OPERATOR") <= 1
<1> DEFINE es == events[p]
           A == {i \in DOMAIN es : es[i] = [kind |-> "DEPLOYED", by |-> "AUTO"]}
           B == {i \in DOMAIN es : es[i] = [kind |-> "DEPLOYED", by |-> "OPERATOR"]}
<1>1. /\ \A i \in A : es[i].kind = "DEPLOYED" /\ es[i].by = "AUTO"
      /\ \A i \in B : es[i].kind = "DEPLOYED" /\ es[i].by = "OPERATOR"
      /\ A \subseteq DOMAIN es /\ B \subseteq DOMAIN es
  OBVIOUS
<1>2. \A i, j \in DOMAIN es :
        es[i].kind = "DEPLOYED" /\ es[j].kind = "DEPLOYED" => i = j
  BY DEF DeployedOnce
<1>3. /\ Count("DEPLOYED", p, "AUTO") = Cardinality(A)
      /\ Count("DEPLOYED", p, "OPERATOR") = Cardinality(B)
  BY DEF Count
<1> HIDE DEF A, B, es
<1>4. \/ A = {} /\ B = {}
      \/ A = {} /\ \E i : B = {i}
      \/ B = {} /\ \E i : A = {i}
  <2>1. \A i, j \in A \cup B : i = j
    BY <1>1, <1>2
  <2>2. A \cap B = {}
    BY <1>1
  <2> QED
    BY <2>1, <2>2
<1>5. Cardinality({}) = 0 /\ \A i : Cardinality({i}) = 1
  BY FS_EmptySet, FS_Singleton
<1> QED
  BY <1>3, <1>4, <1>5

\* Where threads have taken turns on a proposal it is closed once, at an end,
\* and deployed at most once: every double closing, deployment or resurrection
\* needs two threads at a time or a tick with a copy older than the closing.
THEOREM TurnsCloseOnce == Spec => []TurnsAreClean
<1>1. Init => TypeOK /\ CleanInv
  BY InitSafe, InitClean DEF Inv
<1>2. TypeOK /\ CleanInv /\ [Next]_vars => (TypeOK /\ CleanInv)'
  BY NextType, NextClean
<1>3. TypeOK /\ CleanInv => TurnsAreClean
  <2> SUFFICES ASSUME TypeOK, NEW p \in Proposals, CleanAt(p)
               PROVE  /\ completed[p] <= 1
                      /\ p \in active \/ rec[p] = NoRecord <=> completed[p] = 0
                      /\ completed[p] = 1 => Over(rec[p])
                      /\ Count("DEPLOYED", p, "AUTO")
                           + Count("DEPLOYED", p, "OPERATOR") <= 1
    BY DEF TurnsAreClean, CleanInv, Over
  <2>1. /\ p \in active => completed[p] = 0 /\ rec[p] # NoRecord
        /\ p \notin active => \/ completed[p] = 0 /\ rec[p] = NoRecord
                              \/ completed[p] = 1 /\ Over(rec[p])
    BY NoRecordFacts DEF CleanAt, OpenAt, NeverSubmitted, Closed
  <2>2. Over(rec[p]) => rec[p] # NoRecord
    BY NoRecordFacts DEF Over
  <2>3. Count("DEPLOYED", p, "AUTO") + Count("DEPLOYED", p, "OPERATOR") <= 1
    BY OnceCounted DEF CleanAt, GateAt
  <2> QED
    BY <2>1, <2>2, <2>3
<1> QED
  BY <1>1, <1>2, <1>3, PTL DEF Spec
=============================================================================

------------------------------ MODULE ApprovalEdge ------------------------------
(***************************************************************************)
(* The operator-approval edge of the cognitive chat: a queue of proposals, *)
(* the threads of the HTTP pool that submit, approve and reject them, the  *)
(* audit ledger their decisions are written to, and the bus that carries   *)
(* the signal of an approved proposal.                                     *)
(*                                                                         *)
(* Only the queue's own methods are atomic: a chat turn, an approval and a *)
(* rejection each take several steps, and the threads interleave between   *)
(* them.  An append and an emission may raise.  A restart rebuilds the     *)
(* queue from the ledger.                                                  *)
(***************************************************************************)
EXTENDS Naturals, Sequences, FiniteSetsExt

CONSTANTS
  Approvals,   \* approval ids (uuid4: never drawn twice)
  Threads,     \* threads of the HTTP pool
  None,        \* no approval
  AutoApprove, \* operator_attention and approval_edge are wired into the chat
  MaxBoots     \* bound on the boots explored

ASSUME ApprovalConstantsOK ==
  /\ None \notin Approvals
  /\ AutoApprove \in BOOLEAN
  /\ MaxBoots \in Nat

VARIABLES
  queue,  \* ApprovalQueue._rows: the status of each approval
  ledger, \* the OPERATOR_* rows of the audit ledger (durable)
  bus,    \* history: the signals emitted, each with the row that allowed it
  thread, \* where each thread is
  alive,  \* the process runs
  boots   \* boots so far

vars == <<queue, ledger, bus, thread, alive, boots>>
-----------------------------------------------------------------------------
Verdicts == {"APPROVED", "REJECTED"}

Statuses == {"none", "PENDING"} \cup Verdicts

Rows == [kind : {"PENDING"} \cup Verdicts, id : Approvals]

Idle == [step |-> "idle", id |-> None, verdict |-> "REJECTED", row |-> 0]

\* A thread that still has to do something about an approval.
Working(step, id, verdict, row) ==
  [step |-> step, id |-> id, verdict |-> verdict, row |-> row]

Goto(t, step) == thread' = [thread EXCEPT ![t].step = step]

Finish(t) == thread' = [thread EXCEPT ![t] = Idle]

(***************************************************************************)
(* projection_rows_from_payloads: the status the ledger gives an approval. *)
(* The first decision after the PENDING row counts; a decision before it   *)
(* or after another one is skipped.                                        *)
(***************************************************************************)
PendingRows(id) ==
  {i \in DOMAIN ledger : ledger[i].id = id /\ ledger[i].kind = "PENDING"}

DecisionRows(id) ==
  {i \in DOMAIN ledger : ledger[i].id = id /\ ledger[i].kind \in Verdicts}

LaterDecisions(id) ==
  {i \in DecisionRows(id) : \E p \in PendingRows(id) : p < i}

Projection(id) ==
  IF PendingRows(id) = {} THEN "none"
  ELSE IF LaterDecisions(id) = {} THEN "PENDING"
  ELSE ledger[Min(LaterDecisions(id))].kind

\* Mutant: the PENDING rows are replayed and the decisions are not.
Rehydrated_PendingOnly ==
  [id \in Approvals |-> IF Projection(id) = "none" THEN "none" ELSE "PENDING"]

\* rehydrate_approval_queue_from_ledger
Rehydrated == [id \in Approvals |-> Projection(id)]

Init ==
  /\ ledger = <<>>
  /\ queue = [id \in Approvals |-> "none"]
  /\ bus = <<>>
  /\ thread = [t \in Threads |-> Idle]
  /\ alive = TRUE
  /\ boots = 1
-----------------------------------------------------------------------------
(***************************************************************************)
(* A chat turn whose reply holds a proposal.                               *)
(***************************************************************************)
\* ApprovalQueue.submit: from here on the dashboard lists the proposal.
TurnSubmits(t, id) ==
  /\ alive
  /\ thread[t] = Idle
  /\ queue[id] = "none"
  /\ PendingRows(id) \cup DecisionRows(id) = {}
  /\ queue' = [queue EXCEPT ![id] = "PENDING"]
  /\ thread' = [thread EXCEPT ![t] = Working("submitted", id, "APPROVED", 0)]
  /\ UNCHANGED <<ledger, bus, alive, boots>>

\* OPERATOR_APPROVAL_PENDING; the turn goes on only where it may approve for
\* itself.
TurnRecords(t) ==
  /\ thread[t].step = "submitted"
  /\ ledger' = Append(ledger, [kind |-> "PENDING", id |-> thread[t].id])
  /\ IF AutoApprove THEN Goto(t, "pended") ELSE Finish(t)
  /\ UNCHANGED <<queue, bus, alive, boots>>

\* OperatorAttention.per_trade_required() answers TRUE.
TurnLeavesToOperator(t) ==
  /\ thread[t].step = "pended"
  /\ Finish(t)
  /\ UNCHANGED <<queue, ledger, bus, alive, boots>>

\* It answers FALSE: the turn calls ApprovalEdge.approve, whose snapshot may
\* find that an operator was faster.
TurnApproves(t) ==
  /\ thread[t].step = "pended"
  /\ IF queue[thread[t].id] = "PENDING" THEN Goto(t, "looked") ELSE Finish(t)
  /\ UNCHANGED <<queue, ledger, bus, alive, boots>>
-----------------------------------------------------------------------------
(***************************************************************************)
(* ApprovalEdge.approve and reject.                                        *)
(***************************************************************************)
\* The snapshot of the proposal, for an operator's request.  An unknown or a
\* decided id raises, and nothing changes.
Look(t, id, verdict) ==
  /\ alive
  /\ thread[t] = Idle
  /\ queue[id] = "PENDING"
  /\ thread' = [thread EXCEPT ![t] = Working("looked", id, verdict, 0)]
  /\ UNCHANGED <<queue, ledger, bus, alive, boots>>

\* Mutant: the snapshot is taken for the answer.
Decide_NoRecheck(t) ==
  /\ thread[t].step = "looked"
  /\ queue' = [queue EXCEPT ![thread[t].id] = thread[t].verdict]
  /\ Goto(t, "decided")
  /\ UNCHANGED <<ledger, bus, alive, boots>>

\* ApprovalQueue.decide looks again, under its lock.
Decide(t) ==
  /\ thread[t].step = "looked"
  /\ queue[thread[t].id] = "PENDING"
  /\ queue' = [queue EXCEPT ![thread[t].id] = thread[t].verdict]
  /\ Goto(t, "decided")
  /\ UNCHANGED <<ledger, bus, alive, boots>>

\* ApprovalAlreadyDecidedError: another thread decided since the snapshot.
Refused(t) ==
  /\ thread[t].step = "looked"
  /\ queue[thread[t].id] # "PENDING"
  /\ Finish(t)
  /\ UNCHANGED <<queue, ledger, bus, alive, boots>>

\* Mutant: a rejection goes on to the emitter too.
Record_EmitsAll(t) ==
  /\ thread[t].step = "decided"
  /\ ledger' = Append(ledger, [kind |-> thread[t].verdict, id |-> thread[t].id])
  /\ thread' = [thread EXCEPT ![t].step = "recorded", ![t].row = Len(ledger')]
  /\ UNCHANGED <<queue, bus, alive, boots>>

\* Ledger first: OPERATOR_APPROVED_SIGNAL or OPERATOR_REJECTED_SIGNAL.  A
\* rejection ends here.
Record(t) ==
  /\ thread[t].step = "decided"
  /\ ledger' = Append(ledger, [kind |-> thread[t].verdict, id |-> thread[t].id])
  /\ IF thread[t].verdict = "APPROVED"
     THEN thread' = [thread EXCEPT ![t].step = "recorded",
                                   ![t].row = Len(ledger')]
     ELSE Finish(t)
  /\ UNCHANGED <<queue, bus, alive, boots>>

\* Mutant: the signal goes out whatever became of the row.
AppendRaises_Swallowed(t) ==
  /\ thread[t].step = "decided"
  /\ Goto(t, "recorded")
  /\ UNCHANGED <<queue, ledger, bus, alive, boots>>

\* The ledger raises: the request ends, and what it did to the queue stays.
AppendRaises(t) ==
  /\ thread[t].step \in {"submitted", "decided"}
  /\ Finish(t)
  /\ UNCHANGED <<queue, ledger, bus, alive, boots>>

\* Bus second: the signal goes through intelligence to execution.
Emit(t) ==
  /\ thread[t].step = "recorded"
  /\ bus' = Append(bus, [id |-> thread[t].id, row |-> thread[t].row])
  /\ Finish(t)
  /\ UNCHANGED <<queue, ledger, alive, boots>>

EmitRaises(t) ==
  /\ thread[t].step = "recorded"
  /\ Finish(t)
  /\ UNCHANGED <<queue, ledger, bus, alive, boots>>
-----------------------------------------------------------------------------
\* The process ends, wherever its threads are.
Exit ==
  /\ alive
  /\ alive' = FALSE
  /\ queue' = [id \in Approvals |-> "none"]
  /\ thread' = [t \in Threads |-> Idle]
  /\ UNCHANGED <<ledger, bus, boots>>

\* Mutant: the queue starts empty.
Boot_Empty ==
  /\ ~alive
  /\ boots < MaxBoots
  /\ alive' = TRUE
  /\ boots' = boots + 1
  /\ UNCHANGED <<queue, ledger, bus, thread>>

\* build_runtime creates the queue and replays the ledger into it.
Boot ==
  /\ ~alive
  /\ boots < MaxBoots
  /\ alive' = TRUE
  /\ boots' = boots + 1
  /\ queue' = Rehydrated
  /\ UNCHANGED <<ledger, bus, thread>>

Next ==
  \/ \E t \in Threads :
       \/ \E id \in Approvals :
            \/ TurnSubmits(t, id)
            \/ \E verdict \in Verdicts : Look(t, id, verdict)
       \/ TurnRecords(t) \/ TurnLeavesToOperator(t) \/ TurnApproves(t)
       \/ Decide(t) \/ Refused(t)
       \/ Record(t) \/ AppendRaises(t)
       \/ Emit(t) \/ EmitRaises(t)
  \/ Exit
  \/ Boot

Spec == Init /\ [][Next]_vars
-----------------------------------------------------------------------------
\* A thread works on an approval the queue holds, and holds a ledger row only
\* between the two halves of an approval.
TypeOK ==
  /\ queue \in [Approvals -> Statuses]
  /\ ledger \in Seq(Rows)
  /\ bus \in Seq([id : Approvals, row : Nat])
  /\ thread \in [Threads ->
       {Idle} \cup [step : {"submitted", "pended", "looked", "decided",
                            "recorded"},
                    id : Approvals, verdict : Verdicts, row : Nat]]
  /\ \A t \in Threads : thread[t] # Idle => queue[thread[t].id] # "none"
  /\ alive \in BOOLEAN
  /\ boots \in Nat

\* "Ledger first, bus second": each signal on the bus has an APPROVED row of
\* its own, whichever threads raced for the approval and wherever the process
\* stopped.
EmissionsAreRecorded ==
  \A i \in DOMAIN bus :
    /\ bus[i].row \in DOMAIN ledger
    /\ ledger[bus[i].row] = [kind |-> "APPROVED", id |-> bus[i].id]
    /\ \A j \in DOMAIN bus : bus[j].row = bus[i].row => j = i

\* What a restart would make of the ledger agrees with the queue of the
\* running process: a decision the ledger holds is the one the dashboard
\* shows, and a proposal it holds is one the dashboard lists.
RestartForgetsNoDecision ==
  alive => \A id \in Approvals :
    /\ Projection(id) \in Verdicts => queue[id] = Projection(id)
    /\ Projection(id) = "PENDING" => queue[id] # "none"

\* The duplicate the projection skips ("a chain anomaly") never exists: once
\* its PENDING row is written, an approval gets one decision row at most, over
\* all races and restarts.
OneDecisionAfterPending ==
  \A id \in Approvals : \A i, j \in LaterDecisions(id) : i = j

\* "The transition is one-way": a running process never revises a decision,
\* however many requests saw the row pending.
DecisionsStand ==
  [][alive /\ alive' => \A id \in Approvals :
       queue[id] \in Verdicts => queue'[id] = queue[id]]_vars

\* A rejection the projection knows is final: no signal of that approval goes
\* out afterwards, in this process or a later one.
RejectionIsFinal ==
  [][\A id \in Approvals :
       bus' # bus /\ bus'[Len(bus')].id = id => Projection(id) # "REJECTED"]_vars

\* "The approval edge refuses double decides at write time": no approval has
\* two decision rows.
DecidedOnce ==
  \A id \in Approvals : \A i, j \in DecisionRows(id) : i = j
=============================================================================

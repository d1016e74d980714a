--------------------------- MODULE ApprovalEdgeProofs ---------------------------
(***************************************************************************)
(* Proofs about ApprovalEdge, for any number of approvals, threads and     *)
(* boots: type correctness, and that a signal has its row, that a restart  *)
(* forgets no decision, and that a decision stands.                        *)
(*                                                                         *)
(* The argument: a thread between ApprovalQueue.decide and its append owns *)
(* the approval (OwnerOK): the queue holds its verdict, no other thread is *)
(* there, and the ledger has no decision the projection would see.  The    *)
(* lock in decide establishes it, because a PENDING status in the queue    *)
(* excludes such a row (RestartForgetsNoDecision) and such a thread.       *)
(***************************************************************************)
EXTENDS ApprovalEdge, TLAPS

Steps == {"submitted", "pended", "looked", "decided", "recorded"}

WorkRecords == [step : Steps, id : Approvals, verdict : Verdicts, row : Nat]

\* A thread owns an approval from the decision to the emission.
Owns(t) == thread[t].step \in {"decided", "recorded"}

RowOK(t) ==
  /\ thread[t].verdict = "APPROVED"
  /\ thread[t].row \in DOMAIN ledger
  /\ ledger[thread[t].row] = [kind |-> "APPROVED", id |-> thread[t].id]
  /\ \A i \in DOMAIN bus : bus[i].row # thread[t].row

OwnerOK ==
  /\ \A t \in Threads, id \in Approvals :
       thread[t].step = "decided" /\ thread[t].id = id => LaterDecisions(id) = {}
  /\ \A t \in Threads : Owns(t) => queue[thread[t].id] = thread[t].verdict
  /\ \A t \in Threads : thread[t].step = "recorded" => RowOK(t)
  /\ \A t, u \in Threads :
       Owns(t) /\ Owns(u) /\ thread[t].id = thread[u].id => t = u

DeadOK == ~alive => \A t \in Threads : thread[t] = Idle

Inv ==
  /\ TypeOK
  /\ DeadOK
  /\ OwnerOK
  /\ OneDecisionAfterPending
  /\ RestartForgetsNoDecision
  /\ EmissionsAreRecorded
-----------------------------------------------------------------------------
(***************************************************************************)
(* Rows and the projection.                                                *)
(***************************************************************************)
\* What an appended row adds to the sets the projection is made of.
LEMMA AppendedRow ==
  ASSUME ledger \in Seq(Rows), NEW r \in Rows, ledger' = Append(ledger, r),
         NEW id \in Approvals
  PROVE  /\ ledger' \in Seq(Rows)
         /\ DOMAIN ledger' = DOMAIN ledger \cup {Len(ledger) + 1}
         /\ Len(ledger') = Len(ledger) + 1
         /\ Len(ledger) + 1 \notin DOMAIN ledger
         /\ \A i \in DOMAIN ledger : ledger'[i] = ledger[i]
         /\ ledger'[Len(ledger) + 1] = r
         /\ PendingRows(id)' = PendingRows(id) \cup
              (IF r.id = id /\ r.kind = "PENDING" THEN {Len(ledger) + 1} ELSE {})
         /\ LaterDecisions(id)' = LaterDecisions(id) \cup
              (IF r.id = id /\ r.kind \in Verdicts /\ PendingRows(id) # {}
               THEN {Len(ledger) + 1} ELSE {})
<1> DEFINE n == Len(ledger) + 1
<1>1. /\ ledger' \in Seq(Rows)
      /\ Len(ledger') = n
      /\ DOMAIN ledger = 1 .. Len(ledger)
      /\ Len(ledger) \in Nat
      /\ DOMAIN ledger' = DOMAIN ledger \cup {n}
      /\ n \notin DOMAIN ledger
  OBVIOUS
<1>2. /\ \A i \in DOMAIN ledger : ledger'[i] = ledger[i]
      /\ ledger'[n] = r
  OBVIOUS
<1>3. PendingRows(id)' = PendingRows(id) \cup
        (IF r.id = id /\ r.kind = "PENDING" THEN {n} ELSE {})
  <2> HIDE DEF n
  <2> QED
    BY <1>1, <1>2, Zenon DEF PendingRows
<1>4. DecisionRows(id)' = DecisionRows(id) \cup
        (IF r.id = id /\ r.kind \in Verdicts THEN {n} ELSE {})
  <2> HIDE DEF n
  <2> QED
    BY <1>1, <1>2, Zenon DEF DecisionRows
<1>5. /\ PendingRows(id) \subseteq 1 .. Len(ledger)
      /\ DecisionRows(id) \subseteq 1 .. Len(ledger)
  BY <1>1 DEF PendingRows, DecisionRows
<1>6. LaterDecisions(id)' =
        {i \in DecisionRows(id)' : \E p \in PendingRows(id)' : p < i}
  BY DEF LaterDecisions
<1>7. r.kind = "PENDING" => r.kind \notin Verdicts
  BY DEF Verdicts
<1>8. LaterDecisions(id)' = LaterDecisions(id) \cup
        (IF r.id = id /\ r.kind \in Verdicts /\ PendingRows(id) # {}
         THEN {n} ELSE {})
  <2>1. CASE r.id = id /\ r.kind = "PENDING"
    <3>1. /\ PendingRows(id)' = PendingRows(id) \cup {n}
          /\ DecisionRows(id)' = DecisionRows(id)
      BY <2>1, <1>3, <1>4, <1>7
    <3>2. \A i \in DecisionRows(id) : ~(n < i)
      BY <1>1, <1>5
    <3> QED
      BY <2>1, <1>7, <1>6, <3>1, <3>2 DEF LaterDecisions
  <2>2. CASE r.id = id /\ r.kind \in Verdicts
    <3>1. /\ PendingRows(id)' = PendingRows(id)
          /\ DecisionRows(id)' = DecisionRows(id) \cup {n}
      BY <2>2, <1>3, <1>4, <1>7
    <3>2. \A p \in PendingRows(id) : p < n
      BY <1>1, <1>5
    <3> QED
      BY <2>2, <1>6, <3>1, <3>2 DEF LaterDecisions
  <2>3. CASE r.id # id
    BY <2>3, <1>3, <1>4, <1>6 DEF LaterDecisions
  <2> QED
    BY <2>1, <2>2, <2>3 DEF Rows
<1> QED
  BY <1>1, <1>2, <1>3, <1>8

\* The projection in terms of those sets.
LEMMA ProjectionCases ==
  ASSUME TypeOK, OneDecisionAfterPending, NEW id \in Approvals
  PROVE  /\ PendingRows(id) = {} => Projection(id) = "none"
         /\ PendingRows(id) # {} /\ LaterDecisions(id) = {} =>
              Projection(id) = "PENDING"
         /\ \A i \in LaterDecisions(id) :
              Projection(id) = ledger[i].kind /\ ledger[i].kind \in Verdicts
         /\ Projection(id) \in Statuses
<1>1. PendingRows(id) = {} => LaterDecisions(id) = {}
  BY DEF LaterDecisions
<1>2. \A i \in LaterDecisions(id) :
        i \in 1 .. Len(ledger) /\ ledger[i].kind \in Verdicts
  BY DEF LaterDecisions, DecisionRows, TypeOK
<1>3. ASSUME NEW i \in LaterDecisions(id)
      PROVE  Projection(id) = ledger[i].kind
  <2>1. LaterDecisions(id) = {i}
    BY <1>3 DEF OneDecisionAfterPending
  <2>2. i <= i
    BY <1>2
  <2>3. Min(LaterDecisions(id)) = i
    BY <2>1, <2>2 DEF Min
  <2>4. PendingRows(id) # {} /\ LaterDecisions(id) # {}
    BY <1>1, <1>3
  <2> QED
    BY <2>3, <2>4 DEF Projection
<1>4. PendingRows(id) = {} => Projection(id) = "none"
  BY DEF Projection
<1>5. PendingRows(id) # {} /\ LaterDecisions(id) = {} => Projection(id) = "PENDING"
  BY DEF Projection
<1> QED
  BY <1>1, <1>2, <1>3, <1>4, <1>5 DEF Statuses

\* What a restart would do is unchanged while the ledger is.
LEMMA SameLedger ==
  ASSUME UNCHANGED ledger
  PROVE  /\ \A id : PendingRows(id)' = PendingRows(id)
         /\ \A id : LaterDecisions(id)' = LaterDecisions(id)
         /\ \A id : Projection(id)' = Projection(id)
<1>1. /\ \A id : PendingRows(id)' = PendingRows(id)
      /\ \A id : DecisionRows(id)' = DecisionRows(id)
  BY DEF PendingRows, DecisionRows
<1>2. \A id : LaterDecisions(id)' = LaterDecisions(id)
  BY <1>1 DEF LaterDecisions
<1> QED
  BY <1>1, <1>2 DEF Projection
-----------------------------------------------------------------------------
(***************************************************************************)
(* Type correctness.                                                       *)
(***************************************************************************)
\* A thread that is not idle has an approval at hand.
LEMMA WorkingType ==
  ASSUME TypeOK, NEW t \in Threads, thread[t].step # "idle"
  PROVE  /\ thread[t] \in WorkRecords
         /\ thread[t] # Idle
         /\ thread[t].id \in Approvals
         /\ thread[t].verdict \in Verdicts
         /\ queue[thread[t].id] # "none"
<1>1. thread[t] \in {Idle} \cup WorkRecords
  BY DEF TypeOK, WorkRecords, Steps
<1>2. thread[t] # Idle
  BY DEF Idle
<1> QED
  BY <1>1, <1>2 DEF TypeOK, WorkRecords

\* A step of one thread that puts it to work on an approval of the queue, or
\* lets it finish, keeps the threads' part of the types.
LEMMA ThreadType ==
  ASSUME TypeOK, NEW t \in Threads, NEW w,
         thread' = [thread EXCEPT ![t] = w],
         \/ w = Idle
         \/ w \in WorkRecords /\ queue'[w.id] # "none",
         queue' \in [Approvals -> Statuses],
         \A id \in Approvals : queue[id] # "none" => queue'[id] # "none"
  PROVE  /\ thread' \in [Threads -> {Idle} \cup WorkRecords]
         /\ \A u \in Threads : thread'[u] # Idle => queue'[thread'[u].id] # "none"
<1>1. thread \in [Threads -> {Idle} \cup WorkRecords]
  BY DEF TypeOK, WorkRecords, Steps
<1>2. thread'[t] = w
  BY <1>1
<1>3. thread' \in [Threads -> {Idle} \cup WorkRecords]
  BY <1>1
<1>4. ASSUME NEW u \in Threads, thread'[u] # Idle
      PROVE  queue'[thread'[u].id] # "none"
  <2>1. CASE u = t
    BY <1>2, <1>4, <2>1
  <2>2. CASE u # t
    <3>1. thread'[u] = thread[u]
      BY <1>1, <2>2
    <3>2. thread[u] \in WorkRecords /\ queue[thread[u].id] # "none"
      BY <1>1, <1>4, <3>1 DEF TypeOK
    <3> QED
      BY <3>1, <3>2 DEF WorkRecords
  <2> QED
    BY <2>1, <2>2
<1> QED
  BY <1>3, <1>4

\* Moving a thread on is replacing its record.
LEMMA GotoIsWork ==
  ASSUME TypeOK, NEW t \in Threads, thread[t].step # "idle",
         NEW step \in Steps, Goto(t, step)
  PROVE  LET w == [thread[t] EXCEPT !.step = step] IN
         /\ thread' = [thread EXCEPT ![t] = w]
         /\ w \in WorkRecords
         /\ w.id = thread[t].id /\ w.verdict = thread[t].verdict
         /\ w.row = thread[t].row /\ w.step = step
<1>1. thread[t] \in WorkRecords
  BY WorkingType
<1>2. thread \in [Threads -> {Idle} \cup WorkRecords]
  BY DEF TypeOK, WorkRecords, Steps
<1> QED
  BY <1>1, <1>2 DEF Goto, WorkRecords

LEMMA InitType == Init => TypeOK
BY ApprovalConstantsOK DEF Init, TypeOK, Statuses, Verdicts, Idle, Rows

\* Every step keeps the types.
LEMMA NextType ==
  ASSUME TypeOK, DeadOK, OneDecisionAfterPending, Next
  PROVE  TypeOK'
<1> DEFINE Frame == /\ ledger' \in Seq(Rows)
                    /\ bus' \in Seq([id : Approvals, row : Nat])
                    /\ alive' \in BOOLEAN
                    /\ boots' \in Nat
           Kept(t, w) == /\ thread' = [thread EXCEPT ![t] = w]
                         /\ \/ w = Idle
                            \/ w \in WorkRecords /\ queue'[w.id] # "none"
                         /\ queue' \in [Approvals -> Statuses]
                         /\ \A id \in Approvals :
                              queue[id] # "none" => queue'[id] # "none"
<1>1. ASSUME Frame, NEW t \in Threads, NEW w, Kept(t, w)
      PROVE  TypeOK'
  <2>1. /\ thread' \in [Threads -> {Idle} \cup WorkRecords]
        /\ \A u \in Threads : thread'[u] # Idle => queue'[thread'[u].id] # "none"
    BY <1>1, ThreadType
  <2> QED
    BY <1>1, <2>1 DEF TypeOK, WorkRecords, Steps
<1>2. UNCHANGED <<ledger, bus, alive, boots>> => Frame
  BY DEF TypeOK
<1>3. queue \in [Approvals -> Statuses]
  BY DEF TypeOK
<1>4. ASSUME NEW t \in Threads, NEW id \in Approvals, TurnSubmits(t, id)
      PROVE  TypeOK'
  <2> DEFINE w == Working("submitted", id, "APPROVED", 0)
  <2>1. w \in WorkRecords /\ w.id = id
    BY DEF Working, WorkRecords, Steps, Verdicts
  <2>2. Kept(t, w)
    BY <1>3, <1>4, <2>1 DEF TurnSubmits, Statuses
  <2> QED
    BY <1>1, <1>2, <1>4, <2>2 DEF TurnSubmits
<1>5. ASSUME NEW t \in Threads, NEW id \in Approvals,
             NEW verdict \in Verdicts, Look(t, id, verdict)
      PROVE  TypeOK'
  <2> DEFINE w == Working("looked", id, verdict, 0)
  <2>1. w \in WorkRecords /\ w.id = id
    BY DEF Working, WorkRecords, Steps
  <2>2. Kept(t, w)
    BY <1>3, <1>5, <2>1 DEF Look
  <2> QED
    BY <1>1, <1>2, <1>5, <2>2 DEF Look
<1>6. ASSUME NEW t \in Threads, Finish(t), UNCHANGED queue
      PROVE  Kept(t, Idle)
  BY <1>3, <1>6 DEF Finish
<1>7. ASSUME NEW t \in Threads, thread[t].step # "idle", UNCHANGED queue,
             NEW step \in Steps, Goto(t, step)
      PROVE  Kept(t, [thread[t] EXCEPT !.step = step])
  BY <1>3, <1>7, GotoIsWork, WorkingType
<1>8. ASSUME NEW t \in Threads, TurnRecords(t)
      PROVE  TypeOK'
  <2> DEFINE r == [kind |-> "PENDING", id |-> thread[t].id]
  <2>1. thread[t].step # "idle" /\ r \in Rows
    BY <1>8, WorkingType DEF TurnRecords, Rows
  <2>2. Frame
    BY <1>8, <2>1 DEF TurnRecords, TypeOK
  <2>3. CASE Finish(t)
    BY <1>1, <1>6, <1>8, <2>2, <2>3 DEF TurnRecords
  <2>4. CASE Goto(t, "pended")
    BY <1>1, <1>7, <1>8, <2>1, <2>2, <2>4 DEF TurnRecords, Steps
  <2> QED
    BY <1>8, <2>3, <2>4 DEF TurnRecords
<1>9. ASSUME NEW t \in Threads, TurnLeavesToOperator(t)
      PROVE  TypeOK'
  BY <1>1, <1>2, <1>6, <1>9 DEF TurnLeavesToOperator
<1>10. ASSUME NEW t \in Threads, TurnApproves(t)
       PROVE  TypeOK'
  <2>1. CASE Finish(t)
    BY <1>1, <1>2, <1>6, <1>10, <2>1 DEF TurnApproves
  <2>2. CASE Goto(t, "looked")
    BY <1>1, <1>2, <1>7, <1>10, <2>2 DEF TurnApproves, Steps
  <2> QED
    BY <1>10, <2>1, <2>2 DEF TurnApproves
<1>11. ASSUME NEW t \in Threads, Decide(t)
       PROVE  TypeOK'
  <2> DEFINE w == [thread[t] EXCEPT !.step = "decided"]
  <2>1. thread[t].step # "idle" /\ Goto(t, "decided")
    BY <1>11 DEF Decide
  <2>2. /\ thread[t].id \in Approvals
        /\ thread[t].verdict \in Verdicts
    BY <2>1, WorkingType
  <2>3. thread' = [thread EXCEPT ![t] = w] /\ w \in WorkRecords /\ w.id = thread[t].id
    BY <2>1, GotoIsWork DEF Steps
  <2>4. /\ queue' \in [Approvals -> Statuses]
        /\ queue'[thread[t].id] # "none"
        /\ \A id \in Approvals : queue[id] # "none" => queue'[id] # "none"
    BY <1>3, <1>11, <2>2 DEF Decide, Statuses, Verdicts
  <2>5. Kept(t, w)
    BY <2>3, <2>4
  <2> QED
    BY <1>1, <1>2, <1>11, <2>5 DEF Decide
<1>12. ASSUME NEW t \in Threads, Refused(t)
       PROVE  TypeOK'
  BY <1>1, <1>2, <1>6, <1>12 DEF Refused
<1>13. ASSUME NEW t \in Threads, Record(t)
       PROVE  TypeOK'
  <2> DEFINE r == [kind |-> thread[t].verdict, id |-> thread[t].id]
             w == [thread[t] EXCEPT !.step = "recorded", !.row = Len(ledger')]
  <2>1. thread[t] \in WorkRecords /\ queue[thread[t].id] # "none"
    BY <1>13, WorkingType DEF Record
  <2>2. r \in Rows
    BY <2>1 DEF WorkRecords, Rows
  <2>3. Frame /\ Len(ledger') \in Nat
    BY <1>13, <2>2 DEF Record, TypeOK
  <2>4. CASE Finish(t)
    BY <1>1, <1>6, <1>13, <2>3, <2>4 DEF Record
  <2>5. CASE thread' = [thread EXCEPT ![t].step = "recorded",
                                      ![t].row = Len(ledger')]
    <3>1. thread' = [thread EXCEPT ![t] = w]
      BY <2>5
    <3>2. w \in WorkRecords /\ w.id = thread[t].id
      BY <2>1, <2>3 DEF WorkRecords, Steps
    <3>3. Kept(t, w)
      BY <1>3, <1>13, <2>1, <3>1, <3>2 DEF Record
    <3> QED
      BY <1>1, <2>3, <3>3
  <2> QED
    BY <1>13, <2>4, <2>5 DEF Record
<1>14. ASSUME NEW t \in Threads, AppendRaises(t)
       PROVE  TypeOK'
  BY <1>1, <1>2, <1>6, <1>14 DEF AppendRaises
<1>15. ASSUME NEW t \in Threads, Emit(t)
       PROVE  TypeOK'
  <2>1. thread[t] \in WorkRecords
    BY <1>15, WorkingType DEF Emit
  <2>2. [id |-> thread[t].id, row |-> thread[t].row] \in [id : Approvals, row : Nat]
    BY <2>1 DEF WorkRecords
  <2>3. Frame
    BY <1>15, <2>2 DEF Emit, TypeOK
  <2> QED
    BY <1>1, <1>6, <1>15, <2>3 DEF Emit
<1>16. ASSUME NEW t \in Threads, EmitRaises(t)
       PROVE  TypeOK'
  BY <1>1, <1>2, <1>6, <1>16 DEF EmitRaises
<1>17. ASSUME Exit
       PROVE  TypeOK'
  BY <1>17 DEF Exit, TypeOK, Statuses, Idle
<1>18. ASSUME Boot
       PROVE  TypeOK'
  <2>1. queue' \in [Approvals -> Statuses]
    BY <1>18, ProjectionCases DEF Boot, Rehydrated
  <2> QED
    BY <1>18, <2>1 DEF Boot, TypeOK, DeadOK
<1> QED
  BY <1>4, <1>5, <1>8, <1>9, <1>10, <1>11, <1>12, <1>13, <1>14, <1>15, <1>16,
     <1>17, <1>18 DEF Next
-----------------------------------------------------------------------------
(***************************************************************************)
(* The invariant.                                                          *)
(***************************************************************************)
\* The ledger only grows.
Extends ==
  \A i \in DOMAIN ledger : i \in DOMAIN ledger' /\ ledger'[i] = ledger[i]

\* A step that moves thread t alone, to w: it revises no decision, adds none for
\* an approval another thread is about to record, emits the row of no other
\* thread, and what it leaves t with is t's own.
HandedOver(t, w) ==
  /\ thread' = [thread EXCEPT ![t] = w]
  /\ \A id \in Approvals : queue[id] \in Verdicts => queue'[id] = queue[id]
  /\ Extends
  /\ \A u \in Threads \ {t}, id \in Approvals :
       thread[u].step = "decided" /\ thread[u].id = id =>
         LaterDecisions(id)' = LaterDecisions(id)
  /\ \A u \in Threads \ {t} : thread[u].step = "recorded" =>
       \A i \in DOMAIN bus' : bus'[i].row # thread[u].row
  /\ \A id \in Approvals :
       w.step = "decided" /\ w.id = id => LaterDecisions(id)' = {}
  /\ w.step \in {"decided", "recorded"} =>
       /\ queue'[w.id] = w.verdict
       /\ \A u \in Threads \ {t} : Owns(u) => thread[u].id # w.id
  /\ w.step = "recorded" =>
       /\ w.verdict = "APPROVED"
       /\ w.row \in DOMAIN ledger'
       /\ ledger'[w.row] = [kind |-> "APPROVED", id |-> w.id]
       /\ \A i \in DOMAIN bus' : bus'[i].row # w.row

\* Such a step keeps the owners.
LEMMA OwnerStep ==
  ASSUME TypeOK, OwnerOK, NEW t \in Threads, NEW w, HandedOver(t, w)
  PROVE  OwnerOK'
<1>1. /\ thread'[t] = w
      /\ \A u \in Threads \ {t} : thread'[u] = thread[u]
  BY DEF HandedOver, TypeOK
<1>2. \A u \in Threads : Owns(u) =>
        thread[u].id \in Approvals /\ thread[u].verdict \in Verdicts
  BY WorkingType DEF Owns
<1>3. ASSUME NEW u \in Threads, NEW id \in Approvals,
             thread'[u].step = "decided", thread'[u].id = id
      PROVE  LaterDecisions(id)' = {}
  <2>1. CASE u = t
    BY <1>1, <1>3, <2>1 DEF HandedOver
  <2>2. CASE u # t
    BY <1>1, <1>3, <2>2 DEF HandedOver, OwnerOK
  <2> QED
    BY <2>1, <2>2
<1>4. ASSUME NEW u \in Threads, Owns(u)'
      PROVE  queue'[thread'[u].id] = thread'[u].verdict
  <2>1. CASE u = t
    BY <1>1, <1>4, <2>1 DEF HandedOver, Owns
  <2>2. CASE u # t
    BY <1>1, <1>2, <1>4, <2>2 DEF HandedOver, Owns, OwnerOK
  <2> QED
    BY <2>1, <2>2
<1>5. ASSUME NEW u \in Threads, thread'[u].step = "recorded"
      PROVE  RowOK(u)'
  <2>1. CASE u = t
    BY <1>1, <1>5, <2>1 DEF HandedOver, RowOK
  <2>2. CASE u # t
    <3>1. /\ thread[u].step = "recorded" /\ thread'[u] = thread[u] /\ RowOK(u)
      BY <1>1, <1>5, <2>2 DEF OwnerOK
    <3>2. /\ Extends
          /\ \A i \in DOMAIN bus' : bus'[i].row # thread[u].row
      BY <2>2, <3>1 DEF HandedOver
    <3> QED
      BY <3>1, <3>2 DEF RowOK, Extends
  <2> QED
    BY <2>1, <2>2
<1>6. ASSUME NEW u \in Threads, NEW v \in Threads,
             Owns(u)', Owns(v)', thread'[u].id = thread'[v].id
      PROVE  u = v
  BY <1>1, <1>6 DEF HandedOver, Owns, OwnerOK
<1> QED
  BY <1>3, <1>4, <1>5, <1>6 DEF OwnerOK

\* While the ledger stays, a queue that revises nothing the ledger knows keeps
\* agreeing with it.
LEMMA LedgerStays ==
  ASSUME RestartForgetsNoDecision, OneDecisionAfterPending, UNCHANGED ledger,
         alive' => alive,
         alive => \A id \in Approvals :
           /\ queue[id] # "none" => queue'[id] # "none"
           /\ Projection(id) \in Verdicts => queue'[id] = queue[id]
  PROVE  RestartForgetsNoDecision' /\ OneDecisionAfterPending' /\ Extends
<1>1. \A id \in Approvals : /\ LaterDecisions(id)' = LaterDecisions(id)
                            /\ Projection(id)' = Projection(id)
  BY SameLedger
<1>2. OneDecisionAfterPending'
  BY <1>1, Zenon DEF OneDecisionAfterPending
<1>3. Extends
  BY DEF Extends
<1>4. ASSUME alive', NEW id \in Approvals
      PROVE  /\ Projection(id)' \in Verdicts => queue'[id] = Projection(id)'
             /\ Projection(id)' = "PENDING" => queue'[id] # "none"
  BY <1>1, <1>4 DEF RestartForgetsNoDecision
<1>5. RestartForgetsNoDecision'
  BY <1>4 DEF RestartForgetsNoDecision
<1> QED
  BY <1>2, <1>3, <1>5

\* The rows of the signals stay where they are.
LEMMA BusStays ==
  ASSUME EmissionsAreRecorded, UNCHANGED bus, Extends
  PROVE  EmissionsAreRecorded'
BY DEF EmissionsAreRecorded, Extends

\* A step that moves one thread to a place where it owns nothing.
LEMMA Quiet ==
  ASSUME Inv, NEW t \in Threads, NEW w,
         thread' = [thread EXCEPT ![t] = w],
         w.step \notin {"decided", "recorded"},
         UNCHANGED <<ledger, bus, alive>>,
         \A id \in Approvals :
           queue'[id] = queue[id] \/ (queue[id] = "none" /\ queue'[id] = "PENDING")
  PROVE  /\ OwnerOK' /\ OneDecisionAfterPending'
         /\ RestartForgetsNoDecision' /\ EmissionsAreRecorded'
<1>1. ASSUME NEW id \in Approvals
      PROVE  /\ queue[id] # "none" => queue'[id] # "none"
             /\ queue[id] \in Verdicts => queue'[id] = queue[id]
  BY DEF Verdicts
<1>2. ASSUME NEW id \in Approvals, alive, Projection(id) \in Verdicts
      PROVE  queue'[id] = queue[id]
  <2>1. queue[id] = Projection(id)
    BY <1>2 DEF Inv, RestartForgetsNoDecision
  <2> QED
    BY <1>1, <1>2, <2>1
<1>3. RestartForgetsNoDecision' /\ OneDecisionAfterPending' /\ Extends
  BY <1>1, <1>2, LedgerStays DEF Inv
<1>4. EmissionsAreRecorded'
  BY <1>3, BusStays DEF Inv
<1>5. \A u \in Threads : thread[u].step = "recorded" =>
        \A i \in DOMAIN bus' : bus'[i].row # thread[u].row
  BY DEF Inv, OwnerOK, RowOK
<1>6. \A id \in Approvals : LaterDecisions(id)' = LaterDecisions(id)
  BY SameLedger
<1>7. HandedOver(t, w)
  BY <1>1, <1>3, <1>5, <1>6 DEF HandedOver
<1>8. OwnerOK'
  BY <1>7, OwnerStep DEF Inv
<1> QED
  BY <1>3, <1>4, <1>8
LEMMA InitInv == Init => Inv
<1> SUFFICES ASSUME Init PROVE Inv
  OBVIOUS
<1>1. ledger = <<>> /\ bus = <<>> /\ \A t \in Threads : thread[t] = Idle
  BY DEF Init
<1>2. DOMAIN ledger = {} /\ DOMAIN bus = {}
  BY <1>1
<1>3. \A id : PendingRows(id) = {} /\ LaterDecisions(id) = {}
  BY <1>2 DEF PendingRows, LaterDecisions
<1>4. \A id : Projection(id) = "none"
  BY <1>3 DEF Projection
<1> QED
  BY <1>1, <1>2, <1>3, <1>4, InitType DEF Inv, DeadOK, OwnerOK, Owns, Idle,
    OneDecisionAfterPending, RestartForgetsNoDecision, EmissionsAreRecorded,
    Verdicts

\* A status the queue still shows as PENDING has no decision the projection
\* would see: this is what the check under the queue's lock is worth.
LEMMA PendingIsUndecided ==
  ASSUME Inv, alive, NEW id \in Approvals, queue[id] = "PENDING"
  PROVE  /\ LaterDecisions(id) = {}
         /\ Projection(id) \notin Verdicts
         /\ \A u \in Threads : Owns(u) => thread[u].id # id
<1>1. Projection(id) \notin Verdicts
  BY DEF Inv, RestartForgetsNoDecision, Verdicts
<1>2. LaterDecisions(id) = {}
  BY <1>1, ProjectionCases DEF Inv
<1>3. ASSUME NEW u \in Threads, Owns(u)
      PROVE  thread[u].id # id
  <2>1. thread[u].step # "idle" /\ queue[thread[u].id] = thread[u].verdict
    BY <1>3 DEF Inv, OwnerOK, Owns
  <2>2. thread[u].verdict \in Verdicts
    BY <2>1, WorkingType DEF Inv
  <2> QED
    BY <2>1, <2>2 DEF Verdicts
<1> QED
  BY <1>1, <1>2, <1>3

\* A working thread belongs to a running process.
LEMMA WorkingAlive ==
  ASSUME Inv, NEW t \in Threads, thread[t].step # "idle"
  PROVE  alive
BY DEF Inv, DeadOK, Idle

\* ApprovalQueue.decide.
LEMMA DecideInv ==
  ASSUME Inv, NEW t \in Threads, Decide(t)
  PROVE  /\ OwnerOK' /\ OneDecisionAfterPending'
         /\ RestartForgetsNoDecision' /\ EmissionsAreRecorded'
<1> DEFINE d == thread[t].id
<1> PICK w : w = [thread[t] EXCEPT !.step = "decided"]
  OBVIOUS
<1>1. /\ thread[t].step # "idle" /\ Goto(t, "decided") /\ queue[d] = "PENDING"
      /\ queue' = [queue EXCEPT ![d] = thread[t].verdict]
      /\ UNCHANGED <<ledger, bus, alive, boots>>
  BY DEF Decide
<1>2. alive /\ d \in Approvals /\ thread[t].verdict \in Verdicts
  BY <1>1, WorkingAlive, WorkingType DEF Inv
<1>3. /\ LaterDecisions(d) = {}
      /\ Projection(d) \notin Verdicts
      /\ \A u \in Threads : Owns(u) => thread[u].id # d
  BY <1>1, <1>2, PendingIsUndecided
<1>4. /\ thread' = [thread EXCEPT ![t] = w]
      /\ w.id = d /\ w.verdict = thread[t].verdict /\ w.step = "decided"
  BY <1>1, GotoIsWork DEF Steps, Inv
<1>5. /\ queue'[d] = thread[t].verdict
      /\ \A id \in Approvals \ {d} : queue'[id] = queue[id]
  BY <1>1, <1>2 DEF Inv, TypeOK
<1>6. ASSUME NEW id \in Approvals
      PROVE  /\ queue[id] # "none" => queue'[id] # "none"
             /\ Projection(id) \in Verdicts => queue'[id] = queue[id]
             /\ queue[id] \in Verdicts => queue'[id] = queue[id]
  BY <1>1, <1>2, <1>3, <1>5 DEF Verdicts
<1>7. RestartForgetsNoDecision' /\ OneDecisionAfterPending' /\ Extends
  BY <1>1, <1>6, LedgerStays DEF Inv
<1>8. EmissionsAreRecorded'
  BY <1>1, <1>7, BusStays DEF Inv
<1>9. \A id \in Approvals : LaterDecisions(id)' = LaterDecisions(id)
  BY <1>1, SameLedger
<1>10. \A u \in Threads : thread[u].step = "recorded" =>
         \A i \in DOMAIN bus' : bus'[i].row # thread[u].row
  BY <1>1 DEF Inv, OwnerOK, RowOK
<1>11. \A id \in Approvals :
         w.step = "decided" /\ w.id = id => LaterDecisions(id)' = {}
  BY <1>3, <1>4, <1>9
<1>12. /\ queue'[w.id] = w.verdict
       /\ \A u \in Threads \ {t} : Owns(u) => thread[u].id # w.id
       /\ w.step # "recorded"
  BY <1>3, <1>4, <1>5
<1>13. OwnerOK'
  <2>1. TypeOK /\ OwnerOK /\ thread' = [thread EXCEPT ![t] = w]
    BY <1>4 DEF Inv
  <2>2. \A id \in Approvals : queue[id] \in Verdicts => queue'[id] = queue[id]
    BY <1>6
  <2>3. \A u \in Threads \ {t}, id \in Approvals :
           thread[u].step = "decided" /\ thread[u].id = id =>
             LaterDecisions(id)' = LaterDecisions(id)
    BY <1>9
  <2>4. \A u \in Threads \ {t} : thread[u].step = "recorded" =>
           \A i \in DOMAIN bus' : bus'[i].row # thread[u].row
    BY <1>10
  <2>5. Extends
    BY <1>7
  <2>6. w.step \in {"decided", "recorded"} =>
           /\ queue'[w.id] = w.verdict
           /\ \A u \in Threads \ {t} : Owns(u) => thread[u].id # w.id
    BY <1>12
  <2>7. w.step = "recorded" =>
           /\ w.verdict = "APPROVED"
           /\ w.row \in DOMAIN ledger'
           /\ ledger'[w.row] = [kind |-> "APPROVED", id |-> w.id]
           /\ \A i \in DOMAIN bus' : bus'[i].row # w.row
    BY <1>12
  <2> QED
    <3>1. HandedOver(t, w)
      BY <1>11, <2>1, <2>2, <2>3, <2>4, <2>5, <2>6, <2>7, Zenon DEF HandedOver
    <3> QED
      BY <2>1, <3>1, OwnerStep
<1> QED
  BY <1>7, <1>8, <1>13
\* OPERATOR_APPROVAL_PENDING: a PENDING row makes no earlier decision count.
LEMMA TurnRecordsInv ==
  ASSUME Inv, NEW t \in Threads, TurnRecords(t)
  PROVE  /\ OwnerOK' /\ OneDecisionAfterPending'
         /\ RestartForgetsNoDecision' /\ EmissionsAreRecorded'
<1> PICK r : r = [kind |-> "PENDING", id |-> thread[t].id]
  OBVIOUS
<1>1. /\ thread[t].step = "submitted"
      /\ ledger' = Append(ledger, r)
      /\ UNCHANGED <<queue, bus, alive, boots>>
  BY DEF TurnRecords
<1>2. r \in Rows /\ r.id = thread[t].id /\ queue[r.id] # "none" /\ r.id \in Approvals
  BY <1>1, WorkingType DEF Rows, Inv
<1>3. PICK w : /\ thread' = [thread EXCEPT ![t] = w]
               /\ w.step \notin {"decided", "recorded"}
  <2>1. CASE Finish(t)
    <3>1. thread' = [thread EXCEPT ![t] = Idle] /\ Idle.step \notin {"decided", "recorded"}
      BY <2>1 DEF Finish, Idle
    <3> QED
      BY <3>1
  <2>2. CASE Goto(t, "pended")
    <3> DEFINE w == [thread[t] EXCEPT !.step = "pended"]
    <3>1. thread' = [thread EXCEPT ![t] = w] /\ w.step = "pended"
      BY <1>1, <2>2, GotoIsWork DEF Inv, Steps
    <3> HIDE DEF w
    <3> QED
      BY <3>1
  <2> QED
    BY <2>1, <2>2 DEF TurnRecords
<1>4. ledger \in Seq(Rows)
  BY DEF Inv, TypeOK
<1>5. /\ DOMAIN ledger' = DOMAIN ledger \cup {Len(ledger) + 1}
      /\ \A i \in DOMAIN ledger : ledger'[i] = ledger[i]
      /\ \A id \in Approvals : /\ LaterDecisions(id)' = LaterDecisions(id)
                               /\ PendingRows(id) \subseteq PendingRows(id)'
                               /\ id # r.id => PendingRows(id)' = PendingRows(id)
  <2>1. r.kind \notin Verdicts
    BY DEF Verdicts
  <2>2. r.kind = "PENDING"
    OBVIOUS
  <2>3. ASSUME NEW id \in Approvals
        PROVE  /\ LaterDecisions(id)' = LaterDecisions(id)
               /\ PendingRows(id) \subseteq PendingRows(id)'
               /\ id # r.id => PendingRows(id)' = PendingRows(id)
    <3>1. /\ PendingRows(id)' = PendingRows(id) \cup
               (IF r.id = id /\ r.kind = "PENDING" THEN {Len(ledger) + 1} ELSE {})
          /\ LaterDecisions(id)' = LaterDecisions(id) \cup
               (IF r.id = id /\ r.kind \in Verdicts /\ PendingRows(id) # {}
                THEN {Len(ledger) + 1} ELSE {})
      BY <1>1, <1>2, <1>4, AppendedRow
    <3> QED
      BY <2>1, <3>1
  <2>4. /\ DOMAIN ledger' = DOMAIN ledger \cup {Len(ledger) + 1}
        /\ \A i \in DOMAIN ledger : ledger'[i] = ledger[i]
    BY <1>1, <1>2, <1>4, AppendedRow
  <2> QED
    BY <2>3, <2>4
<1>6. Extends
  BY <1>5 DEF Extends
<1>7. OneDecisionAfterPending'
  BY <1>5, Zenon DEF OneDecisionAfterPending, Inv
<1>8. EmissionsAreRecorded'
  BY <1>1, <1>6, BusStays DEF Inv
<1>9. ASSUME alive, NEW id \in Approvals
      PROVE  /\ Projection(id)' \in Verdicts => queue'[id] = Projection(id)'
             /\ Projection(id)' = "PENDING" => queue'[id] # "none"
  <2>1. CASE LaterDecisions(id) # {}
    <3>1. PICK i \in LaterDecisions(id) : TRUE
      BY <2>1
    <3>2. Projection(id) = ledger[i].kind /\ ledger[i].kind \in Verdicts
      BY <3>1, ProjectionCases DEF Inv
    <3>3. i \in DOMAIN ledger /\ ledger'[i] = ledger[i]
      BY <1>5 DEF LaterDecisions, DecisionRows
    <3>4. LaterDecisions(id)' = {i} /\ PendingRows(id)' # {}
      BY <1>5, <3>1 DEF Inv, OneDecisionAfterPending, LaterDecisions
    <3>5. Min(LaterDecisions(id)') = i
      <4>1. i \in Nat /\ i <= i
        BY <3>3, <1>4
      <4> QED
        BY <3>4, <4>1 DEF Min
    <3>6. Projection(id)' = ledger[i].kind
      BY <3>3, <3>4, <3>5 DEF Projection
    <3> QED
      BY <1>1, <1>9, <3>2, <3>6 DEF Inv, RestartForgetsNoDecision, Verdicts
  <2>2. CASE LaterDecisions(id) = {}
    <3>1. LaterDecisions(id)' = {}
      BY <1>5, <2>2
    <3>2. Projection(id)' \in {"none", "PENDING"}
      BY <3>1 DEF Projection
    <3>3. ASSUME Projection(id)' = "PENDING" PROVE queue[id] # "none"
      <4>1. CASE id = r.id
        BY <1>2, <4>1
      <4>2. CASE id # r.id
        <5>1. PendingRows(id)' = PendingRows(id)
          BY <1>5, <4>2
        <5>2. Projection(id) = "PENDING"
          BY <3>1, <3>3, <5>1, <2>2 DEF Projection
        <5> QED
          BY <1>9, <5>2 DEF Inv, RestartForgetsNoDecision
      <4> QED
        BY <4>1, <4>2
    <3> QED
      BY <1>1, <3>2, <3>3 DEF Verdicts
  <2> QED
    BY <2>1, <2>2
<1>10. RestartForgetsNoDecision'
  BY <1>1, <1>9 DEF RestartForgetsNoDecision
<1>11. OwnerOK'
  <2>1. TypeOK /\ OwnerOK
    BY DEF Inv
  <2>2. \A id \in Approvals : queue[id] \in Verdicts => queue'[id] = queue[id]
    BY <1>1
  <2>3. \A u \in Threads : thread[u].step = "recorded" =>
          \A i \in DOMAIN bus' : bus'[i].row # thread[u].row
    BY <1>1 DEF Inv, OwnerOK, RowOK
  <2> QED
    <3>1. HandedOver(t, w)
      BY <1>3, <1>5, <1>6, <2>1, <2>2, <2>3 DEF HandedOver
    <3> QED
      BY <2>1, <3>1, OwnerStep
<1> QED
  BY <1>7, <1>8, <1>10, <1>11
\* The decision row: it is the only one the projection sees, and it says what
\* the queue says.
LEMMA RecordInv ==
  ASSUME Inv, NEW t \in Threads, Record(t)
  PROVE  /\ OwnerOK' /\ OneDecisionAfterPending'
         /\ RestartForgetsNoDecision' /\ EmissionsAreRecorded'
<1> PICK r : r = [kind |-> thread[t].verdict, id |-> thread[t].id]
  OBVIOUS
<1> PICK n : n = Len(ledger) + 1
  OBVIOUS
<1>1. /\ thread[t].step = "decided" /\ thread[t].step # "idle" /\ Owns(t)
      /\ ledger' = Append(ledger, r)
      /\ UNCHANGED <<queue, bus, alive, boots>>
  BY DEF Record, Owns
<1>2. /\ r \in Rows /\ r.id = thread[t].id /\ r.kind = thread[t].verdict
      /\ r.id \in Approvals /\ r.kind \in Verdicts
  BY <1>1, WorkingType DEF Rows, Inv
<1>3. /\ LaterDecisions(r.id) = {} /\ queue[r.id] = r.kind
      /\ \A u \in Threads \ {t} : Owns(u) => thread[u].id # r.id
  BY <1>1, <1>2 DEF Inv, OwnerOK
<1>4. ledger \in Seq(Rows) /\ r.kind # "PENDING"
  BY <1>2 DEF Inv, TypeOK, Verdicts
<1>5. /\ DOMAIN ledger' = DOMAIN ledger \cup {n}
      /\ Len(ledger') = n /\ n \notin DOMAIN ledger /\ n \in Nat
      /\ \A i \in DOMAIN ledger : ledger'[i] = ledger[i]
      /\ ledger'[n] = r
  BY <1>1, <1>2, <1>4, AppendedRow
<1>6. ASSUME NEW id \in Approvals
      PROVE  /\ PendingRows(id)' = PendingRows(id)
             /\ LaterDecisions(id)' = LaterDecisions(id) \cup
                  (IF r.id = id /\ PendingRows(id) # {} THEN {n} ELSE {})
  <2>1. /\ PendingRows(id)' = PendingRows(id) \cup
             (IF r.id = id /\ r.kind = "PENDING" THEN {Len(ledger) + 1} ELSE {})
        /\ LaterDecisions(id)' = LaterDecisions(id) \cup
             (IF r.id = id /\ r.kind \in Verdicts /\ PendingRows(id) # {}
              THEN {Len(ledger) + 1} ELSE {})
    BY <1>1, <1>2, <1>4, AppendedRow
  <2> QED
    BY <1>2, <1>4, <2>1
<1>7. Extends
  BY <1>5 DEF Extends
<1>8. EmissionsAreRecorded'
  BY <1>1, <1>7, BusStays DEF Inv
<1>9. ASSUME NEW id \in Approvals, id # r.id
      PROVE  /\ LaterDecisions(id)' = LaterDecisions(id)
             /\ Projection(id)' = Projection(id)
  <2>1. /\ PendingRows(id)' = PendingRows(id)
        /\ LaterDecisions(id)' = LaterDecisions(id)
    BY <1>6, <1>9
  <2>2. CASE LaterDecisions(id) = {}
    BY <2>1, <2>2 DEF Projection
  <2>3. CASE LaterDecisions(id) # {}
    <3>1. PICK i \in LaterDecisions(id) : TRUE
      BY <2>3
    <3>2. LaterDecisions(id) = {i} /\ PendingRows(id) # {}
      BY <3>1 DEF Inv, OneDecisionAfterPending, LaterDecisions
    <3>3. i \in DOMAIN ledger /\ i \in Nat
      BY <1>4, <3>1 DEF LaterDecisions, DecisionRows
    <3>4. Min({i}) = i
      BY <3>3 DEF Min
    <3>5. Min(LaterDecisions(id)) = i /\ Min(LaterDecisions(id)') = i
      BY <2>1, <3>2, <3>4
    <3> QED
      BY <1>5, <2>1, <2>3, <3>2, <3>3, <3>5 DEF Projection
  <2> QED
    BY <2>1, <2>2, <2>3
<1>10. LaterDecisions(r.id)' \subseteq {n}
  <2>1. \A id \in Approvals : r.id = id => LaterDecisions(id)' \subseteq {n}
    BY <1>3, <1>6
  <2> QED
    BY <1>2, <2>1
<1>11. OneDecisionAfterPending'
  <2>1. ASSUME NEW id \in Approvals
        PROVE  \A i, j \in LaterDecisions(id)' : i = j
    <3>1. CASE id = r.id
      BY <1>10, <3>1
    <3>2. CASE id # r.id
      BY <1>9, <3>2 DEF Inv, OneDecisionAfterPending
    <3> QED
      BY <3>1, <3>2
  <2> QED
    BY <2>1 DEF OneDecisionAfterPending
<1>12. Projection(r.id)' \in {"none", "PENDING", r.kind}
  <2>1. CASE n \in LaterDecisions(r.id)'
    <3>1. LaterDecisions(r.id)' = {n} /\ Min({n}) = n
      BY <1>5, <1>10, <2>1 DEF Min
    <3>2. Projection(r.id)' \in {"none", ledger'[n].kind}
      BY <3>1 DEF Projection
    <3> QED
      BY <1>5, <3>2
  <2>2. CASE n \notin LaterDecisions(r.id)'
    <3>1. LaterDecisions(r.id)' = {}
      BY <1>10, <2>2
    <3> QED
      BY <3>1 DEF Projection
  <2> QED
    BY <2>1, <2>2
<1>13. RestartForgetsNoDecision'
  <2>1. ASSUME alive, NEW id \in Approvals
        PROVE  /\ Projection(id)' \in Verdicts => queue'[id] = Projection(id)'
               /\ Projection(id)' = "PENDING" => queue'[id] # "none"
    <3>1. CASE id = r.id
      <4>1. queue'[id] = r.kind
        BY <1>1, <1>3, <3>1
      <4>2. Projection(id)' \in {"none", "PENDING", r.kind}
        BY <1>12, <3>1
      <4> QED
        BY <1>2, <4>1, <4>2 DEF Verdicts
    <3>2. CASE id # r.id
      BY <1>1, <1>9, <2>1, <3>2 DEF Inv, RestartForgetsNoDecision
    <3> QED
      BY <3>1, <3>2
  <2> QED
    BY <1>1, <2>1 DEF RestartForgetsNoDecision
<1>14. PICK w : /\ thread' = [thread EXCEPT ![t] = w]
                /\ w.step # "decided"
                /\ w.step = "recorded" => /\ r.kind = "APPROVED"
                                          /\ w.row = n /\ w.id = r.id
                                          /\ w.verdict = r.kind
  <2>1. CASE thread[t].verdict = "APPROVED"
    <3> DEFINE w == [thread[t] EXCEPT !.step = "recorded", !.row = Len(ledger')]
    <3>1. thread' = [thread EXCEPT ![t] = w]
      BY <2>1 DEF Record
    <3>2. w.step = "recorded" /\ w.row = n /\ w.id = r.id /\ w.verdict = r.kind
      BY <1>1, <1>2, <1>5, WorkingType DEF Inv, WorkRecords
    <3> HIDE DEF w
    <3> QED
      BY <1>2, <2>1, <3>1, <3>2
  <2>2. CASE thread[t].verdict # "APPROVED"
    <3>1. thread' = [thread EXCEPT ![t] = Idle] /\ Idle.step = "idle"
      BY <2>2 DEF Record, Finish, Idle
    <3> QED
      BY <3>1
  <2> QED
    BY <2>1, <2>2
<1>15. OwnerOK'
  <2>1. TypeOK /\ OwnerOK /\ thread' = [thread EXCEPT ![t] = w]
    BY <1>14 DEF Inv
  <2>2. \A id \in Approvals : queue[id] \in Verdicts => queue'[id] = queue[id]
    BY <1>1
  <2>3. \A u \in Threads \ {t}, id \in Approvals :
           thread[u].step = "decided" /\ thread[u].id = id =>
             LaterDecisions(id)' = LaterDecisions(id)
    BY <1>3, <1>9 DEF Owns
  <2>4. \A u \in Threads \ {t} : thread[u].step = "recorded" =>
           \A i \in DOMAIN bus' : bus'[i].row # thread[u].row
    BY <1>1 DEF Inv, OwnerOK, RowOK
  <2>5. \A id \in Approvals :
           w.step = "decided" /\ w.id = id => LaterDecisions(id)' = {}
    BY <1>14
  <2>6. w.step \in {"decided", "recorded"} =>
           /\ queue'[w.id] = w.verdict
           /\ \A u \in Threads \ {t} : Owns(u) => thread[u].id # w.id
    BY <1>1, <1>3, <1>14
  <2>7. \A i \in DOMAIN bus : bus[i].row # n
    BY <1>5 DEF Inv, EmissionsAreRecorded
  <2>8. r = [kind |-> r.kind, id |-> r.id]
    OBVIOUS
  <2>9. w.step = "recorded" =>
           /\ w.verdict = "APPROVED"
           /\ w.row \in DOMAIN ledger'
           /\ ledger'[w.row] = [kind |-> "APPROVED", id |-> w.id]
           /\ \A i \in DOMAIN bus' : bus'[i].row # w.row
    BY <1>1, <1>5, <1>14, <2>7, <2>8
  <2> QED
    <3>1. HandedOver(t, w)
      BY <1>7, <2>1, <2>2, <2>3, <2>4, <2>5, <2>6, <2>9, Zenon DEF HandedOver
    <3> QED
      BY <2>1, <3>1, OwnerStep
<1> QED
  BY <1>8, <1>11, <1>13, <1>15
\* The emission: the row the thread holds has not been used.
LEMMA EmitInv ==
  ASSUME Inv, NEW t \in Threads, Emit(t)
  PROVE  /\ OwnerOK' /\ OneDecisionAfterPending'
         /\ RestartForgetsNoDecision' /\ EmissionsAreRecorded'
<1> PICK e : e = [id |-> thread[t].id, row |-> thread[t].row]
  OBVIOUS
<1>1. /\ thread[t].step = "recorded" /\ Owns(t)
      /\ bus' = Append(bus, e)
      /\ thread' = [thread EXCEPT ![t] = Idle] /\ Idle.step = "idle"
      /\ UNCHANGED <<queue, ledger, alive>>
  BY DEF Emit, Finish, Idle, Owns
<1>2. /\ e.row \in DOMAIN ledger
      /\ ledger[e.row] = [kind |-> "APPROVED", id |-> e.id]
      /\ \A i \in DOMAIN bus : bus[i].row # e.row
  BY <1>1 DEF Inv, OwnerOK, RowOK
<1>3. /\ bus \in Seq([id : Approvals, row : Nat])
      /\ DOMAIN bus' = DOMAIN bus \cup {Len(bus) + 1}
      /\ \A i \in DOMAIN bus : bus'[i] = bus[i]
      /\ bus'[Len(bus) + 1] = e
  BY <1>1 DEF Inv, TypeOK
<1>4. EmissionsAreRecorded'
  BY <1>1, <1>2, <1>3 DEF Inv, EmissionsAreRecorded
<1>5. RestartForgetsNoDecision' /\ OneDecisionAfterPending' /\ Extends
  BY <1>1, LedgerStays DEF Inv
<1>6. ASSUME NEW u \in Threads \ {t}, thread[u].step = "recorded"
      PROVE  \A i \in DOMAIN bus' : bus'[i].row # thread[u].row
  <2>1. thread[u].id # thread[t].id
    BY <1>1, <1>6 DEF Inv, OwnerOK, Owns
  <2>2. /\ ledger[thread[u].row] = [kind |-> "APPROVED", id |-> thread[u].id]
        /\ \A i \in DOMAIN bus : bus[i].row # thread[u].row
    BY <1>6 DEF Inv, OwnerOK, RowOK
  <2>3. e.row # thread[u].row
    BY <1>2, <2>1, <2>2
  <2> QED
    BY <1>3, <2>2, <2>3
<1>7. \A id \in Approvals : LaterDecisions(id)' = LaterDecisions(id)
  BY <1>1, SameLedger
<1>8. OwnerOK'
  <2>1. TypeOK /\ OwnerOK
    BY DEF Inv
  <2>2. \A id \in Approvals : queue[id] \in Verdicts => queue'[id] = queue[id]
    BY <1>1
  <2>3. \A u \in Threads \ {t} : thread[u].step = "recorded" =>
           \A i \in DOMAIN bus' : bus'[i].row # thread[u].row
    BY <1>6
  <2> QED
    <3>1. HandedOver(t, Idle)
      BY <1>1, <1>5, <1>7, <2>1, <2>2, <2>3 DEF HandedOver
    <3> QED
      BY <2>1, <3>1, OwnerStep
<1> QED
  BY <1>4, <1>5, <1>8

\* The end of the process and the next boot: no thread is left, and the queue
\* is the projection.
LEMMA RestartInv ==
  ASSUME Inv, Exit \/ Boot
  PROVE  /\ DeadOK' /\ OwnerOK' /\ OneDecisionAfterPending'
         /\ RestartForgetsNoDecision' /\ EmissionsAreRecorded'
<1>1. /\ UNCHANGED <<ledger, bus>>
      /\ \A t \in Threads : thread'[t] = Idle
  BY DEF Exit, Boot, Inv, DeadOK
<1>2. DeadOK' /\ OwnerOK'
  BY <1>1 DEF DeadOK, OwnerOK, Owns, Idle
<1>3. \A id \in Approvals : /\ LaterDecisions(id)' = LaterDecisions(id)
                            /\ Projection(id)' = Projection(id)
  BY <1>1, SameLedger
<1>4. OneDecisionAfterPending'
  BY <1>3, Zenon DEF OneDecisionAfterPending, Inv
<1>5. EmissionsAreRecorded'
  BY <1>1 DEF EmissionsAreRecorded, Inv
<1>6. alive' => \A id \in Approvals : queue'[id] = Projection(id)
  BY DEF Exit, Boot, Rehydrated
<1>7. ASSUME alive', NEW id \in Approvals
      PROVE  /\ Projection(id)' \in Verdicts => queue'[id] = Projection(id)'
             /\ Projection(id)' = "PENDING" => queue'[id] # "none"
  BY <1>3, <1>6, <1>7
<1>8. RestartForgetsNoDecision'
  BY <1>7 DEF RestartForgetsNoDecision
<1> QED
  BY <1>2, <1>4, <1>5, <1>8

\* A thread that decides nothing in a step: it finishes, looks, or has just
\* submitted.
LEMMA QuietInv ==
  ASSUME Inv, NEW t \in Threads,
         \/ \E id \in Approvals :
              TurnSubmits(t, id) \/ \E verdict \in Verdicts : Look(t, id, verdict)
         \/ TurnLeavesToOperator(t) \/ TurnApproves(t) \/ Refused(t)
         \/ AppendRaises(t) \/ EmitRaises(t)
  PROVE  /\ OwnerOK' /\ OneDecisionAfterPending'
         /\ RestartForgetsNoDecision' /\ EmissionsAreRecorded'
<1>1. ASSUME NEW id \in Approvals, TurnSubmits(t, id)
      PROVE  /\ \E w : /\ thread' = [thread EXCEPT ![t] = w]
                       /\ w.step \notin {"decided", "recorded"}
             /\ UNCHANGED <<ledger, bus, alive>>
             /\ \A x \in Approvals :
                  queue'[x] = queue[x] \/ (queue[x] = "none" /\ queue'[x] = "PENDING")
  <2>1. Working("submitted", id, "APPROVED", 0).step = "submitted"
    BY DEF Working
  <2> QED
    BY <1>1, <2>1 DEF TurnSubmits, Inv, TypeOK
<1>2. ASSUME NEW id \in Approvals, NEW verdict \in Verdicts, Look(t, id, verdict)
      PROVE  /\ \E w : /\ thread' = [thread EXCEPT ![t] = w]
                       /\ w.step \notin {"decided", "recorded"}
             /\ UNCHANGED <<ledger, bus, alive, queue>>
  <2>1. Working("looked", id, verdict, 0).step = "looked"
    BY DEF Working
  <2> QED
    BY <1>2, <2>1 DEF Look
<1>3. Finish(t) => \E w : /\ thread' = [thread EXCEPT ![t] = w]
                          /\ w.step \notin {"decided", "recorded"}
  <2>1. Idle.step = "idle"
    BY DEF Idle
  <2> QED
    BY <2>1 DEF Finish
<1>4. thread[t].step = "pended" /\ Goto(t, "looked") =>
        \E w : /\ thread' = [thread EXCEPT ![t] = w]
               /\ w.step \notin {"decided", "recorded"}
  <2>1. PICK w : w = [thread[t] EXCEPT !.step = "looked"]
    OBVIOUS
  <2> SUFFICES ASSUME thread[t].step = "pended", Goto(t, "looked")
               PROVE  /\ thread' = [thread EXCEPT ![t] = w]
                      /\ w.step \notin {"decided", "recorded"}
    OBVIOUS
  <2> QED
    BY <2>1, GotoIsWork DEF Steps, Inv
<1>5. ASSUME \/ TurnLeavesToOperator(t) \/ TurnApproves(t) \/ Refused(t)
             \/ AppendRaises(t) \/ EmitRaises(t)
      PROVE  /\ \E w : /\ thread' = [thread EXCEPT ![t] = w]
                       /\ w.step \notin {"decided", "recorded"}
             /\ UNCHANGED <<ledger, bus, alive, queue>>
  BY <1>3, <1>4, <1>5 DEF TurnLeavesToOperator, TurnApproves, Refused,
    AppendRaises, EmitRaises
<1>6. PICK w : /\ thread' = [thread EXCEPT ![t] = w]
               /\ w.step \notin {"decided", "recorded"}
  BY <1>1, <1>2, <1>5
<1>7. /\ UNCHANGED <<ledger, bus, alive>>
      /\ \A x \in Approvals :
           queue'[x] = queue[x] \/ (queue[x] = "none" /\ queue'[x] = "PENDING")
  BY <1>1, <1>2, <1>5
<1> QED
  BY <1>6, <1>7, Quiet

\* Every step of Next keeps the invariant.
LEMMA NextInv == Inv /\ [Next]_vars => Inv'
<1> SUFFICES ASSUME Inv, [Next]_vars PROVE Inv'
  OBVIOUS
<1>1. CASE UNCHANGED vars
  <2>1. /\ TypeOK' /\ DeadOK' /\ OwnerOK'
    <3>1. \A id \in Approvals : LaterDecisions(id)' = LaterDecisions(id)
      BY <1>1, SameLedger DEF vars
    <3> QED
      BY <1>1, <3>1 DEF vars, Inv, TypeOK, DeadOK, OwnerOK, Owns, RowOK
  <2>2. OneDecisionAfterPending' /\ RestartForgetsNoDecision'
    BY <1>1, LedgerStays DEF vars, Inv
  <2>3. EmissionsAreRecorded'
    BY <1>1 DEF vars, Inv, EmissionsAreRecorded
  <2> QED
    BY <2>1, <2>2, <2>3 DEF Inv
<1>2. CASE Next
  <2>1. TypeOK'
    BY <1>2, NextType DEF Inv
  <2>2. CASE Exit \/ Boot
    BY <2>1, <2>2, RestartInv DEF Inv
  <2>3. ASSUME NEW t \in Threads,
               \/ \E id \in Approvals :
                    \/ TurnSubmits(t, id)
                    \/ \E verdict \in Verdicts : Look(t, id, verdict)
               \/ TurnRecords(t) \/ TurnLeavesToOperator(t) \/ TurnApproves(t)
               \/ Decide(t) \/ Refused(t)
               \/ Record(t) \/ AppendRaises(t)
               \/ Emit(t) \/ EmitRaises(t)
        PROVE  Inv'
    <3>1. /\ OwnerOK' /\ OneDecisionAfterPending'
          /\ RestartForgetsNoDecision' /\ EmissionsAreRecorded'
      BY <2>3, QuietInv, TurnRecordsInv, DecideInv, RecordInv, EmitInv
    <3>2. alive /\ alive' = alive
      <4>1. thread[t].step # "idle" => alive
        BY WorkingAlive
      <4> QED
        BY <2>3, <4>1 DEF TurnSubmits, Look, TurnRecords, TurnLeavesToOperator,
          TurnApproves, Decide, Refused, Record, AppendRaises, Emit, EmitRaises
    <3> QED
      BY <2>1, <3>1, <3>2 DEF Inv, DeadOK
  <2> QED
    BY <1>2, <2>2, <2>3 DEF Next
<1> QED
  BY <1>1, <1>2
-----------------------------------------------------------------------------
\* The types hold in every reachable state.
THEOREM TypeCorrect == Spec => []TypeOK
<1>1. Inv => TypeOK
  BY DEF Inv
<1> QED
  BY <1>1, InitInv, NextInv, PTL DEF Spec

\* Ledger first, bus second: no signal without an APPROVED row of its own.
THEOREM EmissionsRecorded == Spec => []EmissionsAreRecorded
<1>1. Inv => EmissionsAreRecorded
  BY DEF Inv
<1> QED
  BY <1>1, InitInv, NextInv, PTL DEF Spec

\* What a restart would read back agrees with the running queue.
THEOREM RestartSafe == Spec => []RestartForgetsNoDecision
<1>1. Inv => RestartForgetsNoDecision
  BY DEF Inv
<1> QED
  BY <1>1, InitInv, NextInv, PTL DEF Spec

\* The projection never meets a second decision.
THEOREM OneDecision == Spec => []OneDecisionAfterPending
<1>1. Inv => OneDecisionAfterPending
  BY DEF Inv
<1> QED
  BY <1>1, InitInv, NextInv, PTL DEF Spec

\* A running process never revises a decision.
THEOREM DecisionsAreOneWay == Spec => DecisionsStand
<1> DEFINE Step == alive /\ alive' => \A id \in Approvals :
                     queue[id] \in Verdicts => queue'[id] = queue[id]
<1>1. Inv /\ [Next]_vars => [Step]_vars
  <2> SUFFICES ASSUME Inv, Next, alive, alive',
                      NEW id \in Approvals, queue[id] \in Verdicts
               PROVE  queue'[id] = queue[id]
    OBVIOUS
  <2>1. "PENDING" \notin Verdicts /\ "none" \notin Verdicts
    BY DEF Verdicts
  <2> QED
    BY <2>1 DEF Next, Exit, Boot, TurnSubmits, Look, TurnRecords,
      TurnLeavesToOperator, TurnApproves, Decide, Refused, Record, AppendRaises,
      Emit, EmitRaises, Inv, TypeOK
<1> QED
  BY <1>1, InitInv, NextInv, PTL DEF Spec, DecisionsStand
\* No signal follows a rejection the projection knows.
THEOREM NoSignalAfterRejection == Spec => RejectionIsFinal
<1> DEFINE Step == \A id \in Approvals :
             bus' # bus /\ bus'[Len(bus')].id = id => Projection(id) # "REJECTED"
<1>1. Inv /\ [Next]_vars => [Step]_vars
  <2> SUFFICES ASSUME Inv, Next, NEW id \in Approvals,
                      bus' # bus, bus'[Len(bus')].id = id
               PROVE  Projection(id) # "REJECTED"
    OBVIOUS
  <2>1. PICK t \in Threads : Emit(t)
    BY DEF Next, Exit, Boot, TurnSubmits, Look, TurnRecords,
      TurnLeavesToOperator, TurnApproves, Decide, Refused, Record, AppendRaises,
      EmitRaises
  <2>2. /\ thread[t].step = "recorded" /\ thread[t].step # "idle"
        /\ bus' = Append(bus, [id |-> thread[t].id, row |-> thread[t].row])
    BY <2>1 DEF Emit
  <2>3. thread[t].id = id
    BY <2>2 DEF Inv, TypeOK
  <2>4. queue[id] = "APPROVED"
    <3>1. RowOK(t) /\ queue[id] = thread[t].verdict
      BY <2>2, <2>3 DEF Inv, OwnerOK, Owns
    <3> QED
      BY <3>1 DEF RowOK
  <2>5. alive
    BY <2>2, WorkingAlive
  <2> QED
    BY <2>4, <2>5 DEF Inv, RestartForgetsNoDecision, Verdicts
<1> QED
  BY <1>1, InitInv, NextInv, PTL DEF Spec, RejectionIsFinal
=============================================================================

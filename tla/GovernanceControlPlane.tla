------------------------ MODULE GovernanceControlPlane ------------------------
(***************************************************************************)
(* The write path to the system mode: the operator bridge, the kill        *)
(* switch, the hazard handler and the drift oracle call the state          *)
(* transition manager, which checks the FSM edge, the operator's consent   *)
(* envelope, the promotion gates, the readiness level and the policy, and  *)
(* commits to the authority ledger before it flips the mode.               *)
(*                                                                         *)
(* A caller is a thread that serves one request at a time.  It reads the   *)
(* mode (one critical section of the manager's lock), decides what to      *)
(* propose, and proposes (a second critical section): two steps between    *)
(* which other callers may run, unless the harness serialises requests     *)
(* with its own lock.  Inside the second section the ledger is written in  *)
(* up to three steps, between which writers that do not hold the manager's *)
(* lock append, an append raises, or the process stops.                    *)
(***************************************************************************)
EXTENDS ModeFSM, FiniteSets, Sequences

CONSTANTS
  Callers,          \* threads that serve requests
  Nonces,           \* consent nonces (with their operator)
  PolicyHashes,     \* decision-table hashes of the program's versions
  GateHashes,       \* contents promotion_gates.yaml may have
  None,             \* an absent mode, nonce or hash
  BootModes,        \* initial_mode the harness may pass
  RingCapacity,     \* NONCE_RING_CAPACITY
  Window,           \* CONSENT_FRESHNESS_WINDOW_NS
  RequireOperator,  \* modes named by REQUIRE_OPERATOR constraints
  Sources,          \* who may call: MODE, KILL, UNLOCK, HAZARD, DRIFT
  Targets,          \* the modes REQUEST_MODE may name
  HarnessLock,      \* requests run under the harness lock
  GatesWired,       \* a PromotionGates is passed to the manager
  ReadinessWired,   \* a readiness validator is passed to the manager
  LedgerMayFail,    \* an append may raise
  MayRestart,       \* the process may stop and boot again
  MaxTime,          \* bound on the clock
  MaxRows           \* no request is taken at this ledger length

ASSUME ConstantsOK ==
  /\ None \notin Modes \cup Nonces \cup PolicyHashes \cup GateHashes
  /\ BootModes \subseteq Modes
  /\ BootModes # {}
  /\ PolicyHashes # {}
  /\ GateHashes # {}
  /\ RingCapacity \in Nat \ {0}
  /\ Window \in Nat
  /\ RequireOperator \subseteq Modes
  /\ Sources \subseteq {"MODE", "KILL", "UNLOCK", "HAZARD", "DRIFT"}
  /\ Targets \subseteq Modes
  /\ {HarnessLock, GatesWired, ReadinessWired, LedgerMayFail, MayRestart}
       \subseteq BOOLEAN
  /\ MaxTime \in Nat
  /\ MaxRows \in Nat

VARIABLES
  mode,       \* StateTransitionManager._mode
  rows,       \* the authority ledger (durable)
  ring,       \* OperatorConsentValidator._seen_nonces
  policy,     \* PolicyEngine.table_hash
  bound,      \* PromotionGates._bound_hash
  gatesFile,  \* content of promotion_gates.yaml, None when it is missing
  readiness,  \* level the readiness validator would report
  envelopes,  \* consent envelopes operators have issued, by nonce
  clock,      \* wall clock
  pc,         \* where each caller is
  pend,       \* the request each caller is serving
  initial,    \* history: the initial_mode this process was given
  used        \* history: nonces committed since the boot, in order

vars == <<mode, rows, ring, policy, bound, gatesFile, readiness, envelopes,
          clock, pc, pend, initial, used>>
hist == <<initial, used>>
env  == <<gatesFile, readiness, envelopes, clock>>
-----------------------------------------------------------------------------
(***************************************************************************)
(* Ledger rows.  Every row has the same fields; those a kind does not use  *)
(* keep the value of BlankRow.                                             *)
(***************************************************************************)
RowKinds ==
  {"POLICY_TABLE_INSTALLED", "MODE_TRANSITION", "MODE_TRANSITION_REJECTED",
   "OPERATOR_CONSENT_ACCEPTED", "PROMOTION_GATES_BOUND", "OPERATOR_REJECTED",
   "INTENT_TRANSITION", "AUDIT"}

BlankRow ==
  [kind |-> "AUDIT", by |-> "NONE", prev |-> None, new |-> None,
   auth |-> FALSE, nonce |-> None, hash |-> None, code |-> OK]

\* The first row of every boot: the table hash.  The mode the manager starts
\* in is not recorded.
BootRow(h) ==
  [BlankRow EXCEPT !.kind = "POLICY_TABLE_INSTALLED", !.hash = h]

\* Mutant: the row reports the mode the caller read.
TransitionRow_CallersMode(r, prev) ==
  [BlankRow EXCEPT !.kind = "MODE_TRANSITION", !.by = r.by, !.prev = r.seen,
     !.new = r.target, !.auth = r.auth]

TransitionRow(r, prev) ==
  [BlankRow EXCEPT !.kind = "MODE_TRANSITION", !.by = r.by, !.prev = prev,
     !.new = r.target, !.auth = r.auth \/ EdgeRequiresConsent(prev, r.target)]

RejectedRow(r, prev, code) ==
  [BlankRow EXCEPT !.kind = "MODE_TRANSITION_REJECTED", !.by = r.by,
     !.prev = prev, !.new = r.target, !.code = code]

ConsentRow(r, prev) ==
  [BlankRow EXCEPT !.kind = "OPERATOR_CONSENT_ACCEPTED", !.by = r.by,
     !.prev = prev, !.new = r.target, !.nonce = r.nonce,
     !.hash = envelopes[r.nonce].hash]

BoundRow(h) ==
  [BlankRow EXCEPT !.kind = "PROMOTION_GATES_BOUND", !.hash = h]

OperatorRejectedRow(source, m, code) ==
  [BlankRow EXCEPT !.kind = "OPERATOR_REJECTED", !.by = source, !.prev = m,
     !.code = code]

SourceNames == {"MODE", "KILL", "UNLOCK", "HAZARD", "DRIFT"}

Codes ==
  {OK, "FSM_NO_OP", "FSM_LOCKED_ONLY_TO_SAFE", "FSM_FORWARD_SKIP",
   "CONSENT_MISSING", "CONSENT_MODE_FROM_MISMATCH", "CONSENT_FUTURE",
   "CONSENT_STALE", "CONSENT_POLICY_HASH_MISMATCH", "CONSENT_REPLAY",
   "PROMOTION_GATES_NOT_BOUND", "PROMOTION_GATES_FILE_MISSING",
   "PROMOTION_GATES_HASH_MISMATCH", "READINESS_INSUFFICIENT",
   "READINESS_VALIDATOR_UNAVAILABLE", "POLICY_OPERATOR_REQUIRED",
   "POLICY_LOCKED", "POLICY_NOT_LOCKED"}

\* Rows, of which those that anchor the gates carry a document's hash.
Rows ==
  {r \in [kind  : RowKinds,
          by    : SourceNames \cup {"NONE"},
          prev  : Modes \cup {None},
          new   : Modes \cup {None},
          auth  : BOOLEAN,
          nonce : Nonces \cup {None},
          hash  : PolicyHashes \cup GateHashes \cup {None},
          code  : Codes] :
     r.kind = "PROMOTION_GATES_BOUND" => r.hash \in GateHashes}

(***************************************************************************)
(* A request as the manager receives it.  seen is the mode its caller read *)
(* (the mode_from of the consent the bridge builds); at is the length the  *)
(* ledger had then, kept only so that properties can speak of it.          *)
(***************************************************************************)
Requests ==
  [by     : SourceNames,
   seen   : Modes,
   target : Modes,
   auth   : BOOLEAN,
   nonce  : Nonces \cup {None},
   ts     : Nat,
   at     : Nat]

Idle == [by |-> "HAZARD", seen |-> "SAFE", target |-> "SAFE", auth |-> FALSE,
         nonce |-> None, ts |-> 0, at |-> 0]

NotIssued == [ts |-> 0, hash |-> None]
-----------------------------------------------------------------------------
\* The manager's Lock: held from the first ledger write of a transition
\* to the end of propose.
LockFree == \A c \in Callers : pc[c] \notin {"consented", "binding"}

\* Mutant: requests are not serialised.
MayStart_NoHarnessLock(c) ==
  /\ pc[c] = "idle"
  /\ Len(rows) < MaxRows

\* The harness lock covers a request from its first read to its last write.
MayStart(c) ==
  /\ pc[c] = "idle"
  /\ Len(rows) < MaxRows
  /\ HarnessLock => \A d \in Callers : pc[d] = "idle"

Finish(c) ==
  /\ pc' = [pc EXCEPT ![c] = "idle"]
  /\ pend' = [pend EXCEPT ![c] = Idle]

\* Mutant: the ring holds (operator, nonce) pairs while InRing looks for
\* nonces.
Push_Pairs(n) ==
  IF Len(ring) < RingCapacity
  THEN Append(ring, <<"operator", n>>)
  ELSE Append(Tail(ring), <<"operator", n>>)

\* Mutant: a full ring takes no further nonce.
Push_NoEviction(n) == IF Len(ring) < RingCapacity THEN Append(ring, n) ELSE ring

\* deque(maxlen = RingCapacity).append
Push(n) ==
  IF Len(ring) < RingCapacity THEN Append(ring, n) ELSE Append(Tail(ring), n)

InRing(n) == \E i \in 1 .. Len(ring) : ring[i] = n

\* Mutant: the policy hash is not compared.
ConsentCode_AnyPolicy(prev, r) ==
  IF      ~EdgeRequiresConsent(prev, r.target)      THEN OK
  ELSE IF r.nonce = None                            THEN "CONSENT_MISSING"
  ELSE IF r.seen # prev                  THEN "CONSENT_MODE_FROM_MISMATCH"
  ELSE IF InRing(r.nonce)                           THEN "CONSENT_REPLAY"
  ELSE OK

\* OperatorConsentValidator.validate: the first failing check gives the code.
\* The bridge fills mode_from with the mode it read and mode_to with the
\* target, and passes no envelope when the edge it saw needed none.
ConsentCode(prev, r) ==
  IF      ~EdgeRequiresConsent(prev, r.target)      THEN OK
  ELSE IF r.nonce = None                            THEN "CONSENT_MISSING"
  ELSE IF r.seen # prev                  THEN "CONSENT_MODE_FROM_MISMATCH"
  ELSE IF envelopes[r.nonce].ts > r.ts              THEN "CONSENT_FUTURE"
  ELSE IF r.ts - envelopes[r.nonce].ts > Window     THEN "CONSENT_STALE"
  ELSE IF envelopes[r.nonce].hash # policy
                                     THEN "CONSENT_POLICY_HASH_MISMATCH"
  ELSE IF InRing(r.nonce)                           THEN "CONSENT_REPLAY"
  ELSE OK

\* PromotionGates.check
GateCode(target) ==
  IF      ~GatesWired \/ target \notin GatedTargets THEN OK
  ELSE IF bound = None               THEN "PROMOTION_GATES_NOT_BOUND"
  ELSE IF gatesFile = None           THEN "PROMOTION_GATES_FILE_MISSING"
  ELSE IF gatesFile # bound          THEN "PROMOTION_GATES_HASH_MISMATCH"
  ELSE OK

\* The readiness gate of propose: level.value < required_level, on strings.
ReadinessCode(target) ==
  IF ~ReadinessWired \/ target \notin GatedTargets THEN OK
  ELSE IF readiness = None THEN "READINESS_VALIDATOR_UNAVAILABLE"
  ELSE IF ReadinessOrder[readiness] < ReadinessOrder[RequiredReadiness[target]]
       THEN "READINESS_INSUFFICIENT"
  ELSE OK

\* The whole gate of propose, in its order.
Verdict(prev, r) ==
  LET authorized == r.auth \/ EdgeRequiresConsent(prev, r.target) IN
  IF      FsmCode(prev, r.target) # OK THEN FsmCode(prev, r.target)
  ELSE IF ConsentCode(prev, r) # OK    THEN ConsentCode(prev, r)
  ELSE IF GateCode(r.target) # OK      THEN GateCode(r.target)
  ELSE IF ReadinessCode(r.target) # OK THEN ReadinessCode(r.target)
  ELSE PolicyCode(prev, r.target, authorized, RequireOperator)
-----------------------------------------------------------------------------
Init ==
  /\ mode \in BootModes
  /\ policy \in PolicyHashes
  /\ rows = <<BootRow(policy)>>
  /\ ring = <<>>
  /\ bound = None
  /\ gatesFile \in IF GatesWired THEN GateHashes ELSE {None}
  /\ readiness \in IF ReadinessWired THEN ReadinessLevels ELSE {None}
  /\ envelopes = [n \in Nonces |-> NotIssued]
  /\ clock = 1
  /\ pc = [c \in Callers |-> "idle"]
  /\ pend = [c \in Callers |-> Idle]
  /\ initial = mode
  /\ used = <<>>

\* A caller has read the mode and is about to call propose.  The route
\* stamped the request before it waited for any lock.
Ask(c, source, target, auth, nonce) ==
  /\ MayStart(c)
  /\ LockFree
  /\ source \in Sources
  /\ pc' = [pc EXCEPT ![c] = "proposing"]
  /\ \E ts \in 1 .. clock :
       pend' = [pend EXCEPT ![c] =
         [by |-> source, seen |-> mode, target |-> target, auth |-> auth,
          nonce |-> nonce, ts |-> ts, at |-> Len(rows)]]
  /\ UNCHANGED <<mode, rows, ring, policy, bound, env, hist>>

\* OperatorInterfaceBridge.submit, an action the decision table refuses in
\* the mode just read.  Its row is written without the manager's lock.
Refuse(c, source) ==
  /\ OperatorActionCode(source, mode) # OK
  /\ MayStart(c)
  /\ LockFree
  /\ source \in Sources
  /\ pc' = [pc EXCEPT ![c] = "refused"]
  /\ pend' = [pend EXCEPT ![c] = [Idle EXCEPT !.by = source, !.seen = mode]]
  /\ UNCHANGED <<mode, rows, ring, policy, bound, env, hist>>

RecordRefusal(c) ==
  /\ pc[c] = "refused"
  /\ rows' = Append(rows, OperatorRejectedRow(pend[c].by, pend[c].seen,
                     OperatorActionCode(pend[c].by, pend[c].seen)))
  /\ Finish(c)
  /\ UNCHANGED <<mode, ring, policy, bound, env, hist>>

\* submit and _handle_mode up to propose.  An envelope is attached only when
\* the edge from the mode just read requires one.
RequestMode(c) ==
  /\ OperatorActionCode("MODE", mode) = OK
  /\ \E target \in Targets, auth \in BOOLEAN :
       \E nonce \in IF EdgeRequiresConsent(mode, target)
                   THEN {n \in Nonces : envelopes[n].ts > 0} \cup {None}
                   ELSE {None} :
         Ask(c, "MODE", target, auth, nonce)

\* submit, _handle_kill and KillSwitch.engage up to propose.
RequestKill(c) ==
  /\ OperatorActionCode("KILL", mode) = OK
  /\ Ask(c, "KILL", "LOCKED", TRUE, None)

\* submit and _handle_unlock up to propose.
RequestUnlock(c) ==
  /\ OperatorActionCode("UNLOCK", mode) = OK
  /\ Ask(c, "UNLOCK", "SAFE", TRUE, None)

\* GovernanceEngine.process on a HIGH or CRITICAL hazard, up to propose.
HazardLock(c) == Ask(c, "HAZARD", "LOCKED", TRUE, None)

\* DriftCompositeOracle.evaluate_and_downgrade on a breaching reading.
DriftDowngrade(c) ==
  /\ mode \in DOMAIN DowngradeTarget
  /\ Ask(c, "DRIFT", DowngradeTarget[mode], FALSE, None)

(***************************************************************************)
(* propose, from the acquisition of the manager's lock.                    *)
(***************************************************************************)
Accepted(c) ==
  /\ pc[c] = "proposing"
  /\ LockFree
  /\ Verdict(mode, pend[c]) = OK

\* The code a refused request is recorded with.  The append of the readiness
\* rejection stands in the try block whose handler reports the validator
\* unavailable, so when that append raises the handler appends again.
RecordedCodes(code) ==
  IF LedgerMayFail /\ code = "READINESS_INSUFFICIENT"
  THEN {code, "READINESS_VALIDATOR_UNAVAILABLE"}
  ELSE {code}

\* A failing check: one MODE_TRANSITION_REJECTED row, nothing else.
Reject(c) ==
  /\ pc[c] = "proposing"
  /\ LockFree
  /\ Verdict(mode, pend[c]) # OK
  /\ \E code \in RecordedCodes(Verdict(mode, pend[c])) :
       rows' = Append(rows, RejectedRow(pend[c], mode, code))
  /\ Finish(c)
  /\ UNCHANGED <<mode, ring, policy, bound, env, hist>>

\* The consent is committed: the nonce enters the ring, then its row is
\* written.  The manager keeps its lock.
CommitConsent(c) ==
  /\ Accepted(c)
  /\ EdgeRequiresConsent(mode, pend[c].target)
  /\ ring' = Push(pend[c].nonce)
  /\ rows' = Append(rows, ConsentRow(pend[c], mode))
  /\ pc' = [pc EXCEPT ![c] = "consented"]
  /\ used' = Append(used, pend[c].nonce)
  /\ UNCHANGED <<mode, policy, bound, env, pend, initial>>

\* Mutant: the consent need not be committed first.
CommitTransition_NoConsentRow(c) ==
  /\ Accepted(c) \/ pc[c] = "consented"
  /\ rows' = Append(rows, TransitionRow(pend[c], mode))
  /\ mode' = pend[c].target
  /\ Finish(c)
  /\ UNCHANGED <<ring, policy, bound, env, hist>>

\* The MODE_TRANSITION row, then the mode.  On PAPER entry the promotion
\* gates are bound next, still under the lock.
CommitTransition(c) ==
  /\ \/ Accepted(c) /\ ~EdgeRequiresConsent(mode, pend[c].target)
     \/ pc[c] = "consented"
  /\ rows' = Append(rows, TransitionRow(pend[c], mode))
  /\ mode' = pend[c].target
  /\ IF GatesWired /\ pend[c].target = "PAPER"
     THEN pc' = [pc EXCEPT ![c] = "binding"] /\ UNCHANGED pend
     ELSE Finish(c)
  /\ UNCHANGED <<ring, policy, bound, env, hist>>

\* PromotionGates.bind.
Bind(c) ==
  /\ pc[c] = "binding"
  /\ gatesFile # None
  /\ rows' = Append(rows, BoundRow(gatesFile))
  /\ bound' = gatesFile
  /\ Finish(c)
  /\ UNCHANGED <<mode, ring, policy, env, hist>>

\* Mutant: the failing bind never leaves propose.
BindFails_KeepsLock(c) ==
  /\ pc[c] = "binding"
  /\ gatesFile = None
  /\ UNCHANGED vars

\* bind raises FileNotFoundError: propose raises, the mode stays PAPER.
BindFails(c) ==
  /\ pc[c] = "binding"
  /\ gatesFile = None
  /\ Finish(c)
  /\ UNCHANGED <<mode, rows, ring, policy, bound, env, hist>>

\* Mutants: the mode is flipped before the MODE_TRANSITION row is written;
\* the bound hash is set before the PROMOTION_GATES_BOUND row is written.
AppendFails_ModeFlipped(c) ==
  /\ LedgerMayFail
  /\ Accepted(c) \/ pc[c] = "consented"
  /\ mode' = pend[c].target
  /\ Finish(c)
  /\ UNCHANGED <<rows, ring, policy, bound, env, hist>>

AppendFails_HashKept(c) ==
  /\ LedgerMayFail
  /\ pc[c] = "binding"
  /\ bound' = gatesFile
  /\ Finish(c)
  /\ UNCHANGED <<mode, rows, ring, policy, env, hist>>

\* LedgerAuthorityWriter.append raises: the exception leaves propose and
\* releases the lock; what was done before the append stays done.
AppendFails(c) ==
  /\ LedgerMayFail
  /\ \/ pc[c] = "proposing" /\ LockFree
     \/ pc[c] \in {"consented", "binding", "refused"}
  /\ IF Accepted(c) /\ EdgeRequiresConsent(mode, pend[c].target)
     THEN ring' = Push(pend[c].nonce) /\ used' = Append(used, pend[c].nonce)
     ELSE UNCHANGED <<ring, used>>
  /\ Finish(c)
  /\ UNCHANGED <<mode, rows, policy, bound, env, initial>>

(***************************************************************************)
(* Other writers of the ledger, the operators, the files and the process.  *)
(***************************************************************************)
\* propose_intent: under the manager's lock, no effect on the mode.
ProposeIntent ==
  /\ LockFree
  /\ Len(rows) < MaxRows
  /\ rows' = Append(rows, [BlankRow EXCEPT !.kind = "INTENT_TRANSITION"])
  /\ UNCHANGED <<mode, ring, policy, bound, env, hist, pc, pend>>

\* Audit rows: appended by threads that do not take the manager's lock.
AuditAppend ==
  /\ Len(rows) < MaxRows
  /\ rows' = Append(rows, BlankRow)
  /\ UNCHANGED <<mode, ring, policy, bound, env, hist, pc, pend>>

\* An operator issues an envelope under the table hash the program reports;
\* the console's clock may differ from the program's.
IssueConsent(n, ts) ==
  /\ envelopes[n] = NotIssued
  /\ envelopes' = [envelopes EXCEPT ![n] = [ts |-> ts, hash |-> policy]]
  /\ UNCHANGED <<mode, rows, ring, policy, bound, gatesFile, readiness, clock,
                 pc, pend, hist>>

Tick ==
  /\ clock < MaxTime
  /\ clock' = clock + 1
  /\ UNCHANGED <<mode, rows, ring, policy, bound, gatesFile, readiness,
                 envelopes, pc, pend, hist>>

\* The document of record is edited, deleted or restored.
EditGates(h) ==
  /\ GatesWired
  /\ h # gatesFile
  /\ gatesFile' = h
  /\ UNCHANGED <<mode, rows, ring, policy, bound, readiness, envelopes, clock,
                 pc, pend, hist>>

ReadinessChanges(level) ==
  /\ ReadinessWired
  /\ level # readiness
  /\ readiness' = level
  /\ UNCHANGED <<mode, rows, ring, policy, bound, gatesFile, envelopes, clock,
                 pc, pend, hist>>

\* The process stops, whatever its threads were doing, and boots: only the
\* ledger survives.  The mode comes from the environment, and the new process
\* may run another version of the table.
Restart(m, h) ==
  /\ MayRestart
  /\ Len(rows) < MaxRows
  /\ mode' = m
  /\ policy' = h
  /\ rows' = Append(rows, BootRow(h))
  /\ ring' = <<>>
  /\ bound' = None
  /\ pc' = [c \in Callers |-> "idle"]
  /\ pend' = [c \in Callers |-> Idle]
  /\ initial' = m
  /\ used' = <<>>
  /\ UNCHANGED env

OfKind(s, i, kind) == i \in 1 .. Len(s) /\ s[i].kind = kind

\* The last row that anchors the promotion gates, in any boot.
LatestBound(s, i) ==
  /\ OfKind(s, i, "PROMOTION_GATES_BOUND")
  /\ \A k \in i + 1 .. Len(s) : ~OfKind(s, k, "PROMOTION_GATES_BOUND")

\* The hash the ledger anchored last, in this process or an earlier one.
AnchorOf(s) ==
  IF \E i \in 1 .. Len(s) : LatestBound(s, i)
  THEN s[CHOOSE i \in 1 .. Len(s) : LatestBound(s, i)].hash
  ELSE None

\* PromotionGates.replay_from_ledger: a process picks up the anchor that it or
\* an earlier one left.  Nothing in the program calls it yet: it may be called at
\* any time or never, reading the ledger and setting the hash in one step.
ReplayGates ==
  /\ GatesWired
  /\ bound' = AnchorOf(rows)
  /\ UNCHANGED <<mode, rows, ring, policy, env, hist, pc, pend>>

Serve(c) ==
  \/ RecordRefusal(c)
  \/ Reject(c) \/ CommitConsent(c) \/ CommitTransition(c)
  \/ Bind(c) \/ BindFails(c)

Request(c) ==
  \/ \E source \in {"MODE", "KILL", "UNLOCK"} : Refuse(c, source)
  \/ RequestMode(c) \/ RequestKill(c) \/ RequestUnlock(c)
  \/ HazardLock(c) \/ DriftDowngrade(c)

Next ==
  \/ \E c \in Callers : Request(c) \/ Serve(c) \/ AppendFails(c)
  \/ ProposeIntent
  \/ AuditAppend
  \/ \E n \in Nonces, ts \in 1 .. MaxTime : IssueConsent(n, ts)
  \/ Tick
  \/ \E h \in GateHashes \cup {None} : EditGates(h)
  \/ \E level \in ReadinessLevels \cup {None} : ReadinessChanges(level)
  \/ \E m \in BootModes, h \in PolicyHashes : Restart(m, h)
  \/ ReplayGates

Spec == Init /\ [][Next]_vars

\* A thread inside propose runs to its end.  Nothing obliges an operator, a
\* sensor or the environment to act.
Fairness == \A c \in Callers : WF_vars(Serve(c))

FairSpec == Spec /\ Fairness
-----------------------------------------------------------------------------
(***************************************************************************)
(* Reading the ledger.                                                     *)
(***************************************************************************)
\* Rows from which the mode is another one: a transition names it, a boot
\* takes it from the environment.
SetsMode(s, i) ==
  OfKind(s, i, "MODE_TRANSITION") \/ OfKind(s, i, "POLICY_TABLE_INSTALLED")

\* i is the last row before j that sets the mode.
SetsModeBefore(s, i, j) ==
  /\ i < j
  /\ SetsMode(s, i)
  /\ \A k \in i + 1 .. j - 1 : ~SetsMode(s, k)

\* No boot between rows i and j.
SameBoot(s, i, j) ==
  \A k \in i + 1 .. j : ~OfKind(s, k, "POLICY_TABLE_INSTALLED")

\* The latest boot row at or before j.
BootOf(s, i, j) ==
  /\ i <= j
  /\ OfKind(s, i, "POLICY_TABLE_INSTALLED")
  /\ SameBoot(s, i, j)

TypeOK ==
  /\ mode \in Modes
  /\ rows \in Seq(Rows)
  /\ ring \in Seq(Nonces)
  /\ policy \in PolicyHashes
  /\ bound \in GateHashes \cup {None}
  /\ gatesFile \in GateHashes \cup {None}
  /\ readiness \in ReadinessLevels \cup {None}
  /\ envelopes \in [Nonces -> [ts : Nat, hash : PolicyHashes \cup {None}]]
  /\ clock \in Nat
  /\ pc \in [Callers -> {"idle", "refused", "proposing", "consented",
                         "binding"}]
  /\ pend \in [Callers -> Requests]
  /\ initial \in BootModes
  /\ used \in Seq(Nonces)

(***************************************************************************)
(* Safety.                                                                 *)
(***************************************************************************)
\* Row i leaves mode m, when the boot it belongs to started in mode b.
Leaves(s, i, b, m) == m = IF OfKind(s, i, "MODE_TRANSITION") THEN s[i].new ELSE b

\* The rows since the last boot, which started in mode b, end in mode m.
Explains(s, b, m) ==
  \E i \in 1 .. Len(s) : SetsModeBefore(s, i, Len(s) + 1) /\ Leaves(s, i, b, m)

\* Within a boot the durable ledger is a complete account of the mode: it is
\* what the last MODE_TRANSITION row since the boot row says, or the
\* initial_mode while there is none, whatever interleaving, failed append or
\* earlier boot came before (the "append, then flip" order of
\* StateTransitionManager.propose).
LedgerExplainsMode == Explains(rows, initial, mode)

\* The row at j follows a legal edge from the mode the rows before it left;
\* the first of a boot starts in a mode a process may boot in.
LegalRow(s, j) ==
  /\ IsLegalEdge(s[j].prev, s[j].new)
  /\ \E i \in 1 .. j - 1, b \in BootModes :
       SetsModeBefore(s, i, j) /\ Leaves(s, i, b, s[j].prev)

\* The MODE_TRANSITION rows form a path of legal edges: each starts in the
\* mode the previous row that set the mode left.
LegalHistory ==
  \A j \in 1 .. Len(rows) :
    OfKind(rows, j, "MODE_TRANSITION") => LegalRow(rows, j)

\* Row i is an accepted consent for the edge and every later row before j
\* comes from a writer that does not take the manager's lock.
ConsentStands(s, i, j, prev, new) ==
  /\ i < j
  /\ OfKind(s, i, "OPERATOR_CONSENT_ACCEPTED")
  /\ s[i].prev = prev
  /\ s[i].new = new
  /\ \A k \in i + 1 .. j - 1 : s[k].kind \in {"AUDIT", "OPERATOR_REJECTED"}

CoveredRow(s, j) ==
  EdgeRequiresConsent(s[j].prev, s[j].new) =>
    \E i \in 1 .. j - 1 : ConsentStands(s, i, j, s[j].prev, s[j].new)

\* Every transition over a consent-required edge is covered by its own
\* OPERATOR_CONSENT_ACCEPTED row: one with the same edge, with no other
\* decision of the manager between the two.
ConsentCoversTransition ==
  \A j \in 1 .. Len(rows) :
    OfKind(rows, j, "MODE_TRANSITION") => CoveredRow(rows, j)

\* A consent takes effect only under the table version it was given for: the
\* hash on its row is the one installed at the boot the row belongs to, even
\* when the program was upgraded between the signature and the request.
ConsentUnderInstalledPolicy ==
  \A i, j \in 1 .. Len(rows) :
    OfKind(rows, j, "OPERATOR_CONSENT_ACCEPTED") /\ BootOf(rows, i, j) =>
      rows[j].hash = rows[i].hash

\* When requests are serialised, only an operator's REQUEST_MODE raises the
\* mode; into LIVE or AUTO only with operator authorisation.  Kills,
\* unlocks, hazards and the drift oracle can only restrict.
OnlyOperatorsRaise ==
  \A j \in 1 .. Len(rows) :
    OfKind(rows, j, "MODE_TRANSITION") /\ Forward(rows[j].prev, rows[j].new) =>
      /\ rows[j].by = "MODE"
      /\ rows[j].new \in {"LIVE", "AUTO"} => rows[j].auth

\* The step in which propose lets caller c pass all its checks.
Passes(c) ==
  /\ pc[c] = "proposing"
  /\ Len(rows') = Len(rows) + 1
  /\ rows'[Len(rows')].kind \in {"MODE_TRANSITION", "OPERATOR_CONSENT_ACCEPTED"}
  /\ pc'[c] # "proposing"

\* When the gates are wired, no request passes into CANARY, LIVE or AUTO
\* unless the file then on disk is the one whose hash the ledger anchored
\* last, by this process or by one before it, whatever was edited, deleted,
\* rebooted or replayed in between.
GatedEntryUnderAnchoredDocument ==
  [][GatesWired => \A c \in Callers :
       Passes(c) /\ pend[c].target \in GatedTargets =>
         \E i \in 1 .. Len(rows) :
           LatestBound(rows, i) /\ rows[i].hash = gatesFile]_vars

\* Leaving LOCKED within a boot takes an operator's REQUEST_UNLOCK, made
\* after the lock it undoes: no lock was taken since the request read the
\* mode.
UnlockUndoesTheLockItSaw ==
  [][mode = "LOCKED" /\ mode' # "LOCKED"
     /\ rows'[Len(rows')].kind = "MODE_TRANSITION" =>
       \E c \in Callers :
         /\ pc[c] = "proposing" /\ pc'[c] = "idle"
         /\ pend[c].by = "UNLOCK"
         /\ \A k \in pend[c].at + 1 .. Len(rows) :
              OfKind(rows, k, "MODE_TRANSITION") => rows[k].new # "LOCKED"]_vars

(***************************************************************************)
(* Liveness, under FairSpec.                                               *)
(***************************************************************************)
\* The manager's lock is never kept: every request is answered.
EveryRequestAnswered ==
  \A c \in Callers : pc[c] # "idle" ~> pc[c] = "idle"

\* A kill or a HIGH/CRITICAL hazard that reached the manager locks the
\* system, whatever the other callers do meanwhile.
KillLocks ==
  \A c \in Callers :
    pc[c] = "proposing" /\ pend[c].by \in {"KILL", "HAZARD"} ~> mode = "LOCKED"

(***************************************************************************)
(* Refinement of ModeAuthority.                                            *)
(***************************************************************************)
\* Consents used since the boot, one in flight excepted: a consent is used at
\* the MODE_TRANSITION row that follows its own row.
Spent ==
  IF \E c \in Callers : pc[c] = "consented"
  THEN SubSeq(used, 1, Len(used) - 1)
  ELSE used

Authority ==
  INSTANCE ModeAuthority WITH spent <- Spent, Memory <- RingCapacity

\* The threads, the ledger, failed appends, restarts and a ring that evicts
\* together behave as ModeAuthority: every change of the mode is one legal
\* edge, and no consent is used again while it is among the RingCapacity
\* consents this process used last.
ImplementsModeAuthority == Authority!Spec
=============================================================================

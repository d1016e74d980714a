-------------------- MODULE GovernanceControlPlaneProofs --------------------
(***************************************************************************)
(* Theorems about GovernanceControlPlane, for any number of callers,       *)
(* nonces and table versions and whatever is wired: types; that the ledger *)
(* explains the mode and is a legal history whose consent edges are        *)
(* covered; that consents belong to the installed table; that gated modes  *)
(* are entered under the anchored document; what the harness lock adds for *)
(* steps up and for unlocks; and that the control plane, with a ring of    *)
(* any capacity, implements ModeAuthority.                                 *)
(***************************************************************************)
EXTENDS GovernanceControlPlane, SequenceTheorems, TLAPS

LEMMA ModeFSMTypes ==
  /\ Chain \subseteq Modes
  /\ "LOCKED" \in Modes
  /\ \A m \in DOMAIN DowngradeTarget : DowngradeTarget[m] \in Modes
  /\ \A p, t : FsmCode(p, t) \in Codes
  /\ \A p, t, a, r : PolicyCode(p, t, a, r) \in Codes
  /\ \A a, m : OperatorActionCode(a, m) \in Codes
BY DEF Chain, Modes, DowngradeTarget, FsmCode, PolicyCode, OperatorActionCode,
       Codes, OK

\* The gate of propose answers with one of the codes.
LEMMA VerdictType == \A p, r : Verdict(p, r) \in Codes
<1>1. \A p, r : ConsentCode(p, r) \in Codes
  BY DEF ConsentCode, Codes, OK
<1>2. \A t : GateCode(t) \in Codes /\ ReadinessCode(t) \in Codes
  BY DEF GateCode, ReadinessCode, Codes, OK
<1> QED
  BY <1>1, <1>2, ModeFSMTypes DEF Verdict

LEMMA BlankRowType == BlankRow \in Rows
BY DEF BlankRow, Rows, RowKinds, Codes, OK

\* An accepted request over a consent-required edge carries a nonce.
LEMMA AcceptedHasNonce ==
  ASSUME TypeOK, NEW c \in Callers, Accepted(c),
         EdgeRequiresConsent(mode, pend[c].target)
  PROVE  pend[c].nonce \in Nonces
<1>1. ConsentCode(mode, pend[c]) = OK
  BY DEF Accepted, Verdict
<1>2. pend[c].nonce # None
  BY <1>1 DEF ConsentCode, OK
<1> QED
  BY <1>2 DEF TypeOK, Requests

LEMMA PushType ==
  ASSUME ring \in Seq(Nonces), NEW n \in Nonces
  PROVE  Push(n) \in Seq(Nonces)
<1>1. CASE Len(ring) < RingCapacity
  BY <1>1 DEF Push
<1>2. CASE ~(Len(ring) < RingCapacity)
  <2>1. ring # <<>>
    BY <1>2, ConstantsOK
  <2>2. Tail(ring) \in Seq(Nonces)
    BY <2>1
  <2> QED
    BY <1>2, <2>2 DEF Push
<1> QED
  BY <1>1, <1>2

\* The ledger anchors a document, or none.
LEMMA AnchorOfType ==
  ASSUME NEW s \in Seq(Rows)
  PROVE  AnchorOf(s) \in GateHashes \cup {None}
<1>1. CASE \E i \in 1 .. Len(s) : LatestBound(s, i)
  <2>1. PICK i \in 1 .. Len(s) :
          LatestBound(s, i) /\ AnchorOf(s) = s[i].hash
    BY <1>1 DEF AnchorOf
  <2>2. s[i] \in Rows /\ s[i].kind = "PROMOTION_GATES_BOUND"
    BY <2>1 DEF LatestBound, OfKind
  <2> QED
    BY <2>1, <2>2 DEF Rows
<1>2. CASE ~ \E i \in 1 .. Len(s) : LatestBound(s, i)
  BY <1>2 DEF AnchorOf
<1> QED
  BY <1>1, <1>2

-----------------------------------------------------------------------------
\* Every variable keeps its type, whatever the constants.
THEOREM TypeCorrect == Spec => []TypeOK
<1>1. Init => TypeOK
  <2> SUFFICES ASSUME Init PROVE TypeOK
    OBVIOUS
  <2>1. BootRow(policy) \in Rows
    BY ConstantsOK DEF Init, BootRow, BlankRow, Rows, RowKinds, Codes, OK
  <2>2. Idle \in Requests
    BY ConstantsOK DEF Idle, Requests, SourceNames, Modes, Chain
  <2> QED
    BY <2>1, <2>2, ConstantsOK DEF Init, TypeOK, NotIssued
<1>2. TypeOK /\ [Next]_vars => TypeOK'
  <2> SUFFICES ASSUME TypeOK, [Next]_vars PROVE TypeOK'
    OBVIOUS
  <2> USE ConstantsOK
  <2>idle. Idle \in Requests
    BY DEF Idle, Requests, SourceNames, Modes, Chain
  <2>finish. ASSUME NEW c \in Callers, Finish(c)
             PROVE  /\ pc' \in [Callers -> {"idle", "refused", "proposing", "consented", "binding"}]
                    /\ pend' \in [Callers -> Requests]
    BY <2>idle, <2>finish DEF TypeOK, Finish
  <2>ask. ASSUME NEW c \in Callers, NEW s, NEW t \in Modes, NEW a \in BOOLEAN,
                 NEW n \in Nonces \cup {None}, Ask(c, s, t, a, n)
          PROVE  TypeOK'
    <3>1. \A ts \in 1 .. clock :
            [by |-> s, seen |-> mode, target |-> t, auth |-> a, nonce |-> n,
             ts |-> ts, at |-> Len(rows)] \in Requests
      BY <2>ask DEF Ask, TypeOK, Requests, SourceNames
    <3> QED
      BY <2>ask, <3>1 DEF Ask, TypeOK, env, hist
  <2>1. ASSUME NEW c \in Callers, Request(c) PROVE TypeOK'
    <3>1. ASSUME NEW s \in {"MODE", "KILL", "UNLOCK"}, Refuse(c, s)
          PROVE TypeOK'
      <4>1. [Idle EXCEPT !.by = s, !.seen = mode] \in Requests
        BY <2>idle DEF TypeOK, Idle, Requests, SourceNames
      <4> QED
        BY <3>1, <4>1 DEF Refuse, TypeOK, env, hist
    <3>2. CASE RequestMode(c)
      <4>1. PICK t \in Targets, a \in BOOLEAN, n \in Nonces \cup {None} :
              Ask(c, "MODE", t, a, n)
        BY <3>2 DEF RequestMode
      <4> QED
        BY <4>1, <2>ask
    <3>3. CASE RequestKill(c)
      BY <3>3, <2>ask, ModeFSMTypes DEF RequestKill
    <3>4. CASE RequestUnlock(c)
      BY <3>4, <2>ask DEF RequestUnlock, Modes, Chain
    <3>5. CASE HazardLock(c)
      BY <3>5, <2>ask, ModeFSMTypes DEF HazardLock
    <3>6. CASE DriftDowngrade(c)
      BY <3>6, <2>ask, ModeFSMTypes DEF DriftDowngrade
    <3> QED
      BY <2>1, <3>1, <3>2, <3>3, <3>4, <3>5, <3>6 DEF Request
  <2>2. ASSUME NEW c \in Callers, Serve(c) PROVE TypeOK'
    <3>1. CASE RecordRefusal(c)
      <4>1. OperatorRejectedRow(pend[c].by, pend[c].seen,
              OperatorActionCode(pend[c].by, pend[c].seen)) \in Rows
        BY ModeFSMTypes DEF OperatorRejectedRow, BlankRow, Rows, RowKinds,
           TypeOK, Requests
      <4> QED
        BY <3>1, <4>1, <2>finish DEF RecordRefusal, TypeOK, env, hist
    <3>2. CASE Reject(c)
      <4>1. PICK code \in RecordedCodes(Verdict(mode, pend[c])) :
              rows' = Append(rows, RejectedRow(pend[c], mode, code))
        BY <3>2 DEF Reject
      <4>2. code \in Codes
        BY VerdictType DEF RecordedCodes, Codes
      <4>3. RejectedRow(pend[c], mode, code) \in Rows
        BY <4>2 DEF RejectedRow, BlankRow, Rows, RowKinds, TypeOK, Requests
      <4> QED
        BY <3>2, <4>1, <4>3, <2>finish DEF Reject, TypeOK, env, hist
    <3>3. CASE CommitConsent(c)
      <4>1. pend[c].nonce \in Nonces
        BY <3>3, AcceptedHasNonce DEF CommitConsent
      <4>2. ConsentRow(pend[c], mode) \in Rows
        BY <4>1 DEF ConsentRow, BlankRow, Rows, RowKinds, Codes, OK, TypeOK,
           Requests
      <4>3. Push(pend[c].nonce) \in Seq(Nonces)
        BY <4>1, PushType DEF TypeOK
      <4> QED
        BY <3>3, <4>1, <4>2, <4>3 DEF CommitConsent, TypeOK, env, hist
    <3>4. CASE CommitTransition(c)
      <4>1. TransitionRow(pend[c], mode) \in Rows
        BY DEF TransitionRow, BlankRow, Rows, RowKinds, Codes, OK, TypeOK,
           Requests, EdgeRequiresConsent
      <4>2. pend[c].target \in Modes
        BY DEF TypeOK, Requests
      <4>3. /\ pc' \in [Callers -> {"idle", "refused", "proposing", "consented", "binding"}]
            /\ pend' \in [Callers -> Requests]
        <5>1. CASE GatesWired /\ pend[c].target = "PAPER"
          BY <3>4, <5>1 DEF CommitTransition, TypeOK
        <5>2. CASE ~(GatesWired /\ pend[c].target = "PAPER")
          BY <3>4, <5>2, <2>finish DEF CommitTransition
        <5> QED
          BY <5>1, <5>2
      <4> QED
        BY <3>4, <4>1, <4>2, <4>3 DEF CommitTransition, TypeOK, env, hist
    <3>5. CASE Bind(c)
      <4>1. gatesFile \in GateHashes /\ BoundRow(gatesFile) \in Rows
        BY <3>5 DEF Bind, BoundRow, BlankRow, Rows, RowKinds, Codes, OK, TypeOK
      <4> QED
        BY <3>5, <4>1, <2>finish DEF Bind, TypeOK, env, hist
    <3>6. CASE BindFails(c)
      BY <3>6, <2>finish DEF BindFails, TypeOK, env, hist
    <3> QED
      BY <2>2, <3>1, <3>2, <3>3, <3>4, <3>5, <3>6 DEF Serve
  <2>3. ASSUME NEW c \in Callers, AppendFails(c) PROVE TypeOK'
    <3>1. ring' \in Seq(Nonces) /\ used' \in Seq(Nonces)
      <4>1. CASE Accepted(c) /\ EdgeRequiresConsent(mode, pend[c].target)
        <5>1. pend[c].nonce \in Nonces
          BY <4>1, AcceptedHasNonce
        <5>2. ring \in Seq(Nonces) /\ used \in Seq(Nonces)
          BY DEF TypeOK
        <5>3. ring' = Push(pend[c].nonce) /\ used' = Append(used, pend[c].nonce)
          BY <2>3, <4>1 DEF AppendFails
        <5>4. Push(pend[c].nonce) \in Seq(Nonces)
          BY <5>1, <5>2, PushType
        <5> QED
          BY <5>1, <5>2, <5>3, <5>4, AppendProperties
      <4>2. CASE ~(Accepted(c) /\ EdgeRequiresConsent(mode, pend[c].target))
        BY <2>3, <4>2 DEF AppendFails, TypeOK
      <4> QED
        BY <4>1, <4>2
    <3> QED
      BY <2>3, <3>1, <2>finish DEF AppendFails, TypeOK, env, hist
  <2>4. CASE ProposeIntent
    <3>1. [BlankRow EXCEPT !.kind = "INTENT_TRANSITION"] \in Rows
      BY BlankRowType DEF BlankRow, Rows, RowKinds
    <3> QED
      BY <2>4, <3>1 DEF ProposeIntent, TypeOK, env, hist
  <2>5. CASE AuditAppend
    BY <2>5, BlankRowType DEF AuditAppend, TypeOK, env, hist
  <2>6. ASSUME NEW n \in Nonces, NEW ts \in 1 .. MaxTime, IssueConsent(n, ts)
        PROVE TypeOK'
    BY <2>6 DEF IssueConsent, TypeOK, hist
  <2>7. CASE Tick
    BY <2>7 DEF Tick, TypeOK, hist
  <2>8. ASSUME NEW h \in GateHashes \cup {None}, EditGates(h) PROVE TypeOK'
    BY <2>8 DEF EditGates, TypeOK, hist
  <2>9. ASSUME NEW l \in ReadinessLevels \cup {None}, ReadinessChanges(l)
        PROVE TypeOK'
    BY <2>9 DEF ReadinessChanges, TypeOK, hist
  <2>10. ASSUME NEW m \in BootModes, NEW h \in PolicyHashes, Restart(m, h)
         PROVE TypeOK'
    <3>1. BootRow(h) \in Rows
      BY DEF BootRow, BlankRow, Rows, RowKinds, Codes, OK
    <3> QED
      BY <2>10, <2>idle, <3>1 DEF Restart, TypeOK, env, hist
  <2>11. CASE ReplayGates
    BY <2>11, AnchorOfType DEF ReplayGates, TypeOK, env, hist
  <2>12. CASE UNCHANGED vars
    BY <2>12 DEF vars, TypeOK
  <2> QED
    BY <2>1, <2>2, <2>3, <2>4, <2>5, <2>6, <2>7, <2>8, <2>9, <2>10, <2>11,
       <2>12 DEF Next
<1> QED
  BY <1>1, <1>2, PTL DEF Spec
-----------------------------------------------------------------------------
(***************************************************************************)
(* The ledger.  A transition takes up to three steps; LedgerInv adds to    *)
(* the ledger properties what holds between them: one caller at a time is  *)
(* past its checks, and the mode it checked against and the consent row it *)
(* wrote still stand.                                                      *)
(***************************************************************************)
InPropose == {"consented", "binding"}

OneInPropose ==
  \A c, d \in Callers : pc[c] \in InPropose /\ pc[d] \in InPropose => c = d

\* The consent row for edge prev -> new is in ledger s and stands.
Pending(s, prev, new) ==
  \E i \in 1 .. Len(s) : ConsentStands(s, i, Len(s) + 1, prev, new)

ConsentInFlight ==
  \A c \in Callers : pc[c] = "consented" =>
    /\ EdgeRequiresConsent(mode, pend[c].target)
    /\ Pending(rows, mode, pend[c].target)

LedgerInv ==
  /\ LedgerExplainsMode
  /\ LegalHistory
  /\ ConsentCoversTransition
  /\ OneInPropose
  /\ ConsentInFlight

LEMMA EdgesAreLegal ==
  ASSUME NEW p \in Modes, NEW t \in Modes
  PROVE  /\ FsmCode(p, t) = OK => IsLegalEdge(p, t)
         /\ EdgeRequiresConsent(p, t) => IsLegalEdge(p, t)
<1>1. FsmCode(p, t) = OK => IsLegalEdge(p, t)
  BY DEF FsmCode, OK
<1>2. EdgeRequiresConsent(p, t) => IsLegalEdge(p, t)
  BY DEF EdgeRequiresConsent, IsLegalEdge, Forward, Chain, ChainIndex
<1> QED
  BY <1>1, <1>2

(***************************************************************************)
(* Lemmas on ledgers: what appending a row r to a ledger s keeps.          *)
(***************************************************************************)
LEMMA AppendRow ==
  ASSUME NEW s \in Seq(Rows), NEW r \in Rows
  PROVE  /\ Append(s, r) \in Seq(Rows)
         /\ Len(s) \in Nat
         /\ Len(Append(s, r)) = Len(s) + 1
         /\ Append(s, r)[Len(s) + 1] = r
         /\ \A i \in 1 .. Len(s) : Append(s, r)[i] = s[i]
OBVIOUS

\* Kinds of the rows, after the append.
LEMMA AppendKind ==
  ASSUME NEW s \in Seq(Rows), NEW r \in Rows
  PROVE  \A k \in Int : \A kind :
           OfKind(Append(s, r), k, kind) <=>
             \/ OfKind(s, k, kind)
             \/ k = Len(s) + 1 /\ r.kind = kind
BY AppendRow DEF OfKind

\* What is said of the rows before j stays true.
LEMMA EarlierRowsStand ==
  ASSUME NEW s \in Seq(Rows), NEW r \in Rows,
         NEW j \in 1 .. Len(s) + 1, NEW i \in 1 .. j - 1
  PROVE  /\ i \in 1 .. Len(s)
         /\ Append(s, r)[i] = s[i]
         /\ SetsModeBefore(s, i, j) => SetsModeBefore(Append(s, r), i, j)
         /\ \A b, m : Leaves(s, i, b, m) => Leaves(Append(s, r), i, b, m)
         /\ \A m, t : ConsentStands(s, i, j, m, t) =>
              ConsentStands(Append(s, r), i, j, m, t)
<1> DEFINE S == Append(s, r)
<1>1. /\ Len(s) \in Nat /\ i \in 1 .. Len(s) /\ S[i] = s[i]
      /\ \A k \in i .. j - 1 : k \in Int /\ k \in 1 .. Len(s) /\ S[k] = s[k]
  BY AppendRow
<1>2. \A k \in i .. j - 1 : SetsMode(S, k) <=> SetsMode(s, k)
  BY <1>1, AppendKind DEF SetsMode
<1>3. SetsModeBefore(s, i, j) => SetsModeBefore(S, i, j)
  BY <1>1, <1>2 DEF SetsModeBefore
<1>4. ASSUME NEW m, NEW t, ConsentStands(s, i, j, m, t)
      PROVE  ConsentStands(S, i, j, m, t)
  BY <1>1, <1>4, AppendKind DEF ConsentStands
<1>5. \A b, m : Leaves(s, i, b, m) => Leaves(S, i, b, m)
  BY <1>1, AppendKind DEF Leaves, OfKind
<1> QED
  BY <1>1, <1>3, <1>4, <1>5

\* Rows keep their place in the history.
LEMMA HistoryStands ==
  ASSUME NEW s \in Seq(Rows), NEW r \in Rows, NEW j \in 1 .. Len(s)
  PROVE  /\ LegalRow(s, j) => LegalRow(Append(s, r), j)
         /\ CoveredRow(s, j) => CoveredRow(Append(s, r), j)
<1>1. j \in 1 .. Len(s) + 1 /\ Append(s, r)[j] = s[j]
  BY AppendRow
<1>2. LegalRow(s, j) => LegalRow(Append(s, r), j)
  BY <1>1, EarlierRowsStand DEF LegalRow
<1>3. CoveredRow(s, j) => CoveredRow(Append(s, r), j)
  BY <1>1, EarlierRowsStand DEF CoveredRow
<1> QED
  BY <1>2, <1>3

\* A row that is no transition and no boot leaves the mode explained.
LEMMA SideRowExplains ==
  ASSUME NEW s \in Seq(Rows), NEW r \in Rows, NEW b, NEW m, Explains(s, b, m),
         r.kind \notin {"MODE_TRANSITION", "POLICY_TABLE_INSTALLED"}
  PROVE  Explains(Append(s, r), b, m)
<1>1. PICK i \in 1 .. Len(s) :
        SetsModeBefore(s, i, Len(s) + 1) /\ Leaves(s, i, b, m)
  BY DEF Explains
<1>2. /\ i \in 1 .. (Len(s) + 1) - 1
      /\ Len(s) + 1 \in 1 .. Len(s) + 1
  BY AppendRow
<1>3. SetsModeBefore(Append(s, r), i, Len(s) + 1) /\ Leaves(Append(s, r), i, b, m)
  BY <1>1, <1>2, EarlierRowsStand
<1>4. ~SetsMode(Append(s, r), Len(s) + 1)
  BY AppendRow DEF SetsMode, OfKind
<1>5. SetsModeBefore(Append(s, r), i, Len(Append(s, r)) + 1)
  BY <1>2, <1>3, <1>4, AppendRow DEF SetsModeBefore
<1> QED
  BY <1>2, <1>3, <1>5, AppendRow DEF Explains

\* A transition explains the mode it names, a boot the one it started in.
LEMMA ModeRowExplains ==
  ASSUME NEW s \in Seq(Rows), NEW r \in Rows, NEW b
  PROVE  /\ r.kind = "MODE_TRANSITION" => Explains(Append(s, r), b, r.new)
         /\ r.kind = "POLICY_TABLE_INSTALLED" => Explains(Append(s, r), b, b)
<1> DEFINE S == Append(s, r)
<1>1. /\ Len(s) \in Nat
      /\ Len(S) = Len(s) + 1
      /\ S[Len(s) + 1] = r
  BY AppendRow
<1> HIDE DEF S
<1>2. ASSUME NEW m, r.kind \in {"MODE_TRANSITION", "POLICY_TABLE_INSTALLED"},
             Leaves(S, Len(S), b, m)
      PROVE  Explains(S, b, m)
  <2>1. Len(S) \in 1 .. Len(S)
    BY <1>1
  <2>2. SetsModeBefore(S, Len(S), Len(S) + 1)
    BY <1>1, <1>2 DEF SetsModeBefore, SetsMode, OfKind
  <2> QED
    BY <1>2, <2>1, <2>2 DEF Explains
<1>3. r.kind = "MODE_TRANSITION" => Leaves(S, Len(S), b, r.new)
  BY <1>1 DEF Leaves, OfKind
<1>4. r.kind = "POLICY_TABLE_INSTALLED" => Leaves(S, Len(S), b, b)
  BY <1>1 DEF Leaves, OfKind
<1> QED
  BY <1>2, <1>3, <1>4 DEF S

\* A transition from the mode that s explains takes its place in the
\* history.
LEMMA TransitionTakesPlace ==
  ASSUME NEW s \in Seq(Rows), NEW r \in Rows,
         NEW b \in BootModes, Explains(s, b, r.prev)
  PROVE  /\ IsLegalEdge(r.prev, r.new) => LegalRow(Append(s, r), Len(s) + 1)
         /\ Pending(s, r.prev, r.new) => CoveredRow(Append(s, r), Len(s) + 1)
<1>1. /\ Len(s) \in Nat
      /\ Append(s, r)[Len(s) + 1] = r
      /\ Len(s) + 1 \in 1 .. Len(s) + 1
      /\ (Len(s) + 1) - 1 = Len(s)
  BY AppendRow
<1>2. ASSUME IsLegalEdge(r.prev, r.new)
      PROVE  LegalRow(Append(s, r), Len(s) + 1)
  <2>1. PICK i \in 1 .. Len(s) :
          SetsModeBefore(s, i, Len(s) + 1) /\ Leaves(s, i, b, r.prev)
    BY DEF Explains
  <2>2. /\ SetsModeBefore(Append(s, r), i, Len(s) + 1)
        /\ Leaves(Append(s, r), i, b, r.prev)
    BY <1>1, <2>1, EarlierRowsStand
  <2> QED
    BY <1>1, <1>2, <2>1, <2>2 DEF LegalRow
<1>3. ASSUME Pending(s, r.prev, r.new)
      PROVE  CoveredRow(Append(s, r), Len(s) + 1)
  <2>1. PICK i \in 1 .. Len(s) : ConsentStands(s, i, Len(s) + 1, r.prev, r.new)
    BY <1>3 DEF Pending
  <2>2. ConsentStands(Append(s, r), i, Len(s) + 1, r.prev, r.new)
    BY <1>1, <2>1, EarlierRowsStand
  <2> QED
    BY <1>1, <2>1, <2>2 DEF CoveredRow
<1> QED
  BY <1>2, <1>3

\* A consent row is pending once written, and stays so while only lock-free
\* writers append.
LEMMA ConsentRowPends ==
  ASSUME NEW s \in Seq(Rows), NEW r \in Rows,
         r.kind = "OPERATOR_CONSENT_ACCEPTED"
  PROVE  Pending(Append(s, r), r.prev, r.new)
BY AppendRow DEF Pending, ConsentStands, OfKind

LEMMA LockFreeRowKeepsConsent ==
  ASSUME NEW s \in Seq(Rows), NEW r \in Rows, NEW m, NEW t, Pending(s, m, t),
         r.kind \in {"AUDIT", "OPERATOR_REJECTED"}
  PROVE  Pending(Append(s, r), m, t)
<1>1. PICK i \in 1 .. Len(s) : ConsentStands(s, i, Len(s) + 1, m, t)
  BY DEF Pending
<1>2. /\ i \in 1 .. (Len(s) + 1) - 1
      /\ Len(s) + 1 \in 1 .. Len(s) + 1
  BY AppendRow
<1>3. ConsentStands(Append(s, r), i, Len(s) + 1, m, t)
  BY <1>1, <1>2, EarlierRowsStand
<1> QED
  BY <1>2, <1>3, AppendRow DEF Pending, ConsentStands

(***************************************************************************)
(* Lemmas on steps.                                                        *)
(***************************************************************************)
\* The history is kept by a step that appends one row, if the row fits in
\* when it is a transition.
LEMMA HistoryStep ==
  ASSUME TypeOK, TypeOK', LegalHistory, ConsentCoversTransition,
         NEW r, rows' = Append(rows, r),
         r.kind = "MODE_TRANSITION" =>
           LegalRow(rows', Len(rows) + 1) /\ CoveredRow(rows', Len(rows) + 1)
  PROVE  r \in Rows /\ LegalHistory' /\ ConsentCoversTransition'
<1>1. rows \in Seq(Rows) /\ rows' \in Seq(Rows)
  BY DEF TypeOK
<1>2. r \in Rows
  BY <1>1
<1>3. ASSUME NEW j \in 1 .. Len(rows'), OfKind(rows', j, "MODE_TRANSITION")
      PROVE  LegalRow(rows', j) /\ CoveredRow(rows', j)
  <2>1. CASE j \in 1 .. Len(rows)
    <3>1. OfKind(rows, j, "MODE_TRANSITION")
      BY <1>1, <1>2, <1>3, <2>1, AppendRow DEF OfKind
    <3> QED
      BY <1>1, <1>2, <2>1, <3>1, HistoryStands
         DEF LegalHistory, ConsentCoversTransition
  <2>2. CASE j = Len(rows) + 1
    BY <1>1, <1>2, <1>3, <2>2, AppendRow DEF OfKind
  <2> QED
    BY <1>1, <1>2, <2>1, <2>2, AppendRow
<1> QED
  BY <1>2, <1>3 DEF LegalHistory, ConsentCoversTransition

\* A step that appends a row other than a transition or a boot and keeps
\* the mode keeps the account.
LEMMA SideRowStep ==
  ASSUME TypeOK, TypeOK', LedgerInv, UNCHANGED <<mode, initial>>,
         NEW r, rows' = Append(rows, r),
         r.kind \notin {"MODE_TRANSITION", "POLICY_TABLE_INSTALLED"}
  PROVE  /\ r \in Rows
         /\ LedgerExplainsMode' /\ LegalHistory' /\ ConsentCoversTransition'
<1>1. r \in Rows /\ LegalHistory' /\ ConsentCoversTransition'
  BY HistoryStep DEF LedgerInv
<1>2. LedgerExplainsMode'
  BY <1>1, SideRowExplains DEF LedgerInv, LedgerExplainsMode, TypeOK
<1> QED
  BY <1>1, <1>2

\* A step that leaves the ledger and the mode alone keeps the account.
LEMMA NoRowStep ==
  ASSUME LedgerInv, UNCHANGED <<mode, initial, rows>>
  PROVE  LedgerExplainsMode' /\ LegalHistory' /\ ConsentCoversTransition'
BY DEF LedgerInv, LedgerExplainsMode, LegalHistory, ConsentCoversTransition

\* A step that lets no caller into propose and takes back no consent keeps
\* what holds of the callers in flight.
LEMMA InFlightStep ==
  ASSUME LedgerInv, UNCHANGED mode,
         \A d \in Callers : pc'[d] \in InPropose =>
           pc'[d] = pc[d] /\ pend'[d] = pend[d],
         \A d \in Callers : pc'[d] = "consented" =>
           (Pending(rows, mode, pend[d].target) =>
              Pending(rows', mode, pend[d].target))
  PROVE  OneInPropose' /\ ConsentInFlight'
BY DEF LedgerInv, OneInPropose, ConsentInFlight, InPropose

LEMMA FinishStep ==
  ASSUME TypeOK, NEW c \in Callers, Finish(c)
  PROVE  \A d \in Callers :
           /\ d # c => pc'[d] = pc[d] /\ pend'[d] = pend[d]
           /\ pc'[c] = "idle"
BY DEF TypeOK, Finish

LEMMA AskStep ==
  ASSUME TypeOK, TypeOK', LedgerInv, NEW c \in Callers,
         NEW s, NEW t, NEW a, NEW n, Ask(c, s, t, a, n)
  PROVE  LedgerInv'
<1>1. LedgerExplainsMode' /\ LegalHistory' /\ ConsentCoversTransition'
  BY NoRowStep DEF Ask, hist
<1>2. \A d \in Callers : pc'[d] \in InPropose =>
        pc'[d] = pc[d] /\ pend'[d] = pend[d]
  BY DEF Ask, TypeOK, InPropose
<1>3. UNCHANGED <<mode, rows>>
  BY DEF Ask
<1> QED
  BY <1>1, <1>2, <1>3, InFlightStep DEF LedgerInv

\* The row of an accepted request.
LEMMA CommitTransitionStep ==
  ASSUME TypeOK, TypeOK', LedgerInv, NEW c \in Callers, CommitTransition(c)
  PROVE  LedgerInv'
<1> DEFINE r == TransitionRow(pend[c], mode)
<1>1. /\ mode \in Modes /\ pend[c].target \in Modes
      /\ rows \in Seq(Rows) /\ initial \in BootModes /\ initial' = initial
      /\ rows' = Append(rows, r) /\ mode' = pend[c].target
      /\ r.kind = "MODE_TRANSITION" /\ r.prev = mode /\ r.new = mode'
  BY DEF CommitTransition, TransitionRow, BlankRow, TypeOK, Requests, hist
<1>2. r \in Rows
  BY <1>1 DEF TypeOK
<1>3. IsLegalEdge(mode, mode')
  <2>1. CASE pc[c] = "consented"
    BY <1>1, <2>1, EdgesAreLegal DEF LedgerInv, ConsentInFlight
  <2>2. CASE Accepted(c)
    BY <1>1, <2>2, EdgesAreLegal DEF Accepted, Verdict
  <2> QED
    BY <2>1, <2>2 DEF CommitTransition
<1>4. EdgeRequiresConsent(mode, mode') => Pending(rows, mode, mode')
  BY <1>1 DEF CommitTransition, LedgerInv, ConsentInFlight
<1>5. LegalRow(rows', Len(rows) + 1)
  BY <1>1, <1>2, <1>3, TransitionTakesPlace DEF LedgerInv, LedgerExplainsMode
<1>6. CoveredRow(rows', Len(rows) + 1)
  <2>1. CASE EdgeRequiresConsent(mode, mode')
    BY <1>1, <1>2, <1>4, <2>1, TransitionTakesPlace
       DEF LedgerInv, LedgerExplainsMode
  <2>2. CASE ~EdgeRequiresConsent(mode, mode')
    BY <1>1, <1>2, <2>2, AppendRow DEF CoveredRow
  <2> QED
    BY <2>1, <2>2
<1>7. LegalHistory' /\ ConsentCoversTransition'
  BY <1>1, <1>5, <1>6, HistoryStep DEF LedgerInv
<1>8. LedgerExplainsMode'
  BY <1>1, <1>2, ModeRowExplains DEF LedgerExplainsMode
<1>9. \A d \in Callers : d # c => pc[d] \notin InPropose /\ pc'[d] = pc[d]
  <2>1. \A d \in Callers : d # c => pc[d] \notin InPropose
    BY DEF CommitTransition, Accepted, LockFree, InPropose, LedgerInv,
       OneInPropose
  <2>2. \A d \in Callers : d # c => pc'[d] = pc[d]
    BY DEF CommitTransition, Finish, TypeOK
  <2> QED
    BY <2>1, <2>2
<1>10. pc'[c] \in {"idle", "binding"}
  BY DEF CommitTransition, Finish, TypeOK
<1>11. OneInPropose' /\ ConsentInFlight'
  BY <1>9, <1>10 DEF OneInPropose, ConsentInFlight, InPropose
<1> QED
  BY <1>7, <1>8, <1>11 DEF LedgerInv

LEMMA CommitConsentStep ==
  ASSUME TypeOK, TypeOK', LedgerInv, NEW c \in Callers, CommitConsent(c)
  PROVE  LedgerInv'
<1> DEFINE r == ConsentRow(pend[c], mode)
<1>1. /\ rows' = Append(rows, r) /\ UNCHANGED <<mode, initial, pend>>
      /\ r.kind = "OPERATOR_CONSENT_ACCEPTED"
      /\ r.prev = mode /\ r.new = pend[c].target
  BY DEF CommitConsent, ConsentRow, BlankRow
<1>2. /\ r \in Rows
      /\ LedgerExplainsMode' /\ LegalHistory' /\ ConsentCoversTransition'
  BY <1>1, SideRowStep
<1>3. Pending(rows', mode, pend[c].target)
  BY <1>1, <1>2, ConsentRowPends DEF TypeOK
<1>4. \A d \in Callers : d # c => pc'[d] \notin InPropose
  BY DEF CommitConsent, Accepted, LockFree, InPropose, TypeOK
<1>5. OneInPropose' /\ ConsentInFlight'
  BY <1>1, <1>3, <1>4
     DEF OneInPropose, ConsentInFlight, InPropose, CommitConsent
<1> QED
  BY <1>2, <1>5 DEF LedgerInv

LEMMA BootStep ==
  ASSUME TypeOK, TypeOK', LedgerInv,
         NEW m \in BootModes, NEW h \in PolicyHashes, Restart(m, h)
  PROVE  LedgerInv'
<1>1. /\ rows \in Seq(Rows) /\ rows' = Append(rows, BootRow(h))
      /\ mode' = m /\ initial' = m
      /\ BootRow(h).kind = "POLICY_TABLE_INSTALLED"
  BY DEF Restart, BootRow, BlankRow, TypeOK
<1>2. BootRow(h) \in Rows /\ LegalHistory' /\ ConsentCoversTransition'
  BY <1>1, HistoryStep DEF LedgerInv
<1>3. LedgerExplainsMode'
  BY <1>1, <1>2, ModeRowExplains DEF LedgerExplainsMode
<1>4. OneInPropose' /\ ConsentInFlight'
  BY DEF Restart, OneInPropose, ConsentInFlight, InPropose
<1> QED
  BY <1>2, <1>3, <1>4 DEF LedgerInv

LEMMA LedgerInvariant == Spec => []LedgerInv
<1>1. Init => LedgerInv
  <2> SUFFICES ASSUME Init PROVE LedgerInv
    OBVIOUS
  <2>1. /\ rows = <<BootRow(policy)>>
        /\ Len(rows) = 1
        /\ rows[1].kind = "POLICY_TABLE_INSTALLED"
        /\ initial = mode
    BY DEF Init, BootRow, BlankRow
  <2>2. LedgerExplainsMode
    BY <2>1 DEF LedgerExplainsMode, Explains, Leaves, SetsModeBefore, SetsMode,
       OfKind
  <2>3. LegalHistory /\ ConsentCoversTransition
    BY <2>1 DEF LegalHistory, ConsentCoversTransition, OfKind
  <2>4. OneInPropose /\ ConsentInFlight
    BY DEF Init, OneInPropose, ConsentInFlight, InPropose
  <2> QED
    BY <2>2, <2>3, <2>4 DEF LedgerInv
<1>2. TypeOK /\ TypeOK' /\ LedgerInv /\ [Next]_vars => LedgerInv'
  <2> SUFFICES ASSUME TypeOK, TypeOK', LedgerInv, [Next]_vars PROVE LedgerInv'
    OBVIOUS
  <2>same. ASSUME UNCHANGED <<mode, initial, rows, pc, pend>> PROVE LedgerInv'
    BY <2>same DEF LedgerInv, LedgerExplainsMode, LegalHistory,
       ConsentCoversTransition, OneInPropose, ConsentInFlight
  <2>1. ASSUME NEW c \in Callers, Request(c) PROVE LedgerInv'
    <3>1. ASSUME NEW s \in {"MODE", "KILL", "UNLOCK"}, Refuse(c, s)
          PROVE LedgerInv'
      <4>1. LedgerExplainsMode' /\ LegalHistory' /\ ConsentCoversTransition'
        BY <3>1, NoRowStep DEF Refuse, hist
      <4>2. \A d \in Callers : pc'[d] \in InPropose =>
              pc'[d] = pc[d] /\ pend'[d] = pend[d]
        BY <3>1 DEF Refuse, TypeOK, InPropose
      <4>3. UNCHANGED <<mode, rows>>
        BY <3>1 DEF Refuse
      <4> QED
        BY <4>1, <4>2, <4>3, InFlightStep DEF LedgerInv
    <3>2. CASE RequestMode(c)
      BY <3>2, AskStep DEF RequestMode
    <3>3. CASE RequestKill(c)
      BY <3>3, AskStep DEF RequestKill
    <3>4. CASE RequestUnlock(c)
      BY <3>4, AskStep DEF RequestUnlock
    <3>5. CASE HazardLock(c)
      BY <3>5, AskStep DEF HazardLock
    <3>6. CASE DriftDowngrade(c)
      BY <3>6, AskStep DEF DriftDowngrade
    <3> QED
      BY <2>1, <3>1, <3>2, <3>3, <3>4, <3>5, <3>6 DEF Request
  <2>2. ASSUME NEW c \in Callers, Serve(c) PROVE LedgerInv'
    <3>1. CASE RecordRefusal(c)
      <4> DEFINE r == OperatorRejectedRow(pend[c].by, pend[c].seen,
                        OperatorActionCode(pend[c].by, pend[c].seen))
      <4>1. /\ rows' = Append(rows, r) /\ UNCHANGED <<mode, initial>>
            /\ r.kind = "OPERATOR_REJECTED"
        BY <3>1 DEF RecordRefusal, OperatorRejectedRow, BlankRow, hist
      <4>2. /\ r \in Rows
            /\ LedgerExplainsMode' /\ LegalHistory' /\ ConsentCoversTransition'
        BY <4>1, SideRowStep
      <4>3. OneInPropose' /\ ConsentInFlight'
        BY <3>1, <4>1, <4>2, FinishStep, LockFreeRowKeepsConsent, InFlightStep
           DEF RecordRefusal, TypeOK, InPropose
      <4> QED
        BY <4>2, <4>3 DEF LedgerInv
    <3>2. CASE Reject(c)
      <4>1. PICK code : rows' = Append(rows, RejectedRow(pend[c], mode, code))
        BY <3>2 DEF Reject
      <4>2. RejectedRow(pend[c], mode, code).kind = "MODE_TRANSITION_REJECTED"
        BY DEF RejectedRow, BlankRow
      <4>3. LedgerExplainsMode' /\ LegalHistory' /\ ConsentCoversTransition'
        BY <3>2, <4>1, <4>2, SideRowStep DEF Reject, hist
      <4>4. OneInPropose' /\ ConsentInFlight'
        BY <3>2, FinishStep
           DEF Reject, LockFree, OneInPropose, ConsentInFlight, InPropose
      <4> QED
        BY <4>3, <4>4 DEF LedgerInv
    <3>3. CASE CommitConsent(c)
      BY <3>3, CommitConsentStep
    <3>4. CASE CommitTransition(c)
      BY <3>4, CommitTransitionStep
    <3>5. CASE Bind(c)
      <4>1. BoundRow(gatesFile).kind = "PROMOTION_GATES_BOUND"
        BY DEF BoundRow, BlankRow
      <4>2. LedgerExplainsMode' /\ LegalHistory' /\ ConsentCoversTransition'
        BY <3>5, <4>1, SideRowStep DEF Bind, hist
      <4>3. OneInPropose' /\ ConsentInFlight'
        BY <3>5, FinishStep
           DEF Bind, LedgerInv, OneInPropose, ConsentInFlight, InPropose
      <4> QED
        BY <4>2, <4>3 DEF LedgerInv
    <3>6. CASE BindFails(c)
      <4>1. OneInPropose' /\ ConsentInFlight'
        BY <3>6, FinishStep, InFlightStep DEF BindFails, InPropose
      <4> QED
        BY <3>6, <4>1, NoRowStep DEF BindFails, LedgerInv, hist
    <3> QED
      BY <2>2, <3>1, <3>2, <3>3, <3>4, <3>5, <3>6 DEF Serve
  <2>3. ASSUME NEW c \in Callers, AppendFails(c) PROVE LedgerInv'
    <3>1. OneInPropose' /\ ConsentInFlight'
      BY <2>3, FinishStep, InFlightStep DEF AppendFails, InPropose
    <3> QED
      BY <2>3, <3>1, NoRowStep DEF AppendFails, LedgerInv
  <2>4. CASE ProposeIntent
    <3>1. [BlankRow EXCEPT !.kind = "INTENT_TRANSITION"].kind = "INTENT_TRANSITION"
      BY DEF BlankRow
    <3>2. LedgerExplainsMode' /\ LegalHistory' /\ ConsentCoversTransition'
      BY <2>4, <3>1, SideRowStep DEF ProposeIntent, hist
    <3>3. OneInPropose' /\ ConsentInFlight'
      BY <2>4 DEF ProposeIntent, LockFree, OneInPropose, ConsentInFlight,
         InPropose
    <3> QED
      BY <3>2, <3>3 DEF LedgerInv
  <2>5. CASE AuditAppend
    <3>1. BlankRow.kind = "AUDIT"
      BY DEF BlankRow
    <3>2. LedgerExplainsMode' /\ LegalHistory' /\ ConsentCoversTransition'
      BY <2>5, <3>1, SideRowStep DEF AuditAppend, hist
    <3>3. OneInPropose' /\ ConsentInFlight'
      BY <2>5, <3>1, BlankRowType, LockFreeRowKeepsConsent, InFlightStep
         DEF AuditAppend, TypeOK
    <3> QED
      BY <3>2, <3>3 DEF LedgerInv
  <2>6. ASSUME NEW n \in Nonces, NEW ts \in 1 .. MaxTime, IssueConsent(n, ts)
        PROVE LedgerInv'
    BY <2>6, <2>same DEF IssueConsent, hist
  <2>7. CASE Tick
    BY <2>7, <2>same DEF Tick, hist
  <2>8. ASSUME NEW h \in GateHashes \cup {None}, EditGates(h) PROVE LedgerInv'
    BY <2>8, <2>same DEF EditGates, hist
  <2>9. ASSUME NEW l \in ReadinessLevels \cup {None}, ReadinessChanges(l)
        PROVE LedgerInv'
    BY <2>9, <2>same DEF ReadinessChanges, hist
  <2>10. ASSUME NEW m \in BootModes, NEW h \in PolicyHashes, Restart(m, h)
         PROVE LedgerInv'
    BY <2>10, BootStep
  <2>11. CASE ReplayGates
    BY <2>11, <2>same DEF ReplayGates, hist
  <2>12. CASE UNCHANGED vars
    BY <2>12, <2>same DEF vars
  <2> QED
    BY <2>1, <2>2, <2>3, <2>4, <2>5, <2>6, <2>7, <2>8, <2>9, <2>10, <2>11,
       <2>12 DEF Next
<1> QED
  BY <1>1, <1>2, TypeCorrect, PTL DEF Spec

\* Whatever the callers' interleaving, and whichever appends raise or boots
\* interrupt them, the rows since the last boot explain the mode from the
\* initial_mode of that boot, the transitions form a path of legal edges, and
\* each consent edge in it is covered by a consent.
THEOREM LedgerCorrect ==
  Spec => [](LedgerExplainsMode /\ LegalHistory /\ ConsentCoversTransition)
<1>1. LedgerInv => LedgerExplainsMode /\ LegalHistory /\ ConsentCoversTransition
  BY DEF LedgerInv
<1> QED
  BY <1>1, LedgerInvariant, PTL

\* The transitions on the ledger form a path of legal edges.
THEOREM HistoryIsLegal == Spec => []LegalHistory
BY LedgerCorrect, PTL

\* Each consent edge on the ledger is covered by its own consent row.
THEOREM ConsentIsCovered == Spec => []ConsentCoversTransition
BY LedgerCorrect, PTL

-----------------------------------------------------------------------------
(***************************************************************************)
(* ConsentUnderInstalledPolicy: the table in memory is the one the latest  *)
(* boot row names, and a consent is accepted only for the table in memory. *)
(***************************************************************************)
PolicyInstalled ==
  \A i \in 1 .. Len(rows) : BootOf(rows, i, Len(rows)) => rows[i].hash = policy

\* What is read of the boots before the row that is appended.
LEMMA BootsBefore ==
  ASSUME NEW s \in Seq(Rows), NEW r \in Rows, NEW S, S = Append(s, r),
         NEW i \in Int, NEW j \in 1 .. Len(s), i <= j, SameBoot(S, i, j),
         OfKind(S, i, "POLICY_TABLE_INSTALLED")
  PROVE  BootOf(s, i, j)
<1>1. /\ Len(s) \in Nat
      /\ \A k \in 1 .. Len(s) : OfKind(s, k, "POLICY_TABLE_INSTALLED")
           <=> OfKind(S, k, "POLICY_TABLE_INSTALLED")
  BY AppendRow DEF OfKind
<1>2. i \in 1 .. j
  BY DEF OfKind
<1> QED
  BY <1>1, <1>2 DEF BootOf, SameBoot

\* A row that is no boot, with the hash of the table in memory if it is a
\* consent.
LEMMA PolicyKept ==
  ASSUME TypeOK, TypeOK', ConsentUnderInstalledPolicy, PolicyInstalled,
         NEW r, rows' = Append(rows, r), UNCHANGED policy,
         r.kind # "POLICY_TABLE_INSTALLED",
         r.kind = "OPERATOR_CONSENT_ACCEPTED" => r.hash = policy
  PROVE  ConsentUnderInstalledPolicy' /\ PolicyInstalled'
<1>1. /\ rows \in Seq(Rows)
      /\ rows' \in Seq(Rows)
  BY DEF TypeOK
<1>2. r \in Rows
  BY <1>1
<1>3. /\ Len(rows) \in Nat
      /\ Len(rows') = Len(rows) + 1
      /\ rows'[Len(rows) + 1] = r
      /\ \A i \in 1 .. Len(rows) : rows'[i] = rows[i]
  BY <1>1, <1>2, AppendRow
<1>4. ASSUME NEW i \in 1 .. Len(rows'), BootOf(rows', i, Len(rows'))
      PROVE  i \in 1 .. Len(rows) /\ rows'[i].hash = policy
  <2>1. i # Len(rows) + 1
    BY <1>3, <1>4 DEF BootOf, OfKind
  <2>2. i \in 1 .. Len(rows) /\ Len(rows) \in 1 .. Len(rows)
    BY <1>3, <2>1
  <2>3. /\ i <= Len(rows)
        /\ SameBoot(rows', i, Len(rows))
        /\ OfKind(rows', i, "POLICY_TABLE_INSTALLED")
    BY <1>3, <1>4, <2>2 DEF BootOf, SameBoot
  <2>4. BootOf(rows, i, Len(rows))
    <3>1. i \in Int /\ rows' = Append(rows, r)
      OBVIOUS
    <3> QED
      BY <1>1, <1>2, <2>2, <2>3, <3>1, BootsBefore, Zenon
  <2> QED
    BY <1>3, <2>2, <2>4 DEF PolicyInstalled
<1>5. PolicyInstalled'
  BY <1>4 DEF PolicyInstalled
<1>6. ASSUME NEW i \in 1 .. Len(rows'), NEW j \in 1 .. Len(rows'),
             OfKind(rows', j, "OPERATOR_CONSENT_ACCEPTED"), BootOf(rows', i, j)
      PROVE  rows'[j].hash = rows'[i].hash
  <2>1. CASE j \in 1 .. Len(rows)
    <3>1. BootOf(rows, i, j)
      <4>1. /\ i \in Int /\ rows' = Append(rows, r)
            /\ i <= j /\ SameBoot(rows', i, j)
            /\ OfKind(rows', i, "POLICY_TABLE_INSTALLED")
        BY <1>6 DEF BootOf
      <4> QED
        BY <1>1, <1>2, <2>1, <4>1, BootsBefore, Zenon
    <3>2. i \in 1 .. Len(rows)
      BY <1>3, <2>1, <3>1 DEF BootOf
    <3>3. OfKind(rows, j, "OPERATOR_CONSENT_ACCEPTED")
      BY <1>3, <1>6, <2>1 DEF OfKind
    <3> QED
      BY <1>3, <2>1, <3>1, <3>2, <3>3 DEF ConsentUnderInstalledPolicy
  <2>2. CASE j = Len(rows) + 1
    BY <1>3, <1>4, <1>6, <2>2 DEF OfKind
  <2> QED
    BY <1>3, <2>1, <2>2
<1> QED
  BY <1>5, <1>6 DEF ConsentUnderInstalledPolicy

LEMMA PolicyBoots ==
  ASSUME TypeOK, TypeOK', ConsentUnderInstalledPolicy,
         NEW m \in BootModes, NEW h \in PolicyHashes, Restart(m, h)
  PROVE  ConsentUnderInstalledPolicy' /\ PolicyInstalled'
<1>1. PICK r : r = BootRow(h)
  OBVIOUS
<1>2. /\ rows \in Seq(Rows)
      /\ rows' \in Seq(Rows)
      /\ rows' = Append(rows, r)
      /\ policy' = h
      /\ r.kind = "POLICY_TABLE_INSTALLED"
      /\ r.hash = h
  BY <1>1 DEF TypeOK, Restart, BootRow, BlankRow
<1>3. r \in Rows
  BY <1>2
<1>4. /\ Len(rows) \in Nat
      /\ Len(rows') = Len(rows) + 1
      /\ rows'[Len(rows) + 1] = r
      /\ \A i \in 1 .. Len(rows) : rows'[i] = rows[i]
  BY <1>2, <1>3, AppendRow
<1>5. ASSUME NEW i \in 1 .. Len(rows'), BootOf(rows', i, Len(rows'))
      PROVE  rows'[i].hash = policy'
  <2>1. OfKind(rows', Len(rows) + 1, "POLICY_TABLE_INSTALLED")
    BY <1>2, <1>4 DEF OfKind
  <2>2. i = Len(rows) + 1
    BY <1>4, <1>5, <2>1 DEF BootOf, SameBoot
  <2> QED
    BY <1>2, <1>4, <2>2
<1>6. ASSUME NEW i \in 1 .. Len(rows'), NEW j \in 1 .. Len(rows'),
             OfKind(rows', j, "OPERATOR_CONSENT_ACCEPTED"), BootOf(rows', i, j)
      PROVE  rows'[j].hash = rows'[i].hash
  <2>1. j \in 1 .. Len(rows)
    BY <1>2, <1>4, <1>6 DEF OfKind
  <2>2. BootOf(rows, i, j)
    <3>1. /\ i \in Int
          /\ i <= j /\ SameBoot(rows', i, j)
          /\ OfKind(rows', i, "POLICY_TABLE_INSTALLED")
      BY <1>6 DEF BootOf
    <3> QED
      BY <1>2, <1>3, <2>1, <3>1, BootsBefore, Zenon
  <2>3. i \in 1 .. Len(rows)
    BY <1>4, <2>1, <2>2 DEF BootOf
  <2>4. OfKind(rows, j, "OPERATOR_CONSENT_ACCEPTED")
    BY <1>4, <1>6, <2>1 DEF OfKind
  <2> QED
    BY <1>4, <2>1, <2>2, <2>3, <2>4 DEF ConsentUnderInstalledPolicy
<1> QED
  BY <1>5, <1>6 DEF ConsentUnderInstalledPolicy, PolicyInstalled

\* The row of an accepted consent.
LEMMA ConsentForThisTable ==
  ASSUME TypeOK, NEW c \in Callers, CommitConsent(c)
  PROVE  \E r : /\ rows' = Append(rows, r)
                /\ r.kind = "OPERATOR_CONSENT_ACCEPTED"
                /\ r.hash = policy
<1>1. PICK r : r = ConsentRow(pend[c], mode)
  OBVIOUS
<1>2. rows' = Append(rows, r) /\ r.kind = "OPERATOR_CONSENT_ACCEPTED"
  BY <1>1 DEF CommitConsent, ConsentRow, BlankRow
<1>3. EdgeRequiresConsent(mode, pend[c].target) /\ Accepted(c)
  BY DEF CommitConsent
<1>4. ConsentCode(mode, pend[c]) = OK
  BY <1>3 DEF Accepted, Verdict
<1>5. envelopes[pend[c].nonce].hash = policy
  BY <1>3, <1>4 DEF ConsentCode, OK
<1>6. r.hash = policy
  BY <1>1, <1>5 DEF ConsentRow, BlankRow
<1> QED
  BY <1>2, <1>6

\* A consent takes effect only under the table version it was given for, in
\* every boot and however the program is upgraded between boots.
THEOREM ConsentPolicyCorrect == Spec => []ConsentUnderInstalledPolicy
<1>1. Init => ConsentUnderInstalledPolicy /\ PolicyInstalled
  <2> SUFFICES ASSUME Init PROVE ConsentUnderInstalledPolicy /\ PolicyInstalled
    OBVIOUS
  <2>1. /\ Len(rows) = 1
        /\ rows[1].kind = "POLICY_TABLE_INSTALLED"
        /\ rows[1].hash = policy
    BY DEF Init, BootRow, BlankRow
  <2> QED
    BY <2>1 DEF ConsentUnderInstalledPolicy, PolicyInstalled, OfKind
<1>2. TypeOK /\ TypeOK' /\ ConsentUnderInstalledPolicy /\ PolicyInstalled
        /\ [Next]_vars => ConsentUnderInstalledPolicy' /\ PolicyInstalled'
  <2> SUFFICES ASSUME TypeOK, TypeOK', ConsentUnderInstalledPolicy,
                      PolicyInstalled, [Next]_vars
               PROVE  ConsentUnderInstalledPolicy' /\ PolicyInstalled'
    OBVIOUS
  <2>same. ASSUME UNCHANGED <<rows, policy>>
           PROVE  ConsentUnderInstalledPolicy' /\ PolicyInstalled'
    BY <2>same DEF ConsentUnderInstalledPolicy, PolicyInstalled
  <2>row. ASSUME NEW r, rows' = Append(rows, r), UNCHANGED policy,
                 r.kind \notin {"POLICY_TABLE_INSTALLED",
                                "OPERATOR_CONSENT_ACCEPTED"}
          PROVE  ConsentUnderInstalledPolicy' /\ PolicyInstalled'
    BY <2>row, PolicyKept
  <2>1. ASSUME NEW c \in Callers, Request(c)
        PROVE  ConsentUnderInstalledPolicy' /\ PolicyInstalled'
    <3>1. UNCHANGED <<rows, policy>>
      BY <2>1 DEF Request, Refuse, RequestMode, RequestKill, RequestUnlock,
                  HazardLock, DriftDowngrade, Ask
    <3> QED
      BY <2>same, <3>1
  <2>2. ASSUME NEW c \in Callers, Serve(c)
        PROVE  ConsentUnderInstalledPolicy' /\ PolicyInstalled'
    <3>1. CASE RecordRefusal(c)
      <4>1. PICK r : r = OperatorRejectedRow(pend[c].by, pend[c].seen,
                    OperatorActionCode(pend[c].by, pend[c].seen))
        OBVIOUS
      <4>2. rows' = Append(rows, r) /\ r.kind = "OPERATOR_REJECTED"
        BY <3>1, <4>1 DEF RecordRefusal, OperatorRejectedRow, BlankRow
      <4> QED
        BY <2>row, <3>1, <4>2 DEF RecordRefusal
    <3>2. CASE Reject(c)
      <4>1. PICK code : rows' = Append(rows, RejectedRow(pend[c], mode, code))
        BY <3>2 DEF Reject
      <4>2. RejectedRow(pend[c], mode, code).kind = "MODE_TRANSITION_REJECTED"
        BY DEF RejectedRow, BlankRow
      <4> QED
        BY <2>row, <3>2, <4>1, <4>2 DEF Reject
    <3>3. CASE CommitConsent(c)
      BY <3>3, ConsentForThisTable, PolicyKept DEF CommitConsent
    <3>4. CASE CommitTransition(c)
      <4>1. PICK r : r = TransitionRow(pend[c], mode)
        OBVIOUS
      <4>2. rows' = Append(rows, r) /\ r.kind = "MODE_TRANSITION"
        BY <3>4, <4>1 DEF CommitTransition, TransitionRow, BlankRow
      <4> QED
        BY <2>row, <3>4, <4>2 DEF CommitTransition
    <3>5. CASE Bind(c)
      <4>1. PICK r : r = BoundRow(gatesFile)
        OBVIOUS
      <4>2. rows' = Append(rows, r) /\ r.kind = "PROMOTION_GATES_BOUND"
        BY <3>5, <4>1 DEF Bind, BoundRow, BlankRow
      <4> QED
        BY <2>row, <3>5, <4>2 DEF Bind
    <3>6. CASE BindFails(c)
      BY <2>same, <3>6 DEF BindFails
    <3> QED
      BY <2>2, <3>1, <3>2, <3>3, <3>4, <3>5, <3>6 DEF Serve
  <2>3. ASSUME NEW c \in Callers, AppendFails(c)
        PROVE  ConsentUnderInstalledPolicy' /\ PolicyInstalled'
    BY <2>3, <2>same DEF AppendFails
  <2>4. CASE ProposeIntent
    <3>1. PICK r : r = [BlankRow EXCEPT !.kind = "INTENT_TRANSITION"]
      OBVIOUS
    <3>2. rows' = Append(rows, r) /\ r.kind = "INTENT_TRANSITION"
      BY <2>4, <3>1 DEF ProposeIntent, BlankRow
    <3> QED
      BY <2>row, <2>4, <3>2 DEF ProposeIntent
  <2>5. CASE AuditAppend
    <3>1. BlankRow.kind = "AUDIT"
      BY DEF BlankRow
    <3> QED
      BY <2>row, <2>5, <3>1 DEF AuditAppend
  <2>6. ASSUME NEW n \in Nonces, NEW ts \in 1 .. MaxTime, IssueConsent(n, ts)
        PROVE  ConsentUnderInstalledPolicy' /\ PolicyInstalled'
    BY <2>6, <2>same DEF IssueConsent
  <2>7. CASE Tick
    BY <2>7, <2>same DEF Tick
  <2>8. ASSUME NEW h \in GateHashes \cup {None}, EditGates(h)
        PROVE  ConsentUnderInstalledPolicy' /\ PolicyInstalled'
    BY <2>8, <2>same DEF EditGates
  <2>9. ASSUME NEW l \in ReadinessLevels \cup {None}, ReadinessChanges(l)
        PROVE  ConsentUnderInstalledPolicy' /\ PolicyInstalled'
    BY <2>9, <2>same DEF ReadinessChanges
  <2>10. ASSUME NEW m \in BootModes, NEW h \in PolicyHashes, Restart(m, h)
         PROVE  ConsentUnderInstalledPolicy' /\ PolicyInstalled'
    BY <2>10, PolicyBoots
  <2>11. CASE ReplayGates
    BY <2>11, <2>same DEF ReplayGates
  <2>12. CASE UNCHANGED vars
    BY <2>12, <2>same DEF vars
  <2> QED
    BY <2>1, <2>2, <2>3, <2>4, <2>5, <2>6, <2>7, <2>8, <2>9, <2>10, <2>11,
       <2>12 DEF Next
<1> QED
  BY <1>1, <1>2, TypeCorrect, PTL DEF Spec

-----------------------------------------------------------------------------
(***************************************************************************)
(* OnlyOperatorsRaise: while requests are served one at a time, the mode a *)
(* request was made in is the mode it is decided in.                       *)
(***************************************************************************)
Pendings == {"proposing", "consented"}

OneRequest == \A c, d \in Callers : pc[c] # "idle" /\ pc[d] # "idle" => c = d

OthersRestrict ==
  \A c \in Callers : pc[c] \in Pendings =>
    /\ pend[c].by # "MODE" => ~Forward(mode, pend[c].target)
    /\ pc[c] = "consented" => EdgeRequiresConsent(mode, pend[c].target)

RaiseInv == OnlyOperatorsRaise /\ OneRequest /\ OthersRestrict

LEMMA RestrictingTargets ==
  ASSUME NEW m \in Modes
  PROVE  /\ ~Forward(m, "LOCKED")
         /\ OperatorActionCode("UNLOCK", m) = OK => ~Forward(m, "SAFE")
         /\ m \in DOMAIN DowngradeTarget => ~Forward(m, DowngradeTarget[m])
BY DEF Modes, Chain, ChainIndex, Forward, OperatorActionCode, OK, DowngradeTarget

\* An accepted request that raises the mode into LIVE or AUTO is authorised.
LEMMA RaisesAuthorised ==
  ASSUME NEW m \in Modes, NEW r, Verdict(m, r) = OK, Forward(m, r.target),
         r.target \in {"LIVE", "AUTO"}
  PROVE  r.auth \/ EdgeRequiresConsent(m, r.target)
<1>1. PolicyCode(m, r.target, r.auth \/ EdgeRequiresConsent(m, r.target),
                 RequireOperator) = OK
  BY DEF Verdict
<1>2. m # "LOCKED" /\ ModeValue[r.target] > ModeValue[m]
  BY DEF Forward, Chain, ChainIndex, ModeValue
<1> QED
  BY <1>1, <1>2 DEF PolicyCode, OK

LEMMA OnlyOperatorsRow ==
  ASSUME TypeOK, TypeOK', OnlyOperatorsRaise, NEW r, rows' = Append(rows, r),
         r.kind = "MODE_TRANSITION" /\ Forward(r.prev, r.new) =>
           r.by = "MODE" /\ (r.new \in {"LIVE", "AUTO"} => r.auth)
  PROVE  OnlyOperatorsRaise'
<1>1. /\ rows \in Seq(Rows)
      /\ rows' \in Seq(Rows)
  BY DEF TypeOK
<1>2. r \in Rows
  BY <1>1
<1>3. /\ Len(rows) \in Nat
      /\ Len(rows') = Len(rows) + 1
      /\ rows'[Len(rows) + 1] = r
      /\ \A i \in 1 .. Len(rows) : rows'[i] = rows[i]
  BY <1>1, <1>2, AppendRow
<1> SUFFICES ASSUME NEW j \in 1 .. Len(rows'),
                    OfKind(rows', j, "MODE_TRANSITION"),
                    Forward(rows'[j].prev, rows'[j].new)
             PROVE  /\ rows'[j].by = "MODE"
                    /\ rows'[j].new \in {"LIVE", "AUTO"} => rows'[j].auth
  BY DEF OnlyOperatorsRaise
<1>4. CASE j \in 1 .. Len(rows)
  BY <1>3, <1>4 DEF OfKind, OnlyOperatorsRaise
<1>5. CASE j = Len(rows) + 1
  BY <1>3, <1>5 DEF OfKind
<1> QED
  BY <1>3, <1>4, <1>5

LEMMA AskRaises ==
  ASSUME HarnessLock, TypeOK, RaiseInv, NEW c \in Callers,
         NEW s, NEW t, NEW a, NEW n, Ask(c, s, t, a, n),
         s # "MODE" => ~Forward(mode, t)
  PROVE  RaiseInv'
<1>1. /\ UNCHANGED <<mode, rows>>
      /\ pc' = [pc EXCEPT ![c] = "proposing"]
      /\ \A d \in Callers : pc[d] = "idle"
  BY DEF Ask, MayStart
<1>2. pend'[c].by = s /\ pend'[c].target = t
  BY DEF Ask, TypeOK
<1>3. pc'[c] = "proposing" /\ \A d \in Callers : d # c => pc'[d] = "idle"
  BY <1>1 DEF TypeOK
<1>4. OnlyOperatorsRaise'
  BY <1>1 DEF RaiseInv, OnlyOperatorsRaise
<1>5. OneRequest'
  BY <1>3 DEF OneRequest
<1>6. OthersRestrict'
  BY <1>1, <1>2, <1>3 DEF OthersRestrict, Pendings
<1> QED
  BY <1>4, <1>5, <1>6 DEF RaiseInv

\* A step that moves no caller but towards its end and leaves the mode alone.
LEMMA CallersKept ==
  ASSUME RaiseInv, UNCHANGED mode,
         \A d \in Callers : \/ pc'[d] = "idle"
                            \/ pc'[d] = pc[d] /\ pend'[d] = pend[d]
  PROVE  OneRequest' /\ OthersRestrict'
BY DEF RaiseInv, OneRequest, OthersRestrict, Pendings

LEMMA CommitRaises ==
  ASSUME TypeOK, TypeOK', RaiseInv, NEW c \in Callers, CommitTransition(c)
  PROVE  RaiseInv'
<1>1. PICK r : r = TransitionRow(pend[c], mode)
  OBVIOUS
<1>2. /\ rows' = Append(rows, r)
      /\ mode' = pend[c].target
      /\ r.kind = "MODE_TRANSITION"
      /\ r.prev = mode
      /\ r.new = pend[c].target
      /\ r.by = pend[c].by
      /\ r.auth = (pend[c].auth \/ EdgeRequiresConsent(mode, pend[c].target))
  BY <1>1 DEF CommitTransition, TransitionRow, BlankRow
<1>3. mode \in Modes
  BY DEF TypeOK
<1>4. pc[c] = "consented" \/ Accepted(c)
  BY DEF CommitTransition
<1>5. pc[c] \in Pendings
  BY <1>4 DEF Accepted, Pendings
<1>6. Forward(r.prev, r.new) => r.by = "MODE"
  BY <1>2, <1>5 DEF RaiseInv, OthersRestrict
<1>7. Forward(r.prev, r.new) /\ r.new \in {"LIVE", "AUTO"} => r.auth
  <2>1. CASE pc[c] = "consented"
    BY <1>2, <1>5, <2>1 DEF RaiseInv, OthersRestrict
  <2>2. CASE Accepted(c)
    BY <1>2, <1>3, <2>2, RaisesAuthorised DEF Accepted
  <2> QED
    BY <1>4, <2>1, <2>2
<1>8. OnlyOperatorsRaise'
  BY <1>2, <1>6, <1>7, OnlyOperatorsRow DEF RaiseInv
<1>9. pc'[c] \in {"idle", "binding"} /\ \A d \in Callers : d # c => pc'[d] = pc[d]
  BY DEF CommitTransition, Finish, TypeOK
<1>10. \A d \in Callers : d # c => pc'[d] = "idle"
  BY <1>5, <1>9 DEF RaiseInv, OneRequest, Pendings
<1>11. OneRequest' /\ OthersRestrict'
  BY <1>9, <1>10 DEF OneRequest, OthersRestrict, Pendings
<1> QED
  BY <1>8, <1>11 DEF RaiseInv

\* One request is served at a time, and those not an operator's REQUEST_MODE
\* restrict.
LEMMA RaiseInvariant ==
  ASSUME HarnessLock
  PROVE  Spec => []RaiseInv
<1>1. Init => RaiseInv
  <2> SUFFICES ASSUME Init PROVE RaiseInv
    OBVIOUS
  <2>1. /\ Len(rows) = 1
        /\ rows[1].kind = "POLICY_TABLE_INSTALLED"
    BY DEF Init, BootRow, BlankRow
  <2>2. OnlyOperatorsRaise
    BY <2>1 DEF OnlyOperatorsRaise, OfKind
  <2> QED
    BY <2>2 DEF Init, RaiseInv, OneRequest, OthersRestrict, Pendings
<1>2. TypeOK /\ TypeOK' /\ RaiseInv /\ [Next]_vars => RaiseInv'
  <2> SUFFICES ASSUME TypeOK, TypeOK', RaiseInv, [Next]_vars
               PROVE  RaiseInv'
    OBVIOUS
  <2>same. ASSUME UNCHANGED <<mode, rows, pc, pend>> PROVE RaiseInv'
    BY <2>same DEF RaiseInv, OnlyOperatorsRaise, OneRequest, OthersRestrict
  <2>row. ASSUME NEW r, rows' = Append(rows, r), UNCHANGED mode,
                 r.kind # "MODE_TRANSITION",
                 \A d \in Callers : \/ pc'[d] = "idle"
                                    \/ pc'[d] = pc[d] /\ pend'[d] = pend[d]
          PROVE  RaiseInv'
    BY <2>row, OnlyOperatorsRow, CallersKept DEF RaiseInv
  <2>1. ASSUME NEW c \in Callers, Request(c) PROVE RaiseInv'
    <3>0. mode \in Modes
      BY DEF TypeOK
    <3>1. ASSUME NEW s \in {"MODE", "KILL", "UNLOCK"}, Refuse(c, s)
          PROVE  RaiseInv'
      <4>1. /\ UNCHANGED <<mode, rows>>
            /\ pc'[c] = "refused"
            /\ \A d \in Callers : d # c => pc'[d] = "idle"
        BY <3>1 DEF Refuse, MayStart, TypeOK
      <4> QED
        BY <4>1 DEF RaiseInv, OnlyOperatorsRaise, OneRequest, OthersRestrict,
                    Pendings
    <3>2. CASE RequestMode(c)
      BY <3>2, AskRaises DEF RequestMode
    <3>3. CASE RequestKill(c)
      BY <3>0, <3>3, AskRaises, RestrictingTargets DEF RequestKill
    <3>4. CASE RequestUnlock(c)
      BY <3>0, <3>4, AskRaises, RestrictingTargets DEF RequestUnlock
    <3>5. CASE HazardLock(c)
      BY <3>0, <3>5, AskRaises, RestrictingTargets DEF HazardLock
    <3>6. CASE DriftDowngrade(c)
      BY <3>0, <3>6, AskRaises, RestrictingTargets DEF DriftDowngrade
    <3> QED
      BY <2>1, <3>1, <3>2, <3>3, <3>4, <3>5, <3>6 DEF Request
  <2>2. ASSUME NEW c \in Callers, Serve(c) PROVE RaiseInv'
    <3>1. Finish(c) => \A d \in Callers : \/ pc'[d] = "idle"
                                          \/ pc'[d] = pc[d] /\ pend'[d] = pend[d]
      BY FinishStep
    <3>2. CASE RecordRefusal(c)
      <4>1. PICK r : r = OperatorRejectedRow(pend[c].by, pend[c].seen,
                           OperatorActionCode(pend[c].by, pend[c].seen))
        OBVIOUS
      <4>2. rows' = Append(rows, r) /\ r.kind = "OPERATOR_REJECTED"
        BY <3>2, <4>1 DEF RecordRefusal, OperatorRejectedRow, BlankRow
      <4> QED
        BY <2>row, <3>1, <3>2, <4>2 DEF RecordRefusal
    <3>3. CASE Reject(c)
      <4>1. PICK code : rows' = Append(rows, RejectedRow(pend[c], mode, code))
        BY <3>3 DEF Reject
      <4>2. RejectedRow(pend[c], mode, code).kind = "MODE_TRANSITION_REJECTED"
        BY DEF RejectedRow, BlankRow
      <4> QED
        BY <2>row, <3>1, <3>3, <4>1, <4>2 DEF Reject
    <3>4. CASE CommitConsent(c)
      <4>1. PICK r : /\ rows' = Append(rows, r)
                     /\ r.kind = "OPERATOR_CONSENT_ACCEPTED"
        BY <3>4, ConsentForThisTable
      <4>2. OnlyOperatorsRaise'
        BY <4>1, OnlyOperatorsRow DEF RaiseInv
      <4>3. /\ UNCHANGED <<mode, pend>>
            /\ pc[c] = "proposing"
            /\ EdgeRequiresConsent(mode, pend[c].target)
            /\ pc' = [pc EXCEPT ![c] = "consented"]
        BY <3>4 DEF CommitConsent, Accepted
      <4>4. pc'[c] = "consented" /\ \A d \in Callers : d # c => pc'[d] = pc[d]
        BY <4>3 DEF TypeOK
      <4>5. OneRequest' /\ OthersRestrict'
        BY <4>3, <4>4 DEF RaiseInv, OneRequest, OthersRestrict, Pendings
      <4> QED
        BY <4>2, <4>5 DEF RaiseInv
    <3>5. CASE CommitTransition(c)
      BY <3>5, CommitRaises
    <3>6. CASE Bind(c)
      <4>1. PICK r : r = BoundRow(gatesFile)
        OBVIOUS
      <4>2. rows' = Append(rows, r) /\ r.kind = "PROMOTION_GATES_BOUND"
        BY <3>6, <4>1 DEF Bind, BoundRow, BlankRow
      <4> QED
        BY <2>row, <3>1, <3>6, <4>2 DEF Bind
    <3>7. CASE BindFails(c)
      <4>1. OneRequest' /\ OthersRestrict'
        BY <3>1, <3>7, CallersKept DEF BindFails
      <4> QED
        BY <3>7, <4>1 DEF BindFails, RaiseInv, OnlyOperatorsRaise
    <3> QED
      BY <2>2, <3>2, <3>3, <3>4, <3>5, <3>6, <3>7 DEF Serve
  <2>3. ASSUME NEW c \in Callers, AppendFails(c) PROVE RaiseInv'
    <3>1. OneRequest' /\ OthersRestrict'
      BY <2>3, FinishStep, CallersKept DEF AppendFails
    <3> QED
      BY <2>3, <3>1 DEF AppendFails, RaiseInv, OnlyOperatorsRaise
  <2>4. CASE ProposeIntent
    <3>1. PICK r : r = [BlankRow EXCEPT !.kind = "INTENT_TRANSITION"]
      OBVIOUS
    <3>2. rows' = Append(rows, r) /\ r.kind = "INTENT_TRANSITION"
      BY <2>4, <3>1 DEF ProposeIntent, BlankRow
    <3> QED
      BY <2>row, <2>4, <3>2 DEF ProposeIntent
  <2>5. CASE AuditAppend
    <3>1. BlankRow.kind = "AUDIT"
      BY DEF BlankRow
    <3> QED
      BY <2>row, <2>5, <3>1 DEF AuditAppend
  <2>6. ASSUME NEW n \in Nonces, NEW ts \in 1 .. MaxTime, IssueConsent(n, ts)
        PROVE RaiseInv'
    BY <2>6, <2>same DEF IssueConsent
  <2>7. CASE Tick
    BY <2>7, <2>same DEF Tick
  <2>8. ASSUME NEW h \in GateHashes \cup {None}, EditGates(h) PROVE RaiseInv'
    BY <2>8, <2>same DEF EditGates
  <2>9. ASSUME NEW l \in ReadinessLevels \cup {None}, ReadinessChanges(l)
        PROVE RaiseInv'
    BY <2>9, <2>same DEF ReadinessChanges
  <2>10. ASSUME NEW m \in BootModes, NEW h \in PolicyHashes, Restart(m, h)
         PROVE RaiseInv'
    <3>1. PICK r : r = BootRow(h)
      OBVIOUS
    <3>2. rows' = Append(rows, r) /\ r.kind = "POLICY_TABLE_INSTALLED"
      BY <2>10, <3>1 DEF Restart, BootRow, BlankRow
    <3>3. OnlyOperatorsRaise'
      BY <3>2, OnlyOperatorsRow DEF RaiseInv
    <3>4. \A c \in Callers : pc'[c] = "idle"
      BY <2>10 DEF Restart
    <3> QED
      BY <3>3, <3>4 DEF RaiseInv, OneRequest, OthersRestrict, Pendings
  <2>11. CASE ReplayGates
    BY <2>11, <2>same DEF ReplayGates
  <2>12. CASE UNCHANGED vars
    BY <2>12, <2>same DEF vars
  <2> QED
    BY <2>1, <2>2, <2>3, <2>4, <2>5, <2>6, <2>7, <2>8, <2>9, <2>10, <2>11,
       <2>12 DEF Next
<1> QED
  BY <1>1, <1>2, TypeCorrect, PTL DEF Spec

\* While requests are served one at a time, only an operator's REQUEST_MODE
\* raises the mode, into LIVE and AUTO with authorisation: a kill, an unlock,
\* a hazard and the drift oracle can only restrict.
THEOREM OperatorsRaise ==
  ASSUME HarnessLock
  PROVE  Spec => []OnlyOperatorsRaise
<1>1. RaiseInv => OnlyOperatorsRaise
  BY DEF RaiseInv
<1> QED
  BY <1>1, RaiseInvariant, PTL
-----------------------------------------------------------------------------
(***************************************************************************)
(* GatedEntryUnderAnchoredDocument: the hash the gates hold in memory, if  *)
(* any, is the one the ledger anchored last.                               *)
(***************************************************************************)
Anchored(s, h) == \E i \in 1 .. Len(s) : LatestBound(s, i) /\ s[i].hash = h

BoundIsAnchored == bound # None => Anchored(rows, bound)

\* A row that does not bind leaves the anchor where it is.
LEMMA AnchorStands ==
  ASSUME NEW s \in Seq(Rows), NEW r \in Rows, NEW h, Anchored(s, h),
         r.kind # "PROMOTION_GATES_BOUND"
  PROVE  Anchored(Append(s, r), h)
<1>1. PICK i \in 1 .. Len(s) : LatestBound(s, i) /\ s[i].hash = h
  BY DEF Anchored
<1> DEFINE S == Append(s, r)
<1>2. /\ Len(s) \in Nat
      /\ Len(S) = Len(s) + 1
      /\ S[Len(s) + 1] = r
      /\ \A k \in 1 .. Len(s) : S[k] = s[k]
  BY AppendRow
<1> HIDE DEF S
<1>3. ASSUME NEW k \in i + 1 .. Len(S)
      PROVE  ~OfKind(S, k, "PROMOTION_GATES_BOUND")
  <2>1. CASE k = Len(s) + 1
    BY <1>2, <2>1 DEF OfKind
  <2>2. CASE k # Len(s) + 1
    <3>1. k \in 1 .. Len(s) /\ k \in i + 1 .. Len(s)
      BY <1>2, <2>2
    <3>2. ~OfKind(s, k, "PROMOTION_GATES_BOUND")
      BY <1>1, <3>1 DEF LatestBound
    <3> QED
      BY <1>2, <3>1, <3>2 DEF OfKind
  <2> QED
    BY <2>1, <2>2
<1>4. OfKind(S, i, "PROMOTION_GATES_BOUND") /\ S[i].hash = h
  BY <1>1, <1>2 DEF LatestBound, OfKind
<1>5. LatestBound(S, i) /\ i \in 1 .. Len(S)
  BY <1>2, <1>3, <1>4 DEF LatestBound
<1>6. Anchored(S, h)
  BY <1>4, <1>5 DEF Anchored
<1> QED
  BY <1>6 DEF S

\* A row that binds h anchors it.
LEMMA BoundRowAnchors ==
  ASSUME NEW s \in Seq(Rows), NEW r \in Rows,
         r.kind = "PROMOTION_GATES_BOUND"
  PROVE  Anchored(Append(s, r), r.hash)
BY AppendRow DEF Anchored, LatestBound, OfKind

\* What AnchorOf reads is anchored.
LEMMA AnchorOfAnchors ==
  ASSUME NEW s, AnchorOf(s) # None
  PROVE  Anchored(s, AnchorOf(s))
<1>1. PICK i \in 1 .. Len(s) : LatestBound(s, i) /\ AnchorOf(s) = s[i].hash
  BY DEF AnchorOf
<1> QED
  BY <1>1 DEF Anchored

LEMMA AnchorStep ==
  ASSUME TypeOK, TypeOK', BoundIsAnchored, UNCHANGED bound,
         NEW r, rows' = Append(rows, r),
         r.kind # "PROMOTION_GATES_BOUND"
  PROVE  BoundIsAnchored'
<1>1. rows \in Seq(Rows) /\ rows' \in Seq(Rows)
  BY DEF TypeOK
<1>2. r \in Rows
  BY <1>1
<1> QED
  BY <1>1, <1>2, AnchorStands DEF BoundIsAnchored

\* The step that lets a request pass is the accepted request's own, so the
\* gates answered OK in the state it is taken in.
LEMMA PassesGates ==
  ASSUME TypeOK, TypeOK', Next, NEW c \in Callers, Passes(c)
  PROVE  GateCode(pend[c].target) = OK
<1>1. Accepted(c) => GateCode(pend[c].target) = OK
  BY DEF Accepted, Verdict
<1> SUFFICES ASSUME ~Accepted(c) PROVE FALSE
  BY <1>1
<1>2. /\ rows \in Seq(Rows) /\ rows' \in Seq(Rows)
      /\ pc[c] = "proposing" /\ pc'[c] # "proposing"
      /\ Len(rows') = Len(rows) + 1
      /\ rows'[Len(rows) + 1].kind
           \in {"MODE_TRANSITION", "OPERATOR_CONSENT_ACCEPTED"}
  BY DEF Passes, TypeOK
<1>3. rows' # rows
  BY <1>2
<1>4. ASSUME NEW r, rows' = Append(rows, r)
      PROVE  r.kind \in {"MODE_TRANSITION", "OPERATOR_CONSENT_ACCEPTED"}
  BY <1>2, <1>4, AppendRow
<1>5. UNCHANGED pc => FALSE
  BY <1>2
<1>6. ASSUME NEW d \in Callers, d # c,
             \A e \in Callers : e # d => pc'[e] = pc[e]
      PROVE  FALSE
  BY <1>2, <1>6
<1>7. ASSUME NEW d \in Callers, Request(d) PROVE FALSE
  <2>1. rows' = rows
    BY <1>7 DEF Request, Refuse, RequestMode, RequestKill, RequestUnlock,
                HazardLock, DriftDowngrade, Ask
  <2> QED
    BY <1>3, <2>1
<1>8. ASSUME NEW d \in Callers, Serve(d) PROVE FALSE
  <2>1. d = c
    <3>1. \A e \in Callers : e # d => pc'[e] = pc[e]
      BY <1>8 DEF Serve, RecordRefusal, Reject, CommitConsent,
         CommitTransition, Bind, BindFails, Finish, TypeOK
    <3> QED
      BY <1>6, <3>1
  <2>2. ~RecordRefusal(c) /\ ~Bind(c) /\ ~BindFails(c)
    BY <1>2 DEF RecordRefusal, Bind, BindFails
  <2>3. ~CommitConsent(c) /\ ~CommitTransition(c)
    BY <1>2 DEF CommitConsent, CommitTransition
  <2>4. CASE Reject(c)
    <3>1. PICK code : rows' = Append(rows, RejectedRow(pend[c], mode, code))
      BY <2>4 DEF Reject
    <3>2. RejectedRow(pend[c], mode, code).kind = "MODE_TRANSITION_REJECTED"
      BY DEF RejectedRow, BlankRow
    <3> QED
      BY <1>4, <3>1, <3>2
  <2> QED
    BY <1>8, <2>1, <2>2, <2>3, <2>4 DEF Serve
<1>9. ASSUME NEW d \in Callers, AppendFails(d) PROVE FALSE
  BY <1>3, <1>9 DEF AppendFails
<1>10. ~ProposeIntent /\ ~AuditAppend /\ ~Tick /\ ~ReplayGates
  BY <1>5 DEF ProposeIntent, AuditAppend, Tick, ReplayGates
<1>11. ASSUME NEW n \in Nonces, NEW ts \in 1 .. MaxTime, IssueConsent(n, ts)
       PROVE  FALSE
  BY <1>3, <1>11 DEF IssueConsent
<1>12. ASSUME NEW h \in GateHashes \cup {None}, EditGates(h) PROVE FALSE
  BY <1>3, <1>12 DEF EditGates
<1>13. ASSUME NEW l \in ReadinessLevels \cup {None}, ReadinessChanges(l)
       PROVE  FALSE
  BY <1>3, <1>13 DEF ReadinessChanges
<1>14. ASSUME NEW m \in BootModes, NEW h \in PolicyHashes, Restart(m, h)
       PROVE  FALSE
  <2>1. rows' = Append(rows, BootRow(h))
    BY <1>14 DEF Restart
  <2>2. BootRow(h).kind = "POLICY_TABLE_INSTALLED"
    BY DEF BootRow, BlankRow
  <2> QED
    BY <1>4, <2>1, <2>2
<1> QED
  BY <1>7, <1>8, <1>9, <1>10, <1>11, <1>12, <1>13, <1>14 DEF Next

\* No request passes into CANARY, LIVE or AUTO unless the document then on
\* disk is the one the ledger anchored last, whatever was edited, deleted,
\* bound again, rebooted or replayed between the two.
THEOREM GatedEntriesAnchored == Spec => GatedEntryUnderAnchoredDocument
<1>1. Init => BoundIsAnchored
  BY DEF Init, BoundIsAnchored
<1>2. TypeOK /\ TypeOK' /\ BoundIsAnchored /\ [Next]_vars => BoundIsAnchored'
  <2> SUFFICES ASSUME TypeOK, TypeOK', BoundIsAnchored, [Next]_vars
               PROVE  BoundIsAnchored'
    OBVIOUS
  <2>same. ASSUME UNCHANGED <<rows, bound>> PROVE BoundIsAnchored'
    BY <2>same DEF BoundIsAnchored
  <2>1. ASSUME NEW c \in Callers, Request(c) PROVE BoundIsAnchored'
    <3>1. UNCHANGED <<rows, bound>>
      BY <2>1 DEF Request, Refuse, RequestMode, RequestKill, RequestUnlock,
                  HazardLock, DriftDowngrade, Ask
    <3> QED
      BY <2>same, <3>1
  <2>2. ASSUME NEW c \in Callers, Serve(c) PROVE BoundIsAnchored'
    <3>1. CASE RecordRefusal(c)
      <4>1. PICK r : r = OperatorRejectedRow(pend[c].by, pend[c].seen,
                           OperatorActionCode(pend[c].by, pend[c].seen))
        OBVIOUS
      <4>2. rows' = Append(rows, r) /\ r.kind = "OPERATOR_REJECTED"
        BY <3>1, <4>1 DEF RecordRefusal, OperatorRejectedRow, BlankRow
      <4> QED
        BY <3>1, <4>2, AnchorStep DEF RecordRefusal
    <3>2. CASE Reject(c)
      <4>1. PICK code : rows' = Append(rows, RejectedRow(pend[c], mode, code))
        BY <3>2 DEF Reject
      <4>2. RejectedRow(pend[c], mode, code).kind = "MODE_TRANSITION_REJECTED"
        BY DEF RejectedRow, BlankRow
      <4> QED
        BY <3>2, <4>1, <4>2, AnchorStep DEF Reject
    <3>3. CASE CommitConsent(c)
      <4>1. PICK r : /\ rows' = Append(rows, r)
                     /\ r.kind = "OPERATOR_CONSENT_ACCEPTED"
        BY <3>3, ConsentForThisTable
      <4> QED
        BY <3>3, <4>1, AnchorStep DEF CommitConsent
    <3>4. CASE CommitTransition(c)
      <4>1. PICK r : r = TransitionRow(pend[c], mode)
        OBVIOUS
      <4>2. rows' = Append(rows, r) /\ r.kind = "MODE_TRANSITION"
        BY <3>4, <4>1 DEF CommitTransition, TransitionRow, BlankRow
      <4> QED
        BY <3>4, <4>2, AnchorStep DEF CommitTransition
    <3>5. CASE Bind(c)
      <4>1. PICK r : r = BoundRow(gatesFile)
        OBVIOUS
      <4>2. /\ rows' = Append(rows, r) /\ bound' = r.hash
            /\ r.kind = "PROMOTION_GATES_BOUND"
        BY <3>5, <4>1 DEF Bind, BoundRow, BlankRow
      <4>3. rows \in Seq(Rows) /\ rows' \in Seq(Rows)
        BY DEF TypeOK
      <4>4. r \in Rows
        BY <4>2, <4>3
      <4> QED
        BY <4>2, <4>3, <4>4, BoundRowAnchors DEF BoundIsAnchored
    <3>6. CASE BindFails(c)
      BY <2>same, <3>6 DEF BindFails
    <3> QED
      BY <2>2, <3>1, <3>2, <3>3, <3>4, <3>5, <3>6 DEF Serve
  <2>3. ASSUME NEW c \in Callers, AppendFails(c) PROVE BoundIsAnchored'
    BY <2>3, <2>same DEF AppendFails
  <2>4. CASE ProposeIntent
    <3>1. PICK r : r = [BlankRow EXCEPT !.kind = "INTENT_TRANSITION"]
      OBVIOUS
    <3>2. rows' = Append(rows, r) /\ r.kind = "INTENT_TRANSITION"
      BY <2>4, <3>1 DEF ProposeIntent, BlankRow
    <3> QED
      BY <2>4, <3>2, AnchorStep DEF ProposeIntent
  <2>5. CASE AuditAppend
    <3>1. BlankRow.kind = "AUDIT"
      BY DEF BlankRow
    <3> QED
      BY <2>5, <3>1, AnchorStep DEF AuditAppend
  <2>6. ASSUME NEW n \in Nonces, NEW ts \in 1 .. MaxTime, IssueConsent(n, ts)
        PROVE  BoundIsAnchored'
    BY <2>6, <2>same DEF IssueConsent
  <2>7. CASE Tick
    BY <2>7, <2>same DEF Tick
  <2>8. ASSUME NEW h \in GateHashes \cup {None}, EditGates(h)
        PROVE  BoundIsAnchored'
    BY <2>8, <2>same DEF EditGates
  <2>9. ASSUME NEW l \in ReadinessLevels \cup {None}, ReadinessChanges(l)
        PROVE  BoundIsAnchored'
    BY <2>9, <2>same DEF ReadinessChanges
  <2>10. ASSUME NEW m \in BootModes, NEW h \in PolicyHashes, Restart(m, h)
         PROVE  BoundIsAnchored'
    BY <2>10 DEF Restart, BoundIsAnchored
  <2>11. CASE ReplayGates
    BY <2>11, AnchorOfAnchors DEF ReplayGates, BoundIsAnchored
  <2>12. CASE UNCHANGED vars
    BY <2>12, <2>same DEF vars
  <2> QED
    BY <2>1, <2>2, <2>3, <2>4, <2>5, <2>6, <2>7, <2>8, <2>9, <2>10, <2>11,
       <2>12 DEF Next
<1>3. TypeOK /\ TypeOK' /\ BoundIsAnchored /\ [Next]_vars =>
        [GatesWired => \A c \in Callers :
           Passes(c) /\ pend[c].target \in GatedTargets =>
             \E i \in 1 .. Len(rows) :
               LatestBound(rows, i) /\ rows[i].hash = gatesFile]_vars
  <2> SUFFICES ASSUME TypeOK, TypeOK', BoundIsAnchored, Next, GatesWired,
                      NEW c \in Callers, Passes(c),
                      pend[c].target \in GatedTargets
               PROVE  Anchored(rows, gatesFile)
    BY DEF Anchored
  <2>1. GateCode(pend[c].target) = OK
    BY PassesGates
  <2>2. bound # None /\ gatesFile = bound
    BY <2>1 DEF GateCode, OK
  <2> QED
    BY <2>2 DEF BoundIsAnchored
<1> QED
  BY <1>1, <1>2, <1>3, TypeCorrect, PTL DEF Spec, GatedEntryUnderAnchoredDocument
-----------------------------------------------------------------------------
(***************************************************************************)
(* UnlockUndoesTheLockItSaw: while requests are served one at a time, the  *)
(* mode has not moved since the pending request read it, and in LOCKED     *)
(* only an unlock asks for SAFE.                                           *)
(***************************************************************************)
\* No transition was written after row n.
QuietSince(s, n) ==
  \A k \in n + 1 .. Len(s) : ~OfKind(s, k, "MODE_TRANSITION")

RequestIsFresh ==
  \A c \in Callers : pc[c] \in Pendings =>
    /\ pend[c].at <= Len(rows)
    /\ QuietSince(rows, pend[c].at)
    /\ mode = "LOCKED" /\ pend[c].target = "SAFE" => pend[c].by = "UNLOCK"

LEMMA QuietRow ==
  ASSUME NEW s \in Seq(Rows), NEW r \in Rows, r.kind # "MODE_TRANSITION",
         NEW n \in Nat, n <= Len(s), QuietSince(s, n)
  PROVE  n <= Len(Append(s, r)) /\ QuietSince(Append(s, r), n)
<1> DEFINE S == Append(s, r)
<1>1. /\ Len(s) \in Nat
      /\ Len(S) = Len(s) + 1
      /\ S[Len(s) + 1] = r
      /\ \A k \in 1 .. Len(s) : S[k] = s[k]
  BY AppendRow
<1> HIDE DEF S
<1>2. ASSUME NEW k \in n + 1 .. Len(S) PROVE ~OfKind(S, k, "MODE_TRANSITION")
  <2>1. CASE k = Len(s) + 1
    BY <1>1, <2>1 DEF OfKind
  <2>2. CASE k # Len(s) + 1
    <3>1. k \in 1 .. Len(s) /\ k \in n + 1 .. Len(s)
      BY <1>1, <2>2
    <3>2. ~OfKind(s, k, "MODE_TRANSITION")
      BY <3>1 DEF QuietSince
    <3> QED
      BY <1>1, <3>1, <3>2 DEF OfKind
  <2> QED
    BY <2>1, <2>2
<1>3. n <= Len(S) /\ QuietSince(S, n)
  BY <1>1, <1>2 DEF QuietSince
<1> QED
  BY <1>3 DEF S

\* A step that lets no new caller pend, keeps the mode and appends at most a
\* row other than a transition.
LEMMA FreshKept ==
  ASSUME TypeOK, TypeOK', RequestIsFresh, UNCHANGED mode,
         rows' = rows \/ \E r : /\ rows' = Append(rows, r)
                                /\ r.kind # "MODE_TRANSITION",
         \A d \in Callers : pc'[d] \in Pendings =>
           pc[d] \in Pendings /\ pend'[d] = pend[d]
  PROVE  RequestIsFresh'
<1> SUFFICES ASSUME NEW d \in Callers, pc'[d] \in Pendings
             PROVE  /\ pend'[d].at <= Len(rows')
                    /\ QuietSince(rows', pend'[d].at)
                    /\ mode' = "LOCKED" /\ pend'[d].target = "SAFE"
                         => pend'[d].by = "UNLOCK"
  BY DEF RequestIsFresh
<1>1. /\ pend'[d] = pend[d]
      /\ pend[d].at <= Len(rows)
      /\ QuietSince(rows, pend[d].at)
      /\ mode = "LOCKED" /\ pend[d].target = "SAFE" => pend[d].by = "UNLOCK"
  BY DEF RequestIsFresh
<1>2. rows \in Seq(Rows) /\ rows' \in Seq(Rows) /\ pend[d].at \in Nat
  BY DEF TypeOK, Requests
<1>3. CASE rows' = rows
  BY <1>1, <1>3
<1>4. ASSUME NEW r, rows' = Append(rows, r), r.kind # "MODE_TRANSITION"
      PROVE  pend[d].at <= Len(rows') /\ QuietSince(rows', pend[d].at)
  <2>1. r \in Rows
    BY <1>2, <1>4
  <2> QED
    BY <1>1, <1>2, <1>4, <2>1, QuietRow
<1> QED
  BY <1>1, <1>3, <1>4

LEMMA AskIsFresh ==
  ASSUME HarnessLock, TypeOK, NEW c \in Callers,
         NEW s, NEW t, NEW a, NEW n, Ask(c, s, t, a, n),
         mode = "LOCKED" /\ t = "SAFE" => s = "UNLOCK"
  PROVE  RequestIsFresh'
<1>1. /\ UNCHANGED <<mode, rows>>
      /\ pc' = [pc EXCEPT ![c] = "proposing"]
      /\ \A d \in Callers : pc[d] = "idle"
  BY DEF Ask, MayStart
<1>2. /\ pend'[c].by = s
      /\ pend'[c].target = t
      /\ pend'[c].at = Len(rows)
  BY DEF Ask, TypeOK
<1>3. \A d \in Callers : d # c => pc'[d] = "idle"
  BY <1>1 DEF TypeOK
<1>4. Len(rows) \in Nat
  BY DEF TypeOK
<1>5. QuietSince(rows, Len(rows))
  BY <1>4 DEF QuietSince
<1> QED
  BY <1>1, <1>2, <1>3, <1>4, <1>5 DEF RequestIsFresh, Pendings

\* Who asks for SAFE in LOCKED.
LEMMA OnlyUnlockLeavesLocked ==
  /\ OperatorActionCode("MODE", "LOCKED") # OK
  /\ "LOCKED" \notin DOMAIN DowngradeTarget
  /\ "LOCKED" # "SAFE"
  /\ \A t : FsmCode("LOCKED", t) = OK => t = "SAFE"
  /\ \A t : ~EdgeRequiresConsent("LOCKED", t)
BY DEF OperatorActionCode, OK, DowngradeTarget, FsmCode, IsLegalEdge, Forward,
       Backward, Chain, EdgeRequiresConsent

LEMMA FreshInvariant ==
  ASSUME HarnessLock
  PROVE  Spec => []RequestIsFresh
<1>1. Init => RequestIsFresh
  BY DEF Init, RequestIsFresh, Pendings
<1>2. TypeOK /\ TypeOK' /\ RaiseInv /\ RequestIsFresh /\ [Next]_vars
        => RequestIsFresh'
  <2> SUFFICES ASSUME TypeOK, TypeOK', RaiseInv, RequestIsFresh, [Next]_vars
               PROVE  RequestIsFresh'
    OBVIOUS
  <2>same. ASSUME UNCHANGED <<mode, rows, pc, pend>> PROVE RequestIsFresh'
    BY <2>same DEF RequestIsFresh
  <2>1. ASSUME NEW c \in Callers, Request(c) PROVE RequestIsFresh'
    <3>1. ASSUME NEW s \in {"MODE", "KILL", "UNLOCK"}, Refuse(c, s)
          PROVE  RequestIsFresh'
      <4>1. UNCHANGED <<mode, rows>>
        BY <3>1 DEF Refuse
      <4>2. \A d \in Callers : pc'[d] \in Pendings =>
              pc[d] \in Pendings /\ pend'[d] = pend[d]
        BY <3>1 DEF Refuse, TypeOK, Pendings
      <4> QED
        BY <4>1, <4>2, FreshKept
    <3>2. CASE RequestMode(c)
      BY <3>2, AskIsFresh, OnlyUnlockLeavesLocked DEF RequestMode
    <3>3. CASE RequestKill(c)
      BY <3>3, AskIsFresh DEF RequestKill
    <3>4. CASE RequestUnlock(c)
      BY <3>4, AskIsFresh DEF RequestUnlock
    <3>5. CASE HazardLock(c)
      BY <3>5, AskIsFresh DEF HazardLock
    <3>6. CASE DriftDowngrade(c)
      BY <3>6, AskIsFresh, OnlyUnlockLeavesLocked DEF DriftDowngrade
    <3> QED
      BY <2>1, <3>1, <3>2, <3>3, <3>4, <3>5, <3>6 DEF Request
  <2>2. ASSUME NEW c \in Callers, Serve(c) PROVE RequestIsFresh'
    <3>1. Finish(c) => \A d \in Callers : pc'[d] \in Pendings =>
            pc[d] \in Pendings /\ pend'[d] = pend[d]
      BY FinishStep DEF Pendings
    <3>2. CASE RecordRefusal(c)
      <4>1. PICK r : r = OperatorRejectedRow(pend[c].by, pend[c].seen,
                           OperatorActionCode(pend[c].by, pend[c].seen))
        OBVIOUS
      <4>2. rows' = Append(rows, r) /\ r.kind = "OPERATOR_REJECTED"
        BY <3>2, <4>1 DEF RecordRefusal, OperatorRejectedRow, BlankRow
      <4> QED
        BY <3>1, <3>2, <4>2, FreshKept DEF RecordRefusal
    <3>3. CASE Reject(c)
      <4>1. PICK code : rows' = Append(rows, RejectedRow(pend[c], mode, code))
        BY <3>3 DEF Reject
      <4>2. RejectedRow(pend[c], mode, code).kind = "MODE_TRANSITION_REJECTED"
        BY DEF RejectedRow, BlankRow
      <4> QED
        BY <3>1, <3>3, <4>1, <4>2, FreshKept DEF Reject
    <3>4. CASE CommitConsent(c)
      <4>1. PICK r : /\ rows' = Append(rows, r)
                     /\ r.kind = "OPERATOR_CONSENT_ACCEPTED"
        BY <3>4, ConsentForThisTable
      <4>2. \A d \in Callers : pc'[d] \in Pendings =>
              pc[d] \in Pendings /\ pend'[d] = pend[d]
        BY <3>4 DEF CommitConsent, Accepted, TypeOK, Pendings
      <4> QED
        BY <3>4, <4>1, <4>2, FreshKept DEF CommitConsent
    <3>5. CASE CommitTransition(c)
      <4>1. pc[c] \in Pendings
        BY <3>5 DEF CommitTransition, Accepted, Pendings
      <4>2. pc'[c] \in {"idle", "binding"}
        BY <3>5 DEF CommitTransition, Finish, TypeOK
      <4>3. \A d \in Callers : d # c => pc'[d] = "idle"
        BY <3>5, <4>1 DEF CommitTransition, Finish, TypeOK, Pendings,
                          RaiseInv, OneRequest
      <4> QED
        BY <4>2, <4>3 DEF RequestIsFresh, Pendings
    <3>6. CASE Bind(c)
      <4>1. PICK r : r = BoundRow(gatesFile)
        OBVIOUS
      <4>2. rows' = Append(rows, r) /\ r.kind = "PROMOTION_GATES_BOUND"
        BY <3>6, <4>1 DEF Bind, BoundRow, BlankRow
      <4> QED
        BY <3>1, <3>6, <4>2, FreshKept DEF Bind
    <3>7. CASE BindFails(c)
      BY <3>1, <3>7, FreshKept DEF BindFails
    <3> QED
      BY <2>2, <3>2, <3>3, <3>4, <3>5, <3>6, <3>7 DEF Serve
  <2>3. ASSUME NEW c \in Callers, AppendFails(c) PROVE RequestIsFresh'
    <3>1. \A d \in Callers : pc'[d] \in Pendings =>
            pc[d] \in Pendings /\ pend'[d] = pend[d]
      BY <2>3, FinishStep DEF AppendFails, Pendings
    <3> QED
      BY <2>3, <3>1, FreshKept DEF AppendFails
  <2>4. CASE ProposeIntent
    <3>1. PICK r : r = [BlankRow EXCEPT !.kind = "INTENT_TRANSITION"]
      OBVIOUS
    <3>2. rows' = Append(rows, r) /\ r.kind = "INTENT_TRANSITION"
      BY <2>4, <3>1 DEF ProposeIntent, BlankRow
    <3> QED
      BY <2>4, <3>2, FreshKept DEF ProposeIntent
  <2>5. CASE AuditAppend
    <3>1. BlankRow.kind = "AUDIT"
      BY DEF BlankRow
    <3> QED
      BY <2>5, <3>1, FreshKept DEF AuditAppend
  <2>6. ASSUME NEW n \in Nonces, NEW ts \in 1 .. MaxTime, IssueConsent(n, ts)
        PROVE  RequestIsFresh'
    BY <2>6, <2>same DEF IssueConsent
  <2>7. CASE Tick
    BY <2>7, <2>same DEF Tick
  <2>8. ASSUME NEW h \in GateHashes \cup {None}, EditGates(h)
        PROVE  RequestIsFresh'
    BY <2>8, <2>same DEF EditGates
  <2>9. ASSUME NEW l \in ReadinessLevels \cup {None}, ReadinessChanges(l)
        PROVE  RequestIsFresh'
    BY <2>9, <2>same DEF ReadinessChanges
  <2>10. ASSUME NEW m \in BootModes, NEW h \in PolicyHashes, Restart(m, h)
         PROVE  RequestIsFresh'
    BY <2>10 DEF Restart, RequestIsFresh, Pendings
  <2>11. CASE ReplayGates
    BY <2>11, <2>same DEF ReplayGates
  <2>12. CASE UNCHANGED vars
    BY <2>12, <2>same DEF vars
  <2> QED
    BY <2>1, <2>2, <2>3, <2>4, <2>5, <2>6, <2>7, <2>8, <2>9, <2>10, <2>11,
       <2>12 DEF Next
<1> QED
  BY <1>1, <1>2, TypeCorrect, RaiseInvariant, PTL DEF Spec

\* The mode changes only at a transition row and at a boot.
LEMMA ModeMoves ==
  ASSUME Next, mode' # mode
  PROVE  \/ \E c \in Callers : CommitTransition(c)
         \/ \E m \in BootModes, h \in PolicyHashes : Restart(m, h)
BY DEF Next, Request, Refuse, RequestMode, RequestKill, RequestUnlock,
       HazardLock, DriftDowngrade, Ask, Serve, RecordRefusal, Reject,
       CommitConsent, Bind, BindFails, AppendFails, ProposeIntent, AuditAppend,
       IssueConsent, Tick, EditGates, ReadinessChanges, ReplayGates

\* While requests are served one at a time, LOCKED is left within a boot
\* only by an operator's unlock that was made after the lock it undoes.
THEOREM UnlocksSawTheLock ==
  ASSUME HarnessLock
  PROVE  Spec => UnlockUndoesTheLockItSaw
<1> DEFINE Unlocked ==
      mode = "LOCKED" /\ mode' # "LOCKED"
      /\ rows'[Len(rows')].kind = "MODE_TRANSITION" =>
        \E c \in Callers :
          /\ pc[c] = "proposing" /\ pc'[c] = "idle"
          /\ pend[c].by = "UNLOCK"
          /\ \A k \in pend[c].at + 1 .. Len(rows) :
               OfKind(rows, k, "MODE_TRANSITION") => rows[k].new # "LOCKED"
<1>1. TypeOK /\ TypeOK' /\ RaiseInv /\ RequestIsFresh /\ [Next]_vars
        => [Unlocked]_vars
  <2> SUFFICES ASSUME TypeOK, TypeOK', RaiseInv, RequestIsFresh, Next,
                      mode = "LOCKED", mode' # "LOCKED",
                      rows'[Len(rows')].kind = "MODE_TRANSITION"
               PROVE  \E c \in Callers :
                        /\ pc[c] = "proposing" /\ pc'[c] = "idle"
                        /\ pend[c].by = "UNLOCK"
                        /\ QuietSince(rows, pend[c].at)
    BY DEF QuietSince
  <2>1. ASSUME NEW m \in BootModes, NEW h \in PolicyHashes, Restart(m, h)
        PROVE  FALSE
    <3>1. rows \in Seq(Rows) /\ rows' \in Seq(Rows)
      BY DEF TypeOK
    <3>2. rows' = Append(rows, BootRow(h))
      BY <2>1 DEF Restart
    <3>3. rows'[Len(rows')] = BootRow(h)
      BY <3>1, <3>2
    <3> QED
      BY <3>3 DEF BootRow, BlankRow
  <2>2. PICK c \in Callers : CommitTransition(c)
    BY <2>1, ModeMoves
  <2>3. pc[c] # "consented"
    BY OnlyUnlockLeavesLocked DEF RaiseInv, OthersRestrict, Pendings
  <2>4. Accepted(c) /\ mode' = pend[c].target
    BY <2>2, <2>3 DEF CommitTransition
  <2>5. pend[c].target = "SAFE"
    BY <2>4, OnlyUnlockLeavesLocked DEF Accepted, Verdict
  <2>6. pc[c] = "proposing" /\ pc'[c] = "idle"
    BY <2>2, <2>4, <2>5 DEF Accepted, CommitTransition, Finish, TypeOK
  <2>7. pend[c].by = "UNLOCK" /\ QuietSince(rows, pend[c].at)
    BY <2>5, <2>6 DEF RequestIsFresh, Pendings
  <2> QED
    BY <2>6, <2>7
<1> QED
  BY <1>1, TypeCorrect, RaiseInvariant, FreshInvariant, PTL
     DEF Spec, UnlockUndoesTheLockItSaw
-----------------------------------------------------------------------------
(***************************************************************************)
(* ImplementsModeAuthority.  The ring holds the last of the consents used  *)
(* since the boot, as many as fit, so a consent it does not hold is one    *)
(* ModeAuthority lets a step use.  A consent in flight is the last one     *)
(* used, and ModeAuthority sees it used at the MODE_TRANSITION row.        *)
(***************************************************************************)
RingIsTail ==
  /\ Len(ring) = IF Len(used) <= RingCapacity THEN Len(used) ELSE RingCapacity
  /\ \A i \in 1 .. Len(ring) : ring[i] = used[Len(used) - Len(ring) + i]

\* Nonce n is not among the last RingCapacity of s.
NotAmongLast(s, n) ==
  \A i \in 1 .. Len(s) : i + RingCapacity > Len(s) => s[i] # n

\* n was used last, after the consents u, the last of which are others.
UsedAfter(u, n) == used = Append(u, n) /\ NotAmongLast(u, n)

FlightIsLast ==
  \A c \in Callers : pc[c] = "consented" =>
    /\ pend[c].nonce \in Nonces
    /\ \E u \in Seq(Nonces) : UsedAfter(u, pend[c].nonce)

RingInv == RingIsTail /\ FlightIsLast

Consented == \E c \in Callers : pc[c] = "consented"

\* The ring of a deque keeps its last elements.
LEMMA PushKeepsTail ==
  ASSUME TypeOK, RingIsTail, NEW n \in Nonces,
         ring' = Push(n), used' = Append(used, n)
  PROVE  RingIsTail'
<1>1. /\ ring \in Seq(Nonces) /\ used \in Seq(Nonces)
      /\ Len(ring) \in Nat /\ Len(used) \in Nat
      /\ RingCapacity \in Nat /\ RingCapacity > 0
  BY ConstantsOK DEF TypeOK
<1>2. /\ Len(used') = Len(used) + 1
      /\ used'[Len(used) + 1] = n
      /\ \A i \in 1 .. Len(used) : used'[i] = used[i]
  BY <1>1
<1>3. CASE Len(ring) < RingCapacity
  <2>1. Len(used) = Len(ring) /\ \A i \in 1 .. Len(ring) : ring[i] = used[i]
    <3>1. Len(used) = Len(ring)
      BY <1>1, <1>3 DEF RingIsTail
    <3>2. \A i \in 1 .. Len(ring) : Len(used) - Len(ring) + i = i
      BY <1>1, <3>1
    <3> QED
      BY <3>1, <3>2 DEF RingIsTail
  <2>2. /\ Len(ring') = Len(ring) + 1
        /\ ring'[Len(ring) + 1] = n
        /\ \A i \in 1 .. Len(ring) : ring'[i] = ring[i]
    BY <1>1, <1>3 DEF Push
  <2>3. \A i \in 1 .. Len(ring') : ring'[i] = used'[i]
    BY <1>1, <1>2, <2>1, <2>2
  <2>4. /\ Len(ring') = Len(used') /\ Len(used') <= RingCapacity
        /\ \A i \in 1 .. Len(ring') : Len(used') - Len(ring') + i = i
    BY <1>1, <1>2, <1>3, <2>1, <2>2
  <2> QED
    BY <2>3, <2>4 DEF RingIsTail
<1>4. CASE ~(Len(ring) < RingCapacity)
  <2>1. Len(ring) = RingCapacity /\ Len(used) >= RingCapacity
    BY <1>1, <1>4 DEF RingIsTail
  <2> DEFINE t == Tail(ring)
  <2>2. /\ t \in Seq(Nonces)
        /\ Len(t) = RingCapacity - 1
        /\ \A i \in 1 .. RingCapacity - 1 : t[i] = ring[i + 1]
    <3>1. ring # <<>>
      BY <1>1, <2>1
    <3> QED
      BY <1>1, <2>1, <3>1, HeadTailProperties
  <2>3. ring' = Append(t, n)
    BY <1>4 DEF Push
  <2> HIDE DEF t
  <2>4. /\ Len(ring') = RingCapacity
        /\ ring'[RingCapacity] = n
        /\ \A i \in 1 .. RingCapacity - 1 : ring'[i] = ring[i + 1]
    BY <1>1, <2>2, <2>3
  <2>5. ASSUME NEW i \in 1 .. RingCapacity
        PROVE  ring'[i] = used'[Len(used') - RingCapacity + i]
    <3>1. CASE i = RingCapacity
      BY <1>1, <1>2, <2>4, <3>1
    <3>2. CASE i # RingCapacity
      <4>1. /\ i \in 1 .. RingCapacity - 1
            /\ i + 1 \in 1 .. Len(ring)
            /\ Len(used) - RingCapacity + (i + 1) \in 1 .. Len(used)
            /\ Len(used') - RingCapacity + i
                 = Len(used) - RingCapacity + (i + 1)
        BY <1>1, <1>2, <2>1, <3>2
      <4>2. ring[i + 1] = used[Len(used) - RingCapacity + (i + 1)]
        BY <2>1, <4>1 DEF RingIsTail
      <4> QED
        BY <1>2, <2>4, <4>1, <4>2
    <3> QED
      BY <3>1, <3>2
  <2>6. /\ Len(ring') = IF Len(used') <= RingCapacity THEN Len(used')
                                                      ELSE RingCapacity
        /\ 1 .. Len(ring') = 1 .. RingCapacity
    BY <1>1, <1>2, <2>1, <2>4
  <2>7. \A i \in 1 .. Len(ring') : ring'[i] = used'[Len(used') - Len(ring') + i]
    BY <2>4, <2>5, <2>6
  <2> QED
    BY <2>6, <2>7 DEF RingIsTail
<1> QED
  BY <1>3, <1>4

\* The nonce of an accepted request is not among the last ones used.
LEMMA AcceptedIsUsable ==
  ASSUME TypeOK, RingIsTail, NEW c \in Callers, Accepted(c),
         EdgeRequiresConsent(mode, pend[c].target)
  PROVE  /\ pend[c].nonce \in Nonces
         /\ NotAmongLast(used, pend[c].nonce)
         /\ ~Consented
<1>1. ConsentCode(mode, pend[c]) = OK
  BY DEF Accepted, Verdict
<1>2. ~InRing(pend[c].nonce)
  BY <1>1 DEF ConsentCode, OK
<1>3. /\ ring \in Seq(Nonces) /\ used \in Seq(Nonces)
      /\ Len(ring) \in Nat /\ Len(used) \in Nat /\ RingCapacity \in Nat
  BY ConstantsOK DEF TypeOK
<1>4. ASSUME NEW i \in 1 .. Len(used), i + RingCapacity > Len(used)
      PROVE  used[i] # pend[c].nonce
  <2> DEFINE k == i - (Len(used) - Len(ring))
  <2>1. k \in 1 .. Len(ring) /\ Len(used) - Len(ring) + k = i
    <3>1. Len(ring) = IF Len(used) <= RingCapacity THEN Len(used)
                                                  ELSE RingCapacity
      BY DEF RingIsTail
    <3>2. i \in Int /\ 1 <= i /\ i <= Len(used)
      BY <1>3
    <3>3. k \in Int /\ Len(used) - Len(ring) + k = i
      BY <1>3, <3>2
    <3>4. 1 <= k /\ k <= Len(ring)
      <4>1. CASE Len(used) <= RingCapacity
        BY <1>3, <3>1, <3>2, <4>1
      <4>2. CASE ~(Len(used) <= RingCapacity)
        BY <1>3, <1>4, <3>1, <3>2, <4>2
      <4> QED
        BY <4>1, <4>2
    <3> QED
      BY <1>3, <3>3, <3>4
  <2>2. ring[k] = used[i]
    BY <2>1 DEF RingIsTail
  <2> QED
    BY <1>2, <2>1, <2>2 DEF InRing
<1>5. ~Consented
  BY DEF Accepted, LockFree, Consented
<1> QED
  BY <1>4, <1>5, AcceptedHasNonce DEF NotAmongLast

\* A step that uses no consent.
LEMMA RingStep ==
  ASSUME RingInv, UNCHANGED <<ring, used>>,
         \A d \in Callers : pc'[d] = "consented" =>
           pc[d] = "consented" /\ pend'[d] = pend[d]
  PROVE  RingInv'
<1>1. RingIsTail'
  BY DEF RingInv, RingIsTail
<1>2. FlightIsLast'
  BY DEF RingInv, FlightIsLast, UsedAfter
<1> QED
  BY <1>1, <1>2 DEF RingInv

\* An accepted consent enters the ring and is in flight.
LEMMA RingConsents ==
  ASSUME TypeOK, RingInv, NEW c \in Callers, CommitConsent(c)
  PROVE  RingInv'
<1>1. Accepted(c) /\ EdgeRequiresConsent(mode, pend[c].target)
  BY DEF CommitConsent
<1>2. /\ pend[c].nonce \in Nonces
      /\ NotAmongLast(used, pend[c].nonce)
      /\ ~Consented
  BY <1>1, AcceptedIsUsable DEF RingInv
<1>3. /\ ring' = Push(pend[c].nonce)
      /\ used' = Append(used, pend[c].nonce)
      /\ pend' = pend
  BY DEF CommitConsent
<1>4. RingIsTail'
  BY <1>2, <1>3, PushKeepsTail DEF RingInv
<1>5. \A d \in Callers : pc'[d] = "consented" => d = c
  BY <1>2 DEF CommitConsent, Consented, TypeOK
<1>6. \E u \in Seq(Nonces) : /\ used' = Append(u, pend[c].nonce)
                              /\ NotAmongLast(u, pend[c].nonce)
  BY <1>2, <1>3 DEF TypeOK
<1>7. FlightIsLast'
  BY <1>2, <1>3, <1>5, <1>6 DEF FlightIsLast, UsedAfter
<1> QED
  BY <1>4, <1>7 DEF RingInv

LEMMA RingFails ==
  ASSUME TypeOK, RingInv, NEW c \in Callers, AppendFails(c)
  PROVE  RingInv'
<1>1. \A d \in Callers : pc'[d] = "consented" =>
        pc[d] = "consented" /\ pend'[d] = pend[d]
  BY FinishStep DEF AppendFails
<1>2. CASE Accepted(c) /\ EdgeRequiresConsent(mode, pend[c].target)
  <2>1. pend[c].nonce \in Nonces /\ ~Consented
    BY <1>2, AcceptedIsUsable DEF RingInv
  <2>2. /\ ring' = Push(pend[c].nonce)
        /\ used' = Append(used, pend[c].nonce)
    BY <1>2 DEF AppendFails
  <2>3. RingIsTail'
    BY <2>1, <2>2, PushKeepsTail DEF RingInv
  <2>4. FlightIsLast'
    BY <1>1, <2>1 DEF FlightIsLast, Consented
  <2> QED
    BY <2>3, <2>4 DEF RingInv
<1>3. CASE ~(Accepted(c) /\ EdgeRequiresConsent(mode, pend[c].target))
  BY <1>1, <1>3, RingStep DEF AppendFails
<1> QED
  BY <1>2, <1>3

\* What a step of Next does to the ring and the callers in flight, the steps
\* that use a consent excepted.
LEMMA SideSteps ==
  ASSUME TypeOK, Next,
         ~ \E c \in Callers : CommitConsent(c) \/ CommitTransition(c)
                                \/ AppendFails(c),
         ~ \E m \in BootModes, h \in PolicyHashes : Restart(m, h)
  PROVE  /\ UNCHANGED <<ring, used, mode>>
         /\ \A d \in Callers :
              /\ pc'[d] = "consented" <=> pc[d] = "consented"
              /\ pc[d] = "consented" => pend'[d] = pend[d]
<1> DEFINE Goal == /\ UNCHANGED <<ring, used, mode>>
                   /\ \A d \in Callers :
                        /\ pc'[d] = "consented" <=> pc[d] = "consented"
                        /\ pc[d] = "consented" => pend'[d] = pend[d]
<1>1. ASSUME NEW c \in Callers, Request(c) PROVE Goal
  <2>1. UNCHANGED <<ring, used, mode>>
    BY <1>1 DEF Request, Refuse, RequestMode, RequestKill, RequestUnlock,
                HazardLock, DriftDowngrade, Ask, hist
  <2>2. /\ pc[c] = "idle" /\ pc'[c] # "consented"
        /\ \A d \in Callers : d # c => pc'[d] = pc[d] /\ pend'[d] = pend[d]
    BY <1>1 DEF Request, Refuse, RequestMode, RequestKill, RequestUnlock,
                HazardLock, DriftDowngrade, Ask, MayStart, TypeOK
  <2> QED
    BY <2>1, <2>2
<1>2. ASSUME NEW c \in Callers, Finish(c), pc[c] # "consented"
      PROVE  \A d \in Callers :
               /\ pc'[d] = "consented" <=> pc[d] = "consented"
               /\ pc[d] = "consented" => pend'[d] = pend[d]
  BY <1>2, FinishStep
<1>3. ASSUME NEW c \in Callers, Serve(c) PROVE Goal
  <2>1. CASE RecordRefusal(c) \/ Reject(c) \/ Bind(c) \/ BindFails(c)
    BY <1>2, <2>1 DEF RecordRefusal, Reject, Bind, BindFails, hist
  <2> QED
    BY <1>3, <2>1 DEF Serve
<1>4. CASE ProposeIntent \/ AuditAppend \/ Tick \/ ReplayGates
  BY <1>4 DEF ProposeIntent, AuditAppend, Tick, ReplayGates, hist
<1>5. ASSUME NEW n \in Nonces, NEW ts \in 1 .. MaxTime, IssueConsent(n, ts)
      PROVE  Goal
  BY <1>5 DEF IssueConsent, hist
<1>6. ASSUME NEW h \in GateHashes \cup {None}, EditGates(h) PROVE Goal
  BY <1>6 DEF EditGates, hist
<1>7. ASSUME NEW l \in ReadinessLevels \cup {None}, ReadinessChanges(l)
      PROVE  Goal
  BY <1>7 DEF ReadinessChanges, hist
<1> QED
  BY <1>1, <1>3, <1>4, <1>5, <1>6, <1>7 DEF Next

LEMMA RingInvariant == Spec => []RingInv
<1>1. Init => RingInv
  <2> SUFFICES ASSUME Init PROVE RingInv
    OBVIOUS
  <2>1. ring = <<>> /\ used = <<>> /\ RingCapacity \in Nat
    BY ConstantsOK DEF Init
  <2> QED
    BY <2>1 DEF Init, RingInv, RingIsTail, FlightIsLast
<1>2. TypeOK /\ RingInv /\ [Next]_vars => RingInv'
  <2> SUFFICES ASSUME TypeOK, RingInv, [Next]_vars PROVE RingInv'
    OBVIOUS
  <2>1. ASSUME NEW c \in Callers, CommitConsent(c) PROVE RingInv'
    BY <2>1, RingConsents
  <2>2. ASSUME NEW c \in Callers, CommitTransition(c) PROVE RingInv'
    <3>1. \A d \in Callers : pc'[d] = "consented" =>
            pc[d] = "consented" /\ pend'[d] = pend[d]
      BY <2>2 DEF CommitTransition, Finish, TypeOK
    <3> QED
      BY <2>2, <3>1, RingStep DEF CommitTransition, hist
  <2>3. ASSUME NEW c \in Callers, AppendFails(c) PROVE RingInv'
    BY <2>3, RingFails
  <2>4. ASSUME NEW m \in BootModes, NEW h \in PolicyHashes, Restart(m, h)
        PROVE  RingInv'
    <3>1. ring' = <<>> /\ used' = <<>> /\ RingCapacity \in Nat
      BY <2>4, ConstantsOK DEF Restart
    <3>2. \A c \in Callers : pc'[c] = "idle"
      BY <2>4 DEF Restart
    <3> QED
      BY <3>1, <3>2 DEF RingInv, RingIsTail, FlightIsLast
  <2>5. CASE UNCHANGED vars
    BY <2>5, RingStep DEF vars
  <2>6. ASSUME Next, ~ \E c \in Callers :
                 CommitConsent(c) \/ CommitTransition(c) \/ AppendFails(c),
               ~ \E m \in BootModes, h \in PolicyHashes : Restart(m, h)
        PROVE  RingInv'
    BY <2>6, SideSteps, RingStep
  <2> QED
    BY <2>1, <2>2, <2>3, <2>4, <2>5, <2>6
<1> QED
  BY <1>1, <1>2, TypeCorrect, PTL DEF Spec
-----------------------------------------------------------------------------
\* The abstract specification speaks of the same machine.
LEMMA SameMachine ==
  /\ Authority!Chain = Chain
  /\ \A p, t : /\ Authority!Forward(p, t) <=> Forward(p, t)
               /\ Authority!Backward(p, t) <=> Backward(p, t)
               /\ Authority!EdgeRequiresConsent(p, t)
                    <=> EdgeRequiresConsent(p, t)
BY DEF Authority!Chain, Chain, Authority!Forward, Forward, Authority!Backward,
       Backward, Authority!EdgeRequiresConsent, EdgeRequiresConsent,
       Authority!ChainIndex, ChainIndex

LEMMA ConsentEdgesGoUp ==
  \A p, t : EdgeRequiresConsent(p, t) => Forward(p, t)
BY DEF EdgeRequiresConsent, Forward, Chain, ChainIndex

LEMMA FrontOfAppend ==
  ASSUME NEW u \in Seq(Nonces), NEW n \in Nonces
  PROVE  SubSeq(Append(u, n), 1, Len(Append(u, n)) - 1) = u
<1> DEFINE s == Append(u, n)
<1>1. /\ s \in Seq(Nonces) /\ Len(u) \in Nat
      /\ Len(s) - 1 = Len(u)
      /\ \A i \in 1 .. Len(u) : s[i] = u[i]
  BY AppendProperties
<1> HIDE DEF s
<1> DEFINE f == SubSeq(s, 1, Len(u))
<1>2. /\ f \in Seq(Nonces)
      /\ Len(f) = Len(u)
      /\ \A i \in 1 .. Len(u) : f[i] = s[i]
  BY <1>1
<1> HIDE DEF f
<1>3. f = u
  BY <1>1, <1>2, SeqEqual
<1> QED
  BY <1>1, <1>3 DEF f, s

\* What ModeAuthority sees of the consents used.
LEMMA SpentIs ==
  /\ ~Consented => Spent = used
  /\ Consented => Spent = SubSeq(used, 1, Len(used) - 1)
BY DEF Spent, Consented

LEMMA SpentIsNext ==
  /\ ~Consented' => Spent' = used'
  /\ Consented' => Spent' = SubSeq(used', 1, Len(used') - 1)
BY DEF Spent, Consented

\* The consent of a caller in flight is the only one not yet spent, and
\* ModeAuthority may use it.
LEMMA FlightIsUsable ==
  ASSUME RingInv, NEW c \in Callers, pc[c] = "consented"
  PROVE  /\ pend[c].nonce \in Nonces
         /\ used = Append(Spent, pend[c].nonce)
         /\ Authority!Usable(pend[c].nonce)
<1>1. /\ pend[c].nonce \in Nonces
      /\ \E u \in Seq(Nonces) : UsedAfter(u, pend[c].nonce)
  BY DEF RingInv, FlightIsLast
<1>2. PICK u \in Seq(Nonces) : UsedAfter(u, pend[c].nonce)
  BY <1>1
<1>3. Spent = SubSeq(used, 1, Len(used) - 1)
  BY SpentIs DEF Consented
<1>4. Spent = u
  BY <1>1, <1>2, <1>3, FrontOfAppend DEF UsedAfter
<1>5. Authority!Usable(pend[c].nonce)
  BY <1>2, <1>4 DEF UsedAfter, NotAmongLast, Authority!Usable
<1> QED
  BY <1>1, <1>2, <1>4, <1>5 DEF UsedAfter

\* The transition of an accepted request is a step of ModeAuthority.
LEMMA TransitionRefines ==
  ASSUME TypeOK, LedgerInv, RingInv,
         NEW c \in Callers, CommitTransition(c)
  PROVE  Authority!Next
<1>1. /\ \A d \in Callers : d # c => pc'[d] = pc[d]
      /\ pc'[c] # "consented"
      /\ mode' = pend[c].target
      /\ mode \in Modes /\ mode' \in Modes
      /\ used' = used
  BY DEF CommitTransition, Finish, TypeOK, Requests, hist
<1>2. ~Consented'
  BY <1>1 DEF CommitTransition, Accepted, LockFree, Consented, LedgerInv,
              OneInPropose, InPropose
<1>3. Spent' = used
  BY <1>1, <1>2, SpentIsNext
<1>4. CASE pc[c] = "consented"
  <2>1. /\ pend[c].nonce \in Nonces
        /\ Spent' = Append(Spent, pend[c].nonce)
        /\ Authority!Usable(pend[c].nonce)
    BY <1>3, <1>4, FlightIsUsable
  <2>2. EdgeRequiresConsent(mode, mode')
    BY <1>1, <1>4 DEF LedgerInv, ConsentInFlight
  <2>3. Forward(mode, mode') /\ mode' \in Chain
    BY <2>2, ConsentEdgesGoUp DEF Forward
  <2>4. Authority!StepForwardWithConsent(mode', pend[c].nonce)
    BY <2>1, <2>2, <2>3, SameMachine DEF Authority!StepForwardWithConsent
  <2>5. mode' \in Authority!Chain
    BY <2>3, SameMachine
  <2> QED
    BY <2>1, <2>4, <2>5 DEF Authority!Next
<1>5. CASE pc[c] # "consented"
  <2>1. Accepted(c) /\ ~EdgeRequiresConsent(mode, mode')
    BY <1>1, <1>5 DEF CommitTransition
  <2>2. ~Consented
    BY <2>1 DEF Accepted, LockFree, Consented
  <2>3. Spent' = Spent
    BY <1>3, <2>2, SpentIs
  <2>4. FsmCode(mode, mode') = OK
    BY <1>1, <2>1 DEF Accepted, Verdict
  <2>5. IsLegalEdge(mode, mode')
    BY <1>1, <2>4, EdgesAreLegal
  <2>6. CASE mode' = "LOCKED"
    BY <2>3, <2>5, <2>6 DEF IsLegalEdge, Authority!Lock, Authority!Next
  <2>7. CASE mode = "LOCKED" /\ mode' = "SAFE"
    BY <2>3, <2>7 DEF Authority!Unlock, Authority!Next
  <2>8. CASE Forward(mode, mode')
    <3>1. mode' \in Authority!Chain
      BY <2>8, SameMachine DEF Forward
    <3>2. Authority!StepForward(mode')
      BY <2>1, <2>3, <2>8, SameMachine DEF Authority!StepForward
    <3> QED
      BY <3>1, <3>2 DEF Authority!Next
  <2>9. CASE Backward(mode, mode')
    <3>1. mode' \in Authority!Chain
      BY <2>9, SameMachine DEF Backward
    <3>2. Authority!StepBack(mode')
      BY <2>3, <2>9, SameMachine DEF Authority!StepBack
    <3> QED
      BY <3>1, <3>2 DEF Authority!Next
  <2> QED
    BY <2>5, <2>6, <2>7, <2>8, <2>9 DEF IsLegalEdge
<1> QED
  BY <1>4, <1>5

\* An accepted consent is not spent before its transition.
LEMMA ConsentStutters ==
  ASSUME TypeOK, RingInv, NEW c \in Callers, CommitConsent(c)
  PROVE  UNCHANGED <<mode, Spent>>
<1>1. Accepted(c) /\ EdgeRequiresConsent(mode, pend[c].target)
  BY DEF CommitConsent
<1>2. pend[c].nonce \in Nonces /\ ~Consented
  BY <1>1, AcceptedIsUsable DEF RingInv
<1>3. /\ mode' = mode
      /\ used' = Append(used, pend[c].nonce)
      /\ Consented'
  BY DEF CommitConsent, Consented, TypeOK
<1>4. Spent' = used
  BY <1>2, <1>3, SpentIsNext, FrontOfAppend DEF TypeOK
<1> QED
  BY <1>2, <1>3, <1>4, SpentIs

\* A failed append wastes the consent that was committed before it, and is
\* otherwise no step of ModeAuthority.
LEMMA FailureRefines ==
  ASSUME TypeOK, LedgerInv, RingInv, NEW c \in Callers, AppendFails(c)
  PROVE  Authority!Next \/ UNCHANGED <<mode, Spent>>
<1>1. /\ mode' = mode
      /\ \A d \in Callers : d # c => pc'[d] = pc[d]
      /\ pc'[c] # "consented"
  BY FinishStep DEF AppendFails
<1>2. CASE pc[c] = "consented"
  <2>1. used' = used
    BY <1>2 DEF AppendFails, Accepted
  <2>2. ~Consented'
    BY <1>1, <1>2 DEF Consented, LedgerInv, OneInPropose, InPropose
  <2>3. Authority!Waste(pend[c].nonce) /\ pend[c].nonce \in Nonces
    BY <1>1, <1>2, <2>1, <2>2, SpentIsNext, FlightIsUsable DEF Authority!Waste
  <2> QED
    BY <2>3 DEF Authority!Next
<1>3. CASE Accepted(c) /\ EdgeRequiresConsent(mode, pend[c].target)
  <2>1. /\ pend[c].nonce \in Nonces
        /\ NotAmongLast(used, pend[c].nonce)
        /\ ~Consented
    BY <1>3, AcceptedIsUsable DEF RingInv
  <2>2. ~Consented'
    BY <1>1, <2>1 DEF Consented
  <2>3. used' = Append(used, pend[c].nonce)
    BY <1>3 DEF AppendFails
  <2>4. Spent = used /\ Spent' = Append(Spent, pend[c].nonce)
    BY <2>1, <2>2, <2>3, SpentIs, SpentIsNext
  <2>5. Authority!Usable(pend[c].nonce)
    BY <2>1, <2>4 DEF NotAmongLast, Authority!Usable
  <2> QED
    BY <1>1, <2>1, <2>4, <2>5 DEF Authority!Waste, Authority!Next
<1>4. CASE /\ pc[c] # "consented"
           /\ ~(Accepted(c) /\ EdgeRequiresConsent(mode, pend[c].target))
  <2>1. used' = used
    BY <1>4 DEF AppendFails
  <2>2. Consented' <=> Consented
    BY <1>1, <1>4 DEF Consented
  <2> QED
    BY <1>1, <2>1, <2>2, SpentIs, SpentIsNext
<1> QED
  BY <1>2, <1>3, <1>4

\* The control plane implements ModeAuthority, whatever its threads, failed
\* appends and restarts and however small its ring: the mode changes by one
\* legal edge at a time or at a boot, and every step over a consent edge uses
\* up a consent that is not among the RingCapacity ones this process used
\* last.
THEOREM RefinesModeAuthority == Spec => ImplementsModeAuthority
<1>1. Init => Authority!Init
  BY DEF Init, Authority!Init, Spent
<1>2. TypeOK /\ LedgerInv /\ RingInv /\ [Next]_vars
        => [Authority!Next]_<<mode, Spent>>
  <2> SUFFICES ASSUME TypeOK, LedgerInv, RingInv, [Next]_vars
               PROVE  Authority!Next \/ UNCHANGED <<mode, Spent>>
    OBVIOUS
  <2>1. ASSUME NEW c \in Callers, CommitConsent(c)
        PROVE  UNCHANGED <<mode, Spent>>
    BY <2>1, ConsentStutters
  <2>2. ASSUME NEW c \in Callers, CommitTransition(c) PROVE Authority!Next
    BY <2>2, TransitionRefines
  <2>3. ASSUME NEW c \in Callers, AppendFails(c)
        PROVE  Authority!Next \/ UNCHANGED <<mode, Spent>>
    BY <2>3, FailureRefines
  <2>4. ASSUME NEW m \in BootModes, NEW h \in PolicyHashes, Restart(m, h)
        PROVE  Authority!Next
    <3>1. ~Consented' /\ used' = <<>> /\ mode' = m
      BY <2>4 DEF Restart, Consented
    <3>2. Spent' = <<>>
      BY <3>1, SpentIsNext
    <3> QED
      BY <3>1, <3>2 DEF Authority!Boot, Authority!Next
  <2>5. CASE UNCHANGED vars
    BY <2>5 DEF vars, Spent
  <2>6. ASSUME Next, ~ \E c \in Callers :
                 CommitConsent(c) \/ CommitTransition(c) \/ AppendFails(c),
               ~ \E m \in BootModes, h \in PolicyHashes : Restart(m, h)
        PROVE  UNCHANGED <<mode, Spent>>
    <3>1. /\ used' = used /\ mode' = mode
          /\ \A d \in Callers : pc'[d] = "consented" <=> pc[d] = "consented"
      BY <2>6, SideSteps
    <3>2. Consented' <=> Consented
      BY <3>1 DEF Consented
    <3> QED
      BY <3>1, <3>2, SpentIs, SpentIsNext
  <2> QED
    BY <2>1, <2>2, <2>3, <2>4, <2>5, <2>6
<1> QED
  BY <1>1, <1>2, TypeCorrect, LedgerInvariant, RingInvariant, PTL
     DEF Spec, ImplementsModeAuthority, Authority!Spec
===============================================================================

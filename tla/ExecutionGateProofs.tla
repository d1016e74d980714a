-------------------------- MODULE ExecutionGateProofs --------------------------
(***************************************************************************)
(* Proofs about ExecutionGate, for any severities and windows, any ring    *)
(* capacity and any bounds: type correctness, the halt of a blocking       *)
(* hazard, and the ledger's account of the trading gate.                   *)
(*                                                                         *)
(* The halt rests on one fact: the ring is the last Capacity hazards of    *)
(* the history (RingIsTail).  What the gate finds in the ring at a broker  *)
(* call is then what it would find among those hazards, and the history    *)
(* before a call never changes (the calls name a place in it).             *)
(***************************************************************************)
EXTENDS ExecutionGate, TLAPS

\* The ring holds the end of the history, all of it while it is not full.
RingIsTail(buffer, past) ==
  /\ Len(buffer) <= Len(past)
  /\ Len(buffer) < Capacity => Len(buffer) = Len(past)
  /\ \A i \in 1 .. Len(buffer) :
       buffer[i] = past[Len(past) - Len(buffer) + i]

\* No blocking hazard among the last Capacity of past is active at now.
Quiet(past, length, now) ==
  \A i \in 1 .. length :
    Blocks(past[i]) /\ length - i < Capacity => ~Active(past[i], now)

\* Every call names a place in the history, and was quiet there.
CallsQuiet(calls, past) ==
  \A k \in 1 .. Len(calls) :
    calls[k].after <= Len(past) /\ Quiet(past, calls[k].after, calls[k].at)

HaltInv ==
  /\ TypeOK
  /\ RingIsTail(ring, observed)
  /\ CallsQuiet(dispatches, observed)
-----------------------------------------------------------------------------
\* What a hazard, or none, adds to the ring keeps its type and its bound.
LEMMA OnHazardType ==
  ASSUME NEW buffer \in Seq(Hazards), Len(buffer) <= Capacity,
         NEW h \in Emissions
  PROVE  /\ OnHazard(buffer, h) \in Seq(Hazards)
         /\ Len(OnHazard(buffer, h)) <= Capacity
<1> Capacity \in Nat \ {0}
  BY GateConstantsOK
<1>1. CASE h = NoHazard
  BY <1>1 DEF OnHazard
<1>2. CASE h # NoHazard
  <2>1. h \in Hazards /\ OnHazard(buffer, h) = Push(buffer, h)
    BY <1>2 DEF OnHazard, Emissions
  <2>2. CASE Len(buffer) < Capacity
    BY <2>1, <2>2 DEF Push
  <2>3. CASE ~(Len(buffer) < Capacity)
    <3>1. buffer # <<>> /\ Len(buffer) = Capacity
      BY <2>3
    <3>2. Tail(buffer) \in Seq(Hazards) /\ Len(Tail(buffer)) = Capacity - 1
      BY <3>1
    <3> QED
      BY <2>1, <2>3, <3>2 DEF Push
  <2> QED
    BY <2>2, <2>3
<1> QED
  BY <1>1, <1>2

\* The history keeps its type, what it held, and grows by at most one.
LEMMA LogExtends ==
  ASSUME NEW past \in Seq(Hazards), NEW h \in Emissions
  PROVE  /\ Log(past, h) \in Seq(Hazards)
         /\ Len(past) <= Len(Log(past, h))
         /\ \A i \in 1 .. Len(past) : Log(past, h)[i] = past[i]
<1>1. CASE h = NoHazard
  BY <1>1 DEF Log
<1>2. CASE h # NoHazard
  <2>1. h \in Hazards /\ Log(past, h) = Append(past, h)
    BY <1>2 DEF Log, Emissions
  <2> QED
    BY <2>1
<1> QED
  BY <1>1, <1>2

\* Governance leaves a mode.
LEMMA OnGovernanceType ==
  ASSUME NEW m \in Modes, NEW h \in Emissions
  PROVE  OnGovernance(m, h) \subseteq Modes
BY DEF OnGovernance, Modes

\* Ring and history move together.
LEMMA RingStaysTail ==
  ASSUME NEW buffer \in Seq(Hazards), NEW past \in Seq(Hazards),
         Len(buffer) <= Capacity, RingIsTail(buffer, past),
         NEW h \in Emissions
  PROVE  RingIsTail(OnHazard(buffer, h), Log(past, h))
<1> Capacity \in Nat \ {0}
  BY GateConstantsOK
<1>1. CASE h = NoHazard
  BY <1>1 DEF OnHazard, Log
<1>2. CASE h # NoHazard
  <2>1. /\ h \in Hazards
        /\ OnHazard(buffer, h) = Push(buffer, h)
        /\ Log(past, h) = Append(past, h)
    BY <1>2 DEF OnHazard, Log, Emissions
  <2>2. CASE Len(buffer) < Capacity
    <3>1. Push(buffer, h) = Append(buffer, h)
      BY <2>2 DEF Push
    <3>2. Len(buffer) = Len(past)
      BY <2>2 DEF RingIsTail
    <3>3. \A i \in 1 .. Len(Append(buffer, h)) :
            Append(buffer, h)[i] =
              Append(past, h)[Len(Append(past, h)) - Len(Append(buffer, h)) + i]
      <4> SUFFICES ASSUME NEW i \in 1 .. Len(buffer) + 1
                   PROVE  Append(buffer, h)[i] = Append(past, h)[i]
        BY <3>2
      <4>1. CASE i = Len(buffer) + 1
        BY <3>2, <4>1
      <4>2. CASE i \in 1 .. Len(buffer)
        <5>1. buffer[i] = past[i]
          BY <3>2, <4>2 DEF RingIsTail
        <5> QED
          BY <3>2, <4>2, <5>1
      <4> QED
        <5>1. i = Len(buffer) + 1 \/ i \in 1 .. Len(buffer)
          BY ONLY Len(buffer) \in Nat, i \in 1 .. Len(buffer) + 1
        <5> QED
          BY ONLY <4>1, <4>2, <5>1
    <3>4. /\ Len(Append(buffer, h)) = Len(buffer) + 1
          /\ Len(Append(past, h)) = Len(past) + 1
      BY <2>1
    <3>5. RingIsTail(Append(buffer, h), Append(past, h))
      BY ONLY <3>2, <3>3, <3>4, Len(buffer) \in Nat DEF RingIsTail
    <3> QED
      BY <2>1, <3>1, <3>5
  <2>3. CASE ~(Len(buffer) < Capacity)
    <3>1. buffer # <<>> /\ Len(buffer) = Capacity
      BY <2>3
    <3> DEFINE full == Append(Tail(buffer), h)
    <3>2. /\ Tail(buffer) \in Seq(Hazards)
          /\ Len(Tail(buffer)) = Len(buffer) - 1
          /\ \A i \in 1 .. Len(buffer) - 1 : Tail(buffer)[i] = buffer[i + 1]
      BY <3>1
    <3>3. Push(buffer, h) = full /\ Len(full) = Len(buffer)
      BY <2>3, <3>2 DEF Push
    <3>4. Len(Append(past, h)) = Len(past) + 1
      BY <2>1
    <3>5. /\ Len(buffer) \in Nat
          /\ Len(past) \in Nat
          /\ Len(buffer) <= Len(past)
      BY DEF RingIsTail
    <3>6. ASSUME NEW i \in 1 .. Len(buffer)
          PROVE  full[i] = Append(past, h)[Len(past) + 1 - Len(buffer) + i]
      <4>1. CASE i = Len(buffer)
        <5>1. full[i] = h
          BY <2>1, <3>2, <4>1
        <5>2. Append(past, h)[Len(past) + 1] = h
          BY <2>1
        <5>3. Len(past) + 1 - Len(buffer) + i = Len(past) + 1
          BY <3>5, <4>1
        <5> QED
          BY <5>1, <5>2, <5>3
      <4>2. CASE i # Len(buffer)
        <5>1. i \in 1 .. Len(buffer) - 1
          BY <3>5, <4>2
        <5>2. full[i] = buffer[i + 1]
          BY <2>1, <3>2, <5>1
        <5>3. i + 1 \in 1 .. Len(buffer)
          BY <3>5, <5>1
        <5>4. buffer[i + 1] = past[Len(past) - Len(buffer) + (i + 1)]
          BY <5>3 DEF RingIsTail
        <5> HIDE DEF full
        <5>5. /\ Len(past) + 1 - Len(buffer) + i \in 1 .. Len(past)
              /\ Len(past) - Len(buffer) + (i + 1)
                   = Len(past) + 1 - Len(buffer) + i
          BY <3>5, <5>1
        <5>6. Append(past, h)[Len(past) + 1 - Len(buffer) + i]
                = past[Len(past) + 1 - Len(buffer) + i]
          BY <5>5
        <5> QED
          BY <5>2, <5>4, <5>5, <5>6
      <4> QED
        BY <4>1, <4>2
    <3> HIDE DEF full
    <3>7. RingIsTail(full, Append(past, h))
      <4>1. Len(Append(past, h)) - Len(full) = Len(past) + 1 - Len(buffer)
        BY <3>3, <3>4
      <4>2. Len(full) = Capacity /\ Len(full) <= Len(Append(past, h))
        BY <3>1, <3>3, <3>4, <3>5
      <4>3. \A i \in 1 .. Len(full) :
              full[i] = Append(past, h)[Len(Append(past, h)) - Len(full) + i]
        BY <3>3, <3>6, <4>1
      <4> QED
        BY ONLY <4>2, <4>3, Capacity \in Nat \ {0} DEF RingIsTail
    <3> QED
      BY <2>1, <3>3, <3>7
  <2> QED
    BY <2>2, <2>3
<1> QED
  BY <1>1, <1>2

\* What the ring does not halt, the last Capacity hazards do not either.
LEMMA QuietRing ==
  ASSUME NEW buffer \in Seq(Hazards), NEW past \in Seq(Hazards),
         Len(buffer) <= Capacity, RingIsTail(buffer, past),
         NEW now \in Nat, ~Halts(buffer, now)
  PROVE  Quiet(past, Len(past), now)
<1> Capacity \in Nat \ {0}
  BY GateConstantsOK
<1> SUFFICES ASSUME NEW i \in 1 .. Len(past), Blocks(past[i]),
                    Len(past) - i < Capacity
             PROVE  ~Active(past[i], now)
  BY DEF Quiet
<1> DEFINE j == i - (Len(past) - Len(buffer))
<1>1. j \in 1 .. Len(buffer)
  BY DEF RingIsTail
<1>2. buffer[j] = past[Len(past) - Len(buffer) + j]
  BY <1>1 DEF RingIsTail
<1>3. buffer[j] = past[i]
  BY <1>2
<1> QED
  BY <1>1, <1>3 DEF Halts

\* A longer history disturbs no call.
LEMMA CallsStayQuiet ==
  ASSUME NEW calls \in Seq(Calls),
         NEW past \in Seq(Hazards), NEW later \in Seq(Hazards),
         Len(past) <= Len(later),
         \A i \in 1 .. Len(past) : later[i] = past[i],
         CallsQuiet(calls, past)
  PROVE  CallsQuiet(calls, later)
<1> SUFFICES ASSUME NEW k \in 1 .. Len(calls)
             PROVE  /\ calls[k].after <= Len(later)
                    /\ Quiet(later, calls[k].after, calls[k].at)
  BY DEF CallsQuiet
<1>1. calls[k].after \in Nat
  <2>1. calls[k] \in Calls
    OBVIOUS
  <2> QED
    BY <2>1 DEF Calls
<1>2. calls[k].after <= Len(past) /\ Quiet(past, calls[k].after, calls[k].at)
  BY DEF CallsQuiet
<1>3. calls[k].after <= Len(later)
  BY <1>1, <1>2
<1>4. \A i \in 1 .. calls[k].after : later[i] = past[i]
  BY <1>1, <1>2
<1>5. Quiet(later, calls[k].after, calls[k].at)
  BY <1>2, <1>4 DEF Quiet
<1> QED
  BY <1>3, <1>5

\* A signal calls the broker only when the ring, the hazard it raised itself
\* included, is quiet.
LEMMA SignalKeepsHalt ==
  ASSUME HaltInv, NEW hasMark, Signal(hasMark)
  PROVE  /\ mode' \in Modes
         /\ ring' \in Seq(Hazards) /\ Len(ring') <= Capacity
         /\ observed' \in Seq(Hazards)
         /\ dispatches' \in Seq(Calls)
         /\ RingIsTail(ring', observed')
         /\ CallsQuiet(dispatches', observed')
<1> USE DEF HaltInv
<1>0. PICK before \in Emissions, after \in Emissions, passesMode \in PassModes :
        \E m \in OnGovernance(mode, before) :
          LET seen  == OnHazard(ring, before)
              known == Log(observed, before)
          IN
          /\ IF BrokerCalled(seen, m, hasMark, passesMode)
             THEN dispatches' =
                    Append(dispatches, [at |-> clock, after |-> Len(known)])
             ELSE UNCHANGED dispatches
          /\ ring' = OnHazard(seen, after)
          /\ observed' = Log(known, after)
          /\ mode' \in OnGovernance(m, after)
  BY DEF Signal
<1> DEFINE seen  == OnHazard(ring, before)
<1> DEFINE known == Log(observed, before)
<1> DEFINE call  == [at |-> clock, after |-> Len(known)]
<1>1. PICK m \in OnGovernance(mode, before) :
        /\ IF BrokerCalled(seen, m, hasMark, passesMode)
           THEN dispatches' = Append(dispatches, call)
           ELSE UNCHANGED dispatches
        /\ ring' = OnHazard(seen, after)
        /\ observed' = Log(known, after)
        /\ mode' \in OnGovernance(m, after)
  BY <1>0
<1>2. /\ mode \in Modes
      /\ ring \in Seq(Hazards) /\ Len(ring) <= Capacity
      /\ observed \in Seq(Hazards)
      /\ dispatches \in Seq(Calls)
      /\ clock \in 0 .. MaxTime
      /\ MaxTime \in Nat
  BY GateConstantsOK DEF TypeOK
<1>3. m \in Modes /\ mode' \in Modes
  BY <1>1, <1>2, OnGovernanceType
<1>4. seen \in Seq(Hazards) /\ Len(seen) <= Capacity
  BY <1>2, OnHazardType
<1>5. /\ known \in Seq(Hazards)
      /\ Len(observed) <= Len(known)
      /\ \A i \in 1 .. Len(observed) : known[i] = observed[i]
  BY <1>2, LogExtends
<1>6. RingIsTail(seen, known)
  BY <1>2, RingStaysTail
<1>7. CallsQuiet(dispatches, known)
  BY <1>2, <1>5, CallsStayQuiet
<1>8. dispatches' \in Seq(Calls) /\ CallsQuiet(dispatches', known)
  <2>1. CASE UNCHANGED dispatches
    BY <1>2, <1>7, <2>1
  <2>2. CASE ~Halts(seen, clock) /\ dispatches' = Append(dispatches, call)
    <3>1. Quiet(known, Len(known), clock)
      BY <1>2, <1>4, <1>5, <1>6, <2>2, QuietRing
    <3>2. /\ call \in Calls
          /\ call.after = Len(known)
          /\ call.at = clock
          /\ Len(known) <= Len(known)
      BY <1>2, <1>5 DEF Calls
    <3> HIDE DEF known, call, seen
    <3>3. call.after <= Len(known) /\ Quiet(known, call.after, call.at)
      BY <3>1, <3>2
    <3>4. /\ dispatches' \in Seq(Calls)
          /\ Len(dispatches') = Len(dispatches) + 1
          /\ dispatches'[Len(dispatches) + 1] = call
          /\ \A k \in 1 .. Len(dispatches) : dispatches'[k] = dispatches[k]
      BY <1>2, <2>2, <3>2
    <3>5. ASSUME NEW k \in 1 .. Len(dispatches')
          PROVE  /\ dispatches'[k].after <= Len(known)
                 /\ Quiet(known, dispatches'[k].after, dispatches'[k].at)
      <4>1. k = Len(dispatches) + 1 \/ k \in 1 .. Len(dispatches)
        BY <1>2, <3>4
      <4> QED
        BY <1>7, <3>3, <3>4, <4>1 DEF CallsQuiet
    <3> QED
      BY <3>4, <3>5 DEF CallsQuiet
  <2> QED
    BY <1>1, <2>1, <2>2 DEF BrokerCalled
<1> HIDE DEF seen, known
<1>9. /\ ring' = OnHazard(seen, after)
      /\ observed' = Log(known, after)
  BY <1>1 DEF seen, known
<1>10. ring' \in Seq(Hazards) /\ Len(ring') <= Capacity
  BY <1>4, <1>9, OnHazardType
<1>11. /\ observed' \in Seq(Hazards)
       /\ Len(known) <= Len(observed')
       /\ \A i \in 1 .. Len(known) : observed'[i] = known[i]
  BY <1>5, <1>9, LogExtends
<1>12. RingIsTail(ring', observed')
  BY <1>4, <1>5, <1>6, <1>9, RingStaysTail
<1>13. CallsQuiet(dispatches', observed')
  BY <1>5, <1>8, <1>11, CallsStayQuiet
<1> QED
  BY <1>3, <1>8, <1>10, <1>11, <1>12, <1>13

\* A flip keeps the rows rows, and the last POLICY_STATE row the policy's.
LEMMA InstallExplained ==
  ASSUME TypeOK, LedgerExplainsGate,
         NEW changed \in Rows, changed.kind # "POLICY_STATE",
         NEW next \in BOOLEAN, Install(changed, next)
  PROVE  /\ audit' \in Seq(Rows)
         /\ policy' \in BOOLEAN
         /\ LedgerExplainsGate'
<1>1. audit \in Seq(Rows) /\ policy \in BOOLEAN
  BY DEF TypeOK
<1> DEFINE row == Row("POLICY_STATE", next)
<1>2. row \in Rows /\ row.kind = "POLICY_STATE" /\ row.next = next
  BY DEF Row, Rows
<1> HIDE DEF row
<1>3. CASE audit' = audit \o <<changed, row>> /\ policy' = next
  <2>1. /\ audit' \in Seq(Rows)
        /\ Len(audit') = Len(audit) + 2
        /\ audit'[Len(audit) + 2] = row
    BY <1>1, <1>2, <1>3
  <2>2. Len(audit') \in 1 .. Len(audit') /\ audit'[Len(audit')] = row
    BY <1>1, <2>1
  <2>3. \A j \in Len(audit') + 1 .. Len(audit') : FALSE
    BY <1>1, <2>1
  <2>4. \E i \in 1 .. Len(audit') :
          /\ audit'[i].kind = "POLICY_STATE"
          /\ \A j \in i + 1 .. Len(audit') : audit'[j].kind # "POLICY_STATE"
          /\ policy' = audit'[i].next
    BY <1>2, <1>3, <2>2, <2>3
  <2>5. LedgerExplainsGate'
    BY <2>4 DEF LedgerExplainsGate, LastPolicy
  <2>6. policy' \in BOOLEAN
    BY <1>3, Zenon
  <2> QED
    BY <2>1, <2>5, <2>6
<1>4. CASE audit' = Append(audit, changed) /\ policy' = policy
  <2>1. /\ audit' \in Seq(Rows)
        /\ Len(audit') = Len(audit) + 1
        /\ audit'[Len(audit) + 1] = changed
        /\ \A i \in 1 .. Len(audit) : audit'[i] = audit[i]
    BY <1>1, <1>4
  <2>2. ASSUME NEW i, LastPolicy(i)
        PROVE  LastPolicy(i)' /\ audit'[i] = audit[i]
    BY <1>1, <2>1, <2>2 DEF LastPolicy
  <2>3. CASE \E i \in 1 .. Len(audit) : LastPolicy(i) /\ policy = audit[i].next
    <3>1. PICK i \in 1 .. Len(audit) : LastPolicy(i) /\ policy = audit[i].next
      BY <2>3
    <3>2. i \in 1 .. Len(audit')
      BY <1>1, <2>1
    <3> QED
      BY <1>1, <1>4, <2>1, <2>2, <3>1, <3>2 DEF LedgerExplainsGate
  <2>4. CASE /\ \A i \in 1 .. Len(audit) : audit[i].kind # "POLICY_STATE"
             /\ policy = BootTrading
    <3>1. \A i \in 1 .. Len(audit') : audit'[i].kind # "POLICY_STATE"
      BY <1>1, <2>1, <2>4
    <3> QED
      BY <1>1, <1>4, <2>1, <2>4, <3>1 DEF LedgerExplainsGate
  <2> QED
    BY <2>3, <2>4 DEF LedgerExplainsGate
<1>5. CASE UNCHANGED <<audit, policy>>
  BY <1>1, <1>5 DEF LedgerExplainsGate, LastPolicy
<1> QED
  BY <1>3, <1>4, <1>5 DEF Install, row

\* The two rows a flip starts with.
LEMMA ChangedRows ==
  ASSUME NEW next \in BOOLEAN,
         NEW kind \in {"OPERATOR_TRADING_ALLOWED_CHANGED",
                       "OPERATOR_DEVELOPMENT_MODE_CHANGED"}
  PROVE  Row(kind, next) \in Rows /\ Row(kind, next).kind # "POLICY_STATE"
BY DEF Row, Rows
-----------------------------------------------------------------------------
LEMMA InitInv ==
  Init => HaltInv /\ LedgerExplainsGate
<1> SUFFICES ASSUME Init
             PROVE  HaltInv /\ LedgerExplainsGate
  OBVIOUS
<1>1. /\ BootMode \in Modes
      /\ BootTrading \in BOOLEAN
      /\ Capacity \in Nat \ {0}
      /\ MaxTime \in Nat
  BY GateConstantsOK
<1>2. TypeOK
  <2>1. trading \in BOOLEAN /\ policy \in BOOLEAN /\ marked \in BOOLEAN
    BY <1>1, Zenon DEF Init
  <2>2. /\ audit \in Seq(Rows)
        /\ ring \in Seq(Hazards) /\ Len(ring) <= Capacity
        /\ observed \in Seq(Hazards)
        /\ dispatches \in Seq(Calls)
    BY <1>1 DEF Init
  <2>3. mode \in Modes /\ clock \in 0 .. MaxTime
    BY <1>1 DEF Init
  <2> QED
    BY <2>1, <2>2, <2>3 DEF TypeOK
<1>3. RingIsTail(ring, observed) /\ CallsQuiet(dispatches, observed)
  BY <1>1 DEF Init, RingIsTail, CallsQuiet
<1>4. LedgerExplainsGate
  BY DEF Init, LedgerExplainsGate
<1> QED
  BY <1>2, <1>3, <1>4 DEF HaltInv

\* Every action keeps the invariant of the halt and the ledger's account.
LEMMA NextInv ==
  HaltInv /\ LedgerExplainsGate /\ [Next]_vars
    => HaltInv' /\ LedgerExplainsGate'
<1> SUFFICES ASSUME HaltInv, LedgerExplainsGate, [Next]_vars
             PROVE  HaltInv' /\ LedgerExplainsGate'
  OBVIOUS
<1> USE DEF HaltInv, gate, history
<1>1. CASE UNCHANGED vars
  BY <1>1 DEF vars, TypeOK, LedgerExplainsGate, LastPolicy
<1>2. CASE Tick
  <2>1. clock' \in 0 .. MaxTime
    BY <1>2, GateConstantsOK DEF Tick, TypeOK
  <2> QED
    BY <1>2, <2>1 DEF Tick, TypeOK, LedgerExplainsGate, LastPolicy
<1>3. ASSUME NEW h \in Hazards, IngestHazard(h)
      PROVE  HaltInv' /\ LedgerExplainsGate'
  <2>1. h \in Emissions
    BY DEF Emissions
  <2>2. mode' \in Modes
    BY <1>3, <2>1, OnGovernanceType DEF IngestHazard, TypeOK
  <2>3. ring' \in Seq(Hazards) /\ Len(ring') <= Capacity
    BY <1>3, <2>1, OnHazardType DEF IngestHazard, TypeOK
  <2>4. /\ observed' \in Seq(Hazards)
        /\ CallsQuiet(dispatches', observed')
    BY <1>3, <2>1, LogExtends, CallsStayQuiet DEF IngestHazard, TypeOK
  <2>5. RingIsTail(ring', observed')
    BY <1>3, <2>1, RingStaysTail DEF IngestHazard, TypeOK
  <2> QED
    BY <1>3, <2>2, <2>3, <2>4, <2>5
    DEF IngestHazard, TypeOK, LedgerExplainsGate, LastPolicy
<1>4. CASE FeedTick
  <2>1. CASE Signal(TRUE)
    BY <1>4, <2>1, SignalKeepsHalt
    DEF FeedTick, TypeOK, LedgerExplainsGate, LastPolicy
  <2>2. CASE UNCHANGED <<mode, ring, history>>
    BY <1>4, <2>2 DEF FeedTick, TypeOK, LedgerExplainsGate, LastPolicy
  <2> QED
    BY <1>4, <2>1, <2>2 DEF FeedTick
<1>5. CASE PostSignal
  BY <1>5, SignalKeepsHalt
  DEF PostSignal, TypeOK, LedgerExplainsGate, LastPolicy
<1>6. ASSUME NEW m \in Targets, OperatorMode(m)
      PROVE  HaltInv' /\ LedgerExplainsGate'
  <2>1. mode' \in Modes
    BY <1>6, GateConstantsOK DEF OperatorMode
  <2> QED
    BY <1>6, <2>1 DEF OperatorMode, TypeOK, LedgerExplainsGate, LastPolicy
<1>7. ASSUME NEW enabled \in BOOLEAN, FlipTrading(enabled)
      PROVE  HaltInv' /\ LedgerExplainsGate'
  <2>1. /\ audit' \in Seq(Rows)
        /\ policy' \in BOOLEAN
        /\ LedgerExplainsGate'
    BY <1>7, ChangedRows, InstallExplained DEF FlipTrading
  <2> QED
    BY <1>7, <2>1 DEF FlipTrading, TypeOK
<1>8. CASE FlipDevelopment
  <2>1. /\ audit' \in Seq(Rows)
        /\ policy' \in BOOLEAN
        /\ LedgerExplainsGate'
    BY <1>8, ChangedRows, InstallExplained DEF FlipDevelopment, TypeOK
  <2> QED
    BY <1>8, <2>1 DEF FlipDevelopment, TypeOK
<1> QED
  BY <1>1, <1>2, <1>3, <1>4, <1>5, <1>6, <1>7, <1>8 DEF Next
-----------------------------------------------------------------------------
\* Every variable keeps its type, the ring its bound.
THEOREM GateTypeCorrect == Spec => []TypeOK
<1>1. HaltInv => TypeOK
  BY DEF HaltInv
<1> QED
  BY <1>1, InitInv, NextInv, PTL DEF Spec

\* No broker call follows an active HIGH or CRITICAL hazard that is one of the
\* last Capacity hazards, whatever appends failed, whoever unlocked the mode
\* and whichever callers of ExecutionEngine.execute leave the mode out.
THEOREM HaltCorrect == Spec => []HazardHaltsDispatch
<1>1. HaltInv => HazardHaltsDispatch
  <2> SUFFICES ASSUME HaltInv,
                      NEW k \in 1 .. Len(dispatches),
                      NEW i \in 1 .. dispatches[k].after,
                      observed[i].severity \in {"HIGH", "CRITICAL"},
                      dispatches[k].after - i < Capacity
               PROVE  dispatches[k].at - observed[i].ts
                        >= Windows[observed[i].severity]
    BY DEF HazardHaltsDispatch
  <2>1. /\ observed \in Seq(Hazards)
        /\ dispatches \in Seq(Calls)
        /\ MaxTime \in Nat
    BY GateConstantsOK DEF HaltInv, TypeOK
  <2>2. dispatches[k] \in Calls
    BY <2>1
  <2>3. dispatches[k].at \in Nat /\ dispatches[k].after \in Nat
    BY <2>1, <2>2 DEF Calls
  <2>4. /\ dispatches[k].after <= Len(observed)
        /\ ~Active(observed[i], dispatches[k].at)
    BY DEF HaltInv, CallsQuiet, Quiet, Blocks
  <2>5. observed[i] \in Hazards
    BY <2>1, <2>3, <2>4
  <2>6. observed[i].ts \in Nat /\ Windows[observed[i].severity] \in Nat
    BY <2>1, <2>5, GateConstantsOK DEF Hazards
  <2> QED
    BY <2>3, <2>4, <2>6 DEF Active
<1> QED
  BY <1>1, InitInv, NextInv, PTL DEF Spec

\* The policy the engine holds is the one of the last POLICY_STATE row.
THEOREM GateExplained == Spec => []LedgerExplainsGate
BY InitInv, NextInv, PTL DEF Spec
=============================================================================

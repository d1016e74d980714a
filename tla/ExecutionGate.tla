----------------------------- MODULE ExecutionGate -----------------------------
(***************************************************************************)
(* The path from a signal to the broker, as the harness wires it: hazards  *)
(* tighten the throttle and lock the mode, operators move the mode and     *)
(* flip the trading gate, and ExecutionEngine.execute decides, signal by   *)
(* signal, whether the broker is called.                                   *)
(*                                                                         *)
(* Every entry point runs under the harness lock, so an action is a whole  *)
(* entry point: an ingested hazard, a tick or a signal with the hazards    *)
(* its own recording raises, an operator's flip.  What makes it hard is    *)
(* what an entry point leaves behind when an append to the authority       *)
(* ledger raises half way, and the order in which hazards, flips and       *)
(* signals meet the clock and the bounded ring of the throttle.            *)
(***************************************************************************)
EXTENDS ModeFSM, Sequences

CONSTANTS
  Windows,        \* active window of each severity modelled, in clock ticks
  NoHazard,       \* recording an event raised no hazard
  Capacity,       \* slots of the observer's ring
  PassModes,      \* does a caller of execute pass current_mode?
  Targets,        \* modes an operator's request may name
  BootMode,       \* initial_mode of the state transition manager
  BootTrading,    \* DIXVISION_TRADING_ALLOWED
  LedgerMayFail,  \* an append to the authority ledger may raise
  MaxTime,        \* bound on the clock
  MaxObserved,    \* bound on the hazards observed
  MaxDispatches,  \* bound on the broker calls
  MaxRows         \* bound on the audit rows

Severities == DOMAIN Windows

ASSUME GateConstantsOK ==
  /\ Severities \subseteq {"INFO", "LOW", "MEDIUM", "HIGH", "CRITICAL"}
  /\ Windows \in [Severities -> Nat \ {0}]
  /\ Capacity \in Nat \ {0}
  /\ PassModes \subseteq BOOLEAN
  /\ Targets \subseteq Modes
  /\ BootMode \in Modes
  /\ {BootTrading, LedgerMayFail} \subseteq BOOLEAN
  /\ {MaxTime, MaxObserved, MaxDispatches, MaxRows} \subseteq Nat

VARIABLES
  mode,        \* StateTransitionManager._mode
  trading,     \* _State.trading_allowed
  policy,      \* trading_allowed of the policy the engine holds
  audit,       \* rows of the operator routes in the authority ledger
  ring,        \* HazardObserver._buffer
  marked,      \* a mark price is known for the symbol
  clock,       \* wall clock
  observed,    \* history: every hazard ingested, in order
  dispatches   \* history: every call of the broker

gate    == <<trading, policy, audit>>
history == <<observed, dispatches>>
vars    == <<mode, gate, ring, marked, clock, history>>
-----------------------------------------------------------------------------
Hazards == [severity : Severities, ts : 0 .. MaxTime]

ASSUME NoHazardOK == NoHazard \notin Hazards

Emissions == Hazards \cup {NoHazard}

\* Severities that route through the emergency lock.
Locks(h) == h.severity \in {"HIGH", "CRITICAL"}

\* Severities whose default rule blocks: the same two.
Blocks(h) == h.severity \in {"HIGH", "CRITICAL"}

\* The age check of compute_throttle. A hazard dated in the future is active.
Active(h, now) == now < h.ts + Windows[h.severity]

\* compute_throttle and apply_throttle: is the snapshot halted?
Halts(buffer, now) ==
  \E i \in 1 .. Len(buffer) : Blocks(buffer[i]) /\ Active(buffer[i], now)

\* deque(maxlen = Capacity).append
Push(buffer, h) ==
  IF Len(buffer) < Capacity THEN Append(buffer, h) ELSE Append(Tail(buffer), h)

\* ExecutionEngine.on_hazard
OnHazard(buffer, h) == IF h = NoHazard THEN buffer ELSE Push(buffer, h)

Log(past, h) == IF h = NoHazard THEN past ELSE Append(past, h)

\* GovernanceEngine.process on a hazard: the modes it may leave. When its
\* append raises, the mode stays.
OnGovernance(m, h) ==
  (IF h # NoHazard /\ Locks(h) THEN {"LOCKED"} ELSE {m})
    \cup (IF LedgerMayFail THEN {m} ELSE {})

\* Modes whose executions_dispatch is TRUE.
ExecutingModes == {"PAPER", "CANARY", "LIVE", "AUTO"}

\* ExecutionEngine.execute, from the guard on: is the broker called? Every
\* other outcome is a refused event without effect on the venue.
BrokerCalled(buffer, m, hasMark, passesMode) ==
  /\ policy
  /\ ~Halts(buffer, clock)
  /\ passesMode => m \in ExecutingModes
  /\ hasMark

Row(kind, next) == [kind |-> kind, next |-> next]

Rows == [kind : {"OPERATOR_TRADING_ALLOWED_CHANGED",
                 "OPERATOR_DEVELOPMENT_MODE_CHANGED", "POLICY_STATE"},
         next : BOOLEAN]
\* A call of the broker: when, and after how many hazards.
Calls == [at : 0 .. MaxTime, after : Nat]
-----------------------------------------------------------------------------
Init ==
  /\ mode = BootMode
  /\ trading = BootTrading
  /\ policy = BootTrading
  /\ audit = <<>>
  /\ ring = <<>>
  /\ marked = FALSE
  /\ clock = 0
  /\ observed = <<>>
  /\ dispatches = <<>>

Tick ==
  /\ clock < MaxTime
  /\ clock' = clock + 1
  /\ UNCHANGED <<mode, gate, ring, marked, history>>

\* Mutant: governance first, and its exception skips the throttle.
IngestHazard_GovernanceFirst(h) ==
  /\ Len(observed) < MaxObserved
  /\ \/ mode' \in OnGovernance(mode, h) /\ ring' = OnHazard(ring, h)
     \/ LedgerMayFail /\ UNCHANGED <<mode, ring>>
  /\ observed' = Log(observed, h)
  /\ UNCHANGED <<gate, marked, clock, dispatches>>

\* _ingest_news_hazard_locked: the throttle sees the hazard, then governance.
IngestHazard(h) ==
  /\ Len(observed) < MaxObserved
  /\ mode' \in OnGovernance(mode, h)
  /\ ring' = OnHazard(ring, h)
  /\ observed' = Log(observed, h)
  /\ UNCHANGED <<gate, marked, clock, dispatches>>

(***************************************************************************)
(* A signal under the harness lock: it is recorded, which polls the hazard *)
(* sensors (before); it is approved and executed; if the broker was called *)
(* or refused, that event is recorded, which polls them again (after).     *)
(* The approval reads no mode. A signal the approver or the guard refuses  *)
(* raises before the gate and leaves only what IngestHazard leaves.        *)
(***************************************************************************)
Signal(hasMark) ==
  \E before, after \in Emissions, passesMode \in PassModes :
  \E m \in OnGovernance(mode, before) :
    LET seen  == OnHazard(ring, before)
        known == Log(observed, before)
    IN
    /\ Len(Log(known, after)) <= MaxObserved
    /\ IF BrokerCalled(seen, m, hasMark, passesMode)
       THEN /\ Len(dispatches) < MaxDispatches
            /\ dispatches' =
                 Append(dispatches, [at |-> clock, after |-> Len(known)])
       ELSE UNCHANGED dispatches
    /\ ring' = OnHazard(seen, after)
    /\ observed' = Log(known, after)
    /\ mode' \in OnGovernance(m, after)

\* A tick of the feed, with and without a signal of the strategies.
FeedTick ==
  /\ marked' = TRUE
  /\ \/ Signal(TRUE)
     \/ UNCHANGED <<mode, ring, history>>
  /\ UNCHANGED <<gate, clock>>

\* A signal posted, approved in the chat or raised by the news.
PostSignal ==
  /\ Signal(marked)
  /\ UNCHANGED <<gate, marked, clock>>
-----------------------------------------------------------------------------
\* A request the state transition manager accepts: kill, unlock or a mode.
OperatorMode(m) ==
  /\ IsLegalEdge(mode, m)
  /\ mode' = m
  /\ UNCHANGED <<gate, ring, marked, clock, history>>

\* Mutant: the engine gets its policy before the rows are written.
Install_PolicyFirst(changed, next) ==
  /\ Len(audit) + 2 <= MaxRows
  /\ policy' = next
  /\ \/ audit' = audit \o <<changed, Row("POLICY_STATE", next)>>
     \/ LedgerMayFail /\ audit' = Append(audit, changed)
     \/ LedgerMayFail /\ UNCHANGED audit

\* The row of the flip, the POLICY_STATE row, then the engine's policy; an
\* append that raises leaves what came before.
Install(changed, next) ==
  /\ Len(audit) + 2 <= MaxRows
  /\ \/ /\ audit' = audit \o <<changed, Row("POLICY_STATE", next)>>
        /\ policy' = next
     \/ /\ LedgerMayFail
        /\ audit' = Append(audit, changed)
        /\ UNCHANGED policy
     \/ /\ LedgerMayFail
        /\ UNCHANGED <<audit, policy>>

\* POST /api/operator/trading-allowed: the harness's flag is set first.
FlipTrading(enabled) ==
  /\ trading' = enabled
  /\ Install(Row("OPERATOR_TRADING_ALLOWED_CHANGED", enabled), enabled)
  /\ UNCHANGED <<mode, ring, marked, clock, history>>

\* POST /api/operator/development-mode: the new policy takes its trading
\* flag from the harness's flag. The value of the development flag itself,
\* which the gate does not read, is left out.
FlipDevelopment ==
  /\ Install(Row("OPERATOR_DEVELOPMENT_MODE_CHANGED", FALSE), trading)
  /\ UNCHANGED <<mode, trading, ring, marked, clock, history>>

Next ==
  \/ Tick
  \/ \E h \in Hazards : IngestHazard(h)
  \/ FeedTick
  \/ PostSignal
  \/ \E m \in Targets : OperatorMode(m)
  \/ \E enabled \in BOOLEAN : FlipTrading(enabled)
  \/ FlipDevelopment

Spec == Init /\ [][Next]_vars
-----------------------------------------------------------------------------
TypeOK ==
  /\ mode \in Modes
  /\ trading \in BOOLEAN
  /\ policy \in BOOLEAN
  /\ audit \in Seq(Rows)
  /\ ring \in Seq(Hazards)
  /\ Len(ring) <= Capacity
  /\ marked \in BOOLEAN
  /\ clock \in 0 .. MaxTime
  /\ observed \in Seq(Hazards)
  /\ dispatches \in Seq(Calls)

\* A HIGH or CRITICAL hazard halts trading for its whole window, even when
\* governance failed to lock the mode, an operator unlocked it, or the signal
\* itself raised the hazard: no call of the broker follows such a hazard before
\* its window is over, unless Capacity hazards came after it and pushed it out
\* of the ring.
HazardHaltsDispatch ==
  \A k \in 1 .. Len(dispatches) : \A i \in 1 .. dispatches[k].after :
    /\ observed[i].severity \in {"HIGH", "CRITICAL"}
    /\ dispatches[k].after - i < Capacity
    => dispatches[k].at - observed[i].ts >= Windows[observed[i].severity]

\* i is the last POLICY_STATE row.
LastPolicy(i) ==
  /\ i \in 1 .. Len(audit)
  /\ audit[i].kind = "POLICY_STATE"
  /\ \A j \in i + 1 .. Len(audit) : audit[j].kind # "POLICY_STATE"

\* The ledger explains the trading gate: whatever flip failed half way, the
\* engine's policy is the one the last POLICY_STATE row states, or the boot's
\* when there is none.
LedgerExplainsGate ==
  \/ \E i \in 1 .. Len(audit) : LastPolicy(i) /\ policy = audit[i].next
  \/ /\ \A i \in 1 .. Len(audit) : audit[i].kind # "POLICY_STATE"
     /\ policy = BootTrading

\* mode_effects.py: "ExecutionEngine dispatches an ExecutionIntent to a
\* broker iff" executions_dispatch of the mode is TRUE.
DispatchOnlyInExecutingModes ==
  [][dispatches' # dispatches => mode \in ExecutingModes]_vars

\* ui/server.py: "Every flip is audited as an OPERATOR_<flag>_CHANGED row
\* paired with a canonical POLICY_STATE row": the gate never takes a value
\* that no OPERATOR_TRADING_ALLOWED_CHANGED row names.
GateFlipsAreAudited ==
  [][policy' # policy =>
       \E i \in 1 .. Len(audit') :
         audit'[i] = Row("OPERATOR_TRADING_ALLOWED_CHANGED", policy')]_vars
=============================================================================

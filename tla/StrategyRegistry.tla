--------------------------- MODULE StrategyRegistry ---------------------------
(***************************************************************************)
(* The governance registry of strategies, and the handler that validates   *)
(* and applies the parameter updates the learning engine proposes.         *)
(*                                                                         *)
(* Every change is appended to the authority ledger before memory changes, *)
(* and the registry can be rebuilt from the ledger; a boot starts with an  *)
(* empty registry, and whether it is rebuilt is up to the caller (the      *)
(* harness never does).  The registry has no lock of its own: its callers  *)
(* run one at a time, so an action is a whole call.  A call whose append   *)
(* raises changes nothing, except where it had appended a row already.     *)
(*                                                                         *)
(* A strategy has one parameter.  `mutable` says whether the parameter is  *)
(* on its whitelist; the parameter declares bounds.                        *)
(***************************************************************************)
EXTENDS ModeFSM, Sequences, FiniteSetsExt

CONSTANTS
  Strategies, \* strategy ids
  Values,     \* values of the parameter
  Bounded,    \* the values that are numeric and within the bounds
  MaxRows,    \* bound: rows of the ledger
  MaxRejected, \* bound: REJECTED rows among them
  MaxBoots    \* bound: boots

ASSUME StrategyConstantsOK ==
  /\ Bounded \subseteq Values
  /\ MaxRows \in Nat
  /\ MaxRejected \in Nat
  /\ MaxBoots \in Nat

VARIABLES
  records, \* StrategyRegistry._records, NoRecord where there is none
  ledger,  \* the registry's and the update handler's rows, oldest first
  boots    \* boots so far, stamped on each row as history

vars == <<records, ledger, boots>>
-----------------------------------------------------------------------------
Lifecycles == {"DRAFT", "VALIDATING", "APPROVED", "RETIRED"}

\* A StrategyRecord.
Records == [version : Nat, lifecycle : Lifecycles, value : Values,
            mutable : BOOLEAN]

NoRecord == [version |-> 0]

\* LEGAL_LIFECYCLE_TRANSITIONS
LegalTransition(prev, new) ==
  \/ prev \in {"DRAFT", "VALIDATING", "APPROVED"} /\ new = "RETIRED"
  \/ prev = "DRAFT" /\ new = "VALIDATING"
  \/ prev = "VALIDATING" /\ new = "APPROVED"

\* learning_apply of the mode-effects table.
LearningApply == {"CANARY", "LIVE", "AUTO"}

RejectCodes == {"EMPTY_REASON", "MODE_LEARNING_DISABLED", "UNKNOWN_STRATEGY",
                "LIFECYCLE_NOT_APPROVED", "PARAMETER_NOT_MUTABLE",
                "NEW_VALUE_OUT_OF_BOUNDS"}

\* UpdateValidator.validate: the first check that fails, OK for RATIFY.  A
\* value that is not numeric is refused as one out of bounds is.
UpdateCode(r, new, mode, reason) ==
  CASE ~reason                   -> "EMPTY_REASON"
    [] mode \notin LearningApply -> "MODE_LEARNING_DISABLED"
    [] r = NoRecord              -> "UNKNOWN_STRATEGY"
    [] r.lifecycle # "APPROVED"  -> "LIFECYCLE_NOT_APPROVED"
    [] ~r.mutable                -> "PARAMETER_NOT_MUTABLE"
    [] new \notin Bounded        -> "NEW_VALUE_OUT_OF_BOUNDS"
    [] OTHER                     -> OK

(***************************************************************************)
(* The rows.                                                               *)
(***************************************************************************)
Lifecycle(s, r) ==
  [kind |-> "LIFECYCLE", id |-> s, record |-> r, boot |-> boots]

Parameter(s, version, old, new) ==
  [kind |-> "PARAMETER", id |-> s, version |-> version, old |-> old,
   new |-> new, boot |-> boots]

Ratified(s, old, new) ==
  [kind |-> "RATIFIED", id |-> s, old |-> old, new |-> new, boot |-> boots]

Rejected(s, code) ==
  [kind |-> "REJECTED", id |-> s, code |-> code, boot |-> boots]

Rows ==
  [kind : {"LIFECYCLE"}, id : Strategies, record : Records, boot : Nat]
  \cup [kind : {"PARAMETER"}, id : Strategies, version : Nat, old : Values,
        new : Values, boot : Nat]
  \cup [kind : {"RATIFIED"}, id : Strategies, old : Values, new : Values,
        boot : Nat]
  \cup [kind : {"REJECTED"}, id : Strategies, code : RejectCodes, boot : Nat]

RoomFor(n) == Len(ledger) + n <= MaxRows
-----------------------------------------------------------------------------
(***************************************************************************)
(* replay_from_ledger over the first n of the rows.  The loop overwrites,  *)
(* so what it leaves of a strategy is its last LIFECYCLE row, which is a   *)
(* whole record, with the version and value of the last PARAMETER row      *)
(* after it.                                                               *)
(***************************************************************************)
RowsOf(rows, kind, s, n) ==
  {i \in 1 .. n : rows[i].kind = kind /\ rows[i].id = s}

Snapshots(rows, s, n) == RowsOf(rows, "LIFECYCLE", s, n)

Changes(rows, s, n) ==
  {j \in RowsOf(rows, "PARAMETER", s, n) : \A i \in Snapshots(rows, s, n) : i < j}

Replayed(rows, s, n) ==
  IF Snapshots(rows, s, n) = {} THEN NoRecord
  ELSE LET r == rows[Max(Snapshots(rows, s, n))].record IN
       IF Changes(rows, s, n) = {} THEN r
       ELSE LET c == rows[Max(Changes(rows, s, n))]
            IN [r EXCEPT !.version = c.version, !.value = c.new]
-----------------------------------------------------------------------------
Init ==
  /\ records = [s \in Strategies |-> NoRecord]
  /\ ledger = <<>>
  /\ boots = 0

Store(s, r) == records' = [records EXCEPT ![s] = r]

\* Mutant: an id that is registered is registered again.
Register_Again(s, value, mutable) ==
  LET r == [version |-> 1, lifecycle |-> "DRAFT", value |-> value,
            mutable |-> mutable]
  IN /\ RoomFor(1)
     /\ ledger' = Append(ledger, Lifecycle(s, r))
     /\ Store(s, r)
     /\ UNCHANGED boots

\* register_draft: the first value is not held against the bounds.
Register(s, value, mutable) ==
  LET r == [version |-> 1, lifecycle |-> "DRAFT", value |-> value,
            mutable |-> mutable]
  IN /\ RoomFor(1)
     /\ records[s] = NoRecord
     /\ ledger' = Append(ledger, Lifecycle(s, r))
     /\ Store(s, r)
     /\ UNCHANGED boots

\* Mutant: memory changes first, and the append may raise.
Transition_MemoryFirst(s, new) ==
  /\ RoomFor(1)
  /\ records[s] # NoRecord
  /\ LegalTransition(records[s].lifecycle, new)
  /\ LET r == [records[s] EXCEPT !.version = @ + 1, !.lifecycle = new] IN
     /\ ledger' = Append(ledger, Lifecycle(s, r)) \/ UNCHANGED ledger
     /\ Store(s, r)
  /\ UNCHANGED boots

\* transition
Transition(s, new) ==
  /\ RoomFor(1)
  /\ records[s] # NoRecord
  /\ LegalTransition(records[s].lifecycle, new)
  /\ LET r == [records[s] EXCEPT !.version = @ + 1, !.lifecycle = new] IN
     /\ ledger' = Append(ledger, Lifecycle(s, r))
     /\ Store(s, r)
  /\ UNCHANGED boots

(***************************************************************************)
(* _handle_update_proposed: `old` is the value the proposal was made from, *)
(* which nobody compares with the present one.                             *)
(***************************************************************************)
RoomForRejected ==
  /\ RoomFor(1)
  /\ Cardinality({i \in DOMAIN ledger : ledger[i].kind = "REJECTED"}) < MaxRejected

RejectUpdate(s, new, mode, reason) ==
  LET code == UpdateCode(records[s], new, mode, reason)
  IN /\ RoomForRejected
     /\ code # OK
     /\ ledger' = Append(ledger, Rejected(s, code))
     /\ UNCHANGED <<records, boots>>

\* The second append raises, or the process dies before it.
RatifyOnly(s, old, new, mode) ==
  /\ RoomFor(1)
  /\ UpdateCode(records[s], new, mode, TRUE) = OK
  /\ ledger' = Append(ledger, Ratified(s, old, new))
  /\ UNCHANGED <<records, boots>>

\* Mutant: the update is applied before it is written down as ratified.
ApplyUpdate_First(s, old, new, mode) ==
  /\ RoomFor(2)
  /\ UpdateCode(records[s], new, mode, TRUE) = OK
  /\ LET r == [records[s] EXCEPT !.version = @ + 1, !.value = new] IN
     /\ ledger' = ledger \o <<Parameter(s, r.version, records[s].value, new),
                              Ratified(s, old, new)>>
     /\ Store(s, r)
  /\ UNCHANGED boots

\* UpdateApplier.apply, apply_parameter_update
ApplyUpdate(s, old, new, mode) ==
  /\ RoomFor(2)
  /\ UpdateCode(records[s], new, mode, TRUE) = OK
  /\ LET r == [records[s] EXCEPT !.version = @ + 1, !.value = new] IN
     /\ ledger' = ledger \o <<Ratified(s, old, new),
                              Parameter(s, r.version, records[s].value, new)>>
     /\ Store(s, r)
  /\ UNCHANGED boots

(***************************************************************************)
(* A restart, and the replay a caller may ask for at any time.             *)
(***************************************************************************)
Boot ==
  /\ boots < MaxBoots
  /\ boots' = boots + 1
  /\ records' = [s \in Strategies |-> NoRecord]
  /\ UNCHANGED ledger

Replay ==
  /\ records' = [s \in Strategies |-> Replayed(ledger, s, Len(ledger))]
  /\ UNCHANGED <<ledger, boots>>

Next ==
  \/ \E s \in Strategies :
       \/ \E value \in Values, mutable \in BOOLEAN : Register(s, value, mutable)
       \/ \E new \in Lifecycles : Transition(s, new)
       \/ \E new \in Values, mode \in Modes :
            \/ \E reason \in BOOLEAN : RejectUpdate(s, new, mode, reason)
            \/ \E old \in Values : RatifyOnly(s, old, new, mode)
            \/ \E old \in Values : ApplyUpdate(s, old, new, mode)
  \/ Boot
  \/ Replay

Spec == Init /\ [][Next]_vars
-----------------------------------------------------------------------------
TypeOK ==
  /\ records \in [Strategies -> Records \cup {NoRecord}]
  /\ ledger \in Seq(Rows)
  /\ boots \in Nat

\* "The current record is replay_from_ledger of the chain": whatever was lost
\* on the way, what the registry knows of a strategy is what a replay gives.
MemoryIsReplay ==
  \A s \in Strategies :
    records[s] # NoRecord => records[s] = Replayed(ledger, s, Len(ledger))

Continues(rows, i) ==
  LET row == rows[i]
      prev == Replayed(rows, row.id, i - 1)
  IN CASE row.kind = "LIFECYCLE" /\ row.record.version = 1 ->
            /\ row.record.lifecycle = "DRAFT"
            /\ \A j \in 1 .. i - 1 : rows[j].id = row.id =>
                 rows[j].kind = "REJECTED" \/ rows[j].boot < row.boot
       [] row.kind = "LIFECYCLE" /\ row.record.version # 1 ->
            /\ prev # NoRecord
            /\ LegalTransition(prev.lifecycle, row.record.lifecycle)
            /\ row.record = [prev EXCEPT !.version = @ + 1,
                                         !.lifecycle = row.record.lifecycle]
       [] row.kind = "PARAMETER" ->
            /\ prev # NoRecord
            /\ prev.lifecycle = "APPROVED"
            /\ prev.mutable
            /\ row.version = prev.version + 1
            /\ row.old = prev.value
       [] OTHER -> TRUE

\* Every row goes on from the history before it (legal edge, next version, the
\* value it replaces), so no update is lost and a replay never meets a
\* parameter row of a strategy it does not know.  A history starts over only
\* after a boot that did not replay.
ChainContinues == \A i \in DOMAIN ledger : Continues(ledger, i)

\* "The chain reads UPDATE_RATIFIED, STRATEGY_PARAMETER_UPDATE": a value that
\* changed was ratified in the row before, and is within its bounds; a value
\* nobody ratified is the one the strategy was registered with.
EveryChangeWasRatified ==
  \A i \in DOMAIN ledger : ledger[i].kind = "PARAMETER" =>
    /\ ledger[i].new \in Bounded
    /\ i > 1
    /\ ledger[i - 1].kind = "RATIFIED"
    /\ ledger[i - 1].id = ledger[i].id
    /\ ledger[i - 1].new = ledger[i].new
    /\ ledger[i - 1].boot = ledger[i].boot
===============================================================================

------------------------ MODULE StrategyRegistryProofs ------------------------
(***************************************************************************)
(* Theorems about StrategyRegistry, for any strategies, values and bounds. *)
(***************************************************************************)
EXTENDS StrategyRegistry, SequenceTheorems, WellFoundedInduction, TLAPS

(***************************************************************************)
(* The last row of a set of rows.                                          *)
(***************************************************************************)
LEMMA LastExists ==
  ASSUME NEW n \in Nat, NEW S, S \subseteq 1 .. n, S # {}
  PROVE  \E x \in S : \A y \in S : x >= y
<1>1. PICK T : T = {n - x : x \in S}
  OBVIOUS
<1>2. T \subseteq Nat /\ T # {}
  <2>1. \A x \in S : n - x \in Nat
    OBVIOUS
  <2> QED
    BY <1>1, <2>1
<1>3. PICK t \in T : \A u \in T : ~(<<u, t>> \in OpToRel(<, Nat))
  BY <1>2, WFMin, NatLessThanWellFounded, Zenon
<1>4. \A u \in T : ~(u < t)
  BY <1>2, <1>3 DEF OpToRel
<1>5. PICK x \in S : t = n - x
  BY <1>1
<1>6. \A y \in S : n - y \in T
  BY <1>1
<1>7. \A y \in S : ~(n - y < n - x)
  BY <1>4, <1>5, <1>6
<1> QED
  BY <1>5, <1>7

LEMMA MaxIsLast ==
  ASSUME NEW n \in Nat, NEW S, S \subseteq 1 .. n, S # {}
  PROVE  Max(S) \in S /\ \A y \in S : Max(S) >= y
BY LastExists, Zenon DEF Max

LEMMA MaxIs ==
  ASSUME NEW n \in Nat, NEW S, S \subseteq 1 .. n, n \in S
  PROVE  Max(S) = n
<1>1. Max(S) \in S /\ \A y \in S : Max(S) >= y
  BY MaxIsLast
<1>2. Max(S) \in 1 .. n /\ Max(S) >= n
  BY <1>1
<1> QED
  BY <1>2

(***************************************************************************)
(* What a replay reads: rows it has in common with another ledger give the *)
(* same records.                                                           *)
(***************************************************************************)
LEMMA SameRows ==
  ASSUME NEW n \in Nat, NEW p, NEW q, \A i \in 1 .. n : p[i] = q[i], NEW s
  PROVE  /\ Snapshots(p, s, n) = Snapshots(q, s, n)
         /\ Changes(p, s, n) = Changes(q, s, n)
BY DEF Snapshots, Changes, RowsOf

LEMMA SameReplay ==
  ASSUME NEW n \in Nat, NEW p, NEW q, \A i \in 1 .. n : p[i] = q[i], NEW s
  PROVE  Replayed(p, s, n) = Replayed(q, s, n)
<1>1. /\ Snapshots(p, s, n) = Snapshots(q, s, n)
      /\ Changes(p, s, n) = Changes(q, s, n)
  BY SameRows
<1>2. Snapshots(p, s, n) \subseteq 1 .. n /\ Changes(p, s, n) \subseteq 1 .. n
  BY DEF Snapshots, Changes, RowsOf
<1>3. Snapshots(p, s, n) # {} =>
        p[Max(Snapshots(p, s, n))] = q[Max(Snapshots(p, s, n))]
  BY <1>2, MaxIsLast
<1>4. Changes(p, s, n) # {} =>
        p[Max(Changes(p, s, n))] = q[Max(Changes(p, s, n))]
  BY <1>2, MaxIsLast
<1>5. CASE Snapshots(p, s, n) = {}
  BY <1>1, <1>5 DEF Replayed
<1>6. CASE Snapshots(p, s, n) # {} /\ Changes(p, s, n) = {}
  BY <1>1, <1>3, <1>6, Zenon DEF Replayed
<1>7. CASE Snapshots(p, s, n) # {} /\ Changes(p, s, n) # {}
  BY <1>1, <1>3, <1>4, <1>7, Zenon DEF Replayed
<1> QED
  BY <1>5, <1>6, <1>7

\* What one more row does to a replay.
GoesOn(row, s, prev, new) ==
  /\ row.id # s \/ row.kind \notin {"LIFECYCLE", "PARAMETER"} => new = prev
  /\ row.id = s /\ row.kind = "LIFECYCLE" => new = row.record
  /\ row.id = s /\ row.kind = "PARAMETER" /\ prev # NoRecord =>
       new = [prev EXCEPT !.version = row.version, !.value = row.new]

LEMMA OneMoreRow ==
  ASSUME NEW n \in Nat, NEW p, NEW s, NEW row, row = p[n + 1],
         NEW prev, prev = Replayed(p, s, n),
         NEW new, new = Replayed(p, s, n + 1)
  PROVE  GoesOn(row, s, prev, new)
<1>1. /\ Snapshots(p, s, n) \subseteq 1 .. n
      /\ Changes(p, s, n) \subseteq 1 .. n
      /\ Snapshots(p, s, n + 1) \subseteq 1 .. n + 1
      /\ Changes(p, s, n + 1) \subseteq 1 .. n + 1
  BY DEF Snapshots, Changes, RowsOf
<1>2. CASE row.id # s \/ row.kind \notin {"LIFECYCLE", "PARAMETER"}
  <2>1. /\ Snapshots(p, s, n + 1) = Snapshots(p, s, n)
        /\ Changes(p, s, n + 1) = Changes(p, s, n)
    BY <1>2 DEF Snapshots, Changes, RowsOf
  <2> QED
    BY <1>2, <2>1 DEF Replayed, GoesOn
<1>3. CASE row.id = s /\ row.kind = "LIFECYCLE"
  <2>1. n + 1 \in Snapshots(p, s, n + 1)
    BY <1>3 DEF Snapshots, RowsOf
  <2>2. Changes(p, s, n + 1) = {}
    BY <1>3, <2>1 DEF Changes, RowsOf
  <2>3. Max(Snapshots(p, s, n + 1)) = n + 1
    BY <1>1, <2>1, MaxIs
  <2>4. Replayed(p, s, n + 1) = p[n + 1].record
    BY <2>1, <2>2, <2>3 DEF Replayed
  <2> QED
    BY <1>3, <2>4 DEF GoesOn
<1>4. CASE row.id = s /\ row.kind = "PARAMETER"
  <2>1. Snapshots(p, s, n + 1) = Snapshots(p, s, n)
    BY <1>4 DEF Snapshots, RowsOf
  <2>2. CASE Snapshots(p, s, n) = {}
    <3>1. prev = NoRecord
      BY <2>2 DEF Replayed
    <3> QED
      BY <1>4, <3>1 DEF GoesOn
  <2>3. CASE Snapshots(p, s, n) # {}
    <3>1. n + 1 \in Changes(p, s, n + 1)
      BY <1>1, <1>4, <2>1 DEF Changes, RowsOf
    <3>2. Max(Changes(p, s, n + 1)) = n + 1
      BY <1>1, <3>1, MaxIs
    <3>3. PICK r : r = p[Max(Snapshots(p, s, n))].record
      OBVIOUS
    <3>4. Replayed(p, s, n + 1) = [r EXCEPT !.version = row.version, !.value = row.new]
      BY <2>1, <2>3, <3>1, <3>2, <3>3 DEF Replayed
    <3>5. prev = r \/ \E c : prev = [r EXCEPT !.version = c.version, !.value = c.new]
      BY <2>3, <3>3 DEF Replayed
    <3>6. [prev EXCEPT !.version = row.version, !.value = row.new]
            = [r EXCEPT !.version = row.version, !.value = row.new]
      BY <3>5
    <3> QED
      BY <1>4, <2>3, <3>4, <3>6 DEF GoesOn
  <2> QED
    BY <2>2, <2>3
<1> QED
  BY <1>2, <1>3, <1>4

-----------------------------------------------------------------------------
(***************************************************************************)
(* What holds of the ledger p when boot b is up, and why one more row, of  *)
(* a change that goes on from what a replay gives, leaves it true.         *)
(***************************************************************************)
Known == {r \in Records : r.version >= 1}

ChainOK(p, b) ==
  /\ \A i \in 1 .. Len(p) : Continues(p, i)
  /\ \A i \in 1 .. Len(p) : p[i].boot <= b
  /\ \A s \in Strategies : Replayed(p, s, Len(p)) \in Known \cup {NoRecord}
  /\ \A i \in 1 .. Len(p) :
       p[i].kind # "REJECTED" => Replayed(p, p[i].id, Len(p)) # NoRecord

Grows(p, row) ==
  LET prev == Replayed(p, row.id, Len(p))
  IN /\ row.kind = "LIFECYCLE" => row.record \in Known
     /\ row.kind \in {"PARAMETER", "RATIFIED"} => prev # NoRecord
     /\ row.kind = "PARAMETER" => row.version = prev.version + 1

LEMMA NoRecordIsNone == \A r \in Records : r # NoRecord
BY DEF Records, NoRecord

LEMMA RowFields ==
  ASSUME NEW row \in Rows
  PROVE  /\ row.kind \in {"LIFECYCLE", "PARAMETER", "RATIFIED", "REJECTED"}
         /\ row.id \in Strategies
         /\ row.boot \in Nat
         /\ row.kind = "LIFECYCLE" => row.record \in Records
         /\ row.kind = "PARAMETER" => /\ row.version \in Nat
                                      /\ row.old \in Values
                                      /\ row.new \in Values
BY DEF Rows

LEMMA Changed ==
  ASSUME NEW r \in Known, NEW v \in Nat, v >= 1, NEW x \in Values
  PROVE  [r EXCEPT !.version = v, !.value = x] \in Known
BY DEF Known, Records

LEMMA Appended ==
  ASSUME NEW p \in Seq(Rows), NEW row \in Rows, NEW q, q = Append(p, row)
  PROVE  /\ q \in Seq(Rows)
         /\ Len(q) = Len(p) + 1
         /\ Len(p) \in Nat
         /\ \A i \in 1 .. Len(p) : q[i] = p[i]
         /\ q[Len(p) + 1] = row
OBVIOUS

LEMMA EarlierContinues ==
  ASSUME NEW p, NEW q, NEW n \in Nat, \A i \in 1 .. n : q[i] = p[i],
         NEW i \in 1 .. n, Continues(p, i)
  PROVE  Continues(q, i)
<1>1. i - 1 \in Nat /\ \A j \in 1 .. i - 1 : q[j] = p[j]
  OBVIOUS
<1>2. q[i] = p[i]
  OBVIOUS
<1>3. Replayed(q, q[i].id, i - 1) = Replayed(p, p[i].id, i - 1)
  BY <1>1, <1>2, SameReplay
<1> QED
  BY <1>1, <1>2, <1>3 DEF Continues

LEMMA NextReplay ==
  ASSUME NEW p \in Seq(Rows), NEW row \in Rows, NEW q, q = Append(p, row),
         NEW s, NEW prev, prev = Replayed(p, s, Len(p)),
         NEW new, new = Replayed(q, s, Len(q))
  PROVE  GoesOn(row, s, prev, new)
<1>1. PICK n \in Nat : /\ n = Len(p)
                       /\ Len(q) = n + 1
                       /\ \A i \in 1 .. n : p[i] = q[i]
                       /\ row = q[n + 1]
  BY Appended
<1>2. Replayed(p, s, n) = Replayed(q, s, n)
  BY <1>1, SameReplay
<1>3. prev = Replayed(q, s, n)
  BY <1>1, <1>2
<1>4. new = Replayed(q, s, n + 1)
  BY <1>1
<1>5. row = q[n + 1]
  BY <1>1
<1> QED
  BY <1>3, <1>4, <1>5, OneMoreRow, Zenon

LEMMA ChainGrows ==
  ASSUME NEW p \in Seq(Rows), NEW row \in Rows, NEW q, q = Append(p, row),
         NEW b \in Nat, ChainOK(p, b), row.boot = b,
         Grows(p, row), Continues(q, Len(q))
  PROVE  ChainOK(q, b)
<1>1. /\ q \in Seq(Rows)
      /\ Len(q) = Len(p) + 1
      /\ Len(p) \in Nat
      /\ \A i \in 1 .. Len(p) : q[i] = p[i]
      /\ row = q[Len(p) + 1]
  BY Appended
<1>2. ASSUME NEW i \in 1 .. Len(q) PROVE Continues(q, i)
  <2>1. CASE i \in 1 .. Len(p)
    BY <1>1, <2>1, EarlierContinues DEF ChainOK
  <2>2. CASE i = Len(q)
    BY <2>2
  <2> QED
    BY <1>1, <2>1, <2>2
<1>3. ASSUME NEW i \in 1 .. Len(q) PROVE q[i].boot <= b
  BY <1>1 DEF ChainOK
<1>4. ASSUME NEW s \in Strategies
      PROVE  /\ Replayed(q, s, Len(q)) \in Known \cup {NoRecord}
             /\ Replayed(p, s, Len(p)) # NoRecord => Replayed(q, s, Len(q)) # NoRecord
             /\ row.id = s /\ row.kind # "REJECTED" => Replayed(q, s, Len(q)) # NoRecord
  <2>1. PICK prev : prev = Replayed(p, s, Len(p))
    OBVIOUS
  <2>2. PICK new : new = Replayed(q, s, Len(q))
    OBVIOUS
  <2>3. prev \in Known \cup {NoRecord}
    BY <2>1 DEF ChainOK
  <2>4. NoRecord \notin Known
    BY NoRecordIsNone DEF Known
  <2>x. GoesOn(row, s, prev, new)
    BY <2>1, <2>2, NextReplay, Zenon
  <2>5. CASE row.id # s \/ row.kind \notin {"LIFECYCLE", "PARAMETER"}
    <3>1. new = prev
      BY <2>x, <2>5 DEF GoesOn
    <3>2. row.id = s /\ row.kind # "REJECTED" => prev # NoRecord
      BY <2>1, <2>5, RowFields DEF Grows
    <3> QED
      BY <2>1, <2>2, <2>3, <3>1, <3>2
  <2>6. CASE row.id = s /\ row.kind = "LIFECYCLE"
    <3>1. new = row.record
      BY <2>x, <2>6 DEF GoesOn
    <3>2. new \in Known
      BY <2>6, <3>1 DEF Grows
    <3> QED
      BY <2>2, <2>4, <3>2
  <2>7. CASE row.id = s /\ row.kind = "PARAMETER"
    <3>1. prev # NoRecord /\ row.version = prev.version + 1
      BY <2>1, <2>7 DEF Grows
    <3>2. new = [prev EXCEPT !.version = row.version, !.value = row.new]
      BY <2>x, <2>7, <3>1 DEF GoesOn
    <3>3. prev \in Known /\ prev.version \in Nat /\ prev.version >= 1
      BY <2>3, <3>1 DEF Known, Records
    <3>4. row.version \in Nat /\ row.version >= 1 /\ row.new \in Values
      BY <2>7, <3>1, <3>3, RowFields
    <3>5. new \in Known
      BY <3>2, <3>3, <3>4, Changed
    <3> QED
      BY <2>2, <2>4, <3>5
  <2> QED
    BY <2>5, <2>6, <2>7
<1>5. ASSUME NEW i \in 1 .. Len(q), q[i].kind # "REJECTED"
      PROVE  Replayed(q, q[i].id, Len(q)) # NoRecord
  <2>1. q[i].id \in Strategies
    BY <1>1, RowFields
  <2>2. CASE i \in 1 .. Len(p)
    BY <1>1, <1>4, <1>5, <2>1, <2>2 DEF ChainOK
  <2>3. CASE i = Len(q)
    BY <1>1, <1>4, <1>5, <2>1, <2>3
  <2> QED
    BY <1>1, <2>2, <2>3
<1> QED
  BY <1>2, <1>3, <1>4, <1>5 DEF ChainOK

-----------------------------------------------------------------------------
(***************************************************************************)
(* The inductive invariant, of the records r, the ledger p and the boot b: *)
(* a record is what a replay gives, and a strategy without one has no row  *)
(* of this boot that a record would have come from.                        *)
(***************************************************************************)
Sound(r, p, b) ==
  /\ r \in [Strategies -> Known \cup {NoRecord}]
  /\ p \in Seq(Rows)
  /\ b \in Nat
  /\ \A s \in Strategies : r[s] # NoRecord => r[s] = Replayed(p, s, Len(p))
  /\ \A s \in Strategies : r[s] = NoRecord =>
       \A i \in 1 .. Len(p) :
         p[i].id = s => p[i].kind = "REJECTED" \/ p[i].boot < b
  /\ ChainOK(p, b)

Inv == Sound(records, ledger, boots)

\* The records r2 after row was appended to p.
Follows(r, p, row, r2) ==
  /\ \A t \in Strategies : t # row.id => r2[t] = r[t]
  /\ IF row.kind = "REJECTED" THEN r2[row.id] = r[row.id]
     ELSE /\ r2[row.id] # NoRecord
          /\ GoesOn(row, row.id, Replayed(p, row.id, Len(p)), r2[row.id])

LEMMA SoundGrows ==
  ASSUME NEW r, NEW p, NEW b, Sound(r, p, b),
         NEW row \in Rows, row.boot = b, NEW q, q = Append(p, row),
         Grows(p, row), Continues(q, Len(q)),
         NEW r2 \in [Strategies -> Known \cup {NoRecord}], Follows(r, p, row, r2)
  PROVE  Sound(r2, q, b)
<1>1. /\ p \in Seq(Rows)
      /\ q \in Seq(Rows)
      /\ Len(q) = Len(p) + 1
      /\ Len(p) \in Nat
      /\ \A i \in 1 .. Len(p) : q[i] = p[i]
      /\ row = q[Len(p) + 1]
  BY Appended DEF Sound
<1>2. b \in Nat /\ ChainOK(p, b)
  BY DEF Sound
<1>3. ChainOK(q, b)
  BY <1>1, <1>2, ChainGrows
<1>4. row.id \in Strategies
      /\ row.kind \in {"LIFECYCLE", "PARAMETER", "RATIFIED", "REJECTED"}
  BY RowFields
<1>5. ASSUME NEW s \in Strategies, r2[s] # NoRecord
      PROVE  r2[s] = Replayed(q, s, Len(q))
  <2>1. PICK prev : prev = Replayed(p, s, Len(p))
    OBVIOUS
  <2>2. PICK new : new = Replayed(q, s, Len(q))
    OBVIOUS
  <2>3. GoesOn(row, s, prev, new)
    BY <1>1, <2>1, <2>2, NextReplay, Zenon
  <2>4. r[s] # NoRecord => r[s] = prev
    BY <2>1 DEF Sound
  <2>5. CASE s # row.id \/ row.kind = "REJECTED"
    <3>1. r2[s] = r[s]
      BY <2>5 DEF Follows
    <3>2. new = prev
      BY <2>3, <2>5 DEF GoesOn
    <3> QED
      BY <1>5, <2>2, <2>4, <3>1, <3>2
  <2>6. CASE s = row.id /\ row.kind # "REJECTED"
    <3>1. GoesOn(row, s, prev, r2[s])
      BY <2>1, <2>6 DEF Follows
    <3>2. row.kind = "PARAMETER" => prev # NoRecord
      BY <2>1, <2>6 DEF Grows
    <3> QED
      BY <1>4, <2>2, <2>3, <2>6, <3>1, <3>2 DEF GoesOn
  <2> QED
    BY <2>5, <2>6
<1>6. ASSUME NEW s \in Strategies, r2[s] = NoRecord, NEW i \in 1 .. Len(q),
             q[i].id = s
      PROVE  q[i].kind = "REJECTED" \/ q[i].boot < b
  <2>1. s = row.id => row.kind = "REJECTED"
    BY <1>6 DEF Follows
  <2>2. r[s] = NoRecord
    BY <1>6, <2>1 DEF Follows
  <2>3. CASE i \in 1 .. Len(p)
    BY <1>1, <1>6, <2>2, <2>3 DEF Sound
  <2>4. CASE i = Len(p) + 1
    BY <1>1, <1>6, <2>1, <2>4
  <2> QED
    BY <1>1, <2>3, <2>4
<1> QED
  BY <1>1, <1>2, <1>3, <1>5, <1>6 DEF Sound

LEMMA SoundMeans ==
  Inv => TypeOK /\ MemoryIsReplay /\ ChainContinues
<1> SUFFICES ASSUME Inv PROVE TypeOK /\ MemoryIsReplay /\ ChainContinues
  OBVIOUS
<1>1. TypeOK
  BY DEF Inv, Sound, TypeOK, Known
<1>2. MemoryIsReplay
  BY DEF Inv, Sound, MemoryIsReplay
<1>3. ChainContinues
  BY DEF Inv, Sound, ChainOK, ChainContinues
<1> QED
  BY <1>1, <1>2, <1>3

\* What is known of a strategy with a record.
LEMMA Recorded ==
  ASSUME Inv, NEW s \in Strategies, records[s] # NoRecord
  PROVE  /\ records[s] \in Known
         /\ records[s].version \in Nat
         /\ records[s].version >= 1
         /\ records[s].value \in Values
         /\ records[s] = Replayed(ledger, s, Len(ledger))
BY DEF Inv, Sound, Known, Records

LEMMA RatifyMeans ==
  ASSUME NEW r \in Known \cup {NoRecord}, NEW new, NEW mode,
         UpdateCode(r, new, mode, TRUE) = OK
  PROVE  /\ r # NoRecord
         /\ r.lifecycle = "APPROVED"
         /\ r.mutable
         /\ new \in Bounded
BY DEF UpdateCode, OK

LEMMA RejectMeans ==
  ASSUME NEW r, NEW new, NEW mode, NEW reason \in BOOLEAN,
         UpdateCode(r, new, mode, reason) # OK
  PROVE  UpdateCode(r, new, mode, reason) \in RejectCodes
BY DEF UpdateCode, OK, RejectCodes

-----------------------------------------------------------------------------
(***************************************************************************)
(* The actions.                                                            *)
(***************************************************************************)
LEMMA RegisterKeeps ==
  ASSUME Inv, NEW s \in Strategies, NEW value \in Values, NEW mutable \in BOOLEAN,
         Register(s, value, mutable)
  PROVE  Inv'
<1>1. PICK r : r = [version |-> 1, lifecycle |-> "DRAFT", value |-> value,
                    mutable |-> mutable]
  OBVIOUS
<1>2. PICK row : row = Lifecycle(s, r)
  OBVIOUS
<1>3. /\ records[s] = NoRecord
      /\ ledger' = Append(ledger, row)
      /\ records' = [records EXCEPT ![s] = r]
      /\ boots' = boots
  BY <1>1, <1>2 DEF Register, Store
<1>4. r \in Known /\ r \in Records
  BY <1>1 DEF Known, Records, Lifecycles
<1>5. row.kind = "LIFECYCLE" /\ row.id = s /\ row.record = r /\ row.boot = boots
  BY <1>2 DEF Lifecycle
<1>6. row \in Rows
  BY <1>2, <1>4 DEF Lifecycle, Rows, Inv, Sound
<1>7. Grows(ledger, row)
  BY <1>4, <1>5 DEF Grows
<1>8. records' \in [Strategies -> Known \cup {NoRecord}]
  BY <1>3, <1>4 DEF Inv, Sound
<1>9. Follows(records, ledger, row, records')
  BY <1>3, <1>4, <1>5, NoRecordIsNone DEF Follows, GoesOn, Inv, Sound
<1>10. Continues(ledger', Len(ledger'))
  <2>1. /\ Len(ledger') = Len(ledger) + 1
        /\ Len(ledger) \in Nat
        /\ \A i \in 1 .. Len(ledger) : ledger'[i] = ledger[i]
        /\ ledger'[Len(ledger')] = row
    BY <1>3, <1>6, Appended DEF Inv, Sound
  <2>2. \A j \in 1 .. Len(ledger') - 1 :
          ledger'[j].id = s => ledger'[j].kind = "REJECTED" \/ ledger'[j].boot < boots
    BY <1>3, <2>1 DEF Inv, Sound
  <2> QED
    BY <1>1, <1>5, <2>1, <2>2 DEF Continues
<1> QED
  BY <1>3, <1>5, <1>6, <1>7, <1>8, <1>9, <1>10, SoundGrows, Zenon DEF Inv

LEMMA LifecycleContinues ==
  ASSUME NEW q, NEW n, NEW row, row = q[n], row.kind = "LIFECYCLE",
         NEW prev, prev = Replayed(q, row.id, n - 1), prev # NoRecord,
         row.record.version # 1,
         LegalTransition(prev.lifecycle, row.record.lifecycle),
         row.record = [prev EXCEPT !.version = @ + 1,
                                   !.lifecycle = row.record.lifecycle]
  PROVE  Continues(q, n)
BY DEF Continues

LEMMA TransitionKeeps ==
  ASSUME Inv, NEW s \in Strategies, NEW new \in Lifecycles, Transition(s, new)
  PROVE  Inv'
<1>1. PICK r : r = [records[s] EXCEPT !.version = @ + 1, !.lifecycle = new]
  OBVIOUS
<1>2. PICK row : row = Lifecycle(s, r)
  OBVIOUS
<1>3. /\ records[s] # NoRecord
      /\ LegalTransition(records[s].lifecycle, new)
      /\ ledger' = Append(ledger, row)
      /\ records' = [records EXCEPT ![s] = r]
      /\ boots' = boots
  BY <1>1, <1>2 DEF Transition, Store
<1>4. /\ records[s] \in Known
      /\ records[s].version >= 1
      /\ records[s].version \in Nat
      /\ records[s] = Replayed(ledger, s, Len(ledger))
  BY <1>3, Recorded
<1>5. /\ r \in Known
      /\ r \in Records
      /\ r.version # 1
      /\ r.lifecycle = new
  <2>1. PICK v \in Nat : v = records[s].version + 1 /\ v >= 2
    BY <1>4
  <2>2. r = [records[s] EXCEPT !.version = v, !.lifecycle = new]
    BY <1>1, <2>1
  <2>3. r \in Records /\ r.version = v /\ r.lifecycle = new
    BY <1>4, <2>2 DEF Known, Records
  <2>4. r.version >= 1 /\ r.version # 1
    BY <2>1, <2>3
  <2> QED
    BY <2>3, <2>4 DEF Known
<1>6. row.kind = "LIFECYCLE" /\ row.id = s /\ row.record = r /\ row.boot = boots
  BY <1>2 DEF Lifecycle
<1>7. row \in Rows
  BY <1>2, <1>5 DEF Lifecycle, Rows, Inv, Sound
<1>8. Grows(ledger, row)
  BY <1>5, <1>6 DEF Grows
<1>9. records' \in [Strategies -> Known \cup {NoRecord}]
  BY <1>3, <1>5 DEF Inv, Sound
<1>10. Follows(records, ledger, row, records')
  BY <1>3, <1>5, <1>6, NoRecordIsNone DEF Follows, GoesOn, Inv, Sound
<1>11. Continues(ledger', Len(ledger'))
  <2>1. /\ Len(ledger') = Len(ledger) + 1
        /\ Len(ledger) \in Nat
        /\ \A i \in 1 .. Len(ledger) : ledger'[i] = ledger[i]
        /\ ledger'[Len(ledger')] = row
    BY <1>3, <1>7, Appended DEF Inv, Sound
  <2>2. Replayed(ledger', s, Len(ledger)) = records[s]
    BY <1>4, <2>1, SameReplay
  <2>3. Len(ledger') - 1 = Len(ledger)
    BY <2>1
  <2>4. row.record = [records[s] EXCEPT !.version = @ + 1,
                                        !.lifecycle = row.record.lifecycle]
    BY <1>1, <1>5, <1>6
  <2>5. /\ row.record.version # 1
        /\ LegalTransition(records[s].lifecycle, row.record.lifecycle)
    BY <1>3, <1>5, <1>6
  <2>6. /\ records[s] = Replayed(ledger', row.id, Len(ledger') - 1)
        /\ row = ledger'[Len(ledger')]
    BY <1>6, <2>1, <2>2, <2>3
  <2>7. row.kind = "LIFECYCLE" /\ records[s] # NoRecord
    BY <1>3, <1>6
  <2> QED
    BY <2>4, <2>5, <2>6, <2>7, LifecycleContinues
<1> QED
  BY <1>3, <1>6, <1>7, <1>8, <1>9, <1>10, <1>11, SoundGrows, Zenon DEF Inv

\* A row that changes no record.
LEMMA NoteKeeps ==
  ASSUME Inv, NEW row \in Rows, row.boot = boots,
         \/ row.kind = "REJECTED"
         \/ row.kind = "RATIFIED" /\ records[row.id] # NoRecord,
         NEW q, q = Append(ledger, row)
  PROVE  Sound(records, q, boots)
<1>1. row.id \in Strategies
  BY RowFields
<1>2. row.kind = "RATIFIED" =>
        /\ records[row.id] # NoRecord
        /\ records[row.id] = Replayed(ledger, row.id, Len(ledger))
  BY <1>1, Recorded
<1>3. Grows(ledger, row)
  BY <1>2 DEF Grows
<1>4. Continues(q, Len(q))
  <2>1. q[Len(q)] = row
    BY Appended DEF Inv, Sound
  <2> QED
    BY <2>1 DEF Continues
<1>5. Follows(records, ledger, row, records)
  BY <1>2 DEF Follows, GoesOn
<1>6. records \in [Strategies -> Known \cup {NoRecord}]
  BY DEF Inv, Sound
<1>7. Sound(records, ledger, boots)
  BY DEF Inv
<1> QED
  BY <1>3, <1>4, <1>5, <1>6, <1>7, SoundGrows, Zenon

LEMMA RejectKeeps ==
  ASSUME Inv, NEW s \in Strategies, NEW new \in Values, NEW mode \in Modes,
         NEW reason \in BOOLEAN, RejectUpdate(s, new, mode, reason)
  PROVE  Inv'
<1>1. PICK code : code = UpdateCode(records[s], new, mode, reason)
  OBVIOUS
<1>2. PICK row : row = Rejected(s, code)
  OBVIOUS
<1>3. /\ code \in RejectCodes
      /\ ledger' = Append(ledger, row)
      /\ records' = records
      /\ boots' = boots
  BY <1>1, <1>2, RejectMeans DEF RejectUpdate
<1>4. row \in Rows /\ row.kind = "REJECTED" /\ row.boot = boots
  BY <1>2, <1>3 DEF Rejected, Rows, Inv, Sound
<1> QED
  BY <1>3, <1>4, NoteKeeps DEF Inv

LEMMA RatifiedRow ==
  ASSUME Inv, NEW s \in Strategies, NEW old \in Values, NEW new \in Values,
         NEW row, row = Ratified(s, old, new)
  PROVE  /\ row \in Rows
         /\ row.kind = "RATIFIED"
         /\ row.id = s
         /\ row.new = new
         /\ row.boot = boots
BY DEF Ratified, Rows, Inv, Sound

LEMMA RatifyKeeps ==
  ASSUME Inv, NEW s \in Strategies, NEW old \in Values, NEW new \in Values,
         NEW mode \in Modes, RatifyOnly(s, old, new, mode)
  PROVE  Inv'
<1>1. PICK row : row = Ratified(s, old, new)
  OBVIOUS
<1>2. /\ UpdateCode(records[s], new, mode, TRUE) = OK
      /\ ledger' = Append(ledger, row)
      /\ records' = records
      /\ boots' = boots
  BY <1>1 DEF RatifyOnly
<1>3. records[s] \in Known \cup {NoRecord}
  BY DEF Inv, Sound
<1>4. records[s] # NoRecord
  BY <1>2, <1>3, RatifyMeans
<1>5. /\ row \in Rows
      /\ row.boot = boots
      /\ row.kind = "RATIFIED" /\ records[row.id] # NoRecord
  BY <1>1, <1>4, RatifiedRow
<1>6. Sound(records, ledger', boots)
  BY <1>2, <1>5, NoteKeeps
<1> QED
  BY <1>2, <1>6 DEF Inv

\* The two rows of an update, and the records after them.
Applied(s, new, note, row) ==
  /\ ledger' = Append(Append(ledger, note), row)
  /\ boots' = boots
  /\ records[s] # NoRecord
  /\ records[s] \in Known
  /\ records[s].lifecycle = "APPROVED"
  /\ records[s].mutable
  /\ new \in Bounded
  /\ records' = [records EXCEPT ![s] =
       [records[s] EXCEPT !.version = records[s].version + 1, !.value = new]]
  /\ note \in Rows
  /\ row \in Rows
  /\ row.kind = "PARAMETER"
  /\ row.id = s
  /\ row.version = records[s].version + 1
  /\ row.old = records[s].value
  /\ row.new = new
  /\ row.boot = boots

LEMMA ApplyRows ==
  ASSUME Inv, NEW s \in Strategies, NEW old \in Values, NEW new \in Values,
         NEW mode \in Modes, ApplyUpdate(s, old, new, mode),
         NEW note, note = Ratified(s, old, new),
         NEW row, row = Parameter(s, records[s].version + 1, records[s].value, new)
  PROVE  Applied(s, new, note, row)
<1>1. records[s] \in Known \cup {NoRecord} /\ ledger \in Seq(Rows)
  BY DEF Inv, Sound
<1>2. UpdateCode(records[s], new, mode, TRUE) = OK
  BY DEF ApplyUpdate
<1>3. /\ records[s] # NoRecord
      /\ records[s].lifecycle = "APPROVED"
      /\ records[s].mutable
      /\ new \in Bounded
  BY <1>1, <1>2, RatifyMeans
<1>4. /\ records[s] \in Known
      /\ records[s].version \in Nat
      /\ records[s].value \in Values
  BY <1>3, Recorded
<1>5. /\ row.kind = "PARAMETER"
      /\ row.id = s
      /\ row.version = records[s].version + 1
      /\ row.old = records[s].value
      /\ row.new = new
      /\ row.boot = boots
  BY DEF Parameter
<1>6. note \in Rows
  BY RatifiedRow
<1>7. row \in Rows
  BY <1>4 DEF Parameter, Rows, Inv, Sound
<1>8. PICK r : r = [records[s] EXCEPT !.version = @ + 1, !.value = new]
  OBVIOUS
<1>9. r.version = records[s].version + 1
  BY <1>4, <1>8 DEF Known, Records
<1>10. /\ ledger' = ledger \o <<note, row>>
       /\ records' = [records EXCEPT ![s] = r]
       /\ boots' = boots
  BY <1>8, <1>9 DEF ApplyUpdate, Store
<1>11. ledger \o <<note, row>> = Append(Append(ledger, note), row)
  BY <1>1, <1>6, <1>7
<1>12. r = [records[s] EXCEPT !.version = records[s].version + 1, !.value = new]
  BY <1>8
<1> QED
  BY <1>3, <1>4, <1>5, <1>6, <1>7, <1>10, <1>11, <1>12 DEF Applied

LEMMA ParameterContinues ==
  ASSUME NEW q, NEW n, NEW row, row = q[n], row.kind = "PARAMETER",
         NEW prev, prev = Replayed(q, row.id, n - 1), prev # NoRecord,
         prev.lifecycle = "APPROVED", prev.mutable,
         row.version = prev.version + 1, row.old = prev.value
  PROVE  Continues(q, n)
BY DEF Continues

LEMMA ApplyKeeps ==
  ASSUME Inv, NEW s \in Strategies, NEW old \in Values, NEW new \in Values,
         NEW mode \in Modes, ApplyUpdate(s, old, new, mode)
  PROVE  Inv'
<1>1. PICK note : note = Ratified(s, old, new)
  OBVIOUS
<1>2. PICK row : row = Parameter(s, records[s].version + 1, records[s].value, new)
  OBVIOUS
<1>3. /\ ledger' = Append(Append(ledger, note), row)
      /\ boots' = boots
      /\ records[s] # NoRecord
      /\ records[s] \in Known
      /\ records[s].lifecycle = "APPROVED"
      /\ records[s].mutable
      /\ new \in Bounded
      /\ records' = [records EXCEPT ![s] =
           [records[s] EXCEPT !.version = records[s].version + 1, !.value = new]]
      /\ note \in Rows
      /\ row \in Rows
      /\ row.kind = "PARAMETER"
      /\ row.id = s
      /\ row.version = records[s].version + 1
      /\ row.old = records[s].value
      /\ row.new = new
      /\ row.boot = boots
  <2>1. Applied(s, new, note, row)
    BY <1>1, <1>2, ApplyRows
  <2> QED
    BY <2>1 DEF Applied
<1>4. PICK p : p = Append(ledger, note)
  OBVIOUS
<1>5. note.boot = boots /\ note.kind = "RATIFIED" /\ records[note.id] # NoRecord
  BY <1>1, <1>3, RatifiedRow
<1>6. Sound(records, p, boots)
  BY <1>3, <1>4, <1>5, NoteKeeps
<1>7. /\ p \in Seq(Rows)
      /\ records \in [Strategies -> Known \cup {NoRecord}]
      /\ records[s] = Replayed(p, s, Len(p))
  BY <1>3, <1>6 DEF Sound
<1>8. ledger' = Append(p, row)
  BY <1>3, <1>4
<1>9. /\ Len(ledger') = Len(p) + 1
      /\ Len(p) \in Nat
      /\ \A i \in 1 .. Len(p) : ledger'[i] = p[i]
      /\ row = ledger'[Len(ledger')]
  BY <1>3, <1>7, <1>8, Appended
<1>10. Continues(ledger', Len(ledger'))
  <2>1. Replayed(ledger', s, Len(p)) = Replayed(p, s, Len(p))
    BY <1>9, SameReplay
  <2>2. Len(ledger') - 1 = Len(p)
    BY <1>9
  <2>3. records[s] = Replayed(ledger', row.id, Len(ledger') - 1)
    BY <1>3, <1>7, <2>1, <2>2
  <2>4. /\ row = ledger'[Len(ledger')]
        /\ row.kind = "PARAMETER"
        /\ records[s] # NoRecord
        /\ records[s].lifecycle = "APPROVED"
        /\ records[s].mutable
        /\ row.version = records[s].version + 1
        /\ row.old = records[s].value
    BY <1>3, <1>9
  <2> QED
    BY <2>3, <2>4, ParameterContinues
<1>11. Grows(p, row)
  BY <1>3, <1>7 DEF Grows
<1>12. PICK r : r = [records[s] EXCEPT !.version = records[s].version + 1,
                                       !.value = new]
  OBVIOUS
<1>13. r \in Known
  <2>1. PICK v \in Nat : v = records[s].version + 1 /\ v >= 1
    BY <1>3 DEF Known, Records
  <2>2. r = [records[s] EXCEPT !.version = v, !.value = new]
    BY <1>12, <2>1
  <2>3. r \in Records /\ r.version = v
    BY <1>3, <2>2 DEF Known, Records
  <2> QED
    BY <2>1, <2>3 DEF Known
<1>14. records' = [records EXCEPT ![s] = r]
  BY <1>3, <1>12
<1>15. records' \in [Strategies -> Known \cup {NoRecord}]
  BY <1>7, <1>13, <1>14
<1>16. Follows(records, p, row, records')
  <2>1. records'[s] = r /\ r # NoRecord
    BY <1>7, <1>13, <1>14, NoRecordIsNone DEF Known
  <2>2. r = [records[s] EXCEPT !.version = row.version, !.value = row.new]
    BY <1>3, <1>12
  <2>3. GoesOn(row, s, records[s], r)
    BY <1>3, <2>2 DEF GoesOn
  <2>4. \A t \in Strategies : t # s => records'[t] = records[t]
    BY <1>7, <1>14
  <2> QED
    BY <1>3, <1>7, <2>1, <2>3, <2>4 DEF Follows
<1> QED
  BY <1>3, <1>6, <1>8, <1>10, <1>11, <1>15, <1>16, SoundGrows, Zenon DEF Inv

LEMMA BootKeeps ==
  ASSUME Inv, Boot
  PROVE  Inv'
<1>1. /\ records' = [s \in Strategies |-> NoRecord]
      /\ ledger' = ledger
      /\ boots' = boots + 1
      /\ boots \in Nat
      /\ ledger \in Seq(Rows)
      /\ ChainOK(ledger, boots)
  BY DEF Boot, Inv, Sound
<1>2. \A i \in 1 .. Len(ledger) : ledger[i].boot \in Nat
  BY <1>1, RowFields
<1>3. \A i \in 1 .. Len(ledger) : ledger[i].boot <= boots
  BY <1>1 DEF ChainOK
<1>4. \A i \in 1 .. Len(ledger) :
        ledger[i].boot < boots + 1 /\ ledger[i].boot <= boots + 1
  BY <1>1, <1>2, <1>3
<1>5. ChainOK(ledger, boots + 1)
  BY <1>1, <1>4 DEF ChainOK
<1> QED
  BY <1>1, <1>4, <1>5 DEF Inv, Sound

LEMMA ReplayKeeps ==
  ASSUME Inv, Replay
  PROVE  Inv'
<1>1. /\ records' = [s \in Strategies |-> Replayed(ledger, s, Len(ledger))]
      /\ ledger' = ledger
      /\ boots' = boots
      /\ boots \in Nat
      /\ ledger \in Seq(Rows)
      /\ ChainOK(ledger, boots)
  BY DEF Replay, Inv, Sound
<1>2. records' \in [Strategies -> Known \cup {NoRecord}]
  BY <1>1 DEF ChainOK
<1>3. ASSUME NEW s \in Strategies, records'[s] = NoRecord,
             NEW i \in 1 .. Len(ledger), ledger[i].id = s
      PROVE  ledger[i].kind = "REJECTED"
  BY <1>1, <1>3 DEF ChainOK
<1> QED
  BY <1>1, <1>2, <1>3 DEF Inv, Sound

-----------------------------------------------------------------------------
LEMMA InvInit == Init => Inv
<1> SUFFICES ASSUME Init PROVE Inv
  OBVIOUS
<1>1. ledger = <<>> /\ Len(ledger) = 0 /\ boots = 0
  BY DEF Init
<1>2. \A s : Snapshots(ledger, s, 0) = {}
  BY DEF Snapshots, RowsOf
<1>3. \A s : Replayed(ledger, s, 0) = NoRecord
  BY <1>2 DEF Replayed
<1>4. ChainOK(ledger, boots)
  BY <1>1, <1>3 DEF ChainOK
<1>5. ledger \in Seq(Rows)
  BY <1>1
<1> QED
  BY <1>1, <1>4, <1>5 DEF Init, Inv, Sound

LEMMA InvNext == Inv /\ [Next]_vars => Inv'
<1> SUFFICES ASSUME Inv, [Next]_vars PROVE Inv'
  OBVIOUS
<1>1. ASSUME NEW s \in Strategies, NEW value \in Values, NEW mutable \in BOOLEAN,
             Register(s, value, mutable)
      PROVE  Inv'
  BY <1>1, RegisterKeeps
<1>2. ASSUME NEW s \in Strategies, NEW new \in Lifecycles, Transition(s, new)
      PROVE  Inv'
  BY <1>2, TransitionKeeps
<1>3. ASSUME NEW s \in Strategies, NEW new \in Values, NEW mode \in Modes,
             NEW reason \in BOOLEAN, RejectUpdate(s, new, mode, reason)
      PROVE  Inv'
  BY <1>3, RejectKeeps
<1>4. ASSUME NEW s \in Strategies, NEW new \in Values, NEW mode \in Modes,
             NEW old \in Values, RatifyOnly(s, old, new, mode)
      PROVE  Inv'
  BY <1>4, RatifyKeeps
<1>5. ASSUME NEW s \in Strategies, NEW new \in Values, NEW mode \in Modes,
             NEW old \in Values, ApplyUpdate(s, old, new, mode)
      PROVE  Inv'
  BY <1>5, ApplyKeeps
<1>6. CASE Boot
  BY <1>6, BootKeeps
<1>7. CASE Replay
  BY <1>7, ReplayKeeps
<1>8. CASE UNCHANGED vars
  BY <1>8 DEF vars, Inv
<1> QED
  BY <1>1, <1>2, <1>3, <1>4, <1>5, <1>6, <1>7, <1>8 DEF Next

LEMMA InvAlways == Spec => []Inv
<1>1. Init => Inv
  BY InvInit
<1>2. Inv /\ [Next]_vars => Inv'
  BY InvNext
<1> QED
  BY <1>1, <1>2, PTL DEF Spec

\* Every variable keeps its type.
THEOREM TypeCorrect == Spec => []TypeOK
<1>1. Inv => TypeOK
  BY SoundMeans
<1> QED
  BY <1>1, InvAlways, PTL

\* What the registry knows of a strategy is what a replay of the ledger gives,
\* after any appends that raised and any restarts.
THEOREM ReplayGivesMemory == Spec => []MemoryIsReplay
<1>1. Inv => MemoryIsReplay
  BY SoundMeans
<1> QED
  BY <1>1, InvAlways, PTL

\* Every row goes on from the history before it.
THEOREM HistoryContinues == Spec => []ChainContinues
<1>1. Inv => ChainContinues
  BY SoundMeans
<1> QED
  BY <1>1, InvAlways, PTL

-----------------------------------------------------------------------------
(***************************************************************************)
(* EveryChangeWasRatified: only ApplyUpdate appends a PARAMETER row, and   *)
(* it appends the RATIFIED row before it.                                  *)
(***************************************************************************)
LEMMA OtherRow ==
  ASSUME Inv, EveryChangeWasRatified, NEW row \in Rows, row.kind # "PARAMETER",
         ledger' = Append(ledger, row)
  PROVE  EveryChangeWasRatified'
<1>1. /\ Len(ledger') = Len(ledger) + 1
      /\ Len(ledger) \in Nat
      /\ \A i \in 1 .. Len(ledger) : ledger'[i] = ledger[i]
      /\ row = ledger'[Len(ledger) + 1]
      /\ DOMAIN ledger = 1 .. Len(ledger)
      /\ DOMAIN ledger' = 1 .. Len(ledger) + 1
  BY Appended DEF Inv, Sound
<1> SUFFICES ASSUME NEW i \in DOMAIN ledger', ledger'[i].kind = "PARAMETER"
             PROVE  /\ ledger'[i].new \in Bounded
                    /\ i > 1
                    /\ ledger'[i - 1].kind = "RATIFIED"
                    /\ ledger'[i - 1].id = ledger'[i].id
                    /\ ledger'[i - 1].new = ledger'[i].new
                    /\ ledger'[i - 1].boot = ledger'[i].boot
  BY DEF EveryChangeWasRatified
<1>2. i \in 1 .. Len(ledger)
  BY <1>1
<1>3. ledger'[i] = ledger[i] /\ i > 1
  BY <1>1, <1>2 DEF EveryChangeWasRatified
<1>4. ledger'[i - 1] = ledger[i - 1]
  BY <1>1, <1>2, <1>3
<1> QED
  BY <1>1, <1>2, <1>3, <1>4 DEF EveryChangeWasRatified

LEMMA RatifiedFirst ==
  ASSUME Inv, EveryChangeWasRatified, NEW s \in Strategies,
         NEW old \in Values, NEW new \in Values, NEW mode \in Modes,
         ApplyUpdate(s, old, new, mode)
  PROVE  EveryChangeWasRatified'
<1>1. PICK note : note = Ratified(s, old, new)
  OBVIOUS
<1>2. PICK row : row = Parameter(s, records[s].version + 1, records[s].value, new)
  OBVIOUS
<1>3. Applied(s, new, note, row)
  BY <1>1, <1>2, ApplyRows
<1>4. PICK n \in Nat : n = Len(ledger)
  BY DEF Inv, Sound
<1>5. /\ note \in Rows
      /\ row \in Rows
      /\ ledger \in Seq(Rows)
      /\ ledger' = Append(Append(ledger, note), row)
  BY <1>3 DEF Applied, Inv, Sound
<1>6. /\ DOMAIN ledger = 1 .. n
      /\ DOMAIN ledger' = 1 .. n + 2
      /\ \A i \in 1 .. n : ledger'[i] = ledger[i]
      /\ ledger'[n + 1] = note
      /\ ledger'[n + 2] = row
  BY <1>4, <1>5
<1>7. note.kind = "RATIFIED" /\ note.id = s /\ note.new = new /\ note.boot = boots
  BY <1>1, RatifiedRow
<1>8. row.id = s /\ row.new = new /\ row.boot = boots /\ new \in Bounded
  BY <1>3 DEF Applied
<1> SUFFICES ASSUME NEW i \in DOMAIN ledger', ledger'[i].kind = "PARAMETER"
             PROVE  /\ ledger'[i].new \in Bounded
                    /\ i > 1
                    /\ ledger'[i - 1].kind = "RATIFIED"
                    /\ ledger'[i - 1].id = ledger'[i].id
                    /\ ledger'[i - 1].new = ledger'[i].new
                    /\ ledger'[i - 1].boot = ledger'[i].boot
  BY DEF EveryChangeWasRatified
<1>9. CASE i \in 1 .. n
  <2>1. ledger'[i] = ledger[i] /\ i > 1
    BY <1>6, <1>9 DEF EveryChangeWasRatified
  <2>2. ledger'[i - 1] = ledger[i - 1]
    BY <1>6, <1>9, <2>1
  <2> QED
    BY <1>6, <1>9, <2>1, <2>2 DEF EveryChangeWasRatified
<1>10. CASE i = n + 1
  BY <1>6, <1>7, <1>10
<1>11. CASE i = n + 2
  <2>1. i > 1 /\ i - 1 = n + 1
    BY <1>11
  <2> QED
    BY <1>6, <1>7, <1>8, <1>11, <2>1
<1> QED
  BY <1>6, <1>9, <1>10, <1>11

\* A parameter that changed was ratified in the row before, in the same boot,
\* and is within its bounds.
THEOREM ChangesRatified == Spec => []EveryChangeWasRatified
<1>1. Init => EveryChangeWasRatified
  BY DEF Init, EveryChangeWasRatified
<1>2. Inv /\ EveryChangeWasRatified /\ [Next]_vars => EveryChangeWasRatified'
  <2> SUFFICES ASSUME Inv, EveryChangeWasRatified, [Next]_vars
               PROVE  EveryChangeWasRatified'
    OBVIOUS
  <2>1. ASSUME NEW s \in Strategies, NEW r \in Records,
               NEW row, row = Lifecycle(s, r), ledger' = Append(ledger, row)
        PROVE  EveryChangeWasRatified'
    <3>1. row \in Rows /\ row.kind = "LIFECYCLE"
      BY <2>1 DEF Lifecycle, Rows, Inv, Sound
    <3> QED
      BY <2>1, <3>1, OtherRow
  <2>2. ASSUME NEW s \in Strategies, NEW value \in Values,
               NEW mutable \in BOOLEAN, Register(s, value, mutable)
        PROVE  EveryChangeWasRatified'
    <3>1. PICK r \in Records : ledger' = Append(ledger, Lifecycle(s, r))
      BY <2>2 DEF Register, Records, Lifecycles
    <3> QED
      BY <2>1, <3>1
  <2>3. ASSUME NEW s \in Strategies, NEW new \in Lifecycles, Transition(s, new)
        PROVE  EveryChangeWasRatified'
    <3>1. /\ records[s] \in Records
          /\ records[s].version \in Nat
      BY <2>3, Recorded DEF Transition, Known
    <3>2. PICK r : /\ r = [records[s] EXCEPT !.version = records[s].version + 1,
                                             !.lifecycle = new]
                   /\ ledger' = Append(ledger, Lifecycle(s, r))
      BY <2>3 DEF Transition
    <3>3. PICK v \in Nat : v = records[s].version + 1
      BY <3>1
    <3>4. r = [records[s] EXCEPT !.version = v, !.lifecycle = new]
      BY <3>2, <3>3
    <3>5. r \in Records
      BY <3>1, <3>4 DEF Records
    <3> QED
      BY <2>1, <3>2, <3>5
  <2>4. ASSUME NEW s \in Strategies, NEW new \in Values, NEW mode \in Modes,
               NEW reason \in BOOLEAN, RejectUpdate(s, new, mode, reason)
        PROVE  EveryChangeWasRatified'
    <3>1. PICK code \in RejectCodes : ledger' = Append(ledger, Rejected(s, code))
      BY <2>4, RejectMeans DEF RejectUpdate
    <3>2. Rejected(s, code) \in Rows /\ Rejected(s, code).kind = "REJECTED"
      BY DEF Rejected, Rows, Inv, Sound
    <3> QED
      BY <3>1, <3>2, OtherRow
  <2>5. ASSUME NEW s \in Strategies, NEW new \in Values, NEW mode \in Modes,
               NEW old \in Values, RatifyOnly(s, old, new, mode)
        PROVE  EveryChangeWasRatified'
    <3>1. PICK row : row = Ratified(s, old, new) /\ ledger' = Append(ledger, row)
      BY <2>5 DEF RatifyOnly
    <3> QED
      BY <3>1, RatifiedRow, OtherRow
  <2>6. ASSUME NEW s \in Strategies, NEW new \in Values, NEW mode \in Modes,
               NEW old \in Values, ApplyUpdate(s, old, new, mode)
        PROVE  EveryChangeWasRatified'
    BY <2>6, RatifiedFirst
  <2>7. CASE UNCHANGED ledger
    BY <2>7 DEF EveryChangeWasRatified
  <2>8. Boot \/ Replay \/ UNCHANGED vars => UNCHANGED ledger
    BY DEF Boot, Replay, vars
  <2> QED
    BY <2>2, <2>3, <2>4, <2>5, <2>6, <2>7, <2>8 DEF Next
<1> QED
  BY <1>1, <1>2, InvAlways, PTL DEF Spec
===============================================================================

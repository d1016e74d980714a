--------------------------- MODULE EventLedgerProofs ---------------------------
(***************************************************************************)
(* Proofs about EventLedger, for any number of callers, events and boots,  *)
(* any capacity and any threshold: types, the integrity of the hash chain, *)
(* that an event is recorded once, that no gap is silent, and that the     *)
(* breaker kills after an outage and only then.                            *)
(*                                                                         *)
(* The chain is intact because the cached hash of a running process is the *)
(* hash of the last committed row: an append that raises moves neither, a  *)
(* power loss keeps a prefix of the table, and a boot reads the hash back. *)
(* An event is in one place at a time: the queue, a caller's hands, the    *)
(* drain thread's, the table, or it is dropped (OnceInv).  The queue is    *)
(* what the drain thread has not taken of the events submitted, in order,  *)
(* and the breaker counts the failures since the last success (QueueInv).  *)
(***************************************************************************)
EXTENDS EventLedger, TLAPS

\* Nothing of a process that does not run is left.
DeadOK ==
  ~alive => /\ thread = "exited"
            /\ shutdown = "no"
            /\ direct = [c \in Callers |-> None]

CacheOK == alive => lastHash = HeadHash(rows)

Inv == TypeOK /\ DeadOK

ChainInv == ChainIntact /\ CacheOK
-----------------------------------------------------------------------------
\* The hash an append computes is a hash.
LEMMA HashType ==
  ASSUME NEW e \in AllEvents, NEW prev \in Seq(AllEvents)
  PROVE  /\ HashOf(e, prev) \in Seq(AllEvents)
         /\ Row(e, prev) \in Rows
BY DEF HashOf, Row, Rows

\* A committed append keeps the types of the table and of the cached hash.
LEMMA StoreAppendType ==
  ASSUME TypeOK, NEW e \in AllEvents, StoreAppend(e)
  PROVE  rows' \in Seq(Rows) /\ lastHash' \in Seq(AllEvents)
<1>1. lastHash \in Seq(AllEvents) /\ rows \in Seq(Rows)
  BY DEF TypeOK
<1>2. HashOf(e, lastHash) \in Seq(AllEvents) /\ Row(e, lastHash) \in Rows
  BY <1>1, HashType
<1> QED
  BY <1>1, <1>2 DEF StoreAppend

\* The hash a boot reads from the table is a hash.
LEMMA HeadHashType ==
  ASSUME NEW s \in Seq(Rows)
  PROVE  HeadHash(s) \in Seq(AllEvents)
<1>1. CASE s = <<>>
  BY <1>1 DEF HeadHash, GENESIS
<1>2. CASE s # <<>>
  <2>1. Len(s) \in 1 .. Len(s)
    BY <1>2
  <2>2. s[Len(s)] \in Rows
    BY <2>1
  <2>3. s[Len(s)].event_hash \in Seq(AllEvents)
    BY <2>2 DEF Rows
  <2> QED
    BY <1>2, <2>3 DEF HeadHash
<1> QED
  BY <1>1, <1>2

\* What is left of the memory has the right types.
LEMMA VanishType ==
  ASSUME Vanish
  PROVE  /\ lastHash' \in Seq(AllEvents)
         /\ queue' \in Seq(Events) /\ Len(queue') <= Capacity
         /\ thread' = "exited" /\ hand' = None
         /\ direct' \in [Callers -> Events \cup {None}]
         /\ stopping' \in BOOLEAN
         /\ failures' \in Nat /\ failures' < FailThreshold
         /\ shutdown' = "no" /\ alive' = FALSE
         /\ accepted' \in Seq(Events)
         /\ DeadOK'
<1>1. Len(<<>>) = 0 /\ Capacity \in Nat /\ FailThreshold \in Nat \ {0}
  BY LedgerConstantsOK
<1>2. /\ lastHash' \in Seq(AllEvents)
      /\ queue' \in Seq(Events) /\ Len(queue') <= Capacity
      /\ accepted' \in Seq(Events)
  BY <1>1 DEF Vanish, GENESIS
<1>3. DeadOK'
  BY DEF Vanish, DeadOK
<1>4. direct' \in [Callers -> Events \cup {None}]
  BY DEF Vanish
<1>5. failures' \in Nat /\ failures' < FailThreshold
  BY <1>1 DEF Vanish
<1>6. stopping' \in BOOLEAN /\ alive' = FALSE
  BY DEF Vanish
<1>7. thread' = "exited" /\ hand' = None /\ shutdown' = "no"
  BY DEF Vanish
<1> QED
  BY <1>2, <1>3, <1>4, <1>5, <1>6, <1>7
-----------------------------------------------------------------------------
\* Every step keeps every variable in its type, and leaves nothing in the
\* memory of a process that has ended.
LEMMA InvInductive ==
  ASSUME Inv, [Next]_vars
  PROVE  Inv'
<1> USE LedgerConstantsOK DEF Inv
<1>e. Events \subseteq AllEvents /\ ShutdownComplete \in AllEvents
  BY DEF AllEvents
<1>1. ASSUME NEW c \in Callers, NEW e \in Events, Write(c, e)
      PROVE  Inv'
  BY <1>1 DEF Write, MaySubmit, TypeOK, DeadOK
<1>2. ASSUME NEW c \in Callers, NEW e \in Events, TakeForItself(c, e)
      PROVE  Inv'
  BY <1>2 DEF TakeForItself, MaySubmit, TypeOK, DeadOK
<1>3. ASSUME NEW c \in Callers, AppendReturns(c)
      PROVE  Inv'
  <2>1. direct[c] \in AllEvents
    BY <1>3, <1>e DEF AppendReturns, TypeOK
  <2>2. rows' \in Seq(Rows) /\ lastHash' \in Seq(AllEvents)
    BY <1>3, <2>1, StoreAppendType DEF AppendReturns
  <2> QED
    BY <1>3, <2>2 DEF AppendReturns, history, TypeOK, DeadOK
<1>4. ASSUME NEW c \in Callers, AppendRaises(c)
      PROVE  Inv'
  BY <1>4 DEF AppendRaises, history, TypeOK, DeadOK
<1>5. CASE CheckStop
  BY <1>5 DEF CheckStop, history, TypeOK, DeadOK
<1>6. CASE GetTimesOut
  BY <1>6 DEF GetTimesOut, history, TypeOK, DeadOK
<1>7. CASE Get
  BY <1>7 DEF Get, history, TypeOK, DeadOK
<1>8. CASE JobReturns
  <2>1. hand \in AllEvents
    BY <1>8, <1>e DEF JobReturns, TypeOK
  <2>2. rows' \in Seq(Rows) /\ lastHash' \in Seq(AllEvents)
    BY <1>8, <2>1, StoreAppendType DEF JobReturns, JobDone
  <2> QED
    BY <1>8, <2>2 DEF JobReturns, JobDone, history, TypeOK, DeadOK
<1>9. CASE JobRaises
  <2>1. failures' \in Nat /\ failures' < FailThreshold
    BY <1>9 DEF JobRaises, JobForgotten, TypeOK
  <2> QED
    BY <1>9, <2>1 DEF JobRaises, JobForgotten, TypeOK, DeadOK
<1>10. CASE BreakerKills
  <2>1. hand \in Events
    BY <1>10 DEF BreakerKills, TypeOK
  <2> QED
    BY <1>10, <2>1, VanishType DEF BreakerKills, TypeOK
<1>11. CASE StopWriter
  BY <1>11 DEF StopWriter, history, TypeOK, DeadOK
<1>12. CASE RecordShutdown
  <2>1. rows' \in Seq(Rows) /\ lastHash' \in Seq(AllEvents)
    <3>1. CASE StoreAppend(ShutdownComplete)
      BY <3>1, <1>e, StoreAppendType
    <3>2. CASE UNCHANGED <<rows, lastHash>>
      BY <3>2 DEF TypeOK
    <3> QED
      BY <1>12, <3>1, <3>2 DEF RecordShutdown
  <2> QED
    BY <1>12, <2>1 DEF RecordShutdown, history, TypeOK, DeadOK
<1>13. CASE Exit
  BY <1>13, VanishType DEF Exit, TypeOK
<1>14. ASSUME NEW k \in 0 .. Len(rows), PowerLoss(k)
       PROVE  Inv'
  <2>1. rows' \in Seq(Rows)
    BY <1>14 DEF PowerLoss, TypeOK
  <2> QED
    BY <1>14, <2>1, VanishType DEF PowerLoss, TypeOK
<1>15. CASE Boot
  <2>1. lastHash' \in Seq(AllEvents)
    BY <1>15, HeadHashType DEF Boot, TypeOK
  <2> QED
    BY <1>15, <2>1 DEF Boot, history, TypeOK, DeadOK
<1>16. CASE UNCHANGED vars
  BY <1>16 DEF vars, memory, TypeOK, DeadOK
<1> QED
  BY <1>1, <1>2, <1>3, <1>4, <1>5, <1>6, <1>7, <1>8, <1>9, <1>10, <1>11,
     <1>12, <1>13, <1>14, <1>15, <1>16
  DEF Next, WriterThread, WriteFull, AppendEvent

LEMMA InvInit == Init => Inv
<1> SUFFICES ASSUME Init
             PROVE  Inv
  OBVIOUS
<1>1. Len(<<>>) = 0 /\ Capacity \in Nat /\ FailThreshold \in Nat \ {0}
  BY LedgerConstantsOK
<1>2. lastHash \in Seq(AllEvents) /\ rows \in Seq(Rows)
  BY DEF Init, HeadHash, GENESIS
<1>3. queue \in Seq(Events) /\ Len(queue) <= Capacity /\ accepted \in Seq(Events)
  BY <1>1 DEF Init
<1>4. stopping \in BOOLEAN /\ alive \in BOOLEAN /\ DeadOK
  BY DEF Init, DeadOK
<1>5. direct \in [Callers -> Events \cup {None}]
  BY DEF Init
<1>6. failures \in Nat /\ failures < FailThreshold /\ boots \in Nat
  BY <1>1 DEF Init
<1>7. /\ submitted \subseteq Events /\ dropped \subseteq Events
      /\ thread = "looping" /\ hand = None /\ shutdown = "no"
  BY DEF Init
<1> QED
  BY <1>2, <1>3, <1>4, <1>5, <1>6, <1>7 DEF Inv, TypeOK

\* TypeOK: every variable of the writer, the store and the shutdown sequence
\* keeps its type, the queue its bound and the failure counter its threshold.
THEOREM LedgerTypeCorrect == Spec => []TypeOK
<1>1. Inv => TypeOK
  BY DEF Inv
<1> QED
  BY InvInit, InvInductive, <1>1, PTL DEF Spec
-----------------------------------------------------------------------------
\* A committed append extends an intact chain, and the cached hash follows.
LEMMA StoreAppendChain ==
  ASSUME TypeOK, ChainIntact, lastHash = HeadHash(rows),
         NEW e \in AllEvents, StoreAppend(e)
  PROVE  ChainIntact' /\ lastHash' = HeadHash(rows)'
<1> DEFINE n == Len(rows)
           r == Row(e, lastHash)
<1>1. rows \in Seq(Rows) /\ n \in Nat /\ rows' = Append(rows, r)
  BY DEF StoreAppend, TypeOK
<1>2. /\ Len(rows') = n + 1
      /\ rows' # <<>>
      /\ rows'[n + 1] = r
      /\ \A i \in 1 .. n : rows'[i] = rows[i]
  BY <1>1
<1>3. /\ r.event = e
      /\ r.prev_hash = lastHash
      /\ r.event_hash = HashOf(e, lastHash)
  BY DEF Row
<1>4. lastHash' = HeadHash(rows)'
  BY <1>2, <1>3 DEF StoreAppend, HeadHash
<1>5. lastHash = IF n + 1 = 1 THEN GENESIS ELSE rows[n].event_hash
  BY <1>1 DEF HeadHash
<1>6. ASSUME NEW i \in 1 .. n + 1
      PROVE  /\ rows'[i].prev_hash = IF i = 1 THEN GENESIS
                                     ELSE rows'[i - 1].event_hash
             /\ rows'[i].event_hash = HashOf(rows'[i].event, rows'[i].prev_hash)
  <2>1. CASE i = n + 1
    <3>1. n > 0 => rows'[n] = rows[n]
      BY <1>1, <1>2
    <3> QED
      BY <2>1, <3>1, <1>1, <1>2, <1>3, <1>5
  <2>2. CASE i \in 1 .. n
    <3>1. rows'[i] = rows[i] /\ (i # 1 => rows'[i - 1] = rows[i - 1])
      BY <2>2, <1>1, <1>2
    <3> QED
      BY <2>2, <3>1 DEF ChainIntact
  <2> QED
    BY <2>1, <2>2, <1>1
<1> QED
  BY <1>2, <1>4, <1>6 DEF ChainIntact

\* Every step keeps the chain intact and the cached hash that of the last row.
LEMMA ChainInductive ==
  ASSUME Inv, ChainInv, [Next]_vars
  PROVE  ChainInv'
<1> USE DEF Inv, ChainInv
<1>1. ASSUME NEW e \in AllEvents, alive, alive' = alive, StoreAppend(e)
      PROVE  ChainInv'
  BY <1>1, StoreAppendChain DEF CacheOK
<1>2. ASSUME UNCHANGED <<rows, lastHash>>, alive' => alive
      PROVE  ChainInv'
  BY <1>2 DEF CacheOK, ChainIntact
<1>3. ASSUME UNCHANGED rows, Vanish
      PROVE  ChainInv'
  BY <1>3 DEF Vanish, CacheOK, ChainIntact
<1>4. ASSUME NEW c \in Callers, AppendReturns(c)
      PROVE  ChainInv'
  <2>1. direct[c] \in AllEvents
    BY <1>4 DEF AppendReturns, TypeOK, AllEvents
  <2> QED
    BY <1>4, <2>1, <1>1 DEF AppendReturns
<1>5. CASE JobReturns
  <2>1. hand \in AllEvents /\ alive
    BY <1>5 DEF JobReturns, TypeOK, DeadOK, AllEvents
  <2>2. alive' = alive /\ StoreAppend(hand)
    BY <1>5 DEF JobReturns, JobDone
  <2> QED
    BY <2>1, <2>2, <1>1
<1>6. CASE RecordShutdown
  <2>1. ShutdownComplete \in AllEvents /\ alive
    BY <1>6 DEF RecordShutdown, DeadOK, AllEvents
  <2>2. /\ alive' = alive
        /\ StoreAppend(ShutdownComplete) \/ UNCHANGED <<rows, lastHash>>
    BY <1>6 DEF RecordShutdown
  <2> QED
    BY <2>1, <2>2, <1>1, <1>2
<1>7. ASSUME NEW k \in 0 .. Len(rows), PowerLoss(k)
      PROVE  ChainInv'
  <2>1. rows \in Seq(Rows) /\ rows' = SubSeq(rows, 1, k) /\ ~alive'
    BY <1>7 DEF PowerLoss, Vanish, TypeOK
  <2>2. Len(rows') = k /\ \A i \in 1 .. k : rows'[i] = rows[i]
    BY <2>1
  <2>3. ASSUME NEW i \in 1 .. k
        PROVE  /\ rows'[i].prev_hash = IF i = 1 THEN GENESIS
                                       ELSE rows'[i - 1].event_hash
               /\ rows'[i].event_hash =
                    HashOf(rows'[i].event, rows'[i].prev_hash)
    <3>1. k <= Len(rows) /\ Len(rows) \in Nat /\ k \in Nat
      BY <2>1
    <3>2. i \in 1 .. Len(rows) /\ (i # 1 => i - 1 \in 1 .. k)
      BY <3>1
    <3>3. rows'[i] = rows[i] /\ (i # 1 => rows'[i - 1] = rows[i - 1])
      BY <2>2, <3>2
    <3> QED
      BY <3>2, <3>3 DEF ChainIntact
  <2>4. ChainIntact'
    BY <2>2, <2>3 DEF ChainIntact
  <2> QED
    BY <2>1, <2>4 DEF CacheOK
<1>8. CASE Boot
  BY <1>8 DEF Boot, CacheOK, ChainIntact, HeadHash
<1>9. ASSUME NEW c \in Callers, NEW e \in Events,
             Write(c, e) \/ TakeForItself(c, e)
      PROVE  ChainInv'
  BY <1>9, <1>2 DEF Write, TakeForItself
<1>10. CASE CheckStop \/ GetTimesOut \/ Get \/ JobRaises \/ StopWriter
  BY <1>10, <1>2
  DEF CheckStop, GetTimesOut, Get, JobRaises, JobForgotten, StopWriter
<1>11. CASE BreakerKills \/ Exit
  BY <1>11, <1>3 DEF BreakerKills, Exit
<1>12. ASSUME NEW c \in Callers, AppendRaises(c)
       PROVE  ChainInv'
  BY <1>12, <1>2 DEF AppendRaises
<1>13. CASE UNCHANGED vars
  BY <1>13, <1>2 DEF vars, memory
<1> QED
  BY <1>4, <1>5, <1>6, <1>7, <1>8, <1>9, <1>10, <1>11, <1>12, <1>13
  DEF Next, WriterThread, WriteFull, AppendEvent

LEMMA ChainInit == Init => ChainInv
BY DEF Init, ChainInv, ChainIntact, CacheOK

\* ChainIntact: verify_chain succeeds in every reachable state, whatever the
\* interleaving of the writers, the appends that raise, the crashes and the
\* power losses.
THEOREM ChainCorrect == Spec => []ChainIntact
<1>1. Init => Inv /\ ChainInv
  BY InvInit, ChainInit
<1>2. Inv /\ ChainInv /\ [Next]_vars => (Inv /\ ChainInv)'
  BY InvInductive, ChainInductive
<1>3. Inv /\ ChainInv => ChainIntact
  BY DEF ChainInv
<1> QED
  BY <1>1, <1>2, <1>3, PTL DEF Spec
-----------------------------------------------------------------------------
(***************************************************************************)
(* RecordedOnce.  An event is handed over once, and from then on it is in  *)
(* one place: with a caller, in the queue, in the thread's hand or in the  *)
(* table; a dropped one is in none of them.                                *)
(***************************************************************************)
Recorded == [i \in 1 .. Len(rows) |-> rows[i].event]

Holds(s, e)  == \E i \in 1 .. Len(s) : s[i] = e

Single(s, e) == \A i, j \in 1 .. Len(s) : s[i] = e /\ s[j] = e => i = j

InDirect(e)  == \E c \in Callers : direct[c] = e

OnceAt(e) ==
  /\ \/ Holds(Recorded, e) \/ Holds(queue, e) \/ InDirect(e)
     \/ hand = e \/ e \in dropped
     => e \in submitted
  /\ Holds(Recorded, e) =>
       ~Holds(queue, e) /\ ~InDirect(e) /\ hand # e /\ e \notin dropped
  /\ Holds(queue, e) => ~InDirect(e) /\ hand # e /\ e \notin dropped
  /\ InDirect(e) => hand # e /\ e \notin dropped
  /\ hand = e => e \notin dropped
  /\ Single(Recorded, e)
  /\ Single(queue, e)
  /\ \A c, d \in Callers : direct[c] = e /\ direct[d] = e => c = d

OnceInv == \A e \in Events : OnceAt(e)

\* One more element of a sequence.
LEMMA OneMore ==
  ASSUME NEW S, NEW s \in Seq(S), NEW x \in S
  PROVE  /\ \A e : Holds(Append(s, x), e) <=> Holds(s, e) \/ e = x
         /\ \A e : Single(s, e) /\ (e = x => ~Holds(s, e))
                     => Single(Append(s, x), e)
<1> DEFINE t == Append(s, x)
           n == Len(s)
<1>1. /\ n \in Nat /\ Len(t) = n + 1 /\ t[n + 1] = x
      /\ \A i \in 1 .. n : t[i] = s[i]
  OBVIOUS
<1>2. \A i : i \in 1 .. Len(t) <=> i \in 1 .. n \/ i = n + 1
  BY <1>1
<1> HIDE DEF t
<1>3. ASSUME NEW e PROVE Holds(t, e) <=> Holds(s, e) \/ e = x
  BY <1>1, <1>2 DEF Holds
<1>4. ASSUME NEW e, Single(s, e), e = x => ~Holds(s, e)
      PROVE  Single(t, e)
  BY <1>1, <1>2, <1>4 DEF Holds, Single
<1> QED
  BY <1>3, <1>4 DEF t

\* The first element taken off a sequence.
LEMMA FirstOff ==
  ASSUME NEW S, NEW s \in Seq(S), s # <<>>
  PROVE  /\ \A e : Holds(Tail(s), e) => Holds(s, e)
         /\ \A e : Single(s, e) => Single(Tail(s), e)
         /\ Holds(s, Head(s))
         /\ Single(s, Head(s)) => ~Holds(Tail(s), Head(s))
<1> DEFINE t == Tail(s)
           n == Len(s)
<1>1. /\ n \in Nat /\ n >= 1 /\ Len(t) = n - 1 /\ Head(s) = s[1]
      /\ \A i \in 1 .. n - 1 : t[i] = s[i + 1]
  OBVIOUS
<1>2. \A i \in 1 .. Len(t) : i + 1 \in 1 .. n /\ i + 1 # 1 /\ t[i] = s[i + 1]
  BY <1>1
<1> HIDE DEF t
<1>3. ASSUME NEW e, Holds(t, e) PROVE Holds(s, e)
  BY <1>2, <1>3 DEF Holds
<1>4. ASSUME NEW e, Single(s, e) PROVE Single(t, e)
  <2> SUFFICES ASSUME NEW i \in 1 .. Len(t), NEW j \in 1 .. Len(t),
                      t[i] = e, t[j] = e
               PROVE  i = j
    BY DEF Single
  <2>1. i + 1 = j + 1
    BY <1>2, <1>4 DEF Single
  <2> QED
    BY <1>1, <2>1
<1>5. Holds(s, Head(s))
  BY <1>1 DEF Holds
<1>6. ASSUME Single(s, Head(s)), Holds(t, Head(s)) PROVE FALSE
  <2>1. PICK i \in 1 .. Len(t) : t[i] = Head(s)
    BY <1>6 DEF Holds
  <2>2. i + 1 = 1
    BY <1>1, <1>2, <1>6, <2>1 DEF Single
  <2> QED
    BY <1>2, <2>2
<1> QED
  BY <1>3, <1>4, <1>5, <1>6 DEF t

\* A prefix of a sequence.
LEMMA Shorter ==
  ASSUME NEW S, NEW s \in Seq(S), NEW k \in 0 .. Len(s)
  PROVE  /\ \A e : Holds(SubSeq(s, 1, k), e) => Holds(s, e)
         /\ \A e : Single(s, e) => Single(SubSeq(s, 1, k), e)
<1> DEFINE t == SubSeq(s, 1, k)
<1>1. Len(t) = k /\ \A i \in 1 .. k : t[i] = s[i] /\ i \in 1 .. Len(s)
  OBVIOUS
<1> HIDE DEF t
<1>2. \A e : Holds(t, e) => Holds(s, e)
  BY <1>1 DEF Holds
<1>3. \A e : Single(s, e) => Single(t, e)
  BY <1>1 DEF Single
<1> QED
  BY <1>2, <1>3 DEF t

\* The recorded events are a sequence of their own.
LEMMA RecordedType ==
  ASSUME TypeOK
  PROVE  Recorded \in Seq(AllEvents) /\ Len(Recorded) = Len(rows)
<1>1. rows \in Seq(Rows) /\ Len(rows) \in Nat
  BY DEF TypeOK
<1>2. ASSUME NEW i \in 1 .. Len(rows) PROVE rows[i].event \in AllEvents
  <2>1. rows[i] \in Rows
    BY <1>1
  <2> QED
    BY <2>1 DEF Rows
<1> QED
  BY <1>1, <1>2 DEF Recorded

\* A committed append records one event more.
LEMMA RecordedGrows ==
  ASSUME TypeOK, NEW e, StoreAppend(e)
  PROVE  Recorded' = Append(Recorded, e)
<1> DEFINE r == Row(e, lastHash)
<1>1. rows \in Seq(Rows) /\ rows' = Append(rows, r) /\ r.event = e
  BY DEF TypeOK, StoreAppend, Row
<1>2. /\ Len(rows) \in Nat /\ Len(rows') = Len(rows) + 1
      /\ rows'[Len(rows) + 1] = r
      /\ \A i \in 1 .. Len(rows) : rows'[i] = rows[i]
  BY <1>1
<1>3. Recorded' = [i \in 1 .. Len(rows) + 1 |-> rows'[i].event]
  BY <1>2 DEF Recorded
<1>4. Append(Recorded, e) =
        [i \in 1 .. Len(rows) + 1 |->
           IF i = Len(rows) + 1 THEN e ELSE rows[i].event]
  BY <1>2, RecordedType DEF Recorded
<1> HIDE DEF r
<1>5. \A i \in 1 .. Len(rows) + 1 :
        rows'[i].event = IF i = Len(rows) + 1 THEN e ELSE rows[i].event
  BY <1>1, <1>2
<1> QED
  BY <1>3, <1>4, <1>5

\* What RecordedOnce says of one event.
LEMMA OnceGivesPlaces ==
  ASSUME TypeOK, OnceInv
  PROVE  RecordedOnce
<1> SUFFICES ASSUME NEW e \in Events
             PROVE  /\ \A p, q \in Places(e) : p = q
                    /\ e \in dropped => Places(e) = {}
  BY DEF RecordedOnce
<1> DEFINE R == {<<"rows", i>>   : i \in {j \in 1 .. Len(rows) : rows[j].event = e}}
           Q == {<<"queue", i>>  : i \in {j \in 1 .. Len(queue) : queue[j] = e}}
           D == {<<"direct", c>> : c \in {d \in Callers : direct[d] = e}}
           H == {<<"hand", 1>>   : i \in {j \in {1} : hand = e}}
<1>1. Places(e) = R \cup Q \cup D \cup H
  BY DEF Places
<1>2. OnceAt(e)
  BY DEF OnceInv
<1>3. Len(Recorded) = Len(rows)
  BY RecordedType
<1>4. R # {} => Holds(Recorded, e)
  BY <1>3 DEF Recorded, Holds
<1>5. Q # {} => Holds(queue, e)
  BY DEF Holds
<1>6. D # {} => InDirect(e)
  BY DEF InDirect
<1>7. H # {} => hand = e
  OBVIOUS
<1>8. \A p, q \in R : p = q
  BY <1>2, <1>3 DEF OnceAt, Single, Recorded
<1>9. \A p, q \in Q : p = q
  BY <1>2 DEF OnceAt, Single
<1>10. \A p, q \in D : p = q
  BY <1>2 DEF OnceAt
<1>11. \A p, q \in H : p = q
  OBVIOUS
<1>12. /\ R # {} => Q = {} /\ D = {} /\ H = {} /\ e \notin dropped
       /\ Q # {} => D = {} /\ H = {} /\ e \notin dropped
       /\ D # {} => H = {} /\ e \notin dropped
       /\ H # {} => e \notin dropped
  BY <1>2, <1>4, <1>5, <1>6, <1>7 DEF OnceAt
<1> HIDE DEF R, Q, D, H
<1> QED
  BY <1>1, <1>8, <1>9, <1>10, <1>11, <1>12

\* An event that was never handed over is nowhere.
LEMMA FreshIsNowhere ==
  ASSUME OnceInv, NEW e \in Events \ submitted
  PROVE  /\ ~Holds(Recorded, e) /\ ~Holds(queue, e) /\ ~InDirect(e)
         /\ hand # e /\ e \notin dropped
BY DEF OnceInv, OnceAt

\* The process ends: what it held is gone, the table keeps a prefix.
LEMMA OnceSurvivesEnd ==
  ASSUME OnceInv, Vanish, submitted' = submitted,
         \A e \in Events : Holds(Recorded', e) => Holds(Recorded, e),
         \A e \in Events : Single(Recorded, e) => Single(Recorded', e),
         \/ dropped' = dropped
         \/ dropped' = dropped \cup {hand}
  PROVE  OnceInv'
<1> SUFFICES ASSUME NEW e \in Events PROVE OnceAt(e)'
  BY DEF OnceInv
<1>1. OnceAt(e)
  BY DEF OnceInv
<1>2. ~Holds(queue', e) /\ Single(queue', e)
  BY DEF Vanish, Holds, Single
<1>3. e # None
  BY LedgerConstantsOK
<1>4. /\ \A c \in Callers : direct'[c] # e
      /\ hand' # e
  BY <1>3 DEF Vanish
<1>5. Holds(Recorded', e) => e \notin dropped'
  BY <1>1 DEF OnceAt
<1>6. Holds(Recorded', e) \/ e \in dropped' => e \in submitted'
  BY <1>1 DEF OnceAt
<1> QED
  BY <1>1, <1>2, <1>4, <1>5, <1>6 DEF OnceAt, InDirect

\* Every step moves an event from one place to the next.
LEMMA OncePreserved ==
  ASSUME Inv, OnceInv, [Next]_vars
  PROVE  OnceInv'
<1> USE LedgerConstantsOK DEF Inv
<1>t. /\ queue \in Seq(Events) /\ Recorded \in Seq(AllEvents)
      /\ direct \in [Callers -> Events \cup {None}]
      /\ hand \in Events \cup {None}
  BY RecordedType DEF TypeOK
<1>r. ASSUME UNCHANGED rows PROVE Recorded' = Recorded
  BY <1>r DEF Recorded
<1>1. ASSUME NEW c \in Callers, NEW e \in Events, Write(c, e)
      PROVE  OnceInv'
  <2>1. /\ Recorded' = Recorded /\ queue' = Append(queue, e)
        /\ UNCHANGED <<hand, direct, dropped>>
        /\ submitted' = submitted \cup {e} /\ e \in Events \ submitted
    BY <1>1, <1>r DEF Write, MaySubmit
  <2>2. /\ \A x : Holds(queue', x) <=> Holds(queue, x) \/ x = e
        /\ \A x : Single(queue, x) /\ (x = e => ~Holds(queue, x))
                    => Single(queue', x)
    BY <1>t, <2>1, OneMore
  <2> QED
    BY <2>1, <2>2, FreshIsNowhere DEF OnceInv, OnceAt, InDirect
<1>2. ASSUME NEW c \in Callers, NEW e \in Events, TakeForItself(c, e)
      PROVE  OnceInv'
  <2>1. /\ Recorded' = Recorded /\ direct' = [direct EXCEPT ![c] = e]
        /\ UNCHANGED <<hand, queue, dropped>>
        /\ submitted' = submitted \cup {e} /\ e \in Events \ submitted
    BY <1>2, <1>r DEF TakeForItself, MaySubmit
  <2>2. \A d \in Callers : direct'[d] = IF d = c THEN e ELSE direct[d]
    BY <1>t, <2>1
  <2>3. ~InDirect(e)
    BY <2>1, FreshIsNowhere
  <2> QED
    BY <2>1, <2>2, <2>3, FreshIsNowhere DEF OnceInv, OnceAt, InDirect
<1>3. ASSUME NEW c \in Callers, AppendReturns(c)
      PROVE  OnceInv'
  <2> DEFINE e == direct[c]
  <2>1. /\ e \in Events /\ direct' = [direct EXCEPT ![c] = None]
        /\ UNCHANGED <<hand, queue, dropped, submitted>>
        /\ Recorded' = Append(Recorded, e)
    BY <1>3, <1>t, RecordedGrows DEF AppendReturns, history
  <2>2. \A d \in Callers : direct'[d] = IF d = c THEN None ELSE direct[d]
    BY <1>t, <2>1
  <2>3. InDirect(e) /\ None \notin Events /\ e \in AllEvents
    BY <2>1 DEF InDirect, AllEvents
  <2>4. /\ \A x : Holds(Recorded', x) <=> Holds(Recorded, x) \/ x = e
        /\ \A x : Single(Recorded, x) /\ (x = e => ~Holds(Recorded, x))
                    => Single(Recorded', x)
    BY <1>t, <2>1, <2>3, OneMore
  <2>5. ASSUME NEW x \in Events PROVE OnceAt(x)'
    <3>1. OnceAt(x) /\ OnceAt(e)
      BY <2>1 DEF OnceInv
    <3>2. InDirect(x)' => InDirect(x) /\ x # e
      BY <2>2, <2>3, <3>1 DEF InDirect, OnceAt
    <3>3. \A a, b \in Callers : direct'[a] = x /\ direct'[b] = x => a = b
      BY <2>2, <2>3, <3>1 DEF OnceAt
    <3> HIDE DEF e
    <3> QED
      BY <2>1, <2>3, <2>4, <3>1, <3>2, <3>3 DEF OnceAt
  <2> QED
    BY <2>5 DEF OnceInv
<1>4. ASSUME NEW c \in Callers, AppendRaises(c)
      PROVE  OnceInv'
  <2>1. /\ Recorded' = Recorded /\ direct' = [direct EXCEPT ![c] = None]
        /\ UNCHANGED <<hand, queue, dropped, submitted>>
    BY <1>4, <1>r DEF AppendRaises, history
  <2>2. \A d \in Callers : direct'[d] \in {None, direct[d]}
    BY <1>t, <2>1
  <2> QED
    BY <2>1, <2>2 DEF OnceInv, OnceAt, InDirect
<1>5. CASE Get
  <2>1. /\ Recorded' = Recorded /\ queue # <<>> /\ queue' = Tail(queue)
        /\ hand' = Head(queue) /\ hand = None
        /\ UNCHANGED <<direct, dropped, submitted>>
    BY <1>5, <1>r DEF Get, history, TypeOK
  <2>2. Head(queue) \in Events
    BY <1>t, <2>1
  <2>3. /\ \A e : Holds(queue', e) => Holds(queue, e)
        /\ \A e : Single(queue, e) => Single(queue', e)
        /\ Holds(queue, hand')
        /\ Single(queue, hand') => ~Holds(queue', hand')
    BY <1>t, <2>1, FirstOff
  <2> QED
    BY <2>1, <2>2, <2>3 DEF OnceInv, OnceAt, InDirect
<1>6. CASE JobReturns
  <2>1. /\ hand \in Events /\ hand' = None
        /\ UNCHANGED <<direct, queue, dropped, submitted>>
        /\ Recorded' = Append(Recorded, hand)
    BY <1>6, <1>t, RecordedGrows DEF JobReturns, JobDone, history, TypeOK
  <2>2. /\ \A x : Holds(Recorded', x) <=> Holds(Recorded, x) \/ x = hand
        /\ \A x : Single(Recorded, x) /\ (x = hand => ~Holds(Recorded, x))
                    => Single(Recorded', x)
    BY <1>t, <2>1, OneMore DEF AllEvents
  <2> QED
    BY <2>1, <2>2 DEF OnceInv, OnceAt, InDirect
<1>7. CASE JobRaises
  <2>1. /\ hand \in Events /\ hand' = None /\ Recorded' = Recorded
        /\ UNCHANGED <<direct, queue, submitted>>
        /\ dropped' = dropped \cup {hand}
    BY <1>7, <1>t, <1>r DEF JobRaises, JobForgotten, TypeOK
  <2> QED
    BY <2>1 DEF OnceInv, OnceAt, InDirect
<1>8. CASE RecordShutdown
  <2>1. UNCHANGED <<hand, direct, queue, dropped, submitted>>
    BY <1>8 DEF RecordShutdown, history
  <2>2. CASE StoreAppend(ShutdownComplete)
    <3>1. Recorded' = Append(Recorded, ShutdownComplete)
      BY <2>2, RecordedGrows
    <3>2. ShutdownComplete \in AllEvents /\ ShutdownComplete \notin Events
      BY DEF AllEvents
    <3>3. \A e \in Events : /\ Holds(Recorded', e) <=> Holds(Recorded, e)
                            /\ Single(Recorded, e) => Single(Recorded', e)
      BY <1>t, <3>1, <3>2, OneMore
    <3> QED
      BY <2>1, <3>3 DEF OnceInv, OnceAt, InDirect
  <2>3. CASE UNCHANGED rows
    BY <1>r, <2>1, <2>3 DEF OnceInv, OnceAt, InDirect
  <2> QED
    BY <1>8, <2>2, <2>3 DEF RecordShutdown
<1>9. CASE BreakerKills \/ Exit
  BY <1>9, <1>r, OnceSurvivesEnd DEF BreakerKills, Exit
<1>10. ASSUME NEW k \in 0 .. Len(rows), PowerLoss(k)
       PROVE  OnceInv'
  <2>1. Recorded' = SubSeq(Recorded, 1, k)
    <3>1. /\ rows \in Seq(Rows) /\ rows' = SubSeq(rows, 1, k)
          /\ Len(Recorded) = Len(rows)
      BY <1>10, RecordedType DEF PowerLoss, TypeOK
    <3>2. Len(rows') = k /\ \A i \in 1 .. k : rows'[i] = rows[i]
      BY <3>1
    <3>3. SubSeq(Recorded, 1, k) = [i \in 1 .. k |-> Recorded[i]]
      BY <1>t, <3>1
    <3> QED
      BY <3>2, <3>3 DEF Recorded
  <2>2. /\ \A e : Holds(Recorded', e) => Holds(Recorded, e)
        /\ \A e : Single(Recorded, e) => Single(Recorded', e)
    BY <1>t, <2>1, Shorter, RecordedType
  <2> QED
    BY <1>10, <2>2, OnceSurvivesEnd DEF PowerLoss
<1>11. ASSUME UNCHANGED <<rows, queue, direct, hand, dropped, submitted>>
       PROVE  OnceInv'
  BY <1>11, <1>r DEF OnceInv, OnceAt, InDirect
<1>12. CASE CheckStop \/ GetTimesOut \/ StopWriter \/ Boot \/ UNCHANGED vars
  BY <1>11, <1>12
  DEF CheckStop, GetTimesOut, StopWriter, Boot, vars, memory, history
<1> QED
  BY <1>1, <1>2, <1>3, <1>4, <1>5, <1>6, <1>7, <1>8, <1>9, <1>10, <1>12
  DEF Next, WriterThread, WriteFull, AppendEvent

LEMMA OnceInit == Init => OnceInv
<1> SUFFICES ASSUME Init, NEW e \in Events PROVE OnceAt(e)
  BY DEF OnceInv
<1>1. Len(<<>>) = 0 /\ 1 .. 0 = {} /\ e # None
  BY LedgerConstantsOK
<1>2. Recorded = <<>> /\ queue = <<>> /\ hand = None
  BY <1>1 DEF Init, Recorded
<1>3. \A c \in Callers : direct[c] # e
  BY <1>1 DEF Init
<1>4. dropped = {}
  BY DEF Init
<1> QED
  BY <1>1, <1>2, <1>3, <1>4 DEF OnceAt, Holds, Single, InDirect

\* RecordedOnce: whichever of its two paths an event takes, and wherever the
\* process stops, it is recorded at most once, and never after it was dropped.
THEOREM RecordedAtMostOnce == Spec => []RecordedOnce
<1>1. Init => Inv /\ OnceInv
  BY InvInit, OnceInit
<1>2. Inv /\ OnceInv /\ [Next]_vars => (Inv /\ OnceInv)'
  BY InvInductive, OncePreserved
<1>3. Inv /\ OnceInv => RecordedOnce
  BY OnceGivesPlaces DEF Inv
<1> QED
  BY <1>1, <1>2, <1>3, PTL DEF Spec
-----------------------------------------------------------------------------
(***************************************************************************)
(* NoSilentGap, OutageKills and OnlyAnOutageKills.  The queue is the end   *)
(* of what was accepted, the thread's hand the event before it, and every  *)
(* event before that is recorded or dropped; the breaker counts the drops  *)
(* at the end of these.                                                    *)
(***************************************************************************)
Settled == IF hand = None THEN Taken ELSE Taken - 1

IsSettled(e) == e \in dropped \/ Holds(Recorded, e)

\* What is not taken yet is the queue, in order; what is taken is settled but
\* for the event in hand.
QueueIsRest ==
  /\ Taken \in 0 .. Len(accepted)
  /\ \A k \in 1 .. Len(queue) : queue[k] = accepted[Taken + k]
  /\ hand # None => Taken >= 1 /\ hand = accepted[Taken]
  /\ \A i \in 1 .. Settled : IsSettled(accepted[i])
  /\ \A i \in 1 .. Len(accepted) : accepted[i] \in submitted

\* NoSilentGap, over the recorded events.
InOrder ==
  \A i, j \in 1 .. Len(accepted) : \A n \in 1 .. Len(Recorded) :
    i < j /\ Recorded[n] = accepted[j] =>
      \/ accepted[i] \in dropped
      \/ \E m \in 1 .. n - 1 : Recorded[m] = accepted[i]

\* The breaker's counter is the length of the current run of drops.
CountsDrops ==
  /\ failures <= Settled
  /\ \A j \in Settled - failures + 1 .. Settled : accepted[j] \in dropped
  /\ failures < Settled => accepted[Settled - failures] \notin dropped

\* No run of drops has reached the threshold.
RunsAreShort ==
  \A i \in 1 .. Settled :
    i + FailThreshold - 1 <= Settled =>
      \E j \in i .. i + FailThreshold - 1 : accepted[j] \notin dropped

QueueInv == QueueIsRest /\ InOrder /\ CountsDrops /\ RunsAreShort

LEMMA OrderOfRows == TypeOK => (NoSilentGap <=> InOrder)
<1> SUFFICES ASSUME TypeOK PROVE NoSilentGap <=> InOrder
  OBVIOUS
<1>1. Len(rows) \in Nat /\ Len(Recorded) = Len(rows)
  BY RecordedType DEF TypeOK
<1>2. \A n \in 1 .. Len(rows) : Recorded[n] = rows[n].event
  BY DEF Recorded
<1>3. \A n \in 1 .. Len(rows) : \A m \in 1 .. n - 1 : m \in 1 .. Len(rows)
  BY <1>1
<1> QED
  BY <1>1, <1>2, <1>3 DEF NoSilentGap, InOrder

\* The numbers and sequences the arguments below are about.
LEMMA QueueTypes ==
  ASSUME TypeOK, QueueIsRest
  PROVE  /\ accepted \in Seq(Events) /\ queue \in Seq(Events)
         /\ Len(accepted) \in Nat /\ Len(queue) \in Nat
         /\ Taken = Len(accepted) - Len(queue)
         /\ Taken \in Nat /\ Settled \in Nat /\ Settled <= Taken
         /\ hand = None => Settled = Taken
         /\ hand # None => Settled = Taken - 1
         /\ failures \in Nat /\ FailThreshold \in Nat \ {0}
         /\ failures < FailThreshold
         /\ Recorded \in Seq(AllEvents) /\ Len(Recorded) \in Nat
<1>1. Recorded \in Seq(AllEvents)
  BY RecordedType
<1> QED
  BY <1>1, LedgerConstantsOK DEF TypeOK, QueueIsRest, Taken, Settled

\* An accepted event is settled exactly when its turn has passed.
LEMMA SettledIsPassed ==
  ASSUME TypeOK, OnceInv, QueueIsRest, NEW i \in 1 .. Len(accepted)
  PROVE  /\ i \in 1 .. Settled \/ accepted[i] = hand \/ Holds(queue, accepted[i])
         /\ IsSettled(accepted[i]) <=> i \in 1 .. Settled
         /\ \A c \in Callers : accepted[i] # direct[c]
<1>1. accepted[i] \in Events /\ OnceAt(accepted[i])
  BY QueueTypes DEF OnceInv
<1>2. i > Taken => Holds(queue, accepted[i])
  <2> SUFFICES ASSUME i > Taken PROVE Holds(queue, accepted[i])
    OBVIOUS
  <2>1. i - Taken \in 1 .. Len(queue) /\ Taken + (i - Taken) = i
    BY QueueTypes
  <2> QED
    BY <2>1 DEF Holds, QueueIsRest
<1>3. i = Taken /\ hand # None => accepted[i] = hand
  BY DEF QueueIsRest
<1>4. i \in 1 .. Settled \/ i > Taken \/ (i = Taken /\ hand # None)
  BY QueueTypes
<1>5. i \in 1 .. Settled => IsSettled(accepted[i])
  BY DEF QueueIsRest
<1>6. IsSettled(accepted[i]) => accepted[i] # hand /\ ~Holds(queue, accepted[i])
  BY <1>1 DEF OnceAt, IsSettled
<1>7. ASSUME NEW c \in Callers, accepted[i] = direct[c] PROVE FALSE
  <2>1. InDirect(accepted[i])
    BY <1>7 DEF InDirect
  <2> QED
    BY <1>1, <1>2, <1>3, <1>4, <1>5, <2>1 DEF OnceAt, IsSettled
<1> QED
  BY <1>2, <1>3, <1>4, <1>5, <1>6, <1>7

\* What the runs check follows: an event whose turn has not passed is not
\* dropped, so a run of drops lies among the settled events.
LEMMA ShortRunsKill ==
  ASSUME TypeOK, OnceInv, QueueInv
  PROVE  OutageKills
<1> SUFFICES ASSUME NEW i \in 1 .. Len(accepted),
                    i + FailThreshold - 1 <= Len(accepted)
             PROVE  \E j \in i .. i + FailThreshold - 1 : accepted[j] \notin dropped
  BY DEF OutageKills
<1> DEFINE last == i + FailThreshold - 1
<1>1. last \in 1 .. Len(accepted) /\ last \in i .. last /\ i <= last
  BY QueueTypes DEF QueueInv
<1>2. CASE last <= Settled
  BY <1>1, <1>2, QueueTypes DEF QueueInv, RunsAreShort
<1>3. CASE ~(last <= Settled)
  <2>1. ~IsSettled(accepted[last])
    BY <1>1, <1>3, SettledIsPassed DEF QueueInv
  <2> QED
    BY <1>1, <2>1 DEF IsSettled
<1> QED
  BY <1>2, <1>3

\* One event more in the table: what was accepted before it must be settled.
LEMMA RecordInOrder ==
  ASSUME TypeOK, InOrder, NEW x \in AllEvents,
         Recorded' = Append(Recorded, x),
         accepted' = accepted, dropped \subseteq dropped',
         \A j \in 1 .. Len(accepted) :
           accepted[j] = x => \A i \in 1 .. j - 1 : IsSettled(accepted[i])
  PROVE  InOrder'
<1>1. /\ Recorded \in Seq(AllEvents) /\ Len(Recorded) \in Nat
      /\ Len(accepted) \in Nat
  BY RecordedType DEF TypeOK
<1>2. /\ Len(Recorded') = Len(Recorded) + 1
      /\ Recorded'[Len(Recorded) + 1] = x
      /\ \A n \in 1 .. Len(Recorded) : Recorded'[n] = Recorded[n]
  BY <1>1
<1> SUFFICES ASSUME NEW i \in 1 .. Len(accepted), NEW j \in 1 .. Len(accepted),
                    NEW n \in 1 .. Len(Recorded'),
                    i < j, Recorded'[n] = accepted[j]
             PROVE  \/ accepted[i] \in dropped'
                    \/ \E m \in 1 .. n - 1 : Recorded'[m] = accepted[i]
  BY DEF InOrder
<1>3. CASE n \in 1 .. Len(Recorded)
  <2>1. \/ accepted[i] \in dropped
        \/ \E m \in 1 .. n - 1 : Recorded[m] = accepted[i]
    BY <1>2, <1>3 DEF InOrder
  <2>2. \A m \in 1 .. n - 1 : m \in 1 .. Len(Recorded)
    BY <1>1, <1>3
  <2> QED
    BY <1>2, <2>1, <2>2
<1>4. CASE n = Len(Recorded) + 1
  <2>1. accepted[j] = x /\ i \in 1 .. j - 1
    BY <1>1, <1>2, <1>4
  <2>2. IsSettled(accepted[i])
    BY <2>1
  <2>3. n - 1 = Len(Recorded)
    BY <1>1, <1>4
  <2> QED
    BY <1>2, <2>2, <2>3 DEF IsSettled, Holds
<1> QED
  BY <1>1, <1>2, <1>3, <1>4

\* Steps that leave the queue's part alone and record nothing that was accepted.
LEMMA QueueStands ==
  ASSUME TypeOK, OnceInv, QueueInv,
         UNCHANGED <<accepted, queue, hand, dropped, failures>>,
         submitted \subseteq submitted',
         \/ Recorded' = Recorded
         \/ \E x \in AllEvents :
              /\ Recorded' = Append(Recorded, x)
              /\ \A j \in 1 .. Len(accepted) : accepted[j] # x
  PROVE  QueueInv'
<1> USE DEF QueueInv
<1>1. Taken' = Taken /\ Settled' = Settled
  BY DEF Taken, Settled
<1>2. \A e : Holds(Recorded, e) => Holds(Recorded', e)
  <2>1. ASSUME NEW x \in AllEvents, Recorded' = Append(Recorded, x)
        PROVE  \A e : Holds(Recorded, e) => Holds(Recorded', e)
    BY <2>1, RecordedType, OneMore
  <2> QED
    BY <2>1
<1>3. QueueIsRest'
  BY <1>1, <1>2 DEF QueueIsRest, IsSettled
<1>4. InOrder'
  <2>1. CASE Recorded' = Recorded
    BY <2>1 DEF InOrder
  <2>2. CASE \E x \in AllEvents :
               /\ Recorded' = Append(Recorded, x)
               /\ \A j \in 1 .. Len(accepted) : accepted[j] # x
    BY <2>2, RecordInOrder
  <2> QED
    BY <2>1, <2>2
<1>5. CountsDrops'
  BY <1>1 DEF CountsDrops
<1>6. RunsAreShort'
  BY <1>1 DEF RunsAreShort
<1> QED
  BY <1>3, <1>4, <1>5, <1>6

\* A caller's event joins the queue and what was accepted at their ends.
LEMMA QueueAccepts ==
  ASSUME Inv, OnceInv, QueueInv,
         NEW c \in Callers, NEW e \in Events, Write(c, e)
  PROVE  QueueInv'
<1> USE DEF Inv, QueueInv
<1> DEFINE n == Len(accepted)
           k == Len(queue)
<1>1. /\ queue' = Append(queue, e) /\ accepted' = Append(accepted, e)
      /\ UNCHANGED <<rows, hand, dropped, failures>>
      /\ submitted' = submitted \cup {e} /\ e \in Events \ submitted
  BY DEF Write, MaySubmit
<1>2. /\ n \in Nat /\ k \in Nat
      /\ Len(accepted') = n + 1 /\ Len(queue') = k + 1
      /\ accepted'[n + 1] = e /\ queue'[k + 1] = e
      /\ \A i \in 1 .. n : accepted'[i] = accepted[i]
      /\ \A i \in 1 .. k : queue'[i] = queue[i]
  BY <1>1, QueueTypes
<1>3. Recorded' = Recorded
  BY <1>1 DEF Recorded
<1>4. Taken' = Taken /\ Settled' = Settled /\ Taken = n - k /\ Taken \in 0 .. n
  BY <1>1, <1>2, QueueTypes DEF Taken, Settled
<1>5. \A i \in 1 .. Settled : i \in 1 .. n
  BY <1>2, <1>4, QueueTypes
<1> HIDE DEF n, k
<1>6. QueueIsRest'
  <2>1. Taken' \in 0 .. Len(accepted')
    BY <1>2, <1>4
  <2>2. ASSUME NEW i \in 1 .. Len(queue')
        PROVE  queue'[i] = accepted'[Taken' + i]
    <3>1. CASE i = k + 1
      BY <3>1, <1>2, <1>4
    <3>2. CASE i \in 1 .. k
      <4>1. Taken + i \in 1 .. n
        BY <3>2, <1>2, <1>4
      <4> QED
        BY <3>2, <4>1, <1>2, <1>4 DEF QueueIsRest, k
    <3> QED
      BY <3>1, <3>2, <1>2
  <2>3. hand' # None => Taken' >= 1 /\ hand' = accepted'[Taken']
    BY <1>1, <1>2, <1>4 DEF QueueIsRest
  <2>4. ASSUME NEW i \in 1 .. Settled'
        PROVE  accepted'[i] \in dropped' \/ Holds(Recorded', accepted'[i])
    BY <1>1, <1>2, <1>3, <1>4, <1>5 DEF QueueIsRest, IsSettled
  <2>5. ASSUME NEW i \in 1 .. Len(accepted') PROVE accepted'[i] \in submitted'
    <3>1. i = n + 1 \/ i \in 1 .. n
      BY <1>2
    <3> QED
      BY <3>1, <1>1, <1>2 DEF QueueIsRest, n
  <2> QED
    BY <2>1, <2>2, <2>3, <2>4, <2>5 DEF QueueIsRest, IsSettled
<1>7. InOrder'
  <2> SUFFICES ASSUME NEW i \in 1 .. Len(accepted'),
                      NEW j \in 1 .. Len(accepted'),
                      NEW m \in 1 .. Len(Recorded'),
                      i < j, Recorded'[m] = accepted'[j]
               PROVE  \/ accepted'[i] \in dropped'
                      \/ \E l \in 1 .. m - 1 : Recorded'[l] = accepted'[i]
    BY DEF InOrder
  <2>1. j # n + 1
    <3>1. ~Holds(Recorded, e)
      BY <1>1, FreshIsNowhere
    <3> QED
      BY <3>1, <1>2, <1>3 DEF Holds
  <2>2. i \in 1 .. n /\ j \in 1 .. n
    BY <2>1, <1>2
  <2> QED
    BY <2>2, <1>1, <1>2, <1>3 DEF InOrder, n
<1>8. CountsDrops'
  <2>0. /\ failures \in Nat /\ Settled \in Nat /\ failures <= Settled
        /\ Settled <= n
    BY <1>2, <1>4, QueueTypes DEF CountsDrops
  <2>1. \A j \in Settled - failures + 1 .. Settled : j \in 1 .. n
    BY <1>2, <2>0
  <2>2. failures < Settled => Settled - failures \in 1 .. n
    BY <1>2, <2>0
  <2> QED
    BY <2>1, <2>2, <1>1, <1>2, <1>4 DEF CountsDrops
<1>9. RunsAreShort'
  <2>1. \A i \in 1 .. Settled :
          i + FailThreshold - 1 <= Settled =>
            \A j \in i .. i + FailThreshold - 1 : j \in 1 .. n
    BY <1>2, <1>4, QueueTypes
  <2> QED
    BY <2>1, <1>1, <1>2, <1>4 DEF RunsAreShort
<1> QED
  BY <1>6, <1>7, <1>8, <1>9

\* The thread takes the first event of the queue in its hand.
LEMMA QueueGives ==
  ASSUME Inv, OnceInv, QueueInv, Get
  PROVE  QueueInv'
<1> USE DEF Inv, QueueInv
<1>1. /\ queue # <<>> /\ queue' = Tail(queue) /\ hand' = Head(queue)
      /\ hand = None
      /\ UNCHANGED <<rows, accepted, dropped, failures, submitted>>
  BY DEF Get, history, TypeOK
<1>2. /\ Len(queue) \in Nat /\ Len(queue) >= 1
      /\ Len(queue') = Len(queue) - 1
      /\ hand' = queue[1] /\ hand' # None
      /\ \A i \in 1 .. Len(queue') : queue'[i] = queue[i + 1]
  <2>1. queue[1] \in Events
    BY <1>1, QueueTypes
  <2> QED
    BY <1>1, <2>1, QueueTypes, LedgerConstantsOK
<1>3. Recorded' = Recorded
  BY <1>1 DEF Recorded
<1>4. Taken' = Taken + 1 /\ Settled' = Settled /\ Taken + 1 <= Len(accepted)
  BY <1>1, <1>2, QueueTypes DEF Taken, Settled
<1>5. QueueIsRest'
  <2>1. hand' = accepted[Taken + 1]
    BY <1>2 DEF QueueIsRest
  <2>2. ASSUME NEW i \in 1 .. Len(queue')
        PROVE  queue'[i] = accepted[Taken + 1 + i]
    <3>1. i + 1 \in 1 .. Len(queue)
      BY <1>2
    <3>2. queue[i + 1] = accepted[Taken + (i + 1)]
      BY <3>1 DEF QueueIsRest
    <3>3. Taken + (i + 1) = Taken + 1 + i
      BY <3>1, QueueTypes
    <3> QED
      BY <1>2, <3>2, <3>3
  <2>3. Taken' \in 0 .. Len(accepted) /\ Taken' >= 1
    BY <1>4, QueueTypes
  <2> QED
    BY <1>1, <1>3, <1>4, <2>1, <2>2, <2>3 DEF QueueIsRest, IsSettled
<1>6. InOrder' /\ CountsDrops' /\ RunsAreShort'
  BY <1>1, <1>3, <1>4 DEF InOrder, CountsDrops, RunsAreShort
<1> QED
  BY <1>5, <1>6

\* The thread's hand is emptied: its event is recorded or dropped, and the
\* counter follows.
LEMMA HandSettles ==
  ASSUME Inv, OnceInv, QueueInv, hand # None,
         UNCHANGED <<accepted, queue, submitted>>, hand' = None,
         dropped \subseteq dropped', dropped' \subseteq dropped \cup {hand},
         \A e : Holds(Recorded, e) => Holds(Recorded', e),
         hand \in dropped' \/ Holds(Recorded', hand),
         \/ failures' = 0 /\ hand \notin dropped'
         \/ /\ failures' = failures + 1 /\ failures' < FailThreshold
            /\ hand \in dropped'
  PROVE  QueueIsRest' /\ CountsDrops' /\ RunsAreShort'
<1> USE DEF Inv, QueueInv
<1> DEFINE s == Settled
<1>1. /\ Taken' = Taken /\ Settled' = s + 1 /\ Taken = s + 1 /\ s \in Nat
      /\ hand = accepted[s + 1] /\ s + 1 <= Len(accepted)
  BY QueueTypes DEF Taken, Settled, QueueIsRest
\* What was dropped before is dropped still, and nothing else up to s.
<1>2. ASSUME NEW i \in 1 .. s
      PROVE  /\ IsSettled(accepted[i])
             /\ accepted[i] \in dropped' <=> accepted[i] \in dropped
  <2>1. IsSettled(accepted[i]) /\ hand \in Events
    BY DEF QueueIsRest, TypeOK
  <2>2. accepted[i] # hand
    BY <2>1 DEF OnceInv, OnceAt, IsSettled
  <2> QED
    BY <2>1, <2>2
<1> HIDE DEF s
<1>3. QueueIsRest'
  <2>1. ASSUME NEW i \in 1 .. Settled'
        PROVE  accepted[i] \in dropped' \/ Holds(Recorded', accepted[i])
    <3>1. CASE i \in 1 .. s
      BY <1>2, <3>1 DEF IsSettled
    <3>2. CASE i = s + 1
      BY <1>1, <3>2
    <3> QED
      BY <1>1, <3>1, <3>2
  <2> QED
    BY <1>1, <2>1 DEF QueueIsRest, IsSettled
<1>4. CASE failures' = 0 /\ hand \notin dropped'
  <2>1. CountsDrops'
    BY <1>1, <1>4 DEF CountsDrops
  <2>2. ASSUME NEW i \in 1 .. s + 1, i + FailThreshold - 1 <= s + 1
        PROVE  \E j \in i .. i + FailThreshold - 1 : accepted[j] \notin dropped'
    <3>1. CASE i + FailThreshold - 1 = s + 1
      <4>1. s + 1 \in i .. i + FailThreshold - 1
        BY <3>1, <1>1
      <4> QED
        BY <4>1, <1>1, <1>4
    <3>2. CASE i + FailThreshold - 1 <= s
      <4>1. i \in 1 .. s /\ \A j \in i .. i + FailThreshold - 1 : j \in 1 .. s
        BY <3>2, <1>1, QueueTypes
      <4> QED
        BY <3>2, <4>1, <1>2 DEF RunsAreShort, s
    <3>3. i + FailThreshold - 1 <= s \/ i + FailThreshold - 1 = s + 1
      BY <2>2, <1>1, QueueTypes
    <3> QED
      BY <3>1, <3>2, <3>3
  <2> QED
    BY <1>1, <1>3, <2>1, <2>2 DEF RunsAreShort
<1>5. CASE /\ failures' = failures + 1 /\ failures' < FailThreshold
           /\ hand \in dropped'
  <2>1. failures \in Nat /\ failures <= s
    BY QueueTypes DEF CountsDrops, s
  <2>2. /\ \A j \in s - failures + 1 .. s : accepted[j] \in dropped
        /\ failures < s => accepted[s - failures] \notin dropped
    BY DEF CountsDrops, s
  <2>3. CountsDrops'
    <3>1. ASSUME NEW j \in s - failures + 1 .. s + 1
          PROVE  accepted[j] \in dropped'
      <4>1. j = s + 1 \/ j \in s - failures + 1 .. s
        BY <1>1, <2>1
      <4> QED
        BY <4>1, <1>1, <1>5, <2>2
    <3>2. failures < s => accepted[s - failures] \notin dropped'
      <4>1. failures < s => s - failures \in 1 .. s
        BY <1>1, <2>1
      <4> QED
        BY <4>1, <1>2, <2>2
    <3>3. (s + 1) - (failures + 1) = s - failures
      BY <1>1, <2>1
    <3> QED
      BY <1>1, <1>5, <2>1, <3>1, <3>2, <3>3 DEF CountsDrops
  <2>4. ASSUME NEW i \in 1 .. s + 1, i + FailThreshold - 1 <= s + 1
        PROVE  \E j \in i .. i + FailThreshold - 1 : accepted[j] \notin dropped'
    <3>1. CASE i + FailThreshold - 1 = s + 1
      <4>1. /\ s - failures \in i .. i + FailThreshold - 1
            /\ failures < s /\ s - failures \in 1 .. s
        BY <3>1, <1>1, <1>5, <2>1, QueueTypes
      <4> QED
        BY <4>1, <1>2, <2>2
    <3>2. CASE i + FailThreshold - 1 <= s
      <4>1. i \in 1 .. s /\ \A j \in i .. i + FailThreshold - 1 : j \in 1 .. s
        BY <3>2, <1>1, QueueTypes
      <4> QED
        BY <3>2, <4>1, <1>2 DEF RunsAreShort, s
    <3>3. i + FailThreshold - 1 <= s \/ i + FailThreshold - 1 = s + 1
      BY <2>4, <1>1, QueueTypes
    <3> QED
      BY <3>1, <3>2, <3>3
  <2> QED
    BY <1>1, <1>3, <2>3, <2>4 DEF RunsAreShort
<1> QED
  BY <1>4, <1>5

\* A process that ends forgets what it accepted.
LEMMA QueueVanishes ==
  ASSUME Vanish
  PROVE  QueueInv'
<1>1. /\ accepted' = <<>> /\ queue' = <<>> /\ hand' = None /\ failures' = 0
      /\ Len(<<>>) = 0 /\ 1 .. 0 = {}
  BY DEF Vanish
<1>2. Taken' = 0 /\ Settled' = 0
  BY <1>1 DEF Taken, Settled
<1> QED
  BY <1>1, <1>2
  DEF QueueInv, QueueIsRest, InOrder, CountsDrops, RunsAreShort

LEMMA QueuePreserved ==
  ASSUME Inv, OnceInv, QueueInv, [Next]_vars
  PROVE  QueueInv'
<1> USE DEF Inv
<1>r. ASSUME UNCHANGED rows PROVE Recorded' = Recorded
  BY <1>r DEF Recorded
<1>1. ASSUME NEW c \in Callers, NEW e \in Events, Write(c, e)
      PROVE  QueueInv'
  BY <1>1, QueueAccepts
<1>2. ASSUME NEW c \in Callers, AppendReturns(c)
      PROVE  QueueInv'
  <2>1. /\ Recorded' = Append(Recorded, direct[c])
        /\ direct[c] \in AllEvents
        /\ UNCHANGED <<accepted, queue, hand, dropped, failures, submitted>>
    BY <1>2, RecordedGrows DEF AppendReturns, history, TypeOK, AllEvents
  <2>2. \A j \in 1 .. Len(accepted) : accepted[j] # direct[c]
    BY SettledIsPassed DEF QueueInv
  <2> QED
    BY <2>1, <2>2, QueueStands
<1>3. CASE Get
  BY <1>3, QueueGives
<1>4. CASE JobReturns
  <2>1. /\ Recorded' = Append(Recorded, hand) /\ hand' = None
        /\ hand \in Events /\ hand # None /\ hand \in AllEvents
        /\ UNCHANGED <<accepted, queue, dropped, submitted>> /\ failures' = 0
    BY <1>4, RecordedGrows, LedgerConstantsOK
    DEF JobReturns, JobDone, history, TypeOK, AllEvents
  <2>2. \A e : Holds(Recorded', e) <=> Holds(Recorded, e) \/ e = hand
    BY <2>1, RecordedType, OneMore
  <2>3. hand \notin dropped'
    BY <2>1 DEF OnceInv, OnceAt
  <2>4. Holds(Recorded', hand)
    BY <2>1, <2>2
  <2>5. QueueIsRest' /\ CountsDrops' /\ RunsAreShort'
    BY <2>1, <2>2, <2>3, <2>4, HandSettles
  <2>6. ASSUME NEW j \in 1 .. Len(accepted), accepted[j] = hand,
               NEW i \in 1 .. j - 1
        PROVE  IsSettled(accepted[i])
    <3>1. j <= Taken
      <4>1. ~Holds(queue, hand)
        BY <2>1 DEF OnceInv, OnceAt
      <4>2. j > Taken => queue[j - Taken] = accepted[j] /\ j - Taken \in 1 .. Len(queue)
        <5>1. j > Taken => j - Taken \in 1 .. Len(queue) /\ Taken + (j - Taken) = j
          BY QueueTypes DEF QueueInv
        <5> QED
          BY <5>1 DEF QueueInv, QueueIsRest
      <4> QED
        BY <4>1, <4>2, <2>6, QueueTypes DEF Holds, QueueInv
    <3>2. i \in 1 .. Settled
      BY <2>1, <3>1, QueueTypes DEF QueueInv
    <3> QED
      BY <3>2 DEF QueueInv, QueueIsRest
  <2>7. InOrder'
    BY <2>1, <2>6, RecordInOrder DEF QueueInv
  <2> QED
    BY <2>5, <2>7 DEF QueueInv
<1>5. CASE JobRaises
  <2>1. /\ Recorded' = Recorded /\ hand' = None /\ hand # None
        /\ UNCHANGED <<accepted, queue, submitted>>
        /\ dropped' = dropped \cup {hand}
        /\ failures' = failures + 1 /\ failures' < FailThreshold
    BY <1>5, <1>r DEF JobRaises, JobForgotten, TypeOK
  <2>2. QueueIsRest' /\ CountsDrops' /\ RunsAreShort'
    BY <2>1, HandSettles
  <2>3. InOrder'
    BY <2>1 DEF QueueInv, InOrder
  <2> QED
    BY <2>2, <2>3 DEF QueueInv
<1>6. CASE RecordShutdown
  <2>1. UNCHANGED <<accepted, queue, hand, dropped, failures, submitted>>
    BY <1>6 DEF RecordShutdown, history
  <2>2. CASE StoreAppend(ShutdownComplete)
    <3>1. Recorded' = Append(Recorded, ShutdownComplete)
      BY <2>2, RecordedGrows
    <3>2. ShutdownComplete \in AllEvents
      BY DEF AllEvents
    <3>3. \A j \in 1 .. Len(accepted) : accepted[j] # ShutdownComplete
      BY QueueTypes, LedgerConstantsOK DEF QueueInv
    <3> QED
      BY <2>1, <3>1, <3>2, <3>3, QueueStands
  <2>3. CASE UNCHANGED rows
    BY <1>r, <2>1, <2>3, QueueStands
  <2> QED
    BY <1>6, <2>2, <2>3 DEF RecordShutdown
<1>7. ASSUME \/ BreakerKills \/ Exit
             \/ \E k \in 0 .. Len(rows) : PowerLoss(k)
      PROVE  QueueInv'
  BY <1>7, QueueVanishes DEF BreakerKills, Exit, PowerLoss
<1>8. ASSUME UNCHANGED <<rows, accepted, queue, hand, dropped, failures>>,
             submitted \subseteq submitted'
      PROVE  QueueInv'
  BY <1>8, <1>r, QueueStands
<1>9. ASSUME NEW c \in Callers, NEW e \in Events, TakeForItself(c, e)
      PROVE  QueueInv'
  BY <1>8, <1>9 DEF TakeForItself
<1>10. ASSUME NEW c \in Callers, AppendRaises(c)
       PROVE  QueueInv'
  BY <1>8, <1>10 DEF AppendRaises, history
<1>11. CASE CheckStop \/ GetTimesOut \/ StopWriter \/ Boot \/ UNCHANGED vars
  BY <1>8, <1>11
  DEF CheckStop, GetTimesOut, StopWriter, Boot, vars, memory, history
<1> QED
  BY <1>1, <1>2, <1>3, <1>4, <1>5, <1>6, <1>7, <1>9, <1>10, <1>11
  DEF Next, WriterThread, WriteFull, AppendEvent

LEMMA QueueInit == Init => QueueInv
<1> SUFFICES ASSUME Init PROVE QueueInv
  OBVIOUS
<1>1. /\ accepted = <<>> /\ queue = <<>> /\ hand = None /\ failures = 0
      /\ Len(<<>>) = 0 /\ 1 .. 0 = {}
  BY DEF Init
<1>2. Taken = 0 /\ Settled = 0
  BY <1>1 DEF Taken, Settled
<1> QED
  BY <1>1, <1>2
  DEF QueueInv, QueueIsRest, InOrder, CountsDrops, RunsAreShort

FullInv == Inv /\ OnceInv /\ QueueInv

LEMMA AlwaysFull == Spec => []FullInv
<1>1. Init => FullInv
  BY InvInit, OnceInit, QueueInit DEF FullInv
<1>2. FullInv /\ [Next]_vars => FullInv'
  BY InvInductive, OncePreserved, QueuePreserved DEF FullInv
<1> QED
  BY <1>1, <1>2, PTL DEF Spec

\* NoSilentGap: queued events reach the table in the order they were accepted,
\* and none is skipped but those whose own append raised.
THEOREM NoGapIsSilent == Spec => []NoSilentGap
<1>1. FullInv => NoSilentGap
  BY OrderOfRows DEF FullInv, Inv, QueueInv
<1> QED
  BY AlwaysFull, <1>1, PTL

\* OutageKills: no process lives on after FailThreshold queued events in a row
\* were dropped.
THEOREM OutagesKill == Spec => []OutageKills
<1>1. FullInv => OutageKills
  BY ShortRunsKill DEF FullInv, Inv
<1> QED
  BY AlwaysFull, <1>1, PTL

\* OnlyAnOutageKills: when the breaker ends the process, the last
\* FailThreshold events taken from the queue were all dropped; the appends
\* of callers that raise do not count.
THEOREM OnlyOutagesKill == Spec => OnlyAnOutageKills
<1> DEFINE Fires == ~alive' /\ dropped' # dropped =>
                      /\ Taken >= FailThreshold
                      /\ \A j \in Taken - FailThreshold + 1 .. Taken :
                           accepted[j] \in dropped'
<1>1. ASSUME FullInv, [Next]_vars PROVE Fires
  <2> SUFFICES ASSUME ~alive', dropped' # dropped
               PROVE  /\ Taken >= FailThreshold
                      /\ \A j \in Taken - FailThreshold + 1 .. Taken :
                           accepted[j] \in dropped'
    OBVIOUS
  <2> USE <1>1 DEF FullInv, Inv, QueueInv
  <2>1. BreakerKills
    <3>1. ~JobRaises
      BY DEF JobRaises, JobForgotten, TypeOK, DeadOK
    <3> QED
      BY <3>1 DEF Next, WriterThread, Write, WriteFull, AppendEvent,
         TakeForItself, AppendReturns, AppendRaises, CheckStop, GetTimesOut,
         Get, JobReturns, JobDone, StopWriter, RecordShutdown, Exit, PowerLoss,
         Boot, vars, history
  <2>2. /\ hand # None /\ dropped' = dropped \cup {hand}
        /\ failures + 1 >= FailThreshold
    BY <2>1 DEF BreakerKills, TypeOK
  <2>3. /\ Taken = Settled + 1 /\ hand = accepted[Taken]
        /\ failures <= Settled
        /\ \A j \in Settled - failures + 1 .. Settled : accepted[j] \in dropped
    BY <2>2, QueueTypes DEF QueueIsRest, CountsDrops
  <2>4. ASSUME NEW j \in Taken - FailThreshold + 1 .. Taken
        PROVE  accepted[j] \in dropped'
    <3>0. /\ failures \in Nat /\ Settled \in Nat /\ FailThreshold \in Nat
          /\ failures + 1 >= FailThreshold /\ Taken = Settled + 1
      BY <2>2, <2>3, QueueTypes
    <3>1. j = Taken \/ j \in Settled - failures + 1 .. Settled
      BY <3>0
    <3> QED
      BY <3>1, <2>2, <2>3
  <2> QED
    BY <2>2, <2>3, <2>4, QueueTypes
<1>2. FullInv /\ [Next]_vars => [Fires]_vars
  BY <1>1
<1> QED
  BY AlwaysFull, <1>2, PTL DEF Spec, OnlyAnOutageKills
=============================================================================

------------------------- MODULE OrderLifecycleProofs -------------------------
(***************************************************************************)
(* Proofs about OrderLifecycle, for every set of orders and of fills: the  *)
(* types, that the history replays to the state, that the fill book is     *)
(* right and adds up, that restarts count no fill twice, and that FILLED   *)
(* is earned.  What a recursive sum does with one more quantity is proved  *)
(* by induction, stated as well-foundedness of the numbers.                *)
(***************************************************************************)
EXTENDS OrderLifecycle, Integers, WellFoundedInduction, TLAPS

\* The legal edges lead from states to states.
LEMMA LegalNextStates == \A s : LegalNext(s) \subseteq States
BY DEF LegalNext, States

\* What a transition does to the order it moves and to the others.
LEMMA TransitionRow ==
  ASSUME TypeOK, NEW o \in Orders, NEW new, NEW by \in FillEvents \cup {NoFill},
         state[o] # "ABSENT", Transition(o, new, by)
  PROVE  LET row == [prev |-> state[o], new |-> new, by |-> by] IN
         /\ new \in LegalNext(state[o])
         /\ row \in HistoryRow
         /\ state' \in [Orders -> States \cup {"ABSENT"}]
         /\ hist' \in [Orders -> Seq(HistoryRow)]
         /\ state'[o] = new
         /\ hist'[o] = Append(hist[o], row)
         /\ \A p \in Orders \ {o} : state'[p] = state[p] /\ hist'[p] = hist[p]
<1> DEFINE row == [prev |-> state[o], new |-> new, by |-> by]
<1>1. new \in LegalNext(state[o])
  BY DEF Transition
<1>2. new \in States
  BY <1>1, LegalNextStates
<1>3. state[o] \in States
  BY DEF TypeOK
<1>4. row \in HistoryRow
  BY <1>2, <1>3 DEF HistoryRow
<1>5. hist[o] \in Seq(HistoryRow) /\ Append(hist[o], row) \in Seq(HistoryRow)
  BY <1>4 DEF TypeOK
<1>6. /\ state' = [state EXCEPT ![o] = new]
      /\ hist' = [hist EXCEPT ![o] = Append(hist[o], row)]
  BY DEF Transition
<1>7. /\ state' \in [Orders -> States \cup {"ABSENT"}]
      /\ hist' \in [Orders -> Seq(HistoryRow)]
  BY <1>2, <1>5, <1>6 DEF TypeOK
<1>8. /\ state'[o] = new
      /\ hist'[o] = Append(hist[o], row)
      /\ \A p \in Orders \ {o} : state'[p] = state[p] /\ hist'[p] = hist[p]
  BY <1>6 DEF TypeOK
<1> QED
  BY <1>1, <1>4, <1>7, <1>8

\* No legal edge leaves an order that was never opened.
LEMMA AbsentIsStuck == LegalNext("ABSENT") = {}
BY DEF LegalNext

\* The legal edges are defined on states, so a moved order was opened.
LEMMA MovedWasOpen ==
  ASSUME NEW o, NEW new, NEW by, Transition(o, new, by)
  PROVE  state[o] # "ABSENT"
BY AbsentIsStuck DEF Transition

-----------------------------------------------------------------------------
\* Booking a fill keeps the book's type.
LEMMA BookedType ==
  ASSUME TypeOK, NEW f \in FillEvents
  PROVE  Booked(f) \in [Orders -> [target : Nat, filled : Nat,
                                   fills : Seq(FillEvents)]]
<1>1. f.order \in Orders /\ f.qty \in Nat
  BY OrderConstantsOK
<1>2. book[f.order] \in [target : Nat, filled : Nat, fills : Seq(FillEvents)]
  BY <1>1 DEF TypeOK
<1>3. /\ book[f.order].filled + f.qty \in Nat
      /\ Append(book[f.order].fills, f) \in Seq(FillEvents)
  BY <1>1, <1>2
<1> DEFINE b == [book[f.order] EXCEPT !.filled = @ + f.qty,
                                      !.fills = Append(@, f)]
<1>4. b \in [target : Nat, filled : Nat, fills : Seq(FillEvents)]
  BY <1>2, <1>3
<1>5. Booked(f) = [book EXCEPT ![f.order] = b]
  BY <1>1, <1>2 DEF Booked, TypeOK
<1> QED
  BY <1>1, <1>4, <1>5 DEF TypeOK

\* What a restart leaves of an order.
LEMMA AfterRestart ==
  ASSUME NEW kept \in SUBSET Orders, Restart(kept), NEW o \in Orders
  PROVE  /\ book'[o] = Unregistered
         /\ \/ state'[o] = state[o] /\ hist'[o] = hist[o] /\ asked'[o] = asked[o]
            \/ state'[o] = "ABSENT" /\ hist'[o] = <<>> /\ asked'[o] = 0
BY DEF Restart

LEMMA InitType == Init => TypeOK
BY OrderConstantsOK DEF Init, TypeOK, Unregistered

LEMMA TypePreserved == TypeOK /\ [Next]_vars => TypeOK'
<1> SUFFICES ASSUME TypeOK, [Next]_vars PROVE TypeOK'
  OBVIOUS
<1>1. ASSUME NEW o \in Orders, Open(o) PROVE TypeOK'
  <2> DEFINE row == [prev |-> "NEW", new |-> "NEW", by |-> NoFill]
  <2>1. row \in HistoryRow
    BY DEF HistoryRow, States
  <2>2. <<row>> \in Seq(HistoryRow)
    BY <2>1
  <2>3. hist' = [hist EXCEPT ![o] = <<row>>]
    BY <1>1 DEF Open
  <2>4. hist' \in [Orders -> Seq(HistoryRow)]
    BY <2>2, <2>3 DEF TypeOK
  <2>5. state' \in [Orders -> States \cup {"ABSENT"}]
    BY <1>1 DEF Open, TypeOK, States
  <2> QED
    BY <1>1, <2>4, <2>5 DEF Open, TypeOK
<1>2. ASSUME NEW o \in Orders, NEW q \in Targets, Register(o, q) PROVE TypeOK'
  <2>1. Transition(o, "PENDING", NoFill) /\ state[o] # "ABSENT"
    BY <1>2, MovedWasOpen DEF Register
  <2>2. /\ state' \in [Orders -> States \cup {"ABSENT"}]
        /\ hist' \in [Orders -> Seq(HistoryRow)]
    BY <2>1, TransitionRow
  <2>3. q \in Nat
    BY OrderConstantsOK
  <2> DEFINE b == [target |-> q, filled |-> 0, fills |-> <<>>]
  <2>4. b \in [target : Nat, filled : Nat, fills : Seq(FillEvents)]
    BY <2>3
  <2>5. b = [Unregistered EXCEPT !.target = q]
    BY DEF Unregistered
  <2>6. book' = [book EXCEPT ![o] = b]
    BY <1>2, <2>5 DEF Register
  <2>7. book' \in [Orders -> [target : Nat, filled : Nat,
                              fills : Seq(FillEvents)]]
    BY <2>4, <2>6 DEF TypeOK
  <2>8. asked' \in [Orders -> Nat]
    BY <1>2, <2>3 DEF Register, TypeOK
  <2> QED
    BY <1>2, <2>2, <2>7, <2>8 DEF Register, TypeOK
<1>3. ASSUME NEW f \in FillEvents, Apply(f) PROVE TypeOK'
  <2>1. f.order \in Orders
    BY OrderConstantsOK
  <2>2. Transition(f.order, FillState(f), f) /\ state[f.order] # "ABSENT"
    BY <1>3, MovedWasOpen DEF Apply
  <2>3. /\ state' \in [Orders -> States \cup {"ABSENT"}]
        /\ hist' \in [Orders -> Seq(HistoryRow)]
    BY <2>1, <2>2, TransitionRow
  <2> QED
    BY <1>3, <2>3, BookedType DEF Apply, TypeOK
<1>4. ASSUME NEW f \in FillEvents, ApplyRejects(f) PROVE TypeOK'
  BY <1>4 DEF ApplyRejects, TypeOK
<1>5. ASSUME NEW f \in FillEvents, ApplyRaises(f) PROVE TypeOK'
  BY <1>5, BookedType DEF ApplyRaises, TypeOK
<1>6. ASSUME NEW o \in Orders, NEW new \in CallerMoves, Move(o, new)
      PROVE TypeOK'
  <2>1. Transition(o, new, NoFill) /\ state[o] # "ABSENT"
    BY <1>6 DEF Move
  <2>2. /\ state' \in [Orders -> States \cup {"ABSENT"}]
        /\ hist' \in [Orders -> Seq(HistoryRow)]
    BY <2>1, TransitionRow
  <2> QED
    BY <1>6, <2>2 DEF Move, TypeOK
<1>7. ASSUME NEW kept \in SUBSET Orders, Restart(kept) PROVE TypeOK'
  <2>1. <<>> \in Seq(HistoryRow)
    OBVIOUS
  <2>2. /\ state' \in [Orders -> States \cup {"ABSENT"}]
        /\ hist' \in [Orders -> Seq(HistoryRow)]
        /\ asked' \in [Orders -> Nat]
    BY <1>7, <2>1 DEF Restart, TypeOK
  <2> QED
    BY <1>7, <2>2, OrderConstantsOK DEF Restart, TypeOK, Unregistered
<1>8. CASE UNCHANGED vars
  BY <1>8 DEF vars, TypeOK
<1> QED
  BY <1>1, <1>2, <1>3, <1>4, <1>5, <1>6, <1>7, <1>8 DEF Next

\* Every reachable state has its type, whatever the venue reports.
THEOREM OrderTypeCorrect == Spec => []TypeOK
<1> QED
  BY InitType, TypePreserved, PTL DEF Spec

-----------------------------------------------------------------------------
\* HistoryReplays, of one order.
Replays(o) ==
  LET h == hist[o] IN
  /\ h = <<>> <=> state[o] = "ABSENT"
  /\ h # <<>> => state[o] = h[Len(h)].new
  /\ \A i \in 2 .. Len(h) :
       h[i].prev = h[i - 1].new /\ h[i].new \in LegalNext(h[i].prev)

\* A transition appends a row that continues the history, and disturbs no
\* other order's.
LEMMA TransitionReplays ==
  ASSUME TypeOK, HistoryReplays,
         NEW o \in Orders, NEW new, NEW by \in FillEvents \cup {NoFill},
         Transition(o, new, by)
  PROVE  HistoryReplays'
<1> DEFINE row == [prev |-> state[o], new |-> new, by |-> by]
           h == hist[o]
<1>1. state[o] # "ABSENT"
  BY MovedWasOpen
<1>2. /\ new \in LegalNext(state[o])
      /\ state'[o] = new
      /\ hist'[o] = Append(h, row)
      /\ \A p \in Orders \ {o} : state'[p] = state[p] /\ hist'[p] = hist[p]
  BY <1>1, TransitionRow
<1>3. /\ h \in Seq(HistoryRow)
      /\ row \in HistoryRow
      /\ new # "ABSENT"
  <2>1. new \in States
    BY <1>2, LegalNextStates
  <2>2. new # "ABSENT"
    BY <2>1 DEF States
  <2> QED
    BY <1>1, <2>2, TransitionRow DEF TypeOK
<1>4. /\ h # <<>> /\ state[o] = h[Len(h)].new
      /\ \A i \in 2 .. Len(h) :
           h[i].prev = h[i - 1].new /\ h[i].new \in LegalNext(h[i].prev)
  BY <1>1 DEF HistoryReplays
<1> DEFINE k == Append(h, row)
<1>5. /\ Len(k) = Len(h) + 1 /\ Len(h) \in Nat \ {0}
      /\ k[Len(h) + 1] = row
      /\ \A i \in 1 .. Len(h) : k[i] = h[i]
  BY <1>3, <1>4
<1>6. k # <<>> /\ new = k[Len(k)].new
  BY <1>5
<1>7. ASSUME NEW i \in 2 .. Len(k)
      PROVE  k[i].prev = k[i - 1].new /\ k[i].new \in LegalNext(k[i].prev)
  <2>1. CASE i \in 2 .. Len(h)
    BY <1>4, <1>5, <2>1
  <2>2. CASE i = Len(h) + 1
    BY <1>2, <1>4, <1>5, <2>2
  <2> QED
    BY <1>5, <1>7, <2>1, <2>2
<1>8. Replays(o)'
  BY <1>2, <1>3, <1>6, <1>7 DEF Replays
<1>9. ASSUME NEW p \in Orders \ {o} PROVE Replays(p)'
  BY <1>2, <1>9 DEF Replays, HistoryReplays
<1> QED
  BY <1>8, <1>9 DEF Replays, HistoryReplays

LEMMA InitReplays == Init => HistoryReplays
<1> SUFFICES ASSUME Init, NEW o \in Orders PROVE Replays(o)
  BY DEF Replays, HistoryReplays
<1>1. hist[o] = <<>> /\ state[o] = "ABSENT"
  BY DEF Init
<1>2. Len(<<>>) = 0 /\ 2 .. 0 = {}
  OBVIOUS
<1> QED
  BY <1>1, <1>2 DEF Replays

LEMMA ReplayPreserved == TypeOK /\ HistoryReplays /\ [Next]_vars => HistoryReplays'
<1> SUFFICES ASSUME TypeOK, HistoryReplays, [Next]_vars PROVE HistoryReplays'
  OBVIOUS
<1>1. ASSUME NEW o \in Orders, Open(o) PROVE HistoryReplays'
  <2> DEFINE row == [prev |-> "NEW", new |-> "NEW", by |-> NoFill]
  <2>1. state'[o] = "NEW" /\ hist'[o] = <<row>>
    BY <1>1 DEF Open, TypeOK
  <2>2. Len(<<row>>) = 1 /\ <<row>> # <<>> /\ <<row>>[1].new = "NEW"
    OBVIOUS
  <2>3. Replays(o)'
    BY <2>1, <2>2 DEF Replays
  <2>4. ASSUME NEW p \in Orders \ {o} PROVE Replays(p)'
    <3>1. state'[p] = state[p] /\ hist'[p] = hist[p]
      BY <1>1, <2>4 DEF Open, TypeOK
    <3> QED
      BY <2>4, <3>1 DEF Replays, HistoryReplays
  <2> QED
    BY <2>3, <2>4 DEF Replays, HistoryReplays
<1>2. ASSUME NEW o \in Orders, NEW q \in Targets, Register(o, q)
      PROVE HistoryReplays'
  BY <1>2, TransitionReplays DEF Register
<1>3. ASSUME NEW f \in FillEvents, Apply(f) PROVE HistoryReplays'
  BY <1>3, TransitionReplays, OrderConstantsOK DEF Apply
<1>4. ASSUME NEW f \in FillEvents, ApplyRejects(f) PROVE HistoryReplays'
  BY <1>4 DEF ApplyRejects, HistoryReplays
<1>5. ASSUME NEW f \in FillEvents, ApplyRaises(f) PROVE HistoryReplays'
  BY <1>5 DEF ApplyRaises, HistoryReplays
<1>6. ASSUME NEW o \in Orders, NEW new \in CallerMoves, Move(o, new)
      PROVE HistoryReplays'
  BY <1>6, TransitionReplays DEF Move
<1>7. ASSUME NEW kept \in SUBSET Orders, Restart(kept) PROVE HistoryReplays'
  <2>1. Len(<<>>) = 0 /\ 2 .. 0 = {}
    OBVIOUS
  <2>2. ASSUME NEW o \in Orders PROVE Replays(o)'
    BY <1>7, <2>1, AfterRestart DEF Replays, HistoryReplays
  <2> QED
    BY <2>2 DEF Replays, HistoryReplays
<1>8. CASE UNCHANGED vars
  BY <1>8 DEF vars, HistoryReplays
<1> QED
  BY <1>1, <1>2, <1>3, <1>4, <1>5, <1>6, <1>7, <1>8 DEF Next

\* From open on, the history of an order replays over the legal edges to its
\* state, through rejected fills, raised transitions and restarts.
THEOREM HistoryIsReplayLog == Spec => []HistoryReplays
<1>1. Init => TypeOK /\ HistoryReplays
  BY InitType, InitReplays
<1>2. TypeOK /\ HistoryReplays /\ [Next]_vars => (TypeOK /\ HistoryReplays)'
  BY TypePreserved, ReplayPreserved
<1> QED
  BY <1>1, <1>2, PTL DEF Spec

-----------------------------------------------------------------------------
Books == [target : Nat, filled : Nat, fills : Seq(FillEvents)]

\* Booking a new fill that fits keeps the fills distinct and below the target.
LEMMA AddDistinct ==
  ASSUME NEW b \in Books, NEW f \in FillEvents, NEW keys, f \notin keys,
         f.qty \in Nat, b.filled + f.qty <= b.target,
         HoldsDistinctFills(f.order, b, keys)
  PROVE  HoldsDistinctFills(f.order,
           [b EXCEPT !.filled = @ + f.qty, !.fills = Append(@, f)],
           keys \cup {f})
<1> DEFINE c == [b EXCEPT !.filled = @ + f.qty, !.fills = Append(@, f)]
           n == Len(b.fills)
<1>1. /\ c.filled = b.filled + f.qty
      /\ c.target = b.target
      /\ c.fills = Append(b.fills, f)
  BY DEF Books
<1>2. b.fills \in Seq(FillEvents)
  BY DEF Books
<1>3. /\ n \in Nat
      /\ Len(c.fills) = n + 1
      /\ c.fills[n + 1] = f
      /\ \A i \in 1 .. n : c.fills[i] = b.fills[i]
  BY <1>1, <1>2
<1>4. /\ \A i, j \in 1 .. n : b.fills[i] = b.fills[j] => i = j
      /\ \A i \in 1 .. n : b.fills[i] \in keys /\ b.fills[i].order = f.order
  BY DEF HoldsDistinctFills
<1> HIDE DEF c, n
<1>5. ASSUME NEW i \in 1 .. Len(c.fills), NEW j \in 1 .. Len(c.fills),
             c.fills[i] = c.fills[j]
      PROVE  i = j
  <2>1. \A k \in 1 .. Len(c.fills) : k \in 1 .. n \/ k = n + 1
    BY <1>3
  <2>2. \A k \in 1 .. n : c.fills[k] # f
    BY <1>3, <1>4
  <2> QED
    BY <1>3, <1>4, <1>5, <2>1, <2>2
<1>6. ASSUME NEW i \in 1 .. Len(c.fills)
      PROVE  c.fills[i] \in keys \cup {f} /\ c.fills[i].order = f.order
  <2>1. i \in 1 .. n \/ i = n + 1
    BY <1>3
  <2> QED
    BY <1>3, <1>4, <2>1
<1>7. c.filled <= c.target
  BY <1>1
<1>8. HoldsDistinctFills(f.order, c, keys \cup {f})
  BY <1>5, <1>6, <1>7 DEF HoldsDistinctFills
<1> QED
  BY <1>8 DEF c

\* A book without fills holds no fill twice.
LEMMA EmptyDistinct ==
  ASSUME NEW o, NEW keys, NEW q \in Nat
  PROVE  HoldsDistinctFills(o, [target |-> q, filled |-> 0, fills |-> <<>>], keys)
<1> DEFINE b == [target |-> q, filled |-> 0, fills |-> <<>>]
<1>1. b.filled = 0 /\ b.target = q /\ b.fills = <<>>
  OBVIOUS
<1>2. Len(<<>>) = 0 /\ 1 .. 0 = {}
  OBVIOUS
<1> HIDE DEF b
<1>3. HoldsDistinctFills(o, b, keys)
  BY <1>1, <1>2 DEF HoldsDistinctFills
<1> QED
  BY <1>3 DEF b

\* A book stays distinct when more reports are seen.
LEMMA MoreSeen ==
  ASSUME NEW o, NEW b, NEW keys, NEW more, keys \subseteq more,
         HoldsDistinctFills(o, b, keys)
  PROVE  HoldsDistinctFills(o, b, more)
BY DEF HoldsDistinctFills

\* The booking step, of apply whether or not it raises in the end.
LEMMA BookedDistinct ==
  ASSUME TypeOK, BookHoldsDistinctFills, NEW f \in FillEvents,
         Fresh(f), Fits(f), book' = Booked(f), seen' = seen \cup {f}
  PROVE  BookHoldsDistinctFills'
<1> DEFINE c == [book[f.order] EXCEPT !.filled = @ + f.qty,
                                      !.fills = Append(@, f)]
<1>1. f.order \in Orders /\ f.qty \in Nat
  BY OrderConstantsOK
<1>2. book[f.order] \in Books
  BY <1>1 DEF TypeOK, Books
<1>3. book' = [book EXCEPT ![f.order] = c]
  BY <1>1, <1>2 DEF Booked, TypeOK, Books
<1>4. book'[f.order] = c /\ \A p \in Orders \ {f.order} : book'[p] = book[p]
  BY <1>1, <1>3 DEF TypeOK
<1>5. f \notin seen /\ book[f.order].filled + f.qty <= book[f.order].target
  BY DEF Fresh, Fits
<1>6. HoldsDistinctFills(f.order, book[f.order], seen)
  BY <1>1 DEF BookHoldsDistinctFills
<1>7. HoldsDistinctFills(f.order, c, seen \cup {f})
  BY <1>1, <1>2, <1>5, <1>6, AddDistinct
<1>8. \A p \in Orders \ {f.order} : HoldsDistinctFills(p, book[p], seen \cup {f})
  BY MoreSeen DEF BookHoldsDistinctFills
<1> HIDE DEF c
<1> QED
  BY <1>4, <1>7, <1>8 DEF BookHoldsDistinctFills

LEMMA InitBook == Init => BookHoldsDistinctFills
<1>1. \A o \in Orders : HoldsDistinctFills(o, Unregistered, {})
  BY EmptyDistinct DEF Unregistered
<1> QED
  BY <1>1 DEF Init, BookHoldsDistinctFills

LEMMA BookPreserved ==
  TypeOK /\ BookHoldsDistinctFills /\ [Next]_vars => BookHoldsDistinctFills'
<1> SUFFICES ASSUME TypeOK, BookHoldsDistinctFills, [Next]_vars
             PROVE  BookHoldsDistinctFills'
  OBVIOUS
<1>1. ASSUME NEW o \in Orders, NEW q \in Targets, Register(o, q)
      PROVE  BookHoldsDistinctFills'
  <2> DEFINE b == [target |-> q, filled |-> 0, fills |-> <<>>]
  <2>1. b = [Unregistered EXCEPT !.target = q]
    BY DEF Unregistered
  <2>2. book' = [book EXCEPT ![o] = b] /\ seen' = seen
    BY <1>1, <2>1 DEF Register
  <2>3. book'[o] = b /\ \A p \in Orders \ {o} : book'[p] = book[p]
    BY <2>2 DEF TypeOK
  <2>4. HoldsDistinctFills(o, b, seen)
    BY EmptyDistinct, OrderConstantsOK
  <2> HIDE DEF b
  <2> QED
    BY <2>2, <2>3, <2>4 DEF BookHoldsDistinctFills
<1>2. ASSUME NEW f \in FillEvents, Apply(f) PROVE BookHoldsDistinctFills'
  BY <1>2, BookedDistinct DEF Apply
<1>3. ASSUME NEW f \in FillEvents, ApplyRejects(f) PROVE BookHoldsDistinctFills'
  <2>1. book' = book /\ seen' = seen \cup {f}
    BY <1>3 DEF ApplyRejects
  <2> QED
    BY <2>1, MoreSeen DEF BookHoldsDistinctFills
<1>4. ASSUME NEW f \in FillEvents, ApplyRaises(f) PROVE BookHoldsDistinctFills'
  BY <1>4, BookedDistinct DEF ApplyRaises
<1>5. ASSUME NEW kept \in SUBSET Orders, Restart(kept)
      PROVE  BookHoldsDistinctFills'
  BY <1>5, EmptyDistinct DEF Restart, Unregistered, BookHoldsDistinctFills
<1>6. ASSUME book' = book, seen' = seen PROVE BookHoldsDistinctFills'
  BY <1>6 DEF BookHoldsDistinctFills
<1> QED
  BY <1>1, <1>2, <1>3, <1>4, <1>5, <1>6 DEF Next, Open, Move, vars

\* However often, however late and in whatever order the venue reports, the
\* book counts no report twice and fills no order beyond its target.
THEOREM BookCorrect == Spec => []BookHoldsDistinctFills
<1>1. Init => TypeOK /\ BookHoldsDistinctFills
  BY InitType, InitBook
<1>2. TypeOK /\ BookHoldsDistinctFills /\ [Next]_vars
        => (TypeOK /\ BookHoldsDistinctFills)'
  BY TypePreserved, BookPreserved
<1> QED
  BY <1>1, <1>2, PTL DEF Spec

-----------------------------------------------------------------------------
\* Why no fill counts twice: an order with a fill in its history is past NEW,
\* so register refuses it; while it is registered, its fills are known.
RecordedFillsAreKnown ==
  \A o \in Orders :
    \A i \in 1 .. Len(hist[o]) :
      hist[o][i].by # NoFill =>
        /\ state[o] \notin {"ABSENT", "NEW"}
        /\ book[o] # Unregistered => hist[o][i].by \in seen

\* NoFillTwiceAcrossRestarts and RecordedFillsAreKnown, of an order with
\* state s, history h and book b.
NoFillTwice(h) ==
  \A i, j \in 1 .. Len(h) : h[i].by # NoFill /\ h[i].by = h[j].by => i = j

Known(h, s, b, keys) ==
  \A i \in 1 .. Len(h) :
    h[i].by # NoFill =>
      s \notin {"ABSENT", "NEW"} /\ (b # Unregistered => h[i].by \in keys)

OnceInv == /\ HistoryReplays
           /\ NoFillTwiceAcrossRestarts
           /\ RecordedFillsAreKnown

LEMMA OnceByOrder ==
  /\ NoFillTwiceAcrossRestarts <=> \A o \in Orders : NoFillTwice(hist[o])
  /\ RecordedFillsAreKnown <=>
       \A o \in Orders : Known(hist[o], state[o], book[o], seen)
BY DEF NoFillTwiceAcrossRestarts, RecordedFillsAreKnown, NoFillTwice, Known

\* A row made by no fill adds no fill.
LEMMA AddRow ==
  ASSUME NEW h \in Seq(HistoryRow), NEW row \in HistoryRow, row.by = NoFill,
         NoFillTwice(h)
  PROVE  NoFillTwice(Append(h, row))
<1> DEFINE k == Append(h, row)
<1>1. /\ Len(h) \in Nat /\ Len(k) = Len(h) + 1 /\ k[Len(h) + 1] = row
      /\ \A i \in 1 .. Len(h) : k[i] = h[i]
  OBVIOUS
<1>2. \A i \in 1 .. Len(k) : i \in 1 .. Len(h) \/ i = Len(h) + 1
  BY <1>1
<1> HIDE DEF k
<1>3. NoFillTwice(k)
  BY <1>1, <1>2 DEF NoFillTwice
<1> QED
  BY <1>3 DEF k

\* A row made by a fill no row has yet adds it once.
LEMMA AddFillRow ==
  ASSUME NEW h \in Seq(HistoryRow), NEW row \in HistoryRow,
         \A i \in 1 .. Len(h) : h[i].by # row.by,
         NoFillTwice(h)
  PROVE  NoFillTwice(Append(h, row))
<1> DEFINE k == Append(h, row)
<1>1. /\ Len(h) \in Nat /\ Len(k) = Len(h) + 1 /\ k[Len(h) + 1] = row
      /\ \A i \in 1 .. Len(h) : k[i] = h[i]
  OBVIOUS
<1>2. \A i \in 1 .. Len(k) : i \in 1 .. Len(h) \/ i = Len(h) + 1
  BY <1>1
<1> HIDE DEF k
<1>3. NoFillTwice(k)
  BY <1>1, <1>2 DEF NoFillTwice
<1> QED
  BY <1>3 DEF k

\* A transition to new leaves every recorded fill known, if the fills known
\* before stay known and the row's own fill is.
LEMMA AddKnown ==
  ASSUME NEW h \in Seq(HistoryRow), NEW row \in HistoryRow, NEW s, NEW new,
         NEW b, NEW c, NEW keys, NEW more, keys \subseteq more,
         Known(h, s, b, keys), new \notin {"ABSENT", "NEW"},
         b = Unregistered => c = Unregistered \/ \A i \in 1 .. Len(h) : h[i].by = NoFill,
         row.by # NoFill => row.by \in more
  PROVE  Known(Append(h, row), new, c, more)
<1> DEFINE k == Append(h, row)
<1>1. /\ Len(h) \in Nat /\ Len(k) = Len(h) + 1 /\ k[Len(h) + 1] = row
      /\ \A i \in 1 .. Len(h) : k[i] = h[i]
  OBVIOUS
<1>2. \A i \in 1 .. Len(k) : i \in 1 .. Len(h) \/ i = Len(h) + 1
  BY <1>1
<1> HIDE DEF k
<1>3. Known(k, new, c, more)
  BY <1>1, <1>2 DEF Known
<1> QED
  BY <1>3 DEF k

\* No legal edge leads back to NEW.
LEMMA NeverBackToNew == \A s : LegalNext(s) \cap {"ABSENT", "NEW"} = {}
BY DEF LegalNext

\* Only NEW leads to PENDING.
LEMMA OnlyNewIsSubmitted == \A s : "PENDING" \in LegalNext(s) => s = "NEW"
BY DEF LegalNext

LEMMA InitOnce == Init => OnceInv
<1> SUFFICES ASSUME Init PROVE OnceInv
  OBVIOUS
<1>1. Len(<<>>) = 0 /\ 1 .. 0 = {}
  OBVIOUS
<1>2. \A o \in Orders : hist[o] = <<>>
  BY DEF Init
<1> QED
  BY <1>1, <1>2, InitReplays DEF OnceInv, NoFillTwiceAcrossRestarts,
     RecordedFillsAreKnown

LEMMA OncePreserved == TypeOK /\ OnceInv /\ [Next]_vars => OnceInv'
<1> SUFFICES ASSUME TypeOK, OnceInv, [Next]_vars
             PROVE  /\ NoFillTwiceAcrossRestarts'
                    /\ RecordedFillsAreKnown'
  BY ReplayPreserved DEF OnceInv
<1> USE DEF OnceInv
<1>1. \A o \in Orders : /\ NoFillTwice(hist[o])
                        /\ Known(hist[o], state[o], book[o], seen)
                        /\ hist[o] \in Seq(HistoryRow)
  BY OnceByOrder DEF TypeOK
\* It is enough to look at the one order a step touches.
<1>2. ASSUME NEW o \in Orders,
             \A p \in Orders \ {o} : hist'[p] = hist[p] /\ state'[p] = state[p]
                                     /\ book'[p] = book[p],
             seen \subseteq seen',
             NoFillTwice(hist'[o]), Known(hist'[o], state'[o], book'[o], seen')
      PROVE  /\ NoFillTwiceAcrossRestarts'
             /\ RecordedFillsAreKnown'
  <2>1. \A p \in Orders : NoFillTwice(hist'[p])
    BY <1>1, <1>2
  <2>2. \A p \in Orders : Known(hist'[p], state'[p], book'[p], seen')
    <3> TAKE p \in Orders
    <3>1. CASE p = o
      BY <1>2, <3>1
    <3>2. CASE p # o
      BY <1>1, <1>2, <3>2 DEF Known
    <3> QED
      BY <3>1, <3>2
  <2> QED
    BY <2>1, <2>2 DEF NoFillTwiceAcrossRestarts, RecordedFillsAreKnown,
       NoFillTwice, Known
<1>3. ASSUME NEW o \in Orders, Open(o)
      PROVE  NoFillTwiceAcrossRestarts' /\ RecordedFillsAreKnown'
  <2> DEFINE row == [prev |-> "NEW", new |-> "NEW", by |-> NoFill]
  <2>1. hist'[o] = <<row>>
    BY <1>3 DEF Open, TypeOK
  <2>2. Len(<<row>>) = 1 /\ <<row>>[1].by = NoFill
    OBVIOUS
  <2>3. NoFillTwice(hist'[o]) /\ Known(hist'[o], state'[o], book'[o], seen')
    BY <2>1, <2>2 DEF NoFillTwice, Known
  <2> QED
    BY <1>2, <1>3, <2>3 DEF Open, TypeOK
<1>4. ASSUME NEW o \in Orders, NEW q \in Targets, Register(o, q)
      PROVE  NoFillTwiceAcrossRestarts' /\ RecordedFillsAreKnown'
  <2> DEFINE row == [prev |-> state[o], new |-> "PENDING", by |-> NoFill]
  <2>1. Transition(o, "PENDING", NoFill) /\ state[o] = "NEW"
    BY <1>4, OnlyNewIsSubmitted DEF Register, Transition
  <2>2. /\ row \in HistoryRow
        /\ state'[o] = "PENDING"
        /\ hist'[o] = Append(hist[o], row)
        /\ \A p \in Orders \ {o} : state'[p] = state[p] /\ hist'[p] = hist[p]
    BY <2>1, TransitionRow
  <2>3. \A i \in 1 .. Len(hist[o]) : hist[o][i].by = NoFill
    BY <1>1, <2>1 DEF Known
  <2>4. seen' = seen /\ \A p \in Orders \ {o} : book'[p] = book[p]
    BY <1>4 DEF Register, TypeOK
  <2>5. NoFillTwice(hist'[o])
    BY <1>1, <2>2, AddRow
  <2>6. Known(hist'[o], state'[o], book'[o], seen')
    BY <1>1, <2>2, <2>3, <2>4, AddKnown
  <2> QED
    BY <1>2, <2>2, <2>4, <2>5, <2>6
<1>5. ASSUME NEW f \in FillEvents, Apply(f)
      PROVE  NoFillTwiceAcrossRestarts' /\ RecordedFillsAreKnown'
  <2> DEFINE o == f.order
             row == [prev |-> state[o], new |-> FillState(f), by |-> f]
  <2>1. o \in Orders
    BY OrderConstantsOK
  <2>2. Transition(o, FillState(f), f) /\ state[o] # "ABSENT"
    BY <1>5, MovedWasOpen DEF Apply
  <2>3. /\ row \in HistoryRow
        /\ FillState(f) \in LegalNext(state[o])
        /\ state'[o] = FillState(f)
        /\ hist'[o] = Append(hist[o], row)
        /\ \A p \in Orders \ {o} : state'[p] = state[p] /\ hist'[p] = hist[p]
    BY <2>1, <2>2, TransitionRow
  <2>4. book[o] # Unregistered /\ f \notin seen /\ f # NoFill
    BY <1>5, OrderConstantsOK DEF Apply, Fresh
  <2>5. \A i \in 1 .. Len(hist[o]) : hist[o][i].by # f
    BY <1>1, <2>1, <2>4 DEF Known
  <2>6. seen' = seen \cup {f} /\ \A p \in Orders \ {o} : book'[p] = book[p]
    BY <1>5, <2>1 DEF Apply, Booked, TypeOK
  <2>7. NoFillTwice(hist'[o])
    BY <1>1, <2>1, <2>3, <2>5, AddFillRow
  <2>8. FillState(f) \notin {"ABSENT", "NEW"}
    BY <2>3, NeverBackToNew
  <2>9. Known(hist'[o], state'[o], book'[o], seen')
    BY <1>1, <2>1, <2>3, <2>4, <2>6, <2>8, AddKnown
  <2> QED
    BY <1>2, <2>1, <2>3, <2>6, <2>7, <2>9
<1>6. ASSUME NEW f \in FillEvents, ApplyRejects(f)
      PROVE  NoFillTwiceAcrossRestarts' /\ RecordedFillsAreKnown'
  BY <1>2, <1>1, <1>6, OrderConstantsOK DEF ApplyRejects, Known
<1>7. ASSUME NEW f \in FillEvents, ApplyRaises(f)
      PROVE  NoFillTwiceAcrossRestarts' /\ RecordedFillsAreKnown'
  <2>1. f.order \in Orders
    BY OrderConstantsOK
  <2>2. /\ hist' = hist /\ state' = state /\ seen' = seen \cup {f}
        /\ book[f.order] # Unregistered
        /\ \A p \in Orders \ {f.order} : book'[p] = book[p]
    BY <1>7 DEF ApplyRaises, Fresh, Booked, TypeOK
  <2>3. Known(hist'[f.order], state'[f.order], book'[f.order], seen')
    BY <1>1, <2>1, <2>2 DEF Known
  <2> QED
    BY <1>1, <1>2, <2>1, <2>2, <2>3
<1>8. ASSUME NEW o \in Orders, NEW new \in CallerMoves, Move(o, new)
      PROVE  NoFillTwiceAcrossRestarts' /\ RecordedFillsAreKnown'
  <2> DEFINE row == [prev |-> state[o], new |-> new, by |-> NoFill]
  <2>1. Transition(o, new, NoFill) /\ state[o] # "ABSENT"
        /\ book' = book /\ seen' = seen
    BY <1>8 DEF Move
  <2>2. /\ row \in HistoryRow
        /\ new \in LegalNext(state[o])
        /\ state'[o] = new
        /\ hist'[o] = Append(hist[o], row)
        /\ \A p \in Orders \ {o} : state'[p] = state[p] /\ hist'[p] = hist[p]
    BY <2>1, TransitionRow
  <2>3. new \notin {"ABSENT", "NEW"}
    BY <2>2, NeverBackToNew
  <2>4. NoFillTwice(hist'[o])
    BY <1>1, <2>2, AddRow
  <2>5. Known(hist'[o], state'[o], book'[o], seen')
    BY <1>1, <2>1, <2>2, <2>3, AddKnown
  <2> QED
    BY <1>2, <2>1, <2>2, <2>4, <2>5
<1>9. ASSUME NEW kept \in SUBSET Orders, Restart(kept)
      PROVE  NoFillTwiceAcrossRestarts' /\ RecordedFillsAreKnown'
  <2>1. Len(<<>>) = 0 /\ 1 .. 0 = {}
    OBVIOUS
  <2>2. ASSUME NEW o \in Orders
        PROVE  NoFillTwice(hist'[o]) /\ Known(hist'[o], state'[o], book'[o], seen')
    BY <1>1, <1>9, <2>1, AfterRestart DEF NoFillTwice, Known
  <2> QED
    BY <2>2 DEF NoFillTwiceAcrossRestarts, RecordedFillsAreKnown, NoFillTwice, Known
<1>10. CASE UNCHANGED vars
  BY <1>10 DEF vars, NoFillTwiceAcrossRestarts, RecordedFillsAreKnown
<1> QED
  BY <1>3, <1>4, <1>5, <1>6, <1>7, <1>8, <1>9, <1>10 DEF Next

\* No history of an order record, whichever restarts it outlives, records the
\* same report twice, although a restart forgets which reports were seen: an
\* order with a fill is past NEW and cannot be registered, hence filled, again.
THEOREM RestartsCountOnce == Spec => []NoFillTwiceAcrossRestarts
<1>1. Init => TypeOK /\ OnceInv
  BY InitType, InitOnce
<1>2. TypeOK /\ OnceInv /\ [Next]_vars => (TypeOK /\ OnceInv)'
  BY TypePreserved, OncePreserved
<1>3. OnceInv => NoFillTwiceAcrossRestarts
  BY DEF OnceInv
<1> QED
  BY <1>1, <1>2, <1>3, PTL DEF Spec

-----------------------------------------------------------------------------
\* The order of the numbers, as a set of pairs.
Less == {ss \in Nat \X Nat : ss[1] < ss[2]}

LEMMA LessWellFounded == IsWellFoundedOn(Less, Nat)
BY NatLessThanWellFounded DEF Less, OpToRel

\* Induction on the numbers, for a set of them: its least missing member has
\* no predecessor.
LEMMA NatSetInduction ==
  ASSUME NEW T \in SUBSET Nat, 0 \in T, \A n \in T : n + 1 \in T
  PROVE  T = Nat
<1> SUFFICES ASSUME Nat \ T # {} PROVE FALSE
  OBVIOUS
<1>1. PICK x \in Nat \ T : \A y \in Nat \ T : ~ (<<y, x>> \in Less)
  BY LessWellFounded, WFMin
<1>2. x # 0 /\ x - 1 \in Nat
  BY <1>1
<1>3. <<x - 1, x>> \in Less
  BY <1>2 DEF Less
<1>4. x - 1 \in T
  BY <1>1, <1>2, <1>3
<1> QED
  BY <1>1, <1>2, <1>4

\* g adds up the first n quantities of s, for every n: the equation of SumOf.
AddsUp(g, s) ==
  g = [i \in 0 .. Len(s) |-> IF i = 0 THEN 0 ELSE g[i - 1] + s[i]]

\* g[i] is the sum of the first i quantities of s, for i up to n.
SumsUpTo(g, s, n) ==
  /\ g \in [0 .. n -> Nat]
  /\ g[0] = 0
  /\ \A i \in 1 .. n : g[i] = g[i - 1] + s[i]

\* The sums of one quantity more.
LEMMA OneSumMore ==
  ASSUME NEW s \in Seq(Nat), NEW n \in Nat, n + 1 <= Len(s),
         NEW g, SumsUpTo(g, s, n)
  PROVE  \E k : SumsUpTo(k, s, n + 1)
<1>1. s[n + 1] \in Nat
  OBVIOUS
<1>2. /\ g \in [0 .. n -> Nat] /\ g[0] = 0 /\ g[n] \in Nat
      /\ \A i \in 1 .. n : g[i] = g[i - 1] + s[i]
  BY DEF SumsUpTo
<1> DEFINE k == [i \in 0 .. n + 1 |-> IF i = n + 1 THEN g[n] + s[n + 1]
                                      ELSE g[i]]
<1>3. k \in [0 .. n + 1 -> Nat]
  <2>1. ASSUME NEW i \in 0 .. n + 1
        PROVE  (IF i = n + 1 THEN g[n] + s[n + 1] ELSE g[i]) \in Nat
    BY <1>1, <1>2, i # n + 1 => i \in 0 .. n
  <2> QED
    BY <2>1
<1>4. k[0] = 0
  BY <1>2
<1>5. ASSUME NEW i \in 1 .. n + 1 PROVE k[i] = k[i - 1] + s[i]
  <2>1. CASE i = n + 1
    BY <2>1
  <2>2. CASE i # n + 1
    <3>1. i \in 1 .. n /\ i - 1 \in 0 .. n + 1 /\ i - 1 # n + 1
      BY <2>2
    <3> QED
      BY <1>2, <2>2, <3>1
  <2> QED
    BY <2>1, <2>2
<1> HIDE DEF k
<1> QED
  BY <1>3, <1>4, <1>5 DEF SumsUpTo

\* So all the sums exist, by induction on how many.
LEMMA SumsExist ==
  ASSUME NEW s \in Seq(Nat)
  PROVE  \E g : SumsUpTo(g, s, Len(s))
<1> DEFINE T == {n \in Nat : n <= Len(s) => \E g : SumsUpTo(g, s, n)}
<1>1. Len(s) \in Nat
  OBVIOUS
<1>2. \E g : SumsUpTo(g, s, 0)
  <2> DEFINE z == [i \in 0 .. 0 |-> 0]
  <2>1. z \in [0 .. 0 -> Nat] /\ z[0] = 0 /\ 1 .. 0 = {}
    OBVIOUS
  <2> QED
    BY <2>1 DEF SumsUpTo
<1>3. ASSUME NEW n \in T PROVE n + 1 \in T
  <2>1. n \in Nat /\ (n + 1 <= Len(s) => n <= Len(s))
    BY <1>1
  <2>2. n + 1 <= Len(s) => \E g : SumsUpTo(g, s, n)
    BY <1>3, <2>1
  <2>3. n + 1 <= Len(s) => \E g : SumsUpTo(g, s, n + 1)
    BY <2>1, <2>2, OneSumMore
  <2> QED
    BY <2>1, <2>3
<1>4. 0 \in T /\ T \in SUBSET Nat
  BY <1>2
<1> HIDE DEF T
<1>5. T = Nat
  BY <1>3, <1>4, NatSetInduction
<1> QED
  BY <1>1, <1>5 DEF T

\* SumOf takes the last of these sums.
LEMMA SumOfUnfolds ==
  ASSUME NEW s \in Seq(Nat)
  PROVE  \E g : SumsUpTo(g, s, Len(s)) /\ SumOf(s) = g[Len(s)]
<1> DEFINE u == CHOOSE g : AddsUp(g, s)
           n == Len(s)
<1>1. n \in Nat /\ \A i \in 1 .. n : s[i] \in Nat
  OBVIOUS
<1>2. PICK g : SumsUpTo(g, s, n)
  BY SumsExist
<1>3. AddsUp(g, s)
  <2>1. \A i \in 0 .. n : g[i] = IF i = 0 THEN 0 ELSE g[i - 1] + s[i]
    BY <1>1, <1>2 DEF SumsUpTo
  <2> QED
    BY <1>2, <2>1 DEF AddsUp, SumsUpTo
<1>4. AddsUp(u, s)
  BY <1>3
<1>5. SumOf(s) = u[n]
  BY Zenon DEF SumOf, AddsUp
<1> HIDE DEF u
<1>6. u = [i \in 0 .. n |-> IF i = 0 THEN 0 ELSE u[i - 1] + s[i]]
  BY <1>4 DEF AddsUp
<1> HIDE DEF n
<1>7. u[0] = 0 /\ \A i \in 1 .. n : u[i] = u[i - 1] + s[i]
  <2>1. \A i \in 0 .. n : u[i] = IF i = 0 THEN 0 ELSE u[i - 1] + s[i]
    BY Zenon, <1>6
  <2>2. 0 \in 0 .. n /\ \A i \in 1 .. n : i \in 0 .. n /\ i # 0
    BY <1>1
  <2> QED
    BY <2>1, <2>2
\* The sums are unique: g and u agree wherever both are defined.
<1> DEFINE T == {m \in Nat : m <= n => u[m] = g[m]}
<1>8. 0 \in T /\ T \in SUBSET Nat
  BY <1>2, <1>7 DEF SumsUpTo
<1>9. ASSUME NEW m \in T PROVE m + 1 \in T
  <2>1. ASSUME m + 1 <= n PROVE u[m + 1] = g[m + 1]
    <3>1. m + 1 \in 1 .. n /\ m <= n /\ (m + 1) - 1 = m
      <4>1. m \in Nat
        BY <1>8
      <4> HIDE DEF T
      <4> QED
        BY <1>1, <2>1, <4>1
    <3>2. u[m] = g[m]
      BY <1>9, <3>1
    <3>3. u[m + 1] = u[m] + s[m + 1]
      BY <1>7, <3>1
    <3>4. g[m + 1] = g[m] + s[m + 1]
      BY <1>2, <3>1 DEF SumsUpTo
    <3> QED
      BY <3>2, <3>3, <3>4
  <2> QED
    BY <2>1
<1> HIDE DEF T
<1>10. T = Nat
  BY <1>8, <1>9, NatSetInduction
<1>11. u[n] = g[n]
  BY <1>1, <1>10 DEF T
<1> QED
  BY <1>2, <1>5, <1>11 DEF n

LEMMA SumOfNone == SumOf(<<>>) = 0
<1>1. <<>> \in Seq(Nat) /\ Len(<<>>) = 0
  OBVIOUS
<1> QED
  BY <1>1, SumOfUnfolds DEF SumsUpTo

\* What a sum is, after one more quantity.
LEMMA SumOfOneMore ==
  ASSUME NEW s \in Seq(Nat), NEW t \in Seq(Nat), Len(t) = Len(s) + 1,
         \A i \in 1 .. Len(s) : t[i] = s[i]
  PROVE  SumOf(t) = SumOf(s) + t[Len(t)] /\ SumOf(s) \in Nat
<1> DEFINE n == Len(s)
<1>1. n \in Nat /\ Len(t) = n + 1 /\ \A i \in 1 .. n : t[i] = s[i]
  OBVIOUS
<1>2. PICK g : SumsUpTo(g, s, n) /\ SumOf(s) = g[n]
  BY SumOfUnfolds
<1>3. PICK k : SumsUpTo(k, t, n + 1) /\ SumOf(t) = k[n + 1]
  BY <1>1, SumOfUnfolds
<1> HIDE DEF n
<1> DEFINE T == {m \in Nat : m <= n => k[m] = g[m]}
<1>4. 0 \in T /\ T \in SUBSET Nat
  BY <1>2, <1>3 DEF SumsUpTo
<1>5. ASSUME NEW m \in T PROVE m + 1 \in T
  <2>1. ASSUME m + 1 <= n PROVE k[m + 1] = g[m + 1]
    <3>1. /\ m + 1 \in 1 .. n /\ m + 1 \in 1 .. n + 1
          /\ m <= n /\ (m + 1) - 1 = m
      <4>1. m \in Nat
        BY <1>4
      <4> HIDE DEF T
      <4> QED
        BY <1>1, <2>1, <4>1
    <3>2. k[m] = g[m] /\ t[m + 1] = s[m + 1]
      BY <1>1, <1>5, <3>1
    <3>3. k[m + 1] = k[m] + t[m + 1]
      BY <1>3, <3>1 DEF SumsUpTo
    <3>4. g[m + 1] = g[m] + s[m + 1]
      BY <1>2, <3>1 DEF SumsUpTo
    <3> QED
      BY <3>2, <3>3, <3>4
  <2> QED
    BY <2>1
<1> HIDE DEF T
<1>6. T = Nat
  BY <1>4, <1>5, NatSetInduction
<1>7. k[n] = g[n]
  BY <1>1, <1>6 DEF T
<1>8. n + 1 \in 1 .. n + 1 /\ (n + 1) - 1 = n /\ n \in 0 .. n
  BY <1>1
<1>9. k[n + 1] = k[n] + t[n + 1]
  BY <1>1, <1>3, <1>8 DEF SumsUpTo
<1>10. g[n] \in Nat
  BY <1>2, <1>8 DEF SumsUpTo
<1> QED
  BY <1>1, <1>2, <1>3, <1>7, <1>9, <1>10

-----------------------------------------------------------------------------
\* What a book and a history add up to, one row later.
LEMMA TotalAppend ==
  ASSUME NEW fills \in Seq(FillEvents), NEW f \in FillEvents
  PROVE  /\ Total(fills) \in Nat
         /\ Total(Append(fills, f)) = Total(fills) + f.qty
<1> DEFINE s == [i \in 1 .. Len(fills) |-> fills[i].qty]
           k == Append(fills, f)
           t == [i \in 1 .. Len(k) |-> k[i].qty]
           n == Len(fills)
<1>1. /\ n \in Nat /\ Len(k) = n + 1 /\ k[n + 1] = f
      /\ \A i \in 1 .. n : k[i] = fills[i] /\ fills[i] \in FillEvents
  OBVIOUS
<1>2. f.qty \in Nat /\ \A i \in 1 .. n : fills[i].qty \in Nat
  BY <1>1, OrderConstantsOK
<1>3. s \in Seq(Nat) /\ Len(s) = n
  BY <1>1, <1>2
<1> HIDE DEF k, n
<1>4. t \in Seq(Nat) /\ Len(t) = n + 1
  BY <1>1, <1>2
<1>5. \A i \in 1 .. n : t[i] = s[i]
  BY <1>1 DEF n
<1>6. t[n + 1] = f.qty
  BY <1>1
<1> HIDE DEF s, t
<1>7. SumOf(t) = SumOf(s) + f.qty /\ SumOf(s) \in Nat
  BY <1>3, <1>4, <1>5, <1>6, SumOfOneMore
<1> QED
  BY <1>7 DEF Total, s, t, k, n

LEMMA RecordedAppend ==
  ASSUME NEW h \in Seq(HistoryRow), NEW row \in HistoryRow
  PROVE  /\ Recorded(h) \in Nat
         /\ FilledBy(row) \in Nat
         /\ Recorded(Append(h, row)) = Recorded(h) + FilledBy(row)
<1> DEFINE s == [i \in 1 .. Len(h) |-> FilledBy(h[i])]
           k == Append(h, row)
           t == [i \in 1 .. Len(k) |-> FilledBy(k[i])]
           n == Len(h)
<1>1. /\ n \in Nat /\ Len(k) = n + 1 /\ k[n + 1] = row
      /\ \A i \in 1 .. n : k[i] = h[i] /\ h[i] \in HistoryRow
  OBVIOUS
<1>2. \A r \in HistoryRow : FilledBy(r) \in Nat
  BY OrderConstantsOK DEF HistoryRow, FilledBy
<1>3. s \in Seq(Nat) /\ Len(s) = n
  BY <1>1, <1>2
<1> HIDE DEF k, n
<1>4. t \in Seq(Nat) /\ Len(t) = n + 1
  BY <1>1, <1>2
<1>5. \A i \in 1 .. n : t[i] = s[i]
  BY <1>1 DEF n
<1>6. t[n + 1] = FilledBy(row)
  BY <1>1
<1> HIDE DEF s, t
<1>7. SumOf(t) = SumOf(s) + FilledBy(row) /\ SumOf(s) \in Nat
  BY <1>3, <1>4, <1>5, <1>6, SumOfOneMore
<1> QED
  BY <1>2, <1>7 DEF Recorded, s, t, k, n

LEMMA NothingYet == Total(<<>>) = 0 /\ Recorded(<<>>) = 0
<1>1. Len(<<>>) = 0 /\ 1 .. 0 = {}
  OBVIOUS
<1>2. /\ [i \in 1 .. Len(<<>>) |-> <<>>[i].qty] = <<>>
      /\ [i \in 1 .. Len(<<>>) |-> FilledBy(<<>>[i])] = <<>>
  BY <1>1
<1> QED
  BY <1>2, SumOfNone DEF Total, Recorded

-----------------------------------------------------------------------------
\* The filled quantity of every book is the sum of its fills.
BookSums == \A o \in Orders : book[o].filled = Total(book[o].fills)

LEMMA BookSumsPreserved == TypeOK /\ BookSums /\ [Next]_vars => BookSums'
<1> SUFFICES ASSUME TypeOK, BookSums, [Next]_vars PROVE BookSums'
  OBVIOUS
<1>1. ASSUME NEW o \in Orders, NEW q \in Targets, Register(o, q)
      PROVE  BookSums'
  <2> DEFINE b == [target |-> q, filled |-> 0, fills |-> <<>>]
  <2>0. b = [Unregistered EXCEPT !.target = q]
    BY DEF Unregistered
  <2>1. book' = [book EXCEPT ![o] = b]
    BY <1>1, <2>0 DEF Register
  <2>2. b.filled = Total(b.fills)
    BY NothingYet
  <2> HIDE DEF b
  <2> QED
    BY <2>1, <2>2 DEF TypeOK, BookSums
<1>2. ASSUME NEW f \in FillEvents, book' = Booked(f) PROVE BookSums'
  <2> DEFINE c == [book[f.order] EXCEPT !.filled = @ + f.qty,
                                        !.fills = Append(@, f)]
  <2>1. f.order \in Orders /\ book[f.order] \in Books
    BY OrderConstantsOK DEF TypeOK, Books
  <2>2. book' = [book EXCEPT ![f.order] = c]
    BY <1>2, <2>1 DEF Booked, TypeOK, Books
  <2>3. /\ c.filled = book[f.order].filled + f.qty
        /\ c.fills = Append(book[f.order].fills, f)
        /\ book[f.order].fills \in Seq(FillEvents)
    BY <2>1 DEF Books
  <2> HIDE DEF c
  <2>4. c.filled = Total(c.fills)
    BY <2>1, <2>3, TotalAppend DEF BookSums
  <2> QED
    BY <2>1, <2>2, <2>4 DEF TypeOK, BookSums
<1>3. ASSUME NEW kept \in SUBSET Orders, Restart(kept) PROVE BookSums'
  BY <1>3, NothingYet DEF Restart, Unregistered, BookSums
<1>4. ASSUME book' = book PROVE BookSums'
  BY <1>4 DEF BookSums
<1> QED
  BY <1>1, <1>2, <1>3, <1>4
     DEF Next, Open, Apply, ApplyRejects, ApplyRaises, Move, vars

\* However often, however late and in whatever order the venue reports, the
\* filled quantity of an order is the sum of its distinct reports.
THEOREM FilledIsTheSum == Spec => []BookIsSumOfDistinctFills
<1>1. Init => TypeOK /\ BookHoldsDistinctFills /\ BookSums
  BY InitType, InitBook, NothingYet DEF Init, Unregistered, BookSums
<1>2. TypeOK /\ BookHoldsDistinctFills /\ BookSums /\ [Next]_vars
        => (TypeOK /\ BookHoldsDistinctFills /\ BookSums)'
  BY TypePreserved, BookPreserved, BookSumsPreserved
<1>3. BookHoldsDistinctFills /\ BookSums => BookIsSumOfDistinctFills
  BY DEF BookSums, BookIsSumOfDistinctFills
<1> QED
  BY <1>1, <1>2, <1>3, PTL DEF Spec

-----------------------------------------------------------------------------
\* FilledIsEarned, of an order with history h, registered for a.
Earned(h, a) ==
  /\ Recorded(h) <= a
  /\ (\E i \in 1 .. Len(h) : h[i].new = "FILLED") <=> a > 0 /\ Recorded(h) = a

\* What ties an order's book b to its state s and its history h: before it is
\* submitted nothing is asked or recorded; while it is registered and open,
\* the book agrees with the history.  A restart empties the book, and a
\* restarted order is never registered again: the tie is lost but not broken.
Tally(s, h, b, a) ==
  /\ s \in {"ABSENT", "NEW"} => a = 0 /\ Recorded(h) = 0
  /\ b # Unregistered =>
       /\ s \notin {"ABSENT", "NEW"}
       /\ s \in {"PENDING", "PARTIALLY_FILLED"} =>
            b.target = a /\ b.filled = Recorded(h)

EarnedInv ==
  \A o \in Orders : /\ Earned(hist[o], asked[o])
                    /\ Tally(state[o], hist[o], book[o], asked[o])

LEMMA EarnedImplies == EarnedInv => FilledIsEarned
BY DEF EarnedInv, Earned, FilledIsEarned

\* When a new row ends in FILLED.
LEMMA FilledRow ==
  ASSUME NEW h \in Seq(HistoryRow), NEW row \in HistoryRow
  PROVE  (\E i \in 1 .. Len(Append(h, row)) : Append(h, row)[i].new = "FILLED")
           <=> (\E i \in 1 .. Len(h) : h[i].new = "FILLED") \/ row.new = "FILLED"
<1> DEFINE k == Append(h, row)
<1>1. /\ Len(h) \in Nat /\ Len(k) = Len(h) + 1 /\ k[Len(h) + 1] = row
      /\ \A i \in 1 .. Len(h) : k[i] = h[i]
  OBVIOUS
<1>2. \A i : i \in 1 .. Len(k) <=> i \in 1 .. Len(h) \/ i = Len(h) + 1
  BY <1>1
<1> HIDE DEF k
<1>3. (\E i \in 1 .. Len(k) : k[i].new = "FILLED")
        <=> (\E i \in 1 .. Len(h) : h[i].new = "FILLED") \/ row.new = "FILLED"
  BY <1>1, <1>2
<1> QED
  BY <1>3 DEF k

\* A row of no fill that is not FILLED changes nothing that is earned.
LEMMA EarnedByOthers ==
  ASSUME NEW h \in Seq(HistoryRow), NEW row \in HistoryRow, NEW a \in Nat,
         row.by = NoFill, row.new # "FILLED", Earned(h, a)
  PROVE  Earned(Append(h, row), a) /\ Recorded(Append(h, row)) = Recorded(h)
<1>1. FilledBy(row) = 0
  BY DEF FilledBy
<1>2. Recorded(Append(h, row)) = Recorded(h)
  BY <1>1, RecordedAppend
<1> QED
  BY <1>2, FilledRow DEF Earned

LEMMA InitEarned == Init => EarnedInv
<1> SUFFICES ASSUME Init, NEW o \in Orders
             PROVE  /\ Earned(hist[o], asked[o])
                    /\ Tally(state[o], hist[o], book[o], asked[o])
  BY DEF EarnedInv
<1>1. hist[o] = <<>> /\ asked[o] = 0 /\ book[o] = Unregistered
  BY DEF Init
<1>2. Len(<<>>) = 0 /\ 1 .. 0 = {}
  OBVIOUS
<1> QED
  BY <1>1, <1>2, NothingYet DEF Earned, Tally

LEMMA EarnedPreserved == TypeOK /\ EarnedInv /\ [Next]_vars => EarnedInv'
<1> SUFFICES ASSUME TypeOK, EarnedInv, [Next]_vars PROVE EarnedInv'
  OBVIOUS
<1> DEFINE Good(s, h, b, a) == Earned(h, a) /\ Tally(s, h, b, a)
<1>1. \A o \in Orders :
        /\ Good(state[o], hist[o], book[o], asked[o])
        /\ hist[o] \in Seq(HistoryRow) /\ asked[o] \in Nat /\ book[o] \in Books
        /\ Recorded(hist[o]) \in Nat
  <2>1. \A o \in Orders :
          hist[o] \in Seq(HistoryRow) /\ asked[o] \in Nat /\ book[o] \in Books
    BY DEF TypeOK, Books
  <2>2. [prev |-> "NEW", new |-> "NEW", by |-> NoFill] \in HistoryRow
    BY DEF HistoryRow, States
  <2> QED
    BY <2>1, <2>2, RecordedAppend DEF EarnedInv
<1> HIDE DEF Good
\* It is enough to look at the one order a step touches.
<1>2. ASSUME NEW o \in Orders,
             \A p \in Orders \ {o} :
               /\ hist'[p] = hist[p] /\ state'[p] = state[p]
               /\ book'[p] = book[p] /\ asked'[p] = asked[p],
             Good(state'[o], hist'[o], book'[o], asked'[o])
      PROVE  EarnedInv'
  <2>1. \A p \in Orders : Good(state'[p], hist'[p], book'[p], asked'[p])
    BY <1>1, <1>2
  <2> QED
    BY <2>1 DEF EarnedInv, Good
<1>3. ASSUME NEW o \in Orders, Open(o) PROVE EarnedInv'
  <2> DEFINE row == [prev |-> "NEW", new |-> "NEW", by |-> NoFill]
  <2>1. /\ hist' = [hist EXCEPT ![o] = <<row>>]
        /\ state[o] = "ABSENT" /\ state' = [state EXCEPT ![o] = "NEW"]
        /\ book' = book /\ asked' = asked
    BY <1>3 DEF Open
  <2>2. row \in HistoryRow /\ <<>> \in Seq(HistoryRow)
    BY DEF HistoryRow, States
  <2>3. row.by = NoFill /\ row.new # "FILLED"
    OBVIOUS
  <2>4. <<row>> = Append(<<>>, row)
    OBVIOUS
  <2>5. asked[o] = 0 /\ book[o] = Unregistered
    BY <1>1, <2>1 DEF Good, Tally
  <2>6. Earned(<<>>, 0)
    <3>1. Len(<<>>) = 0 /\ 1 .. 0 = {}
      OBVIOUS
    <3> QED
      BY <3>1, NothingYet DEF Earned
  <2> HIDE DEF row
  <2>7. Earned(<<row>>, 0) /\ Recorded(<<row>>) = 0
    BY <2>2, <2>3, <2>4, <2>6, NothingYet, EarnedByOthers
  <2>8. Good("NEW", <<row>>, Unregistered, 0)
    BY <2>7 DEF Good, Tally
  <2>9. /\ state'[o] = "NEW" /\ hist'[o] = <<row>>
        /\ book'[o] = Unregistered /\ asked'[o] = 0
        /\ \A p \in Orders \ {o} :
             /\ hist'[p] = hist[p] /\ state'[p] = state[p]
             /\ book'[p] = book[p] /\ asked'[p] = asked[p]
    BY <2>1, <2>5 DEF TypeOK
  <2> QED
    BY <1>2, <2>8, <2>9
<1>4. ASSUME NEW o \in Orders, NEW q \in Targets, Register(o, q)
      PROVE  EarnedInv'
  <2> DEFINE row == [prev |-> state[o], new |-> "PENDING", by |-> NoFill]
             b == [target |-> q, filled |-> 0, fills |-> <<>>]
  <2>1. Transition(o, "PENDING", NoFill) /\ state[o] = "NEW"
    BY <1>4, OnlyNewIsSubmitted DEF Register, Transition
  <2>2. /\ row \in HistoryRow
        /\ state'[o] = "PENDING"
        /\ hist'[o] = Append(hist[o], row)
        /\ \A p \in Orders \ {o} : state'[p] = state[p] /\ hist'[p] = hist[p]
    BY <2>1, TransitionRow
  <2>3. /\ book' = [book EXCEPT ![o] = b]
        /\ asked' = [asked EXCEPT ![o] = q]
    <3>1. b = [Unregistered EXCEPT !.target = q]
      BY DEF Unregistered
    <3> QED
      BY <1>4, <3>1 DEF Register
  <2>4. q \in Nat /\ q > 0
    BY OrderConstantsOK
  <2>5. b.target = q /\ b.filled = 0 /\ row.by = NoFill /\ row.new # "FILLED"
    OBVIOUS
  <2> HIDE DEF row, b
  <2>6. Earned(hist[o], 0) /\ Recorded(hist[o]) = 0
    BY <1>1, <2>1 DEF Good, Tally
  <2>7. /\ Earned(Append(hist[o], row), 0)
        /\ Recorded(Append(hist[o], row)) = 0
    BY <1>1, <2>2, <2>5, <2>6, EarnedByOthers
  <2>8. Good("PENDING", Append(hist[o], row), b, q)
    BY <2>4, <2>5, <2>7 DEF Good, Earned, Tally
  <2>9. /\ book'[o] = b /\ asked'[o] = q
        /\ \A p \in Orders \ {o} : book'[p] = book[p] /\ asked'[p] = asked[p]
    BY <2>3 DEF TypeOK
  <2> QED
    BY <1>2, <2>2, <2>8, <2>9
<1>5. ASSUME NEW f \in FillEvents, Apply(f) PROVE EarnedInv'
  <2> DEFINE o == f.order
             row == [prev |-> state[o], new |-> FillState(f), by |-> f]
             c == [book[o] EXCEPT !.filled = @ + f.qty, !.fills = Append(@, f)]
  <2>1. o \in Orders /\ f.qty \in Nat /\ f.qty > 0 /\ f # NoFill
    BY OrderConstantsOK
  <2>2. Transition(o, FillState(f), f) /\ state[o] # "ABSENT"
    BY <1>5, MovedWasOpen DEF Apply
  <2>3. /\ row \in HistoryRow
        /\ FillState(f) \in LegalNext(state[o])
        /\ state'[o] = FillState(f)
        /\ hist'[o] = Append(hist[o], row)
        /\ \A p \in Orders \ {o} : state'[p] = state[p] /\ hist'[p] = hist[p]
    BY <2>1, <2>2, TransitionRow
  <2>4. /\ book[o] # Unregistered
        /\ book[o].filled < book[o].target
        /\ book[o].filled + f.qty <= book[o].target
        /\ asked' = asked
    BY <1>5 DEF Apply, Fresh, Fits
  <2>5. book' = [book EXCEPT ![o] = c]
    BY <1>1, <1>5, <2>1 DEF Apply, Booked, TypeOK, Books
  <2>6. /\ book'[o] = c
        /\ \A p \in Orders \ {o} : book'[p] = book[p] /\ asked'[p] = asked[p]
    BY <2>1, <2>4, <2>5 DEF TypeOK
  <2>7. c.filled = book[o].filled + f.qty /\ c.target = book[o].target
    BY <1>1, <2>1 DEF Books
  <2>8. /\ FillState(f) \in {"FILLED", "PARTIALLY_FILLED"}
        /\ FillState(f) = "FILLED" <=> c.filled >= c.target
    BY <1>1, <2>1, <2>5, <2>6, <2>7, <1>5 DEF FillState, Apply
  <2>9. state[o] \in {"PENDING", "PARTIALLY_FILLED"}
    BY <2>3, <2>8 DEF LegalNext
  <2>10. /\ book[o].target = asked[o] /\ book[o].filled = Recorded(hist[o])
         /\ Earned(hist[o], asked[o])
    BY <1>1, <2>1, <2>4, <2>9 DEF Good, Tally
  <2>11. row.new = FillState(f) /\ FilledBy(row) = f.qty
    BY <2>1 DEF FilledBy
  <2>12. book[o].filled \in Nat /\ book[o].target \in Nat /\ asked[o] \in Nat
         /\ hist[o] \in Seq(HistoryRow)
    BY <1>1, <2>1 DEF Books
  <2> HIDE DEF o, row, c
  <2>13. Recorded(Append(hist[o], row)) = c.filled
    BY <2>3, <2>7, <2>10, <2>11, <2>12, RecordedAppend
  <2>14. ~ \E i \in 1 .. Len(hist[o]) : hist[o][i].new = "FILLED"
    BY <2>4, <2>10, <2>12 DEF Earned
  <2>15. (\E i \in 1 .. Len(Append(hist[o], row)) :
            Append(hist[o], row)[i].new = "FILLED") <=> c.filled >= c.target
    BY <2>3, <2>8, <2>11, <2>12, <2>14, FilledRow
  <2>16. c.filled \in Nat /\ c.filled > 0 /\ c.filled <= asked[o]
         /\ c.target = asked[o]
    BY <2>1, <2>4, <2>7, <2>10, <2>12
  <2>17. Earned(Append(hist[o], row), asked[o])
    BY <2>12, <2>13, <2>15, <2>16 DEF Earned
  <2>18. Tally(FillState(f), Append(hist[o], row), c, asked[o])
    BY <2>8, <2>13, <2>16 DEF Tally
  <2>19. Good(state'[o], hist'[o], book'[o], asked'[o])
    BY <2>3, <2>4, <2>6, <2>17, <2>18 DEF Good
  <2> QED
    BY <1>2, <2>1, <2>3, <2>6, <2>19
<1>6. ASSUME NEW f \in FillEvents, ApplyRejects(f) PROVE EarnedInv'
  BY <1>6 DEF ApplyRejects, EarnedInv
<1>7. ASSUME NEW f \in FillEvents, ApplyRaises(f) PROVE EarnedInv'
  <2> DEFINE o == f.order
             c == [book[o] EXCEPT !.filled = @ + f.qty, !.fills = Append(@, f)]
  <2>1. o \in Orders
    BY OrderConstantsOK
  <2>2. /\ book[o] # Unregistered
        /\ book[o].filled + f.qty <= book[o].target
        /\ FillState(f) \notin LegalNext(state[o])
        /\ book' = Booked(f)
        /\ state' = state /\ hist' = hist /\ asked' = asked
    BY <1>7 DEF ApplyRaises, Fresh, Fits
  <2>3. state[o] \notin {"PENDING", "PARTIALLY_FILLED"}
    BY <2>2 DEF FillState, LegalNext
  <2>4. /\ Earned(hist[o], asked[o])
        /\ state[o] \notin {"ABSENT", "NEW"}
    BY <1>1, <2>1, <2>2 DEF Good, Tally
  <2>5. Good(state[o], hist[o], book'[o], asked[o])
    BY <2>3, <2>4 DEF Good, Tally
  <2>6. \A p \in Orders \ {o} : book'[p] = book[p]
    BY <2>1, <2>2 DEF Booked, TypeOK
  <2> QED
    BY <1>2, <2>1, <2>2, <2>5, <2>6
<1>8. ASSUME NEW o \in Orders, NEW new \in CallerMoves, Move(o, new)
      PROVE  EarnedInv'
  <2> DEFINE row == [prev |-> state[o], new |-> new, by |-> NoFill]
  <2>1. /\ Transition(o, new, NoFill) /\ state[o] # "ABSENT"
        /\ book' = book /\ asked' = asked
    BY <1>8 DEF Move
  <2>2. /\ row \in HistoryRow
        /\ new \in LegalNext(state[o])
        /\ state'[o] = new
        /\ hist'[o] = Append(hist[o], row)
        /\ \A p \in Orders \ {o} : state'[p] = state[p] /\ hist'[p] = hist[p]
    BY <2>1, TransitionRow
  <2>3. new \in {"CANCELLED", "ERROR", "CLOSED"} /\ row.by = NoFill
        /\ row.new = new
    BY OrderConstantsOK
  <2> HIDE DEF row
  <2>4. /\ Earned(Append(hist[o], row), asked[o])
        /\ Recorded(Append(hist[o], row)) = Recorded(hist[o])
    BY <1>1, <2>2, <2>3, EarnedByOthers DEF Good
  <2>5. Good(new, Append(hist[o], row), book[o], asked[o])
    BY <2>3, <2>4 DEF Good, Tally
  <2> QED
    BY <1>2, <2>1, <2>2, <2>5
<1>9. ASSUME NEW kept \in SUBSET Orders, Restart(kept) PROVE EarnedInv'
  <2>1. Len(<<>>) = 0 /\ 1 .. 0 = {}
    OBVIOUS
  <2>2. ASSUME NEW o \in Orders
        PROVE  Good(state'[o], hist'[o], book'[o], asked'[o])
    <3>1. book'[o] = Unregistered
      BY <1>9, AfterRestart
    <3>2. CASE state'[o] = state[o] /\ hist'[o] = hist[o] /\ asked'[o] = asked[o]
      BY <1>1, <3>1, <3>2 DEF Good, Tally
    <3>3. CASE state'[o] = "ABSENT" /\ hist'[o] = <<>> /\ asked'[o] = 0
      BY <2>1, <3>1, <3>3, NothingYet DEF Good, Earned, Tally
    <3> QED
      BY <1>9, <3>2, <3>3, AfterRestart
  <2> QED
    BY <2>2 DEF EarnedInv, Good
<1>10. CASE UNCHANGED vars
  BY <1>10 DEF vars, EarnedInv
<1> QED
  BY <1>3, <1>4, <1>5, <1>6, <1>7, <1>8, <1>9, <1>10 DEF Next

\* An order is FILLED exactly when the fills its history records, in this
\* process or in an earlier one, add up to what was asked; whatever was
\* cancelled, rejected or restarted, they never exceed it.
THEOREM FilledOrdersAreEarned == Spec => []FilledIsEarned
<1>1. Init => TypeOK /\ EarnedInv
  BY InitType, InitEarned
<1>2. TypeOK /\ EarnedInv /\ [Next]_vars => (TypeOK /\ EarnedInv)'
  BY TypePreserved, EarnedPreserved
<1> QED
  BY <1>1, <1>2, EarnedImplies, PTL DEF Spec
=============================================================================

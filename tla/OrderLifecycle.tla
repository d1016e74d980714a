----------------------------- MODULE OrderLifecycle -----------------------------
(***************************************************************************)
(* The lifecycle of orders after submission: OrderStateMachine, the sole   *)
(* writer of an order's state, and FillHandler, which books the fills a    *)
(* venue reports and drives the state machine.                             *)
(*                                                                         *)
(* The venue may report a fill late, twice, or in any order; the caller    *)
(* may cancel, fail or close an order between two fills; the process may   *)
(* restart, with an empty fill book and with the order records it is given *)
(* (the constructor takes them "for replay"; the code keeps none of them   *)
(* itself).  Quantities are in units: the float tolerances of the code     *)
(* (1e-12, 1e-9) are below one unit.                                       *)
(***************************************************************************)
EXTENDS Naturals, Sequences

CONSTANTS
  Orders,      \* order ids
  FillEvents,  \* fills the venue may report: records [order, qty, key]
  NoFill,      \* in a history row: the transition was not made by a fill
  Targets,     \* quantities an order may be registered for
  CallerMoves, \* states the caller drives an order to by itself
  MaxRestarts  \* bound on the restarts explored

ASSUME OrderConstantsOK ==
  /\ \A f \in FillEvents : f.order \in Orders /\ f.qty \in Nat \ {0}
  /\ NoFill \notin FillEvents
  /\ Targets \subseteq Nat \ {0}
  /\ CallerMoves \subseteq {"CANCELLED", "ERROR", "CLOSED"}
  /\ MaxRestarts \in Nat

VARIABLES
  state,    \* OrderRecord.state, "ABSENT" before open
  hist,     \* OrderRecord.history
  book,     \* FillHandler._book
  seen,     \* FillHandler._seen
  asked,    \* history: the quantity each order record was registered for
  restarts  \* restarts so far

vars == <<state, hist, book, seen, asked, restarts>>
-----------------------------------------------------------------------------
States ==
  {"NEW", "PENDING", "PARTIALLY_FILLED", "FILLED", "CANCELLED", "ERROR",
   "CLOSED"}

\* Mutant: a submitted order may be submitted again.
LegalNext_Resubmit(s) ==
  CASE s = "NEW"              -> {"PENDING", "ERROR"}
    [] s = "PENDING"          -> {"PENDING", "PARTIALLY_FILLED", "FILLED",
                                  "CANCELLED", "ERROR"}
    [] s = "PARTIALLY_FILLED" -> {"PENDING", "PARTIALLY_FILLED", "FILLED",
                                  "CANCELLED", "ERROR"}
    [] OTHER                  -> {"CLOSED"}

\* LEGAL_ORDER_TRANSITIONS
LegalNext(s) ==
  CASE s = "NEW"                             -> {"PENDING", "ERROR"}
    [] s \in {"PENDING", "PARTIALLY_FILLED"} ->
         {"PARTIALLY_FILLED", "FILLED", "CANCELLED", "ERROR"}
    [] s \in {"FILLED", "CANCELLED", "ERROR"} -> {"CLOSED"}
    [] OTHER                                 -> {}

HistoryRow == [prev : States, new : States, by : FillEvents \cup {NoFill}]

Unregistered == [target |-> 0, filled |-> 0, fills |-> <<>>]

\* The sum of a sequence of quantities.
SumOf(quantities) ==
  LET upTo[i \in 0 .. Len(quantities)] ==
        IF i = 0 THEN 0 ELSE upTo[i - 1] + quantities[i]
  IN  upTo[Len(quantities)]

Total(fills) == SumOf([i \in 1 .. Len(fills) |-> fills[i].qty])

\* Mutant: the edge is not checked.
Transition_Unchecked(o, new, by) ==
  /\ state' = [state EXCEPT ![o] = new]
  /\ hist' = [hist EXCEPT ![o] =
                Append(@, [prev |-> state[o], new |-> new, by |-> by])]

\* OrderStateMachine.transition, when it does not raise.
Transition(o, new, by) ==
  /\ new \in LegalNext(state[o])
  /\ state' = [state EXCEPT ![o] = new]
  /\ hist' = [hist EXCEPT ![o] =
                Append(@, [prev |-> state[o], new |-> new, by |-> by])]

Init ==
  /\ state = [o \in Orders |-> "ABSENT"]
  /\ hist = [o \in Orders |-> <<>>]
  /\ book = [o \in Orders |-> Unregistered]
  /\ seen = {}
  /\ asked = [o \in Orders |-> 0]
  /\ restarts = 0
-----------------------------------------------------------------------------
\* OrderStateMachine.open
Open(o) ==
  /\ state[o] = "ABSENT"
  /\ state' = [state EXCEPT ![o] = "NEW"]
  /\ hist' = [hist EXCEPT ![o] =
                <<[prev |-> "NEW", new |-> "NEW", by |-> NoFill]>>]
  /\ UNCHANGED <<book, seen, asked, restarts>>

\* FillHandler.register: the state machine first, then the book.
Register(o, q) ==
  /\ book[o] = Unregistered
  /\ Transition(o, "PENDING", NoFill)
  /\ book' = [book EXCEPT ![o] = [Unregistered EXCEPT !.target = q]]
  /\ asked' = [asked EXCEPT ![o] = q]
  /\ UNCHANGED <<seen, restarts>>

\* A fill apply looks at: its order is registered, its key is new.
Fresh(f) == book[f.order] # Unregistered /\ f \notin seen

\* The order is not yet filled and the fill does not overfill it.
Fits(f) ==
  /\ book[f.order].filled < book[f.order].target
  /\ book[f.order].filled + f.qty <= book[f.order].target

Booked(f) ==
  [book EXCEPT ![f.order].filled = @ + f.qty,
               ![f.order].fills = Append(@, f)]

\* Mutant: the order is FILLED on its first fill.
FillState_Eager(f) == "FILLED"

FillState(f) ==
  IF Booked(f)[f.order].filled >= book[f.order].target
  THEN "FILLED" ELSE "PARTIALLY_FILLED"

\* Mutant: the key of an applied fill is not remembered.
Apply_NotSeen(f) ==
  /\ Fresh(f)
  /\ Fits(f)
  /\ book' = Booked(f)
  /\ Transition(f.order, FillState(f), f)
  /\ UNCHANGED <<seen, asked, restarts>>

\* FillHandler.apply.  A key seen before changes nothing.
Apply(f) ==
  /\ Fresh(f)
  /\ Fits(f)
  /\ seen' = seen \cup {f}
  /\ book' = Booked(f)
  /\ Transition(f.order, FillState(f), f)
  /\ UNCHANGED <<asked, restarts>>

\* apply raises on a filled order or an overfill, after it added the key.
ApplyRejects(f) ==
  /\ Fresh(f)
  /\ ~Fits(f)
  /\ seen' = seen \cup {f}
  /\ UNCHANGED <<state, hist, book, asked, restarts>>

\* transition raises in the last step of apply: the fill stays booked.
ApplyRaises(f) ==
  /\ Fresh(f)
  /\ Fits(f)
  /\ FillState(f) \notin LegalNext(state[f.order])
  /\ seen' = seen \cup {f}
  /\ book' = Booked(f)
  /\ UNCHANGED <<state, hist, asked, restarts>>

\* A caller of transition: cancel, venue error, close.
Move(o, new) ==
  /\ state[o] # "ABSENT"
  /\ Transition(o, new, NoFill)
  /\ UNCHANGED <<book, seen, asked, restarts>>

\* OrderStateMachine(records) and a new FillHandler: the orders whose records
\* the constructor is given are as they were, of the others nothing is left.
Restart(kept) ==
  /\ restarts < MaxRestarts
  /\ restarts' = restarts + 1
  /\ state' = [o \in Orders |-> IF o \in kept THEN state[o] ELSE "ABSENT"]
  /\ hist' = [o \in Orders |-> IF o \in kept THEN hist[o] ELSE <<>>]
  /\ asked' = [o \in Orders |-> IF o \in kept THEN asked[o] ELSE 0]
  /\ book' = [o \in Orders |-> Unregistered]
  /\ seen' = {}

Next ==
  \/ \E o \in Orders : Open(o)
  \/ \E o \in Orders, q \in Targets : Register(o, q)
  \/ \E f \in FillEvents : Apply(f) \/ ApplyRejects(f) \/ ApplyRaises(f)
  \/ \E o \in Orders, new \in CallerMoves : Move(o, new)
  \/ \E kept \in SUBSET Orders : Restart(kept)

Spec == Init /\ [][Next]_vars
-----------------------------------------------------------------------------
TypeOK ==
  /\ state \in [Orders -> States \cup {"ABSENT"}]
  /\ hist \in [Orders -> Seq(HistoryRow)]
  /\ book \in [Orders -> [target : Nat, filled : Nat, fills : Seq(FillEvents)]]
  /\ seen \subseteq FillEvents
  /\ asked \in [Orders -> Nat]
  /\ restarts \in 0 .. MaxRestarts

\* What the rows of a history say was filled.
FilledBy(row) == IF row.by = NoFill THEN 0 ELSE row.by.qty

Recorded(h) == SumOf([i \in 1 .. Len(h) |-> FilledBy(h[i])])

\* The history is the canonical replay log: from open on, replaying its rows
\* over the legal edges gives the state, whatever was rejected or restarted.
HistoryReplays ==
  \A o \in Orders :
    LET h == hist[o] IN
    /\ h = <<>> <=> state[o] = "ABSENT"
    /\ h # <<>> => state[o] = h[Len(h)].new
    /\ \A i \in 2 .. Len(h) :
         h[i].prev = h[i - 1].new /\ h[i].new \in LegalNext(h[i].prev)

\* Book b of order o, when keys are the reports seen.
HoldsDistinctFills(o, b, keys) ==
  /\ b.filled <= b.target
  /\ \A i, j \in 1 .. Len(b.fills) : b.fills[i] = b.fills[j] => i = j
  /\ \A i \in 1 .. Len(b.fills) : b.fills[i] \in keys /\ b.fills[i].order = o

\* No report is booked twice or for another order, and no order beyond its
\* target, however often and however late the venue reports.
BookHoldsDistinctFills ==
  \A o \in Orders : HoldsDistinctFills(o, book[o], seen)

\* The filled quantity is the sum of the distinct reports booked.
BookIsSumOfDistinctFills ==
  /\ BookHoldsDistinctFills
  /\ \A o \in Orders : book[o].filled = Total(book[o].fills)

\* An order is FILLED exactly when the fills in its history, in this process
\* or in an earlier one its record comes from, add up to what was asked; they
\* never exceed it.
FilledIsEarned ==
  \A o \in Orders :
    /\ Recorded(hist[o]) <= asked[o]
    /\ (\E i \in 1 .. Len(hist[o]) : hist[o][i].new = "FILLED") <=>
         asked[o] > 0 /\ Recorded(hist[o]) = asked[o]

\* A restart never lets a fill count twice on an order record that outlives it:
\* though the keys seen are lost, no history records the same report in two
\* rows.  (An order opened anew because its record was lost starts a history of
\* its own, where a report repeated by the venue counts again.)
NoFillTwiceAcrossRestarts ==
  \A o \in Orders :
    \A i, j \in 1 .. Len(hist[o]) :
      hist[o][i].by # NoFill /\ hist[o][i].by = hist[o][j].by => i = j

\* What FillHandler says of itself: it only ever calls fsm.transition with
\* legal edges, so that every fill it books has its transition.
FillsDriveLegalEdges ==
  [][\A o \in Orders :
       Len(book'[o].fills) > Len(book[o].fills) =>
         Len(hist'[o]) > Len(hist[o])]_vars
=============================================================================

--------------------------- MODULE MCOrderLifecycle ---------------------------
(* Instances of OrderLifecycle for TLC. *)
EXTENDS OrderLifecycle

CONSTANTS o1, o2

TwoOrders == {o1, o2}

\* Order o1 may be filled by two halves, one of them reported with two
\* prices, or by one fill; o2 by one fill.
VenueFills ==
  {[order |-> o1, qty |-> 1, key |-> "a"], [order |-> o1, qty |-> 1, key |-> "b"],
   [order |-> o1, qty |-> 2, key |-> "c"], [order |-> o2, qty |-> 1, key |-> "d"]}

None == [order |-> "none", qty |-> 0, key |-> "none"]
=============================================================================

------------------------------ MODULE BoxOffice ------------------------------
(****************************************************************************)
(* What the ordering pipeline promises, whatever its web workers, its task  *)
(* workers and the payment gateway do: an order's payment is authorised,    *)
(* and e-tickets are issued in complete batches, only for an authorised     *)
(* order.  The pipeline itself is OrderPipeline, which implements this      *)
(* specification.                                                           *)
(****************************************************************************)
EXTENDS Naturals

CONSTANTS
  Order,      \* the orders
  Quantity    \* Quantity[o]: how many tickets order o is for, at least one

VARIABLES
  authorised, \* the orders somebody agreed to pay, or that need no payment
  issued      \* issued[o]: the number of e-tickets that exist for o

boxVars == <<authorised, issued>>

TypeOK ==
  /\ authorised \subseteq Order
  /\ issued \in [Order -> Nat]

Init ==
  /\ authorised \subseteq Order
  /\ issued = [o \in Order |-> 0]

Authorise(o) ==
  /\ o \notin authorised
  /\ authorised' = authorised \cup {o}
  /\ UNCHANGED issued

\* A whole batch, never part of one.
IssueBatch(o) ==
  /\ o \in authorised
  /\ issued' = [issued EXCEPT ![o] = @ + Quantity[o]]
  /\ UNCHANGED authorised

Next == \E o \in Order : Authorise(o) \/ IssueBatch(o)

Spec == Init /\ [][Next]_boxVars
==============================================================================

---------------------------- MODULE MCTicketSales -----------------------------
(* A small instance of TicketSales for TLC. *)
EXTENDS TicketSales, TLC

EachOne   == [o \in Order |-> 1]
Nobody    == {}
OnlyYes   == {"approved"}
Lots      == {1, 2}

\* Celery workers are interchangeable, and so are the web workers of the stock services.
Symmetry  == Permutations(Worker) \cup Permutations(Clerk)
==============================================================================

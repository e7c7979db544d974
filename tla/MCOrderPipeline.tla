--------------------------- MODULE MCOrderPipeline ---------------------------
(* Small instances of OrderPipeline for TLC. *)
EXTENDS OrderPipeline, TLC

CONSTANTS o1, o2, o3

OneEach      == [o \in Order |-> 1]
OneAndTwo    == [o \in Order |-> IF o = o1 THEN 1 ELSE 2]
SomeEvents   == {"approved", "failed"}
Approvals    == {"approved", "pending"}
Nobody       == {}
OnlyO1       == {o1}
AllFaults    == {"abort", "rollback", "task"}
NoFaults     == {}
Unlimited    == -1

\* Web workers are interchangeable, and so are Celery workers.
Symmetry     == Permutations(Handler) \cup Permutations(Worker)
==============================================================================

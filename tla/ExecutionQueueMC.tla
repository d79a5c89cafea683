--------------------------- MODULE ExecutionQueueMC ---------------------------
(* Session s has the top-level executions 1 (with the child 2) and 3;        *)
(* session t has 4.                                                          *)
EXTENDS ExecutionQueue

MCJobs == {[execution |-> 1, session |-> "s", group |-> 1],
           [execution |-> 2, session |-> "s", group |-> 1],
           [execution |-> 3, session |-> "s", group |-> 3],
           [execution |-> 4, session |-> "t", group |-> 4]}
===============================================================================

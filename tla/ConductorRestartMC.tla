--------------------------- MODULE ConductorRestartMC ---------------------------
(* An orchestration of one node, whose interface agent decides on a failure. *)
EXTENDS ConductorRestart

MCNodeOrder == <<"only">>

MCNodeCallable == [n \in {"only"} |-> "edit"]

MCDependsOn == [n \in {"only"} |-> {}]
===============================================================================

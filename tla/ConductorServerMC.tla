--------------------------- MODULE ConductorServerMC ---------------------------
(* One orchestration of two nodes, "build" and then "test", beside another    *)
(* top-level execution of the same session.                                   *)
EXTENDS ConductorServer

MCNodeOrder == <<"build", "test">>

MCNodeCallable == [n \in {"build", "test"} |-> "edit"]

MCDependsOn == [n \in {"build", "test"} |-> IF n = "test" THEN {"build"} ELSE {}]

(* The same with the one node "build", for the run with fairness and errors. *)
MCOneNode == <<"build">>

MCOneCallable == [n \in {"build"} |-> "edit"]

MCNoDependency == [n \in {"build"} |-> {}]
===============================================================================

-------------------------- MODULE ConductorRuntimeMC --------------------------
(* Two parallel nodes and a third that waits for both; one interface agent. *)
EXTENDS ConductorRuntime

MCNodeOrder == <<"left", "right", "join">>

MCNodeCallable == [n \in {"left", "right", "join"} |-> IF n = "join" THEN "test" ELSE "edit"]

MCDependsOn == [n \in {"left", "right", "join"} |->
                  IF n = "join" THEN {"left", "right"} ELSE {}]
===============================================================================

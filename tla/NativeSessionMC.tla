---------------------------- MODULE NativeSessionMC ----------------------------
(* Executions with different tools; two of them side by side.                  *)
EXTENDS NativeSession

MCProvision == [e \in Executions |-> IF e = 1 THEN {"read"} ELSE {"read", "write"}]
===============================================================================

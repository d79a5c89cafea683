---------------------------- MODULE ReadersWriter ----------------------------
(***************************************************************************)
(* What the workspace lease manager promises, independent of its mutex,    *)
(* its condition variable and its table: on each workspace, any number of  *)
(* executions read or exactly one writes.                                  *)
(***************************************************************************)
CONSTANTS Executions, Workspaces

\* WorkspaceLeaseMode of phenix-core.
Modes == {"Read", "Write"}

Grant == [execution : Executions, mode : Modes]

VARIABLE granted \* granted[w]: the leases in force on workspace w

Compatible(w, mode) ==
    \A g \in granted[w] : g.mode = "Read" /\ mode = "Read"

Init == granted = [w \in Workspaces |-> {}]

Give(w, e, mode) ==
    /\ Compatible(w, mode)
    /\ \A v \in Workspaces : \A g \in granted[v] : g.execution # e
    /\ granted' = [granted EXCEPT ![w] = @ \cup {[execution |-> e, mode |-> mode]}]

Return(w, g) ==
    /\ g \in granted[w]
    /\ granted' = [granted EXCEPT ![w] = @ \ {g}]

Next == \E w \in Workspaces :
            \/ \E e \in Executions, mode \in Modes : Give(w, e, mode)
            \/ \E g \in granted[w] : Return(w, g)

Spec == Init /\ [][Next]_granted
==============================================================================

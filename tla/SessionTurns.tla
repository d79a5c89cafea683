----------------------------- MODULE SessionTurns -----------------------------
(***************************************************************************)
(* What the execution queue promises to sessions: the top-level executions *)
(* of a session (each with everything it starts) take turns, one at a      *)
(* time, in the order in which they asked, and sessions do not wait for    *)
(* each other.                                                             *)
(***************************************************************************)
EXTENDS Sequences

CONSTANTS Sessions, Groups, None

VARIABLES turn,    \* turn[s]: the group whose turn it is in session s, or None
          waiting  \* waiting[s]: the groups that asked for a turn, in order

Init ==
    /\ turn = [s \in Sessions |-> None]
    /\ waiting = [s \in Sessions |-> <<>>]

Ask(s, g) ==
    /\ g # turn[s]
    /\ \A i \in DOMAIN waiting[s] : waiting[s][i] # g
    /\ waiting' = [waiting EXCEPT ![s] = Append(@, g)]
    /\ UNCHANGED turn

Begin(s) ==
    /\ turn[s] = None
    /\ waiting[s] # <<>>
    /\ turn' = [turn EXCEPT ![s] = Head(waiting[s])]
    /\ waiting' = [waiting EXCEPT ![s] = Tail(@)]

End(s) ==
    /\ turn[s] # None
    /\ turn' = [turn EXCEPT ![s] = None]
    /\ UNCHANGED waiting

Next == \E s \in Sessions : Begin(s) \/ End(s) \/ \E g \in Groups : Ask(s, g)

Spec == Init /\ [][Next]_<<turn, waiting>>
===============================================================================

---------------------------- MODULE ConductorProofs ----------------------------
(***************************************************************************)
(* Proofs about ConductorRuntime, ConductorRestart and ConductorServer,    *)
(* for any definition of the orchestration, any sessions, agents, workers  *)
(* and bounds: outcomes are final, failures and cancellations take whole   *)
(* subtrees, nodes run in order, orchestrations never stall, no event is   *)
(* refused, attempts are chains, crashes take nothing back that anybody    *)
(* relies on, nothing runnable is forgotten, turns end at rest and the     *)
(* server, which does to the tree only what it allows, works on one group  *)
(* of a session at a time.                                                 *)
(*                                                                         *)
(* The operations of the runtime call each other, so that what holds of    *)
(* one of their events must hold of all that follow it.  It is stated as   *)
(* a relation between an earlier and a later runtime that is reflexive and *)
(* transitive, shown of every event, and carried through the operations.   *)
(***************************************************************************)
EXTENDS ConductorRestart, ConductorServer, FiniteSetTheorems, SequenceTheorems, WellFoundedInduction, TLAPS

RuntimeFields == {"executions", "decisions", "interfaces", "causes", "refused"}

ExecutionFields == {"session", "parent", "kind", "callable", "node", "state"}

\* Ids are given in order.
Shaped(r) ==
    /\ DOMAIN r = RuntimeFields
    /\ \E n \in Nat : Known(r) = FirstExecution .. (FirstExecution + n - 1)
    /\ \A e \in Known(r) : DOMAIN r.executions[e] = ExecutionFields

\* s comes after r: nothing is forgotten, what has begun has begun, what is over
\* is over and what is decided is decided.
Later(r, s) ==
    /\ Known(r) \subseteq Known(s)
    /\ \A e \in Known(r) :
          /\ ParentOf(s, e) = ParentOf(r, e)
          /\ s.executions[e].kind = r.executions[e].kind
          /\ ~Live(r, e) => StateOf(s, e) = StateOf(r, e)
          /\ StateOf(r, e) # "Pending" => StateOf(s, e) # "Pending"
    /\ \A e \in DOMAIN r.decisions : e \in DOMAIN s.decisions /\ s.decisions[e] = r.decisions[e]

\* s comes after r, and no invocation has begun in between.
Follows(r, s) == Shaped(s) /\ Later(r, s) /\ NonResumable(s) \subseteq NonResumable(r)
-------------------------------------------------------------------------------
(* The relation. *)

\* It is transitive.
LEMMA LaterTransitive ==
    ASSUME NEW r, NEW s, NEW t, Later(r, s), Later(s, t)
    PROVE  Later(r, t)
<1>1. ASSUME NEW e \in Known(r)
      PROVE  /\ e \in Known(t) /\ ParentOf(t, e) = ParentOf(r, e)
             /\ t.executions[e].kind = r.executions[e].kind
             /\ ~Live(r, e) => StateOf(t, e) = StateOf(r, e)
             /\ StateOf(r, e) # "Pending" => StateOf(t, e) # "Pending"
  <2>1. e \in Known(s)
        BY DEF Later
  <2>2. /\ ParentOf(s, e) = ParentOf(r, e) /\ s.executions[e].kind = r.executions[e].kind
        /\ ~Live(r, e) => StateOf(s, e) = StateOf(r, e)
        /\ StateOf(r, e) # "Pending" => StateOf(s, e) # "Pending"
        BY DEF Later
  <2>3. /\ e \in Known(t)
        /\ ParentOf(t, e) = ParentOf(s, e) /\ t.executions[e].kind = s.executions[e].kind
        /\ ~Live(s, e) => StateOf(t, e) = StateOf(s, e)
        /\ StateOf(s, e) # "Pending" => StateOf(t, e) # "Pending"
        BY <2>1 DEF Later
  <2>4. ~Live(r, e) => ~Live(s, e)
        BY <2>2 DEF Live
  <2>. QED BY <2>2, <2>3, <2>4
<1>2. \A e \in DOMAIN r.decisions : e \in DOMAIN t.decisions /\ t.decisions[e] = r.decisions[e]
      BY DEF Later
<1>. QED BY <1>1, <1>2 DEF Later

\* So is it where nothing begins.
LEMMA FollowsTransitive ==
    ASSUME NEW r, NEW s, NEW t, Follows(r, s), Follows(s, t)
    PROVE  Follows(r, t)
BY LaterTransitive DEF Follows

\* It is reflexive.
LEMMA FollowsReflexive ==
    ASSUME NEW r, Shaped(r)
    PROVE  Follows(r, r)
BY DEF Follows, Later

\* The next id is new.
LEMMA NextIdIsNew ==
    ASSUME NEW r, Shaped(r)
    PROVE  /\ NextId(r) \in Int /\ NextId(r) \notin Known(r) /\ Cardinality(Known(r)) \in Nat
           /\ \E n \in Nat : /\ Known(r) \cup {NextId(r)} = FirstExecution .. (FirstExecution + n - 1)
                             /\ n = Cardinality(Known(r)) + 1
<1>0. FirstExecution \in Nat
      BY DefinitionAssumption
<1>1. PICK n \in Nat : Known(r) = FirstExecution .. (FirstExecution + n - 1)
      BY DEF Shaped
<1>2. Cardinality(Known(r)) = n
  <2>1. FirstExecution \in Int /\ FirstExecution + n - 1 \in Int
        BY <1>0, <1>1
  <2>2. Cardinality(Known(r)) = IF FirstExecution > FirstExecution + n - 1 THEN 0
                                ELSE (FirstExecution + n - 1) - FirstExecution + 1
        BY <1>1, <2>1, FS_Interval
  <2>. QED BY <1>0, <1>1, <2>2
<1>3. NextId(r) = FirstExecution + n
      BY <1>2 DEF NextId
<1>4. Known(r) \cup {NextId(r)} = FirstExecution .. (FirstExecution + (n + 1) - 1)
      BY <1>0, <1>1, <1>3
<1>. QED BY <1>0, <1>1, <1>2, <1>3, <1>4
-------------------------------------------------------------------------------
(* Events. *)

\* A refusal changes nothing else.
LEMMA RecordedFollows ==
    ASSUME NEW r, NEW b, Shaped(r)
    PROVE  /\ Follows(r, Recorded(r, b)) /\ DOMAIN Recorded(r, b) = RuntimeFields
           /\ Recorded(r, b).executions = r.executions
           /\ Recorded(r, b).decisions = r.decisions
           /\ Recorded(r, b).interfaces = r.interfaces
           /\ Recorded(r, b).causes = r.causes
<1>1. /\ DOMAIN Recorded(r, b) = RuntimeFields
      /\ Recorded(r, b).executions = r.executions
      /\ Recorded(r, b).decisions = r.decisions
      /\ Recorded(r, b).interfaces = r.interfaces
      /\ Recorded(r, b).causes = r.causes
      BY DEF Recorded, Shaped, RuntimeFields
<1>. QED BY <1>1 DEF Follows, Later, Shaped, Known, NonResumable, StateOf, Live, ParentOf, IsOrchestration

\* What an ExecutionStateChanged event does
LEMMA StateChanged ==
    ASSUME NEW r, NEW e, NEW state, Shaped(r)
    PROVE  LET s == WithState(r, e, state) IN
           /\ Shaped(s) /\ Known(s) = Known(r) /\ s.decisions = r.decisions
           /\ s.interfaces = r.interfaces /\ s.causes = r.causes
           /\ \A f \in Known(r) : /\ ParentOf(s, f) = ParentOf(r, f)
                                  /\ s.executions[f].kind = r.executions[f].kind
                                  /\ s.executions[f].node = r.executions[f].node
                                  /\ StateOf(s, f) = IF f = e THEN state ELSE StateOf(r, f)
<1> DEFINE q == Recorded(r, AcceptsState(r, e))
           s == WithState(r, e, state)
<1>1. /\ DOMAIN q = RuntimeFields /\ q.executions = r.executions /\ q.decisions = r.decisions
      /\ q.interfaces = r.interfaces /\ q.causes = r.causes
      BY RecordedFollows
<1>2. s = [q EXCEPT !.executions[e].state = state]
      BY DEF WithState
<1> HIDE DEF q, s
<1>3. /\ DOMAIN s = RuntimeFields /\ s.decisions = r.decisions
      /\ s.interfaces = r.interfaces /\ s.causes = r.causes
      /\ s.executions = [r.executions EXCEPT ![e].state = state]
      BY <1>1, <1>2 DEF RuntimeFields
<1>4. /\ DOMAIN s.executions = DOMAIN r.executions
      /\ \A f \in DOMAIN r.executions :
            s.executions[f] = IF f = e THEN [r.executions[f] EXCEPT !.state = state]
                              ELSE r.executions[f]
      BY <1>3
<1>5. \A f \in DOMAIN r.executions : DOMAIN r.executions[f] = ExecutionFields
      BY DEF Shaped, Known
<1>6. \A f \in DOMAIN r.executions :
         /\ DOMAIN s.executions[f] = ExecutionFields
         /\ s.executions[f].parent = r.executions[f].parent
         /\ s.executions[f].kind = r.executions[f].kind
         /\ s.executions[f].node = r.executions[f].node
         /\ s.executions[f].state = IF f = e THEN state ELSE r.executions[f].state
      BY <1>4, <1>5 DEF ExecutionFields
<1>7. Shaped(s)
      BY <1>3, <1>4, <1>6 DEF Shaped, Known
<1>. QED BY <1>3, <1>4, <1>6, <1>7 DEF Known, ParentOf, StateOf, s

\* A live execution may change its state; an invocation does not begin by that.
LEMMA StateFollows ==
    ASSUME NEW r, NEW e, NEW state, Shaped(r), Live(r, e), state # "Pending",
           state = "Running" => IsOrchestration(r, e)
    PROVE  Follows(r, WithState(r, e, state))
<1> DEFINE s == WithState(r, e, state)
<1>1. /\ Shaped(s) /\ Known(s) = Known(r) /\ s.decisions = r.decisions
      /\ \A f \in Known(r) : /\ ParentOf(s, f) = ParentOf(r, f)
                             /\ s.executions[f].kind = r.executions[f].kind
                             /\ StateOf(s, f) = IF f = e THEN state ELSE StateOf(r, f)
      BY StateChanged
<1> HIDE DEF s
<1>2. Later(r, s)
      BY <1>1 DEF Later
<1>3. NonResumable(s) \subseteq NonResumable(r)
      BY <1>1 DEF NonResumable, IsOrchestration
<1>. QED BY <1>1, <1>2, <1>3 DEF Follows, s

\* A cause is only noted.
LEMMA CauseFollows ==
    ASSUME NEW r, NEW e, NEW cause, Shaped(r)
    PROVE  /\ Follows(r, WithCause(r, e, cause))
           /\ WithCause(r, e, cause).executions = r.executions
<1> DEFINE s == WithCause(r, e, cause)
<1>1. DOMAIN s = RuntimeFields /\ s.executions = r.executions /\ s.decisions = r.decisions
      BY DEF WithCause, Shaped, RuntimeFields
<1> HIDE DEF s
<1>2. Follows(r, s)
      BY <1>1 DEF Follows, Later, Shaped, Known, NonResumable, StateOf, Live, ParentOf, IsOrchestration
<1>. QED BY <1>1, <1>2 DEF s

\* An execution that is created is new and Pending.
LEMMA CreateFollows ==
    ASSUME NEW r, NEW ss, NEW parent, NEW kind, NEW callable, NEW node, Shaped(r),
           NEW s, s = Create(r, ss, parent, kind, callable, node)
    PROVE  /\ Follows(r, s) /\ Known(s) = Known(r) \cup {NextId(r)}
           /\ s.decisions = r.decisions /\ s.interfaces = r.interfaces /\ s.causes = r.causes
           /\ s.executions[NextId(r)] = [session |-> ss, parent |-> parent, kind |-> kind,
                                         callable |-> callable, node |-> node, state |-> "Pending"]
           /\ \A e \in Known(r) : s.executions[e] = r.executions[e]
<1> DEFINE new == [session |-> ss, parent |-> parent, kind |-> kind,
                   callable |-> callable, node |-> node, state |-> "Pending"]
           accepted == /\ AcceptsExecution(r, NextId(r), ss, parent, callable)
                       /\ node # None => AcceptsNode(r, parent, node)
           q == Recorded(r, accepted)
<1>0. NextId(r) \notin Known(r)
      BY NextIdIsNew
<1>1. /\ DOMAIN q = RuntimeFields /\ q.executions = r.executions /\ q.decisions = r.decisions
      /\ q.interfaces = r.interfaces /\ q.causes = r.causes
      BY RecordedFollows
<1>2. s = [q EXCEPT !.executions = Add(q.executions, NextId(r), new)]
      BY DEF Create
<1>a. DOMAIN new = ExecutionFields /\ new.state = "Pending"
      BY DEF ExecutionFields
<1> HIDE DEF q, new, accepted
<1>3. /\ DOMAIN s = RuntimeFields /\ s.decisions = r.decisions /\ s.interfaces = r.interfaces
      /\ s.causes = r.causes /\ s.executions = Add(r.executions, NextId(r), new)
      BY <1>1, <1>2 DEF RuntimeFields
<1>4. /\ Known(s) = Known(r) \cup {NextId(r)}
      /\ s.executions[NextId(r)] = new
      /\ \A e \in Known(r) : s.executions[e] = r.executions[e]
      BY <1>0, <1>3 DEF Known, Add
<1>5. Shaped(s)
  <2>1. \E n \in Nat : Known(s) = FirstExecution .. (FirstExecution + n - 1)
        BY <1>4, NextIdIsNew
  <2>2. \A e \in Known(s) : DOMAIN s.executions[e] = ExecutionFields
        BY <1>4, <1>a DEF Shaped
  <2>. QED BY <1>3, <2>1, <2>2 DEF Shaped
<1>6. Later(r, s)
      BY <1>3, <1>4 DEF Later, ParentOf, StateOf, Live
<1>7. NonResumable(s) \subseteq NonResumable(r)
      BY <1>4, <1>a DEF NonResumable, StateOf, IsOrchestration
<1>. QED BY <1>3, <1>4, <1>5, <1>6, <1>7 DEF Follows, new

\* A decision about what is not decided
LEMMA DecideFollows ==
    ASSUME NEW r, NEW failed, NEW kind, NEW recovery, Shaped(r), ~Decided(r, failed)
    PROVE  LET s == Decide(r, failed, kind, recovery) IN
           /\ Follows(r, s) /\ s.executions = r.executions /\ s.interfaces = r.interfaces
           /\ s.causes = r.causes
<1> DEFINE s == Decide(r, failed, kind, recovery)
           d == [kind |-> kind, execution |-> recovery]
           q == Recorded(r, AcceptsDecision(r, failed))
<1>1. /\ DOMAIN q = RuntimeFields /\ q.executions = r.executions /\ q.decisions = r.decisions
      /\ q.interfaces = r.interfaces /\ q.causes = r.causes
      BY RecordedFollows
<1>2. s = [q EXCEPT !.decisions = Add(q.decisions, failed, d)]
      BY DEF Decide
<1> HIDE DEF q, s, d
<1>3. /\ DOMAIN s = RuntimeFields /\ s.executions = r.executions /\ s.interfaces = r.interfaces
      /\ s.causes = r.causes /\ s.decisions = Add(r.decisions, failed, d)
      BY <1>1, <1>2 DEF RuntimeFields
<1>4. \A e \in DOMAIN r.decisions : e \in DOMAIN s.decisions /\ s.decisions[e] = r.decisions[e]
      BY <1>3 DEF Add, Decided
<1>5. Follows(r, s)
      BY <1>3, <1>4 DEF Follows, Later, Shaped, Known, NonResumable, StateOf, Live, ParentOf, IsOrchestration
<1>. QED BY <1>3, <1>5 DEF s

\* record_fallback_fail revises nothing.
LEMMA FallbackFollows ==
    ASSUME NEW r, NEW S, Shaped(r)
    PROVE  LET s == FallbackFail(r, S) IN
           /\ Follows(r, s) /\ s.executions = r.executions /\ s.interfaces = r.interfaces
           /\ s.causes = r.causes
<1> DEFINE s == FallbackFail(r, S)
           undecided == {e \in S : ~Decided(r, e)}
           fail == [kind |-> "Fail", execution |-> None]
           accepted == \A e \in undecided : AcceptsDecision(r, e)
           q == Recorded(r, accepted)
           d == [e \in DOMAIN r.decisions \cup undecided |->
                   IF e \in undecided THEN fail ELSE r.decisions[e]]
<1>1. /\ DOMAIN q = RuntimeFields /\ q.executions = r.executions /\ q.decisions = r.decisions
      /\ q.interfaces = r.interfaces /\ q.causes = r.causes
      BY RecordedFollows
<1>2. s = [q EXCEPT !.decisions = d]
      BY DEF FallbackFail
<1>3. \A e \in DOMAIN r.decisions : e \in DOMAIN d /\ d[e] = r.decisions[e]
      BY DEF Decided
<1> HIDE DEF q, s, d, accepted
<1>4. /\ DOMAIN s = RuntimeFields /\ s.executions = r.executions /\ s.interfaces = r.interfaces
      /\ s.causes = r.causes /\ s.decisions = d
      BY <1>1, <1>2 DEF RuntimeFields
<1>5. Follows(r, s)
      BY <1>3, <1>4 DEF Follows, Later, Shaped, Known, NonResumable, StateOf, Live, ParentOf, IsOrchestration
<1>. QED BY <1>4, <1>5 DEF s

\* set_state(o, Failed) of a live orchestration
LEMMA FailOrchestrationFollows ==
    ASSUME NEW r, NEW o, Shaped(r), Live(r, o)
    PROVE  Follows(r, FailOrchestration(r, o))
<1> DEFINE f == WithState(r, o, "Failed")
           live == {c \in Children(r, o) : Live(f, c)}
           cause == [kind |-> "AncestorFailure", execution |-> o]
           xs == [e \in Known(r) |-> IF e \in live THEN [f.executions[e] EXCEPT !.state = "Cancelled"]
                                     ELSE f.executions[e]]
           cs == [e \in DOMAIN r.causes \cup live |-> IF e \in live THEN cause ELSE r.causes[e]]
           s == FailOrchestration(r, o)
<1>1. Follows(r, f) /\ Known(f) = Known(r)
      BY StateFollows, StateChanged
<1>2. s = [f EXCEPT !.executions = xs, !.causes = cs]
      BY DEF FailOrchestration
<1>3. /\ DOMAIN xs = Known(r)
      /\ \A e \in Known(r) : xs[e] = IF e \in live THEN [f.executions[e] EXCEPT !.state = "Cancelled"]
                                     ELSE f.executions[e]
      OBVIOUS
<1>4. \A e \in live : Live(f, e)
      OBVIOUS
<1> HIDE DEF f, live, xs, cs, s
<1>5. DOMAIN s = RuntimeFields /\ s.executions = xs /\ s.decisions = f.decisions
      BY <1>1, <1>2 DEF Follows, Shaped, RuntimeFields
<1>6. \A e \in Known(r) : /\ DOMAIN xs[e] = ExecutionFields
                          /\ xs[e].parent = f.executions[e].parent
                          /\ xs[e].kind = f.executions[e].kind
                          /\ xs[e].state = IF e \in live THEN "Cancelled" ELSE f.executions[e].state
      BY <1>1, <1>3 DEF Follows, Shaped, ExecutionFields
<1>7. Shaped(s) /\ Known(s) = Known(r)
      BY <1>1, <1>3, <1>5, <1>6 DEF Follows, Shaped, Known
<1>8. Later(f, s)
      BY <1>1, <1>4, <1>5, <1>6, <1>7 DEF Later, ParentOf, StateOf, Live
<1>9. NonResumable(s) \subseteq NonResumable(f)
      BY <1>1, <1>5, <1>6, <1>7 DEF NonResumable, StateOf, IsOrchestration
<1>10. Follows(f, s)
       BY <1>7, <1>8, <1>9 DEF Follows
<1>. QED BY <1>1, <1>10, FollowsTransitive DEF s
-------------------------------------------------------------------------------
(* Loops.  A loop is a function of the number of rounds. *)

\* Induction, for a set of numbers
LEMMA Induction ==
    ASSUME NEW P, 0 \in P, \A n \in Nat : n \in P => n + 1 \in P
    PROVE  \A n \in Nat : n \in P
<1> DEFINE R == OpToRel(<, Nat)
           T == Nat \ P
<1>1. IsWellFoundedOn(R, Nat)
      BY NatLessThanWellFounded
<1>2. \A x, y \in Nat : y < x => <<y, x>> \in R
      BY DEF OpToRel
<1> HIDE DEF R
<1>3. ASSUME T # {} PROVE FALSE
  <2>1. PICK x \in T : \A y \in T : ~(<<y, x>> \in R)
        BY <1>1, <1>3, WFMin
  <2>2. x \in Nat /\ x # 0
        OBVIOUS
  <2>3. x - 1 \in Nat /\ x - 1 < x /\ (x - 1) + 1 = x
        BY <2>2
  <2>4. x - 1 \in P
        BY <1>2, <2>1, <2>2, <2>3
  <2>. QED BY <2>1, <2>3, <2>4
<1>. QED BY <1>3

\* cancel_execution_set goes from id to id.
LEMMA CancelSetRounds ==
    ASSUME NEW r, NEW S, NEW cause
    PROVE  \E f : /\ DOMAIN f = 0..MaxExecutions /\ f[0] = r
                  /\ \A i \in 1..MaxExecutions :
                        f[i] = IF IdOrder[i] \in S THEN CancelOne(f[i - 1], IdOrder[i], cause)
                               ELSE f[i - 1]
                  /\ CancelSet(r, S, cause) = f[MaxExecutions]
<1> DEFINE Round(s, i) == IF IdOrder[i] \in S THEN CancelOne(s, IdOrder[i], cause) ELSE s
           Loop(g, n) == g = [i \in 0..n |-> IF i = 0 THEN r ELSE Round(g[i - 1], i)]
           P == {n \in Nat : \E g : Loop(g, n)}
<1>0. MaxExecutions \in Nat
      BY DefinitionAssumption
<1> HIDE DEF Round
<1>1. 0 \in P
  <2>1. Loop([i \in 0..0 |-> r], 0)
        OBVIOUS
  <2>. QED BY <2>1
<1>2. ASSUME NEW n \in Nat, n \in P PROVE n + 1 \in P
  <2>1. PICK g : Loop(g, n)
        BY <1>2
  <2> DEFINE h == [i \in 0..(n + 1) |-> IF i = n + 1 THEN Round(g[n], n + 1) ELSE g[i]]
  <2>2. ASSUME NEW i \in 0..(n + 1)
        PROVE  h[i] = IF i = 0 THEN r ELSE Round(h[i - 1], i)
    <3>1. CASE i = n + 1
      <4>1. h[n + 1] = Round(g[n], n + 1) /\ h[n] = g[n] /\ (n + 1) - 1 = n
            OBVIOUS
      <4>. QED BY <3>1, <4>1
    <3>2. CASE i # n + 1
      <4>1. i \in 0..n /\ h[i] = g[i]
            BY <3>2
      <4>2. g[i] = IF i = 0 THEN r ELSE Round(g[i - 1], i)
            BY <2>1, <4>1
      <4>3. i # 0 => h[i - 1] = g[i - 1]
            BY <3>2
      <4>. QED BY <4>1, <4>2, <4>3
    <3>. QED BY <3>1, <3>2
  <2>3. Loop(h, n + 1) /\ n + 1 \in Nat
        BY <2>2
  <2> HIDE DEF h
  <2>4. \E k : Loop(k, n + 1)
        BY <2>3
  <2> HIDE DEF Loop
  <2>. QED BY <2>3, <2>4
<1>3. MaxExecutions \in P
  <2> HIDE DEF P
  <2>. QED BY <1>0, <1>1, <1>2, Induction
<1> DEFINE f == CHOOSE g : Loop(g, MaxExecutions)
<1>4. Loop(f, MaxExecutions)
      BY <1>3
<1>5. CancelSet(r, S, cause) = f[MaxExecutions]
      BY DEF CancelSet, Round
<1> HIDE DEF f
<1>6. DOMAIN f = 0..MaxExecutions /\ f[0] = r
      BY <1>0, <1>4
<1>7. \A i \in 1..MaxExecutions : f[i] = Round(f[i - 1], i)
      BY <1>0, <1>4
<1>. QED BY <1>5, <1>6, <1>7 DEF Round

\* advance_orchestration goes from node to node.
LEMMA StartNodesRounds ==
    ASSUME NEW r, NEW o, NEW ready
    PROVE  \E f : /\ DOMAIN f = 0..Len(NodeOrder) /\ f[0] = r
                  /\ \A i \in 1..Len(NodeOrder) :
                        f[i] = IF NodeOrder[i] \in ready
                               THEN CreateAgent(f[i - 1], o, NodeCallable[NodeOrder[i]], NodeOrder[i])
                               ELSE f[i - 1]
                  /\ StartNodes(r, o, ready) = f[Len(NodeOrder)]
<1> DEFINE Round(s, i) == IF NodeOrder[i] \in ready
                          THEN CreateAgent(s, o, NodeCallable[NodeOrder[i]], NodeOrder[i])
                          ELSE s
           Loop(g, n) == g = [i \in 0..n |-> IF i = 0 THEN r ELSE Round(g[i - 1], i)]
           P == {n \in Nat : \E g : Loop(g, n)}
<1>0. Len(NodeOrder) \in Nat
      BY DefinitionAssumption
<1> HIDE DEF Round
<1>1. 0 \in P
  <2>1. Loop([i \in 0..0 |-> r], 0)
        OBVIOUS
  <2>. QED BY <2>1
<1>2. ASSUME NEW n \in Nat, n \in P PROVE n + 1 \in P
  <2>1. PICK g : Loop(g, n)
        BY <1>2
  <2> DEFINE h == [i \in 0..(n + 1) |-> IF i = n + 1 THEN Round(g[n], n + 1) ELSE g[i]]
  <2>2. ASSUME NEW i \in 0..(n + 1)
        PROVE  h[i] = IF i = 0 THEN r ELSE Round(h[i - 1], i)
    <3>1. CASE i = n + 1
      <4>1. h[n + 1] = Round(g[n], n + 1) /\ h[n] = g[n] /\ (n + 1) - 1 = n
            OBVIOUS
      <4>. QED BY <3>1, <4>1
    <3>2. CASE i # n + 1
      <4>1. i \in 0..n /\ h[i] = g[i]
            BY <3>2
      <4>2. g[i] = IF i = 0 THEN r ELSE Round(g[i - 1], i)
            BY <2>1, <4>1
      <4>3. i # 0 => h[i - 1] = g[i - 1]
            BY <3>2
      <4>. QED BY <4>1, <4>2, <4>3
    <3>. QED BY <3>1, <3>2
  <2>3. Loop(h, n + 1) /\ n + 1 \in Nat
        BY <2>2
  <2> HIDE DEF h
  <2>4. \E k : Loop(k, n + 1)
        BY <2>3
  <2> HIDE DEF Loop
  <2>. QED BY <2>3, <2>4
<1>3. Len(NodeOrder) \in P
  <2> HIDE DEF P
  <2>. QED BY <1>0, <1>1, <1>2, Induction
<1> DEFINE f == CHOOSE g : Loop(g, Len(NodeOrder))
<1>4. Loop(f, Len(NodeOrder))
      BY <1>3
<1>5. StartNodes(r, o, ready) = f[Len(NodeOrder)]
      BY DEF StartNodes, Round
<1> HIDE DEF f
<1>6. DOMAIN f = 0..Len(NodeOrder) /\ f[0] = r
      BY <1>0, <1>4
<1>7. \A i \in 1..Len(NodeOrder) : f[i] = Round(f[i - 1], i)
      BY <1>0, <1>4
<1>. QED BY <1>5, <1>6, <1>7 DEF Round

-------------------------------------------------------------------------------
(* The operations. *)

\* Starting an agent, for a node or to decide
LEMMA AgentFollows ==
    ASSUME NEW r, NEW o, NEW callable, NEW node, Shaped(r)
    PROVE  LET s == CreateAgent(r, o, callable, node) IN
           /\ Follows(r, s) /\ s.decisions = r.decisions
           /\ \A e \in Known(r) : s.executions[e] = r.executions[e]
<1> DEFINE ss == r.executions[o].session
           s == Create(r, ss, o, "Agent", callable, node)
<1>1. /\ Follows(r, s) /\ Known(s) = Known(r) \cup {NextId(r)}
      /\ s.decisions = r.decisions /\ s.interfaces = r.interfaces /\ s.causes = r.causes
      /\ s.executions[NextId(r)] = [session |-> ss, parent |-> o, kind |-> "Agent",
                                    callable |-> callable, node |-> node, state |-> "Pending"]
      /\ \A e \in Known(r) : s.executions[e] = r.executions[e]
      BY CreateFollows
<1>2. CreateAgent(r, o, callable, node) = s
      BY DEF CreateAgent
<1> HIDE DEF s
<1>. QED BY <1>1, <1>2

\* Starting nodes
LEMMA StartNodesFollows ==
    ASSUME NEW r, NEW o, NEW ready, Shaped(r)
    PROVE  Follows(r, StartNodes(r, o, ready))
<1>0. Len(NodeOrder) \in Nat
      BY DefinitionAssumption
<1>1. PICK f : /\ DOMAIN f = 0..Len(NodeOrder) /\ f[0] = r
               /\ \A i \in 1..Len(NodeOrder) :
                     f[i] = IF NodeOrder[i] \in ready
                            THEN CreateAgent(f[i - 1], o, NodeCallable[NodeOrder[i]], NodeOrder[i])
                            ELSE f[i - 1]
               /\ StartNodes(r, o, ready) = f[Len(NodeOrder)]
      BY StartNodesRounds
<1> DEFINE P == {n \in Nat : n <= Len(NodeOrder) => Follows(r, f[n])}
<1>2. 0 \in P
      BY <1>1, FollowsReflexive
<1>3. ASSUME NEW n \in Nat, n \in P PROVE n + 1 \in P
  <2> SUFFICES ASSUME n + 1 <= Len(NodeOrder) PROVE Follows(r, f[n + 1])
      OBVIOUS
  <2>1. Follows(r, f[n]) /\ Shaped(f[n])
        BY <1>0, <1>3 DEF Follows
  <2>2. n + 1 \in 1..Len(NodeOrder) /\ (n + 1) - 1 = n
        BY <1>0
  <2>3. f[n + 1] = f[n] \/ \E c, node : f[n + 1] = CreateAgent(f[n], o, c, node)
        BY <1>1, <2>2
  <2>4. Follows(f[n], f[n + 1])
        BY <2>1, <2>3, AgentFollows, FollowsReflexive
  <2>. QED BY <2>1, <2>4, FollowsTransitive
<1>4. Len(NodeOrder) \in P
  <2> HIDE DEF P
  <2>. QED BY <1>0, <1>2, <1>3, Induction
<1>. QED BY <1>0, <1>1, <1>4

\* advance_orchestration
LEMMA AdvanceFollows ==
    ASSUME NEW r, NEW o, Shaped(r)
    PROVE  Follows(r, Advance(r, o))
<1>1. CASE StateOf(r, o) = "Running"
  <2>1. Follows(r, WithState(r, o, "Completed"))
        BY <1>1, StateFollows DEF Live, Terminal
  <2>. QED BY <2>1, StartNodesFollows, FollowsReflexive DEF Advance
<1>. QED BY <1>1, FollowsReflexive DEF Advance

\* start_failure_interface
LEMMA StartInterfaceFollows ==
    ASSUME NEW r, NEW o, NEW failed, Shaped(r)
    PROVE  Follows(r, StartInterface(r, o, failed))
<1> DEFINE s == CreateAgent(r, o, InterfaceAgent, None)
           b == AcceptsInterface(s, o, failed, NextId(r))
           q == Recorded(s, b)
           t == StartInterface(r, o, failed)
<1>1. Follows(r, s)
      BY AgentFollows
<1>2. Follows(s, q)
      BY <1>1, RecordedFollows DEF Follows
<1>3. t = [q EXCEPT !.interfaces = Add(q.interfaces, failed, NextId(r))]
      BY DEF StartInterface
<1> HIDE DEF s, b, q, t
<1>4. Shaped(q)
      BY <1>2 DEF Follows
<1>5. DOMAIN t = RuntimeFields /\ t.executions = q.executions /\ t.decisions = q.decisions
      BY <1>3, <1>4 DEF Shaped, RuntimeFields
<1>6. Follows(q, t)
      BY <1>4, <1>5 DEF Follows, Later, Shaped, Known, NonResumable, StateOf, Live, ParentOf, IsOrchestration
<1>7. Follows(r, q)
      BY <1>1, <1>2, FollowsTransitive
<1>. QED BY <1>6, <1>7, FollowsTransitive DEF t

\* Giving up: what is undecided is decided, and the orchestration fails.
LEMMA GiveUpFollows ==
    ASSUME NEW r, NEW S, NEW o, Shaped(r), Live(r, o)
    PROVE  Follows(r, FailOrchestration(FallbackFail(r, S), o))
<1> DEFINE s == FallbackFail(r, S)
<1>1. Follows(r, s) /\ s.executions = r.executions
      BY FallbackFollows
<1> HIDE DEF s
<1>2. Shaped(s) /\ Live(s, o)
      BY <1>1 DEF Follows, Live, StateOf
<1>3. Follows(s, FailOrchestration(s, o))
      BY <1>2, FailOrchestrationFollows
<1>. QED BY <1>1, <1>3, FollowsTransitive DEF s

\* refresh_orchestration
LEMMA RefreshFollows ==
    ASSUME NEW r, NEW o, Shaped(r)
    PROVE  Follows(r, Refresh(r, o))
<1>1. CASE ~IsOrchestration(r, o) \/ ~Live(r, o)
      BY <1>1, FollowsReflexive DEF Refresh
<1>2. CASE IsOrchestration(r, o) /\ Live(r, o)
  <2>1. \A S : Follows(r, FailOrchestration(FallbackFail(r, S), o))
        BY <1>2, GiveUpFollows
  <2>2. \A failed : Follows(r, HandleFailure(r, o, failed))
        BY <2>1, StartInterfaceFollows, FollowsReflexive DEF HandleFailure
  <2>3. Follows(r, FailOrchestration(r, o))
        BY <1>2, FailOrchestrationFollows
  <2>4. Follows(r, WithState(r, o, "Cancelled")) /\ Follows(r, WithState(r, o, "Interrupted"))
        BY <1>2, StateFollows
  <2>5. Follows(r, Advance(r, o))
        BY AdvanceFollows
  <2>6. \/ \E S : Refresh(r, o) = FailOrchestration(FallbackFail(r, S), o)
        \/ \E failed : Refresh(r, o) = HandleFailure(r, o, failed)
        \/ Refresh(r, o) = FailOrchestration(r, o)
        \/ Refresh(r, o) = WithState(r, o, "Cancelled")
        \/ Refresh(r, o) = WithState(r, o, "Interrupted")
        \/ Refresh(r, o) = Advance(r, o)
        BY <1>2, Zenon DEF Refresh
  <2>. QED BY <2>1, <2>2, <2>3, <2>4, <2>5, <2>6
<1>. QED BY <1>1, <1>2

\* One execution in cancel_execution_set
LEMMA CancelOneFollows ==
    ASSUME NEW r, NEW e, NEW cause, Shaped(r)
    PROVE  /\ Follows(r, CancelOne(r, e, cause))
           /\ e \in Known(r) => ~Live(CancelOne(r, e, cause), e)
<1>1. CASE ~Live(r, e)
      BY <1>1, FollowsReflexive DEF CancelOne
<1>2. CASE Live(r, e)
  <2> DEFINE s == WithCause(r, e, cause)
             t == WithState(s, e, "Cancelled")
             u == Refresh(t, ParentOf(r, e))
  <2>1. Follows(r, s) /\ s.executions = r.executions
        BY CauseFollows
  <2> HIDE DEF s
  <2>2. Shaped(s) /\ Live(s, e) /\ Known(s) = Known(r)
        BY <1>2, <2>1 DEF Follows, Live, StateOf, Known
  <2>3. Follows(s, t) /\ Shaped(t)
        BY <2>2, StateFollows DEF Follows
  <2>4. e \in Known(r) => e \in Known(t) /\ StateOf(t, e) = "Cancelled"
        BY <2>2, StateChanged
  <2> HIDE DEF t
  <2>5. Follows(t, u)
        BY <2>3, RefreshFollows
  <2>6. Follows(r, u)
        BY <2>1, <2>3, <2>5, FollowsTransitive
  <2>7. e \in Known(r) => StateOf(u, e) = "Cancelled"
        BY <2>4, <2>5 DEF Follows, Later, Live, Terminal
  <2> HIDE DEF u
  <2>8. CancelOne(r, e, cause) = u
        BY <1>2 DEF CancelOne, u, t, s
  <2>. QED BY <2>6, <2>7, <2>8 DEF Live, Terminal
<1>. QED BY <1>1, <1>2

\* Every id has its place in the order of ids.
LEMMA IdOrderIsComplete ==
    ASSUME NEW e \in Ids
    PROVE  \E i \in 1..MaxExecutions : IdOrder[i] = e
<1> DEFINE UpTo(x) == {f \in Ids : ~StringBefore(x, f)}
<1>0. FirstExecution \in Nat /\ MaxExecutions \in Nat
      BY DefinitionAssumption
<1>1. IsFiniteSet(Ids) /\ Cardinality(Ids) = MaxExecutions
  <2>1. FirstExecution \in Int /\ FirstExecution + MaxExecutions - 1 \in Int
        BY <1>0
  <2>2. /\ IsFiniteSet(Ids)
        /\ Cardinality(Ids) = IF FirstExecution > FirstExecution + MaxExecutions - 1 THEN 0
                              ELSE (FirstExecution + MaxExecutions - 1) - FirstExecution + 1
        BY <2>1, FS_Interval DEF Ids
  <2>. QED BY <1>0, <2>2
<1>2. \A x, y \in Ids : x # y => StringBefore(x, y) \/ StringBefore(y, x)
      BY <1>0 DEF StringBefore, StringKey, Ids
<1>3. \A x, y, z \in Ids : StringBefore(x, y) /\ StringBefore(y, z) => StringBefore(x, z)
      BY <1>0 DEF StringBefore, StringKey, Ids
<1>4. \A x \in Ids : ~StringBefore(x, x)
      BY <1>0 DEF StringBefore, StringKey, Ids
<1>5. ASSUME NEW x \in Ids
      PROVE  /\ IsFiniteSet(UpTo(x)) /\ Cardinality(UpTo(x)) \in 1..MaxExecutions
  <2>1. UpTo(x) \subseteq Ids /\ x \in UpTo(x)
        BY <1>4
  <2> HIDE DEF UpTo
  <2>2. IsFiniteSet(UpTo(x)) /\ Cardinality(UpTo(x)) <= Cardinality(Ids)
        BY <1>1, <2>1, FS_Subset
  <2>3. Cardinality(UpTo(x)) \in Nat
        BY <2>2, FS_CardinalityType
  <2>4. Cardinality(UpTo(x)) # 0
        BY <2>1, <2>2, FS_EmptySet
  <2>. QED BY <1>0, <1>1, <2>2, <2>3, <2>4
<1>6. ASSUME NEW x \in Ids, NEW y \in Ids, StringBefore(x, y)
      PROVE  Cardinality(UpTo(x)) < Cardinality(UpTo(y))
  <2>1. UpTo(x) \subseteq UpTo(y)
        BY <1>2, <1>3, <1>6
  <2>2. y \in UpTo(y) /\ y \notin UpTo(x)
        BY <1>4, <1>6
  <2>3. IsFiniteSet(UpTo(y))
        BY <1>5
  <2> HIDE DEF UpTo
  <2>. QED BY <2>1, <2>2, <2>3, FS_Subset, FS_CardinalityType
<1>7. \A x, y \in Ids : Cardinality(UpTo(x)) = Cardinality(UpTo(y)) => x = y
  <2> SUFFICES ASSUME NEW x \in Ids, NEW y \in Ids, x # y
               PROVE  Cardinality(UpTo(x)) # Cardinality(UpTo(y))
      OBVIOUS
  <2>1. /\ Cardinality(UpTo(x)) \in 1..MaxExecutions
        /\ Cardinality(UpTo(y)) \in 1..MaxExecutions
        BY <1>5
  <2>2. \/ Cardinality(UpTo(x)) < Cardinality(UpTo(y))
        \/ Cardinality(UpTo(y)) < Cardinality(UpTo(x))
        BY <1>2, <1>6
  <2> HIDE DEF UpTo
  <2>. QED BY <1>0, <2>1, <2>2
<1> DEFINE i == Cardinality(UpTo(e))
<1>8. i \in 1..MaxExecutions
      BY <1>5
<1>9. IdOrder[i] = CHOOSE x \in Ids : Cardinality(UpTo(x)) = i
      BY <1>8 DEF IdOrder
<1> HIDE DEF UpTo
<1>10. IdOrder[i] = e
       BY <1>7, <1>9
<1>. QED BY <1>8, <1>10

\* cancel_execution_set: what was to be cancelled is over.
LEMMA CancelSetFollows ==
    ASSUME NEW r, NEW S, NEW cause, Shaped(r)
    PROVE  /\ Follows(r, CancelSet(r, S, cause))
           /\ \A e \in S \cap Ids \cap Known(r) : ~Live(CancelSet(r, S, cause), e)
<1>0. MaxExecutions \in Nat
      BY DefinitionAssumption
<1>1. PICK f : /\ DOMAIN f = 0..MaxExecutions /\ f[0] = r
               /\ \A i \in 1..MaxExecutions :
                     f[i] = IF IdOrder[i] \in S THEN CancelOne(f[i - 1], IdOrder[i], cause)
                            ELSE f[i - 1]
               /\ CancelSet(r, S, cause) = f[MaxExecutions]
      BY CancelSetRounds
<1> DEFINE Done(n) == /\ Follows(r, f[n])
                      /\ \A i \in 1..n : IdOrder[i] \in S \cap Known(r) => ~Live(f[n], IdOrder[i])
           P == {n \in Nat : n <= MaxExecutions => Done(n)}
<1>2. 0 \in P
      BY <1>1, FollowsReflexive
<1>3. ASSUME NEW n \in Nat, n \in P PROVE n + 1 \in P
  <2> SUFFICES ASSUME n + 1 <= MaxExecutions PROVE Done(n + 1)
      OBVIOUS
  <2>1. Done(n)
        BY <1>0, <1>3
  <2>2. n + 1 \in 1..MaxExecutions /\ (n + 1) - 1 = n
        BY <1>0
  <2>3. f[n + 1] = IF IdOrder[n + 1] \in S THEN CancelOne(f[n], IdOrder[n + 1], cause) ELSE f[n]
        BY <1>1, <2>2
  <2>4. Shaped(f[n]) /\ Known(r) \subseteq Known(f[n])
        BY <2>1 DEF Follows, Later
  <2>5. Follows(f[n], f[n + 1])
        BY <2>3, <2>4, CancelOneFollows, FollowsReflexive
  <2>6. IdOrder[n + 1] \in S \cap Known(r) => ~Live(f[n + 1], IdOrder[n + 1])
        BY <2>3, <2>4, CancelOneFollows
  <2>7. \A e \in Known(r) : ~Live(f[n], e) => ~Live(f[n + 1], e)
        BY <2>4, <2>5 DEF Follows, Later, Live
  <2>8. \A i \in 1..(n + 1) : i \in 1..n \/ i = n + 1
        OBVIOUS
  <2>9. Follows(r, f[n + 1])
        BY <2>1, <2>5, FollowsTransitive
  <2>. QED BY <2>1, <2>6, <2>7, <2>8, <2>9
<1>4. MaxExecutions \in P
  <2> HIDE DEF P
  <2>. QED BY <1>0, <1>2, <1>3, Induction
<1>5. Done(MaxExecutions)
      BY <1>0, <1>4
<1>. QED BY <1>1, <1>5, IdOrderIsComplete

\* set_state of a live execution, where no invocation begins
LEMMA SetStateFollows ==
    ASSUME NEW r, NEW e, NEW state, Shaped(r), Live(r, e), state # "Pending",
           state = "Running" => IsOrchestration(r, e)
    PROVE  /\ Follows(r, SetState(r, e, state))
           /\ e \in Known(r) /\ state \in Terminal => StateOf(SetState(r, e, state), e) = state
<1> DEFINE s == WithState(r, e, state)
           cause == [kind |-> "AncestorFailure", execution |-> e]
           t == IF state = "Failed" THEN CancelSet(s, Descendants(s, e), cause) ELSE s
<1>1. Follows(r, s)
      BY StateFollows
<1>a. e \in Known(r) => e \in Known(s) /\ StateOf(s, e) = state
      BY StateChanged
<1> HIDE DEF s
<1>2. Follows(s, t)
      BY <1>1, CancelSetFollows, FollowsReflexive DEF Follows
<1>3. Follows(r, t)
      BY <1>1, <1>2, FollowsTransitive
<1>4. SetState(r, e, state) = IF state \in Terminal THEN Refresh(t, ParentOf(r, e)) ELSE t
      BY DEF SetState, s
<1> HIDE DEF t
<1>5. Follows(t, Refresh(t, ParentOf(r, e)))
      BY <1>3, RefreshFollows DEF Follows
<1>6. Later(s, SetState(r, e, state)) /\ Follows(r, SetState(r, e, state))
      BY <1>2, <1>3, <1>4, <1>5, FollowsTransitive, LaterTransitive DEF Follows
<1>. QED BY <1>a, <1>6 DEF Later, Live

\* begin_execution: one invocation begins.
LEMMA BeginLater ==
    ASSUME NEW r, NEW e, Shaped(r), Live(r, e)
    PROVE  LET s == SetState(r, e, "Running") IN
           /\ Shaped(s) /\ Later(r, s) /\ NonResumable(s) \subseteq NonResumable(r) \cup {e}
           /\ e \in Known(r) => StateOf(s, e) = "Running"
<1> DEFINE s == WithState(r, e, "Running")
<1>1. SetState(r, e, "Running") = s
      BY DEF SetState, Terminal
<1>2. /\ Shaped(s) /\ Known(s) = Known(r) /\ s.decisions = r.decisions
      /\ \A f \in Known(r) : /\ ParentOf(s, f) = ParentOf(r, f)
                             /\ s.executions[f].kind = r.executions[f].kind
                             /\ StateOf(s, f) = IF f = e THEN "Running" ELSE StateOf(r, f)
      BY StateChanged
<1> HIDE DEF s
<1>3. Later(r, s)
      BY <1>2 DEF Later
<1>4. NonResumable(s) \subseteq NonResumable(r) \cup {e}
      BY <1>2 DEF NonResumable, IsOrchestration
<1>. QED BY <1>1, <1>2, <1>3, <1>4
-------------------------------------------------------------------------------
(* Where executions are created. *)

\* What is new in s is a child of p.
Plants(r, s, p) == \A e \in Known(s) \ Known(r) : ParentOf(s, e) = p

LEMMA PlantsTransitive ==
    ASSUME NEW r, NEW s, NEW t, NEW p, Later(s, t), Plants(r, s, p), Plants(s, t, p)
    PROVE  Plants(r, t, p)
BY DEF Plants, Later

LEMMA AgentPlants ==
    ASSUME NEW r, NEW o, NEW callable, NEW node, Shaped(r)
    PROVE  Plants(r, CreateAgent(r, o, callable, node), o)
<1> DEFINE ss == r.executions[o].session
           s == Create(r, ss, o, "Agent", callable, node)
<1>1. /\ Follows(r, s) /\ Known(s) = Known(r) \cup {NextId(r)}
      /\ s.decisions = r.decisions /\ s.interfaces = r.interfaces /\ s.causes = r.causes
      /\ s.executions[NextId(r)] = [session |-> ss, parent |-> o, kind |-> "Agent",
                                    callable |-> callable, node |-> node, state |-> "Pending"]
      /\ \A e \in Known(r) : s.executions[e] = r.executions[e]
      BY CreateFollows
<1>2. CreateAgent(r, o, callable, node) = s
      BY DEF CreateAgent
<1> HIDE DEF s
<1>. QED BY <1>1, <1>2 DEF Plants, ParentOf

\* Nodes are started below their orchestration.
LEMMA StartNodesPlants ==
    ASSUME NEW r, NEW o, NEW ready, Shaped(r)
    PROVE  Plants(r, StartNodes(r, o, ready), o)
<1>0. Len(NodeOrder) \in Nat
      BY DefinitionAssumption
<1>1. PICK f : /\ DOMAIN f = 0..Len(NodeOrder) /\ f[0] = r
               /\ \A i \in 1..Len(NodeOrder) :
                     f[i] = IF NodeOrder[i] \in ready
                            THEN CreateAgent(f[i - 1], o, NodeCallable[NodeOrder[i]], NodeOrder[i])
                            ELSE f[i - 1]
               /\ StartNodes(r, o, ready) = f[Len(NodeOrder)]
      BY StartNodesRounds
<1> DEFINE P == {n \in Nat : n <= Len(NodeOrder) => Shaped(f[n]) /\ Plants(r, f[n], o)}
<1>2. 0 \in P
      BY <1>1 DEF Plants
<1>3. ASSUME NEW n \in Nat, n \in P PROVE n + 1 \in P
  <2> SUFFICES ASSUME n + 1 <= Len(NodeOrder) PROVE Shaped(f[n + 1]) /\ Plants(r, f[n + 1], o)
      OBVIOUS
  <2>1. Shaped(f[n]) /\ Plants(r, f[n], o)
        BY <1>0, <1>3
  <2>2. n + 1 \in 1..Len(NodeOrder) /\ (n + 1) - 1 = n
        BY <1>0
  <2>3. f[n + 1] = f[n] \/ \E c, node : f[n + 1] = CreateAgent(f[n], o, c, node)
        BY <1>1, <2>2
  <2>4. CASE f[n + 1] = f[n]
        BY <2>1, <2>4
  <2>5. ASSUME NEW c, NEW node, f[n + 1] = CreateAgent(f[n], o, c, node)
        PROVE  Shaped(f[n + 1]) /\ Plants(r, f[n + 1], o)
    <3>1. Follows(f[n], f[n + 1]) /\ Plants(f[n], f[n + 1], o)
          BY <2>1, <2>5, AgentFollows, AgentPlants
    <3>. QED BY <2>1, <3>1, PlantsTransitive DEF Follows
  <2>. QED BY <2>3, <2>4, <2>5
<1>4. Len(NodeOrder) \in P
  <2> HIDE DEF P
  <2>. QED BY <1>0, <1>2, <1>3, Induction
<1>. QED BY <1>0, <1>1, <1>4

\* Events create nothing.
LEMMA EventsPlantNothing ==
    ASSUME NEW r, Shaped(r)
    PROVE  /\ \A e, state : Live(r, e) => Known(WithState(r, e, state)) = Known(r)
           /\ \A S : Known(FallbackFail(r, S)) = Known(r)
           /\ \A o : Live(r, o) => Known(FailOrchestration(r, o)) = Known(r)
           /\ \A b : Known(Recorded(r, b)) = Known(r)
<1>1. \A e, state : Live(r, e) => Known(WithState(r, e, state)) = Known(r)
      BY StateChanged
<1>2. \A S : Known(FallbackFail(r, S)) = Known(r)
      BY FallbackFollows DEF Known
<1>3. \A o : Live(r, o) => Known(FailOrchestration(r, o)) = Known(r)
  <2> SUFFICES ASSUME NEW o, Live(r, o) PROVE Known(FailOrchestration(r, o)) = Known(r)
      OBVIOUS
  <2> DEFINE q == WithState(r, o, "Failed")
  <2>1. Shaped(q)
        BY StateChanged
  <2> HIDE DEF q
  <2>2. Known(FailOrchestration(r, o)) = Known(r)
        BY <2>1 DEF FailOrchestration, q, Known, Shaped, RuntimeFields
  <2>. QED BY <2>2
<1>4. \A b : Known(Recorded(r, b)) = Known(r)
      BY RecordedFollows DEF Known
<1>. QED BY <1>1, <1>2, <1>3, <1>4

\* Advancing or refreshing an orchestration creates agents of it.
LEMMA RefreshPlants ==
    ASSUME NEW r, NEW o, Shaped(r)
    PROVE  /\ Plants(r, Advance(r, o), o) /\ Plants(r, Refresh(r, o), o)
           /\ o = None => Refresh(r, o) = r
<1>1. ASSUME NEW s, Known(s) = Known(r) PROVE Plants(r, s, o)
      BY <1>1 DEF Plants
<1>2. Plants(r, Advance(r, o), o)
  <2>1. CASE StateOf(r, o) = "Running"
    <3>1. Known(WithState(r, o, "Completed")) = Known(r)
          BY <2>1, EventsPlantNothing DEF Live, Terminal
    <3>. QED BY <1>1, <3>1, StartNodesPlants DEF Advance
  <2>. QED BY <1>1, <2>1 DEF Advance
<1>3. ASSUME Live(r, o), NEW S PROVE Plants(r, FailOrchestration(FallbackFail(r, S), o), o)
  <2> DEFINE q == FallbackFail(r, S)
  <2>1. Shaped(q) /\ q.executions = r.executions
        BY FallbackFollows DEF Follows
  <2> HIDE DEF q
  <2>2. Live(q, o) /\ Known(q) = Known(r)
        BY <1>3, <2>1 DEF Live, StateOf, Known
  <2>3. Known(FailOrchestration(q, o)) = Known(r)
        BY <2>1, <2>2, EventsPlantNothing
  <2>. QED BY <1>1, <2>3 DEF q
<1>4. ASSUME NEW failed PROVE Plants(r, StartInterface(r, o, failed), o)
  <2> DEFINE q == CreateAgent(r, o, InterfaceAgent, None)
             b == AcceptsInterface(q, o, failed, NextId(r))
             t == StartInterface(r, o, failed)
  <2>1. Plants(r, q, o) /\ Shaped(q)
        BY AgentPlants, AgentFollows DEF Follows
  <2>2. t = [Recorded(q, b) EXCEPT !.interfaces = Add(Recorded(q, b).interfaces, failed, NextId(r))]
        BY DEF StartInterface
  <2> HIDE DEF q, b, t
  <2>3. DOMAIN Recorded(q, b) = RuntimeFields /\ Recorded(q, b).executions = q.executions
        BY <2>1, RecordedFollows DEF Follows, Shaped
  <2>4. t.executions = q.executions
        BY <2>2, <2>3 DEF RuntimeFields
  <2>. QED BY <2>1, <2>4 DEF Plants, Known, ParentOf, t
<1>5. ASSUME IsOrchestration(r, o), Live(r, o) PROVE Plants(r, Refresh(r, o), o)
  <2>1. \A failed : Plants(r, HandleFailure(r, o, failed), o)
        BY <1>1, <1>3, <1>4, <1>5 DEF HandleFailure
  <2>2. Plants(r, FailOrchestration(r, o), o) /\ Plants(r, WithState(r, o, "Cancelled"), o)
        /\ Plants(r, WithState(r, o, "Interrupted"), o)
        BY <1>1, <1>5, EventsPlantNothing
  <2>6. \/ \E S : Refresh(r, o) = FailOrchestration(FallbackFail(r, S), o)
        \/ \E failed : Refresh(r, o) = HandleFailure(r, o, failed)
        \/ Refresh(r, o) = FailOrchestration(r, o)
        \/ Refresh(r, o) = WithState(r, o, "Cancelled")
        \/ Refresh(r, o) = WithState(r, o, "Interrupted")
        \/ Refresh(r, o) = Advance(r, o)
        BY <1>5, Zenon DEF Refresh
  <2>. QED BY <1>2, <1>3, <1>5, <2>1, <2>2, <2>6
<1>6. ASSUME ~(IsOrchestration(r, o) /\ Live(r, o)) PROVE Plants(r, Refresh(r, o), o)
      BY <1>1, <1>2, <1>6 DEF Refresh
<1>7. o = None => Refresh(r, o) = r
      BY DEF Refresh, IsOrchestration
<1>. QED BY <1>2, <1>5, <1>6, <1>7
-------------------------------------------------------------------------------
(* The steps of the runtime. *)

\* The bounds are the ids'.
LEMMA KnownAreIds ==
    ASSUME NEW r, Shaped(r), Cardinality(Known(r)) <= MaxExecutions
    PROVE  Known(r) \subseteq Ids
<1>0. FirstExecution \in Nat /\ MaxExecutions \in Nat
      BY DefinitionAssumption
<1>1. PICK n \in Nat : /\ Known(r) \cup {NextId(r)} = FirstExecution .. (FirstExecution + n - 1)
                       /\ n = Cardinality(Known(r)) + 1
      BY NextIdIsNew
<1>2. NextId(r) = FirstExecution + (n - 1) /\ NextId(r) \notin Known(r)
      BY <1>0, <1>1, NextIdIsNew DEF NextId
<1>3. \A e \in Known(r) : e \in FirstExecution .. (FirstExecution + n - 1) /\ e # FirstExecution + (n - 1)
      BY <1>1, <1>2
<1>4. n - 1 <= MaxExecutions
      BY <1>0, <1>1, NextIdIsNew
<1>. QED BY <1>0, <1>1, <1>3, <1>4 DEF Ids

\* And the ids' are the bounds.
LEMMA IdsBoundKnown ==
    ASSUME NEW r, Known(r) \subseteq Ids
    PROVE  Cardinality(Known(r)) <= MaxExecutions
<1>0. FirstExecution \in Nat /\ MaxExecutions \in Nat
      BY DefinitionAssumption
<1>1. FirstExecution \in Int /\ FirstExecution + MaxExecutions - 1 \in Int
      BY <1>0
<1>2. /\ IsFiniteSet(Ids)
      /\ Cardinality(Ids) = IF FirstExecution > FirstExecution + MaxExecutions - 1 THEN 0
                            ELSE (FirstExecution + MaxExecutions - 1) - FirstExecution + 1
      BY <1>1, FS_Interval DEF Ids
<1>3. Cardinality(Ids) = MaxExecutions
      BY <1>0, <1>2
<1>. QED BY <1>2, <1>3, FS_Subset

\* start_orchestration and start_session_callable of an orchestration
LEMMA LaunchFollows ==
    ASSUME Shaped(runtime), NEW s, NEW parent
    PROVE  LET r == Launch(Create(runtime, s, parent, "Orchestration", None, None)) IN
           Follows(runtime, r) /\ NextId(runtime) \in Known(r)
<1> DEFINE o == NextId(runtime)
           q == Create(runtime, s, parent, "Orchestration", None, None)
           t == SetState(q, o, "Running")
           u == Advance(t, o)
<1>1. /\ Follows(runtime, q) /\ o \in Known(q)
      /\ q.executions[o] = [session |-> s, parent |-> parent, kind |-> "Orchestration",
                            callable |-> None, node |-> None, state |-> "Pending"]
      BY CreateFollows
<1>2. o # None
      BY NextIdIsNew, DefinitionAssumption
<1> HIDE DEF o, q
<1>3. Shaped(q) /\ Live(q, o) /\ IsOrchestration(q, o)
      BY <1>1, <1>2 DEF Follows, Live, StateOf, Terminal, IsOrchestration
<1>4. Follows(q, t)
      BY <1>3, SetStateFollows
<1> HIDE DEF t
<1>5. Follows(t, u)
      BY <1>4, AdvanceFollows DEF Follows
<1> HIDE DEF u
<1>6. Follows(runtime, u)
      BY <1>1, <1>4, <1>5, FollowsTransitive
<1>7. o \in Known(u)
      BY <1>1, <1>4, <1>5 DEF Follows, Later
<1>8. Launch(q) = u
      BY DEF Launch, u, t, o
<1>. QED BY <1>6, <1>7, <1>8 DEF o, q

\* Requests of a client
LEMMA RequestFollows ==
    ASSUME Shaped(runtime), NEW s, Submit(s) \/ StartSessionOrchestration(s)
    PROVE  Follows(runtime, runtime') /\ NextId(runtime) \in Known(runtime')
<1>1. CASE Submit(s)
  <2>1. ASSUME NEW kind, NEW c, NEW q, q = Create(runtime, s, None, kind, c, None)
        PROVE  Follows(runtime, q) /\ NextId(runtime) \in Known(q)
    <3>1. Follows(runtime, q) /\ Known(q) = Known(runtime) \cup {NextId(runtime)}
          BY <2>1, CreateFollows
    <3>. QED BY <3>1
  <2>2. \E kind, c : runtime' = Create(runtime, s, None, kind, c, None)
        BY <1>1 DEF Submit, Commit
  <2>. QED BY <2>1, <2>2
<1>2. CASE StartSessionOrchestration(s)
      BY <1>2, LaunchFollows DEF StartSessionOrchestration, Commit
<1>. QED BY <1>1, <1>2

\* The semantic tool of a root
LEMMA StartOrchestrationFollows ==
    ASSUME Shaped(runtime), NEW p, StartOrchestration(p)
    PROVE  Follows(runtime, runtime')
BY LaunchFollows DEF StartOrchestration, Commit

\* The ends of executions
LEMMA EndFollows ==
    ASSUME Shaped(runtime), NEW e,
           FailPreparation(e) \/ Finish(e, "Completed") \/ Finish(e, "Failed")
    PROVE  Follows(runtime, runtime') /\ (e \in Known(runtime) => ~Live(runtime', e))
<1>1. Live(runtime, e) /\ \E state \in {"Completed", "Failed"} : runtime' = SetState(runtime, e, state)
      BY DEF FailPreparation, Finish, Commit, Live, Terminal
<1>. QED BY <1>1, SetStateFollows DEF Live, Terminal

\* cancel_execution: what was known is over.
LEMMA CancelFollows ==
    ASSUME Shaped(runtime), NEW e, Cancel(e)
    PROVE  /\ Follows(runtime, runtime')
           /\ e \in Known(runtime) \cap Ids => ~Live(runtime', e)
<1> DEFINE S == {e} \cup Descendants(runtime, e)
           cause == [kind |-> "ExplicitCancellation", execution |-> e]
<1>1. runtime' = CancelSet(runtime, S, cause) /\ e \in S
      BY DEF Cancel, Commit
<1> HIDE DEF S, cause
<1>. QED BY <1>1, CancelSetFollows

\* decide_orchestration_failure
LEMMA DecideFailureFollows ==
    ASSUME Shaped(runtime), NEW d, NEW failed, DecideFailure(d, failed)
    PROVE  Follows(runtime, runtime')
<1>1. ASSUME NEW q, NEW b, NEW kind, NEW recovery, NEW o,
             Follows(runtime, q), q.decisions = runtime.decisions, ~Decided(runtime, failed),
             runtime' = Refresh(Decide(Recorded(q, b), failed, kind, recovery), o)
      PROVE  Follows(runtime, runtime')
  <2> DEFINE t == Recorded(q, b)
             u == Decide(t, failed, kind, recovery)
  <2>1. Follows(q, t) /\ t.decisions = q.decisions
        BY <1>1, RecordedFollows DEF Follows
  <2> HIDE DEF t
  <2>2. Follows(t, u)
        BY <1>1, <2>1, DecideFollows DEF Follows, Decided
  <2> HIDE DEF u
  <2>3. Follows(u, Refresh(u, o))
        BY <2>2, RefreshFollows DEF Follows
  <2>4. runtime' = Refresh(u, o)
        BY <1>1 DEF u, t
  <2>. QED BY <1>1, <2>1, <2>2, <2>3, <2>4, FollowsTransitive
<1>2. ASSUME NEW kind, NEW callable, NEW backed, Recover(d, failed, kind, callable, backed)
      PROVE  Follows(runtime, runtime')
  <2> DEFINE q == WithRecovery(d, callable)
  <2>1. Follows(runtime, q) /\ q.decisions = runtime.decisions
        BY AgentFollows DEF WithRecovery
  <2>2. ~Decided(runtime, failed)
        BY <1>2 DEF Recover, MayDecide
  <2>3. \E b : runtime' = Refresh(Decide(Recorded(q, b), failed, kind, NextId(runtime)),
                                  ParentOf(runtime, d))
        BY <1>2 DEF Recover, Commit
  <2> HIDE DEF q
  <2>. QED BY <1>1, <2>1, <2>2, <2>3
<1>3. ASSUME NEW kind, Resolve(d, failed, kind)
      PROVE  Follows(runtime, runtime')
  <2>1. ~Decided(runtime, failed)
        BY <1>3 DEF Resolve, MayDecide
  <2>2. \E b : runtime' = Refresh(Decide(Recorded(runtime, b), failed, kind, None),
                                  ParentOf(runtime, d))
        BY <1>3 DEF Resolve, Commit
  <2>3. Follows(runtime, runtime)
        BY FollowsReflexive
  <2>. QED BY <1>1, <2>1, <2>2, <2>3
<1>4. CASE Retry(d, failed)
      BY <1>2, <1>4 DEF Retry
<1>5. ASSUME NEW c \in Agents, ChooseAnotherChild(d, failed, c) PROVE Follows(runtime, runtime')
      BY <1>2, <1>5 DEF ChooseAnotherChild
<1>. QED BY <1>3, <1>4, <1>5 DEF DecideFailure

\* Every step of the runtime leads to a later one.
LEMMA NextLater ==
    ASSUME Shaped(runtime), [Next]_vars
    PROVE  Shaped(runtime') /\ Later(runtime, runtime')
<1> DEFINE Goal == Shaped(runtime') /\ Later(runtime, runtime')
<1>0. ASSUME Follows(runtime, runtime') PROVE Goal
      BY <1>0 DEF Follows
<1> USE DEF vars
<1>1. ASSUME runtime' = runtime PROVE Goal
      BY <1>0, <1>1, FollowsReflexive
<1>2. ASSUME NEW s \in Sessions, Submit(s) \/ StartSessionOrchestration(s) PROVE Goal
      BY <1>0, <1>2, RequestFollows
<1>3. ASSUME NEW s \in Sessions, CloseSession(s) PROVE Goal
      BY <1>1, <1>3 DEF CloseSession
<1>4. ASSUME NEW e, StartOrchestration(e) PROVE Goal
      BY <1>0, <1>4, StartOrchestrationFollows
<1>5. ASSUME NEW e, Start(e) PROVE Goal
      BY <1>1, <1>5 DEF Start
<1>6. ASSUME NEW e, Begin(e) PROVE Goal
  <2>1. Live(runtime, e) /\ runtime' = SetState(runtime, e, "Running")
        BY <1>6 DEF Begin, Commit, Live, Terminal
  <2>. QED BY <2>1, BeginLater
<1>7. ASSUME NEW e, FailPreparation(e) \/ Finish(e, "Completed") \/ Finish(e, "Failed") PROVE Goal
      BY <1>0, <1>7, EndFollows
<1>8. ASSUME NEW e, Cancel(e) PROVE Goal
      BY <1>0, <1>8, CancelFollows
<1>9. ASSUME NEW e, NEW failed, DecideFailure(e, failed) PROVE Goal
      BY <1>0, <1>9, DecideFailureFollows
<1> HIDE DEF Goal
<1>10. Goal
       BY <1>1, <1>2, <1>3, <1>4, <1>5, <1>6, <1>7, <1>8, <1>9 DEF Next
<1>. QED BY <1>10 DEF Goal

\* An empty runtime is in order.
LEMMA FreshIsShaped == Shaped(Fresh)
<1>1. DOMAIN Fresh = RuntimeFields /\ Known(Fresh) = {}
      BY DEF Fresh, RuntimeFields, Known, Empty
<1>2. {} = FirstExecution .. (FirstExecution + 0 - 1)
      BY DefinitionAssumption
<1>. QED BY <1>1, <1>2 DEF Shaped

\* What is over stays so (set_state refuses it, lib.rs:1663, and nothing gets that
\* far): outcomes of executions and decisions about failed children are final,
\* through every nesting of cancellations, failures and refreshes.
THEOREM FinalOutcomes == Spec => OutcomesAreFinal
<1> DEFINE Final == /\ \A e \in Known(runtime) :
                          ~Live(runtime, e) => StateOf(runtime', e) = StateOf(runtime, e)
                    /\ \A e \in DOMAIN runtime.decisions :
                          runtime'.decisions[e] = runtime.decisions[e]
<1>1. Init => Shaped(runtime)
      BY FreshIsShaped DEF Init, Fresh
<1>2. Shaped(runtime) /\ [Next]_vars => Shaped(runtime)' /\ [Final]_vars
      BY NextLater DEF Later
<1>. QED BY <1>1, <1>2, PTL DEF Spec, OutcomesAreFinal
-------------------------------------------------------------------------------
(* The states of nodes.  The recovery of a failed execution is created after it, *)
(* so that what is said of an execution may rest on the same for later ones.     *)

\* Recoveries are known, and later than what they recover.
Leads(r) ==
    \A f \in DOMAIN r.decisions :
        r.decisions[f].kind \notin {"Continue", "Fail"} =>
            r.decisions[f].execution \in Known(r) /\ r.decisions[f].execution > f

\* Induction from the latest execution down
LEMMA FromTheLatest ==
    ASSUME NEW r, Shaped(r), NEW Shown,
           \A x \in Known(r) : (\A y \in Known(r) : y > x => y \in Shown) => x \in Shown
    PROVE  Known(r) \subseteq Shown
<1>1. PICK n \in Nat : Known(r) = FirstExecution .. (FirstExecution + n - 1)
      BY DEF Shaped
<1>2. FirstExecution \in Nat
      BY DefinitionAssumption
<1> DEFINE P == {k \in Nat : \A x \in Known(r) : x >= FirstExecution + n - k => x \in Shown}
<1>3. 0 \in P
      BY <1>1, <1>2
<1>4. ASSUME NEW k \in Nat, k \in P PROVE k + 1 \in P
  <2> SUFFICES ASSUME NEW x \in Known(r), x >= FirstExecution + n - (k + 1) PROVE x \in Shown
      OBVIOUS
  <2>1. x \in Int /\ \A y \in Known(r) : y \in Int
        BY <1>1, <1>2
  <2>2. \A y \in Known(r) : y > x => y >= FirstExecution + n - k
        BY <1>1, <1>2, <2>1
  <2>3. \A y \in Known(r) : y > x => y \in Shown
        BY <1>4, <2>2
  <2>. QED BY <2>3
<1> HIDE DEF P
<1>5. n \in P
      BY <1>1, <1>3, <1>4, Induction
<1>6. \A x \in Known(r) : x >= FirstExecution + n - n
      BY <1>1, <1>2
<1>. QED BY <1>5, <1>6 DEF P

\* effective_orchestration_execution_state, one recovery at a time
LEMMA EffectiveStep ==
    ASSUME NEW r, Shaped(r), Leads(r), NEW e \in Known(r)
    PROVE  EffectiveState(r, e) =
              IF StateOf(r, e) # "Failed" THEN StateOf(r, e)
              ELSE IF ~Decided(r, e) THEN "Failed"
              ELSE IF r.decisions[e].kind = "Continue" THEN "Completed"
              ELSE IF r.decisions[e].kind = "Fail" THEN "Failed"
              ELSE EffectiveState(r, r.decisions[e].execution)
<1>1. PICK n \in Nat : Known(r) = FirstExecution .. (FirstExecution + n - 1)
      BY DEF Shaped
<1>2. FirstExecution \in Nat
      BY DefinitionAssumption
<1> DEFINE Body(f, x) ==
               IF StateOf(r, x) # "Failed" THEN StateOf(r, x)
               ELSE IF ~Decided(r, x) THEN "Failed"
               ELSE CASE r.decisions[x].kind = "Continue" -> "Completed"
                      [] r.decisions[x].kind = "Fail" -> "Failed"
                      [] OTHER -> f[r.decisions[x].execution]
           Partial(f, k) == /\ f = [x \in Known(r) |-> f[x]]
                            /\ \A x \in Known(r) : x >= FirstExecution + n - k => f[x] = Body(f, x)
           P == {k \in Nat : \E f : Partial(f, k)}
<1>a. \A f, x : Body(f, x) = IF StateOf(r, x) # "Failed" THEN StateOf(r, x)
                             ELSE IF ~Decided(r, x) THEN "Failed"
                             ELSE IF r.decisions[x].kind = "Continue" THEN "Completed"
                             ELSE IF r.decisions[x].kind = "Fail" THEN "Failed"
                             ELSE f[r.decisions[x].execution]
      OBVIOUS
<1>b. ASSUME NEW f, NEW g, NEW x \in Known(r), \A y \in Known(r) : y > x => g[y] = f[y]
      PROVE  Body(g, x) = Body(f, x)
  <2>1. CASE Decided(r, x) /\ r.decisions[x].kind \notin {"Continue", "Fail"}
    <3>1. r.decisions[x].execution \in Known(r) /\ r.decisions[x].execution > x
          BY <2>1 DEF Leads, Decided
    <3>2. g[r.decisions[x].execution] = f[r.decisions[x].execution]
          BY <1>b, <3>1
    <3> HIDE DEF Body
    <3>. QED BY <1>a, <3>2
  <2>2. CASE ~(Decided(r, x) /\ r.decisions[x].kind \notin {"Continue", "Fail"})
    <3> HIDE DEF Body
    <3>. QED BY <1>a, <2>2
  <2>. QED BY <2>1, <2>2
<1> HIDE DEF Body
<1>3. 0 \in P
  <2>1. Partial([x \in Known(r) |-> 0], 0)
        BY <1>1, <1>2
  <2>. QED BY <2>1
<1>4. ASSUME NEW k \in Nat, k \in P PROVE k + 1 \in P
  <2>1. PICK f : Partial(f, k)
        BY <1>4
  <2> DEFINE m == FirstExecution + n - (k + 1)
             g == [x \in Known(r) |-> IF x = m THEN Body(f, m) ELSE f[x]]
  <2>2. ASSUME NEW x \in Known(r), x >= m PROVE g[x] = Body(g, x)
    <3>1. x \in Int /\ m \in Int /\ \A y \in Known(r) : y \in Int
          BY <1>1, <1>2
    <3>2. \A y \in Known(r) : y > x => g[y] = f[y]
          BY <2>2, <3>1
    <3>3. Body(g, x) = Body(f, x)
          BY <1>b, <3>2
    <3>4. x # m => x >= FirstExecution + n - k
          BY <1>1, <1>2, <2>2, <3>1
    <3>5. g[x] = Body(f, x)
          BY <2>1, <3>4
    <3>. QED BY <3>3, <3>5
  <2>3. g = [x \in Known(r) |-> g[x]]
        OBVIOUS
  <2>4. Partial(g, k + 1)
        BY <2>2, <2>3
  <2> HIDE DEF g, Partial
  <2>. QED BY <2>4
<1>5. n \in P
  <2> HIDE DEF P
  <2>. QED BY <1>1, <1>3, <1>4, Induction
<1>6. \E f : f = [x \in Known(r) |-> Body(f, x)]
  <2>1. PICK f : Partial(f, n)
        BY <1>5
  <2>2. \A x \in Known(r) : f[x] = Body(f, x)
        BY <1>1, <1>2, <2>1
  <2>3. f = [x \in Known(r) |-> Body(f, x)]
        BY <2>1, <2>2
  <2>. QED BY <2>3
<1> DEFINE follow == CHOOSE f : f = [x \in Known(r) |-> Body(f, x)]
<1>7. follow = [x \in Known(r) |-> Body(follow, x)]
      BY <1>6
<1>8. \A x : EffectiveState(r, x) = follow[x]
      BY DEF EffectiveState, Body
<1> HIDE DEF follow
<1>9. follow[e] = Body(follow, e)
      BY <1>7
<1>. QED BY <1>8, <1>9, <1>a

\* Executions whose recoveries are among them, and that are as they were, count for
\* what they counted for.
LEMMA EffectiveFrame ==
    ASSUME NEW r, NEW s, Shaped(r), Shaped(s), Leads(r), Leads(s),
           NEW C, C \subseteq Known(r), C \subseteq Known(s),
           \A x \in C : /\ StateOf(s, x) = StateOf(r, x)
                        /\ Decided(s, x) <=> Decided(r, x)
                        /\ Decided(r, x) => s.decisions[x] = r.decisions[x]
                        /\ Decided(r, x) /\ r.decisions[x].kind \notin {"Continue", "Fail"} =>
                              r.decisions[x].execution \in C
    PROVE  \A x \in C : EffectiveState(s, x) = EffectiveState(r, x)
<1> DEFINE Shown == {x \in Known(r) : x \in C => EffectiveState(s, x) = EffectiveState(r, x)}
<1>1. ASSUME NEW x \in Known(r), \A y \in Known(r) : y > x => y \in Shown
      PROVE  x \in Shown
  <2> SUFFICES ASSUME x \in C PROVE EffectiveState(s, x) = EffectiveState(r, x)
      OBVIOUS
  <2>1. CASE Decided(r, x) /\ r.decisions[x].kind \notin {"Continue", "Fail"}
    <3> DEFINE y == r.decisions[x].execution
    <3>1. y \in Known(r) /\ y > x /\ y \in C
          BY <2>1 DEF Leads, Decided
    <3>2. EffectiveState(s, y) = EffectiveState(r, y)
          BY <1>1, <3>1
    <3>. QED BY <2>1, <3>2, EffectiveStep
  <2>2. CASE ~(Decided(r, x) /\ r.decisions[x].kind \notin {"Continue", "Fail"})
        BY <2>2, EffectiveStep
  <2>. QED BY <2>1, <2>2
<1> HIDE DEF Shown
<1>2. Known(r) \subseteq Shown
      BY <1>1, FromTheLatest
<1>. QED BY <1>2 DEF Shown

\* What counts as completed counts so ever after.
LEMMA CompletedStays ==
    ASSUME NEW r, NEW s, Shaped(r), Shaped(s), Leads(r), Leads(s), Later(r, s),
           NEW e \in Known(r), EffectiveState(r, e) = "Completed"
    PROVE  EffectiveState(s, e) = "Completed"
<1> DEFINE Shown == {x \in Known(r) :
                    EffectiveState(r, x) = "Completed" => EffectiveState(s, x) = "Completed"}
<1>1. ASSUME NEW x \in Known(r), \A y \in Known(r) : y > x => y \in Shown
      PROVE  x \in Shown
  <2> SUFFICES ASSUME EffectiveState(r, x) = "Completed" PROVE EffectiveState(s, x) = "Completed"
      OBVIOUS
  <2>1. /\ x \in Known(s) /\ (~Live(r, x) => StateOf(s, x) = StateOf(r, x))
        /\ Decided(r, x) => Decided(s, x) /\ s.decisions[x] = r.decisions[x]
        BY DEF Later, Decided
  <2>2. CASE StateOf(r, x) # "Failed"
    <3>1. StateOf(r, x) = "Completed"
          BY <2>2, EffectiveStep
    <3>2. StateOf(s, x) = "Completed"
          BY <2>1, <3>1 DEF Live, Terminal
    <3>. QED BY <2>1, <3>2, EffectiveStep
  <2>3. CASE StateOf(r, x) = "Failed"
    <3>1. StateOf(s, x) = "Failed"
          BY <2>1, <2>3 DEF Live, Terminal
    <3>2. Decided(r, x) /\ r.decisions[x].kind # "Fail"
          BY <2>3, EffectiveStep
    <3>3. CASE r.decisions[x].kind = "Continue"
          BY <2>1, <3>1, <3>2, <3>3, EffectiveStep
    <3>4. CASE r.decisions[x].kind # "Continue"
      <4> DEFINE y == r.decisions[x].execution
      <4>1. y \in Known(r) /\ y > x
            BY <3>2, <3>4 DEF Leads, Decided
      <4>2. EffectiveState(r, y) = "Completed"
            BY <2>3, <3>2, <3>4, EffectiveStep
      <4>3. EffectiveState(s, y) = "Completed"
            BY <1>1, <4>1, <4>2
      <4>. QED BY <2>1, <3>1, <3>2, <3>4, <4>3, EffectiveStep
    <3>. QED BY <3>3, <3>4
  <2>. QED BY <2>2, <2>3
<1> HIDE DEF Shown
<1>2. Known(r) \subseteq Shown
      BY <1>1, FromTheLatest
<1>. QED BY <1>2 DEF Shown

\* A cancellation completes nothing.
LEMMA CancelledIsNotCompleted ==
    ASSUME NEW r, NEW s, Shaped(r), Shaped(s), Leads(r), Leads(s), Known(s) = Known(r),
           s.decisions = r.decisions,
           \A x \in Known(r) : \/ StateOf(s, x) = StateOf(r, x)
                               \/ Live(r, x) /\ StateOf(s, x) = "Cancelled",
           NEW e \in Known(r), EffectiveState(s, e) = "Completed"
    PROVE  EffectiveState(r, e) = "Completed"
<1> DEFINE Shown == {x \in Known(r) :
                    EffectiveState(s, x) = "Completed" => EffectiveState(r, x) = "Completed"}
<1>1. ASSUME NEW x \in Known(r), \A y \in Known(r) : y > x => y \in Shown
      PROVE  x \in Shown
  <2> SUFFICES ASSUME EffectiveState(s, x) = "Completed" PROVE EffectiveState(r, x) = "Completed"
      OBVIOUS
  <2>0. Decided(s, x) <=> Decided(r, x)
        BY DEF Decided
  <2>1. StateOf(s, x) # "Cancelled"
        BY EffectiveStep
  <2>2. StateOf(s, x) = StateOf(r, x)
        BY <2>1
  <2>3. CASE Decided(r, x) /\ r.decisions[x].kind \notin {"Continue", "Fail"}
    <3> DEFINE y == r.decisions[x].execution
    <3>1. y \in Known(r) /\ y > x
          BY <2>3 DEF Leads, Decided
    <3>2. EffectiveState(s, y) = "Completed" => EffectiveState(r, y) = "Completed"
          BY <1>1, <3>1
    <3>. QED BY <2>0, <2>2, <2>3, <3>2, EffectiveStep
  <2>4. CASE ~(Decided(r, x) /\ r.decisions[x].kind \notin {"Continue", "Fail"})
        BY <2>0, <2>2, <2>4, EffectiveStep
  <2>. QED BY <2>3, <2>4
<1> HIDE DEF Shown
<1>2. Known(r) \subseteq Shown
      BY <1>1, FromTheLatest
<1>. QED BY <1>2 DEF Shown
-------------------------------------------------------------------------------
(* The tree.  What is in order in a runtime, and how one grows out of another. *)

\* An execution is where its kind belongs, and works for an open session.
Placed(r, e) ==
    LET x == r.executions[e] IN
    /\ x.state \in States /\ x.kind \in Kinds
    /\ x.parent # None => /\ x.parent \in Known(r) /\ x.kind # "Root"
                          /\ r.executions[x.parent].kind =
                                IF x.kind = "Agent" THEN "Orchestration" ELSE "Root"
    /\ x.node # None => x.kind = "Agent" /\ x.parent # None /\ x.node \in Nodes
    /\ x.session \in Sessions
    /\ Live(r, e) => sessions[x.session] = "Active"

\* f is an agent of an orchestration that has failed.
FailedAgent(r, f) ==
    /\ f \in Known(r) /\ StateOf(r, f) = "Failed"
    /\ r.executions[f].kind = "Agent" /\ ParentOf(r, f) # None

\* The interface of a failed agent is its sibling, and runs no node.
Interfaced(r, f) ==
    /\ FailedAgent(r, f) /\ r.interfaces[f] \in Known(r)
    /\ ParentOf(r, r.interfaces[f]) = ParentOf(r, f)
    /\ r.executions[r.interfaces[f]].node = None

\* So is a recovery, which is younger.
Resolved(r, f) ==
    LET d == r.decisions[f] IN
    /\ FailedAgent(r, f)
    /\ d.kind \in {"Continue", "Fail"} => d.execution = None
    /\ d.kind \notin {"Continue", "Fail"} =>
          /\ d.execution \in Known(r) /\ d.execution > f
          /\ ParentOf(r, d.execution) = ParentOf(r, f)

\* No two executions run the same node of an orchestration.
NodesAreRunOnce(r) ==
    \A e, f \in Known(r) :
        /\ r.executions[e].node # None /\ r.executions[e].node = r.executions[f].node
        /\ ParentOf(r, e) = ParentOf(r, f)
        => e = f

Sound(r) ==
    /\ Shaped(r)
    /\ \A e \in Known(r) : Placed(r, e)
    /\ \A f \in DOMAIN r.interfaces : Interfaced(r, f)
    /\ \A f \in DOMAIN r.decisions : Resolved(r, f)
    /\ NodesAreRunOnce(r)

\* Nothing of the subtree of x is live.
Extinct(r, x) == ~Live(r, x) /\ \A d \in Descendants(r, x) : ~Live(r, d)

\* The nodes of o that count as completed
Done(r, o) ==
    {r.executions[e].node : e \in {f \in NodeExecutions(r, o) : EffectiveState(r, f) = "Completed"}}

\* What a recorded cancellation says, but for its being complete
Caused(r, e) ==
    LET cause == r.causes[e] IN
    /\ e \in Known(r) /\ StateOf(r, e) = "Cancelled" /\ cause.execution \in Known(r)
    /\ e \in {cause.execution} \cup Descendants(r, cause.execution)
    /\ cause.kind = "AncestorFailure" =>
          e # cause.execution /\ StateOf(r, cause.execution) = "Failed"

\* s comes after r and keeps what is not a state.
Keeps(r, s) ==
    /\ Later(r, s)
    /\ \A e \in Known(r) : /\ s.executions[e].session = r.executions[e].session
                           /\ s.executions[e].callable = r.executions[e].callable
                           /\ s.executions[e].node = r.executions[e].node
    /\ \A f \in DOMAIN r.interfaces : f \in DOMAIN s.interfaces /\ s.interfaces[f] = r.interfaces[f]

\* Executions are only created below live ones, for nodes whose dependencies completed.
Sprouts(r, s) ==
    \A e \in Known(s) \ Known(r) :
        /\ ParentOf(s, e) \in Known(r) => Live(r, ParentOf(s, e))
        /\ s.executions[e].node # None => DependsOn[s.executions[e].node] \subseteq Done(s, ParentOf(s, e))

\* What fails, but for those in X, takes its subtree with it; an orchestration completes
\* with all its nodes.
Ends(r, s, X) ==
    \A e \in Known(s) :
        /\ /\ StateOf(s, e) = "Failed" /\ (e \in Known(r) => StateOf(r, e) # "Failed") /\ e \notin X
           => Extinct(s, e)
        /\ /\ StateOf(s, e) = "Completed" /\ (e \in Known(r) => StateOf(r, e) # "Completed")
           /\ s.executions[e].kind = "Orchestration"
           => Done(s, e) = Nodes

\* Cancellations that are recorded are true, and complete but for those of X.
Blames(r, s, X) ==
    \A e \in DOMAIN s.causes :
        \/ e \in DOMAIN r.causes /\ s.causes[e] = r.causes[e]
        \/ /\ Caused(s, e)
           /\ s.causes[e].kind = "ExplicitCancellation" /\ s.causes[e].execution \notin X
              => Extinct(s, s.causes[e].execution)

\* Every event on the way from r to s was accepted.
Accepted(r, s) == ~r.refused => ~s.refused

Grows(r, s, X) ==
    Keeps(r, s) /\ Sprouts(r, s) /\ Ends(r, s, X) /\ Blames(r, s, X) /\ Accepted(r, s)

\* Sound runtimes, by their parts
LEMMA SoundHas ==
    ASSUME NEW r, Sound(r)
    PROVE  /\ Shaped(r) /\ Leads(r) /\ None \notin Known(r) /\ NodesAreRunOnce(r)
           /\ \A e \in Known(r) : e \in Int /\ Placed(r, e)
           /\ \A f \in DOMAIN r.interfaces : Interfaced(r, f)
           /\ \A f \in DOMAIN r.decisions : Resolved(r, f)
<1>1. Leads(r)
      BY DEF Sound, Leads, Resolved
<1>2. PICK n \in Nat : Known(r) = FirstExecution .. (FirstExecution + n - 1)
      BY DEF Sound, Shaped
<1>3. FirstExecution \in Nat /\ None \notin Int
      BY DefinitionAssumption
<1>4. \A e \in Known(r) : e \in Int
      BY <1>2, <1>3
<1>. QED BY <1>1, <1>3, <1>4 DEF Sound

\* What is extinct stays so.
LEMMA ExtinctStays ==
    ASSUME NEW r, NEW s, Sound(r), Keeps(r, s), Sprouts(r, s), NEW x \in Known(r), Extinct(r, x)
    PROVE  Extinct(s, x)
<1>0. \A e \in Known(r) : /\ ParentOf(r, e) # None => ParentOf(r, e) \in Known(r)
                          /\ e \in Known(s) /\ ParentOf(s, e) = ParentOf(r, e)
                          /\ ~Live(r, e) => ~Live(s, e)
      BY SoundHas DEF Placed, ParentOf, Keeps, Later, Live
<1>1. \A e \in Known(s) \ Known(r) : ParentOf(s, e) \in Known(r) => Live(r, ParentOf(s, e))
      BY DEF Sprouts
<1>2. ~Live(r, x) /\ \A d \in Known(r) : ParentOf(r, d) = x => ~Live(r, d)
      BY DEF Extinct, Descendants, Children
<1>3. \A c, d \in Known(r) : ParentOf(r, c) = x /\ ParentOf(r, d) = c => ~Live(r, d)
      BY DEF Extinct, Descendants, Children
<1>4. ASSUME NEW d \in Known(s), ParentOf(s, d) = x PROVE d \in Known(r) /\ ~Live(s, d)
      BY <1>0, <1>1, <1>2, <1>4
<1>5. ASSUME NEW d \in Known(s), NEW c \in Known(s), ParentOf(s, c) = x, ParentOf(s, d) = c
      PROVE  ~Live(s, d)
  <2>1. c \in Known(r) /\ ~Live(r, c)
        BY <1>0, <1>2, <1>4, <1>5
  <2>2. d \in Known(r)
        BY <1>1, <1>5, <2>1
  <2>. QED BY <1>0, <1>3, <1>5, <2>1, <2>2
<1>. QED BY <1>0, <1>2, <1>4, <1>5 DEF Extinct, Descendants, Children

\* What is done is done.
LEMMA DoneStays ==
    ASSUME NEW r, NEW s, Sound(r), Sound(s), Keeps(r, s), NEW o
    PROVE  Done(r, o) \subseteq Done(s, o)
<1> SUFFICES ASSUME NEW e \in NodeExecutions(r, o), EffectiveState(r, e) = "Completed"
             PROVE  r.executions[e].node \in Done(s, o)
    BY DEF Done
<1>1. /\ e \in Known(r) /\ e \in Known(s) /\ ParentOf(s, e) = o
      /\ s.executions[e].node = r.executions[e].node /\ s.executions[e].node # None
      BY DEF NodeExecutions, Children, Keeps, Later
<1>2. EffectiveState(s, e) = "Completed"
      BY <1>1, CompletedStays, SoundHas DEF Keeps
<1>3. e \in NodeExecutions(s, o)
      BY <1>1 DEF NodeExecutions, Children
<1>. QED BY <1>1, <1>2, <1>3 DEF Done

\* A cause stays true.
LEMMA CausedStays ==
    ASSUME NEW r, NEW s, Keeps(r, s), NEW e, Caused(r, e), s.causes[e] = r.causes[e]
    PROVE  Caused(s, e)
<1> DEFINE x == r.causes[e].execution
<1>1. /\ e \in Known(r) /\ StateOf(r, e) = "Cancelled" /\ x \in Known(r)
      /\ e \in {x} \cup Descendants(r, x)
      /\ r.causes[e].kind = "AncestorFailure" => e # x /\ StateOf(r, x) = "Failed"
      BY DEF Caused
<1>2. \A f \in Known(r) : /\ f \in Known(s) /\ ParentOf(s, f) = ParentOf(r, f)
                          /\ StateOf(r, f) \in Terminal => StateOf(s, f) = StateOf(r, f)
      BY DEF Keeps, Later, Live
<1> HIDE DEF x
<1>3. e \in {x} \cup Descendants(s, x)
      BY <1>1, <1>2 DEF Descendants, Children
<1>4. StateOf(s, e) = "Cancelled" /\ (StateOf(r, x) = "Failed" => StateOf(s, x) = "Failed")
      BY <1>1, <1>2 DEF Terminal
<1>5. s.causes[e].execution = x
      BY DEF x
<1>. QED BY <1>1, <1>2, <1>3, <1>4, <1>5 DEF Caused

\* Growth is transitive.
LEMMA GrowsTransitive ==
    ASSUME NEW r, NEW s, NEW t, NEW X, Sound(r), Sound(s), Sound(t), Grows(r, s, X), Grows(s, t, X)
    PROVE  Grows(r, t, X)
<1>0. /\ Later(r, t) /\ Keeps(r, s) /\ Keeps(s, t)
      /\ Known(r) \subseteq Known(s) /\ Known(s) \subseteq Known(t)
      BY LaterTransitive DEF Grows, Keeps, Later
<1>1. Keeps(r, t)
  <2>1. \A e \in Known(r) : /\ t.executions[e].session = r.executions[e].session
                            /\ t.executions[e].callable = r.executions[e].callable
                            /\ t.executions[e].node = r.executions[e].node
        BY <1>0 DEF Keeps
  <2>2. \A f \in DOMAIN r.interfaces : f \in DOMAIN t.interfaces /\ t.interfaces[f] = r.interfaces[f]
        BY <1>0 DEF Keeps
  <2>. QED BY <1>0, <2>1, <2>2 DEF Keeps
<1>2. \A e \in Known(s) : /\ ParentOf(t, e) = ParentOf(s, e) /\ t.executions[e].node = s.executions[e].node
                          /\ t.executions[e].kind = s.executions[e].kind
                          /\ ~Live(s, e) => StateOf(t, e) = StateOf(s, e)
      BY <1>0 DEF Keeps, Later
<1>3. \A e \in Known(r) : ~Live(r, e) => ~Live(s, e)
      BY <1>0 DEF Keeps, Later, Live
<1>4. Sprouts(r, t)
  <2> SUFFICES ASSUME NEW e \in Known(t) \ Known(r)
               PROVE  /\ ParentOf(t, e) \in Known(r) => Live(r, ParentOf(t, e))
                      /\ t.executions[e].node # None =>
                            DependsOn[t.executions[e].node] \subseteq Done(t, ParentOf(t, e))
      BY DEF Sprouts
  <2>1. CASE e \in Known(s)
    <3>1. /\ ParentOf(s, e) \in Known(r) => Live(r, ParentOf(s, e))
          /\ s.executions[e].node # None =>
                DependsOn[s.executions[e].node] \subseteq Done(s, ParentOf(s, e))
          BY <2>1 DEF Grows, Sprouts
    <3>2. Done(s, ParentOf(s, e)) \subseteq Done(t, ParentOf(s, e))
          BY <1>0, DoneStays
    <3>. QED BY <1>2, <2>1, <3>1, <3>2
  <2>2. CASE e \notin Known(s)
    <3>1. /\ ParentOf(t, e) \in Known(s) => Live(s, ParentOf(t, e))
          /\ t.executions[e].node # None =>
                DependsOn[t.executions[e].node] \subseteq Done(t, ParentOf(t, e))
          BY <2>2 DEF Grows, Sprouts
    <3>. QED BY <1>0, <1>3, <3>1
  <2>. QED BY <2>1, <2>2
<1>5. Ends(r, t, X)
  <2> SUFFICES ASSUME NEW e \in Known(t)
               PROVE  /\ /\ StateOf(t, e) = "Failed"
                         /\ (e \in Known(r) => StateOf(r, e) # "Failed") /\ e \notin X
                         => Extinct(t, e)
                      /\ /\ StateOf(t, e) = "Completed"
                         /\ (e \in Known(r) => StateOf(r, e) # "Completed")
                         /\ t.executions[e].kind = "Orchestration"
                         => Done(t, e) = Nodes
      BY DEF Ends
  <2>1. ASSUME StateOf(t, e) = "Failed", e \in Known(r) => StateOf(r, e) # "Failed", e \notin X
        PROVE  Extinct(t, e)
    <3>1. CASE e \in Known(s) /\ StateOf(s, e) = "Failed"
      <4>1. Extinct(s, e)
            BY <2>1, <3>1 DEF Grows, Ends
      <4>. QED BY <3>1, <4>1, ExtinctStays DEF Grows
    <3>2. CASE ~(e \in Known(s) /\ StateOf(s, e) = "Failed")
          BY <2>1, <3>2 DEF Grows, Ends
    <3>. QED BY <3>1, <3>2
  <2>2. ASSUME StateOf(t, e) = "Completed", e \in Known(r) => StateOf(r, e) # "Completed",
               t.executions[e].kind = "Orchestration"
        PROVE  Done(t, e) = Nodes
    <3>1. CASE e \in Known(s) /\ StateOf(s, e) = "Completed"
      <4>1. Done(s, e) = Nodes
            BY <1>2, <2>2, <3>1 DEF Grows, Ends
      <4>2. Done(s, e) \subseteq Done(t, e)
            BY <1>0, DoneStays
      <4>3. Done(t, e) \subseteq Nodes
            BY SoundHas DEF Done, NodeExecutions, Children, Placed
      <4>. QED BY <4>1, <4>2, <4>3
    <3>2. CASE ~(e \in Known(s) /\ StateOf(s, e) = "Completed")
          BY <2>2, <3>2 DEF Grows, Ends
    <3>. QED BY <3>1, <3>2
  <2>. QED BY <2>1, <2>2
<1>6. Blames(r, t, X)
  <2> SUFFICES ASSUME NEW e \in DOMAIN t.causes,
                      ~(e \in DOMAIN r.causes /\ t.causes[e] = r.causes[e])
               PROVE  /\ Caused(t, e)
                      /\ t.causes[e].kind = "ExplicitCancellation" /\ t.causes[e].execution \notin X
                         => Extinct(t, t.causes[e].execution)
      BY DEF Blames
  <2>1. CASE e \in DOMAIN s.causes /\ t.causes[e] = s.causes[e]
    <3>1. /\ Caused(s, e)
          /\ s.causes[e].kind = "ExplicitCancellation" /\ s.causes[e].execution \notin X
             => Extinct(s, s.causes[e].execution)
          BY <2>1 DEF Grows, Blames
    <3>2. Caused(t, e)
          BY <1>0, <2>1, <3>1, CausedStays
    <3>3. s.causes[e].execution \in Known(s)
          BY <3>1 DEF Caused
    <3>. QED BY <2>1, <3>1, <3>2, <3>3, ExtinctStays DEF Grows
  <2>2. CASE ~(e \in DOMAIN s.causes /\ t.causes[e] = s.causes[e])
        BY <2>2 DEF Grows, Blames
  <2>. QED BY <2>1, <2>2
<1>. QED BY <1>1, <1>4, <1>5, <1>6 DEF Grows, Accepted

\* Nothing grows out of itself.
LEMMA GrowsReflexive ==
    ASSUME NEW r, NEW X
    PROVE  Grows(r, r, X)
BY DEF Grows, Keeps, Later, Sprouts, Ends, Blames, Accepted

\* Fewer exceptions
LEMMA GrowsWeaker ==
    ASSUME NEW r, NEW s, NEW X, Grows(r, s, {})
    PROVE  Grows(r, s, X)
BY DEF Grows, Ends, Blames

\* An exception that is extinct in the end is none.
LEMMA GrowsWhole ==
    ASSUME NEW r, NEW s, NEW x, Grows(r, s, {x}), Extinct(s, x)
    PROVE  Grows(r, s, {})
BY DEF Grows, Ends, Blames
-------------------------------------------------------------------------------
(* The events. *)

\* x and y are one execution, in one state or another.
Fixed(x, y) ==
    /\ y.parent = x.parent /\ y.kind = x.kind /\ y.session = x.session
    /\ y.callable = x.callable /\ y.node = x.node

\* An event that is accepted is not refused.
LEMMA RecordedAccepts ==
    ASSUME NEW r, NEW b, Shaped(r), b
    PROVE  Accepted(r, Recorded(r, b))
BY DEF Accepted, Recorded, Shaped, RuntimeFields

\* ExecutionStateChanged
LEMMA StateDoes ==
    ASSUME NEW r, NEW e \in Known(r), NEW state, Shaped(r), Live(r, e),
           NEW s, s = WithState(r, e, state)
    PROVE  /\ Shaped(s) /\ Known(s) = Known(r) /\ s.decisions = r.decisions
           /\ s.interfaces = r.interfaces /\ s.causes = r.causes
           /\ Accepted(r, s)
           /\ \A f \in Known(r) : /\ Fixed(r.executions[f], s.executions[f])
                                  /\ StateOf(s, f) = IF f = e THEN state ELSE StateOf(r, f)
                                  /\ f # e => s.executions[f] = r.executions[f]
<1> DEFINE q == Recorded(r, AcceptsState(r, e))
<1>0. AcceptsState(r, e)
      BY DEF AcceptsState
<1>1. /\ DOMAIN q = RuntimeFields /\ q.executions = r.executions /\ Accepted(r, q)
      BY <1>0, RecordedFollows, RecordedAccepts
<1>2. s = [q EXCEPT !.executions[e].state = state]
      BY DEF WithState
<1> HIDE DEF q
<1>3. s.executions = [r.executions EXCEPT ![e].state = state] /\ Accepted(r, s)
      BY <1>1, <1>2 DEF RuntimeFields, Accepted
<1>4. \A f \in Known(r) :
         s.executions[f] = IF f = e THEN [r.executions[f] EXCEPT !.state = state]
                           ELSE r.executions[f]
      BY <1>3 DEF Known
<1>5. \A f \in Known(r) : DOMAIN r.executions[f] = ExecutionFields
      BY DEF Shaped
<1>6. \A f \in Known(r) : Fixed(r.executions[f], s.executions[f])
      BY <1>4, <1>5 DEF ExecutionFields, Fixed
<1>7. /\ Shaped(s) /\ Known(s) = Known(r) /\ s.decisions = r.decisions
      /\ s.interfaces = r.interfaces /\ s.causes = r.causes
      /\ \A f \in Known(r) : StateOf(s, f) = IF f = e THEN state ELSE StateOf(r, f)
      BY StateChanged
<1>. QED BY <1>3, <1>4, <1>6, <1>7

\* A runtime that differs from a sound one in what live executions have become
LEMMA StatesSound ==
    ASSUME NEW r, NEW s, Sound(r), Shaped(s), Known(s) = Known(r), s.decisions = r.decisions,
           s.interfaces = r.interfaces,
           \A f \in Known(r) : /\ Fixed(r.executions[f], s.executions[f])
                               /\ StateOf(s, f) \in States
                               /\ ~Live(r, f) => StateOf(s, f) = StateOf(r, f)
                               /\ StateOf(r, f) # "Pending" => StateOf(s, f) # "Pending"
    PROVE  Sound(s) /\ Keeps(r, s) /\ Sprouts(r, s)
<1>1. \A f \in Known(r) : FailedAgent(r, f) => FailedAgent(s, f)
      BY DEF FailedAgent, Fixed, ParentOf, Live, Terminal
<1>2. \A f \in Known(r) : Placed(s, f)
  <2> SUFFICES ASSUME NEW f \in Known(r) PROVE Placed(s, f)
      OBVIOUS
  <2>1. Placed(r, f) /\ Fixed(r.executions[f], s.executions[f]) /\ StateOf(s, f) \in States
        BY DEF Sound
  <2>2. Live(s, f) => Live(r, f)
        BY DEF Live
  <2>3. r.executions[f].parent # None =>
           s.executions[r.executions[f].parent].kind = r.executions[r.executions[f].parent].kind
        BY <2>1 DEF Placed, Fixed
  <2>. QED BY <2>1, <2>2, <2>3 DEF Placed, Fixed, StateOf
<1>3. \A f \in DOMAIN s.interfaces : Interfaced(s, f)
  <2> SUFFICES ASSUME NEW f \in DOMAIN r.interfaces PROVE Interfaced(s, f)
      OBVIOUS
  <2>1. Interfaced(r, f) /\ f \in Known(r)
        BY DEF Sound, Interfaced, FailedAgent
  <2>. QED BY <1>1, <2>1 DEF Interfaced, Fixed, ParentOf
<1>4. \A f \in DOMAIN s.decisions : Resolved(s, f)
  <2> SUFFICES ASSUME NEW f \in DOMAIN r.decisions PROVE Resolved(s, f)
      OBVIOUS
  <2>1. Resolved(r, f) /\ f \in Known(r)
        BY DEF Sound, Resolved, FailedAgent
  <2>. QED BY <1>1, <2>1 DEF Resolved, Fixed, ParentOf
<1>5. NodesAreRunOnce(s)
      BY DEF Sound, NodesAreRunOnce, Fixed, ParentOf
<1>6. Later(r, s)
      BY DEF Later, Fixed, ParentOf
<1>7. Keeps(r, s)
      BY <1>6 DEF Keeps, Fixed
<1>. QED BY <1>2, <1>3, <1>4, <1>5, <1>7 DEF Sound, Sprouts

\* What counts as done are nodes.
LEMMA DoneAreNodes ==
    ASSUME NEW r, Sound(r), NEW o
    PROVE  Done(r, o) \subseteq Nodes
BY SoundHas DEF Done, NodeExecutions, Children, Placed

\* A live execution changes its state.
LEMMA StateGrows ==
    ASSUME NEW r, NEW e \in Known(r), NEW state, Sound(r), Live(r, e), state \in States \ {"Pending"},
           state = "Completed" /\ r.executions[e].kind = "Orchestration" => Nodes \subseteq Done(r, e),
           NEW s, s = WithState(r, e, state)
    PROVE  Sound(s) /\ Grows(r, s, {e}) /\ (state # "Failed" => Grows(r, s, {}))
<1>1. /\ Shaped(s) /\ Known(s) = Known(r) /\ s.decisions = r.decisions
      /\ s.interfaces = r.interfaces /\ s.causes = r.causes /\ Accepted(r, s)
      /\ \A f \in Known(r) : /\ Fixed(r.executions[f], s.executions[f])
                             /\ StateOf(s, f) = IF f = e THEN state ELSE StateOf(r, f)
      BY StateDoes DEF Sound
<1>2. Sound(s) /\ Keeps(r, s) /\ Sprouts(r, s)
  <2>1. \A f \in Known(r) : StateOf(r, f) \in States
        BY DEF Sound, Placed, StateOf
  <2>. QED BY <1>1, <2>1, StatesSound
<1>3. state = "Completed" /\ s.executions[e].kind = "Orchestration" => Done(s, e) = Nodes
  <2>1. Done(r, e) \subseteq Done(s, e) /\ Done(s, e) \subseteq Nodes
        BY <1>2, DoneStays, DoneAreNodes
  <2>2. s.executions[e].kind = r.executions[e].kind
        BY <1>1 DEF Fixed
  <2>. QED BY <2>1, <2>2
<1>4. Ends(r, s, {e}) /\ (state # "Failed" => Ends(r, s, {}))
      BY <1>1, <1>3 DEF Ends
<1>5. Blames(r, s, {e}) /\ Blames(r, s, {})
      BY <1>1 DEF Blames
<1>. QED BY <1>1, <1>2, <1>4, <1>5 DEF Grows

\* A live execution is cancelled, and it is noted why (cancel_execution_set).
LEMMA MarkGrows ==
    ASSUME NEW r, NEW e \in Known(r), Sound(r), Live(r, e), NEW cause, cause.execution \in Known(r),
           e \in {cause.execution} \cup Descendants(r, cause.execution),
           cause.kind = "AncestorFailure" =>
              e # cause.execution /\ StateOf(r, cause.execution) = "Failed",
           NEW s, s = WithState(WithCause(r, e, cause), e, "Cancelled")
    PROVE  /\ Sound(s) /\ Grows(r, s, {cause.execution})
           /\ Known(s) = Known(r) /\ s.decisions = r.decisions /\ s.interfaces = r.interfaces
           /\ \A f \in Known(r) : /\ Fixed(r.executions[f], s.executions[f])
                                  /\ StateOf(s, f) = IF f = e THEN "Cancelled" ELSE StateOf(r, f)
                                  /\ f # e => s.executions[f] = r.executions[f]
<1> DEFINE q == WithCause(r, e, cause)
           x == cause.execution
<1>1. /\ DOMAIN q = RuntimeFields /\ q.executions = r.executions /\ q.decisions = r.decisions
      /\ q.interfaces = r.interfaces /\ q.causes = Add(r.causes, e, cause) /\ q.refused = r.refused
      BY DEF WithCause, Sound, Shaped, RuntimeFields
<1>2. s = WithState(q, e, "Cancelled")
      OBVIOUS
<1> HIDE DEF q
<1>3. Shaped(q) /\ Known(q) = Known(r) /\ Live(q, e)
      BY <1>1 DEF Sound, Shaped, Known, Live, StateOf
<1>4. /\ Shaped(s) /\ Known(s) = Known(q) /\ s.decisions = q.decisions
      /\ s.interfaces = q.interfaces /\ s.causes = q.causes /\ Accepted(q, s)
      BY <1>2, <1>3, StateDoes
<1>5. \A f \in Known(q) : /\ Fixed(q.executions[f], s.executions[f])
                          /\ StateOf(s, f) = IF f = e THEN "Cancelled" ELSE StateOf(q, f)
                          /\ f # e => s.executions[f] = q.executions[f]
      BY <1>2, <1>3, StateDoes
<1>6. \A f \in Known(r) : /\ Fixed(r.executions[f], s.executions[f])
                          /\ StateOf(s, f) = IF f = e THEN "Cancelled" ELSE StateOf(r, f)
                          /\ f # e => s.executions[f] = r.executions[f]
      BY <1>1, <1>3, <1>5 DEF StateOf
<1>7. Known(s) = Known(r) /\ s.decisions = r.decisions /\ s.interfaces = r.interfaces
      BY <1>1, <1>3, <1>4
<1>8. Sound(s) /\ Keeps(r, s) /\ Sprouts(r, s)
  <2>1. \A f \in Known(r) : StateOf(r, f) \in States
        BY DEF Sound, Placed, StateOf
  <2>. QED BY <1>4, <1>6, <1>7, <2>1, StatesSound DEF States
<1>9. Ends(r, s, {x})
      BY <1>6, <1>7 DEF Ends
<1>10. Blames(r, s, {x})
  <2>1. \A f \in DOMAIN s.causes : f = e \/ (f \in DOMAIN r.causes /\ s.causes[f] = r.causes[f])
        BY <1>1, <1>4 DEF Add
  <2>2. s.causes[e] = cause
        BY <1>1, <1>4 DEF Add
  <2>3. Descendants(s, x) = Descendants(r, x)
        BY <1>6, <1>7 DEF Descendants, Children, ParentOf, Fixed
  <2>4. Caused(s, e)
        BY <1>6, <1>7, <2>2, <2>3 DEF Caused
  <2>. QED BY <2>1, <2>2, <2>4 DEF Blames
<1>11. Accepted(r, s)
      BY <1>1, <1>4 DEF Accepted
<1>. QED BY <1>6, <1>7, <1>8, <1>9, <1>10, <1>11 DEF Grows

\* ExecutionCreated and OrchestrationNodeStarted
LEMMA CreateGrows ==
    ASSUME NEW r, NEW ss, NEW parent, NEW kind \in Kinds, NEW callable, NEW node, Sound(r),
           NEW s, s = Create(r, ss, parent, kind, callable, node),
           ss \in Sessions, sessions[ss] = "Active",
           parent # None =>
              /\ parent \in Known(r) /\ Live(r, parent) /\ kind # "Root"
              /\ r.executions[parent].kind = IF kind = "Agent" THEN "Orchestration" ELSE "Root"
              /\ callable # None => callable \in Delegates(r, parent),
           node # None =>
              /\ kind = "Agent" /\ parent # None /\ node \in Nodes \ StartedNodes(r, parent)
              /\ DependsOn[node] \subseteq Done(r, parent)
    PROVE  Sound(s) /\ Grows(r, s, {})
<1> DEFINE n == NextId(r)
           accepted == /\ AcceptsExecution(r, n, ss, parent, callable)
                       /\ node # None => AcceptsNode(r, parent, node)
<1>0. Shaped(r) /\ n \notin Known(r) /\ n \in Int /\ None \notin Known(r)
      BY NextIdIsNew, SoundHas
<1>1. Accepted(r, s)
  <2>1. accepted
        BY DEF AcceptsExecution, AcceptsNode, NextId, IsOrchestration
  <2>2. Accepted(r, Recorded(r, accepted)) /\ DOMAIN Recorded(r, accepted) = RuntimeFields
        BY <1>0, <2>1, RecordedAccepts, RecordedFollows
  <2>3. s.refused = Recorded(r, accepted).refused
        BY <2>2 DEF Create, RuntimeFields
  <2>. QED BY <2>2, <2>3 DEF Accepted
<1>a. n = NextId(r)
      OBVIOUS
<1> HIDE DEF n, accepted
<1>b. /\ Follows(r, s) /\ Known(s) = Known(r) \cup {NextId(r)}
      /\ s.decisions = r.decisions /\ s.interfaces = r.interfaces /\ s.causes = r.causes
      /\ s.executions[NextId(r)] = [session |-> ss, parent |-> parent, kind |-> kind,
                                    callable |-> callable, node |-> node, state |-> "Pending"]
      /\ \A e \in Known(r) : s.executions[e] = r.executions[e]
      BY <1>0, CreateFollows
<1>2. /\ Follows(r, s) /\ Known(s) = Known(r) \cup {n}
      /\ s.decisions = r.decisions /\ s.interfaces = r.interfaces /\ s.causes = r.causes
      BY <1>a, <1>b
<1>3. s.executions[n] = [session |-> ss, parent |-> parent, kind |-> kind,
                         callable |-> callable, node |-> node, state |-> "Pending"]
      BY <1>a, <1>b
<1>4. \A e \in Known(r) : s.executions[e] = r.executions[e]
      BY <1>b
<1>5. /\ s.executions[n].session = ss /\ s.executions[n].parent = parent
      /\ s.executions[n].kind = kind /\ s.executions[n].node = node
      /\ s.executions[n].state = "Pending"
      BY <1>3
<1>6. \A e \in Known(s) : Placed(s, e)
  <2>1. ASSUME NEW e \in Known(r) PROVE Placed(s, e)
    <3>1. Placed(r, e) /\ s.executions[e] = r.executions[e]
          BY <1>4 DEF Sound
    <3>2. r.executions[e].parent # None =>
             /\ r.executions[e].parent \in Known(r)
             /\ s.executions[r.executions[e].parent] = r.executions[r.executions[e].parent]
          BY <1>4, <3>1 DEF Placed
    <3>. QED BY <1>2, <3>1, <3>2 DEF Placed, Live, StateOf
  <2>2. Placed(s, n)
    <3>1. parent # None => s.executions[parent] = r.executions[parent] /\ parent \in Known(s)
          BY <1>2, <1>4
    <3>. QED BY <1>5, <3>1 DEF Placed, States
  <2>. QED BY <1>2, <2>1, <2>2
<1>7. \A f \in DOMAIN s.interfaces : Interfaced(s, f)
      BY <1>2, <1>4 DEF Sound, Interfaced, FailedAgent, StateOf, ParentOf
<1>8. \A f \in DOMAIN s.decisions : Resolved(s, f)
      BY <1>2, <1>4 DEF Sound, Resolved, FailedAgent, StateOf, ParentOf
<1>9. NodesAreRunOnce(s)
  <2> SUFFICES ASSUME NEW e \in Known(s), NEW f \in Known(s),
                      s.executions[e].node # None, s.executions[e].node = s.executions[f].node,
                      ParentOf(s, e) = ParentOf(s, f)
               PROVE  e = f
      BY DEF NodesAreRunOnce
  <2>1. CASE e \in Known(r) /\ f \in Known(r)
        BY <1>4, <2>1 DEF Sound, NodesAreRunOnce, ParentOf
  <2>2. ASSUME NEW g \in Known(r), r.executions[g].node = node, ParentOf(r, g) = parent,
               node # None
        PROVE  FALSE
    <3>1. g \in NodeExecutions(r, parent)
          BY <2>2 DEF NodeExecutions, Children
    <3>. QED BY <2>2, <3>1 DEF StartedNodes
  <2>3. CASE e = n /\ f \in Known(r)
        BY <1>4, <1>5, <2>2, <2>3 DEF ParentOf
  <2>4. CASE e \in Known(r) /\ f = n
        BY <1>4, <1>5, <2>2, <2>4 DEF ParentOf
  <2>. QED BY <1>2, <2>1, <2>3, <2>4
<1>10. Sound(s)
       BY <1>2, <1>6, <1>7, <1>8, <1>9 DEF Sound, Follows
<1>11. Keeps(r, s)
       BY <1>2, <1>4 DEF Keeps, Follows
<1>12. Sprouts(r, s)
   <2>1. Done(r, parent) \subseteq Done(s, parent)
         BY <1>10, <1>11, DoneStays
   <2>2. \A e \in Known(s) \ Known(r) : e = n
         BY <1>2
   <2>. QED BY <1>0, <1>5, <2>1, <2>2 DEF Sprouts, ParentOf
<1>13. Ends(r, s, {})
       BY <1>2, <1>4, <1>5 DEF Ends, StateOf
<1>14. Blames(r, s, {})
       BY <1>2 DEF Blames
<1>. QED BY <1>1, <1>10, <1>11, <1>12, <1>13, <1>14 DEF Grows

\* A runtime that differs from a sound one in decisions or interfaces only
LEMMA LinksGrow ==
    ASSUME NEW r, NEW s, Sound(r), DOMAIN s = RuntimeFields, s.executions = r.executions,
           s.causes = r.causes, Accepted(r, s),
           \A f \in DOMAIN r.decisions : f \in DOMAIN s.decisions /\ s.decisions[f] = r.decisions[f],
           \A f \in DOMAIN r.interfaces : f \in DOMAIN s.interfaces /\ s.interfaces[f] = r.interfaces[f],
           \A f \in DOMAIN s.decisions : Resolved(s, f),
           \A f \in DOMAIN s.interfaces : Interfaced(s, f)
    PROVE  Sound(s) /\ Grows(r, s, {})
<1>1. /\ Known(s) = Known(r) /\ \A e : /\ StateOf(s, e) = StateOf(r, e) /\ ParentOf(s, e) = ParentOf(r, e)
                                       /\ Live(s, e) <=> Live(r, e)
      BY DEF Known, StateOf, ParentOf, Live
<1>2. Shaped(s)
      BY <1>1 DEF Sound, Shaped
<1>3. \A e \in Known(s) : Placed(s, e)
      BY <1>1 DEF Sound, Placed
<1>4. NodesAreRunOnce(s)
      BY <1>1 DEF Sound, NodesAreRunOnce
<1>5. Sound(s)
      BY <1>2, <1>3, <1>4 DEF Sound
<1>6. Keeps(r, s)
      BY <1>1 DEF Keeps, Later
<1>7. Sprouts(r, s) /\ Ends(r, s, {}) /\ Blames(r, s, {})
      BY <1>1 DEF Sprouts, Ends, Blames
<1>. QED BY <1>5, <1>6, <1>7 DEF Grows

\* What has failed may be decided about while its orchestration runs.
LEMMA MayBeDecided ==
    ASSUME NEW r, Sound(r), NEW f \in Known(r), StateOf(r, f) = "Failed", ~Decided(r, f),
           NEW o \in Known(r), ParentOf(r, f) = o, r.executions[o].kind = "Orchestration",
           StateOf(r, o) = "Running"
    PROVE  AcceptsDecision(r, f) /\ FailedAgent(r, f)
<1>1. o # None
      BY SoundHas
<1>2. r.executions[f].kind = "Agent"
      BY <1>1, SoundHas DEF Placed, ParentOf, Kinds
<1>. QED BY <1>1, <1>2 DEF AcceptsDecision, FailedAgentOf, FailedAgent, IsOrchestration

\* OrchestrationDecisionMade
LEMMA DecideGrows ==
    ASSUME NEW r, Sound(r), NEW f \in Known(r), StateOf(r, f) = "Failed", ~Decided(r, f),
           NEW o \in Known(r), ParentOf(r, f) = o, r.executions[o].kind = "Orchestration",
           StateOf(r, o) = "Running",
           NEW kind, NEW recovery,
           kind \in {"Continue", "Fail"} => recovery = None,
           kind \notin {"Continue", "Fail"} =>
              recovery \in Known(r) /\ recovery > f /\ ParentOf(r, recovery) = o,
           NEW s, s = Decide(r, f, kind, recovery)
    PROVE  /\ Sound(s) /\ Grows(r, s, {}) /\ s.executions = r.executions /\ s.interfaces = r.interfaces
           /\ DOMAIN s.decisions = DOMAIN r.decisions \cup {f}
           /\ s.decisions[f] = [kind |-> kind, execution |-> recovery]
<1> DEFINE d == [kind |-> kind, execution |-> recovery]
           q == Recorded(r, AcceptsDecision(r, f))
<1>0. Shaped(r) /\ AcceptsDecision(r, f) /\ FailedAgent(r, f)
      BY MayBeDecided, SoundHas
<1>1. /\ DOMAIN q = RuntimeFields /\ q.executions = r.executions /\ q.decisions = r.decisions
      /\ q.interfaces = r.interfaces /\ q.causes = r.causes /\ Accepted(r, q)
      BY <1>0, RecordedFollows, RecordedAccepts
<1>2. s = [q EXCEPT !.decisions = Add(q.decisions, f, d)]
      BY DEF Decide
<1>a. d.kind = kind /\ d.execution = recovery
      OBVIOUS
<1> HIDE DEF q, d
<1>3. /\ DOMAIN s = RuntimeFields /\ s.executions = r.executions /\ s.interfaces = r.interfaces
      /\ s.causes = r.causes /\ s.decisions = Add(r.decisions, f, d) /\ s.refused = q.refused
      BY <1>1, <1>2 DEF RuntimeFields
<1>4. /\ DOMAIN s.decisions = DOMAIN r.decisions \cup {f} /\ s.decisions[f] = d
      /\ \A g \in DOMAIN r.decisions : s.decisions[g] = r.decisions[g]
      BY <1>3 DEF Add, Decided
<1>5. \A g \in DOMAIN s.decisions : Resolved(s, g)
  <2>1. ASSUME NEW g \in DOMAIN r.decisions PROVE Resolved(s, g)
        BY <1>3, <1>4 DEF Sound, Resolved, FailedAgent, Known, StateOf, ParentOf
  <2>2. Resolved(s, f)
        BY <1>0, <1>3, <1>4, <1>a DEF Resolved, FailedAgent, Known, StateOf, ParentOf
  <2>. QED BY <1>4, <2>1, <2>2
<1>6. \A g \in DOMAIN s.interfaces : Interfaced(s, g)
      BY <1>3 DEF Sound, Interfaced, FailedAgent, Known, StateOf, ParentOf
<1>7. Accepted(r, s)
      BY <1>1, <1>3 DEF Accepted
<1>8. Sound(s) /\ Grows(r, s, {})
      BY <1>3, <1>4, <1>5, <1>6, <1>7, LinksGrow
<1>. QED BY <1>3, <1>4, <1>8 DEF d

\* record_fallback_fail, of failed agents of a running orchestration
LEMMA FallbackGrows ==
    ASSUME NEW r, Sound(r), NEW o \in Known(r), r.executions[o].kind = "Orchestration",
           StateOf(r, o) = "Running",
           NEW S, \A f \in S : f \in Known(r) /\ StateOf(r, f) = "Failed" /\ ParentOf(r, f) = o,
           NEW s, s = FallbackFail(r, S)
    PROVE  /\ Sound(s) /\ Grows(r, s, {}) /\ s.executions = r.executions /\ s.interfaces = r.interfaces
           /\ DOMAIN s.decisions \subseteq DOMAIN r.decisions \cup S
<1> DEFINE undecided == {e \in S : ~Decided(r, e)}
           fail == [kind |-> "Fail", execution |-> None]
           accepted == \A e \in undecided : AcceptsDecision(r, e)
           q == Recorded(r, accepted)
           d == [e \in DOMAIN r.decisions \cup undecided |->
                   IF e \in undecided THEN fail ELSE r.decisions[e]]
<1>0. Shaped(r) /\ accepted /\ \A f \in undecided : FailedAgent(r, f)
      BY MayBeDecided, SoundHas
<1>1. /\ DOMAIN q = RuntimeFields /\ q.executions = r.executions /\ q.decisions = r.decisions
      /\ q.interfaces = r.interfaces /\ q.causes = r.causes
      BY <1>0, RecordedFollows
<1>a. Accepted(r, q)
      BY <1>0, RecordedAccepts
<1>2. s = [q EXCEPT !.decisions = d]
      BY DEF FallbackFail
<1>3. /\ \A e \in DOMAIN r.decisions : e \in DOMAIN d /\ d[e] = r.decisions[e]
      /\ \A e \in DOMAIN d : e \in DOMAIN r.decisions \/ (e \in undecided /\ d[e] = fail)
      BY DEF Decided
<1>b. fail.kind = "Fail" /\ fail.execution = None /\ undecided \subseteq S
      OBVIOUS
<1> HIDE DEF q, d, accepted, undecided, fail
<1>4. /\ DOMAIN s = RuntimeFields /\ s.executions = r.executions /\ s.interfaces = r.interfaces
      /\ s.causes = r.causes /\ s.decisions = d /\ s.refused = q.refused
      BY <1>1, <1>2 DEF RuntimeFields
<1>5. \A g \in DOMAIN s.decisions : Resolved(s, g)
  <2>1. ASSUME NEW g \in DOMAIN r.decisions PROVE Resolved(s, g)
        BY <1>3, <1>4 DEF Sound, Resolved, FailedAgent, Known, StateOf, ParentOf
  <2>2. ASSUME NEW g \in undecided, d[g] = fail PROVE Resolved(s, g)
        BY <1>0, <1>4, <1>b, <2>2 DEF Resolved, FailedAgent, Known, StateOf, ParentOf
  <2>. QED BY <1>3, <1>4, <2>1, <2>2
<1>6. \A g \in DOMAIN s.interfaces : Interfaced(s, g)
      BY <1>4 DEF Sound, Interfaced, FailedAgent, Known, StateOf, ParentOf
<1>7. Accepted(r, s)
      BY <1>4, <1>a DEF Accepted
<1>8. Sound(s) /\ Grows(r, s, {})
      BY <1>3, <1>4, <1>5, <1>6, <1>7, LinksGrow
<1>9. DOMAIN s.decisions \subseteq DOMAIN r.decisions \cup S
      BY <1>3, <1>4, <1>b
<1>. QED BY <1>4, <1>8, <1>9

\* set_state(o, Failed) of a live orchestration
LEMMA FailGrows ==
    ASSUME NEW r, Sound(r), NEW o \in Known(r), Live(r, o), r.executions[o].kind = "Orchestration",
           NEW s, s = FailOrchestration(r, o)
    PROVE  /\ Sound(s) /\ Grows(r, s, {})
           /\ Known(s) = Known(r) /\ s.decisions = r.decisions /\ s.interfaces = r.interfaces
           /\ \A e \in Known(r) : /\ Fixed(r.executions[e], s.executions[e])
                                  /\ StateOf(s, e) = IF e = o THEN "Failed"
                                                     ELSE IF ParentOf(r, e) = o /\ Live(r, e) THEN "Cancelled"
                                                     ELSE StateOf(r, e)
                                  /\ e # o /\ ParentOf(r, e) # o => s.executions[e] = r.executions[e]
<1> DEFINE f == WithState(r, o, "Failed")
           live == {c \in Children(r, o) : Live(f, c)}
           cause == [kind |-> "AncestorFailure", execution |-> o]
           xs == [e \in Known(r) |-> IF e \in live THEN [f.executions[e] EXCEPT !.state = "Cancelled"]
                                     ELSE f.executions[e]]
           cs == [e \in DOMAIN r.causes \cup live |-> IF e \in live THEN cause ELSE r.causes[e]]
<1>0. Shaped(r) /\ None \notin Known(r) /\ \A e \in Known(r) : Placed(r, e)
      BY SoundHas
<1>1. /\ Shaped(f) /\ Known(f) = Known(r) /\ f.decisions = r.decisions
      /\ f.interfaces = r.interfaces /\ f.causes = r.causes
      /\ Accepted(r, f)
      /\ \A e \in Known(r) : /\ Fixed(r.executions[e], f.executions[e])
                             /\ StateOf(f, e) = IF e = o THEN "Failed" ELSE StateOf(r, e)
                             /\ e # o => f.executions[e] = r.executions[e]
      BY <1>0, StateDoes
<1>2. s = [f EXCEPT !.executions = xs, !.causes = cs]
      BY DEF FailOrchestration
<1>3. /\ DOMAIN xs = Known(r)
      /\ \A e \in Known(r) : xs[e] = IF e \in live THEN [f.executions[e] EXCEPT !.state = "Cancelled"]
                                     ELSE f.executions[e]
      OBVIOUS
<1>4. \A e : e \in live <=> e \in Known(r) /\ ParentOf(r, e) = o /\ Live(f, e)
      BY DEF Children
<1>5. /\ \A e \in DOMAIN cs : (e \in live /\ cs[e] = cause) \/ (e \in DOMAIN r.causes /\ cs[e] = r.causes[e])
      /\ cause.kind = "AncestorFailure" /\ cause.execution = o
      OBVIOUS
<1> HIDE DEF f, live, xs, cs, cause
<1>6. \A e \in Known(r) : e \in live <=> e # o /\ ParentOf(r, e) = o /\ Live(r, e)
      BY <1>1, <1>4 DEF Live, Terminal
<1>7. DOMAIN s = RuntimeFields /\ s.executions = xs /\ s.decisions = f.decisions
      BY <1>1, <1>2 DEF Shaped, RuntimeFields
<1>8. s.interfaces = f.interfaces /\ s.causes = cs /\ s.refused = f.refused
      BY <1>1, <1>2 DEF Shaped, RuntimeFields
<1>9. \A e \in Known(r) : /\ DOMAIN xs[e] = ExecutionFields
                          /\ Fixed(f.executions[e], xs[e])
                          /\ xs[e].state = IF e \in live THEN "Cancelled" ELSE f.executions[e].state
      BY <1>1, <1>3 DEF Shaped, ExecutionFields, Fixed
<1>10. Known(s) = Known(r)
       BY <1>3, <1>7 DEF Known
<1>11. Shaped(s)
       BY <1>0, <1>7, <1>9, <1>10 DEF Shaped
<1>12. \A e \in Known(r) : Fixed(r.executions[e], s.executions[e])
       BY <1>1, <1>7, <1>9 DEF Fixed
<1>13. o \notin live
       BY <1>6
<1>14. \A e \in Known(r) :
          StateOf(s, e) = IF e = o THEN "Failed"
                          ELSE IF ParentOf(r, e) = o /\ Live(r, e) THEN "Cancelled" ELSE StateOf(r, e)
       BY <1>1, <1>6, <1>7, <1>9 DEF StateOf
<1>15. Sound(s) /\ Keeps(r, s) /\ Sprouts(r, s)
   <2>1. \A e \in Known(r) : StateOf(r, e) \in States
         BY <1>0 DEF Placed, StateOf
   <2>2. \A e \in Known(r) : /\ StateOf(s, e) \in States
                             /\ ~Live(r, e) => StateOf(s, e) = StateOf(r, e)
                             /\ StateOf(r, e) # "Pending" => StateOf(s, e) # "Pending"
         BY <1>14, <2>1 DEF States
   <2>. QED BY <1>1, <1>7, <1>8, <1>10, <1>11, <1>12, <2>2, StatesSound
<1>16. Extinct(s, o)
   <2>1. \A e \in Known(r) : ParentOf(r, e) = o => r.executions[e].kind = "Agent"
         BY <1>0 DEF Placed, ParentOf, Kinds
   <2>2. \A d \in Known(r), e \in Known(r) : ParentOf(r, e) = o => ParentOf(r, d) # e
         BY <1>0, <2>1 DEF Placed, ParentOf
   <2>3. \A e \in Known(s) : ParentOf(s, e) = ParentOf(r, e)
         BY <1>10, <1>12 DEF ParentOf, Fixed
   <2>4. \A e \in Known(s) : ParentOf(s, e) = o => ~Live(s, e)
         BY <1>10, <1>14, <2>3 DEF Live, Terminal
   <2>5. ~Live(s, o)
         BY <1>14 DEF Live, Terminal
   <2>. QED BY <1>10, <2>2, <2>3, <2>4, <2>5 DEF Extinct, Descendants, Children
<1>17. Ends(r, s, {})
       BY <1>10, <1>14, <1>16 DEF Ends
<1>18. Blames(r, s, {})
   <2>1. ASSUME NEW e \in live PROVE Caused(s, e) \/ s.causes[e] # cause
     <3>1. e \in Known(r) /\ e # o /\ ParentOf(r, e) = o /\ Live(r, e)
           BY <1>4, <1>6
     <3>2. e \in Known(s) /\ StateOf(s, e) = "Cancelled" /\ StateOf(s, o) = "Failed"
           BY <1>10, <1>14, <3>1
     <3>3. e \in Descendants(s, o)
           BY <1>10, <1>12, <3>1 DEF Descendants, Children, ParentOf, Fixed
     <3>. QED BY <1>5, <1>10, <3>1, <3>2, <3>3 DEF Caused
   <2>2. \A e \in DOMAIN s.causes : \/ e \in live /\ s.causes[e] = cause
                                    \/ e \in DOMAIN r.causes /\ s.causes[e] = r.causes[e]
         BY <1>5, <1>8
   <2>. QED BY <1>5, <2>1, <2>2 DEF Blames
<1>19. Accepted(r, s)
       BY <1>1, <1>8 DEF Accepted
<1>20. s.decisions = r.decisions /\ s.interfaces = r.interfaces
       BY <1>1, <1>7, <1>8
<1>21. \A e \in Known(r) : e # o /\ ParentOf(r, e) # o => s.executions[e] = r.executions[e]
       BY <1>1, <1>3, <1>6, <1>7
<1>. QED BY <1>10, <1>12, <1>14, <1>15, <1>17, <1>18, <1>19, <1>20, <1>21 DEF Grows

\* What an orchestration may have its agents do
LEMMA AgentGrows ==
    ASSUME NEW r, Sound(r), NEW o \in Known(r), Live(r, o), r.executions[o].kind = "Orchestration",
           NEW callable, callable \in Delegates(r, o), NEW node,
           node # None => /\ node \in Nodes \ StartedNodes(r, o)
                          /\ DependsOn[node] \subseteq Done(r, o),
           NEW s, s = CreateAgent(r, o, callable, node)
    PROVE  /\ Sound(s) /\ Grows(r, s, {})
           /\ Known(s) = Known(r) \cup {NextId(r)} /\ NextId(r) \notin Known(r)
           /\ s.decisions = r.decisions /\ s.interfaces = r.interfaces
           /\ \A e \in Known(r) : s.executions[e] = r.executions[e]
           /\ s.executions[NextId(r)] = [session |-> r.executions[o].session, parent |-> o, kind |-> "Agent",
                                         callable |-> callable, node |-> node, state |-> "Pending"]
<1> DEFINE ss == r.executions[o].session
<1>0. Shaped(r) /\ ss \in Sessions /\ sessions[ss] = "Active" /\ o # None /\ NextId(r) \notin Known(r)
      BY SoundHas, NextIdIsNew DEF Placed
<1>1. s = Create(r, ss, o, "Agent", callable, node)
      BY DEF CreateAgent
<1>2. "Agent" \in Kinds
      BY DEF Kinds
<1> HIDE DEF ss
<1>3. Sound(s) /\ Grows(r, s, {})
      BY <1>0, <1>1, <1>2, CreateGrows
<1>4. /\ Follows(r, s) /\ Known(s) = Known(r) \cup {NextId(r)}
      /\ s.decisions = r.decisions /\ s.interfaces = r.interfaces /\ s.causes = r.causes
      /\ s.executions[NextId(r)] = [session |-> ss, parent |-> o, kind |-> "Agent",
                                    callable |-> callable, node |-> node, state |-> "Pending"]
      /\ \A e \in Known(r) : s.executions[e] = r.executions[e]
      BY <1>0, <1>1, CreateFollows
<1>5. Known(s) = Known(r) \cup {NextId(r)} /\ s.decisions = r.decisions /\ s.interfaces = r.interfaces
      BY <1>4
<1>6. \A e \in Known(r) : s.executions[e] = r.executions[e]
      BY <1>4
<1>7. s.executions[NextId(r)] = [session |-> r.executions[o].session, parent |-> o, kind |-> "Agent",
                                 callable |-> callable, node |-> node, state |-> "Pending"]
      BY <1>4 DEF ss
<1>. QED BY <1>0, <1>3, <1>5, <1>6, <1>7

\* The execution that has just been created is the latest.
LEMMA NewestIsLatest ==
    ASSUME NEW r, NEW s, Sound(r), Known(s) = Known(r) \cup {NextId(r)}
    PROVE  IsLatest(s, NextId(r)) /\ \A e \in Known(r) : NextId(r) > e
<1>1. PICK n \in Nat : Known(r) = FirstExecution .. (FirstExecution + n - 1)
      BY DEF Sound, Shaped
<1>2. FirstExecution \in Nat /\ FirstExecution + n - 1 \in Int
      BY DefinitionAssumption
<1>3. IsFiniteSet(Known(r)) /\ Cardinality(Known(r)) = n
  <2>1. FirstExecution > FirstExecution + n - 1 => n = 0
        BY <1>1, <1>2
  <2>. QED BY <1>1, <1>2, <2>1, FS_Interval
<1>4. NextId(r) \notin Known(r)
      BY NextIdIsNew DEF Sound
<1>5. Cardinality(Known(s)) = Cardinality(Known(r)) + 1
      BY <1>3, <1>4, FS_AddElement
<1>6. NextId(r) = FirstExecution + n
      BY <1>3 DEF NextId
<1>. QED BY <1>1, <1>2, <1>3, <1>5, <1>6 DEF IsLatest

\* start_failure_interface
LEMMA InterfaceGrows ==
    ASSUME NEW r, Sound(r), NEW o \in Known(r), StateOf(r, o) = "Running",
           r.executions[o].kind = "Orchestration", InterfaceAgent # None,
           NEW f \in Known(r), StateOf(r, f) = "Failed", ParentOf(r, f) = o, f \notin DOMAIN r.interfaces,
           NEW t, t = StartInterface(r, o, f)
    PROVE  /\ Sound(t) /\ Grows(r, t, {})
           /\ Known(t) = Known(r) \cup {NextId(r)} /\ NextId(r) \notin Known(r)
           /\ t.decisions = r.decisions
           /\ DOMAIN t.interfaces = DOMAIN r.interfaces \cup {f} /\ t.interfaces[f] = NextId(r)
           /\ \A g \in DOMAIN r.interfaces : t.interfaces[g] = r.interfaces[g]
           /\ \A e \in Known(r) : t.executions[e] = r.executions[e]
           /\ ParentOf(t, NextId(r)) = o /\ StateOf(t, NextId(r)) = "Pending"
           /\ t.executions[NextId(r)].node = None /\ t.executions[NextId(r)].kind = "Agent"
<1> DEFINE s == CreateAgent(r, o, InterfaceAgent, None)
           i == NextId(r)
           b == AcceptsInterface(s, o, f, i)
           q == Recorded(s, b)
<1>0. Live(r, o) /\ InterfaceAgent \in Delegates(r, o)
      BY DEF Live, Terminal, Delegates
<1>1. /\ Sound(s) /\ Grows(r, s, {})
      /\ Known(s) = Known(r) \cup {NextId(r)} /\ NextId(r) \notin Known(r)
      /\ s.decisions = r.decisions /\ s.interfaces = r.interfaces
      /\ \A e \in Known(r) : s.executions[e] = r.executions[e]
      /\ s.executions[NextId(r)] = [session |-> r.executions[o].session, parent |-> o, kind |-> "Agent",
                                    callable |-> InterfaceAgent, node |-> None, state |-> "Pending"]
      BY <1>0, AgentGrows
<1>2. Sound(s) /\ Grows(r, s, {}) /\ Known(s) = Known(r) \cup {i} /\ i \notin Known(r)
      BY <1>1
<1>3. s.decisions = r.decisions /\ s.interfaces = r.interfaces
      BY <1>1
<1>4. \A e \in Known(r) : s.executions[e] = r.executions[e]
      BY <1>1
<1>5. /\ ParentOf(s, i) = o /\ StateOf(s, i) = "Pending" /\ s.executions[i].node = None
      /\ s.executions[i].kind = "Agent"
      BY <1>1 DEF ParentOf, StateOf
<1>6. IsLatest(s, i)
      BY <1>2, NewestIsLatest
<1>7. o \in Known(r) /\ o # None /\ r.executions[f].kind = "Agent"
      BY SoundHas DEF Placed, ParentOf, Kinds
<1> HIDE DEF s, i
<1>8. b
  <2>1. FailedAgentOf(s, o, f)
        BY <1>4, <1>7 DEF FailedAgentOf, IsOrchestration, StateOf, ParentOf
  <2>2. FreshAgentOf(s, o, i)
        BY <1>2, <1>5, <1>6 DEF FreshAgentOf
  <2>. QED BY <1>3, <2>1, <2>2 DEF AcceptsInterface
<1>9. /\ DOMAIN q = RuntimeFields /\ q.executions = s.executions /\ q.decisions = s.decisions
      /\ q.interfaces = s.interfaces /\ q.causes = s.causes
      BY <1>2, RecordedFollows DEF Sound
<1>10. Accepted(s, q)
      BY <1>2, <1>8, RecordedAccepts DEF Sound
<1>11. t = [q EXCEPT !.interfaces = Add(q.interfaces, f, i)]
      BY DEF StartInterface, s, i
<1> HIDE DEF q, b
<1>12. /\ DOMAIN t = RuntimeFields /\ t.executions = s.executions /\ t.decisions = s.decisions
       /\ t.interfaces = Add(r.interfaces, f, i) /\ t.causes = s.causes /\ t.refused = q.refused
       BY <1>3, <1>9, <1>11 DEF RuntimeFields
<1>13. /\ DOMAIN t.interfaces = DOMAIN r.interfaces \cup {f} /\ t.interfaces[f] = i
       /\ \A g \in DOMAIN r.interfaces : t.interfaces[g] = r.interfaces[g]
       BY <1>12 DEF Add
<1>14. \A g \in DOMAIN t.interfaces : Interfaced(t, g)
   <2>1. ASSUME NEW g \in DOMAIN r.interfaces PROVE Interfaced(t, g)
     <3>1. Interfaced(s, g)
           BY <1>2, <1>3 DEF Sound
     <3>. QED BY <1>3, <1>12, <1>13, <3>1 DEF Interfaced, FailedAgent, Known, StateOf, ParentOf
   <2>2. Interfaced(t, f)
     <3>1. FailedAgent(s, f)
           BY <1>2, <1>4, <1>7 DEF FailedAgent, StateOf, ParentOf
     <3>2. ParentOf(s, f) = o
           BY <1>4 DEF ParentOf
     <3>. QED BY <1>2, <1>5, <1>12, <1>13, <3>1, <3>2 DEF Interfaced, FailedAgent, Known, StateOf, ParentOf
   <2>. QED BY <1>13, <2>1, <2>2
<1>15. \A g \in DOMAIN t.decisions : Resolved(t, g)
       BY <1>2, <1>12 DEF Sound, Resolved, FailedAgent, Known, StateOf, ParentOf
<1>16. Sound(t) /\ Grows(s, t, {})
   <2>1. Accepted(s, t)
         BY <1>10, <1>12 DEF Accepted
   <2>2. \A g \in DOMAIN s.interfaces : g \in DOMAIN t.interfaces /\ t.interfaces[g] = s.interfaces[g]
         BY <1>3, <1>13
   <2>. QED BY <1>2, <1>12, <1>14, <1>15, <2>1, <2>2, LinksGrow
<1>17. Grows(r, t, {})
       BY <1>2, <1>16, GrowsTransitive
<1>18. Known(t) = Known(r) \cup {i} /\ t.decisions = r.decisions
       BY <1>2, <1>3, <1>12 DEF Known
<1>19. \A e \in Known(r) : t.executions[e] = r.executions[e]
       BY <1>4, <1>12
<1>20. /\ ParentOf(t, i) = o /\ StateOf(t, i) = "Pending" /\ t.executions[i].node = None
       /\ t.executions[i].kind = "Agent"
       BY <1>5, <1>12 DEF ParentOf, StateOf
<1>21. i = NextId(r)
       BY DEF i
<1>. QED BY <1>2, <1>13, <1>16, <1>17, <1>18, <1>19, <1>20, <1>21
-------------------------------------------------------------------------------
(* Orchestrations.  When an operation is over, an orchestration that runs has done *)
(* all it could and waits for an agent.                                            *)

\* The state of a node is that of the execution that runs it.
LEMMA NodeStateIs ==
    ASSUME NEW r, Sound(r), NEW o, NEW e \in NodeExecutions(r, o)
    PROVE  NodeState(r, o, r.executions[e].node) = EffectiveState(r, e)
<1> DEFINE n == r.executions[e].node
           x == CHOOSE f \in NodeExecutions(r, o) : r.executions[f].node = n
<1>1. x \in NodeExecutions(r, o) /\ r.executions[x].node = n
      OBVIOUS
<1>2. NodeState(r, o, n) = EffectiveState(r, x)
      BY DEF NodeState
<1> HIDE DEF x
<1>3. x = e
      BY <1>1 DEF Sound, NodesAreRunOnce, NodeExecutions, Children
<1>. QED BY <1>2, <1>3

\* Of a node it is enough to know what it waits for and what is done.
LEMMA NodesStand ==
    ASSUME NEW r, Sound(r), NEW o
    PROVE  /\ ReadyNodes(r, o) = {n \in Nodes \ StartedNodes(r, o) : DependsOn[n] \subseteq Done(r, o)}
           /\ AllNodesCompleted(r, o) <=> Nodes \subseteq Done(r, o)
           /\ \A state : SomeNode(r, o, state) <=>
                            \E e \in NodeExecutions(r, o) : EffectiveState(r, e) = state
<1>1. \A n : n \in StartedNodes(r, o) <=> \E e \in NodeExecutions(r, o) : r.executions[e].node = n
      BY DEF StartedNodes
<1>2. \A e \in NodeExecutions(r, o) : NodeState(r, o, r.executions[e].node) = EffectiveState(r, e)
      BY NodeStateIs
<1>3. \A n : (n \in StartedNodes(r, o) /\ NodeState(r, o, n) = "Completed") <=> n \in Done(r, o)
  <2> SUFFICES ASSUME NEW n
               PROVE  (n \in StartedNodes(r, o) /\ NodeState(r, o, n) = "Completed") <=> n \in Done(r, o)
      OBVIOUS
  <2>1. n \in Done(r, o) <=> \E e \in NodeExecutions(r, o) :
                                r.executions[e].node = n /\ EffectiveState(r, e) = "Completed"
        BY DEF Done
  <2>. QED BY <1>1, <1>2, <2>1
<1>4. \A state : SomeNode(r, o, state) <=>
                    \E e \in NodeExecutions(r, o) : EffectiveState(r, e) = state
      BY <1>1, <1>2 DEF SomeNode
<1>5. AllNodesCompleted(r, o) <=> Nodes \subseteq Done(r, o)
      BY <1>3 DEF AllNodesCompleted
<1>6. ReadyNodes(r, o) = {n \in Nodes \ StartedNodes(r, o) : DependsOn[n] \subseteq Done(r, o)}
      BY <1>3 DEF ReadyNodes
<1>. QED BY <1>4, <1>5, <1>6

\* The first execution in the order of ids
LEMMA FirstIsIn ==
    ASSUME NEW r, Sound(r), NEW S, S \subseteq Known(r), S # {}
    PROVE  FirstInIdOrder(S) \in S
<1>0. \A e \in S : e \in Nat /\ e >= 1
  <2>1. PICK n \in Nat : Known(r) = FirstExecution .. (FirstExecution + n - 1)
        BY DEF Sound, Shaped
  <2>2. FirstExecution \in Nat /\ FirstExecution >= 1
        BY DefinitionAssumption
  <2>. QED BY <2>1, <2>2
<1> DEFINE R == OpToRel(<, Nat)
           T == {StringKey(e) : e \in S}
<1>1. IsWellFoundedOn(R, Nat)
      BY NatLessThanWellFounded
<1>2. \A x, y \in Nat : y < x => <<y, x>> \in R
      BY DEF OpToRel
<1>3. T \subseteq Nat /\ T # {}
      BY <1>0 DEF StringKey
<1> HIDE DEF R
<1>4. PICK k \in T : \A j \in T : ~(<<j, k>> \in R)
      BY <1>1, <1>3, WFMin
<1>5. PICK e \in S : k = StringKey(e)
      BY <1>4
<1>6. ASSUME NEW f \in S \ {e} PROVE StringBefore(e, f)
  <2>1. StringKey(f) \in Nat /\ StringKey(e) \in Nat /\ ~(StringKey(f) < StringKey(e))
        BY <1>2, <1>3, <1>4, <1>5
  <2>2. StringKey(f) # StringKey(e)
        BY <1>0, <1>6 DEF StringKey
  <2>. QED BY <2>1, <2>2 DEF StringBefore
<1>. QED BY <1>6 DEF FirstInIdOrder

Orchestrations(r) == {o \in Known(r) : r.executions[o].kind = "Orchestration"}

\* A failure that is not decided is in the hands of an interface agent; if there is
\* none, all nodes that can run do, and not all have run.
Settled(r, o) ==
    /\ StateOf(r, o) = "Running"
    /\ FailedInterfaces(r, o) = {}
    /\ Undecided(r, o) # {} =>
          LET f == FirstInIdOrder(Undecided(r, o)) IN f \in DOMAIN r.interfaces /\ Live(r, r.interfaces[f])
    /\ Undecided(r, o) = {} =>
          /\ \A e \in NodeExecutions(r, o) : EffectiveState(r, e) \notin {"Failed", "Cancelled", "Interrupted"}
          /\ \A n \in Nodes \ StartedNodes(r, o) : ~(DependsOn[n] \subseteq Done(r, o))
          /\ ~(Nodes \subseteq Done(r, o))

\* Those orchestrations that run are settled, but for those of X.
Calm(r, X) == \A o \in Orchestrations(r) \ X : Live(r, o) => Settled(r, o)

\* What orchestration o is about is the same in r and s.
Alike(r, s, o) ==
    /\ s.executions[o] = r.executions[o] /\ Children(s, o) = Children(r, o)
    /\ \A c \in Children(r, o) :
          /\ s.executions[c] = r.executions[c]
          /\ Decided(s, c) <=> Decided(r, c)
          /\ Decided(r, c) => s.decisions[c] = r.decisions[c]
          /\ c \in DOMAIN s.interfaces <=> c \in DOMAIN r.interfaces
          /\ c \in DOMAIN r.interfaces => s.interfaces[c] = r.interfaces[c]

\* The step from r to s is about the orchestrations of X.
Apart(r, s, X) ==
    /\ \A o \in Orchestrations(r) \ X : o \in Known(s) /\ Alike(r, s, o)
    /\ Orchestrations(s) \subseteq Orchestrations(r) \cup X

\* What is about them in one step and in the next is about them in both.
LEMMA ApartTransitive ==
    ASSUME NEW r, NEW s, NEW t, NEW X, Apart(r, s, X), Apart(s, t, X)
    PROVE  Apart(r, t, X)
<1>1. \A o \in Orchestrations(r) \ X : o \in Orchestrations(s) \ X /\ Alike(r, s, o)
      BY DEF Apart, Orchestrations, Alike
<1>2. \A o \in Orchestrations(r) \ X : o \in Known(t) /\ Alike(r, s, o) /\ Alike(s, t, o)
      BY <1>1 DEF Apart
<1>3. ASSUME NEW o, Alike(r, s, o), Alike(s, t, o) PROVE Alike(r, t, o)
      BY <1>3 DEF Alike
<1>. QED BY <1>2, <1>3 DEF Apart

\* It is settled if it was, as long as nothing of what it is about has changed.
LEMMA SettledStays ==
    ASSUME NEW r, NEW s, NEW o, Sound(r), Sound(s), Alike(r, s, o), Settled(r, o)
    PROVE  Settled(s, o)
<1> DEFINE C == Children(r, o)
<1>1. C \subseteq Known(r) /\ C \subseteq Known(s) /\ Children(s, o) = C
      BY DEF Alike, Children
<1>2. \A c \in C : /\ s.executions[c] = r.executions[c]
                   /\ Decided(s, c) <=> Decided(r, c)
                   /\ Decided(r, c) => s.decisions[c] = r.decisions[c]
                   /\ c \in DOMAIN s.interfaces <=> c \in DOMAIN r.interfaces
                   /\ c \in DOMAIN r.interfaces => s.interfaces[c] = r.interfaces[c]
      BY DEF Alike
<1>3. /\ \A f \in DOMAIN r.interfaces : ParentOf(r, f) = o => f \in C /\ r.interfaces[f] \in C
      /\ \A f \in DOMAIN s.interfaces : ParentOf(s, f) = o => f \in C /\ s.interfaces[f] \in C
  <2>1. \A f \in DOMAIN r.interfaces : Interfaced(r, f)
        BY DEF Sound
  <2>2. \A f \in DOMAIN s.interfaces : Interfaced(s, f)
        BY DEF Sound
  <2>. QED BY <1>1, <2>1, <2>2 DEF Interfaced, FailedAgent, Children
<1>4. \A c \in C : ParentOf(r, c) = o /\ ParentOf(s, c) = o
      BY <1>1 DEF Children
<1>5. InterfacesOf(s, o) = InterfacesOf(r, o) /\ InterfacesOf(r, o) \subseteq C
  <2>1. \A i : i \in InterfacesOf(r, o) <=> \E f \in C : f \in DOMAIN r.interfaces /\ i = r.interfaces[f]
        BY <1>3, <1>4 DEF InterfacesOf
  <2>2. \A i : i \in InterfacesOf(s, o) <=> \E f \in C : f \in DOMAIN s.interfaces /\ i = s.interfaces[f]
        BY <1>3, <1>4 DEF InterfacesOf
  <2>3. InterfacesOf(s, o) = InterfacesOf(r, o)
        BY <1>2, <2>1, <2>2
  <2>. QED BY <1>3, <1>4, <2>1, <2>3
<1>6. \A c \in C : EffectiveState(s, c) = EffectiveState(r, c)
  <2>1. Shaped(r) /\ Shaped(s) /\ Leads(r) /\ Leads(s)
        BY SoundHas
  <2>2. \A x \in C : /\ StateOf(s, x) = StateOf(r, x)
                     /\ Decided(s, x) <=> Decided(r, x)
                     /\ Decided(r, x) => s.decisions[x] = r.decisions[x]
        BY <1>2 DEF StateOf
  <2>3. \A x \in C : Decided(r, x) /\ r.decisions[x].kind \notin {"Continue", "Fail"} =>
                        r.decisions[x].execution \in C
        BY <1>4, SoundHas DEF Resolved, Decided, Children
  <2> HIDE DEF C
  <2>. QED BY <1>1, <2>1, <2>2, <2>3, EffectiveFrame
<1>7. /\ NodeExecutions(s, o) = NodeExecutions(r, o) /\ NodeExecutions(r, o) \subseteq C
      BY <1>1, <1>2 DEF NodeExecutions
<1>8. StartedNodes(s, o) = StartedNodes(r, o)
      BY <1>2, <1>7 DEF StartedNodes
<1>9. Done(s, o) = Done(r, o)
      BY <1>2, <1>6, <1>7 DEF Done
<1>10. Undecided(s, o) = Undecided(r, o) /\ Undecided(r, o) \subseteq C
      BY <1>1, <1>2, <1>5 DEF Undecided, StateOf
<1>11. FailedInterfaces(s, o) = FailedInterfaces(r, o)
      BY <1>2, <1>5 DEF FailedInterfaces, StateOf
<1>12. \A f \in C : f \in DOMAIN r.interfaces /\ Live(r, r.interfaces[f]) =>
                       f \in DOMAIN s.interfaces /\ Live(s, s.interfaces[f])
      BY <1>2, <1>3, <1>4 DEF Live, StateOf
<1>13. StateOf(s, o) = StateOf(r, o)
      BY DEF Alike, StateOf
<1>14. Undecided(r, o) # {} => FirstInIdOrder(Undecided(r, o)) \in C
       BY <1>1, <1>10, FirstIsIn
<1>15. Undecided(s, o) # {} =>
          LET f == FirstInIdOrder(Undecided(s, o)) IN f \in DOMAIN s.interfaces /\ Live(s, s.interfaces[f])
       BY <1>10, <1>12, <1>14 DEF Settled
<1> HIDE DEF C
<1>. QED BY <1>6, <1>7, <1>8, <1>9, <1>10, <1>11, <1>13, <1>15 DEF Settled

\* A step about some orchestrations leaves the others settled.
LEMMA CalmStays ==
    ASSUME NEW r, NEW s, NEW X, Sound(r), Sound(s), Apart(r, s, X), Calm(r, X)
    PROVE  Calm(s, X)
<1> SUFFICES ASSUME NEW o \in Orchestrations(s) \ X, Live(s, o) PROVE Settled(s, o)
    BY DEF Calm
<1>1. o \in Orchestrations(r) \ X /\ Alike(r, s, o)
      BY DEF Apart
<1>2. Live(r, o)
      BY <1>1 DEF Alike, Live, StateOf
<1>3. Settled(r, o)
      BY <1>1, <1>2 DEF Calm
<1>. QED BY <1>1, <1>3, SettledStays

\* A step is about an orchestration if it changes that, or an agent of it.
LEMMA ApartBy ==
    ASSUME NEW r, NEW s, NEW X, Sound(r), Keeps(r, s),
           \A o \in Orchestrations(r) \ X :
              /\ \A e \in Known(r) : e = o \/ ParentOf(r, e) = o => s.executions[e] = r.executions[e]
              /\ \A e \in Known(s) \ Known(r) : ParentOf(s, e) # o
              /\ \A f \in Known(r) : ParentOf(r, f) = o =>
                    /\ f \in DOMAIN s.decisions => f \in DOMAIN r.decisions
                    /\ f \in DOMAIN s.interfaces => f \in DOMAIN r.interfaces,
           \A e \in Known(s) \ Known(r) : s.executions[e].kind = "Orchestration" => e \in X
    PROVE  Apart(r, s, X)
<1>0. /\ Known(r) \subseteq Known(s)
      /\ \A e \in Known(r) : ParentOf(s, e) = ParentOf(r, e) /\ s.executions[e].kind = r.executions[e].kind
      /\ \A f \in DOMAIN r.decisions : f \in DOMAIN s.decisions /\ s.decisions[f] = r.decisions[f]
      /\ \A f \in DOMAIN r.interfaces : f \in DOMAIN s.interfaces /\ s.interfaces[f] = r.interfaces[f]
      BY DEF Keeps, Later
<1>1. ASSUME NEW o \in Orchestrations(r) \ X PROVE o \in Known(s) /\ Alike(r, s, o)
  <2>1. o \in Known(r) /\ o \in Known(s)
        BY <1>0 DEF Orchestrations
  <2>2. Children(s, o) = Children(r, o)
        BY <1>0 DEF Children
  <2>3. \A c \in Children(r, o) : c \in Known(r) /\ ParentOf(r, c) = o
        BY DEF Children
  <2>. QED BY <1>0, <2>1, <2>2, <2>3 DEF Alike, Decided
<1>2. Orchestrations(s) \subseteq Orchestrations(r) \cup X
      BY <1>0 DEF Orchestrations
<1>. QED BY <1>1, <1>2 DEF Apart

\* The agents of the nodes that are ready are started.
LEMMA StartNodesGrows ==
    ASSUME NEW r, Sound(r), NEW o \in Known(r), r.executions[o].kind = "Orchestration", Live(r, o),
           NEW ready, ready \subseteq Nodes \ StartedNodes(r, o),
           \A n \in ready : DependsOn[n] \subseteq Done(r, o),
           NEW s, s = StartNodes(r, o, ready)
    PROVE  /\ Sound(s) /\ Grows(r, s, {}) /\ s.decisions = r.decisions /\ s.interfaces = r.interfaces
           /\ \A e \in Known(r) : s.executions[e] = r.executions[e]
           /\ \A e \in Known(s) \ Known(r) :
                 ParentOf(s, e) = o /\ StateOf(s, e) = "Pending" /\ s.executions[e].kind = "Agent"
           /\ StartedNodes(s, o) = StartedNodes(r, o) \cup ready
<1>0. Len(NodeOrder) \in Nat /\ DOMAIN NodeOrder = 1..Len(NodeOrder) /\ None \notin Nodes
      BY DefinitionAssumption
<1>1. PICK f : /\ DOMAIN f = 0..Len(NodeOrder) /\ f[0] = r
               /\ \A i \in 1..Len(NodeOrder) :
                     f[i] = IF NodeOrder[i] \in ready
                            THEN CreateAgent(f[i - 1], o, NodeCallable[NodeOrder[i]], NodeOrder[i])
                            ELSE f[i - 1]
               /\ StartNodes(r, o, ready) = f[Len(NodeOrder)]
      BY StartNodesRounds
<1> DEFINE Begun(n) == {NodeOrder[j] : j \in 1..n} \cap ready
           Good(u, n) == /\ Sound(u) /\ Grows(r, u, {}) /\ u.decisions = r.decisions /\ u.interfaces = r.interfaces
                         /\ Known(r) \subseteq Known(u)
                         /\ \A e \in Known(r) : u.executions[e] = r.executions[e]
                         /\ \A e \in Known(u) \ Known(r) :
                               ParentOf(u, e) = o /\ StateOf(u, e) = "Pending" /\ u.executions[e].kind = "Agent"
                         /\ StartedNodes(u, o) = StartedNodes(r, o) \cup Begun(n)
           P == {n \in Nat : n <= Len(NodeOrder) => Good(f[n], n)}
<1>2. 0 \in P
      BY <1>1, GrowsReflexive
<1>3. ASSUME NEW n \in Nat, n \in P PROVE n + 1 \in P
  <2> SUFFICES ASSUME n + 1 <= Len(NodeOrder) PROVE Good(f[n + 1], n + 1)
      OBVIOUS
  <2> DEFINE u == f[n]
             v == f[n + 1]
             m == NodeOrder[n + 1]
  <2>1. Good(u, n)
        BY <1>0, <1>3
  <2>2. n + 1 \in 1..Len(NodeOrder) /\ (n + 1) - 1 = n
        BY <1>0
  <2>3. v = IF m \in ready THEN CreateAgent(u, o, NodeCallable[m], m) ELSE u
        BY <1>1, <2>2
  <2>4. Begun(n + 1) = Begun(n) \cup ({m} \cap ready)
    <3>1. \A j : j \in 1..(n + 1) <=> j \in 1..n \/ j = n + 1
          OBVIOUS
    <3>. QED BY <3>1
  <2>5. m \notin Begun(n)
    <3>1. \A j \in 1..n : j \in DOMAIN NodeOrder /\ j # n + 1
          BY <1>0, <2>2
    <3>. QED BY <1>0, <2>2, <3>1, RegistrationAssumption DEF IsInjective
  <2> HIDE DEF u, v, m, Begun
  <2>6. CASE m \notin ready
        BY <2>1, <2>3, <2>4, <2>6 DEF v
  <2>7. CASE m \in ready
    <3> DEFINE e == NextId(u)
    <3>0. /\ Sound(u) /\ Grows(r, u, {}) /\ u.decisions = r.decisions /\ u.interfaces = r.interfaces
          /\ Known(r) \subseteq Known(u) /\ \A g \in Known(r) : u.executions[g] = r.executions[g]
          BY <2>1
    <3>a. /\ \A g \in Known(u) \ Known(r) :
                ParentOf(u, g) = o /\ StateOf(u, g) = "Pending" /\ u.executions[g].kind = "Agent"
          /\ StartedNodes(u, o) = StartedNodes(r, o) \cup Begun(n)
          BY <2>1
    <3> HIDE DEF Good
    <3>1. o \in Known(u) /\ Live(u, o) /\ u.executions[o].kind = "Orchestration"
          BY <3>0 DEF Live, StateOf
    <3>2. NodeCallable[m] \in Delegates(u, o) /\ m # None
          BY <1>0, <2>7, <3>1 DEF Delegates
    <3>3. m \in Nodes \ StartedNodes(u, o)
          BY <2>5, <2>7, <3>a
    <3>4. DependsOn[m] \subseteq Done(u, o)
          BY <2>7, <3>0, DoneStays DEF Grows
    <3>5. v = CreateAgent(u, o, NodeCallable[m], m)
          BY <2>3, <2>7
    <3>6. /\ Sound(v) /\ Grows(u, v, {})
          /\ Known(v) = Known(u) \cup {NextId(u)} /\ NextId(u) \notin Known(u)
          /\ v.decisions = u.decisions /\ v.interfaces = u.interfaces
          /\ \A g \in Known(u) : v.executions[g] = u.executions[g]
          /\ v.executions[NextId(u)] = [session |-> u.executions[o].session, parent |-> o, kind |-> "Agent",
                                        callable |-> NodeCallable[m], node |-> m, state |-> "Pending"]
          BY <3>0, <3>1, <3>2, <3>3, <3>4, <3>5, AgentGrows
    <3>7. Sound(v) /\ Grows(u, v, {}) /\ Known(v) = Known(u) \cup {e} /\ e \notin Known(u)
          BY <3>6
    <3>8. v.decisions = u.decisions /\ v.interfaces = u.interfaces
          BY <3>6
    <3>9. \A g \in Known(u) : v.executions[g] = u.executions[g]
          BY <3>6
    <3>10. ParentOf(v, e) = o /\ StateOf(v, e) = "Pending" /\ v.executions[e].kind = "Agent"
           BY <3>6 DEF ParentOf, StateOf
    <3>11. v.executions[e].node = m
           BY <3>6
    <3> HIDE DEF e
    <3>12. Grows(r, v, {})
           BY <3>0, <3>7, GrowsTransitive
    <3>13. NodeExecutions(v, o) = NodeExecutions(u, o) \cup {e}
       <4>1. \A g \in Known(u) : ParentOf(v, g) = ParentOf(u, g)
             BY <3>9 DEF ParentOf
       <4>2. \A g : g \in NodeExecutions(v, o) <=>
                       g \in Known(v) /\ ParentOf(v, g) = o /\ v.executions[g].node # None
             BY DEF NodeExecutions, Children
       <4>3. \A g : g \in NodeExecutions(u, o) <=>
                       g \in Known(u) /\ ParentOf(u, g) = o /\ u.executions[g].node # None
             BY DEF NodeExecutions, Children
       <4>. QED BY <3>2, <3>7, <3>9, <3>10, <3>11, <4>1, <4>2, <4>3
    <3>14. StartedNodes(v, o) = StartedNodes(u, o) \cup {m}
       <4>1. \A g \in NodeExecutions(u, o) : v.executions[g].node = u.executions[g].node
             BY <3>9 DEF NodeExecutions, Children
       <4>. QED BY <3>11, <3>13, <4>1 DEF StartedNodes
    <3>15. StartedNodes(v, o) = StartedNodes(r, o) \cup Begun(n + 1)
           BY <2>4, <2>7, <3>14, <3>a
    <3>16. \A g \in Known(v) \ Known(r) :
              ParentOf(v, g) = o /\ StateOf(v, g) = "Pending" /\ v.executions[g].kind = "Agent"
           BY <3>7, <3>9, <3>10, <3>a DEF ParentOf, StateOf
    <3>17. Good(v, n + 1)
           BY <3>0, <3>7, <3>8, <3>9, <3>12, <3>15, <3>16 DEF Good
    <3>. QED BY <3>17 DEF v
  <2>. QED BY <2>6, <2>7
<1>4. Len(NodeOrder) \in P
  <2> HIDE DEF P
  <2>. QED BY <1>0, <1>2, <1>3, Induction
<1>5. Good(s, Len(NodeOrder))
      BY <1>0, <1>1, <1>4
<1>6. Begun(Len(NodeOrder)) = ready
  <2>1. Nodes = {NodeOrder[j] : j \in 1..Len(NodeOrder)}
        BY <1>0 DEF Nodes, ToSet
  <2>. QED BY <2>1
<1> HIDE DEF Begun
<1>. QED BY <1>5, <1>6

\* An orchestration is not below another.
LEMMA OrchestrationsAreApart ==
    ASSUME NEW r, Sound(r), NEW o \in Orchestrations(r), NEW e \in Known(r), ParentOf(r, e) = o
    PROVE  r.executions[e].kind = "Agent"
<1>1. o # None /\ Placed(r, e)
      BY SoundHas DEF Orchestrations
<1>. QED BY <1>1 DEF Placed, ParentOf, Kinds, Orchestrations

\* A change of the state of an orchestration is about that one.
LEMMA StateApart ==
    ASSUME NEW r, Sound(r), NEW e \in Known(r), Live(r, e), NEW state \in States \ {"Pending"},
           NEW s, s = WithState(r, e, state)
    PROVE  /\ Apart(r, s, {e, ParentOf(r, e)})
           /\ r.executions[e].kind # "Agent" => Apart(r, s, {e})
<1>1. /\ Shaped(s) /\ Known(s) = Known(r) /\ s.decisions = r.decisions
      /\ s.interfaces = r.interfaces /\ s.causes = r.causes
      /\ Accepted(r, s)
      /\ \A f \in Known(r) : /\ Fixed(r.executions[f], s.executions[f])
                             /\ StateOf(s, f) = IF f = e THEN state ELSE StateOf(r, f)
      BY StateDoes DEF Sound
<1>2. \A f \in Known(r) : f # e => s.executions[f] = r.executions[f]
      BY StateDoes DEF Sound
<1>3. Keeps(r, s)
  <2>1. \A f \in Known(r) : StateOf(r, f) \in States
        BY DEF Sound, Placed, StateOf
  <2>. QED BY <1>1, <2>1, StatesSound
<1>4. Apart(r, s, {e, ParentOf(r, e)})
      BY <1>1, <1>2, <1>3, ApartBy
<1>5. ASSUME r.executions[e].kind # "Agent" PROVE Apart(r, s, {e})
  <2>1. \A o \in Orchestrations(r) : ParentOf(r, e) # o
        BY <1>5, OrchestrationsAreApart
  <2>. QED BY <1>1, <1>2, <1>3, <2>1, ApartBy
<1>. QED BY <1>4, <1>5
-------------------------------------------------------------------------------
(* refresh_orchestration *)

\* There is neither a node to be started for o, nor an interface.
NothingToStart(r, o) ==
    /\ Undecided(r, o) # {} => FirstInIdOrder(Undecided(r, o)) \in DOMAIN r.interfaces
    /\ Undecided(r, o) = {} => \A n \in Nodes \ StartedNodes(r, o) : ~(DependsOn[n] \subseteq Done(r, o))

\* s is what a refresh of o has made of r.
Refreshed(r, s, o) ==
    /\ Sound(s) /\ Grows(r, s, {}) /\ Apart(r, s, {o})
    /\ Live(s, o) => Settled(s, o)
    /\ NothingToStart(r, o) => Known(s) = Known(r)

\* Agents that have just been created are no news.
LEMMA NewcomersWait ==
    ASSUME NEW r, NEW s, NEW o \in Known(r), Sound(r), Sound(s), Keeps(r, s), s.decisions = r.decisions,
           \A e \in Known(r) : s.executions[e] = r.executions[e],
           \A e \in Known(s) \ Known(r) : StateOf(s, e) = "Pending"
    PROVE  /\ \A e \in Known(r) : EffectiveState(s, e) = EffectiveState(r, e)
           /\ \A e \in Known(s) \ Known(r) : EffectiveState(s, e) = "Pending"
           /\ Done(s, o) = Done(r, o)
           /\ \A c : (c \in Children(s, o) /\ StateOf(s, c) = "Failed" /\ ~Decided(s, c)) <=>
                     (c \in Children(r, o) /\ StateOf(r, c) = "Failed" /\ ~Decided(r, c))
<1>0. Shaped(r) /\ Leads(r) /\ Shaped(s) /\ Leads(s) /\ Known(r) \subseteq Known(s)
      BY SoundHas DEF Keeps, Later
<1>1. \A e \in Known(r) : EffectiveState(s, e) = EffectiveState(r, e)
  <2>1. \A x \in Known(r) : /\ StateOf(s, x) = StateOf(r, x)
                            /\ Decided(s, x) <=> Decided(r, x)
                            /\ Decided(r, x) => s.decisions[x] = r.decisions[x]
                            /\ Decided(r, x) /\ r.decisions[x].kind \notin {"Continue", "Fail"} =>
                                  r.decisions[x].execution \in Known(r)
        BY <1>0 DEF StateOf, Decided, Leads
  <2>. QED BY <1>0, <2>1, EffectiveFrame
<1>2. \A e \in Known(s) \ Known(r) : EffectiveState(s, e) = "Pending"
      BY <1>0, EffectiveStep
<1>3. \A e \in Known(r) : ParentOf(s, e) = ParentOf(r, e) /\ StateOf(s, e) = StateOf(r, e)
      BY DEF ParentOf, StateOf
<1>4. Done(s, o) = Done(r, o)
  <2>1. \A n : n \in Done(s, o) <=> \E e \in Known(s) : /\ ParentOf(s, e) = o /\ s.executions[e].node # None
                                                        /\ EffectiveState(s, e) = "Completed"
                                                        /\ n = s.executions[e].node
        BY DEF Done, NodeExecutions, Children
  <2>2. \A n : n \in Done(r, o) <=> \E e \in Known(r) : /\ ParentOf(r, e) = o /\ r.executions[e].node # None
                                                        /\ EffectiveState(r, e) = "Completed"
                                                        /\ n = r.executions[e].node
        BY DEF Done, NodeExecutions, Children
  <2>3. \A e \in Known(s) : EffectiveState(s, e) = "Completed" => e \in Known(r)
        BY <1>2
  <2>4. \A n : n \in Done(s, o) <=> n \in Done(r, o)
        BY <1>0, <1>1, <1>3, <2>1, <2>2, <2>3
  <2>. QED BY <2>4
<1>5. \A c : (c \in Children(s, o) /\ StateOf(s, c) = "Failed" /\ ~Decided(s, c)) <=>
             (c \in Children(r, o) /\ StateOf(r, c) = "Failed" /\ ~Decided(r, c))
      BY <1>0, <1>3 DEF Children, Decided
<1>. QED BY <1>1, <1>2, <1>4, <1>5

\* The interfaces of o are agents of o.
LEMMA InterfacesAreAgents ==
    ASSUME NEW r, Sound(r), NEW o
    PROVE  /\ InterfacesOf(r, o) \subseteq Children(r, o)
           /\ \A i : i \in InterfacesOf(r, o) <=>
                        \E f \in DOMAIN r.interfaces : f \in Children(r, o) /\ i = r.interfaces[f]
<1>1. \A f \in DOMAIN r.interfaces : Interfaced(r, f)
      BY DEF Sound
<1>2. \A i : i \in InterfacesOf(r, o) <=>
                \E f \in DOMAIN r.interfaces : ParentOf(r, f) = o /\ i = r.interfaces[f]
      BY DEF InterfacesOf
<1>. QED BY <1>1, <1>2 DEF Interfaced, FailedAgent, Children

\* advance_orchestration, where nothing has gone wrong
LEMMA AdvanceRefreshes ==
    ASSUME NEW r, Sound(r), NEW o \in Orchestrations(r), StateOf(r, o) = "Running",
           FailedInterfaces(r, o) = {}, Undecided(r, o) = {},
           \A e \in NodeExecutions(r, o) : EffectiveState(r, e) \notin {"Failed", "Cancelled", "Interrupted"},
           NEW s, s = Advance(r, o)
    PROVE  Refreshed(r, s, o)
<1>0. o \in Known(r) /\ r.executions[o].kind = "Orchestration" /\ Live(r, o)
      BY DEF Orchestrations, Live, Terminal
<1> DEFINE ready == ReadyNodes(r, o)
<1>1. /\ ready = {n \in Nodes \ StartedNodes(r, o) : DependsOn[n] \subseteq Done(r, o)}
      /\ AllNodesCompleted(r, o) <=> Nodes \subseteq Done(r, o)
      BY NodesStand
<1> HIDE DEF ready
<1>2. CASE ready # {}
  <2>1. s = StartNodes(r, o, ready)
        BY <1>2 DEF Advance, ready
  <2>2. ready \subseteq Nodes \ StartedNodes(r, o) /\ \A n \in ready : DependsOn[n] \subseteq Done(r, o)
        BY <1>1
  <2>3. /\ Sound(s) /\ Grows(r, s, {}) /\ s.decisions = r.decisions /\ s.interfaces = r.interfaces
        /\ \A e \in Known(r) : s.executions[e] = r.executions[e]
        /\ \A e \in Known(s) \ Known(r) :
              ParentOf(s, e) = o /\ StateOf(s, e) = "Pending" /\ s.executions[e].kind = "Agent"
        /\ StartedNodes(s, o) = StartedNodes(r, o) \cup ready
        BY <1>0, <2>1, <2>2, StartNodesGrows
  <2>4. Keeps(r, s) /\ Known(r) \subseteq Known(s)
        BY <2>3 DEF Grows, Keeps, Later
  <2>5. Apart(r, s, {o})
        BY <2>3, <2>4, ApartBy
  <2>6. /\ \A e \in Known(r) : EffectiveState(s, e) = EffectiveState(r, e)
        /\ \A e \in Known(s) \ Known(r) : EffectiveState(s, e) = "Pending"
        /\ Done(s, o) = Done(r, o)
        /\ \A c : (c \in Children(s, o) /\ StateOf(s, c) = "Failed" /\ ~Decided(s, c)) <=>
                  (c \in Children(r, o) /\ StateOf(r, c) = "Failed" /\ ~Decided(r, c))
        BY <1>0, <2>3, <2>4, NewcomersWait
  <2>7. InterfacesOf(s, o) = InterfacesOf(r, o) /\ InterfacesOf(r, o) \subseteq Known(r)
    <3>1. \A f \in DOMAIN r.interfaces : f \in Known(r)
          BY DEF Sound, Interfaced, FailedAgent
    <3>2. \A f \in DOMAIN r.interfaces : f \in Children(s, o) <=> f \in Children(r, o)
          BY <2>3, <2>4, <3>1 DEF Children, ParentOf
    <3>3. InterfacesOf(s, o) = InterfacesOf(r, o)
          BY <2>3, <3>2, InterfacesAreAgents
    <3>. QED BY <3>3, InterfacesAreAgents DEF Children
  <2>8. FailedInterfaces(s, o) = {}
        BY <2>3, <2>7 DEF FailedInterfaces, StateOf
  <2>9. Undecided(s, o) = {}
        BY <2>6, <2>7 DEF Undecided
  <2>10. \A e \in NodeExecutions(s, o) : EffectiveState(s, e) \notin {"Failed", "Cancelled", "Interrupted"}
    <3> SUFFICES ASSUME NEW e \in NodeExecutions(s, o)
                 PROVE  EffectiveState(s, e) \notin {"Failed", "Cancelled", "Interrupted"}
        OBVIOUS
    <3>1. CASE e \in Known(r)
      <4>1. e \in NodeExecutions(r, o)
            BY <2>3, <3>1 DEF NodeExecutions, Children, ParentOf
      <4>. QED BY <2>6, <3>1, <4>1
    <3>2. CASE e \notin Known(r)
          BY <2>6, <3>2 DEF NodeExecutions, Children
    <3>. QED BY <3>1, <3>2
  <2>11. Done(r, o) \subseteq StartedNodes(r, o)
         BY DEF Done, StartedNodes
  <2>12. /\ \A n \in Nodes \ StartedNodes(s, o) : ~(DependsOn[n] \subseteq Done(s, o))
         /\ ~(Nodes \subseteq Done(s, o))
         BY <1>1, <1>2, <2>3, <2>6, <2>11
  <2>13. StateOf(s, o) = "Running"
         BY <1>0, <2>3 DEF StateOf
  <2>14. Settled(s, o)
         BY <2>8, <2>9, <2>10, <2>12, <2>13 DEF Settled
  <2>15. ~NothingToStart(r, o)
         BY <1>1, <1>2 DEF NothingToStart
  <2>. QED BY <2>3, <2>5, <2>14, <2>15 DEF Refreshed
<1>3. CASE ready = {} /\ Nodes \subseteq Done(r, o)
  <2>1. s = WithState(r, o, "Completed")
        BY <1>1, <1>3 DEF Advance, ready
  <2>a. "Completed" \in States \ {"Pending"} /\ "Completed" # "Failed"
        BY DEF States
  <2>2. Sound(s) /\ Grows(r, s, {})
        BY <1>0, <1>3, <2>1, <2>a, StateGrows
  <2>3. /\ Known(s) = Known(r) /\ s.decisions = r.decisions /\ s.interfaces = r.interfaces
        /\ \A f \in Known(r) : StateOf(s, f) = IF f = o THEN "Completed" ELSE StateOf(r, f)
        BY <1>0, <2>1, StateDoes DEF Sound
  <2>4. Apart(r, s, {o})
        BY <1>0, <2>1, <2>a, StateApart
  <2>5. ~Live(s, o)
        BY <1>0, <2>3 DEF Live, Terminal
  <2>. QED BY <2>2, <2>3, <2>4, <2>5 DEF Refreshed
<1>4. CASE ready = {} /\ ~(Nodes \subseteq Done(r, o))
  <2>1. s = r
        BY <1>1, <1>4 DEF Advance, ready
  <2>2. Settled(r, o)
        BY <1>1, <1>4 DEF Settled
  <2>3. Apart(r, r, {o})
        BY DEF Apart, Alike, Orchestrations
  <2>. QED BY <2>1, <2>2, <2>3, GrowsReflexive DEF Refreshed
<1>. QED BY <1>2, <1>3, <1>4

\* An orchestration that gives up is over, and starts nothing.
LEMMA FailRefreshes ==
    ASSUME NEW r, Sound(r), NEW o \in Orchestrations(r), Live(r, o), NEW s, s = FailOrchestration(r, o)
    PROVE  Refreshed(r, s, o)
<1>0. o \in Known(r) /\ r.executions[o].kind = "Orchestration"
      BY DEF Orchestrations
<1>1. /\ Sound(s) /\ Grows(r, s, {})
      /\ Known(s) = Known(r) /\ s.decisions = r.decisions /\ s.interfaces = r.interfaces
      /\ \A e \in Known(r) : /\ Fixed(r.executions[e], s.executions[e])
                             /\ StateOf(s, e) = IF e = o THEN "Failed"
                                                ELSE IF ParentOf(r, e) = o /\ Live(r, e) THEN "Cancelled"
                                                ELSE StateOf(r, e)
      BY <1>0, FailGrows
<1>2. \A e \in Known(r) : e # o /\ ParentOf(r, e) # o => s.executions[e] = r.executions[e]
      BY <1>0, FailGrows
<1>3. \A e \in Known(r) : ParentOf(r, e) = o => e \notin Orchestrations(r)
      BY OrchestrationsAreApart DEF Orchestrations
<1>4. \A e \in Known(r), p \in Orchestrations(r) \ {o} :
         e = p \/ ParentOf(r, e) = p => s.executions[e] = r.executions[e]
  <2> SUFFICES ASSUME NEW e \in Known(r), NEW p \in Orchestrations(r) \ {o}, e = p \/ ParentOf(r, e) = p
               PROVE  s.executions[e] = r.executions[e]
      OBVIOUS
  <2>1. ParentOf(r, e) # o
        BY <1>3
  <2>2. e # o
        BY <1>3, <1>0, OrchestrationsAreApart
  <2>. QED BY <1>2, <2>1, <2>2
<1>5. Apart(r, s, {o})
      BY <1>1, <1>4, ApartBy DEF Grows
<1>6. ~Live(s, o)
      BY <1>0, <1>1 DEF Live, Terminal
<1>. QED BY <1>1, <1>5, <1>6 DEF Refreshed

\* The same once the failures are decided.
LEMMA GiveUpRefreshes ==
    ASSUME NEW r, Sound(r), NEW o \in Orchestrations(r), StateOf(r, o) = "Running",
           NEW S, \A f \in S : f \in Known(r) /\ StateOf(r, f) = "Failed" /\ ParentOf(r, f) = o,
           NEW s, s = FailOrchestration(FallbackFail(r, S), o)
    PROVE  Refreshed(r, s, o)
<1> DEFINE q == FallbackFail(r, S)
<1>0. o \in Known(r) /\ r.executions[o].kind = "Orchestration"
      BY DEF Orchestrations
<1>1. /\ Sound(q) /\ Grows(r, q, {}) /\ q.executions = r.executions /\ q.interfaces = r.interfaces
      /\ DOMAIN q.decisions \subseteq DOMAIN r.decisions \cup S
      BY <1>0, FallbackGrows
<1> HIDE DEF q
<1>2. o \in Orchestrations(q) /\ Live(q, o) /\ Known(q) = Known(r)
      BY <1>0, <1>1 DEF Orchestrations, Known, Live, StateOf, Terminal
<1>3. Apart(r, q, {o})
  <2>1. Keeps(r, q)
        BY <1>1 DEF Grows
  <2>. QED BY <1>1, <1>2, <2>1, ApartBy
<1>4. s = FailOrchestration(q, o)
      BY DEF q
<1>5. Refreshed(q, s, o)
      BY <1>1, <1>2, <1>4, FailRefreshes
<1>6. ~Live(s, o) /\ Known(s) = Known(q)
      BY <1>0, <1>1, <1>2, <1>4, FailGrows DEF Live, Terminal, Orchestrations
<1>7. Sound(s) /\ Grows(r, s, {}) /\ Apart(r, s, {o})
      BY <1>1, <1>3, <1>5, GrowsTransitive, ApartTransitive DEF Refreshed
<1>. QED BY <1>2, <1>6, <1>7 DEF Refreshed

\* An undecided failure
LEMMA HandleFailureRefreshes ==
    ASSUME NEW r, Sound(r), NEW o \in Orchestrations(r), StateOf(r, o) = "Running",
           FailedInterfaces(r, o) = {}, Undecided(r, o) # {},
           NEW s, s = HandleFailure(r, o, FirstInIdOrder(Undecided(r, o)))
    PROVE  Refreshed(r, s, o)
<1> DEFINE f == FirstInIdOrder(Undecided(r, o))
<1>0. o \in Known(r) /\ r.executions[o].kind = "Orchestration" /\ Live(r, o)
      BY DEF Orchestrations, Live, Terminal
<1>1. Undecided(r, o) \subseteq Known(r)
      BY DEF Undecided, Children
<1>2. f \in Undecided(r, o)
      BY <1>1, FirstIsIn
<1> HIDE DEF f
<1>3. f \in Known(r) /\ StateOf(r, f) = "Failed" /\ ParentOf(r, f) = o
      BY <1>2 DEF Undecided, Children
<1>4. s = HandleFailure(r, o, f)
      BY DEF f
<1>5. CASE InterfaceAgent = None \/ (f \in DOMAIN r.interfaces /\ ~Live(r, r.interfaces[f]))
  <2>1. s = FailOrchestration(FallbackFail(r, {f}), o)
        BY <1>4, <1>5 DEF HandleFailure
  <2>. QED BY <1>3, <2>1, GiveUpRefreshes
<1>6. CASE InterfaceAgent # None /\ f \in DOMAIN r.interfaces /\ Live(r, r.interfaces[f])
  <2>1. s = r
        BY <1>4, <1>6 DEF HandleFailure
  <2>2. Settled(r, o)
        BY <1>6 DEF Settled, f
  <2>3. Apart(r, r, {o})
        BY DEF Apart, Alike, Orchestrations
  <2>. QED BY <2>1, <2>2, <2>3, GrowsReflexive DEF Refreshed
<1>7. CASE InterfaceAgent # None /\ f \notin DOMAIN r.interfaces
  <2>1. s = StartInterface(r, o, f)
        BY <1>4, <1>7 DEF HandleFailure
  <2> DEFINE i == NextId(r)
  <2>a. /\ Sound(s) /\ Grows(r, s, {})
        /\ Known(s) = Known(r) \cup {NextId(r)} /\ NextId(r) \notin Known(r)
        /\ s.decisions = r.decisions
        /\ DOMAIN s.interfaces = DOMAIN r.interfaces \cup {f} /\ s.interfaces[f] = NextId(r)
        /\ \A g \in DOMAIN r.interfaces : s.interfaces[g] = r.interfaces[g]
        /\ \A e \in Known(r) : s.executions[e] = r.executions[e]
        /\ ParentOf(s, NextId(r)) = o /\ StateOf(s, NextId(r)) = "Pending"
        /\ s.executions[NextId(r)].node = None /\ s.executions[NextId(r)].kind = "Agent"
        BY <1>0, <1>3, <1>7, <2>1, InterfaceGrows
  <2>2. /\ Sound(s) /\ Grows(r, s, {}) /\ Known(s) = Known(r) \cup {i} /\ i \notin Known(r)
        /\ s.decisions = r.decisions
        /\ DOMAIN s.interfaces = DOMAIN r.interfaces \cup {f} /\ s.interfaces[f] = i
        BY <2>a
  <2>3. /\ \A g \in DOMAIN r.interfaces : s.interfaces[g] = r.interfaces[g]
        /\ \A e \in Known(r) : s.executions[e] = r.executions[e]
        BY <2>a
  <2>4. ParentOf(s, i) = o /\ StateOf(s, i) = "Pending" /\ s.executions[i].kind = "Agent"
        BY <2>a
  <2> HIDE DEF i
  <2>5. Keeps(r, s)
        BY <2>2 DEF Grows
  <2>6. Apart(r, s, {o})
        BY <1>3, <2>2, <2>3, <2>4, <2>5, ApartBy
  <2>7. \A c : (c \in Children(s, o) /\ StateOf(s, c) = "Failed" /\ ~Decided(s, c)) <=>
               (c \in Children(r, o) /\ StateOf(r, c) = "Failed" /\ ~Decided(r, c))
    <3>1. \A e \in Known(s) \ Known(r) : StateOf(s, e) = "Pending"
          BY <2>2, <2>4
    <3>. QED BY <1>0, <2>2, <2>3, <2>5, <3>1, NewcomersWait
  <2>8. InterfacesOf(s, o) = InterfacesOf(r, o) \cup {i} /\ InterfacesOf(r, o) \subseteq Known(r)
    <3>1. \A g \in DOMAIN r.interfaces : g \in Known(r)
          BY DEF Sound, Interfaced, FailedAgent
    <3>2. \A g \in Known(r) : g \in Children(s, o) <=> g \in Children(r, o)
          BY <2>2, <2>3 DEF Children, ParentOf
    <3>3. f \in Children(s, o)
          BY <1>3, <3>2 DEF Children
    <3>4. \A x : x \in InterfacesOf(s, o) <=> x \in InterfacesOf(r, o) \/ x = i
          BY <2>2, <2>3, <3>1, <3>2, <3>3, InterfacesAreAgents
    <3>. QED BY <3>4, InterfacesAreAgents DEF Children
  <2>9. Undecided(s, o) = Undecided(r, o)
    <3>1. i \notin Children(r, o)
          BY <2>2 DEF Children
    <3>. QED BY <2>7, <2>8, <3>1 DEF Undecided
  <2>10. FailedInterfaces(s, o) = {}
     <3>1. \A x \in InterfacesOf(r, o) : StateOf(s, x) = StateOf(r, x)
           BY <2>3, <2>8 DEF StateOf
     <3>. QED BY <2>4, <2>8, <3>1 DEF FailedInterfaces
  <2>11. f \in DOMAIN s.interfaces /\ Live(s, s.interfaces[f])
         BY <2>2, <2>4 DEF Live, Terminal
  <2>12. StateOf(s, o) = "Running"
         BY <1>0, <2>3 DEF StateOf
  <2>13. Settled(s, o)
         BY <2>9, <2>10, <2>11, <2>12 DEF Settled, f
  <2>14. ~NothingToStart(r, o)
         BY <1>7 DEF NothingToStart, f
  <2>. QED BY <2>2, <2>6, <2>13, <2>14 DEF Refreshed
<1>. QED BY <1>5, <1>6, <1>7

\* An orchestration ends as one of its nodes did.
LEMMA EndRefreshes ==
    ASSUME NEW r, Sound(r), NEW o \in Orchestrations(r), Live(r, o),
           NEW state \in {"Cancelled", "Interrupted"}, NEW s, s = WithState(r, o, state)
    PROVE  Refreshed(r, s, o)
<1>0. /\ o \in Known(r) /\ r.executions[o].kind = "Orchestration" /\ state \in States \ {"Pending"}
      /\ state # "Failed" /\ state # "Completed" /\ state \in Terminal
      BY DEF Orchestrations, States, Terminal
<1>1. Sound(s) /\ Grows(r, s, {})
      BY <1>0, StateGrows
<1>2. Known(s) = Known(r) /\ StateOf(s, o) = state
      BY <1>0, StateDoes DEF Sound
<1>3. Apart(r, s, {o})
      BY <1>0, StateApart
<1>. QED BY <1>0, <1>1, <1>2, <1>3 DEF Refreshed, Live

\* refresh_orchestration of a running orchestration
LEMMA RefreshRefreshes ==
    ASSUME NEW r, Sound(r), NEW o \in Orchestrations(r), StateOf(r, o) = "Running", NEW s, s = Refresh(r, o)
    PROVE  Refreshed(r, s, o)
<1>0. o \in Known(r) /\ r.executions[o].kind = "Orchestration" /\ Live(r, o) /\ IsOrchestration(r, o)
      BY SoundHas DEF Orchestrations, Live, Terminal, IsOrchestration
<1>1. CASE FailedInterfaces(r, o) # {}
  <2> DEFINE i == FirstInIdOrder(FailedInterfaces(r, o))
             S == {i} \cup FailedChildFor(r, i)
  <2>1. FailedInterfaces(r, o) \subseteq Children(r, o) /\ Children(r, o) \subseteq Known(r)
        BY InterfacesAreAgents DEF FailedInterfaces, Children
  <2>2. i \in FailedInterfaces(r, o)
        BY <1>1, <2>1, FirstIsIn
  <2>3. s = FailOrchestration(FallbackFail(r, S), o)
        BY <1>0, <1>1 DEF Refresh
  <2>4. i \in Known(r) /\ StateOf(r, i) = "Failed" /\ ParentOf(r, i) = o
        BY <2>1, <2>2 DEF FailedInterfaces, Children
  <2> HIDE DEF i
  <2>5. \A f \in FailedChildFor(r, i) : f \in Known(r) /\ StateOf(r, f) = "Failed" /\ ParentOf(r, f) = o
        BY <2>4, SoundHas DEF FailedChildFor, Interfaced, FailedAgent
  <2>6. \A f \in S : f \in Known(r) /\ StateOf(r, f) = "Failed" /\ ParentOf(r, f) = o
        BY <2>4, <2>5
  <2> HIDE DEF S
  <2>. QED BY <2>3, <2>6, GiveUpRefreshes
<1>2. CASE FailedInterfaces(r, o) = {} /\ Undecided(r, o) # {}
  <2>1. s = HandleFailure(r, o, FirstInIdOrder(Undecided(r, o)))
        BY <1>0, <1>2 DEF Refresh
  <2>. QED BY <1>2, <2>1, HandleFailureRefreshes
<1>3. CASE FailedInterfaces(r, o) = {} /\ Undecided(r, o) = {}
  <2>1. CASE SomeNode(r, o, "Failed")
    <3>1. s = FailOrchestration(r, o)
          BY <1>0, <1>3, <2>1 DEF Refresh
    <3>. QED BY <1>0, <3>1, FailRefreshes
  <2>2. CASE ~SomeNode(r, o, "Failed") /\ SomeNode(r, o, "Cancelled")
    <3>1. s = WithState(r, o, "Cancelled")
          BY <1>0, <1>3, <2>2 DEF Refresh
    <3>. QED BY <1>0, <3>1, EndRefreshes
  <2>3. CASE ~SomeNode(r, o, "Failed") /\ ~SomeNode(r, o, "Cancelled") /\ SomeNode(r, o, "Interrupted")
    <3>1. s = WithState(r, o, "Interrupted")
          BY <1>0, <1>3, <2>3 DEF Refresh
    <3>. QED BY <1>0, <3>1, EndRefreshes
  <2>4. CASE ~SomeNode(r, o, "Failed") /\ ~SomeNode(r, o, "Cancelled") /\ ~SomeNode(r, o, "Interrupted")
    <3>1. s = Advance(r, o)
          BY <1>0, <1>3, <2>4 DEF Refresh
    <3>2. \A e \in NodeExecutions(r, o) :
             EffectiveState(r, e) \notin {"Failed", "Cancelled", "Interrupted"}
          BY <2>4, NodesStand
    <3>. QED BY <1>3, <3>1, <3>2, AdvanceRefreshes
  <2>. QED BY <2>1, <2>2, <2>3, <2>4
<1>. QED BY <1>1, <1>2, <1>3
-------------------------------------------------------------------------------
(* Cancellation.  It starts nothing, so that the executions that were below what is *)
(* cancelled when they were collected are all there are.                            *)

\* Nobody is below himself.
LEMMA NotBelowItself ==
    ASSUME NEW r, Sound(r), NEW x \in Known(r)
    PROVE  x \notin Descendants(r, x)
<1>1. \A e, f \in Known(r) : ParentOf(r, e) = f =>
         /\ r.executions[e].kind # "Root" /\ f # None
         /\ r.executions[f].kind = IF r.executions[e].kind = "Agent" THEN "Orchestration" ELSE "Root"
      BY SoundHas DEF Placed, ParentOf
<1>2. ParentOf(r, x) # x
      BY <1>1
<1>3. ASSUME NEW c \in Known(r), ParentOf(r, c) = x, ParentOf(r, x) = c PROVE FALSE
      BY <1>1, <1>3
<1>. QED BY <1>2, <1>3 DEF Descendants, Children

\* An execution is cancelled below a settled orchestration.
LEMMA CancelStartsNothing ==
    ASSUME NEW r, NEW v, Sound(r), Sound(v), NEW o \in Orchestrations(r), Settled(r, o),
           NEW e \in Known(r), Live(r, e), Known(v) = Known(r),
           v.decisions = r.decisions, v.interfaces = r.interfaces,
           \A f \in Known(r) : /\ Fixed(r.executions[f], v.executions[f])
                               /\ StateOf(v, f) = IF f = e THEN "Cancelled" ELSE StateOf(r, f)
    PROVE  NothingToStart(v, o)
<1>1. \A f \in Known(r) : ParentOf(v, f) = ParentOf(r, f) /\ v.executions[f].node = r.executions[f].node
      BY DEF Fixed, ParentOf
<1>2. Children(v, o) = Children(r, o)
      BY <1>1 DEF Children
<1>3. InterfacesOf(v, o) = InterfacesOf(r, o)
  <2>1. \A i : i \in InterfacesOf(v, o) <=> i \in InterfacesOf(r, o)
        BY <1>2, InterfacesAreAgents
  <2>. QED BY <2>1
<1>4. \A f \in Known(r) : StateOf(v, f) = "Failed" <=> StateOf(r, f) = "Failed"
      BY DEF Live, Terminal
<1>5. Undecided(v, o) = Undecided(r, o)
      BY <1>2, <1>3, <1>4 DEF Undecided, Children, Decided
<1>6. NodeExecutions(v, o) = NodeExecutions(r, o) /\ NodeExecutions(r, o) \subseteq Known(r)
      BY <1>1, <1>2 DEF NodeExecutions, Children
<1>7. StartedNodes(v, o) = StartedNodes(r, o)
      BY <1>1, <1>6 DEF StartedNodes
<1>8. \A f \in Known(r) : EffectiveState(v, f) = "Completed" => EffectiveState(r, f) = "Completed"
      BY CancelledIsNotCompleted, SoundHas
<1>9. Done(v, o) \subseteq Done(r, o)
  <2>1. \A n : n \in Done(v, o) => \E f \in NodeExecutions(v, o) :
                                      EffectiveState(v, f) = "Completed" /\ n = v.executions[f].node
        BY DEF Done
  <2>2. \A f \in NodeExecutions(r, o) : EffectiveState(r, f) = "Completed" => r.executions[f].node \in Done(r, o)
        BY DEF Done
  <2>. QED BY <1>1, <1>6, <1>8, <2>1, <2>2
<1>. QED BY <1>5, <1>7, <1>9 DEF Settled, NothingToStart

\* One execution in cancel_execution_set
LEMMA CancelOneGrows ==
    ASSUME NEW r, Sound(r), Calm(r, {}), NEW e \in Known(r), NEW cause, cause.execution \in Known(r),
           e \in {cause.execution} \cup Descendants(r, cause.execution),
           cause.kind = "AncestorFailure" =>
              e # cause.execution /\ StateOf(r, cause.execution) = "Failed",
           NEW s, s = CancelOne(r, e, cause)
    PROVE  Sound(s) /\ Grows(r, s, {cause.execution}) /\ Known(s) = Known(r) /\ Calm(s, {})
<1>1. CASE ~Live(r, e)
  <2>1. s = r
        BY <1>1 DEF CancelOne
  <2>. QED BY <2>1, GrowsReflexive
<1>2. CASE Live(r, e)
  <2> DEFINE v == WithState(WithCause(r, e, cause), e, "Cancelled")
             p == ParentOf(r, e)
  <2>1. s = Refresh(v, p)
        BY <1>2 DEF CancelOne
  <2>a. /\ Sound(v) /\ Grows(r, v, {cause.execution})
        /\ Known(v) = Known(r) /\ v.decisions = r.decisions /\ v.interfaces = r.interfaces
        /\ \A f \in Known(r) : /\ Fixed(r.executions[f], v.executions[f])
                               /\ StateOf(v, f) = IF f = e THEN "Cancelled" ELSE StateOf(r, f)
                               /\ f # e => v.executions[f] = r.executions[f]
        BY <1>2, MarkGrows
  <2> HIDE DEF v
  <2>2. /\ Sound(v) /\ Grows(r, v, {cause.execution}) /\ Keeps(r, v)
        /\ Known(v) = Known(r) /\ v.decisions = r.decisions /\ v.interfaces = r.interfaces
        BY <2>a DEF Grows
  <2>3. \A f \in Known(r) : f # e => v.executions[f] = r.executions[f]
        BY <2>a
  <2>4. Apart(r, v, {e, p})
        BY <2>2, <2>3, ApartBy
  <2>5. Calm(v, {e, p}) /\ ~Live(v, e)
    <3>1. Calm(r, {e, p})
          BY DEF Calm
    <3>. QED BY <2>2, <2>4, <2>a, <3>1, CalmStays DEF Live, Terminal
  <2>b. p # None => p \in Known(r)
        BY SoundHas DEF Placed, ParentOf
  <2>c. \A f \in Known(r) : v.executions[f].kind = r.executions[f].kind
        BY <2>a DEF Fixed
  <2>d. Orchestrations(v) = Orchestrations(r)
        BY <2>2, <2>c DEF Orchestrations
  <2>6. CASE p \notin Orchestrations(r)
    <3>1. ~IsOrchestration(v, p)
          BY <2>6, <2>b, <2>c DEF IsOrchestration, Orchestrations
    <3>2. s = v
          BY <2>1, <3>1 DEF Refresh
    <3>3. Calm(v, {})
          BY <2>5, <2>6, <2>d DEF Calm
    <3>. QED BY <2>2, <3>2, <3>3
  <2>7. CASE p \in Orchestrations(r) /\ ~Live(r, p)
    <3>0. p \in Known(r) /\ p # e
          BY <1>2, <2>7 DEF Orchestrations
    <3>1. ~Live(v, p)
          BY <2>3, <2>7, <3>0 DEF Live, StateOf
    <3>2. s = v
          BY <2>1, <3>1 DEF Refresh
    <3>3. Calm(v, {})
          BY <2>5, <3>1 DEF Calm
    <3>. QED BY <2>2, <3>2, <3>3
  <2>8. CASE p \in Orchestrations(r) /\ Live(r, p)
    <3>0. /\ r.executions[e].kind = "Agent" /\ e \notin Orchestrations(v)
          /\ Settled(r, p) /\ p \in Known(r) /\ p # e
      <4>1. r.executions[e].kind = "Agent"
            BY <2>8, OrchestrationsAreApart
      <4>. QED BY <2>8, <2>d, <4>1 DEF Orchestrations, Calm
    <3>1. p \in Orchestrations(v) /\ StateOf(v, p) = "Running"
          BY <2>3, <2>8, <2>d, <3>0 DEF Settled, StateOf
    <3>2. Refreshed(v, s, p)
          BY <2>1, <2>2, <3>1, RefreshRefreshes
    <3>3. NothingToStart(v, p)
          BY <1>2, <2>2, <2>8, <2>a, <3>0, CancelStartsNothing
    <3>4. Sound(s) /\ Grows(v, s, {}) /\ Apart(v, s, {p}) /\ Known(s) = Known(v) /\ (Live(s, p) => Settled(s, p))
          BY <3>2, <3>3 DEF Refreshed
    <3>5. Calm(v, {p})
          BY <2>5, <3>0 DEF Calm
    <3>6. Calm(s, {p})
          BY <2>2, <3>4, <3>5, CalmStays
    <3>7. Calm(s, {})
          BY <3>4, <3>6 DEF Calm
    <3>8. Grows(r, s, {cause.execution})
          BY <2>2, <3>4, GrowsWeaker, GrowsTransitive
    <3>. QED BY <2>2, <3>4, <3>7, <3>8
  <2>. QED BY <2>6, <2>7, <2>8
<1>. QED BY <1>1, <1>2

\* cancel_execution_set, of a subtree with its root or without
LEMMA CancelSetGrows ==
    ASSUME NEW r, Sound(r), Calm(r, {}), Known(r) \subseteq Ids, NEW cause, NEW x \in Known(r),
           cause.execution = x, NEW S, Descendants(r, x) \subseteq S, S \subseteq {x} \cup Descendants(r, x),
           x \in S \/ ~Live(r, x),
           cause.kind = "AncestorFailure" => x \notin S /\ StateOf(r, x) = "Failed",
           NEW s, s = CancelSet(r, S, cause)
    PROVE  Sound(s) /\ Grows(r, s, {x}) /\ Known(s) = Known(r) /\ Calm(s, {}) /\ Extinct(s, x)
<1>0. MaxExecutions \in Nat /\ S \subseteq Known(r) /\ Shaped(r)
      BY DefinitionAssumption, SoundHas DEF Descendants, Children
<1>1. PICK f : /\ DOMAIN f = 0..MaxExecutions /\ f[0] = r
               /\ \A i \in 1..MaxExecutions :
                     f[i] = IF IdOrder[i] \in S THEN CancelOne(f[i - 1], IdOrder[i], cause)
                            ELSE f[i - 1]
               /\ CancelSet(r, S, cause) = f[MaxExecutions]
      BY CancelSetRounds
<1> DEFINE Good(u) == Sound(u) /\ Grows(r, u, {x}) /\ Known(u) = Known(r) /\ Calm(u, {})
           P == {n \in Nat : n <= MaxExecutions => Good(f[n])}
<1>2. 0 \in P
      BY <1>1, GrowsReflexive
<1>3. ASSUME NEW n \in Nat, n \in P PROVE n + 1 \in P
  <2> SUFFICES ASSUME n + 1 <= MaxExecutions PROVE Good(f[n + 1])
      OBVIOUS
  <2> DEFINE u == f[n]
             e == IdOrder[n + 1]
  <2>1. Good(u)
        BY <1>0, <1>3
  <2>2. n + 1 \in 1..MaxExecutions /\ (n + 1) - 1 = n
        BY <1>0
  <2>3. f[n + 1] = IF e \in S THEN CancelOne(u, e, cause) ELSE u
        BY <1>1, <2>2
  <2> HIDE DEF u, e
  <2>4. CASE e \notin S
        BY <2>1, <2>3, <2>4
  <2>5. CASE e \in S
    <3> DEFINE v == CancelOne(u, e, cause)
    <3>1. \A g \in Known(r) : /\ ParentOf(u, g) = ParentOf(r, g)
                              /\ ~Live(r, g) => StateOf(u, g) = StateOf(r, g)
          BY <2>1 DEF Grows, Keeps, Later
    <3>2. Descendants(u, x) = Descendants(r, x)
          BY <2>1, <3>1 DEF Descendants, Children
    <3>3. e \in {x} \cup Descendants(u, x) /\ e \in Known(u) /\ x \in Known(u)
          BY <1>0, <2>1, <2>5, <3>2
    <3>4. cause.kind = "AncestorFailure" => e # x /\ StateOf(u, x) = "Failed"
          BY <2>5, <3>1 DEF Live, Terminal
    <3>5. Sound(v) /\ Grows(u, v, {x}) /\ Known(v) = Known(u) /\ Calm(v, {})
          BY <2>1, <3>3, <3>4, CancelOneGrows
    <3> HIDE DEF v
    <3>6. Grows(r, v, {x})
          BY <2>1, <3>5, GrowsTransitive
    <3>7. f[n + 1] = v
          BY <2>3, <2>5 DEF v
    <3>. QED BY <2>1, <3>5, <3>6, <3>7
  <2>. QED BY <2>4, <2>5
<1>4. MaxExecutions \in P
  <2> HIDE DEF P
  <2>. QED BY <1>0, <1>2, <1>3, Induction
<1>5. Good(s)
      BY <1>0, <1>1, <1>4
<1>6. \A e \in S : ~Live(s, e)
      BY <1>0, CancelSetFollows
<1>7. \A g \in Known(r) : ParentOf(s, g) = ParentOf(r, g) /\ (~Live(r, g) => ~Live(s, g))
      BY <1>5 DEF Grows, Keeps, Later, Live
<1>8. Descendants(s, x) = Descendants(r, x)
      BY <1>5, <1>7 DEF Descendants, Children
<1>9. Extinct(s, x)
      BY <1>6, <1>7, <1>8 DEF Extinct
<1>. QED BY <1>5, <1>9
-------------------------------------------------------------------------------
(* The operations, from a runtime that is in order to one that is. *)

\* s is what an operation has made of r.
Develops(r, s) == Sound(s) /\ Grows(r, s, {}) /\ Calm(s, {})

\* The parent of e is refreshed once e has changed.
LEMMA ParentRefreshed ==
    ASSUME NEW r, NEW v, Sound(r), Sound(v), Calm(r, {}), NEW e \in Known(r), Known(v) = Known(r),
           Grows(r, v, {}), Apart(r, v, {e, ParentOf(r, e)}), ~Live(v, e),
           \A f \in Known(r) : f # e => v.executions[f] = r.executions[f],
           NEW s, s = Refresh(v, ParentOf(r, e))
    PROVE  Develops(r, s)
<1> DEFINE p == ParentOf(r, e)
<1>1. p # None => p \in Known(r)
      BY SoundHas DEF Placed, ParentOf
<1>2. \A f \in Known(r) : v.executions[f].kind = r.executions[f].kind
      BY DEF Grows, Keeps, Later
<1>3. Orchestrations(v) = Orchestrations(r)
      BY <1>2 DEF Orchestrations
<1>4. Calm(v, {e, p})
  <2>1. Calm(r, {e, p})
        BY DEF Calm
  <2>. QED BY <2>1, CalmStays
<1>5. CASE p \notin Orchestrations(r)
  <2>1. ~IsOrchestration(v, p)
        BY <1>1, <1>2, <1>5 DEF IsOrchestration, Orchestrations
  <2>2. s = v
        BY <2>1 DEF Refresh
  <2>3. Calm(v, {})
        BY <1>3, <1>4, <1>5 DEF Calm
  <2>. QED BY <2>2, <2>3 DEF Develops
<1>6. CASE p \in Orchestrations(r) /\ ~Live(v, p)
  <2>1. s = v
        BY <1>6 DEF Refresh
  <2>2. Calm(v, {})
        BY <1>4, <1>6 DEF Calm
  <2>. QED BY <2>1, <2>2 DEF Develops
<1>7. CASE p \in Orchestrations(r) /\ Live(v, p)
  <2>0. p # e /\ p \in Known(r) /\ e \notin Orchestrations(v)
    <3>1. r.executions[e].kind = "Agent"
          BY <1>7, OrchestrationsAreApart
    <3>. QED BY <1>3, <1>7, <3>1 DEF Orchestrations
  <2>1. v.executions[p] = r.executions[p]
        BY <2>0
  <2>2. StateOf(v, p) = "Running" /\ p \in Orchestrations(v)
    <3>1. Live(r, p)
          BY <1>7, <2>1 DEF Live, StateOf
    <3>2. Settled(r, p)
          BY <1>7, <3>1 DEF Calm
    <3>. QED BY <1>3, <1>7, <2>1, <3>2 DEF Settled, StateOf
  <2>3. Refreshed(v, s, p)
        BY <2>2, RefreshRefreshes
  <2>4. Calm(v, {p})
        BY <1>4, <2>0 DEF Calm
  <2>5. Calm(s, {p})
        BY <2>3, <2>4, CalmStays DEF Refreshed
  <2>6. Calm(s, {})
        BY <2>3, <2>5 DEF Calm, Refreshed
  <2>7. Grows(r, s, {}) /\ Sound(s)
        BY <2>3, GrowsTransitive DEF Refreshed
  <2>. QED BY <2>6, <2>7 DEF Develops
<1>. QED BY <1>5, <1>6, <1>7

\* Where there is nothing to cancel, nothing changes.
LEMMA CancelNothing ==
    ASSUME NEW r, NEW cause
    PROVE  CancelSet(r, {}, cause) = r
<1>0. MaxExecutions \in Nat
      BY DefinitionAssumption
<1>1. PICK f : /\ DOMAIN f = 0..MaxExecutions /\ f[0] = r
               /\ \A i \in 1..MaxExecutions :
                     f[i] = IF IdOrder[i] \in {} THEN CancelOne(f[i - 1], IdOrder[i], cause)
                            ELSE f[i - 1]
               /\ CancelSet(r, {}, cause) = f[MaxExecutions]
      BY CancelSetRounds
<1> DEFINE P == {n \in Nat : n <= MaxExecutions => f[n] = r}
<1>2. 0 \in P
      BY <1>1
<1>3. ASSUME NEW n \in Nat, n \in P PROVE n + 1 \in P
  <2> SUFFICES ASSUME n + 1 <= MaxExecutions PROVE f[n + 1] = r
      OBVIOUS
  <2>1. n + 1 \in 1..MaxExecutions /\ (n + 1) - 1 = n /\ f[n] = r
        BY <1>0, <1>3
  <2>. QED BY <1>1, <2>1
<1>4. MaxExecutions \in P
  <2> HIDE DEF P
  <2>. QED BY <1>0, <1>2, <1>3, Induction
<1>. QED BY <1>0, <1>1, <1>4

\* Agents have nothing below them.
LEMMA AgentsAreLeaves ==
    ASSUME NEW r, Sound(r), NEW e \in Known(r), r.executions[e].kind = "Agent"
    PROVE  Descendants(r, e) = {}
<1>1. \A f \in Known(r) : ParentOf(r, f) # e
      BY SoundHas DEF Placed, ParentOf
<1>. QED BY <1>1 DEF Descendants, Children

\* set_state(e, Completed) and set_state(e, Failed), of a root or an agent
LEMMA EndDevelops ==
    ASSUME NEW r, Sound(r), Calm(r, {}), Known(r) \subseteq Ids, NEW e \in Known(r), Live(r, e),
           r.executions[e].kind # "Orchestration", NEW state \in {"Completed", "Failed"},
           NEW s, s = SetState(r, e, state)
    PROVE  /\ Develops(r, s) /\ Plants(r, s, ParentOf(r, e))
           /\ ParentOf(r, e) = None => Known(s) = Known(r)
<1> DEFINE v == WithState(r, e, state)
           cause == [kind |-> "AncestorFailure", execution |-> e]
           t == IF state = "Failed" THEN CancelSet(v, Descendants(v, e), cause) ELSE v
<1>0. state \in States \ {"Pending"} /\ state \in Terminal
      BY DEF States, Terminal
<1>1. s = Refresh(t, ParentOf(r, e))
      BY <1>0 DEF SetState
<1>2. Sound(v) /\ Grows(r, v, {e}) /\ (state # "Failed" => Grows(r, v, {}))
      BY <1>0, StateGrows
<1>3. /\ Apart(r, v, {e, ParentOf(r, e)})
      /\ r.executions[e].kind # "Agent" => Apart(r, v, {e})
      BY <1>0, StateApart
<1>4. /\ Shaped(v) /\ Known(v) = Known(r) /\ v.decisions = r.decisions
      /\ v.interfaces = r.interfaces /\ v.causes = r.causes
      /\ Accepted(r, v)
      /\ \A f \in Known(r) : /\ Fixed(r.executions[f], v.executions[f])
                             /\ StateOf(v, f) = IF f = e THEN state ELSE StateOf(r, f)
                             /\ f # e => v.executions[f] = r.executions[f]
      BY StateDoes DEF Sound
<1>5. cause.execution = e /\ cause.kind = "AncestorFailure"
      OBVIOUS
<1> HIDE DEF v, cause
<1>6. ~Live(v, e) /\ v.executions[e].kind = r.executions[e].kind
      BY <1>0, <1>4 DEF Live, Fixed
<1>7. CASE state = "Completed"
  <2>1. t = v /\ Grows(r, v, {})
        BY <1>2, <1>7
  <2>2. Plants(r, s, ParentOf(r, e)) /\ (ParentOf(r, e) = None => Known(s) = Known(r))
        BY <1>1, <1>4, <2>1, RefreshPlants DEF Plants
  <2>. QED BY <1>1, <1>2, <1>3, <1>4, <1>6, <2>1, <2>2, ParentRefreshed
<1>8. CASE state = "Failed" /\ r.executions[e].kind = "Agent"
  <2>1. Descendants(v, e) = {}
        BY <1>2, <1>4, <1>6, <1>8, AgentsAreLeaves
  <2>2. t = v
        BY <1>8, <2>1, CancelNothing
  <2>3. Grows(r, v, {})
        BY <1>2, <1>6, <2>1, GrowsWhole DEF Extinct
  <2>4. Plants(r, s, ParentOf(r, e)) /\ (ParentOf(r, e) = None => Known(s) = Known(r))
        BY <1>1, <1>4, <2>2, RefreshPlants DEF Plants
  <2>. QED BY <1>1, <1>2, <1>3, <1>4, <1>6, <2>2, <2>3, <2>4, ParentRefreshed
<1>9. CASE state = "Failed" /\ r.executions[e].kind # "Agent"
  <2>1. t = CancelSet(v, Descendants(v, e), cause)
        BY <1>9
  <2> HIDE DEF t
  <2>2. r.executions[e].kind = "Root" /\ ParentOf(r, e) = None
        BY <1>9, SoundHas DEF Placed, ParentOf, Kinds
  <2>3. Calm(v, {})
    <3>1. Calm(r, {e})
          BY DEF Calm
    <3>2. Calm(v, {e})
          BY <1>2, <1>3, <1>9, <3>1, CalmStays
    <3>. QED BY <1>6, <3>2 DEF Calm
  <2>4. e \in Known(v) /\ Known(v) \subseteq Ids /\ e \notin Descendants(v, e) /\ StateOf(v, e) = "Failed"
        BY <1>2, <1>4, <1>9, NotBelowItself
  <2>5. Sound(t) /\ Grows(v, t, {e}) /\ Known(t) = Known(v) /\ Calm(t, {}) /\ Extinct(t, e)
        BY <1>2, <1>5, <1>6, <2>1, <2>3, <2>4, CancelSetGrows
  <2>6. Grows(r, t, {})
        BY <1>2, <2>5, GrowsTransitive, GrowsWhole
  <2>7. s = t
        BY <1>1, <2>2 DEF Refresh, IsOrchestration
  <2>. QED BY <1>4, <2>5, <2>6, <2>7 DEF Develops, Plants
<1>. QED BY <1>7, <1>8, <1>9

\* cancel_execution
LEMMA CancelDevelops ==
    ASSUME NEW r, Sound(r), Calm(r, {}), Known(r) \subseteq Ids, NEW e \in Known(r),
           NEW s, s = CancelSet(r, {e} \cup Descendants(r, e),
                                [kind |-> "ExplicitCancellation", execution |-> e])
    PROVE  Develops(r, s) /\ Known(s) = Known(r)
<1> DEFINE S == {e} \cup Descendants(r, e)
           cause == [kind |-> "ExplicitCancellation", execution |-> e]
<1>1. cause.execution = e /\ cause.kind # "AncestorFailure"
      OBVIOUS
<1>2. e \in S /\ Descendants(r, e) \subseteq S /\ S \subseteq {e} \cup Descendants(r, e)
      OBVIOUS
<1>3. s = CancelSet(r, S, cause)
      OBVIOUS
<1> HIDE DEF S, cause
<1>4. Sound(s) /\ Grows(r, s, {e}) /\ Known(s) = Known(r) /\ Calm(s, {}) /\ Extinct(s, e)
      BY <1>1, <1>2, <1>3, CancelSetGrows
<1>. QED BY <1>4, GrowsWhole DEF Develops

\* An execution that begins counts as running where it counted as pending.
LEMMA BegunCounts ==
    ASSUME NEW r, NEW s, Shaped(r), Shaped(s), Leads(r), Leads(s), Known(s) = Known(r),
           s.decisions = r.decisions, NEW e \in Known(r), StateOf(r, e) = "Pending",
           \A f \in Known(r) : StateOf(s, f) = IF f = e THEN "Running" ELSE StateOf(r, f),
           NEW g \in Known(r)
    PROVE  \/ EffectiveState(s, g) = EffectiveState(r, g)
           \/ EffectiveState(r, g) = "Pending" /\ EffectiveState(s, g) = "Running"
<1> DEFINE Same(x) == \/ EffectiveState(s, x) = EffectiveState(r, x)
                      \/ EffectiveState(r, x) = "Pending" /\ EffectiveState(s, x) = "Running"
           Shown == {x \in Known(r) : Same(x)}
<1>1. ASSUME NEW x \in Known(r), \A y \in Known(r) : y > x => y \in Shown
      PROVE  x \in Shown
  <2>0. Decided(s, x) <=> Decided(r, x)
        BY DEF Decided
  <2>1. CASE StateOf(r, x) = "Failed" /\ Decided(r, x) /\ r.decisions[x].kind \notin {"Continue", "Fail"}
    <3> DEFINE y == r.decisions[x].execution
    <3>1. y \in Known(r) /\ y > x
          BY <2>1 DEF Leads, Decided
    <3>2. Same(y)
          BY <1>1, <3>1
    <3>3. EffectiveState(r, x) = EffectiveState(r, y)
          BY <2>1, EffectiveStep
    <3>4. StateOf(s, x) = "Failed"
          BY <2>1
    <3>5. EffectiveState(s, x) = EffectiveState(s, y)
          BY <2>0, <2>1, <3>4, EffectiveStep
    <3>. QED BY <3>2, <3>3, <3>5
  <2>2. CASE ~(StateOf(r, x) = "Failed" /\ Decided(r, x) /\ r.decisions[x].kind \notin {"Continue", "Fail"})
        BY <2>0, <2>2, EffectiveStep
  <2>. QED BY <2>1, <2>2
<1> HIDE DEF Shown
<1>2. Known(r) \subseteq Shown
      BY <1>1, FromTheLatest
<1>. QED BY <1>2 DEF Shown

\* begin_execution
LEMMA BeginDevelops ==
    ASSUME NEW r, Sound(r), Calm(r, {}), NEW e \in Known(r), StateOf(r, e) = "Pending",
           r.executions[e].kind # "Orchestration", NEW s, s = SetState(r, e, "Running")
    PROVE  Develops(r, s)
<1>0. /\ "Running" \in States \ {"Pending"} /\ Live(r, e) /\ "Running" # "Failed" /\ "Running" # "Completed"
      /\ "Running" \notin Terminal
      BY DEF States, Live, Terminal
<1>1. s = WithState(r, e, "Running")
      BY <1>0 DEF SetState
<1>2. Sound(s) /\ Grows(r, s, {})
      BY <1>0, <1>1, StateGrows
<1>3. /\ Shaped(s) /\ Known(s) = Known(r) /\ s.decisions = r.decisions
      /\ s.interfaces = r.interfaces /\ s.causes = r.causes
      /\ Accepted(r, s)
      /\ \A f \in Known(r) : /\ Fixed(r.executions[f], s.executions[f])
                             /\ StateOf(s, f) = IF f = e THEN "Running" ELSE StateOf(r, f)
                             /\ f # e => s.executions[f] = r.executions[f]
      BY <1>0, <1>1, StateDoes DEF Sound
<1>4. Orchestrations(s) = Orchestrations(r)
      BY <1>3 DEF Orchestrations, Fixed
<1>5. ASSUME NEW o \in Orchestrations(r), Live(s, o) PROVE Settled(s, o)
  <2>0. o \in Known(r) /\ o # e
        BY DEF Orchestrations
  <2>1. StateOf(s, o) = StateOf(r, o)
        BY <1>3, <2>0
  <2>2. Settled(r, o)
        BY <1>5, <2>1 DEF Calm, Live
  <2>3. \A f \in Known(r) : ParentOf(s, f) = ParentOf(r, f) /\ s.executions[f].node = r.executions[f].node
        BY <1>3 DEF Fixed, ParentOf
  <2>4. Children(s, o) = Children(r, o) /\ Children(r, o) \subseteq Known(r)
        BY <1>3, <2>3 DEF Children
  <2>5. InterfacesOf(s, o) = InterfacesOf(r, o) /\ InterfacesOf(r, o) \subseteq Known(r)
    <3>1. \A i : i \in InterfacesOf(s, o) <=> i \in InterfacesOf(r, o)
          BY <1>2, <1>3, <2>4, InterfacesAreAgents
    <3>. QED BY <2>4, <3>1, InterfacesAreAgents
  <2>6. \A f \in Known(r) : /\ StateOf(s, f) = "Failed" <=> StateOf(r, f) = "Failed"
                            /\ Live(s, f) <=> Live(r, f)
        BY <1>3 DEF Live, Terminal
  <2>7. Undecided(s, o) = Undecided(r, o) /\ Undecided(r, o) \subseteq Known(r)
        BY <1>3, <2>4, <2>5, <2>6 DEF Undecided, Decided
  <2>8. FailedInterfaces(s, o) = FailedInterfaces(r, o)
        BY <2>5, <2>6 DEF FailedInterfaces
  <2>9. NodeExecutions(s, o) = NodeExecutions(r, o) /\ NodeExecutions(r, o) \subseteq Known(r)
        BY <2>3, <2>4 DEF NodeExecutions
  <2>10. \A f \in Known(r) : \/ EffectiveState(s, f) = EffectiveState(r, f)
                             \/ EffectiveState(r, f) = "Pending" /\ EffectiveState(s, f) = "Running"
         BY <1>2, <1>3, BegunCounts, SoundHas
  <2>11. StartedNodes(s, o) = StartedNodes(r, o)
         BY <2>3, <2>9 DEF StartedNodes
  <2>12. Done(s, o) = Done(r, o)
     <3>1. \A f \in NodeExecutions(r, o) : EffectiveState(s, f) = "Completed" <=> EffectiveState(r, f) = "Completed"
           BY <2>9, <2>10
     <3>2. {f \in NodeExecutions(s, o) : EffectiveState(s, f) = "Completed"} =
              {f \in NodeExecutions(r, o) : EffectiveState(r, f) = "Completed"}
           BY <2>9, <3>1
     <3>. QED BY <2>3, <2>9, <3>2 DEF Done
  <2>13. \A f \in NodeExecutions(s, o) : EffectiveState(s, f) \in {"Failed", "Cancelled", "Interrupted"} =>
                                            EffectiveState(r, f) \in {"Failed", "Cancelled", "Interrupted"}
         BY <2>9, <2>10
  <2>14. Undecided(s, o) # {} =>
            LET f == FirstInIdOrder(Undecided(s, o)) IN f \in DOMAIN s.interfaces /\ Live(s, s.interfaces[f])
     <3>1. \A f \in DOMAIN r.interfaces : r.interfaces[f] \in Known(r)
           BY SoundHas DEF Interfaced
     <3>. QED BY <1>3, <2>2, <2>6, <2>7, <3>1 DEF Settled
  <2>. QED BY <2>1, <2>2, <2>7, <2>8, <2>9, <2>11, <2>12, <2>13, <2>14 DEF Settled
<1>6. Calm(s, {})
      BY <1>4, <1>5 DEF Calm
<1>. QED BY <1>2, <1>6 DEF Develops

\* submit, and start_session_callable of an agent
LEMMA SubmitDevelops ==
    ASSUME NEW r, Sound(r), Calm(r, {}), NEW ss \in Sessions, sessions[ss] = "Active", NEW kind \in {"Root", "Agent"},
           NEW callable, NEW s, s = Create(r, ss, None, kind, callable, None)
    PROVE  Develops(r, s)
<1>1. kind \in Kinds
      BY DEF Kinds
<1>2. Sound(s) /\ Grows(r, s, {})
      BY <1>1, CreateGrows
<1>3. /\ Follows(r, s) /\ Known(s) = Known(r) \cup {NextId(r)}
      /\ s.decisions = r.decisions /\ s.interfaces = r.interfaces /\ s.causes = r.causes
      /\ s.executions[NextId(r)] = [session |-> ss, parent |-> None, kind |-> kind,
                                    callable |-> callable, node |-> None, state |-> "Pending"]
      /\ \A e \in Known(r) : s.executions[e] = r.executions[e]
      BY CreateFollows DEF Sound
<1>4. /\ Known(s) = Known(r) \cup {NextId(r)} /\ s.decisions = r.decisions /\ s.interfaces = r.interfaces
      /\ \A e \in Known(r) : s.executions[e] = r.executions[e]
      BY <1>3
<1>5. ParentOf(s, NextId(r)) = None /\ s.executions[NextId(r)].kind = kind
      BY <1>3 DEF ParentOf
<1>6. None \notin Orchestrations(r)
      BY SoundHas DEF Orchestrations
<1>7. Apart(r, s, {})
      BY <1>2, <1>4, <1>5, <1>6, ApartBy DEF Grows
<1>. QED BY <1>2, <1>7, CalmStays DEF Develops

\* start_orchestration and start_session_callable of an orchestration
LEMMA LaunchDevelops ==
    ASSUME Sound(runtime), Calm(runtime, {}), NEW ss \in Sessions, sessions[ss] = "Active", NEW parent,
           parent # None => /\ parent \in Known(runtime) /\ Live(runtime, parent)
                            /\ runtime.executions[parent].kind = "Root",
           NEW s, s = Launch(Create(runtime, ss, parent, "Orchestration", None, None))
    PROVE  Develops(runtime, s)
<1> DEFINE r == runtime
           o == NextId(r)
           q == Create(r, ss, parent, "Orchestration", None, None)
           t == SetState(q, o, "Running")
<1>0. /\ "Orchestration" \in Kinds /\ "Running" \in States \ {"Pending"} /\ "Running" \notin Terminal
      /\ "Running" # "Failed" /\ "Running" # "Completed"
      BY DEF Kinds, States, Terminal
<1>1. s = Advance(t, o)
      BY DEF Launch
<1>2. Sound(q) /\ Grows(r, q, {})
      BY <1>0, CreateGrows
<1>3. /\ Follows(r, q) /\ Known(q) = Known(r) \cup {NextId(r)}
      /\ q.decisions = r.decisions /\ q.interfaces = r.interfaces /\ q.causes = r.causes
      /\ q.executions[NextId(r)] = [session |-> ss, parent |-> parent, kind |-> "Orchestration",
                                    callable |-> None, node |-> None, state |-> "Pending"]
      /\ \A e \in Known(r) : q.executions[e] = r.executions[e]
      BY CreateFollows DEF Sound
<1>4. o \notin Known(r) /\ None \notin Known(r) /\ o # None
      BY NextIdIsNew, SoundHas, DefinitionAssumption DEF Sound
<1>5. /\ Known(q) = Known(r) \cup {o} /\ q.decisions = r.decisions /\ q.interfaces = r.interfaces
      /\ \A e \in Known(r) : q.executions[e] = r.executions[e]
      BY <1>3
<1>6. ParentOf(q, o) = parent /\ q.executions[o].kind = "Orchestration" /\ StateOf(q, o) = "Pending"
      BY <1>3 DEF ParentOf, StateOf
<1> HIDE DEF r, o, q
<1>7. t = WithState(q, o, "Running") /\ Live(q, o) /\ o \in Known(q)
      BY <1>0, <1>5, <1>6 DEF SetState, Live, Terminal
<1>8. Sound(t) /\ Grows(q, t, {})
      BY <1>0, <1>2, <1>7, StateGrows
<1>9. /\ Shaped(t) /\ Known(t) = Known(q) /\ t.decisions = q.decisions
      /\ t.interfaces = q.interfaces /\ t.causes = q.causes
      /\ Accepted(q, t)
      /\ \A f \in Known(q) : /\ Fixed(q.executions[f], t.executions[f])
                             /\ StateOf(t, f) = IF f = o THEN "Running" ELSE StateOf(q, f)
                             /\ f # o => t.executions[f] = q.executions[f]
      BY <1>2, <1>7, StateDoes DEF Sound
<1>10. Apart(r, q, {o})
   <2>1. \A p \in Orchestrations(r) \ {o} : ParentOf(q, o) # p
         BY <1>4, <1>6 DEF Orchestrations, r
   <2>. QED BY <1>2, <1>5, <2>1, ApartBy DEF Grows, r
<1>11. Apart(q, t, {o})
       BY <1>0, <1>2, <1>6, <1>7, StateApart
<1>12. Calm(t, {o})
   <2>1. Calm(r, {o})
         BY DEF Calm, r
   <2>. QED BY <1>2, <1>8, <1>10, <1>11, <2>1, CalmStays DEF r
<1> HIDE DEF t
<1>13. o \in Orchestrations(t) /\ StateOf(t, o) = "Running"
       BY <1>6, <1>7, <1>9 DEF Orchestrations, Fixed
<1>14. Children(t, o) = {}
   <2>1. \A e \in Known(r) : ParentOf(r, e) # o
         BY <1>4, SoundHas DEF Placed, ParentOf, r
   <2>2. \A e \in Known(t) : ParentOf(t, e) = ParentOf(q, e)
         BY <1>9 DEF Fixed, ParentOf
   <2>3. parent # o
         BY <1>4 DEF r
   <2>4. \A e \in Known(r) : ParentOf(q, e) = ParentOf(r, e)
         BY <1>5 DEF ParentOf
   <2>. QED BY <1>5, <1>6, <1>9, <2>1, <2>2, <2>3, <2>4 DEF Children
<1>15. NodeExecutions(t, o) = {} /\ InterfacesOf(t, o) = {}
       BY <1>8, <1>14, InterfacesAreAgents DEF NodeExecutions
<1>16. FailedInterfaces(t, o) = {} /\ Undecided(t, o) = {}
       BY <1>14, <1>15 DEF FailedInterfaces, Undecided
<1>17. Refreshed(t, s, o)
       BY <1>1, <1>8, <1>13, <1>15, <1>16, AdvanceRefreshes
<1>18. Calm(s, {})
   <2>1. Calm(s, {o})
         BY <1>8, <1>12, <1>17, CalmStays DEF Refreshed
   <2>. QED BY <1>17, <2>1 DEF Calm, Refreshed
<1>19. Sound(s) /\ Grows(r, s, {})
       BY <1>2, <1>8, <1>17, GrowsTransitive DEF Refreshed, r
<1>. QED BY <1>18, <1>19 DEF Develops, r
-------------------------------------------------------------------------------
(* decide_orchestration_failure *)

\* Who may decide is an agent of a running orchestration, as what it decides about is.
LEMMA DeciderIs ==
    ASSUME Sound(runtime), NEW d, NEW f, MayDecide(d, f), NEW o, o = ParentOf(runtime, d)
    PROVE  /\ o \in Orchestrations(runtime) /\ StateOf(runtime, o) = "Running" /\ o # None
           /\ f \in Known(runtime) /\ StateOf(runtime, f) = "Failed" /\ ParentOf(runtime, f) = o
           /\ ~Decided(runtime, f) /\ f \in DOMAIN runtime.interfaces /\ runtime.interfaces[f] = d
           /\ d \in Known(runtime) /\ runtime.executions[d].kind = "Agent"
           /\ runtime.executions[f].kind = "Agent" /\ StateOf(runtime, d) = "Running"
<1>1. /\ f \in DOMAIN runtime.interfaces /\ runtime.interfaces[f] = d /\ ~Decided(runtime, f)
      /\ StateOf(runtime, d) = "Running" /\ StateOf(runtime, f) = "Failed"
      /\ StateOf(runtime, o) = "Running"
      BY DEF MayDecide, FailedChildFor
<1>2. Interfaced(runtime, f)
      BY <1>1, SoundHas
<1>3. /\ f \in Known(runtime) /\ d \in Known(runtime) /\ ParentOf(runtime, f) = o /\ o # None
      /\ runtime.executions[f].kind = "Agent"
      BY <1>1, <1>2 DEF Interfaced, FailedAgent
<1>4. o \in Orchestrations(runtime)
      BY <1>3, SoundHas DEF Placed, ParentOf, Orchestrations
<1>5. runtime.executions[d].kind = "Agent"
      BY <1>3, <1>4, OrchestrationsAreApart
<1>. QED BY <1>1, <1>3, <1>4, <1>5

\* The decision names the recovery that it is about, if it is about one.
Recovers(r, o, f, kind, recovery) ==
    /\ kind \in {"Continue", "Fail"} => recovery = None
    /\ kind \notin {"Continue", "Fail"} =>
          recovery \in Known(r) /\ recovery > f /\ ParentOf(r, recovery) = o

\* Once it is decided about a failure, the orchestration is refreshed.
LEMMA DecidedDevelops ==
    ASSUME NEW r, NEW q, NEW o \in Orchestrations(r), Sound(r), Calm(r, {}), StateOf(r, o) = "Running",
           Sound(q), Grows(r, q, {}), Apart(r, q, {o}), StateOf(q, o) = "Running",
           NEW f \in Known(q), StateOf(q, f) = "Failed", ~Decided(q, f), ParentOf(q, f) = o,
           NEW kind, NEW recovery, Recovers(q, o, f, kind, recovery),
           NEW decision, decision = [kind |-> kind, execution |-> recovery],
           NEW s, s = Refresh(Decide(q, f, kind, recovery), o)
    PROVE  Develops(r, s) /\ Keeps(q, s) /\ Decided(s, f) /\ s.decisions[f] = decision
<1> DEFINE t == Decide(q, f, kind, recovery)
<1>0. o \in Known(q) /\ q.executions[o].kind = "Orchestration"
      BY DEF Orchestrations, Grows, Keeps, Later
<1>a. t = Decide(q, f, kind, recovery)
      OBVIOUS
<1> HIDE DEF t
<1>1. /\ Sound(t) /\ Grows(q, t, {}) /\ t.executions = q.executions /\ t.interfaces = q.interfaces
      /\ DOMAIN t.decisions = DOMAIN q.decisions \cup {f}
      /\ t.decisions[f] = [kind |-> kind, execution |-> recovery]
  <2>1. kind \notin {"Continue", "Fail"} =>
           recovery \in Known(q) /\ recovery > f /\ ParentOf(q, recovery) = o
        BY DEF Recovers
  <2>2. kind \in {"Continue", "Fail"} => recovery = None
        BY DEF Recovers
  <2>3. /\ Sound(t) /\ Grows(q, t, {}) /\ t.executions = q.executions /\ t.interfaces = q.interfaces
        /\ DOMAIN t.decisions = DOMAIN q.decisions \cup {f}
        /\ t.decisions[f] = [kind |-> kind, execution |-> recovery]
        BY <1>0, <1>a, <2>1, <2>2, DecideGrows
  <2>. QED BY <2>3
<1>2. Apart(q, t, {o})
  <2>1. Known(t) = Known(q)
        BY <1>1 DEF Known
  <2>. QED BY <1>1, <2>1, ApartBy DEF Grows
<1>3. o \in Orchestrations(t) /\ StateOf(t, o) = "Running"
      BY <1>0, <1>1 DEF Orchestrations, Known, StateOf
<1>4. Refreshed(t, s, o)
      BY <1>1, <1>3, <1>a, RefreshRefreshes
<1>5. Apart(r, s, {o})
      BY <1>2, <1>4, ApartTransitive DEF Refreshed
<1>6. Calm(s, {})
  <2>1. Calm(s, {o})
        BY <1>4, <1>5, CalmStays DEF Refreshed, Calm
  <2>. QED BY <1>4, <2>1 DEF Calm, Refreshed
<1>7. Grows(r, s, {}) /\ Grows(q, s, {})
      BY <1>1, <1>4, GrowsTransitive DEF Refreshed
<1>8. Decided(s, f) /\ s.decisions[f] = t.decisions[f]
      BY <1>1, <1>4 DEF Refreshed, Grows, Keeps, Later, Decided
<1>9. Develops(r, s)
      BY <1>4, <1>6, <1>7 DEF Develops, Refreshed
<1>10. Keeps(q, s)
      BY <1>7 DEF Grows
<1>. QED BY <1>1, <1>8, <1>9, <1>10

\* An event that is accepted and changes nothing
LEMMA RecordedGrows ==
    ASSUME NEW r, Sound(r), NEW b, b, NEW q, q = Recorded(r, b)
    PROVE  /\ Sound(q) /\ Grows(r, q, {}) /\ q.executions = r.executions
           /\ q.decisions = r.decisions /\ q.interfaces = r.interfaces
<1>1. Shaped(r)
      BY SoundHas
<1>2. /\ DOMAIN q = RuntimeFields /\ q.executions = r.executions
      /\ q.decisions = r.decisions /\ q.interfaces = r.interfaces /\ q.causes = r.causes
      BY <1>1, RecordedFollows
<1>3. Accepted(r, q)
      BY <1>1, RecordedAccepts
<1>4. Known(q) = Known(r)
      BY <1>2 DEF Known
<1>5. ASSUME NEW g \in DOMAIN q.decisions PROVE Resolved(q, g)
  <2>1. Resolved(r, g)
        BY <1>2, SoundHas
  <2>. QED BY <1>2, <1>4, <2>1 DEF Resolved, FailedAgent, StateOf, ParentOf
<1>6. ASSUME NEW g \in DOMAIN q.interfaces PROVE Interfaced(q, g)
  <2>1. Interfaced(r, g)
        BY <1>2, SoundHas
  <2>. QED BY <1>2, <1>4, <2>1 DEF Interfaced, FailedAgent, StateOf, ParentOf
<1>7. Sound(q) /\ Grows(r, q, {})
      BY <1>2, <1>3, <1>5, <1>6, LinksGrow
<1>. QED BY <1>2, <1>7

\* Continue and Fail
LEMMA ResolveDevelops ==
    ASSUME Sound(runtime), Calm(runtime, {}), NEW d, NEW f, MayDecide(d, f),
           NEW kind \in {"Continue", "Fail"},
           NEW s, s = Refresh(Decide(Recorded(runtime, AcceptsDecider(runtime, f, d)), f, kind, None),
                              ParentOf(runtime, d))
    PROVE  Develops(runtime, s)
<1> DEFINE o == ParentOf(runtime, d)
           q == Recorded(runtime, AcceptsDecider(runtime, f, d))
<1>1. /\ o \in Orchestrations(runtime) /\ StateOf(runtime, o) = "Running" /\ o # None
      /\ f \in Known(runtime) /\ StateOf(runtime, f) = "Failed" /\ ParentOf(runtime, f) = o
      /\ ~Decided(runtime, f) /\ f \in DOMAIN runtime.interfaces /\ runtime.interfaces[f] = d
      /\ d \in Known(runtime) /\ runtime.executions[d].kind = "Agent"
      /\ runtime.executions[f].kind = "Agent" /\ StateOf(runtime, d) = "Running"
      BY DeciderIs
<1>2. AcceptsDecider(runtime, f, d)
      BY <1>1 DEF AcceptsDecider
<1>3. /\ Sound(q) /\ Grows(runtime, q, {}) /\ q.executions = runtime.executions
      /\ q.decisions = runtime.decisions /\ q.interfaces = runtime.interfaces
      BY <1>2, RecordedGrows
<1> HIDE DEF q
<1>4. Known(q) = Known(runtime)
      BY <1>3 DEF Known
<1>9. Apart(runtime, q, {o})
      BY <1>3, <1>4, ApartBy DEF Grows
<1>10. /\ StateOf(q, o) = "Running" /\ f \in Known(q) /\ StateOf(q, f) = "Failed" /\ ~Decided(q, f)
       /\ ParentOf(q, f) = o
       BY <1>1, <1>3, <1>4 DEF StateOf, Decided, ParentOf
<1>11. s = Refresh(Decide(q, f, kind, None), o)
       BY DEF q
<1>13. Recovers(q, o, f, kind, None)
       BY DEF Recovers
<1> DEFINE decision == [kind |-> kind, execution |-> None]
<1>12. decision = [kind |-> kind, execution |-> None]
       OBVIOUS
<1> HIDE DEF o, decision
<1>. QED BY <1>1, <1>3, <1>9, <1>10, <1>11, <1>12, <1>13, DecidedDevelops

\* create_recovery_agent
LEMMA RecoveryGrows ==
    ASSUME Sound(runtime), NEW d, NEW f, MayDecide(d, f), NEW callable \in Delegable,
           NEW o, o = ParentOf(runtime, d), NEW n, n = NextId(runtime), NEW t, t = WithRecovery(d, callable)
    PROVE  /\ Sound(t) /\ Grows(runtime, t, {})
           /\ Known(t) = Known(runtime) \cup {n} /\ n \notin Known(runtime)
           /\ t.decisions = runtime.decisions /\ t.interfaces = runtime.interfaces
           /\ \A e \in Known(runtime) : t.executions[e] = runtime.executions[e]
           /\ ParentOf(t, n) = o /\ t.executions[n].kind = "Agent" /\ StateOf(t, n) = "Pending"
           /\ t.executions[n].node = None /\ t.executions[n].callable = callable
<1>1. o \in Known(runtime) /\ Live(runtime, o) /\ runtime.executions[o].kind = "Orchestration"
      BY DeciderIs DEF Orchestrations, Live, Terminal
<1>2. callable \in Delegates(runtime, o) /\ t = CreateAgent(runtime, o, callable, None)
      BY <1>1 DEF Delegates, WithRecovery
<1>3. /\ Sound(t) /\ Grows(runtime, t, {})
      /\ Known(t) = Known(runtime) \cup {NextId(runtime)} /\ NextId(runtime) \notin Known(runtime)
      /\ t.decisions = runtime.decisions /\ t.interfaces = runtime.interfaces
      /\ \A e \in Known(runtime) : t.executions[e] = runtime.executions[e]
      /\ t.executions[NextId(runtime)] =
            [session |-> runtime.executions[o].session, parent |-> o, kind |-> "Agent",
             callable |-> callable, node |-> None, state |-> "Pending"]
      BY <1>1, <1>2, AgentGrows
<1>. QED BY <1>3 DEF ParentOf, StateOf

\* The recovery takes the place of the failed agent.
LEMMA RecoveredDevelops ==
    ASSUME Sound(runtime), Calm(runtime, {}), NEW d, NEW f, MayDecide(d, f),
           NEW kind \in {"Retry", "ChooseAnotherChild"}, NEW callable \in Delegable,
           NEW t, t = WithRecovery(d, callable),
           NEW q, Sound(q), Grows(t, q, {}), q.executions = t.executions,
           q.decisions = t.decisions, q.interfaces = t.interfaces,
           NEW n, n = NextId(runtime), NEW decision, decision = [kind |-> kind, execution |-> n],
           NEW s, s = Refresh(Decide(q, f, kind, n), ParentOf(runtime, d))
    PROVE  /\ Develops(runtime, s)
           /\ n \in Known(s) /\ ParentOf(s, n) = ParentOf(runtime, f)
           /\ s.executions[n].callable = callable
           /\ Decided(s, f) /\ s.decisions[f] = decision
<1> DEFINE o == ParentOf(runtime, d)
<1>1. /\ o \in Orchestrations(runtime) /\ StateOf(runtime, o) = "Running" /\ o # None
      /\ f \in Known(runtime) /\ StateOf(runtime, f) = "Failed" /\ ParentOf(runtime, f) = o
      /\ ~Decided(runtime, f) /\ f \in DOMAIN runtime.interfaces /\ runtime.interfaces[f] = d
      /\ d \in Known(runtime) /\ runtime.executions[d].kind = "Agent"
      /\ runtime.executions[f].kind = "Agent" /\ StateOf(runtime, d) = "Running"
      BY DeciderIs
<1>2. o \in Known(runtime) /\ Live(runtime, o) /\ runtime.executions[o].kind = "Orchestration"
      BY <1>1 DEF Orchestrations, Live, Terminal
<1>3. n = NextId(runtime) /\ o = ParentOf(runtime, d)
      OBVIOUS
<1>4. /\ Sound(t) /\ Grows(runtime, t, {})
      /\ Known(t) = Known(runtime) \cup {n} /\ n \notin Known(runtime)
      /\ t.decisions = runtime.decisions /\ t.interfaces = runtime.interfaces
      /\ \A e \in Known(runtime) : t.executions[e] = runtime.executions[e]
      /\ ParentOf(t, n) = o /\ t.executions[n].kind = "Agent" /\ StateOf(t, n) = "Pending"
      /\ t.executions[n].node = None /\ t.executions[n].callable = callable
  <2> HIDE DEF o
  <2>. QED BY <1>3, RecoveryGrows
<1>5. IsLatest(t, n) /\ \A e \in Known(runtime) : n > e
      BY <1>4, NewestIsLatest
<1>6. /\ ParentOf(t, n) = o /\ t.executions[n].kind = "Agent" /\ StateOf(t, n) = "Pending"
      /\ t.executions[n].node = None /\ n \in Known(t) /\ n \notin Known(runtime)
      BY <1>4
<1>13. n = NextId(runtime) /\ Sound(t) /\ Grows(runtime, t, {})
       /\ Known(t) = Known(runtime) \cup {n}
       /\ t.decisions = runtime.decisions /\ t.interfaces = runtime.interfaces
       /\ \A e \in Known(runtime) : t.executions[e] = runtime.executions[e]
       BY <1>4
<1>14. Known(q) = Known(t)
       BY DEF Known
<1>17. Grows(runtime, q, {})
       BY <1>13, GrowsTransitive
<1>18. Apart(runtime, q, {o})
   <2>1. \A e \in Known(runtime) : q.executions[e] = runtime.executions[e]
         BY <1>13
   <2>2. \A e \in Known(q) \ Known(runtime) :
            ParentOf(q, e) = o /\ q.executions[e].kind # "Orchestration"
         BY <1>6, <1>13, <1>14 DEF ParentOf
   <2>3. q.decisions = runtime.decisions /\ q.interfaces = runtime.interfaces
         BY <1>13
   <2>. QED BY <1>17, <2>1, <2>2, <2>3, ApartBy DEF Grows
<1>19. /\ StateOf(q, o) = "Running" /\ f \in Known(q) /\ StateOf(q, f) = "Failed" /\ ~Decided(q, f)
       /\ ParentOf(q, f) = o
       BY <1>1, <1>2, <1>13, <1>14 DEF StateOf, Decided, ParentOf
<1>20. n \in Known(q) /\ n > f /\ ParentOf(q, n) = o
       BY <1>1, <1>5, <1>6, <1>14 DEF ParentOf
<1>21. s = Refresh(Decide(q, f, kind, n), o)
       BY <1>13
<1>22. Recovers(q, o, f, kind, n)
       BY <1>20 DEF Recovers
<1> HIDE DEF o
<1>23. o \in Orchestrations(runtime) /\ StateOf(runtime, o) = "Running" /\ Sound(q)
       BY <1>1
<1>24. /\ Develops(runtime, s) /\ Keeps(q, s)
       /\ Decided(s, f) /\ s.decisions[f] = decision
       BY <1>17, <1>18, <1>19, <1>21, <1>22, <1>23, DecidedDevelops
<1>25. n \in Known(s) /\ ParentOf(s, n) = o /\ s.executions[n].callable = callable
   <2>1. q.executions[n].callable = callable
         BY <1>4
   <2>2. n \in Known(s) /\ ParentOf(s, n) = ParentOf(q, n)
         BY <1>20, <1>24 DEF Keeps, Later
   <2>3. s.executions[n].callable = q.executions[n].callable
         BY <1>20, <1>24 DEF Keeps
   <2>. QED BY <1>20, <2>1, <2>2, <2>3
<1>. QED BY <1>1, <1>13, <1>24, <1>25

\* The recovery is acceptable.
LEMMA RecoveryAccepted ==
    ASSUME Sound(runtime), NEW d, NEW f, MayDecide(d, f), NEW callable \in Delegable
    PROVE  /\ AcceptsDecider(WithRecovery(d, callable), f, d)
           /\ AcceptsRecovery(WithRecovery(d, callable), f, NextId(runtime))
           /\ Sound(WithRecovery(d, callable))
<1> DEFINE o == ParentOf(runtime, d)
           n == NextId(runtime)
           t == WithRecovery(d, callable)
<1>1. /\ o \in Orchestrations(runtime) /\ StateOf(runtime, o) = "Running" /\ o # None
      /\ f \in Known(runtime) /\ StateOf(runtime, f) = "Failed" /\ ParentOf(runtime, f) = o
      /\ ~Decided(runtime, f) /\ f \in DOMAIN runtime.interfaces /\ runtime.interfaces[f] = d
      /\ d \in Known(runtime) /\ runtime.executions[d].kind = "Agent"
      /\ runtime.executions[f].kind = "Agent" /\ StateOf(runtime, d) = "Running"
      BY DeciderIs
<1>2. o \in Known(runtime) /\ Live(runtime, o) /\ runtime.executions[o].kind = "Orchestration"
      BY <1>1 DEF Orchestrations, Live, Terminal
<1>3. n = NextId(runtime) /\ t = WithRecovery(d, callable) /\ o = ParentOf(runtime, d)
      OBVIOUS
<1>4. /\ Sound(t) /\ Grows(runtime, t, {})
      /\ Known(t) = Known(runtime) \cup {n} /\ n \notin Known(runtime)
      /\ t.decisions = runtime.decisions /\ t.interfaces = runtime.interfaces
      /\ \A e \in Known(runtime) : t.executions[e] = runtime.executions[e]
      /\ ParentOf(t, n) = o /\ t.executions[n].kind = "Agent" /\ StateOf(t, n) = "Pending"
      /\ t.executions[n].node = None /\ t.executions[n].callable = callable
  <2> HIDE DEF n, t, o
  <2>. QED BY <1>3, RecoveryGrows
<1>5. IsLatest(t, n) /\ \A e \in Known(runtime) : n > e
      BY <1>4, NewestIsLatest
<1>6. /\ ParentOf(t, n) = o /\ t.executions[n].kind = "Agent" /\ StateOf(t, n) = "Pending"
      /\ t.executions[n].node = None /\ n \in Known(t) /\ n \notin Known(runtime)
      BY <1>4
<1>7. AcceptsDecider(t, f, d)
      BY <1>1, <1>4 DEF AcceptsDecider, ParentOf, StateOf
<1>8. AcceptsRecovery(t, f, n)
  <2>1. FreshAgentOf(t, ParentOf(t, f), n)
        BY <1>1, <1>4, <1>5, <1>6 DEF FreshAgentOf, ParentOf
  <2>2. \A g \in DOMAIN t.interfaces : t.interfaces[g] # n
        BY <1>4, <1>6, SoundHas DEF Interfaced
  <2>3. \A g \in DOMAIN t.decisions : t.decisions[g].execution # n
    <3>1. n # None
          BY <1>4, <1>6, SoundHas
    <3>2. \A g \in DOMAIN runtime.decisions :
             runtime.decisions[g].execution = None \/ runtime.decisions[g].execution \in Known(runtime)
          BY SoundHas DEF Resolved
    <3>. QED BY <1>4, <1>6, <3>1, <3>2
  <2>. QED BY <2>1, <2>2, <2>3 DEF AcceptsRecovery
<1>. QED BY <1>4, <1>7, <1>8

\* n has taken the place of f.
Recovered(r, s, f, n, callable, decision) ==
    /\ Develops(r, s) /\ n \in Known(s) /\ ParentOf(s, n) = ParentOf(r, f)
    /\ s.executions[n].callable = callable /\ Decided(s, f) /\ s.decisions[f] = decision

\* Retry and ChooseAnotherChild
LEMMA RecoverDevelops ==
    ASSUME Sound(runtime), Calm(runtime, {}), NEW d, NEW f, NEW kind \in {"Retry", "ChooseAnotherChild"},
           NEW callable, NEW backed, Recover(d, f, kind, callable, backed), backed,
           NEW n, n = NextId(runtime), NEW decision, decision = [kind |-> kind, execution |-> n]
    PROVE  Recovered(runtime, runtime', f, n, callable, decision)
<1> DEFINE t == WithRecovery(d, callable)
           accepted == AcceptsDecider(t, f, d) /\ AcceptsRecovery(t, f, n) /\ backed
           q == Recorded(t, accepted)
<1>1. MayDecide(d, f) /\ callable \in Delegable
      BY DEF Recover
<1>2. runtime' = Refresh(Decide(q, f, kind, n), ParentOf(runtime, d))
      BY DEF Recover, Commit
<1>3. accepted /\ Sound(t)
      BY <1>1, RecoveryAccepted
<1>4. t = WithRecovery(d, callable)
      OBVIOUS
<1>5. /\ Sound(q) /\ Grows(t, q, {}) /\ q.executions = t.executions
      /\ q.decisions = t.decisions /\ q.interfaces = t.interfaces
  <2> HIDE DEF accepted, t
  <2>. QED BY <1>3, RecordedGrows
<1> HIDE DEF t, q
<1>. QED BY <1>1, <1>2, <1>4, <1>5, RecoveredDevelops DEF Recovered
-------------------------------------------------------------------------------
(* Attempts. *)

\* An attempt group
Groups == [attempts : Seq(Int), failures : Seq(Int)]

\* What g says of its attempts is so, and they are of one piece of work.
Chain(r, g) ==
    LET tried == g.attempts IN
    /\ Len(tried) >= 2 /\ g.failures = Front(tried)
    /\ \A k \in 1 .. Len(tried) :
          /\ tried[k] \in Known(r) /\ ParentOf(r, tried[k]) = ParentOf(r, tried[1])
          /\ r.executions[tried[k]].callable = r.executions[tried[1]].callable
    /\ \A k \in 1 .. Len(tried) - 1 :
          /\ StateOf(r, tried[k]) = "Failed" /\ Decided(r, tried[k])
          /\ r.decisions[tried[k]] = [kind |-> "Retry", execution |-> tried[k + 1]]

\* No execution is in two groups.
Separate(G) ==
    \A i, j \in DOMAIN G : i # j => ToSet(G[i].attempts) \cap ToSet(G[j].attempts) = {}

Chains(r, G) == G \in Seq(Groups) /\ (\A i \in DOMAIN G : Chain(r, G[i])) /\ Separate(G)

\* All of a sequence but its last
LEMMA FrontIs ==
    ASSUME NEW s \in Seq(Int), Len(s) >= 1
    PROVE  /\ Front(s) \in Seq(Int) /\ Len(Front(s)) = Len(s) - 1
           /\ \A k \in 1 .. Len(s) - 1 : Front(s)[k] = s[k]
<1>1. /\ SubSeq(s, 1, Len(s) - 1) \in Seq(Int)
      /\ Len(SubSeq(s, 1, Len(s) - 1)) = IF 1 <= Len(s) - 1 THEN Len(s) - 1 - 1 + 1 ELSE 0
      /\ \A i \in 1 .. Len(s) - 1 - 1 + 1 : SubSeq(s, 1, Len(s) - 1)[i] = s[1 + i - 1]
  <2>1. Len(s) \in Nat /\ \A i \in 1 .. Len(s) : s[i] \in Int
        OBVIOUS
  <2>. QED BY <2>1, SubSeqProperties
<1>2. Len(s) \in Nat /\ Len(s) - 1 - 1 + 1 = Len(s) - 1 /\ (~(1 <= Len(s) - 1) => 0 = Len(s) - 1)
  <2> DEFINE n == Len(s)
  <2>1. n \in Nat /\ n >= 1
        OBVIOUS
  <2> HIDE DEF n
  <2>2. n - 1 - 1 + 1 = n - 1 /\ (~(1 <= n - 1) => 0 = n - 1)
        BY <2>1
  <2>. QED BY <2>1, <2>2 DEF n
<1>3. Front(s) = SubSeq(s, 1, Len(s) - 1)
      BY DEF Front
<1>4. Front(s) \in Seq(Int) /\ Len(Front(s)) = Len(s) - 1
      BY <1>1, <1>2, <1>3
<1>5. ASSUME NEW k \in 1 .. Len(s) - 1 PROVE Front(s)[k] = s[k]
  <2>1. 1 + k - 1 = k
        OBVIOUS
  <2>. QED BY <1>1, <1>2, <1>3, <2>1
<1>. QED BY <1>4, <1>5

\* The front and the last make the sequence.
LEMMA FrontAndLast ==
    ASSUME NEW s \in Seq(Int), Len(s) >= 1
    PROVE  Append(Front(s), Last(s)) = s /\ Last(s) \in Int
<1>1. /\ Front(s) \in Seq(Int) /\ Len(Front(s)) = Len(s) - 1
      /\ \A k \in 1 .. Len(s) - 1 : Front(s)[k] = s[k]
      BY FrontIs
<1>2. Last(s) = s[Len(s)] /\ Last(s) \in Int
      BY DEF Last
<1> DEFINE t == Append(Front(s), Last(s))
<1>3. /\ t \in Seq(Int) /\ Len(t) = Len(s) /\ t[Len(s)] = Last(s)
      /\ \A k \in 1 .. Len(s) - 1 : t[k] = Front(s)[k]
      BY <1>1, <1>2
<1> HIDE DEF t
<1>4. ASSUME NEW k \in 1 .. Len(s) PROVE t[k] = s[k]
  <2>1. k = Len(s) \/ k \in 1 .. Len(s) - 1
        OBVIOUS
  <2>. QED BY <1>1, <1>2, <1>3, <2>1
<1>5. t = s
      BY <1>3, <1>4, SeqEqual
<1>. QED BY <1>2, <1>5 DEF t

\* An append leaves what was there.
LEMMA AppendIs ==
    ASSUME NEW s \in Seq(Int), NEW x \in Int, NEW t, t = Append(s, x)
    PROVE  /\ t \in Seq(Int) /\ Len(t) = Len(s) + 1 /\ t[Len(s) + 1] = x
           /\ \A k \in 1 .. Len(s) : t[k] = s[k]
           /\ Front(t) = s /\ Last(t) = x
<1>1. /\ t \in Seq(Int) /\ Len(t) = Len(s) + 1 /\ t[Len(s) + 1] = x
      /\ \A k \in 1 .. Len(s) : t[k] = s[k]
      OBVIOUS
<1>2. /\ Front(t) \in Seq(Int) /\ Len(Front(t)) = Len(s)
      /\ \A k \in 1 .. Len(s) : Front(t)[k] = s[k]
  <2>1. Len(s) \in Nat /\ Len(t) >= 1 /\ Len(t) - 1 = Len(s)
        BY <1>1
  <2>2. /\ Front(t) \in Seq(Int) /\ Len(Front(t)) = Len(t) - 1
        /\ \A k \in 1 .. Len(t) - 1 : Front(t)[k] = t[k]
        BY <1>1, <2>1, FrontIs
  <2>. QED BY <1>1, <2>1, <2>2
<1>3. Front(t) = s
      BY <1>2, SeqEqual
<1>. QED BY <1>1, <1>3 DEF Last

\* n has joined the group of f, or opened one with it.
Extended(G, f, n) ==
    \E i \in DOMAIN G :
        LET tried == G[i].attempts IN
        /\ \A j \in DOMAIN G \ {i} : j \in DOMAIN attempts /\ G[j] = attempts[j]
        /\ Len(tried) >= 2 /\ G[i].failures = Front(tried)
        /\ tried[Len(tried)] = n /\ tried[Len(tried) - 1] = f
        /\ \A k \in 1 .. Len(tried) - 1 :
              /\ tried[k] \in Known(runtime) /\ ParentOf(runtime, tried[k]) = ParentOf(runtime, f)
              /\ runtime.executions[tried[k]].callable = runtime.executions[f].callable
        /\ \A k \in 1 .. Len(tried) - 2 :
              /\ StateOf(runtime, tried[k]) = "Failed" /\ Decided(runtime, tried[k])
              /\ runtime.decisions[tried[k]] = [kind |-> "Retry", execution |-> tried[k + 1]]

\* The groups after a retry (create_retry_recovery)
LEMMA RetryExtends ==
    ASSUME Sound(runtime), Chains(runtime, attempts), NEW f \in Known(runtime), ~Decided(runtime, f),
           NEW n \in Int, n \notin Known(runtime),
           \A i \in GroupsOf(f) : Last(attempts[i].attempts) = f,
           NEW G, G = WithRetry(f, n)
    PROVE  G \in Seq(Groups) /\ Separate(G) /\ Extended(G, f, n)
<1>0. f \in Int /\ \A e \in Known(runtime) : e \in Int
      BY SoundHas
<1>1. /\ attempts \in Seq(Groups) /\ DOMAIN attempts = 1 .. Len(attempts) /\ Len(attempts) \in Nat
      /\ \A i \in DOMAIN attempts : attempts[i] \in Groups /\ Chain(runtime, attempts[i])
      BY DEF Chains
<1>2. \A g \in Groups : /\ g.attempts \in Seq(Int) /\ g.failures \in Seq(Int)
                        /\ DOMAIN g.attempts = 1 .. Len(g.attempts) /\ Len(g.attempts) \in Nat
      BY DEF Groups
<1>3. \A i \in DOMAIN attempts : ToSet(attempts[i].attempts) \subseteq Known(runtime)
      BY <1>1, <1>2 DEF Chain, ToSet
<1>4. \A i \in DOMAIN attempts : i \in GroupsOf(f) <=> f \in ToSet(attempts[i].attempts)
      BY <1>1, <1>2 DEF GroupsOf, Contains, ToSet
<1>5. CASE GroupsOf(f) = {}
  <2> DEFINE g == [attempts |-> <<f, n>>, failures |-> <<f>>]
             m == Len(attempts) + 1
  <2>1. g \in Groups /\ g.attempts = <<f, n>> /\ g.failures = <<f>>
        BY <1>0 DEF Groups
  <2>2. G = Append(attempts, g)
        BY <1>5 DEF WithRetry
  <2>3. /\ g.attempts \in Seq(Int) /\ Len(g.attempts) = 2 /\ g.attempts[1] = f /\ g.attempts[2] = n
        /\ ToSet(g.attempts) = {f, n}
        BY <1>0, <2>1 DEF ToSet
  <2>4. Front(g.attempts) = g.failures
    <3> DEFINE s == <<f>>
               t == <<f, n>>
    <3>1. s \in Seq(Int) /\ t = Append(s, n)
          BY <1>0
    <3>2. g.attempts = t /\ g.failures = s
          BY <2>1
    <3> HIDE DEF s, t
    <3>. QED BY <3>1, <3>2, AppendIs
  <2> HIDE DEF g
  <2>5. /\ G \in Seq(Groups) /\ DOMAIN G = 1 .. m /\ G[m] = g /\ m \in DOMAIN G
        /\ \A j \in DOMAIN G \ {m} : j \in DOMAIN attempts /\ G[j] = attempts[j]
        BY <1>1, <2>1, <2>2
  <2> HIDE DEF m
  <2>6. \A j \in DOMAIN G \ {m} : ToSet(G[j].attempts) \cap {f, n} = {}
        BY <1>3, <1>4, <1>5, <2>5
  <2>7. Separate(G)
    <3> SUFFICES ASSUME NEW j \in DOMAIN G, NEW k \in DOMAIN G, j # k
                 PROVE  ToSet(G[j].attempts) \cap ToSet(G[k].attempts) = {}
        BY DEF Separate
    <3>1. CASE j # m /\ k # m
          BY <2>5, <3>1 DEF Chains, Separate
    <3>2. CASE j = m \/ k = m
          BY <2>3, <2>5, <2>6, <3>2
    <3>. QED BY <3>1, <3>2
  <2>8. Extended(G, f, n)
    <3>1. /\ Len(g.attempts) >= 2 /\ g.attempts[Len(g.attempts)] = n
          /\ g.attempts[Len(g.attempts) - 1] = f
          /\ \A k \in 1 .. Len(g.attempts) - 1 : g.attempts[k] = f
          /\ 1 .. Len(g.attempts) - 2 = {}
          BY <2>3
    <3>. QED BY <2>4, <2>5, <3>1 DEF Extended
  <2>. QED BY <2>5, <2>7, <2>8
<1>6. CASE GroupsOf(f) # {}
  <2> DEFINE i == CHOOSE j \in GroupsOf(f) : TRUE
             h == attempts[i]
             tried == h.attempts
             new == Append(tried, n)
  <2>1. i \in GroupsOf(f) /\ i \in DOMAIN attempts
        BY <1>6 DEF GroupsOf
  <2>2. /\ h \in Groups /\ tried \in Seq(Int) /\ Len(tried) \in Nat /\ Len(tried) >= 2
        /\ h.failures = Front(tried) /\ Last(tried) = f
        /\ \A k \in 1 .. Len(tried) :
              /\ tried[k] \in Known(runtime) /\ ParentOf(runtime, tried[k]) = ParentOf(runtime, tried[1])
              /\ runtime.executions[tried[k]].callable = runtime.executions[tried[1]].callable
        /\ \A k \in 1 .. Len(tried) - 1 :
              /\ StateOf(runtime, tried[k]) = "Failed" /\ Decided(runtime, tried[k])
              /\ runtime.decisions[tried[k]] = [kind |-> "Retry", execution |-> tried[k + 1]]
        BY <1>1, <1>2, <2>1 DEF Chain
  <2>3. G = [attempts EXCEPT
               ![i].failures = IF Contains(@, f) THEN @ ELSE Append(@, f),
               ![i].attempts = Append(@, n)]
        BY <1>6 DEF WithRetry
  <2> HIDE DEF i
  <2>4. /\ DOMAIN G = DOMAIN attempts /\ \A j \in DOMAIN attempts \ {i} : G[j] = attempts[j]
        /\ G[i] = [h EXCEPT !.failures = IF Contains(@, f) THEN @ ELSE Append(@, f),
                             !.attempts = Append(@, n)]
        BY <2>1, <2>3
  <2>a. tried = h.attempts /\ new = Append(tried, n)
        OBVIOUS
  <2> HIDE DEF h, tried, new
  <2>5. /\ Front(tried) \in Seq(Int) /\ Len(Front(tried)) = Len(tried) - 1
        /\ \A k \in 1 .. Len(tried) - 1 : Front(tried)[k] = tried[k]
        BY <2>2, FrontIs
  <2>6. ~Contains(h.failures, f)
        BY <2>2, <2>5 DEF Contains
  <2>7. Append(h.failures, f) = tried
        BY <2>2, FrontAndLast
  <2>8. DOMAIN h = {"attempts", "failures"}
        BY <2>2 DEF Groups
  <2>9. G[i].failures = tried /\ G[i].attempts = new /\ DOMAIN G[i] = {"attempts", "failures"}
        BY <2>4, <2>6, <2>7, <2>8, <2>a
  <2>10. /\ new \in Seq(Int) /\ Len(new) = Len(tried) + 1 /\ new[Len(tried) + 1] = n
         /\ \A k \in 1 .. Len(tried) : new[k] = tried[k]
         /\ Front(new) = tried
     <3>1. tried \in Seq(Int) /\ n \in Int /\ new = Append(tried, n)
           BY <2>2, <2>a
     <3>2. Front(new) = tried
           BY <3>1, AppendIs
     <3>. QED BY <3>1, <3>2
  <2>11. G \in Seq(Groups)
     <3>1. G[i] \in Groups
       <4>1. G[i] = [attempts |-> G[i].attempts, failures |-> G[i].failures]
             BY <2>4, <2>8
       <4>. QED BY <2>2, <2>9, <2>10, <4>1 DEF Groups
     <3>2. \A j \in 1 .. Len(attempts) : G[j] \in Groups
           BY <1>1, <2>4, <3>1
     <3>3. G = [j \in 1 .. Len(attempts) |-> G[j]]
           BY <1>1, <2>3
     <3>. QED BY <1>1, <3>2, <3>3
  <2>12. ToSet(new) \subseteq ToSet(tried) \cup {n} /\ ToSet(tried) \subseteq Known(runtime)
     <3>1. DOMAIN new = 1 .. Len(tried) + 1 /\ DOMAIN tried = 1 .. Len(tried)
           BY <2>2, <2>10
     <3>2. \A k \in 1 .. Len(tried) + 1 : k \in 1 .. Len(tried) \/ k = Len(tried) + 1
           BY <2>2
     <3>. QED BY <2>2, <2>10, <3>1, <3>2 DEF ToSet
  <2>13. Separate(G)
     <3>1. \A j \in DOMAIN attempts \ {i} :
              ToSet(attempts[j].attempts) \cap ToSet(tried) = {} /\ n \notin ToSet(attempts[j].attempts)
           BY <1>3, <2>1 DEF Chains, Separate, tried, h
     <3> SUFFICES ASSUME NEW j \in DOMAIN attempts, NEW k \in DOMAIN attempts, j # k
                  PROVE  ToSet(G[j].attempts) \cap ToSet(G[k].attempts) = {}
         BY <2>4 DEF Separate
     <3>2. CASE j # i /\ k # i
           BY <2>4, <3>2 DEF Chains, Separate
     <3>3. \A l \in DOMAIN attempts \ {i} : ToSet(attempts[l].attempts) \cap ToSet(new) = {}
           BY <2>12, <3>1
     <3>4. CASE j = i
           BY <2>4, <2>9, <3>3, <3>4
     <3>5. CASE k = i
           BY <2>4, <2>9, <3>3, <3>5
     <3>. QED BY <3>2, <3>4, <3>5
  <2>14. Extended(G, f, n)
     <3>0. Len(new) - 1 = Len(tried) /\ Len(new) - 2 = Len(tried) - 1 /\ Len(new) >= 2
           BY <2>2, <2>10
     <3>a. Len(tried) \in 1 .. Len(tried) /\ 1 \in 1 .. Len(tried) /\ tried[Len(tried)] = f
           BY <2>2 DEF Last
     <3>1. new[Len(new)] = n /\ new[Len(new) - 1] = f
           BY <2>10, <3>0, <3>a
     <3>2. \A k \in 1 .. Len(tried) :
              /\ new[k] \in Known(runtime) /\ ParentOf(runtime, new[k]) = ParentOf(runtime, f)
              /\ runtime.executions[new[k]].callable = runtime.executions[f].callable
       <4>1. /\ ParentOf(runtime, f) = ParentOf(runtime, tried[1])
             /\ runtime.executions[f].callable = runtime.executions[tried[1]].callable
             BY <2>2, <3>a
       <4>2. ASSUME NEW k \in 1 .. Len(tried)
             PROVE  /\ new[k] \in Known(runtime) /\ ParentOf(runtime, new[k]) = ParentOf(runtime, f)
                    /\ runtime.executions[new[k]].callable = runtime.executions[f].callable
         <5>1. new[k] = tried[k]
               BY <2>10
         <5>. QED BY <2>2, <4>1, <5>1
       <4>. QED BY <4>2
     <3>3. \A k \in 1 .. Len(tried) - 1 :
              /\ StateOf(runtime, new[k]) = "Failed" /\ Decided(runtime, new[k])
              /\ runtime.decisions[new[k]] = [kind |-> "Retry", execution |-> new[k + 1]]
       <4> SUFFICES ASSUME NEW k \in 1 .. Len(tried) - 1
                    PROVE  /\ StateOf(runtime, new[k]) = "Failed" /\ Decided(runtime, new[k])
                           /\ runtime.decisions[new[k]] = [kind |-> "Retry", execution |-> new[k + 1]]
           OBVIOUS
       <4>1. k \in 1 .. Len(tried) /\ k + 1 \in 1 .. Len(tried)
             BY <2>2
       <4>2. new[k] = tried[k] /\ new[k + 1] = tried[k + 1]
             BY <2>10, <4>1
       <4>. QED BY <2>2, <4>2
     <3>4. \A j \in DOMAIN G \ {i} : j \in DOMAIN attempts /\ G[j] = attempts[j]
           BY <2>4
     <3>5. i \in DOMAIN G
           BY <2>1, <2>4
     <3>6. /\ \A k \in 1 .. Len(new) - 1 :
                 /\ new[k] \in Known(runtime) /\ ParentOf(runtime, new[k]) = ParentOf(runtime, f)
                 /\ runtime.executions[new[k]].callable = runtime.executions[f].callable
           /\ \A k \in 1 .. Len(new) - 2 :
                 /\ StateOf(runtime, new[k]) = "Failed" /\ Decided(runtime, new[k])
                 /\ runtime.decisions[new[k]] = [kind |-> "Retry", execution |-> new[k + 1]]
           BY <3>0, <3>2, <3>3
     <3>7. Len(new) >= 2 /\ G[i].failures = Front(new) /\ G[i].attempts = new
           BY <2>9, <2>10, <3>0
     <3>. QED BY <3>1, <3>4, <3>5, <3>6, <3>7 DEF Extended
  <2>. QED BY <2>11, <2>13, <2>14
<1>. QED BY <1>5, <1>6

\* A chain stays one.
LEMMA ChainStays ==
    ASSUME NEW r, NEW s, Keeps(r, s), NEW g \in Groups, Chain(r, g)
    PROVE  Chain(s, g)
<1> DEFINE tried == g.attempts
<1>1. /\ Len(tried) \in Nat /\ Len(tried) >= 2 /\ g.failures = Front(tried)
      /\ \A k \in 1 .. Len(tried) :
            /\ tried[k] \in Known(r) /\ ParentOf(r, tried[k]) = ParentOf(r, tried[1])
            /\ r.executions[tried[k]].callable = r.executions[tried[1]].callable
      /\ \A k \in 1 .. Len(tried) - 1 :
            /\ StateOf(r, tried[k]) = "Failed" /\ Decided(r, tried[k])
            /\ r.decisions[tried[k]] = [kind |-> "Retry", execution |-> tried[k + 1]]
      BY DEF Chain, Groups
<1>2. \A e \in Known(r) : /\ e \in Known(s) /\ ParentOf(s, e) = ParentOf(r, e)
                          /\ s.executions[e].callable = r.executions[e].callable
                          /\ StateOf(r, e) = "Failed" => StateOf(s, e) = "Failed"
                          /\ Decided(r, e) => Decided(s, e) /\ s.decisions[e] = r.decisions[e]
      BY DEF Keeps, Later, Live, Terminal, Decided
<1> HIDE DEF tried
<1>3. 1 \in 1 .. Len(tried) /\ \A k \in 1 .. Len(tried) - 1 : k \in 1 .. Len(tried)
      BY <1>1
<1>4. ASSUME NEW k \in 1 .. Len(tried)
      PROVE  /\ tried[k] \in Known(s) /\ ParentOf(s, tried[k]) = ParentOf(s, tried[1])
             /\ s.executions[tried[k]].callable = s.executions[tried[1]].callable
      BY <1>1, <1>2, <1>3
<1>5. ASSUME NEW k \in 1 .. Len(tried) - 1
      PROVE  /\ StateOf(s, tried[k]) = "Failed" /\ Decided(s, tried[k])
             /\ s.decisions[tried[k]] = [kind |-> "Retry", execution |-> tried[k + 1]]
      BY <1>1, <1>2, <1>3
<1>. QED BY <1>1, <1>4, <1>5 DEF Chain, tried

\* The groups are chains once the retry is decided.
LEMMA ExtendedChains ==
    ASSUME Sound(runtime), Chains(runtime, attempts), NEW f \in Known(runtime), StateOf(runtime, f) = "Failed",
           NEW n, NEW G, G \in Seq(Groups), Separate(G), Extended(G, f, n),
           NEW s, Keeps(runtime, s), n \in Known(s), ParentOf(s, n) = ParentOf(runtime, f),
           s.executions[n].callable = runtime.executions[f].callable,
           Decided(s, f), s.decisions[f] = [kind |-> "Retry", execution |-> n]
    PROVE  Chains(s, G)
<1>0. \A e \in Known(runtime) :
         /\ e \in Known(s) /\ ParentOf(s, e) = ParentOf(runtime, e)
         /\ s.executions[e].callable = runtime.executions[e].callable
         /\ StateOf(runtime, e) = "Failed" => StateOf(s, e) = "Failed"
         /\ Decided(runtime, e) => Decided(s, e) /\ s.decisions[e] = runtime.decisions[e]
      BY DEF Keeps, Later, Live, Terminal, Decided
<1>1. PICK i \in DOMAIN G :
        LET tried == G[i].attempts IN
        /\ \A j \in DOMAIN G \ {i} : j \in DOMAIN attempts /\ G[j] = attempts[j]
        /\ Len(tried) >= 2 /\ G[i].failures = Front(tried)
        /\ tried[Len(tried)] = n /\ tried[Len(tried) - 1] = f
        /\ \A k \in 1 .. Len(tried) - 1 :
              /\ tried[k] \in Known(runtime) /\ ParentOf(runtime, tried[k]) = ParentOf(runtime, f)
              /\ runtime.executions[tried[k]].callable = runtime.executions[f].callable
        /\ \A k \in 1 .. Len(tried) - 2 :
              /\ StateOf(runtime, tried[k]) = "Failed" /\ Decided(runtime, tried[k])
              /\ runtime.decisions[tried[k]] = [kind |-> "Retry", execution |-> tried[k + 1]]
      BY DEF Extended
<1> DEFINE tried == G[i].attempts
<1>2. G[i] \in Groups /\ tried \in Seq(Int) /\ Len(tried) \in Nat
  <2>1. G[i] \in Groups
        OBVIOUS
  <2>. QED BY <2>1 DEF Groups
<1>3. \A j \in DOMAIN G \ {i} : Chain(s, G[j])
  <2>1. \A j \in DOMAIN G \ {i} : G[j] \in Groups /\ Chain(runtime, G[j])
        BY <1>1 DEF Chains
  <2>. QED BY <2>1, ChainStays
<1>4. /\ \A k \in 1 .. Len(tried) - 1 :
            /\ tried[k] \in Known(runtime) /\ ParentOf(runtime, tried[k]) = ParentOf(runtime, f)
            /\ runtime.executions[tried[k]].callable = runtime.executions[f].callable
      /\ \A k \in 1 .. Len(tried) - 2 :
            /\ StateOf(runtime, tried[k]) = "Failed" /\ Decided(runtime, tried[k])
            /\ runtime.decisions[tried[k]] = [kind |-> "Retry", execution |-> tried[k + 1]]
      /\ Len(tried) >= 2 /\ G[i].failures = Front(tried)
      /\ tried[Len(tried)] = n /\ tried[Len(tried) - 1] = f
      BY <1>1
<1> HIDE DEF tried
<1>5. ASSUME NEW k \in 1 .. Len(tried)
      PROVE  /\ tried[k] \in Known(s) /\ ParentOf(s, tried[k]) = ParentOf(runtime, f)
             /\ s.executions[tried[k]].callable = runtime.executions[f].callable
  <2>1. k = Len(tried) \/ k \in 1 .. Len(tried) - 1
        BY <1>2
  <2>2. CASE k = Len(tried)
        BY <1>4, <2>2
  <2>3. CASE k \in 1 .. Len(tried) - 1
        BY <1>0, <1>4, <2>3
  <2>. QED BY <2>1, <2>2, <2>3
<1>6. ASSUME NEW k \in 1 .. Len(tried) - 1
      PROVE  /\ StateOf(s, tried[k]) = "Failed" /\ Decided(s, tried[k])
             /\ s.decisions[tried[k]] = [kind |-> "Retry", execution |-> tried[k + 1]]
  <2>1. k = Len(tried) - 1 \/ k \in 1 .. Len(tried) - 2
        BY <1>2
  <2>2. CASE k = Len(tried) - 1
    <3>1. k + 1 = Len(tried)
          BY <1>2, <2>2
    <3>. QED BY <1>0, <1>4, <2>2, <3>1
  <2>3. CASE k \in 1 .. Len(tried) - 2
        BY <1>0, <1>4, <2>3
  <2>. QED BY <2>1, <2>2, <2>3
<1>7. 1 \in 1 .. Len(tried)
      BY <1>2, <1>4
<1>8. Chain(s, G[i])
  <2>1. \A k \in 1 .. Len(tried) :
           /\ tried[k] \in Known(s) /\ ParentOf(s, tried[k]) = ParentOf(s, tried[1])
           /\ s.executions[tried[k]].callable = s.executions[tried[1]].callable
        BY <1>5, <1>7
  <2>. QED BY <1>4, <1>6, <2>1 DEF Chain, tried
<1>. QED BY <1>3, <1>8 DEF Chains

\* The retry is backed by its attempt group.
LEMMA ExtendedBacks ==
    ASSUME NEW f \in Known(runtime), StateOf(runtime, f) = "Failed", runtime.executions[f].kind = "Agent",
           NEW n, NEW G, G \in Seq(Groups), Separate(G), Extended(G, f, n),
           NEW t, \A e \in Known(runtime) : t.executions[e] = runtime.executions[e],
           t.executions[n].kind = "Agent", StateOf(t, n) = "Pending",
           ParentOf(t, n) = ParentOf(runtime, f),
           t.executions[n].callable = runtime.executions[f].callable
    PROVE  \E g \in ToSet(G) : Contains(g.attempts, f) /\ AcceptsRetry(t, G, g, n)
<1>1. PICK i \in DOMAIN G :
        LET tried == G[i].attempts IN
        /\ \A j \in DOMAIN G \ {i} : j \in DOMAIN attempts /\ G[j] = attempts[j]
        /\ Len(tried) >= 2 /\ G[i].failures = Front(tried)
        /\ tried[Len(tried)] = n /\ tried[Len(tried) - 1] = f
        /\ \A k \in 1 .. Len(tried) - 1 :
              /\ tried[k] \in Known(runtime) /\ ParentOf(runtime, tried[k]) = ParentOf(runtime, f)
              /\ runtime.executions[tried[k]].callable = runtime.executions[f].callable
        /\ \A k \in 1 .. Len(tried) - 2 :
              /\ StateOf(runtime, tried[k]) = "Failed" /\ Decided(runtime, tried[k])
              /\ runtime.decisions[tried[k]] = [kind |-> "Retry", execution |-> tried[k + 1]]
      BY DEF Extended
<1> DEFINE g == G[i]
           tried == g.attempts
<1>2. g \in Groups /\ tried \in Seq(Int) /\ Len(tried) \in Nat /\ g \in ToSet(G)
  <2>1. g \in Groups /\ g \in ToSet(G)
        BY DEF ToSet
  <2>. QED BY <2>1 DEF Groups
<1>3. /\ Len(tried) >= 2 /\ g.failures = Front(tried)
      /\ tried[Len(tried)] = n /\ tried[Len(tried) - 1] = f
      /\ \A k \in 1 .. Len(tried) - 1 :
            /\ tried[k] \in Known(runtime) /\ ParentOf(runtime, tried[k]) = ParentOf(runtime, f)
            /\ runtime.executions[tried[k]].callable = runtime.executions[f].callable
      BY <1>1
<1>4. \A other \in ToSet(G) \ {g} : ToSet(other.attempts) \cap ToSet(g.attempts) = {}
      BY DEF ToSet, Separate
<1>a. tried = g.attempts
      OBVIOUS
<1> HIDE DEF tried, g
<1>5. /\ Front(tried) \in Seq(Int) /\ Len(Front(tried)) = Len(tried) - 1
      /\ \A k \in 1 .. Len(tried) - 1 : Front(tried)[k] = tried[k]
      BY <1>2, <1>3, FrontIs
<1>6. /\ 1 \in 1 .. Len(tried) - 1 /\ Len(tried) - 1 \in 1 .. Len(tried) - 1
      /\ Len(tried) - 1 \in 1 .. Len(tried)
      BY <1>2, <1>3
<1>7. Last(Front(tried)) = f /\ Head(Front(tried)) = tried[1] /\ Last(tried) = n
  <2>1. Last(Front(tried)) = f /\ Last(tried) = n
        BY <1>3, <1>5, <1>6 DEF Last
  <2>2. Head(Front(tried)) = Front(tried)[1]
        BY <1>5, <1>6
  <2>. QED BY <1>5, <1>6, <2>1, <2>2
<1>8. /\ ParentOf(t, tried[1]) = ParentOf(runtime, f)
      /\ t.executions[tried[1]].callable = runtime.executions[f].callable
      BY <1>3, <1>6 DEF ParentOf
<1>9. t.executions[f].kind = "Agent" /\ StateOf(t, f) = "Failed"
      BY DEF StateOf
<1>10. AcceptsRetry(t, G, g, n)
       BY <1>3, <1>4, <1>7, <1>8, <1>9, <1>a DEF AcceptsRetry
<1>11. Contains(g.attempts, f)
       BY <1>3, <1>6, <1>a DEF Contains
<1>. QED BY <1>2, <1>10, <1>11
-------------------------------------------------------------------------------
(* The invariant of the tree. *)

\* What is said of a runtime, but for what it takes to keep it so: what has failed has
\* nothing live below it, nodes ran in order, cancellations are as they are recorded, and
\* no event was refused.
Healthy(r) ==
    /\ \A e \in Known(r) :
          /\ StateOf(r, e) = "Failed" => Extinct(r, e)
          /\ r.executions[e].node # None => DependsOn[r.executions[e].node] \subseteq Done(r, ParentOf(r, e))
          /\ StateOf(r, e) = "Completed" /\ r.executions[e].kind = "Orchestration" => Done(r, e) = Nodes
    /\ \A e \in DOMAIN r.causes :
          /\ Caused(r, e)
          /\ r.causes[e].kind = "ExplicitCancellation" => Extinct(r, r.causes[e].execution)
    /\ ~r.refused

\* Workers are not given orchestrations.
WorkersHaveWork ==
    \A e \in started : e \in Known(runtime) /\ runtime.executions[e].kind # "Orchestration"

TreeInOrder ==
    /\ Sound(runtime) /\ Calm(runtime, {}) /\ Known(runtime) \subseteq Ids
    /\ Healthy(runtime) /\ WorkersHaveWork /\ Chains(runtime, attempts)

\* Health is kept.
LEMMA HealthStays ==
    ASSUME NEW r, NEW s, Sound(r), Sound(s), Grows(r, s, {}), Healthy(r)
    PROVE  Healthy(s)
<1>0. Keeps(r, s) /\ Sprouts(r, s) /\ Ends(r, s, {}) /\ Blames(r, s, {}) /\ Accepted(r, s)
      BY DEF Grows
<1>1. \A e \in Known(r) : /\ e \in Known(s) /\ ParentOf(s, e) = ParentOf(r, e)
                          /\ s.executions[e].node = r.executions[e].node
                          /\ s.executions[e].kind = r.executions[e].kind
      BY <1>0 DEF Keeps, Later
<1>2. ASSUME NEW e \in Known(s), StateOf(s, e) = "Failed" PROVE Extinct(s, e)
  <2>1. CASE e \in Known(r) /\ StateOf(r, e) = "Failed"
    <3>1. Extinct(r, e)
          BY <2>1 DEF Healthy
    <3>. QED BY <1>0, <2>1, <3>1, ExtinctStays
  <2>2. CASE ~(e \in Known(r) /\ StateOf(r, e) = "Failed")
        BY <1>0, <1>2, <2>2 DEF Ends
  <2>. QED BY <2>1, <2>2
<1>3. ASSUME NEW e \in Known(s), s.executions[e].node # None
      PROVE  DependsOn[s.executions[e].node] \subseteq Done(s, ParentOf(s, e))
  <2>1. CASE e \in Known(r)
    <3>1. DependsOn[r.executions[e].node] \subseteq Done(r, ParentOf(r, e))
          BY <1>1, <1>3, <2>1 DEF Healthy
    <3>2. Done(r, ParentOf(r, e)) \subseteq Done(s, ParentOf(r, e))
          BY <1>0, DoneStays
    <3>. QED BY <1>1, <2>1, <3>1, <3>2
  <2>2. CASE e \notin Known(r)
        BY <1>0, <1>3, <2>2 DEF Sprouts
  <2>. QED BY <2>1, <2>2
<1>4. ASSUME NEW e \in Known(s), StateOf(s, e) = "Completed", s.executions[e].kind = "Orchestration"
      PROVE  Done(s, e) = Nodes
  <2>1. CASE e \in Known(r) /\ StateOf(r, e) = "Completed"
    <3>1. Done(r, e) = Nodes
          BY <1>1, <1>4, <2>1 DEF Healthy
    <3>2. Done(r, e) \subseteq Done(s, e) /\ Done(s, e) \subseteq Nodes
          BY <1>0, DoneStays, DoneAreNodes
    <3>. QED BY <3>1, <3>2
  <2>2. CASE ~(e \in Known(r) /\ StateOf(r, e) = "Completed")
        BY <1>0, <1>4, <2>2 DEF Ends
  <2>. QED BY <2>1, <2>2
<1>5. ASSUME NEW e \in DOMAIN s.causes
      PROVE  /\ Caused(s, e)
             /\ s.causes[e].kind = "ExplicitCancellation" => Extinct(s, s.causes[e].execution)
  <2>1. CASE e \in DOMAIN r.causes /\ s.causes[e] = r.causes[e]
    <3>1. Caused(r, e) /\ (r.causes[e].kind = "ExplicitCancellation" => Extinct(r, r.causes[e].execution))
          BY <2>1 DEF Healthy
    <3>2. Caused(s, e) /\ r.causes[e].execution \in Known(r)
          BY <1>0, <2>1, <3>1, CausedStays DEF Caused
    <3>. QED BY <1>0, <2>1, <3>1, <3>2, ExtinctStays
  <2>2. CASE ~(e \in DOMAIN r.causes /\ s.causes[e] = r.causes[e])
        BY <1>0, <2>2 DEF Blames
  <2>. QED BY <2>1, <2>2
<1>6. ~s.refused
      BY <1>0 DEF Accepted, Healthy
<1>. QED BY <1>2, <1>3, <1>4, <1>5, <1>6 DEF Healthy

\* So are attempt groups while they are not added to.
LEMMA ChainsStay ==
    ASSUME NEW r, NEW s, NEW G, Keeps(r, s), Chains(r, G)
    PROVE  Chains(s, G)
<1>1. \A i \in DOMAIN G : G[i] \in Groups /\ Chain(r, G[i])
      BY DEF Chains
<1>2. \A i \in DOMAIN G : Chain(s, G[i])
      BY <1>1, ChainStays
<1>. QED BY <1>2 DEF Chains

\* What an operation within the bounds leaves
LEMMA StepKeeps ==
    ASSUME TreeInOrder, Develops(runtime, runtime'), Cardinality(Known(runtime')) <= MaxExecutions,
           sessions' = sessions, started' = started, Chains(runtime', attempts')
    PROVE  TreeInOrder'
<1>0. /\ Sound(runtime) /\ Sound(runtime') /\ Grows(runtime, runtime', {}) /\ Calm(runtime', {})
      /\ Healthy(runtime)
      BY DEF TreeInOrder, Develops
<1>1. Sound(runtime)'
      BY <1>0 DEF Sound, Placed
<1>2. Known(runtime') \subseteq Ids
      BY <1>0, KnownAreIds DEF Sound
<1>3. Healthy(runtime')
      BY <1>0, HealthStays
<1>4. WorkersHaveWork'
      BY <1>0 DEF TreeInOrder, WorkersHaveWork, Grows, Keeps, Later
<1>. QED BY <1>0, <1>1, <1>2, <1>3, <1>4 DEF TreeInOrder

\* The same for an operation that leaves the attempt groups alone
LEMMA OperationKeeps ==
    ASSUME TreeInOrder, Develops(runtime, runtime'), Cardinality(Known(runtime')) <= MaxExecutions,
           UNCHANGED <<sessions, attempts, started>>
    PROVE  TreeInOrder'
<1>1. Chains(runtime', attempts)
      BY ChainsStay DEF TreeInOrder, Develops, Grows
<1>2. Chains(runtime', attempts')
      BY <1>1
<1>. QED BY <1>2, StepKeeps

\* Requests of clients
LEMMA RequestKeeps ==
    ASSUME TreeInOrder, NEW s \in Sessions, Submit(s) \/ StartSessionOrchestration(s)
    PROVE  TreeInOrder' /\ Develops(runtime, runtime')
<1>0. Sound(runtime) /\ Calm(runtime, {})
      BY DEF TreeInOrder
<1>1. CASE Submit(s)
  <2>1. /\ sessions[s] = "Active" /\ UNCHANGED <<sessions, attempts, started>>
        /\ Cardinality(Known(runtime')) <= MaxExecutions
        BY <1>1 DEF Submit, Commit
  <2>2. \/ runtime' = Create(runtime, s, None, "Root", None, None)
        \/ \E c \in Agents : runtime' = Create(runtime, s, None, "Agent", c, None)
        BY <1>1 DEF Submit, Commit
  <2>3. Develops(runtime, runtime')
        BY <1>0, <2>1, <2>2, SubmitDevelops
  <2>. QED BY <2>1, <2>3, OperationKeeps
<1>2. CASE StartSessionOrchestration(s)
  <2>1. /\ sessions[s] = "Active" /\ UNCHANGED <<sessions, attempts, started>>
        /\ Cardinality(Known(runtime')) <= MaxExecutions
        /\ runtime' = Launch(Create(runtime, s, None, "Orchestration", None, None))
        BY <1>2 DEF StartSessionOrchestration, Commit
  <2>2. Develops(runtime, runtime')
        BY <1>0, <2>1, LaunchDevelops
  <2>. QED BY <2>1, <2>2, OperationKeeps
<1>. QED BY <1>1, <1>2

\* start_orchestration
LEMMA StartOrchestrationKeeps ==
    ASSUME TreeInOrder, NEW p \in Known(runtime), StartOrchestration(p)
    PROVE  TreeInOrder' /\ Develops(runtime, runtime')
<1>0. Sound(runtime) /\ Calm(runtime, {})
      BY DEF TreeInOrder
<1> DEFINE ss == runtime.executions[p].session
<1>1. /\ runtime.executions[p].kind = "Root" /\ StateOf(runtime, p) = "Running" /\ sessions[ss] = "Active"
      /\ UNCHANGED <<sessions, attempts, started>>
      /\ Cardinality(Known(runtime')) <= MaxExecutions
      /\ runtime' = Launch(Create(runtime, ss, p, "Orchestration", None, None))
      BY DEF StartOrchestration, Commit
<1>s. ss \in Sessions
      BY <1>0, SoundHas DEF Placed
<1> HIDE DEF ss
<1>2. Live(runtime, p)
      BY <1>1 DEF Live, Terminal
<1>3. Develops(runtime, runtime')
      BY <1>0, <1>1, <1>2, <1>s, LaunchDevelops
<1>. QED BY <1>1, <1>3, OperationKeeps

\* What workers do
LEMMA WorkerKeeps ==
    ASSUME TreeInOrder, NEW e \in Known(runtime),
           \/ Begin(e) \/ FailPreparation(e) \/ Finish(e, "Completed") \/ Finish(e, "Failed")
    PROVE  TreeInOrder' /\ Develops(runtime, runtime')
<1>0. /\ Sound(runtime) /\ Calm(runtime, {}) /\ Known(runtime) \subseteq Ids
      /\ e \in started => runtime.executions[e].kind # "Orchestration"
      BY DEF TreeInOrder, WorkersHaveWork
<1>1. /\ UNCHANGED <<sessions, attempts, started>> /\ Cardinality(Known(runtime')) <= MaxExecutions
      /\ e \in started
      BY DEF Begin, FailPreparation, Finish, Commit
<1>2. CASE Begin(e)
  <2>1. StateOf(runtime, e) = "Pending" /\ runtime' = SetState(runtime, e, "Running")
        BY <1>2 DEF Begin, Commit
  <2>2. Develops(runtime, runtime')
        BY <1>0, <1>1, <2>1, BeginDevelops
  <2>. QED BY <1>1, <2>2, OperationKeeps
<1>3. ASSUME NEW state \in {"Completed", "Failed"}, Live(runtime, e), runtime' = SetState(runtime, e, state)
      PROVE  TreeInOrder' /\ Develops(runtime, runtime')
  <2>1. Develops(runtime, runtime')
        BY <1>0, <1>1, <1>3, EndDevelops
  <2>. QED BY <1>1, <2>1, OperationKeeps
<1>4. CASE FailPreparation(e)
      BY <1>3, <1>4 DEF FailPreparation, Commit, Live, Terminal
<1>5. CASE Finish(e, "Completed")
      BY <1>3, <1>5 DEF Finish, Commit, Live, Terminal
<1>6. CASE Finish(e, "Failed")
      BY <1>3, <1>6 DEF Finish, Commit, Live, Terminal
<1>. QED BY <1>2, <1>4, <1>5, <1>6

\* cancel_execution
LEMMA CancelKeeps ==
    ASSUME TreeInOrder, NEW e \in Known(runtime), Cancel(e)
    PROVE  TreeInOrder' /\ Develops(runtime, runtime') /\ Known(runtime') = Known(runtime)
<1>0. Sound(runtime) /\ Calm(runtime, {}) /\ Known(runtime) \subseteq Ids
      BY DEF TreeInOrder
<1>1. /\ UNCHANGED <<sessions, attempts, started>> /\ Cardinality(Known(runtime')) <= MaxExecutions
      /\ runtime' = CancelSet(runtime, {e} \cup Descendants(runtime, e),
                              [kind |-> "ExplicitCancellation", execution |-> e])
      BY DEF Cancel, Commit
<1>2. Develops(runtime, runtime') /\ Known(runtime') = Known(runtime)
      BY <1>0, <1>1, CancelDevelops
<1>. QED BY <1>1, <1>2, OperationKeeps

\* decide_orchestration_failure
LEMMA DecideKeeps ==
    ASSUME TreeInOrder, NEW d, NEW f, DecideFailure(d, f)
    PROVE  TreeInOrder' /\ Develops(runtime, runtime')
<1>0. Sound(runtime) /\ Calm(runtime, {}) /\ Chains(runtime, attempts)
      BY DEF TreeInOrder
<1> DEFINE n == NextId(runtime)
<1>1. ASSUME NEW kind \in {"Continue", "Fail"}, Resolve(d, f, kind)
      PROVE  TreeInOrder' /\ Develops(runtime, runtime')
  <2>1. /\ UNCHANGED <<sessions, attempts, started>> /\ Cardinality(Known(runtime')) <= MaxExecutions
        /\ MayDecide(d, f)
        /\ runtime' = Refresh(Decide(Recorded(runtime, AcceptsDecider(runtime, f, d)), f, kind, None),
                              ParentOf(runtime, d))
        BY <1>1 DEF Resolve, Commit
  <2>2. Develops(runtime, runtime')
        BY <1>0, <2>1, ResolveDevelops
  <2>. QED BY <2>1, <2>2, OperationKeeps
<1>2. ASSUME NEW c, ChooseAnotherChild(d, f, c)
      PROVE  TreeInOrder' /\ Develops(runtime, runtime')
  <2> DEFINE other == c # runtime.executions[f].callable
             decision == [kind |-> "ChooseAnotherChild", execution |-> n]
  <2>1. /\ Recover(d, f, "ChooseAnotherChild", c, other) /\ attempts' = attempts /\ other
        BY <1>2 DEF ChooseAnotherChild
  <2>2. UNCHANGED <<sessions, attempts, started>> /\ Cardinality(Known(runtime')) <= MaxExecutions
        BY <2>1 DEF Recover, Commit
  <2>3. n = NextId(runtime) /\ decision = [kind |-> "ChooseAnotherChild", execution |-> n]
        OBVIOUS
  <2> HIDE DEF other, n, decision
  <2>4. Recovered(runtime, runtime', f, n, c, decision)
        BY <1>0, <2>1, <2>3, RecoverDevelops
  <2>. QED BY <2>2, <2>4, OperationKeeps DEF Recovered
<1>3. CASE Retry(d, f)
  <2> DEFINE callable == runtime.executions[f].callable
             groups == WithRetry(f, n)
             t == WithRecovery(d, callable)
             backed == \E g \in ToSet(groups) : Contains(g.attempts, f) /\ AcceptsRetry(t, groups, g, n)
             decision == [kind |-> "Retry", execution |-> n]
  <2>1. /\ \A i \in GroupsOf(f) : Last(attempts[i].attempts) = f
        /\ Recover(d, f, "Retry", callable, backed) /\ attempts' = groups
        BY <1>3 DEF Retry
  <2>2. /\ sessions' = sessions /\ started' = started /\ Cardinality(Known(runtime')) <= MaxExecutions
        /\ MayDecide(d, f) /\ callable \in Delegable
        BY <2>1 DEF Recover, Commit
  <2>3. /\ n = NextId(runtime) /\ decision = [kind |-> "Retry", execution |-> n]
        /\ t = WithRecovery(d, callable) /\ groups = WithRetry(f, n)
        OBVIOUS
  <2>4. /\ f \in Known(runtime) /\ StateOf(runtime, f) = "Failed" /\ ~Decided(runtime, f)
        /\ runtime.executions[f].kind = "Agent" /\ ParentOf(runtime, f) = ParentOf(runtime, d)
        BY <1>0, <2>2, DeciderIs
  <2>5. n \in Int /\ n \notin Known(runtime)
        BY <1>0, NextIdIsNew, SoundHas
  <2>6. /\ \A e \in Known(runtime) : t.executions[e] = runtime.executions[e]
        /\ ParentOf(t, n) = ParentOf(runtime, d) /\ t.executions[n].kind = "Agent"
        /\ StateOf(t, n) = "Pending" /\ t.executions[n].callable = callable
    <3> HIDE DEF n, t, callable
    <3>. QED BY <1>0, <2>2, <2>3, RecoveryGrows
  <2>a. callable = runtime.executions[f].callable
        OBVIOUS
  <2> HIDE DEF n, t, groups, callable, decision
  <2>7. groups \in Seq(Groups) /\ Separate(groups) /\ Extended(groups, f, n)
        BY <1>0, <2>1, <2>3, <2>4, <2>5, RetryExtends
  <2>8. backed
        BY <2>4, <2>6, <2>7, <2>a, ExtendedBacks
  <2> HIDE DEF backed
  <2>9. /\ Develops(runtime, runtime')
        /\ n \in Known(runtime') /\ ParentOf(runtime', n) = ParentOf(runtime, f)
        /\ runtime'.executions[n].callable = callable
        /\ Decided(runtime', f) /\ runtime'.decisions[f] = decision
    <3>1. Recover(d, f, "Retry", callable, backed) /\ backed
          BY <2>1, <2>8
    <3>2. n = NextId(runtime) /\ decision = [kind |-> "Retry", execution |-> n]
          BY <2>3
    <3>3. Recovered(runtime, runtime', f, n, callable, decision)
          BY <1>0, <3>1, <3>2, RecoverDevelops
    <3>. QED BY <3>3 DEF Recovered
  <2>10. Chains(runtime', groups)
         BY <1>0, <2>3, <2>4, <2>7, <2>9, <2>a, ExtendedChains DEF Develops, Grows
  <2>. QED BY <2>1, <2>2, <2>9, <2>10, StepKeeps
<1>. QED BY <1>1, <1>2, <1>3 DEF DecideFailure

\* A session is closed when nothing of it is live; a worker takes up what is no
\* orchestration.
LEMMA RestKeeps ==
    ASSUME TreeInOrder,
           \/ \E s \in Sessions : CloseSession(s)
           \/ \E e \in Known(runtime) : Start(e)
           \/ UNCHANGED vars
    PROVE  TreeInOrder'
<1>0. runtime' = runtime /\ attempts' = attempts
      BY DEF CloseSession, Start, vars
<1>1. WorkersHaveWork'
  <2>1. CASE \E s \in Sessions : CloseSession(s)
        BY <1>0, <2>1 DEF CloseSession, TreeInOrder, WorkersHaveWork
  <2>2. CASE \E e \in Known(runtime) : Start(e)
    <3>1. PICK e \in Known(runtime) : Start(e)
          BY <2>2
    <3>2. e # None
          BY SoundHas DEF TreeInOrder
    <3>. QED BY <1>0, <3>1, <3>2 DEF Start, TreeInOrder, WorkersHaveWork, IsOrchestration
  <2>3. CASE UNCHANGED vars
        BY <1>0, <2>3 DEF vars, TreeInOrder, WorkersHaveWork
  <2>. QED BY <2>1, <2>2, <2>3
<1>2. \A e \in Known(runtime) : Live(runtime, e) => sessions'[runtime.executions[e].session] = "Active"
  <2>1. ASSUME sessions' = sessions
        PROVE  \A e \in Known(runtime) :
                  Live(runtime, e) => sessions'[runtime.executions[e].session] = "Active"
        BY <2>1, SoundHas DEF TreeInOrder, Placed
  <2>2. ASSUME NEW s \in Sessions, CloseSession(s)
        PROVE  \A e \in Known(runtime) :
                  Live(runtime, e) => sessions'[runtime.executions[e].session] = "Active"
    <3>1. \A x : x # s => sessions'[x] = sessions[x]
          BY <2>2 DEF CloseSession
    <3>2. \A e \in Known(runtime) : Live(runtime, e) => runtime.executions[e].session # s
          BY <2>2 DEF CloseSession
    <3>3. \A e \in Known(runtime) : Live(runtime, e) => sessions[runtime.executions[e].session] = "Active"
          BY SoundHas DEF TreeInOrder, Placed
    <3>. QED BY <3>1, <3>2, <3>3
  <2>. QED BY <2>1, <2>2 DEF Start, vars
<1>3. Sound(runtime)'
  <2>1. Sound(runtime)
        BY DEF TreeInOrder
  <2>. QED BY <1>0, <1>2, <2>1 DEF Sound, Placed
<1>4. Calm(runtime', {}) /\ Known(runtime') \subseteq Ids /\ Healthy(runtime') /\ Chains(runtime', attempts')
      BY <1>0 DEF TreeInOrder
<1>. QED BY <1>1, <1>3, <1>4 DEF TreeInOrder

LEMMA NextKeeps ==
    ASSUME TreeInOrder, [Next]_vars
    PROVE  TreeInOrder'
<1>1. ASSUME NEW s \in Sessions, Submit(s) \/ StartSessionOrchestration(s) PROVE TreeInOrder'
      BY <1>1, RequestKeeps
<1>2. ASSUME NEW e \in Known(runtime), StartOrchestration(e) PROVE TreeInOrder'
      BY <1>2, StartOrchestrationKeeps
<1>3. ASSUME NEW e \in Known(runtime),
             Begin(e) \/ FailPreparation(e) \/ Finish(e, "Completed") \/ Finish(e, "Failed")
      PROVE  TreeInOrder'
      BY <1>3, WorkerKeeps
<1>4. ASSUME NEW e \in Known(runtime), Cancel(e) PROVE TreeInOrder'
      BY <1>4, CancelKeeps
<1>5. ASSUME NEW d, NEW f, DecideFailure(d, f) PROVE TreeInOrder'
      BY <1>5, DecideKeeps
<1>. QED BY <1>1, <1>2, <1>3, <1>4, <1>5, RestKeeps DEF Next
-------------------------------------------------------------------------------
(* What follows for the tree. *)

\* Before anything was submitted
LEMMA TreeInit ==
    ASSUME Init
    PROVE  TreeInOrder
<1>1. runtime = Fresh /\ attempts = <<>> /\ started = {}
      BY DEF Init, Fresh
<1>2. /\ Shaped(runtime) /\ Known(runtime) = {} /\ DOMAIN runtime.decisions = {}
      /\ DOMAIN runtime.interfaces = {} /\ DOMAIN runtime.causes = {} /\ runtime.refused = FALSE
      BY <1>1, FreshIsShaped DEF Fresh, Known, Empty
<1>3. Sound(runtime)
      BY <1>2 DEF Sound, NodesAreRunOnce
<1>4. Calm(runtime, {}) /\ Healthy(runtime) /\ WorkersHaveWork
      BY <1>1, <1>2 DEF Calm, Orchestrations, Healthy, WorkersHaveWork
<1>5. Chains(runtime, attempts)
      BY <1>1 DEF Chains, Separate
<1>. QED BY <1>2, <1>3, <1>4, <1>5 DEF TreeInOrder

\* The tree stays in order (lib.rs:1660-1740, failure_decisions.rs:120-560): executions are
\* where they belong, recoveries are younger than what they recover and its siblings, running
\* orchestrations have done what they could, and attempts are chains.
THEOREM TreeStaysInOrder == Spec => []TreeInOrder
<1>1. Init => TreeInOrder
      BY TreeInit
<1>2. TreeInOrder /\ [Next]_vars => TreeInOrder'
      BY NextKeeps
<1>. QED BY <1>1, <1>2, PTL DEF Spec

\* A failure takes the subtree with it (set_state, lib.rs:1676).
THEOREM FailuresAreComplete == Spec => []FailureStopsDescendants
<1>1. TreeInOrder => FailureStopsDescendants
      BY DEF TreeInOrder, Healthy, FailureStopsDescendants, Extinct
<1>. QED BY <1>1, TreeStaysInOrder, PTL

\* Every event that an operation records is accepted by the reducer (record_domain_event,
\* lib.rs:531), so that no operation stops halfway.
THEOREM EveryEventIsAccepted == Spec => []NoEventRefused
<1>1. TreeInOrder => NoEventRefused
      BY DEF TreeInOrder, Healthy, NoEventRefused
<1>. QED BY <1>1, TreeStaysInOrder, PTL

\* Recorded cancellations are true and complete (cancel_execution_set, lib.rs:1614).
THEOREM CancellationsAreComplete == Spec => []CancelIsComplete
<1>1. ASSUME TreeInOrder PROVE CancelIsComplete
  <2> SUFFICES ASSUME NEW e \in DOMAIN runtime.causes
               PROVE  LET cause == runtime.causes[e]
                          below == {cause.execution} \cup Descendants(runtime, cause.execution)
                      IN /\ StateOf(runtime, e) = "Cancelled" /\ e \in below
                         /\ cause.kind = "AncestorFailure" =>
                               e # cause.execution /\ StateOf(runtime, cause.execution) = "Failed"
                         /\ cause.kind = "ExplicitCancellation" => \A d \in below : ~Live(runtime, d)
      BY DEF CancelIsComplete
  <2>1. /\ Caused(runtime, e)
        /\ runtime.causes[e].kind = "ExplicitCancellation" => Extinct(runtime, runtime.causes[e].execution)
        BY <1>1 DEF TreeInOrder, Healthy
  <2>. QED BY <2>1 DEF Caused, Extinct
<1>2. TreeInOrder => CancelIsComplete
      BY <1>1
<1>. QED BY <1>2, TreeStaysInOrder, PTL

\* An orchestration runs its nodes once and in order, and completes with all of them
\* (refresh_orchestration and advance_orchestration, failure_decisions.rs:447).
THEOREM OrchestrationsRunAsWritten == Spec => []NodesRunInOrder
<1>1. ASSUME TreeInOrder PROVE NodesRunInOrder
  <2>0. /\ Sound(runtime) /\ NodesAreRunOnce(runtime)
        /\ \A e \in Known(runtime) :
              /\ runtime.executions[e].node # None =>
                    DependsOn[runtime.executions[e].node] \subseteq Done(runtime, ParentOf(runtime, e))
              /\ StateOf(runtime, e) = "Completed" /\ runtime.executions[e].kind = "Orchestration" =>
                    Done(runtime, e) = Nodes
        BY <1>1, SoundHas DEF TreeInOrder, Healthy
  <2> SUFFICES ASSUME NEW o \in Known(runtime), IsOrchestration(runtime, o)
               PROVE  LET NodeOf(e) == runtime.executions[e].node
                          own == {e \in Children(runtime, o) : NodeOf(e) # None}
                          done == {NodeOf(e) : e \in {f \in own : EffectiveState(runtime, f) = "Completed"}}
                      IN /\ IsInjective([e \in own |-> NodeOf(e)])
                         /\ \A e \in own : DependsOn[NodeOf(e)] \subseteq done
                         /\ StateOf(runtime, o) = "Completed" => done = Nodes
      BY DEF NodesRunInOrder
  <2> DEFINE own == {e \in Children(runtime, o) : runtime.executions[e].node # None}
             done == {runtime.executions[e].node :
                        e \in {f \in own : EffectiveState(runtime, f) = "Completed"}}
             runs == [e \in own |-> runtime.executions[e].node]
  <2>1. own = NodeExecutions(runtime, o) /\ done = Done(runtime, o)
        BY DEF NodeExecutions, Done
  <2>2. \A e \in own : e \in Known(runtime) /\ ParentOf(runtime, e) = o
                       /\ runtime.executions[e].node # None
        BY DEF Children
  <2>3. IsInjective(runs)
    <3>1. \A e, f \in own : runs[e] = runs[f] => e = f
          BY <2>0, <2>2 DEF NodesAreRunOnce
    <3>. QED BY <3>1 DEF IsInjective
  <2>4. \A e \in own : DependsOn[runtime.executions[e].node] \subseteq done
        BY <2>0, <2>1, <2>2
  <2>5. StateOf(runtime, o) = "Completed" => done = Nodes
        BY <2>0, <2>1 DEF IsOrchestration
  <2> HIDE DEF done
  <2>. QED BY <2>3, <2>4, <2>5 DEF done
<1>2. TreeInOrder => NodesRunInOrder
      BY <1>1
<1>. QED BY <1>2, TreeStaysInOrder, PTL

\* What counts for an execution that has not ended is a live sibling of it, or itself.
LEMMA EffectiveIsLive ==
    ASSUME NEW r, Sound(r), NEW e \in Known(r), EffectiveState(r, e) \notin Terminal
    PROVE  \E c \in Known(r) : ParentOf(r, c) = ParentOf(r, e) /\ Live(r, c)
<1> DEFINE Shown == {x \in Known(r) : EffectiveState(r, x) \notin Terminal =>
                    \E c \in Known(r) : ParentOf(r, c) = ParentOf(r, x) /\ Live(r, c)}
<1>0. Shaped(r) /\ Leads(r)
      BY SoundHas
<1>1. ASSUME NEW x \in Known(r), \A y \in Known(r) : y > x => y \in Shown
      PROVE  x \in Shown
  <2> SUFFICES ASSUME EffectiveState(r, x) \notin Terminal
               PROVE  \E c \in Known(r) : ParentOf(r, c) = ParentOf(r, x) /\ Live(r, c)
      OBVIOUS
  <2>1. CASE StateOf(r, x) # "Failed"
        BY <1>0, <2>1, EffectiveStep DEF Live
  <2>2. CASE StateOf(r, x) = "Failed"
    <3>1. Decided(r, x) /\ r.decisions[x].kind \notin {"Continue", "Fail"}
          BY <1>0, <2>2, EffectiveStep DEF Terminal
    <3> DEFINE y == r.decisions[x].execution
    <3>2. y \in Known(r) /\ y > x /\ ParentOf(r, y) = ParentOf(r, x)
          BY <3>1, SoundHas DEF Resolved, Decided
    <3>3. EffectiveState(r, y) = EffectiveState(r, x)
          BY <1>0, <2>2, <3>1, EffectiveStep
    <3>. QED BY <1>1, <3>2, <3>3
  <2>. QED BY <2>1, <2>2
<1> HIDE DEF Shown
<1>2. Known(r) \subseteq Shown
      BY <1>0, <1>1, FromTheLatest
<1>. QED BY <1>2 DEF Shown

\* The states of nodes are states.
LEMMA EffectiveIsState ==
    ASSUME NEW r, Sound(r), NEW e \in Known(r)
    PROVE  EffectiveState(r, e) \in States
<1> DEFINE Shown == {x \in Known(r) : EffectiveState(r, x) \in States}
<1>0. Shaped(r) /\ Leads(r) /\ \A x \in Known(r) : StateOf(r, x) \in States
      BY SoundHas DEF Placed, StateOf
<1>1. ASSUME NEW x \in Known(r), \A y \in Known(r) : y > x => y \in Shown
      PROVE  x \in Shown
  <2>1. CASE Decided(r, x) /\ r.decisions[x].kind \notin {"Continue", "Fail"}
    <3>1. r.decisions[x].execution \in Shown
          BY <1>0, <1>1, <2>1 DEF Leads, Decided
    <3>. QED BY <1>0, <2>1, <3>1, EffectiveStep
  <2>2. CASE ~(Decided(r, x) /\ r.decisions[x].kind \notin {"Continue", "Fail"})
        BY <1>0, <2>2, EffectiveStep DEF States
  <2>. QED BY <2>1, <2>2
<1> HIDE DEF Shown
<1>2. Known(r) \subseteq Shown
      BY <1>0, <1>1, FromTheLatest
<1>. QED BY <1>2 DEF Shown

\* A settled orchestration waits for somebody.
LEMMA SettledWaits ==
    ASSUME NEW r, Sound(r), NEW o \in Orchestrations(r), Settled(r, o)
    PROVE  \E c \in Children(r, o) : Live(r, c)
<1>1. CASE Undecided(r, o) # {}
  <2> DEFINE f == FirstInIdOrder(Undecided(r, o))
             i == r.interfaces[f]
  <2>1. f \in DOMAIN r.interfaces /\ Live(r, i)
        BY <1>1 DEF Settled
  <2>2. f \in Children(r, o)
    <3>1. Undecided(r, o) \subseteq Known(r)
          BY DEF Undecided, Children
    <3>2. f \in Undecided(r, o)
          BY <1>1, <3>1, FirstIsIn
    <3>. QED BY <3>2 DEF Undecided
  <2> HIDE DEF f
  <2>3. i \in Known(r) /\ ParentOf(r, i) = o
        BY <2>1, <2>2, SoundHas DEF Interfaced, Children
  <2>. QED BY <2>1, <2>3 DEF Children
<1>2. CASE Undecided(r, o) = {}
  <2> DEFINE S == Nodes \ Done(r, o)
  <2>1. /\ \A e \in NodeExecutions(r, o) : EffectiveState(r, e) \notin {"Failed", "Cancelled", "Interrupted"}
        /\ \A n \in Nodes \ StartedNodes(r, o) : ~(DependsOn[n] \subseteq Done(r, o))
        /\ S \in SUBSET Nodes /\ S # {}
        BY <1>2 DEF Settled
  <2>2. PICK n \in S : DependsOn[n] \cap S = {}
        BY <2>1, RegistrationAssumption
  <2>3. DependsOn[n] \subseteq Nodes
        BY <2>2, DefinitionAssumption
  <2>4. n \in Nodes /\ n \notin Done(r, o) /\ DependsOn[n] \subseteq Done(r, o)
        BY <2>2, <2>3
  <2>5. n \in StartedNodes(r, o)
        BY <2>1, <2>4
  <2>6. PICK e \in NodeExecutions(r, o) : r.executions[e].node = n
        BY <2>5 DEF StartedNodes
  <2>7. e \in Known(r) /\ ParentOf(r, e) = o
        BY <2>6 DEF NodeExecutions, Children
  <2>8. EffectiveState(r, e) # "Completed"
        BY <2>4, <2>6 DEF Done
  <2>9. EffectiveState(r, e) \in States
        BY <2>7, EffectiveIsState
  <2>10. EffectiveState(r, e) \notin Terminal
         BY <2>1, <2>6, <2>8, <2>9 DEF Terminal
  <2>. QED BY <2>7, <2>10, EffectiveIsLive DEF Children
<1>. QED BY <1>1, <1>2

\* A running orchestration always has an agent whose end refreshes it
\* (failure_decisions.rs:447), given that the dependencies of its nodes are acyclic.
THEOREM OrchestrationsNeverStall == Spec => []NoStalledOrchestration
<1>1. ASSUME TreeInOrder PROVE NoStalledOrchestration
  <2> SUFFICES ASSUME NEW o \in Known(runtime), IsOrchestration(runtime, o), Live(runtime, o)
               PROVE  \E c \in Children(runtime, o) : Live(runtime, c)
      BY DEF NoStalledOrchestration
  <2>1. o \in Orchestrations(runtime) /\ Sound(runtime)
        BY <1>1 DEF Orchestrations, IsOrchestration, TreeInOrder
  <2>2. Settled(runtime, o)
        BY <1>1, <2>1 DEF TreeInOrder, Calm
  <2>. QED BY <2>1, <2>2, SettledWaits
<1>2. TreeInOrder => NoStalledOrchestration
      BY <1>1
<1>. QED BY <1>2, TreeStaysInOrder, PTL

\* An attempt group is the history of one piece of work (create_retry_recovery,
\* failure_decisions.rs:200).
THEOREM AttemptsStayChains == Spec => []AttemptsAreChains
<1>1. ASSUME TreeInOrder PROVE AttemptsAreChains
  <2>0. Chains(runtime, attempts)
        BY <1>1 DEF TreeInOrder
  <2> SUFFICES ASSUME NEW i \in DOMAIN attempts
               PROVE  LET tried == attempts[i].attempts IN
                      /\ attempts[i].failures = Front(tried)
                      /\ \A k \in 1 .. Len(tried) - 1 :
                            /\ StateOf(runtime, tried[k]) = "Failed"
                            /\ runtime.decisions[tried[k]] = [kind |-> "Retry", execution |-> tried[k + 1]]
                            /\ runtime.executions[tried[k]].callable = runtime.executions[tried[k + 1]].callable
                            /\ ParentOf(runtime, tried[k]) = ParentOf(runtime, tried[k + 1])
                      /\ \A j \in DOMAIN attempts \ {i} : ToSet(tried) \cap ToSet(attempts[j].attempts) = {}
      BY DEF AttemptsAreChains
  <2> DEFINE tried == attempts[i].attempts
  <2>1. attempts[i] \in Groups /\ Chain(runtime, attempts[i])
        BY <2>0 DEF Chains
  <2>2. /\ Len(tried) \in Nat /\ attempts[i].failures = Front(tried)
        /\ \A k \in 1 .. Len(tried) :
              /\ ParentOf(runtime, tried[k]) = ParentOf(runtime, tried[1])
              /\ runtime.executions[tried[k]].callable = runtime.executions[tried[1]].callable
        /\ \A k \in 1 .. Len(tried) - 1 :
              /\ StateOf(runtime, tried[k]) = "Failed"
              /\ runtime.decisions[tried[k]] = [kind |-> "Retry", execution |-> tried[k + 1]]
        BY <2>1 DEF Chain, Groups
  <2>3. \A j \in DOMAIN attempts \ {i} : ToSet(tried) \cap ToSet(attempts[j].attempts) = {}
        BY <2>0 DEF Chains, Separate
  <2> HIDE DEF tried
  <2>4. \A k \in 1 .. Len(tried) - 1 : k \in 1 .. Len(tried) /\ k + 1 \in 1 .. Len(tried)
        BY <2>2
  <2>5. \A k \in 1 .. Len(tried) - 1 :
           /\ runtime.executions[tried[k]].callable = runtime.executions[tried[k + 1]].callable
           /\ ParentOf(runtime, tried[k]) = ParentOf(runtime, tried[k + 1])
        BY <2>2, <2>4
  <2>. QED BY <2>2, <2>3, <2>5 DEF tried
<1>2. TreeInOrder => AttemptsAreChains
      BY <1>1
<1>. QED BY <1>2, TreeStaysInOrder, PTL
-------------------------------------------------------------------------------
(* Crash and restart. *)

\* The process has a runtime that was loaded.
IsOn == phase \in {"loaded", "up"}

AtWork == {"begun", "running", "calling"}

\* The runtimes in memory and on disk are in order; nothing precedes the first journal.
InOrder ==
    /\ Shaped(runtime) /\ Known(runtime) \subseteq Ids
    /\ \A j \in saved : Shaped(j.runtime) /\ Known(j.runtime) \subseteq Ids
    /\ saved = {} => runtime = Fresh

\* The journal is never ahead of the memory of a process.
JournalIsBehind == IsOn => saved # {} /\ \A j \in saved : Later(j.runtime, runtime)

\* The runtime r answers for the starts of backends x and for what the client was told, a.
AnswersFor(r, x, a) ==
    /\ \A e \in x : e \in Known(r) /\ StateOf(r, e) # "Pending"
    /\ \A p \in a.known : p[1] \in Known(r) /\ r.executions[p[1]].kind = p[2]
    /\ \A e \in a.over : e \in Known(r) /\ ~Live(r, e)

\* So does the journal on disk.
JournalAnswers ==
    /\ DOMAIN acked = {"known", "over"}
    /\ \A j \in saved : AnswersFor(j.runtime, ran, acked)
    /\ saved = {} => ran = {} /\ acked.known = {} /\ acked.over = {}

\* Threads belong to a process that is up.
ThreadsAreUp == DOMAIN worker = Ids /\ (phase # "up" => handling = None /\ worker = NobodyWorks)

\* What the handling is about to acknowledge
ReaderKnows ==
    handling # None =>
        /\ handling.execution \in Known(runtime)
        /\ handling.request = "cancel" => ~Live(runtime, handling.execution)

\* Workers at work have begun.
WorkersKnow ==
    \A e \in Ids : worker[e] \in AtWork => e \in Known(runtime) /\ StateOf(runtime, e) # "Pending"

\* What is running has a worker.
RunningIsAtWork == IsOn => \A e \in NonResumable(runtime) : worker[e] \in AtWork

\* The inductive invariant of crash and restart
Recoverable ==
    /\ InOrder /\ JournalIsBehind /\ JournalAnswers
    /\ ThreadsAreUp /\ ReaderKnows /\ WorkersKnow /\ RunningIsAtWork

\* What a runtime answers for, a later one does.
LEMMA AnswersCarried ==
    ASSUME NEW r, NEW s, NEW x, NEW a, Later(r, s), AnswersFor(r, x, a)
    PROVE  AnswersFor(s, x, a)
<1>1. \A e \in x : e \in Known(s) /\ StateOf(s, e) # "Pending"
      BY DEF Later, AnswersFor
<1>2. \A p \in a.known : p[1] \in Known(s) /\ s.executions[p[1]].kind = p[2]
      BY DEF Later, AnswersFor
<1>3. \A e \in a.over : e \in Known(s) /\ ~Live(s, e)
      BY DEF Later, AnswersFor, Live
<1>. QED BY <1>1, <1>2, <1>3 DEF AnswersFor

\* interrupt_non_resumable_executions leaves no invocation running.
LEMMA InterruptLater ==
    ASSUME NEW r, Shaped(r), NEW s, s = Interrupt(r)
    PROVE  Shaped(s) /\ Later(r, s) /\ NonResumable(s) = {} /\ Known(s) = Known(r)
<1> DEFINE xs == [e \in Known(r) |-> IF e \in NonResumable(r)
                                     THEN [r.executions[e] EXCEPT !.state = "Interrupted"]
                                     ELSE r.executions[e]]
<1>1. s = [r EXCEPT !.executions = xs]
      BY DEF Interrupt
<1>2. /\ DOMAIN xs = Known(r)
      /\ \A e \in Known(r) : xs[e] = IF e \in NonResumable(r)
                                     THEN [r.executions[e] EXCEPT !.state = "Interrupted"]
                                     ELSE r.executions[e]
      OBVIOUS
<1> HIDE DEF xs
<1>3. DOMAIN s = RuntimeFields /\ s.executions = xs /\ s.decisions = r.decisions
      BY <1>1 DEF Shaped, RuntimeFields
<1>4. \A e \in Known(r) : /\ DOMAIN xs[e] = ExecutionFields
                          /\ xs[e].parent = r.executions[e].parent
                          /\ xs[e].kind = r.executions[e].kind
                          /\ xs[e].state = IF e \in NonResumable(r) THEN "Interrupted"
                                           ELSE r.executions[e].state
      BY <1>2 DEF Shaped, ExecutionFields
<1>5. Known(s) = Known(r)
      BY <1>2, <1>3 DEF Known
<1>6. Shaped(s)
      BY <1>3, <1>4, <1>5 DEF Shaped
<1>7. \A e \in NonResumable(r) : Live(r, e) /\ StateOf(r, e) = "Running"
      BY DEF NonResumable, Live, Terminal
<1>8. Later(r, s)
      BY <1>3, <1>4, <1>5, <1>7 DEF Later, ParentOf, StateOf, Live
<1>9. NonResumable(s) = {}
      BY <1>3, <1>4, <1>5 DEF NonResumable, StateOf, IsOrchestration
<1>. QED BY <1>5, <1>6, <1>8, <1>9

\* A step in memory: the journal stays behind, and answers for as much.
LEMMA MemoryStep ==
    ASSUME Recoverable, phase = "up", Shaped(runtime'), Later(runtime, runtime'),
           Cardinality(Known(runtime')) <= MaxExecutions, UNCHANGED <<phase, saved, ran, acked>>
    PROVE  InOrder' /\ JournalIsBehind' /\ JournalAnswers'
<1>1. Known(runtime') \subseteq Ids
      BY KnownAreIds
<1>2. saved # {} /\ \A j \in saved : Later(j.runtime, runtime)
      BY DEF Recoverable, JournalIsBehind, IsOn
<1>3. InOrder'
      BY <1>1, <1>2 DEF Recoverable, InOrder
<1>4. \A j \in saved : Later(j.runtime, runtime')
      BY <1>2, LaterTransitive
<1>5. JournalIsBehind'
      BY <1>2, <1>4 DEF JournalIsBehind
<1>6. JournalAnswers'
      BY DEF Recoverable, JournalAnswers
<1>. QED BY <1>3, <1>5, <1>6

\* A step that saves: what the runtime answers for, the journal does.
LEMMA SaveStep ==
    ASSUME Recoverable, phase = "up", Save, DOMAIN acked' = {"known", "over"},
           UNCHANGED <<vars, phase>>, AnswersFor(runtime, ran', acked')
    PROVE  InOrder' /\ JournalIsBehind' /\ JournalAnswers'
<1>1. runtime' = runtime
      BY DEF vars
<1>2. saved' # {} /\ \A j \in saved' : j.runtime = runtime
      BY DEF Save, Journal
<1>3. InOrder'
      BY <1>1, <1>2 DEF Recoverable, InOrder
<1>4. Later(runtime, runtime)
      BY FollowsReflexive DEF Recoverable, InOrder, Follows
<1>5. JournalIsBehind'
      BY <1>1, <1>2, <1>4 DEF JournalIsBehind
<1>6. JournalAnswers'
      BY <1>2 DEF JournalAnswers
<1>. QED BY <1>3, <1>5, <1>6

\* The memory of a process that is on answers for everything.
LEMMA MemoryAnswers ==
    ASSUME Recoverable, IsOn
    PROVE  AnswersFor(runtime, ran, acked)
<1>1. PICK j \in saved : Later(j.runtime, runtime)
      BY DEF Recoverable, JournalIsBehind
<1>2. AnswersFor(j.runtime, ran, acked)
      BY DEF Recoverable, JournalAnswers
<1>. QED BY <1>1, <1>2, AnswersCarried

\* The threads of a process, over a step that leads to a later runtime: those that
\* are not e's stay as they were, and nothing but e has begun.
LEMMA ThreadStep ==
    ASSUME Recoverable, phase = "up", UNCHANGED phase, Later(runtime, runtime'),
           NEW e \in Ids, NEW place, worker' = [worker EXCEPT ![e] = place],
           handling' = handling \/ ReaderKnows',
           place \in AtWork => e \in Known(runtime') /\ StateOf(runtime', e) # "Pending",
           NonResumable(runtime') \subseteq NonResumable(runtime) \cup {e},
           e \in NonResumable(runtime') => place \in AtWork
    PROVE  ThreadsAreUp' /\ ReaderKnows' /\ WorkersKnow' /\ RunningIsAtWork'
<1>1. DOMAIN worker' = Ids /\ \A f \in Ids : worker'[f] = IF f = e THEN place ELSE worker[f]
      BY DEF Recoverable, ThreadsAreUp
<1>2. ThreadsAreUp'
      BY <1>1 DEF ThreadsAreUp
<1>3. ReaderKnows'
      BY DEF Recoverable, ReaderKnows, Later, Live
<1>4. WorkersKnow'
      BY <1>1 DEF Recoverable, WorkersKnow, Later
<1>5. \A f \in NonResumable(runtime) : worker[f] \in AtWork /\ f \in Ids
      BY DEF Recoverable, RunningIsAtWork, IsOn, InOrder, NonResumable
<1>6. RunningIsAtWork'
      BY <1>1, <1>5 DEF RunningIsAtWork
<1>. QED BY <1>2, <1>3, <1>4, <1>6

\* The same for a step that leaves the workers alone
LEMMA ReaderActs ==
    ASSUME Recoverable, phase = "up", UNCHANGED <<phase, worker>>, Later(runtime, runtime'),
           handling' = handling \/ ReaderKnows',
           NonResumable(runtime') \subseteq NonResumable(runtime)
    PROVE  ThreadsAreUp' /\ ReaderKnows' /\ WorkersKnow' /\ RunningIsAtWork'
<1>1. ThreadsAreUp'
      BY DEF Recoverable, ThreadsAreUp
<1>2. ReaderKnows'
      BY DEF Recoverable, ReaderKnows, Later, Live
<1>3. WorkersKnow'
      BY DEF Recoverable, WorkersKnow, Later
<1>4. RunningIsAtWork'
      BY DEF Recoverable, RunningIsAtWork, IsOn
<1>. QED BY <1>1, <1>2, <1>3, <1>4

\* load_or_new and the configuration
LEMMA StartPreserves ==
    ASSUME Recoverable, StartStep
    PROVE  Recoverable'
<1> USE DEF vars, historyVars
<1>1. CASE LoadNew
  <2>1. /\ phase' = "loaded" /\ runtime' = Fresh /\ saved' # {}
        /\ \A j \in saved' : j.runtime = Fresh
        /\ UNCHANGED <<handling, worker, ran, acked>> /\ phase # "up"
        /\ ran = {} /\ acked.known = {} /\ acked.over = {}
        BY <1>1 DEF LoadNew, Recoverable, InOrder, JournalAnswers, Journal
  <2>2. Known(Fresh) = {} /\ Shaped(Fresh) /\ Later(Fresh, Fresh) /\ NonResumable(Fresh) = {}
        BY FreshIsShaped, FollowsReflexive DEF Known, Fresh, Empty, Follows, NonResumable
  <2>3. InOrder' /\ JournalIsBehind'
        BY <2>1, <2>2 DEF InOrder, JournalIsBehind
  <2>4. JournalAnswers'
        BY <2>1 DEF JournalAnswers, AnswersFor, Recoverable
  <2>5. ThreadsAreUp' /\ handling' = None /\ worker' = NobodyWorks
        BY <2>1 DEF ThreadsAreUp, Recoverable
  <2>6. ReaderKnows' /\ WorkersKnow' /\ RunningIsAtWork'
        BY <2>1, <2>2, <2>5 DEF ReaderKnows, WorkersKnow, RunningIsAtWork, NobodyWorks, AtWork
  <2>. QED BY <2>3, <2>4, <2>5, <2>6 DEF Recoverable
<1>2. CASE Load
  <2>1. phase \notin {"loaded", "up"} /\ UNCHANGED <<handling, worker, ran, acked>>
        BY <1>2 DEF Load
  <2>2. ThreadsAreUp' /\ handling' = None /\ worker' = NobodyWorks
    <3>1. phase' # "up"
          BY <1>2 DEF Load
    <3>. QED BY <2>1, <3>1 DEF ThreadsAreUp, Recoverable
  <2>3. ReaderKnows' /\ WorkersKnow'
        BY <2>2 DEF ReaderKnows, WorkersKnow, NobodyWorks, AtWork
  <2>4. ASSUME phase' = "unrecovered", UNCHANGED <<vars, config, saved>> PROVE Recoverable'
    <3>1. InOrder' /\ JournalAnswers'
          BY <2>1, <2>4 DEF InOrder, JournalAnswers, Recoverable
    <3>2. JournalIsBehind' /\ RunningIsAtWork'
          BY <2>4 DEF JournalIsBehind, RunningIsAtWork, IsOn
    <3>. QED BY <2>2, <2>3, <3>1, <3>2 DEF Recoverable
  <2>5. ASSUME NEW j \in saved, phase' = "loaded", runtime' = Interrupt(j.runtime),
               saved' = {Journal(runtime', sessions', attempts', config')}
        PROVE  Recoverable'
    <3>1. /\ Shaped(runtime') /\ Later(j.runtime, runtime') /\ NonResumable(runtime') = {}
          /\ Known(runtime') \subseteq Ids
          BY <2>5, InterruptLater DEF Recoverable, InOrder
    <3>2. saved' # {} /\ \A k \in saved' : k.runtime = runtime'
          BY <2>5 DEF Journal
    <3>3. InOrder'
          BY <3>1, <3>2 DEF InOrder
    <3>4. JournalIsBehind'
          BY <3>1, <3>2, FollowsReflexive DEF JournalIsBehind, Follows
    <3>5. AnswersFor(runtime', ran, acked)
          BY <3>1, AnswersCarried DEF Recoverable, JournalAnswers
    <3>6. JournalAnswers'
          BY <2>1, <3>2, <3>5 DEF Recoverable, JournalAnswers
    <3>7. RunningIsAtWork'
          BY <3>1 DEF RunningIsAtWork
    <3>. QED BY <2>2, <2>3, <3>3, <3>4, <3>6, <3>7 DEF Recoverable
  <2>. QED BY <1>2, <2>4, <2>5 DEF Load
<1>3. CASE Configure
  <2>1. /\ phase = "loaded" /\ UNCHANGED <<runtime, saved, handling, worker, ran, acked>>
        BY <1>3 DEF Configure
  <2>2. InOrder' /\ JournalIsBehind' /\ JournalAnswers' /\ ReaderKnows' /\ WorkersKnow'
        BY <2>1 DEF Recoverable, InOrder, JournalIsBehind, IsOn, JournalAnswers,
                    ReaderKnows, WorkersKnow
  <2>3. ThreadsAreUp' /\ RunningIsAtWork'
        BY <2>1 DEF Recoverable, ThreadsAreUp, RunningIsAtWork, IsOn
  <2>. QED BY <2>2, <2>3 DEF Recoverable
<1>. QED BY <1>1, <1>2, <1>3 DEF StartStep

\* The end of a process
LEMMA CrashPreserves ==
    ASSUME Recoverable, Crash
    PROVE  Recoverable'
<1>1. /\ phase' = "down" /\ runtime' = Fresh /\ handling' = None /\ worker' = NobodyWorks
      /\ UNCHANGED <<saved, ran, acked>>
      BY DEF Crash, historyVars
<1>2. Known(Fresh) = {} /\ Shaped(Fresh)
      BY FreshIsShaped DEF Known, Fresh, Empty
<1>3. InOrder' /\ JournalAnswers'
      BY <1>1, <1>2 DEF Recoverable, InOrder, JournalAnswers
<1>4. JournalIsBehind' /\ RunningIsAtWork'
      BY <1>1 DEF JournalIsBehind, RunningIsAtWork, IsOn
<1>5. ThreadsAreUp' /\ ReaderKnows' /\ WorkersKnow'
      BY <1>1 DEF ThreadsAreUp, ReaderKnows, WorkersKnow, NobodyWorks, AtWork
<1>. QED BY <1>3, <1>4, <1>5 DEF Recoverable

\* The handling: a request in memory, then the reply
LEMMA ReaderPreserves ==
    ASSUME Recoverable,
           \/ Respond
           \/ \E s \in Sessions : RequestStart(s)
           \/ \E e \in Known(runtime) : RequestCancel(e)
    PROVE  Recoverable'
<1>0. Shaped(runtime) /\ Known(runtime) \subseteq Ids
      BY DEF Recoverable, InOrder
<1>1. ASSUME NEW s \in Sessions, RequestStart(s) PROVE Recoverable'
  <2>1. /\ phase = "up" /\ UNCHANGED <<phase, worker, saved, ran, acked>>
        /\ handling' = [request |-> "start", execution |-> NextId(runtime)]
        /\ Submit(s) \/ StartSessionOrchestration(s)
        BY <1>1 DEF RequestStart
  <2>2. Follows(runtime, runtime') /\ NextId(runtime) \in Known(runtime')
        BY <1>0, <2>1, RequestFollows
  <2>3. Cardinality(Known(runtime')) <= MaxExecutions
        BY <2>1 DEF Submit, StartSessionOrchestration, Commit
  <2>4. ReaderKnows'
        BY <2>1, <2>2 DEF ReaderKnows
  <2>. QED BY <2>1, <2>2, <2>3, <2>4, MemoryStep, ReaderActs DEF Follows, Recoverable
<1>2. ASSUME NEW e \in Known(runtime), RequestCancel(e) PROVE Recoverable'
  <2>1. /\ phase = "up" /\ UNCHANGED <<phase, worker, saved, ran, acked>>
        /\ handling' = [request |-> "cancel", execution |-> e] /\ Cancel(e)
        BY <1>2 DEF RequestCancel
  <2>2. Follows(runtime, runtime') /\ ~Live(runtime', e)
        BY <1>0, <2>1, CancelFollows
  <2>3. Cardinality(Known(runtime')) <= MaxExecutions
        BY <2>1 DEF Cancel, Commit
  <2>4. e \in Known(runtime')
        BY <2>2 DEF Follows, Later
  <2>5. ReaderKnows'
        BY <2>1, <2>2, <2>4 DEF ReaderKnows
  <2>. QED BY <2>1, <2>2, <2>3, <2>5, MemoryStep, ReaderActs DEF Follows, Recoverable
<1>3. CASE Respond
  <2> DEFINE e == handling.execution
  <2>1. /\ phase = "up" /\ handling # None /\ Save /\ acked' = Acknowledged /\ handling' = None
        /\ UNCHANGED <<vars, phase, worker, ran>>
        BY <1>3 DEF Respond
  <2>2. runtime' = runtime
        BY <2>1 DEF vars
  <2>3. e \in Known(runtime) /\ (handling.request = "cancel" => ~Live(runtime, e))
        BY <2>1 DEF Recoverable, ReaderKnows
  <2>4. DOMAIN acked = {"known", "over"}
        BY DEF Recoverable, JournalAnswers
  <2>5. /\ DOMAIN acked' = {"known", "over"}
        /\ acked'.known = acked.known \cup {<<e, runtime.executions[e].kind>>}
        /\ acked'.over = IF handling.request = "cancel" THEN acked.over \cup {e} ELSE acked.over
        BY <2>1, <2>4 DEF Acknowledged
  <2>6. AnswersFor(runtime, ran, acked)
        BY <2>1, MemoryAnswers DEF IsOn
  <2>7. AnswersFor(runtime, ran', acked')
        BY <2>1, <2>3, <2>5, <2>6 DEF AnswersFor
  <2>8. Later(runtime, runtime)
        BY <1>0, FollowsReflexive DEF Follows
  <2>9. ReaderKnows'
        BY <2>1 DEF ReaderKnows
  <2>10. UNCHANGED <<vars, phase>> /\ UNCHANGED <<phase, worker>>
         BY <2>1
  <2>11. InOrder' /\ JournalIsBehind' /\ JournalAnswers'
         BY <2>1, <2>5, <2>7, <2>10, SaveStep
  <2>12. ThreadsAreUp' /\ ReaderKnows' /\ WorkersKnow' /\ RunningIsAtWork'
         BY <2>1, <2>2, <2>8, <2>9, <2>10, ReaderActs
  <2>. QED BY <2>11, <2>12 DEF Recoverable
<1>. QED BY <1>1, <1>2, <1>3

\* A worker's steps in memory
LEMMA WorkerPreserves ==
    ASSUME Recoverable, NEW e \in Known(runtime),
           TakeUp(e) \/ BeginOrFail(e) \/ GiveUp(e) \/ CallHost(e) \/ BackendReturns(e)
    PROVE  Recoverable'
<1>0. Shaped(runtime) /\ e \in Ids /\ Cardinality(Known(runtime)) <= MaxExecutions
  <2>1. Shaped(runtime) /\ Known(runtime) \subseteq Ids
        BY DEF Recoverable, InOrder
  <2>. QED BY <2>1, IdsBoundKnown
<1>1. phase = "up" /\ UNCHANGED <<phase, saved, ran, acked, handling>>
      BY DEF TakeUp, BeginOrFail, GiveUp, CallHost, BackendReturns, historyVars
<1>2. ASSUME NEW place, worker' = [worker EXCEPT ![e] = place],
             Shaped(runtime'), Later(runtime, runtime'),
             Cardinality(Known(runtime')) <= MaxExecutions,
             place \in AtWork => StateOf(runtime', e) # "Pending",
             NonResumable(runtime') \subseteq NonResumable(runtime) \cup {e},
             e \in NonResumable(runtime') => place \in AtWork
      PROVE  Recoverable'
  <2>1. e \in Known(runtime')
        BY <1>2 DEF Later
  <2>2. InOrder' /\ JournalIsBehind' /\ JournalAnswers'
        BY <1>1, <1>2, MemoryStep
  <2>3. ThreadsAreUp' /\ ReaderKnows' /\ WorkersKnow' /\ RunningIsAtWork'
        BY <1>0, <1>1, <1>2, <2>1, ThreadStep
  <2>. QED BY <2>2, <2>3 DEF Recoverable
<1>3. ASSUME NEW place, worker' = [worker EXCEPT ![e] = place], Follows(runtime, runtime'),
             Cardinality(Known(runtime')) <= MaxExecutions,
             place \in AtWork => StateOf(runtime', e) # "Pending",
             e \in NonResumable(runtime') => place \in AtWork
      PROVE  Recoverable'
      BY <1>2, <1>3 DEF Follows
<1>4. ASSUME runtime' = runtime
      PROVE  Follows(runtime, runtime') /\ Cardinality(Known(runtime')) <= MaxExecutions
      BY <1>0, <1>4, FollowsReflexive
<1>5. CASE TakeUp(e)
  <2>1. /\ runtime' = runtime /\ StateOf(runtime, e) = "Pending"
        /\ worker' = [worker EXCEPT ![e] = "preparing"]
        BY <1>5 DEF TakeUp, Start, WorkerAt
  <2>2. e \notin NonResumable(runtime') /\ "preparing" \notin AtWork
        BY <2>1 DEF NonResumable, AtWork
  <2>. QED BY <1>3, <1>4, <2>1, <2>2
<1>6. CASE BeginOrFail(e) /\ Begin(e) /\ WorkerAt(e, "begun")
  <2>1. /\ Live(runtime, e) /\ runtime' = SetState(runtime, e, "Running")
        /\ Cardinality(Known(runtime')) <= MaxExecutions
        /\ worker' = [worker EXCEPT ![e] = "begun"] /\ "begun" \in AtWork
        BY <1>6 DEF Begin, Commit, Live, Terminal, WorkerAt, AtWork
  <2>2. /\ Shaped(runtime') /\ Later(runtime, runtime') /\ StateOf(runtime', e) = "Running"
        /\ NonResumable(runtime') \subseteq NonResumable(runtime) \cup {e}
        BY <1>0, <2>1, BeginLater
  <2>. QED BY <1>2, <2>1, <2>2
<1>7. CASE BeginOrFail(e) /\ FailPreparation(e) /\ WorkerAt(e, "finished")
  <2>1. /\ Follows(runtime, runtime') /\ ~Live(runtime', e)
        /\ Cardinality(Known(runtime')) <= MaxExecutions
        /\ worker' = [worker EXCEPT ![e] = "finished"]
        BY <1>0, <1>7, EndFollows DEF FailPreparation, Commit, WorkerAt
  <2>2. e \notin NonResumable(runtime') /\ "finished" \notin AtWork
        BY <2>1 DEF NonResumable, Live, Terminal, AtWork
  <2>. QED BY <1>3, <2>1, <2>2
<1>8. CASE GiveUp(e)
  <2>1. /\ runtime' = runtime /\ ~Live(runtime, e)
        /\ worker' = [worker EXCEPT ![e] = "finished"]
        BY <1>8 DEF GiveUp, vars, WorkerAt
  <2>2. e \notin NonResumable(runtime') /\ "finished" \notin AtWork
        BY <2>1 DEF NonResumable, Live, Terminal, AtWork
  <2>. QED BY <1>3, <1>4, <2>1, <2>2
<1>9. CASE CallHost(e)
  <2>1. /\ StateOf(runtime, e) = "Running" /\ worker' = [worker EXCEPT ![e] = "calling"]
        /\ "calling" \in AtWork
        /\ \/ StartOrchestration(e)
           \/ \E failed \in Known(runtime) : DecideFailure(e, failed)
           \/ UNCHANGED vars
        BY <1>9 DEF CallHost, WorkerAt, AtWork
  <2>2. Follows(runtime, runtime') /\ Cardinality(Known(runtime')) <= MaxExecutions
    <3>1. CASE StartOrchestration(e)
          BY <1>0, <3>1, StartOrchestrationFollows DEF StartOrchestration, Commit
    <3>2. ASSUME NEW failed \in Known(runtime), DecideFailure(e, failed)
          PROVE  Follows(runtime, runtime') /\ Cardinality(Known(runtime')) <= MaxExecutions
      <4>1. Follows(runtime, runtime')
            BY <1>0, <3>2, DecideFailureFollows
      <4>2. Cardinality(Known(runtime')) <= MaxExecutions
            BY <3>2 DEF DecideFailure, Retry, ChooseAnotherChild, Recover, Resolve, Commit
      <4>. QED BY <4>1, <4>2
    <3>3. CASE UNCHANGED vars
          BY <1>4, <3>3 DEF vars
    <3>. QED BY <2>1, <3>1, <3>2, <3>3
  <2>3. StateOf(runtime', e) # "Pending"
        BY <2>1, <2>2 DEF Follows, Later
  <2>. QED BY <1>3, <2>1, <2>2, <2>3
<1>10. CASE BackendReturns(e)
  <2>1. /\ worker' = [worker EXCEPT ![e] = "finished"] /\ "finished" \notin AtWork
        /\ \/ Finish(e, "Completed") \/ Finish(e, "Failed")
           \/ StateOf(runtime, e) # "Running" /\ UNCHANGED vars
        BY <1>10 DEF BackendReturns, WorkerAt, AtWork
  <2>2. ASSUME Finish(e, "Completed") \/ Finish(e, "Failed") PROVE Recoverable'
    <3>1. /\ Follows(runtime, runtime') /\ ~Live(runtime', e)
          BY <1>0, <2>2, EndFollows
    <3>2. Cardinality(Known(runtime')) <= MaxExecutions
          BY <2>2 DEF Finish, Commit
    <3>3. e \notin NonResumable(runtime')
          BY <3>1 DEF NonResumable, Live, Terminal
    <3>. QED BY <1>3, <2>1, <3>1, <3>2, <3>3
  <2>3. ASSUME StateOf(runtime, e) # "Running", UNCHANGED vars PROVE Recoverable'
    <3>1. runtime' = runtime /\ e \notin NonResumable(runtime')
          BY <2>3 DEF vars, NonResumable
    <3>. QED BY <1>3, <1>4, <2>1, <3>1
  <2>. QED BY <2>1, <2>2, <2>3
<1>11. ASSUME BeginOrFail(e) PROVE Recoverable'
       BY <1>6, <1>7, <1>11 DEF BeginOrFail
<1>. QED BY <1>5, <1>8, <1>9, <1>10, <1>11

\* A worker's saves
LEMMA WorkerSavePreserves ==
    ASSUME Recoverable, NEW e \in Known(runtime),
           SavePreparation(e) \/ Run(e) \/ HostReturns(e) \/ WorkerDone(e)
    PROVE  Recoverable'
<1> USE DEF vars, processVars, historyVars
<1>1. /\ phase = "up" /\ Save /\ UNCHANGED <<vars, phase, handling, acked>>
      /\ ran' = ran \/ (ran' = ran \cup {e} /\ worker[e] = "begun")
      BY DEF SavePreparation, Run, HostReturns, WorkerDone
<1>2. runtime' = runtime /\ e \in Ids /\ Shaped(runtime) /\ Later(runtime, runtime)
      BY <1>1, FollowsReflexive DEF Recoverable, InOrder, Follows
<1>3. worker[e] \in AtWork => StateOf(runtime, e) # "Pending"
      BY <1>2 DEF Recoverable, WorkersKnow
<1>4. AnswersFor(runtime, ran, acked) /\ DOMAIN acked = {"known", "over"}
      BY <1>1, MemoryAnswers DEF IsOn, Recoverable, JournalAnswers
<1>5. AnswersFor(runtime, ran', acked') /\ DOMAIN acked' = {"known", "over"}
      BY <1>1, <1>3, <1>4 DEF AnswersFor, AtWork
<1>6. InOrder' /\ JournalIsBehind' /\ JournalAnswers'
      BY <1>1, <1>5, SaveStep
<1>7. ASSUME NEW place, worker' = [worker EXCEPT ![e] = place],
             worker[e] \in AtWork <=> place \in AtWork
      PROVE  ThreadsAreUp' /\ ReaderKnows' /\ WorkersKnow' /\ RunningIsAtWork'
  <2>1. e \in NonResumable(runtime) => worker[e] \in AtWork
        BY <1>1 DEF Recoverable, RunningIsAtWork, IsOn
  <2>. QED BY <1>1, <1>2, <1>3, <1>7, <2>1, ThreadStep
<1>8. CASE SavePreparation(e)
  <2>1. UNCHANGED <<phase, worker>>
        BY <1>8 DEF SavePreparation
  <2>2. ThreadsAreUp' /\ ReaderKnows' /\ WorkersKnow' /\ RunningIsAtWork'
        BY <1>1, <1>2, <2>1, ReaderActs
  <2>. QED BY <1>6, <2>2 DEF Recoverable
<1>9. CASE Run(e)
  <2>1. worker[e] = "begun" /\ worker' = [worker EXCEPT ![e] = "running"]
        BY <1>9 DEF Run, WorkerAt
  <2>. QED BY <1>6, <1>7, <2>1 DEF Recoverable, AtWork
<1>10. CASE HostReturns(e)
  <2>1. worker[e] = "calling" /\ worker' = [worker EXCEPT ![e] = "running"]
        BY <1>10 DEF HostReturns, WorkerAt
  <2>. QED BY <1>6, <1>7, <2>1 DEF Recoverable, AtWork
<1>11. CASE WorkerDone(e)
  <2>1. worker[e] = "finished" /\ worker' = [worker EXCEPT ![e] = "idle"]
        BY <1>11 DEF WorkerDone, WorkerAt
  <2>. QED BY <1>6, <1>7, <2>1 DEF Recoverable, AtWork
<1>. QED BY <1>8, <1>9, <1>10, <1>11

\* Nothing that the invariant is about changes.
LEMMA IdleStep ==
    ASSUME Recoverable, UNCHANGED <<runtime, phase, saved, handling, worker, ran, acked>>
    PROVE  Recoverable'
<1>1. InOrder' /\ JournalIsBehind' /\ JournalAnswers'
      BY DEF Recoverable, InOrder, JournalIsBehind, IsOn, JournalAnswers
<1>2. ThreadsAreUp' /\ ReaderKnows' /\ WorkersKnow' /\ RunningIsAtWork'
      BY DEF Recoverable, ThreadsAreUp, ReaderKnows, WorkersKnow, RunningIsAtWork, IsOn
<1>. QED BY <1>1, <1>2 DEF Recoverable

\* Crash and restart at any moment leave the journal and the memory as the
\* invariant says (load_or_new, persist_shared and begin_execution, server.rs).
THEOREM RestartIsSound == RestartSpec => []Recoverable
<1> USE DEF vars, processVars, historyVars
<1>1. RestartInit => Recoverable
  <2> SUFFICES ASSUME RestartInit PROVE Recoverable
      OBVIOUS
  <2>1. /\ phase = "down" /\ runtime = Fresh /\ saved = {} /\ handling = None
        /\ worker = NobodyWorks /\ ran = {} /\ acked = [known |-> {}, over |-> {}]
        BY DEF RestartInit, Init, Fresh
  <2>2. Known(Fresh) = {} /\ Shaped(Fresh)
        BY FreshIsShaped DEF Known, Fresh, Empty
  <2>3. InOrder /\ JournalIsBehind /\ JournalAnswers
        BY <2>1, <2>2 DEF InOrder, JournalIsBehind, IsOn, JournalAnswers
  <2>4. ThreadsAreUp /\ ReaderKnows /\ WorkersKnow /\ RunningIsAtWork
        BY <2>1 DEF ThreadsAreUp, NobodyWorks, ReaderKnows, WorkersKnow, AtWork,
                    RunningIsAtWork, IsOn
  <2>. QED BY <2>3, <2>4 DEF Recoverable
<1>2. Recoverable /\ [RestartNext]_restartVars => Recoverable'
  <2> SUFFICES ASSUME Recoverable, [RestartNext]_restartVars PROVE Recoverable'
      OBVIOUS
  <2>1. CASE StartStep
        BY <2>1, StartPreserves
  <2>2. CASE Crash
        BY <2>2, CrashPreserves
  <2>3. CASE Respond \/ (\E s \in Sessions : RequestStart(s))
             \/ \E e \in Known(runtime) : RequestCancel(e)
        BY <2>3, ReaderPreserves
  <2>4. CASE \E c \in Configurations : Reinstall(c)
        BY <2>4, IdleStep DEF Reinstall
  <2>5. ASSUME NEW e \in Known(runtime), WorkerActs(e) \/ SavePreparation(e) \/ CallHost(e)
        PROVE  Recoverable'
        BY <2>5, WorkerPreserves, WorkerSavePreserves DEF WorkerActs
  <2>6. CASE UNCHANGED restartVars
        BY <2>6, IdleStep DEF restartVars
  <2>. QED BY <2>1, <2>2, <2>3, <2>4, <2>5, <2>6 DEF RestartNext
<1>. QED BY <1>1, <1>2, PTL DEF RestartSpec

\* What the client was told survives every crash: an acknowledged execution is
\* there under its id when the conductor is up again, and an accepted
\* cancellation holds (the journal is saved before the reply, server.rs:588).
THEOREM AcknowledgementsSurvive == RestartSpec => []AcknowledgedSurvives
<1>1. Recoverable => AcknowledgedSurvives
      BY MemoryAnswers DEF AcknowledgedSurvives, AnswersFor, IsOn
<1>. QED BY <1>1, RestartIsSound, PTL

\* An execution that a backend was started for is never again Pending, in any
\* later process (begin_execution saves before it returns, server.rs:1219).
THEOREM StartsAreRemembered == RestartSpec => []StartedIsRemembered
<1>1. Recoverable => StartedIsRemembered
      BY MemoryAnswers DEF StartedIsRemembered, AnswersFor, IsOn
<1>. QED BY <1>1, RestartIsSound, PTL

\* What is Running has a worker in this process: load_or_new interrupts what an
\* earlier one left (interrupt_non_resumable_executions, server.rs:1499).
THEOREM NothingUnattended == RestartSpec => []NothingRunsUnattended
<1>1. Recoverable => NothingRunsUnattended
      BY DEF Recoverable, RunningIsAtWork, NothingRunsUnattended, IsOn, AtWork
<1>. QED BY <1>1, RestartIsSound, PTL
-------------------------------------------------------------------------------
(* The server.  What it reads of the tree, and how that lasts. *)

\* What the server asks of a runtime r: execution_group_id, execution_has_blocking_ancestor.
GroupIn(r, e) ==
    CHOOSE g \in Known(r) : ParentOf(r, g) = None /\ e \in {g} \cup Descendants(r, g)

Blocked(r, e) ==
    \E a \in Known(r) :
        e \in Descendants(r, a) /\ StateOf(r, a) \in {"Failed", "Cancelled", "Interrupted"}

MayRun(r, e) == StateOf(r, e) = "Pending" /\ ~Blocked(r, e)

\* The jobs of the executions of r
Jobs(r) ==
    {[execution |-> e, session |-> r.executions[e].session, group |-> GroupIn(r, e)] : e \in Known(r)}

\* Whatever is live in group g is an agent that what is above it keeps from running.
AtRest(r, g) ==
    \A e \in {g} \cup Descendants(r, g) :
        Live(r, e) => r.executions[e].kind = "Agent" /\ Blocked(r, e)

\* Every execution is where its kind belongs.
Rooted(r) ==
    /\ None \notin Known(r)
    /\ \A e \in Known(r) :
          /\ r.executions[e].kind \in Kinds
          /\ ParentOf(r, e) # None =>
                /\ ParentOf(r, e) \in Known(r) /\ r.executions[e].kind # "Root"
                /\ r.executions[ParentOf(r, e)].kind =
                      IF r.executions[e].kind = "Agent" THEN "Orchestration" ELSE "Root"

\* A sound runtime is such a one.
LEMMA SoundIsRooted ==
    ASSUME NEW r, Sound(r)
    PROVE  Rooted(r)
BY SoundHas DEF Rooted, Placed, ParentOf

\* Every execution has one group: its own, or its parent's.
LEMMA GroupIs ==
    ASSUME NEW r, Rooted(r), NEW e \in Known(r)
    PROVE  /\ GroupIn(r, e) \in Known(r) /\ ParentOf(r, GroupIn(r, e)) = None
           /\ e \in {GroupIn(r, e)} \cup Descendants(r, GroupIn(r, e))
           /\ \A g \in Known(r) :
                 ParentOf(r, g) = None /\ e \in {g} \cup Descendants(r, g) => GroupIn(r, e) = g
           /\ ParentOf(r, e) # None => GroupIn(r, e) = GroupIn(r, ParentOf(r, e))
<1> DEFINE Tops(x) == {g \in Known(r) : ParentOf(r, g) = None /\ x \in {g} \cup Descendants(r, g)}
           up(x) == ParentOf(r, x)
<1>0. \A g, x \in Known(r) : x \in Descendants(r, g) <=>
          up(x) = g \/ (up(x) \in Known(r) /\ up(up(x)) = g)
      BY DEF Descendants, Children
<1>a. /\ None \notin Known(r)
      /\ \A x \in Known(r) : up(x) # None => up(x) \in Known(r)
      BY DEF Rooted
<1>b. \A x \in Known(r) : up(x) # None /\ up(up(x)) # None => up(up(up(x))) = None
      BY DEF Rooted
<1> HIDE DEF up
<1>1. \A x \in Known(r) : \E g \in Tops(x) : TRUE
  <2> SUFFICES ASSUME NEW x \in Known(r) PROVE \E g \in Tops(x) : TRUE
      OBVIOUS
  <2>1. CASE up(x) = None
        BY <2>1 DEF up
  <2>2. CASE up(x) # None /\ up(up(x)) = None
    <3>1. up(x) \in Tops(x)
          BY <1>0, <1>a, <2>2 DEF up
    <3>. QED BY <3>1
  <2>3. CASE up(x) # None /\ up(up(x)) # None
    <3>0. up(x) \in Known(r) /\ up(up(x)) \in Known(r) /\ up(up(up(x))) = None
          BY <1>a, <1>b, <2>3
    <3>1. up(up(x)) \in Tops(x)
          BY <1>0, <1>a, <3>0 DEF up
    <3>. QED BY <3>1
  <2>. QED BY <2>1, <2>2, <2>3
<1>2. ASSUME NEW x \in Known(r), NEW g \in Tops(x), NEW h \in Tops(x) PROVE g = h
  <2>1. /\ g \in Known(r) /\ h \in Known(r) /\ up(g) = None /\ up(h) = None
        /\ g # None /\ h # None
        BY <1>a, <1>2 DEF up
  <2>2. x = g \/ up(x) = g \/ (up(x) \in Known(r) /\ up(up(x)) = g)
        BY <1>0, <2>1, <1>2
  <2>3. x = h \/ up(x) = h \/ (up(x) \in Known(r) /\ up(up(x)) = h)
        BY <1>0, <2>1, <1>2
  <2>. QED BY <1>a, <2>1, <2>2, <2>3
<1>3. \A x \in Known(r) : GroupIn(r, x) = CHOOSE g \in Tops(x) : TRUE
  <2> SUFFICES ASSUME NEW x \in Known(r) PROVE GroupIn(r, x) \in Tops(x)
      BY <1>1, <1>2
  <2>1. \E g \in Known(r) : ParentOf(r, g) = None /\ x \in {g} \cup Descendants(r, g)
        BY <1>1
  <2>. QED BY <2>1 DEF GroupIn
<1>4. \A x \in Known(r) : GroupIn(r, x) \in Tops(x)
      BY <1>1, <1>3
<1>5. ASSUME up(e) # None PROVE GroupIn(r, e) = GroupIn(r, up(e))
  <2>1. up(e) \in Known(r)
        BY <1>a, <1>5
  <2> DEFINE g == GroupIn(r, up(e))
  <2>2. g \in Tops(up(e))
        BY <1>4, <2>1
  <2> HIDE DEF g
  <2>3. up(e) = g \/ up(up(e)) = g \/ (up(up(e)) \in Known(r) /\ up(up(up(e))) = g)
        BY <1>0, <2>1, <2>2
  <2>4. up(e) = g \/ up(up(e)) = g
        BY <1>a, <1>b, <1>5, <2>2, <2>3
  <2>5. g \in Tops(e)
        BY <1>0, <2>1, <2>2, <2>4
  <2>. QED BY <1>2, <1>4, <2>5 DEF g
<1>. QED BY <1>2, <1>4, <1>5 DEF up

\* It keeps it.
LEMMA GroupStays ==
    ASSUME NEW r, NEW s, Rooted(r), Rooted(s), Later(r, s), NEW e \in Known(r)
    PROVE  GroupIn(s, e) = GroupIn(r, e)
<1> DEFINE g == GroupIn(r, e)
<1>1. g \in Known(r) /\ ParentOf(r, g) = None /\ e \in {g} \cup Descendants(r, g)
      BY GroupIs
<1> HIDE DEF g
<1>2. g \in Known(s) /\ ParentOf(s, g) = None /\ e \in Known(s)
      BY <1>1 DEF Later
<1>3. e \in {g} \cup Descendants(s, g)
      BY <1>1 DEF Later, Descendants, Children
<1>. QED BY <1>2, <1>3, GroupIs DEF g

\* So do jobs.
LEMMA JobsStay ==
    ASSUME NEW r, NEW s, Rooted(r), Rooted(s), Keeps(r, s)
    PROVE  Jobs(r) \subseteq Jobs(s)
<1> SUFFICES ASSUME NEW e \in Known(r)
             PROVE  [execution |-> e, session |-> r.executions[e].session, group |-> GroupIn(r, e)] \in Jobs(s)
    BY DEF Jobs
<1>1. e \in Known(s) /\ s.executions[e].session = r.executions[e].session
      BY DEF Keeps, Later
<1>2. GroupIn(s, e) = GroupIn(r, e)
      BY GroupStays DEF Keeps
<1>. QED BY <1>1, <1>2 DEF Jobs

\* What may not run may not run later.
LEMMA MayRunBefore ==
    ASSUME NEW r, NEW s, Later(r, s), NEW e \in Known(r)
    PROVE  /\ Blocked(r, e) => Blocked(s, e)
           /\ MayRun(s, e) => MayRun(r, e)
<1>1. ASSUME Blocked(r, e) PROVE Blocked(s, e)
  <2>1. PICK a \in Known(r) : e \in Descendants(r, a) /\ StateOf(r, a) \in {"Failed", "Cancelled", "Interrupted"}
        BY <1>1 DEF Blocked
  <2>2. a \in Known(s) /\ StateOf(s, a) = StateOf(r, a)
        BY <2>1 DEF Later, Live, Terminal
  <2>3. e \in Descendants(s, a)
        BY <2>1 DEF Later, Descendants, Children
  <2>. QED BY <2>1, <2>2, <2>3 DEF Blocked
<1>2. StateOf(s, e) = "Pending" => StateOf(r, e) = "Pending"
      BY DEF Later
<1>. QED BY <1>1, <1>2 DEF MayRun

\* A group at rest stays so: nothing is created in it any more.
LEMMA RestStays ==
    ASSUME NEW r, NEW s, Rooted(r), Rooted(s), Keeps(r, s), Sprouts(r, s), NEW g \in Known(r), AtRest(r, g)
    PROVE  AtRest(s, g)
<1>0. \A e \in Known(r) : /\ e \in Known(s) /\ ParentOf(s, e) = ParentOf(r, e)
                          /\ s.executions[e].kind = r.executions[e].kind
                          /\ ~Live(r, e) => ~Live(s, e)
      BY DEF Keeps, Later, Live
<1>1. \A e \in Known(s) \ Known(r) : ParentOf(s, e) \in Known(r) => Live(r, ParentOf(s, e))
      BY DEF Sprouts
<1>2. \A e \in Known(s) : ParentOf(s, e) # None => s.executions[ParentOf(s, e)].kind # "Agent"
      BY DEF Rooted
<1>3. None \notin Known(r) /\ None \notin Known(s)
      BY DEF Rooted
<1>4. ASSUME NEW p \in {g} \cup Descendants(r, g), NEW c \in Known(s), ParentOf(s, c) = p
      PROVE  c \in Known(r)
  <2>1. p \in Known(r) /\ (Live(r, p) => r.executions[p].kind = "Agent")
        BY <1>4 DEF AtRest, Descendants, Children
  <2>. QED BY <1>0, <1>1, <1>2, <1>3, <1>4, <2>1
<1>5. ASSUME NEW e \in Descendants(s, g) PROVE e \in Descendants(r, g)
  <2>1. CASE ParentOf(s, e) = g
        BY <1>0, <1>4, <1>5, <2>1 DEF Descendants, Children
  <2>2. CASE ParentOf(s, e) # g
    <3>1. PICK c \in Known(s) : ParentOf(s, c) = g /\ ParentOf(s, e) = c /\ e \in Known(s)
          BY <1>5, <2>2 DEF Descendants, Children
    <3>2. c \in Known(r) /\ c \in Children(r, g)
          BY <1>0, <1>4, <3>1 DEF Children
    <3>3. e \in Known(r)
          BY <1>4, <3>1, <3>2 DEF Descendants
    <3>. QED BY <1>0, <3>1, <3>2, <3>3 DEF Descendants, Children
  <2>. QED BY <2>1, <2>2
<1>6. ASSUME NEW e \in {g} \cup Descendants(s, g), Live(s, e)
      PROVE  s.executions[e].kind = "Agent" /\ Blocked(s, e)
  <2>1. e \in {g} \cup Descendants(r, g) /\ e \in Known(r)
        BY <1>5 DEF Descendants, Children
  <2>2. r.executions[e].kind = "Agent" /\ Blocked(r, e)
        BY <1>0, <1>6, <2>1 DEF AtRest
  <2>. QED BY <1>0, <2>1, <2>2, MayRunBefore DEF Keeps
<1>. QED BY <1>6 DEF AtRest

\* s comes of r, and what is new belongs to group g.
Tends(r, s, g) ==
    /\ Rooted(s) /\ Keeps(r, s) /\ Sprouts(r, s)
    /\ \A e \in Known(s) \ Known(r) : GroupIn(s, e) = g

\* What is created below p is of its group.
LEMMA PlantedInGroup ==
    ASSUME NEW r, NEW s, Rooted(r), Rooted(s), Later(r, s), NEW p \in Known(r), Plants(r, s, p),
           NEW e \in Known(s) \ Known(r)
    PROVE  GroupIn(s, e) = GroupIn(r, p)
<1>1. ParentOf(s, e) = p /\ p # None /\ p \in Known(s)
      BY DEF Plants, Rooted, Later
<1>2. GroupIn(s, e) = GroupIn(s, p)
      BY <1>1, GroupIs
<1>. QED BY <1>2, GroupStays

\* A new orchestration and its agents
LEMMA LaunchPlants ==
    ASSUME Shaped(runtime), NEW s, NEW parent,
           NEW r, r = Launch(Create(runtime, s, parent, "Orchestration", None, None))
    PROVE  /\ NextId(runtime) \in Known(r) /\ ParentOf(r, NextId(runtime)) = parent
           /\ \A e \in Known(r) \ Known(runtime) : e = NextId(runtime) \/ ParentOf(r, e) = NextId(runtime)
<1> DEFINE o == NextId(runtime)
           q == Create(runtime, s, parent, "Orchestration", None, None)
           t == SetState(q, o, "Running")
<1>1. /\ Follows(runtime, q) /\ Known(q) = Known(runtime) \cup {o}
      /\ q.executions[o] = [session |-> s, parent |-> parent, kind |-> "Orchestration",
                            callable |-> None, node |-> None, state |-> "Pending"]
      BY CreateFollows
<1> HIDE DEF q, o
<1>2. Shaped(q) /\ Live(q, o) /\ ParentOf(q, o) = parent /\ o \in Known(q)
      BY <1>1 DEF Follows, Live, StateOf, Terminal, ParentOf
<1>3. t = WithState(q, o, "Running")
      BY DEF SetState, Terminal
<1>4. Shaped(t) /\ Known(t) = Known(q) /\ ParentOf(t, o) = parent
      BY <1>2, <1>3, StateChanged
<1> HIDE DEF t
<1>5. r = Advance(t, o)
      BY DEF Launch, t, q, o
<1>6. Follows(t, r) /\ Plants(t, r, o)
      BY <1>4, <1>5, AdvanceFollows, RefreshPlants
<1>7. o \in Known(r) /\ ParentOf(r, o) = parent
      BY <1>2, <1>4, <1>6 DEF Follows, Later
<1>8. \A e \in Known(r) \ Known(runtime) : e = o \/ ParentOf(r, e) = o
      BY <1>1, <1>4, <1>6 DEF Plants
<1>. QED BY <1>7, <1>8 DEF o

\* Decisions create below the orchestration that they are about.
LEMMA DecidePlants ==
    ASSUME Shaped(runtime), NEW d, NEW f, DecideFailure(d, f)
    PROVE  Plants(runtime, runtime', ParentOf(runtime, d))
<1> DEFINE o == ParentOf(runtime, d)
<1>1. ASSUME NEW q, NEW b, NEW kind, NEW recovery, Shaped(q), Plants(runtime, q, o), ~Decided(q, f),
             runtime' = Refresh(Decide(Recorded(q, b), f, kind, recovery), o)
      PROVE  Plants(runtime, runtime', o)
  <2> DEFINE t == Recorded(q, b)
             u == Decide(t, f, kind, recovery)
  <2>1. Follows(q, t) /\ t.decisions = q.decisions /\ t.executions = q.executions
        BY <1>1, RecordedFollows DEF Follows
  <2> HIDE DEF t
  <2>2. Follows(t, u) /\ u.executions = t.executions
        BY <1>1, <2>1, DecideFollows DEF Follows, Decided
  <2> HIDE DEF u
  <2>3. Follows(u, Refresh(u, o)) /\ Plants(u, Refresh(u, o), o)
        BY <2>2, RefreshFollows, RefreshPlants DEF Follows
  <2>4. runtime' = Refresh(u, o)
        BY <1>1 DEF u, t
  <2>5. Plants(runtime, u, o)
        BY <1>1, <2>1, <2>2 DEF Plants, Known, ParentOf
  <2> HIDE DEF o
  <2>. QED BY <2>3, <2>4, <2>5, PlantsTransitive DEF Follows
<1>2. ASSUME NEW kind, NEW callable, NEW backed, Recover(d, f, kind, callable, backed)
      PROVE  Plants(runtime, runtime', o)
  <2> DEFINE q == WithRecovery(d, callable)
  <2>1. Follows(runtime, q) /\ q.decisions = runtime.decisions /\ Plants(runtime, q, o)
        BY AgentFollows, AgentPlants DEF WithRecovery
  <2>2. ~Decided(runtime, f)
        BY <1>2 DEF Recover, MayDecide
  <2>3. \E b : runtime' = Refresh(Decide(Recorded(q, b), f, kind, NextId(runtime)), o)
        BY <1>2 DEF Recover, Commit
  <2> HIDE DEF q, o
  <2>. QED BY <1>1, <2>1, <2>2, <2>3 DEF Follows, Decided
<1>3. ASSUME NEW kind, Resolve(d, f, kind)
      PROVE  Plants(runtime, runtime', o)
  <2>1. ~Decided(runtime, f)
        BY <1>3 DEF Resolve, MayDecide
  <2>2. \E b : runtime' = Refresh(Decide(Recorded(runtime, b), f, kind, None), o)
        BY <1>3 DEF Resolve, Commit
  <2>3. Plants(runtime, runtime, o)
        BY DEF Plants
  <2>. QED BY <1>1, <2>1, <2>2, <2>3
<1>4. CASE Retry(d, f)
      BY <1>2, <1>4 DEF Retry
<1>5. ASSUME NEW c \in Agents, ChooseAnotherChild(d, f, c) PROVE Plants(runtime, runtime', o)
      BY <1>2, <1>5 DEF ChooseAnotherChild
<1>. QED BY <1>3, <1>4, <1>5 DEF DecideFailure

\* A request starts a group.
LEMMA RequestTends ==
    ASSUME TreeInOrder, NEW s \in Sessions, Submit(s) \/ StartSessionOrchestration(s)
    PROVE  /\ TreeInOrder' /\ Tends(runtime, runtime', NextId(runtime))
           /\ NextId(runtime) \in Known(runtime') /\ ParentOf(runtime', NextId(runtime)) = None
           /\ NonResumable(runtime') \subseteq NonResumable(runtime)
<1> DEFINE o == NextId(runtime)
<1>0. TreeInOrder' /\ Develops(runtime, runtime')
      BY RequestKeeps
<1>1. /\ Rooted(runtime') /\ Keeps(runtime, runtime') /\ Sprouts(runtime, runtime')
      BY <1>0, SoundIsRooted DEF Develops, Grows
<1>2. Shaped(runtime)
      BY DEF TreeInOrder, Sound
<1>3. Follows(runtime, runtime')
      BY <1>2, RequestFollows
<1>4. /\ o \in Known(runtime') /\ ParentOf(runtime', o) = None
      /\ \A e \in Known(runtime') \ Known(runtime) : e = o \/ ParentOf(runtime', e) = o
  <2>1. CASE Submit(s)
    <3>1. ASSUME NEW kind, NEW c, NEW q, q = Create(runtime, s, None, kind, c, None)
          PROVE  Known(q) = Known(runtime) \cup {o} /\ ParentOf(q, o) = None
      <4>1. /\ Follows(runtime, q) /\ Known(q) = Known(runtime) \cup {NextId(runtime)}
            /\ q.executions[NextId(runtime)] =
                  [session |-> s, parent |-> None, kind |-> kind,
                   callable |-> c, node |-> None, state |-> "Pending"]
            BY <1>2, <3>1, CreateFollows
      <4>. QED BY <4>1 DEF ParentOf
    <3>2. \E kind, c : runtime' = Create(runtime, s, None, kind, c, None)
          BY <2>1 DEF Submit, Commit
    <3> HIDE DEF o
    <3>. QED BY <3>1, <3>2
  <2>2. CASE StartSessionOrchestration(s)
    <3>1. runtime' = Launch(Create(runtime, s, None, "Orchestration", None, None))
          BY <2>2 DEF StartSessionOrchestration, Commit
    <3>. QED BY <1>2, <3>1, LaunchPlants
  <2>. QED BY <2>1, <2>2
<1> HIDE DEF o
<1>5. o # None
      BY <1>1, <1>4 DEF Rooted
<1>6. GroupIn(runtime', o) = o
      BY <1>1, <1>4, GroupIs
<1>7. \A e \in Known(runtime') \ Known(runtime) : GroupIn(runtime', e) = o
      BY <1>1, <1>4, <1>5, <1>6, GroupIs
<1>. QED BY <1>0, <1>1, <1>3, <1>4, <1>7 DEF Tends, Follows, o

\* What a worker's execution does to the tree concerns its own group.
LEMMA WorkerTends ==
    ASSUME TreeInOrder, NEW e \in Known(runtime),
           \/ Begin(e) \/ FailPreparation(e) \/ Finish(e, "Completed") \/ Finish(e, "Failed")
           \/ StartOrchestration(e) \/ \E f : DecideFailure(e, f)
    PROVE  /\ TreeInOrder' /\ Tends(runtime, runtime', GroupIn(runtime, e))
           /\ NonResumable(runtime') \subseteq NonResumable(runtime) \cup {e}
           /\ FailPreparation(e) \/ Finish(e, "Completed") \/ Finish(e, "Failed") => ~Live(runtime', e)
           /\ Begin(e) => StateOf(runtime', e) = "Running"
<1>a. /\ Sound(runtime) /\ Shaped(runtime) /\ Rooted(runtime) /\ Calm(runtime, {})
      /\ Known(runtime) \subseteq Ids
      /\ e \in started => runtime.executions[e].kind # "Orchestration"
      BY SoundIsRooted DEF TreeInOrder, Sound, WorkersHaveWork
<1>0. TreeInOrder' /\ Develops(runtime, runtime')
      BY WorkerKeeps, StartOrchestrationKeeps, DecideKeeps
<1>1. /\ Rooted(runtime') /\ Keeps(runtime, runtime') /\ Sprouts(runtime, runtime') /\ Later(runtime, runtime')
      BY <1>0, SoundIsRooted DEF Develops, Grows, Keeps
<1>2. FailPreparation(e) \/ Finish(e, "Completed") \/ Finish(e, "Failed") => ~Live(runtime', e)
      BY <1>a, EndFollows
<1>3. ASSUME Begin(e)
      PROVE  /\ Known(runtime') = Known(runtime) /\ StateOf(runtime', e) = "Running"
             /\ NonResumable(runtime') \subseteq NonResumable(runtime) \cup {e}
  <2>1. Live(runtime, e) /\ runtime' = SetState(runtime, e, "Running")
        BY <1>3 DEF Begin, Commit, Live, Terminal
  <2>2. runtime' = WithState(runtime, e, "Running")
        BY <2>1 DEF SetState, Terminal
  <2>3. Known(runtime') = Known(runtime) /\ StateOf(runtime', e) = "Running"
        BY <1>a, <2>2, StateChanged
  <2>4. NonResumable(runtime') \subseteq NonResumable(runtime) \cup {e}
        BY <1>a, <2>1, BeginLater
  <2>. QED BY <2>3, <2>4
<1> DEFINE g == GroupIn(runtime, e)
           Goal == Tends(runtime, runtime', g) /\ NonResumable(runtime') \subseteq NonResumable(runtime) \cup {e}
<1>4. ASSUME NonResumable(runtime') \subseteq NonResumable(runtime) \cup {e},
             \A x \in Known(runtime') \ Known(runtime) : GroupIn(runtime', x) = g
      PROVE  Goal
      BY <1>1, <1>4 DEF Tends
<1>5. \A p \in Known(runtime) :
          Plants(runtime, runtime', p) =>
             \A x \in Known(runtime') \ Known(runtime) : GroupIn(runtime', x) = GroupIn(runtime, p)
      BY <1>1, <1>a, PlantedInGroup
<1>6. ParentOf(runtime, e) # None =>
          ParentOf(runtime, e) \in Known(runtime) /\ GroupIn(runtime, ParentOf(runtime, e)) = g
      BY <1>a, GroupIs DEF Rooted
<1>7. ASSUME Begin(e) PROVE Goal
      BY <1>3, <1>4, <1>7
<1>8. ASSUME FailPreparation(e) \/ Finish(e, "Completed") \/ Finish(e, "Failed") PROVE Goal
  <2>1. Follows(runtime, runtime')
        BY <1>a, <1>8, EndFollows
  <2>2. /\ Live(runtime, e) /\ e \in started
        /\ \E state \in {"Completed", "Failed"} : runtime' = SetState(runtime, e, state)
        BY <1>8 DEF FailPreparation, Finish, Commit, Live, Terminal
  <2>3. /\ Plants(runtime, runtime', ParentOf(runtime, e))
        /\ ParentOf(runtime, e) = None => Known(runtime') = Known(runtime)
        BY <1>a, <2>2, EndDevelops
  <2> HIDE DEF g, Goal
  <2>4. \A x \in Known(runtime') \ Known(runtime) : GroupIn(runtime', x) = g
        BY <1>5, <1>6, <2>3
  <2>. QED BY <1>4, <2>1, <2>4 DEF Follows
<1>9. ASSUME StartOrchestration(e) PROVE Goal
  <2> DEFINE o == NextId(runtime)
             ss == runtime.executions[e].session
  <2>1. Follows(runtime, runtime')
        BY <1>a, <1>9, StartOrchestrationFollows
  <2>2. runtime' = Launch(Create(runtime, ss, e, "Orchestration", None, None))
        BY <1>9 DEF StartOrchestration, Commit
  <2> HIDE DEF ss
  <2>3. /\ o \in Known(runtime') /\ ParentOf(runtime', o) = e
        /\ \A x \in Known(runtime') \ Known(runtime) : x = o \/ ParentOf(runtime', x) = o
        BY <1>a, <2>2, LaunchPlants
  <2> HIDE DEF o
  <2>4. o # None /\ e # None /\ GroupIn(runtime', e) = g /\ e \in Known(runtime')
        BY <1>1, <1>a, <2>3, GroupStays DEF Rooted, Later
  <2> HIDE DEF g, Goal
  <2>5. GroupIn(runtime', o) = g
        BY <1>1, <2>3, <2>4, GroupIs
  <2>6. \A x \in Known(runtime') \ Known(runtime) : GroupIn(runtime', x) = g
        BY <1>1, <2>3, <2>4, <2>5, GroupIs
  <2>. QED BY <1>4, <2>1, <2>6 DEF Follows
<1>10. ASSUME NEW f, DecideFailure(e, f) PROVE Goal
  <2>1. Follows(runtime, runtime') /\ Plants(runtime, runtime', ParentOf(runtime, e))
        BY <1>a, <1>10, DecideFailureFollows, DecidePlants
  <2>2. MayDecide(e, f)
        BY <1>10 DEF DecideFailure, Retry, ChooseAnotherChild, Recover, Resolve
  <2>3. ParentOf(runtime, e) # None
        BY <1>a, <2>2, DeciderIs
  <2> HIDE DEF g, Goal
  <2>4. \A x \in Known(runtime') \ Known(runtime) : GroupIn(runtime', x) = g
        BY <1>5, <1>6, <2>1, <2>3
  <2>. QED BY <1>4, <2>1, <2>4 DEF Follows
<1> HIDE DEF g, Goal
<1>11. Goal
       BY <1>7, <1>8, <1>9, <1>10
<1>. QED BY <1>0, <1>2, <1>3, <1>11 DEF Goal, g

\* Cancellations start nothing.
LEMMA CancelTends ==
    ASSUME TreeInOrder, NEW e \in Known(runtime), Cancel(e)
    PROVE  /\ TreeInOrder' /\ \A g : Tends(runtime, runtime', g)
           /\ NonResumable(runtime') \subseteq NonResumable(runtime)
           /\ Known(runtime') = Known(runtime)
<1>1. TreeInOrder' /\ Develops(runtime, runtime') /\ Known(runtime') = Known(runtime)
      BY CancelKeeps
<1>2. Follows(runtime, runtime')
      BY CancelFollows DEF TreeInOrder, Sound
<1>. QED BY <1>1, <1>2, SoundIsRooted DEF Tends, Develops, Grows, Follows

\* Nor do steps that leave the runtime alone.
LEMMA RestTends ==
    ASSUME TreeInOrder,
           \/ \E s \in Sessions : CloseSession(s)
           \/ \E e \in Known(runtime) : Start(e)
           \/ UNCHANGED vars
    PROVE  TreeInOrder' /\ runtime' = runtime /\ \A g : Tends(runtime, runtime', g)
<1>1. runtime' = runtime /\ Rooted(runtime)
      BY SoundIsRooted DEF CloseSession, Start, vars, TreeInOrder
<1>2. Keeps(runtime, runtime) /\ Sprouts(runtime, runtime)
      BY DEF Keeps, Later, Sprouts
<1>. QED BY <1>1, <1>2, RestKeeps DEF Tends
-------------------------------------------------------------------------------
(* The invariant of the server. *)

\* The places at which a worker has a job in hand, and those at which it has not
Busy == {"taken", "started", "running", "finished", "enqueuing", "completing", "failing"}

Idle == {"next", "waiting", "exited"}

QueueFields == {"pending", "active_sessions", "active_groups", "scheduled", "releasing_groups", "closed"}

\* The queue holds true jobs, and knows of known executions only.
QueueTypes ==
    /\ DOMAIN queue = QueueFields
    /\ queue.pending \in Seq(Jobs(runtime))
    /\ DOMAIN queue.active_sessions = Sessions
    /\ queue.active_groups \in [Ids -> Nat]
    /\ queue.scheduled \subseteq Known(runtime) /\ queue.releasing_groups \subseteq Known(runtime)

\* So do the threads, and they enqueue where they should.
ThreadTypes ==
    /\ pc \in [Workers -> Busy \cup Idle \cup {"dead"}]
    /\ quiet \in [Workers -> BOOLEAN]
    /\ DOMAIN job = Workers /\ DOMAIN todo = Threads
    /\ DOMAIN reader = {"pc", "group"}
    /\ \A w \in Workers : IF pc[w] \in Busy THEN job[w] \in Jobs(runtime) ELSE job[w] = None
    /\ \A t \in Threads : todo[t] \in Seq(Jobs(runtime))
    /\ \A w \in Workers : pc[w] # "enqueuing" => todo[w] = <<>>
    /\ reader.pc # "enqueuing" => todo["reader"] = <<>>
    /\ reader.pc = "submitted" =>
          reader.group \in Known(runtime) /\ ParentOf(runtime, reader.group) = None
    /\ reader.pc \in {"reading", "enqueuing"} => reader.group = None

\* Workers with a job of group g in hand, which the queue counts
Hands(g) == {w \in Workers : pc[w] \in Busy /\ job[w].group = g}

HandsAreCounted == \A g \in Ids : queue.active_groups[g] = Cardinality(Hands(g))

\* No thread has ended with an error.
NoErrors ==
    /\ \A w \in Workers : pc[w] \notin {"failing", "dead"}
    /\ ~(reader.pc = "ended" /\ reader.group # None)

IsQueued(e) == \E i \in DOMAIN queue.pending : queue.pending[i].execution = e

IsInHand(e) == \E w \in Workers : pc[w] \in {"taken", "started"} /\ job[w].execution = e

\* What was scheduled and may run is in the queue, or in the hand of a worker that has yet
\* to begin it: enqueueing it again may be left out.
ScheduledIsOnItsWay ==
    \A e \in queue.scheduled : MayRun(runtime, e) => IsQueued(e) \/ IsInHand(e)

\* e is about to be enqueued, by somebody who has it on the list or will list its group.
IsListed(e) == \E t \in Threads : \E i \in DOMAIN todo[t] : todo[t][i].execution = e

WillBeListed(e) ==
    \/ \E w \in Workers : /\ pc[w] \in {"taken", "started", "running", "finished"}
                          /\ job[w].group = GroupIn(runtime, e)
    \/ reader.pc = "submitted" /\ reader.group = GroupIn(runtime, e)

NothingLost ==
    \A e \in Known(runtime) : MayRun(runtime, e) => IsQueued(e) \/ IsListed(e) \/ WillBeListed(e)

\* What runs has a worker.
RunningIsManned ==
    \A e \in NonResumable(runtime) : \E w \in Workers : pc[w] = "running" /\ job[w].execution = e

\* What was once read of a group at rest still holds.
RestIsLasting ==
    /\ \A w \in Workers : pc[w] = "completing" /\ quiet[w] => AtRest(runtime, job[w].group)
    /\ \A g \in queue.releasing_groups : AtRest(runtime, g)

ServerInOrder ==
    /\ QueueTypes /\ ThreadTypes /\ HandsAreCounted
    /\ NoErrors => ScheduledIsOnItsWay /\ NothingLost /\ RunningIsManned /\ RestIsLasting
-------------------------------------------------------------------------------
(* What the server's operators do. *)

\* Jobs are of known executions and groups.
LEMMA JobIs ==
    ASSUME NEW r, Rooted(r), NEW j \in Jobs(r)
    PROVE  /\ j.execution \in Known(r) /\ j.group = GroupIn(r, j.execution) /\ j.group \in Known(r)
           /\ ParentOf(r, j.group) = None
<1>1. PICK e \in Known(r) : j = [execution |-> e, session |-> r.executions[e].session, group |-> GroupIn(r, e)]
      BY DEF Jobs
<1>. QED BY <1>1, GroupIs

\* The executions of S, in the order of ids
LEMMA InIdOrderIs ==
    ASSUME NEW S, S \subseteq Ids
    PROVE  InIdOrder(S) \in Seq(S) /\ \A e \in S : \E i \in DOMAIN InIdOrder(S) : InIdOrder(S)[i] = e
<1> DEFINE Round(s, i) == IF IdOrder[i] \in S THEN Append(s, IdOrder[i]) ELSE s
           Loop(g, n) == g = [i \in 0..n |-> IF i = 0 THEN <<>> ELSE Round(g[i - 1], i)]
           P == {n \in Nat : \E g : Loop(g, n)}
<1>0. MaxExecutions \in Nat
      BY DefinitionAssumption
<1> HIDE DEF Round
<1>1. 0 \in P
  <2>1. Loop([i \in 0..0 |-> <<>>], 0)
        OBVIOUS
  <2>. QED BY <2>1
<1>2. ASSUME NEW n \in Nat, n \in P PROVE n + 1 \in P
  <2>1. PICK g : Loop(g, n)
        BY <1>2
  <2> DEFINE h == [i \in 0..(n + 1) |-> IF i = n + 1 THEN Round(g[n], n + 1) ELSE g[i]]
  <2>2. ASSUME NEW i \in 0..(n + 1)
        PROVE  h[i] = IF i = 0 THEN <<>> ELSE Round(h[i - 1], i)
    <3>1. CASE i = n + 1
      <4>1. h[n + 1] = Round(g[n], n + 1) /\ h[n] = g[n] /\ (n + 1) - 1 = n
            OBVIOUS
      <4>. QED BY <3>1, <4>1
    <3>2. CASE i # n + 1
      <4>1. i \in 0..n /\ h[i] = g[i]
            BY <3>2
      <4>2. g[i] = IF i = 0 THEN <<>> ELSE Round(g[i - 1], i)
            BY <2>1, <4>1
      <4>3. i # 0 => h[i - 1] = g[i - 1]
            BY <3>2
      <4>. QED BY <4>1, <4>2, <4>3
    <3>. QED BY <3>1, <3>2
  <2>3. Loop(h, n + 1) /\ n + 1 \in Nat
        BY <2>2
  <2> HIDE DEF h
  <2>4. \E k : Loop(k, n + 1)
        BY <2>3
  <2> HIDE DEF Loop
  <2>. QED BY <2>3, <2>4
<1>3. MaxExecutions \in P
  <2> HIDE DEF P
  <2>. QED BY <1>0, <1>1, <1>2, Induction
<1> DEFINE f == CHOOSE g : Loop(g, MaxExecutions)
<1>4. Loop(f, MaxExecutions)
      BY <1>3
<1>5. InIdOrder(S) = f[MaxExecutions]
      BY DEF InIdOrder, Round
<1> HIDE DEF f
<1>6. f[0] = <<>> /\ \A i \in 1..MaxExecutions : f[i] = Round(f[i - 1], i)
      BY <1>0, <1>4
<1> HIDE DEF P, Loop
<1> DEFINE Lists(s, n) == s \in Seq(S) /\ \A i \in 1..n : IdOrder[i] \in S => \E k \in DOMAIN s : s[k] = IdOrder[i]
           R == {n \in Nat : n <= MaxExecutions => Lists(f[n], n)}
<1>7. 0 \in R
  <2>1. <<>> \in Seq(S) /\ 1..0 = {}
        OBVIOUS
  <2>2. Lists(f[0], 0)
        BY <1>6, <2>1
  <2>. QED BY <2>2
<1>8. ASSUME NEW n \in Nat, n \in R PROVE n + 1 \in R
  <2> SUFFICES ASSUME n + 1 <= MaxExecutions PROVE Lists(f[n + 1], n + 1)
      OBVIOUS
  <2>1. f[n] \in Seq(S) /\ \A i \in 1..n : IdOrder[i] \in S => \E k \in DOMAIN f[n] : f[n][k] = IdOrder[i]
        BY <1>0, <1>8
  <2>2. n + 1 \in 1..MaxExecutions /\ (n + 1) - 1 = n
        BY <1>0
  <2>3. f[n + 1] = IF IdOrder[n + 1] \in S THEN Append(f[n], IdOrder[n + 1]) ELSE f[n]
        BY <1>6, <2>2 DEF Round
  <2>4. f[n + 1] \in Seq(S)
        BY <2>1, <2>3
  <2>5. ASSUME NEW i \in 1..n, IdOrder[i] \in S PROVE \E k \in DOMAIN f[n + 1] : f[n + 1][k] = IdOrder[i]
    <3>1. PICK k \in DOMAIN f[n] : f[n][k] = IdOrder[i]
          BY <2>1, <2>5
    <3>2. k \in DOMAIN f[n + 1] /\ f[n + 1][k] = f[n][k]
          BY <2>1, <2>3, <3>1
    <3>. QED BY <3>1, <3>2
  <2>6. IdOrder[n + 1] \in S => \E k \in DOMAIN f[n + 1] : f[n + 1][k] = IdOrder[n + 1]
    <3> SUFFICES ASSUME IdOrder[n + 1] \in S
                 PROVE  Len(f[n]) + 1 \in DOMAIN f[n + 1] /\ f[n + 1][Len(f[n]) + 1] = IdOrder[n + 1]
        OBVIOUS
    <3>. QED BY <2>1, <2>3
  <2>7. \A i \in 1..(n + 1) : i \in 1..n \/ i = n + 1
        OBVIOUS
  <2>. QED BY <2>4, <2>5, <2>6, <2>7
<1>9. MaxExecutions \in R
  <2> HIDE DEF R
  <2>. QED BY <1>0, <1>7, <1>8, Induction
<1>10. Lists(f[MaxExecutions], MaxExecutions)
       BY <1>0, <1>9
<1>. QED BY <1>5, <1>10, IdOrderIsComplete

\* pending_execution_jobs lists all that may run of a group.
LEMMA PendingIs ==
    ASSUME Rooted(runtime), Known(runtime) \subseteq Ids, NEW g \in Known(runtime), ParentOf(runtime, g) = None
    PROVE  /\ PendingJobs(g) \in Seq(Jobs(runtime))
           /\ \A e \in Known(runtime) :
                 GroupIn(runtime, e) = g /\ MayRun(runtime, e) =>
                    \E i \in DOMAIN PendingJobs(g) : PendingJobs(g)[i].execution = e
<1> DEFINE S == {e \in InGroup(g) : Runnable(e)}
           ids == InIdOrder(S)
           jobs == [i \in DOMAIN ids |-> JobOf(ids[i])]
<1>1. PendingJobs(g) = jobs
      BY DEF PendingJobs
<1>2. S \subseteq Known(runtime)
      BY DEF InGroup, Descendants, Children
<1>3. \A e \in Known(runtime) : GroupIn(runtime, e) = g /\ MayRun(runtime, e) => e \in S
      BY GroupIs DEF InGroup, Runnable, MayRun, HasBlockingAncestor, Blocked
<1> HIDE DEF S
<1>4. ids \in Seq(S) /\ \A e \in S : \E i \in DOMAIN ids : ids[i] = e
      BY <1>2, InIdOrderIs
<1> HIDE DEF ids
<1>5. \A e \in Known(runtime) : JobOf(e) \in Jobs(runtime) /\ JobOf(e).execution = e
      BY DEF JobOf, Jobs, GroupOf, GroupIn
<1>6. \A i \in 1..Len(ids) : ids[i] \in Known(runtime)
      BY <1>2, <1>4
<1>7. Len(ids) \in Nat /\ DOMAIN ids = 1..Len(ids)
      BY <1>4
<1>8. jobs \in Seq(Jobs(runtime))
      BY <1>5, <1>6, <1>7
<1>9. ASSUME NEW e \in Known(runtime), GroupIn(runtime, e) = g, MayRun(runtime, e)
      PROVE  \E i \in DOMAIN jobs : jobs[i].execution = e
  <2>1. PICK i \in DOMAIN ids : ids[i] = e
        BY <1>3, <1>4, <1>9
  <2>2. jobs[i].execution = e
        BY <1>5, <2>1
  <2>. QED BY <2>1, <2>2
<1>. QED BY <1>1, <1>8, <1>9

\* notify_all moves idle workers only.
LEMMA NotifiedIs ==
    ASSUME pc \in [Workers -> Busy \cup Idle \cup {"dead"}]
    PROVE  /\ Notified \in [Workers -> Busy \cup Idle \cup {"dead"}]
           /\ \A w \in Workers : Notified[w] = pc[w] \/ (pc[w] \in Idle /\ Notified[w] \in Idle)
BY DEF Notified, Idle

\* enqueue
LEMMA EnqueuedIs ==
    ASSUME NEW q, DOMAIN q = QueueFields, NEW j
    PROVE  LET s == Q!Enqueued(q, j) IN
           /\ DOMAIN s = QueueFields
           /\ s.active_sessions = q.active_sessions /\ s.active_groups = q.active_groups
           /\ s.releasing_groups = q.releasing_groups
           /\ j.execution \in q.scheduled => s = q
           /\ j.execution \notin q.scheduled =>
                 s.pending = Append(q.pending, j) /\ s.scheduled = q.scheduled \cup {j.execution}
BY DEF Q!Enqueued, QueueFields

\* next
LEMMA TakenIs ==
    ASSUME NEW q, DOMAIN q = QueueFields, NEW i,
           q.active_groups \in [Ids -> Nat], q.pending[i].group \in Ids
    PROVE  LET s == Q!Taken(q, i)
               j == q.pending[i]
           IN
           /\ DOMAIN s = QueueFields
           /\ s.pending = RemoveAt(q.pending, i)
           /\ s.scheduled = q.scheduled /\ s.releasing_groups = q.releasing_groups
           /\ DOMAIN s.active_sessions = DOMAIN q.active_sessions
           /\ \A x \in DOMAIN q.active_sessions :
                 q.active_sessions[x] # None => s.active_sessions[x] = q.active_sessions[x]
           /\ s.active_groups = [q.active_groups EXCEPT ![j.group] = q.active_groups[j.group] + 1]
<1> DEFINE s == Q!Taken(q, i)
           j == q.pending[i]
           P == Q!RemoveAt(q.pending, i)
           A == [q.active_sessions EXCEPT ![q.pending[i].session] = IF @ = None THEN q.pending[i].group ELSE @]
           G == [q.active_groups EXCEPT ![q.pending[i].group] = @ + 1]
<1>1. s = [q EXCEPT !.pending = P, !.active_sessions = A, !.active_groups = G]
      BY Zenon DEF Q!Taken
<1>a. P = RemoveAt(q.pending, i)
      BY DEF Q!RemoveAt, RemoveAt
<1> HIDE DEF s, P, A, G
<1>2. /\ DOMAIN s = QueueFields
      /\ s.pending = P /\ s.active_groups = G /\ s.active_sessions = A
      /\ s.scheduled = q.scheduled /\ s.releasing_groups = q.releasing_groups
      BY <1>1 DEF QueueFields
<1>3. DOMAIN s.active_sessions = DOMAIN q.active_sessions
      BY <1>2 DEF A
<1>4. \A x \in DOMAIN q.active_sessions :
          q.active_sessions[x] # None => s.active_sessions[x] = q.active_sessions[x]
      BY <1>2 DEF A
<1>. QED BY <1>a, <1>2, <1>3, <1>4 DEF s, j, G

\* complete: a group is released only when it is about to be, and none of its jobs is left.
LEMMA CompletedIs ==
    ASSUME NEW q, DOMAIN q = QueueFields, NEW j, NEW release \in BOOLEAN,
           q.active_groups \in [Ids -> Nat], j.group \in Ids
    PROVE  LET s == Q!Completed(q, j, release) IN
           /\ DOMAIN s = QueueFields
           /\ s.pending = q.pending /\ s.scheduled = q.scheduled
           /\ s.releasing_groups \subseteq IF release THEN q.releasing_groups \cup {j.group} ELSE q.releasing_groups
           /\ DOMAIN s.active_sessions = DOMAIN q.active_sessions
           /\ s.active_groups = [q.active_groups EXCEPT ![j.group] = q.active_groups[j.group] - 1]
           /\ \A x \in DOMAIN q.active_sessions :
                 s.active_sessions[x] # q.active_sessions[x] =>
                    /\ q.active_sessions[x] = j.group /\ q.active_groups[j.group] - 1 = 0
                    /\ j.group \in q.releasing_groups \/ release
<1> DEFINE s == Q!Completed(q, j, release)
           c == Q!CountedOut(q, j, release)
           groups == IF release THEN q.releasing_groups \cup {j.group} ELSE q.releasing_groups
<1>1. c = [q EXCEPT !.releasing_groups = groups,
                    !.active_groups = [q.active_groups EXCEPT ![j.group] = q.active_groups[j.group] - 1]]
      BY DEF Q!CountedOut, QueueFields
<1>2. s = IF Q!Releases(c, j)
          THEN [c EXCEPT !.active_sessions = [c.active_sessions EXCEPT ![j.session] = None],
                         !.releasing_groups = c.releasing_groups \ {j.group}]
          ELSE c
      BY DEF Q!Completed
<1>3. Q!Releases(c, j) =>
          j.group \in c.releasing_groups /\ c.active_groups[j.group] = 0 /\ c.active_sessions[j.session] = j.group
      BY DEF Q!Releases
<1> HIDE DEF s, c, groups
<1>4. /\ DOMAIN c = QueueFields
      /\ c.pending = q.pending /\ c.scheduled = q.scheduled /\ c.active_sessions = q.active_sessions
      /\ c.releasing_groups = groups
      /\ c.active_groups = [q.active_groups EXCEPT ![j.group] = q.active_groups[j.group] - 1]
      BY <1>1 DEF QueueFields
<1>5. c.active_groups[j.group] = q.active_groups[j.group] - 1
      BY <1>4
<1>6. CASE Q!Releases(c, j)
  <2>1. s = [c EXCEPT !.active_sessions = [c.active_sessions EXCEPT ![j.session] = None],
                      !.releasing_groups = c.releasing_groups \ {j.group}]
        BY <1>2, <1>6
  <2>2. /\ DOMAIN s = QueueFields
        /\ s.pending = c.pending /\ s.scheduled = c.scheduled
        /\ s.active_sessions = [c.active_sessions EXCEPT ![j.session] = None]
        /\ s.releasing_groups = c.releasing_groups \ {j.group} /\ s.active_groups = c.active_groups
        BY <1>4, <2>1 DEF QueueFields
  <2>3. j.group \in groups /\ q.active_groups[j.group] - 1 = 0 /\ q.active_sessions[j.session] = j.group
        BY <1>3, <1>4, <1>5, <1>6
  <2>4. \A x \in DOMAIN q.active_sessions : x # j.session => s.active_sessions[x] = q.active_sessions[x]
        BY <1>4, <2>2
  <2>. QED BY <1>4, <2>2, <2>3, <2>4 DEF groups, s
<1>7. CASE ~Q!Releases(c, j)
      BY <1>2, <1>4, <1>7 DEF groups, s
<1>. QED BY <1>6, <1>7

\* close
LEMMA ClosedIs ==
    ASSUME NEW q, DOMAIN q = QueueFields
    PROVE  LET s == Q!Closed(q) IN
           /\ DOMAIN s = QueueFields /\ s.pending = q.pending
           /\ s.active_sessions = q.active_sessions /\ s.active_groups = q.active_groups
           /\ s.scheduled = q.scheduled /\ s.releasing_groups = q.releasing_groups
BY DEF Q!Closed, QueueFields

\* What is left of a list without its i-th entry
LEMMA RemoveAtIs ==
    ASSUME NEW S, NEW s \in Seq(S), NEW i \in DOMAIN s
    PROVE  /\ RemoveAt(s, i) \in Seq(S)
           /\ \A k \in DOMAIN s : k # i => \E l \in DOMAIN RemoveAt(s, i) : RemoveAt(s, i)[l] = s[k]
<1> DEFINE t == RemoveAt(s, i)
           a == SubSeq(s, 1, i - 1)
           b == SubSeq(s, i + 1, Len(s))
<1>0. i \in 1..Len(s) /\ Len(s) \in Nat
      OBVIOUS
<1>1. /\ a \in Seq(S) /\ Len(a) = i - 1 /\ \A k \in 1..(i - 1) : a[k] = s[k]
      BY <1>0
<1>2. /\ b \in Seq(S) /\ Len(b) = Len(s) - i /\ \A k \in 1..(Len(s) - i) : b[k] = s[i + k]
      BY <1>0
<1>3. t = a \o b
      BY DEF RemoveAt
<1> HIDE DEF a, b, t
<1>4. /\ t \in Seq(S) /\ Len(t) = Len(a) + Len(b)
      /\ \A k \in 1..Len(a) : t[k] = a[k]
      /\ \A k \in 1..Len(b) : t[Len(a) + k] = b[k]
  <2>1. /\ t \in Seq(S) /\ Len(t) = Len(a) + Len(b)
        /\ \A k \in 1..(Len(a) + Len(b)) : t[k] = IF k <= Len(a) THEN a[k] ELSE b[k - Len(a)]
        BY <1>1, <1>2, <1>3, ConcatProperties
  <2>2. Len(a) \in Nat /\ Len(b) \in Nat
        BY <1>1, <1>2
  <2>3. ASSUME NEW k \in 1..Len(b) PROVE t[Len(a) + k] = b[k]
    <3>1. Len(a) + k \in 1..(Len(a) + Len(b)) /\ ~(Len(a) + k <= Len(a)) /\ (Len(a) + k) - Len(a) = k
          BY <2>2
    <3>. QED BY <2>1, <3>1
  <2>. QED BY <2>1, <2>2, <2>3
<1>5. ASSUME NEW k \in DOMAIN s, k # i PROVE \E l \in DOMAIN t : t[l] = s[k]
  <2>0. k \in 1..Len(s) /\ DOMAIN t = 1..Len(t)
        BY <1>4
  <2>1. CASE k < i
    <3>1. k \in 1..Len(a) /\ k \in DOMAIN t /\ t[k] = s[k]
          BY <1>0, <1>1, <1>2, <1>4, <2>0, <2>1
    <3>. QED BY <3>1
  <2>2. CASE k > i
    <3>0. Len(b) = Len(s) - i /\ Len(a) = i - 1 /\ Len(t) = Len(s) - 1
          BY <1>0, <1>1, <1>2, <1>4
    <3>a. k \in Int /\ i \in Int /\ Len(s) \in Int /\ i >= 1 /\ k <= Len(s)
          BY <1>0, <2>0
    <3>b. k - i \in 1..(Len(s) - i) /\ (i - 1) + (k - i) = k - 1 /\ i + (k - i) = k /\ k - 1 \in 1..(Len(s) - 1)
          BY <2>2, <3>a
    <3>1. k - i \in 1..Len(b) /\ Len(a) + (k - i) = k - 1 /\ i + (k - i) = k /\ k - 1 \in DOMAIN t
          BY <2>0, <3>0, <3>b
    <3>2. t[k - 1] = b[k - i] /\ b[k - i] = s[k]
          BY <1>2, <1>4, <3>1
    <3>. QED BY <3>1, <3>2
  <2>. QED BY <1>0, <1>5, <2>0, <2>1, <2>2
<1>. QED BY <1>4, <1>5 DEF t
-------------------------------------------------------------------------------
(* The steps of the server. *)

\* What a step about group g leaves of what the threads know
LEMMA TendsKeeps ==
    ASSUME Rooted(runtime), NEW g, Tends(runtime, runtime', g)
    PROVE  /\ Known(runtime) \subseteq Known(runtime') /\ Jobs(runtime) \subseteq Jobs(runtime')
           /\ \A e \in Known(runtime) :
                 /\ GroupIn(runtime', e) = GroupIn(runtime, e) /\ ParentOf(runtime', e) = ParentOf(runtime, e)
                 /\ MayRun(runtime', e) => MayRun(runtime, e)
                 /\ AtRest(runtime, e) => AtRest(runtime', e)
           /\ \A e \in Known(runtime') \ Known(runtime) : GroupIn(runtime', e) = g
<1>1. Rooted(runtime') /\ Keeps(runtime, runtime') /\ Sprouts(runtime, runtime') /\ Later(runtime, runtime')
      BY DEF Tends, Keeps
<1>2. Jobs(runtime) \subseteq Jobs(runtime')
      BY <1>1, JobsStay
<1>3. ASSUME NEW e \in Known(runtime)
      PROVE  /\ GroupIn(runtime', e) = GroupIn(runtime, e)
             /\ MayRun(runtime', e) => MayRun(runtime, e)
             /\ AtRest(runtime, e) => AtRest(runtime', e)
      BY <1>1, GroupStays, MayRunBefore, RestStays
<1>4. /\ Known(runtime) \subseteq Known(runtime')
      /\ \A e \in Known(runtime) : ParentOf(runtime', e) = ParentOf(runtime, e)
      BY <1>1 DEF Later
<1>. QED BY <1>2, <1>3, <1>4 DEF Tends

\* Lists of jobs stay lists of jobs.
LEMMA JobListsStay ==
    ASSUME NEW J, NEW K, J \subseteq K
    PROVE  Seq(J) \subseteq Seq(K)
<1> SUFFICES ASSUME NEW s \in Seq(J) PROVE s \in Seq(K)
    OBVIOUS
<1>1. Len(s) \in Nat /\ s \in [1..Len(s) -> J]
      OBVIOUS
<1>2. s \in [1..Len(s) -> K]
      BY <1>1
<1>. QED BY <1>1, <1>2

\* A worker goes on with its job, and may change its group in the tree.  What it leaves behind
\* unbegun may not run, and what it leaves behind does not run.
LEMMA WorkerGoes ==
    ASSUME TreeInOrder, ServerInOrder, NEW w \in Workers, NEW place, Goes(w, place),
           Tends(runtime, runtime', job[w].group),
           pc[w] \in {"taken", "started", "running"},
           place \in {"started", "running", "finished", "failing"},
           NonResumable(runtime') \subseteq NonResumable(runtime) \cup {job[w].execution},
           job[w].execution \in NonResumable(runtime') =>
              \/ place \in {"running", "failing"}
              \/ pc[w] # "running" /\ job[w].execution \in NonResumable(runtime),
           place \in {"started", "failing"} \/ pc[w] = "running" \/ ~MayRun(runtime', job[w].execution)
    PROVE  ServerInOrder'
<1> DEFINE e == job[w].execution
<1>a. Rooted(runtime)
      BY SoundIsRooted DEF TreeInOrder
<1>b. QueueTypes /\ ThreadTypes /\ HandsAreCounted
      BY DEF ServerInOrder
<1>c. /\ UNCHANGED <<queue, job, reader, todo, quiet>>
      /\ pc' = [pc EXCEPT ![w] = place]
      BY DEF Goes
<1>d. /\ pc \in [Workers -> Busy \cup Idle \cup {"dead"}] /\ pc[w] \in Busy /\ place \in Busy
      BY <1>b DEF ThreadTypes, Busy
<1>e. pc'[w] = place /\ \A v \in Workers : v # w => pc'[v] = pc[v]
      BY <1>c, <1>d
<1>f. \A v \in Workers : pc'[v] \in Busy <=> pc[v] \in Busy
      BY <1>d, <1>e
<1>1. job[w] \in Jobs(runtime)
      BY <1>b, <1>d DEF ThreadTypes
<1>2. e \in Known(runtime) /\ job[w].group = GroupIn(runtime, e)
      BY <1>a, <1>1, JobIs
<1>3. /\ Known(runtime) \subseteq Known(runtime') /\ Jobs(runtime) \subseteq Jobs(runtime')
      /\ \A x \in Known(runtime) :
            /\ GroupIn(runtime', x) = GroupIn(runtime, x) /\ ParentOf(runtime', x) = ParentOf(runtime, x)
            /\ MayRun(runtime', x) => MayRun(runtime, x)
            /\ AtRest(runtime, x) => AtRest(runtime', x)
      /\ \A x \in Known(runtime') \ Known(runtime) : GroupIn(runtime', x) = job[w].group
      BY <1>a, TendsKeeps
<1>4. QueueTypes'
      BY <1>b, <1>c, <1>3, JobListsStay DEF QueueTypes
<1>5. ThreadTypes'
  <2>1. pc' \in [Workers -> Busy \cup Idle \cup {"dead"}]
        BY <1>c, <1>d
  <2>2. \A v \in Workers : IF pc'[v] \in Busy THEN job'[v] \in Jobs(runtime') ELSE job'[v] = None
        BY <1>b, <1>c, <1>f, <1>3 DEF ThreadTypes
  <2>3. \A t \in Threads : todo'[t] \in Seq(Jobs(runtime'))
        BY <1>b, <1>c, <1>3, JobListsStay DEF ThreadTypes
  <2>4. \A v \in Workers : pc'[v] # "enqueuing" => todo'[v] = <<>>
        BY <1>b, <1>c, <1>e DEF ThreadTypes
  <2>. QED BY <1>b, <1>c, <1>3, <2>1, <2>2, <2>3, <2>4 DEF ThreadTypes
<1>6. HandsAreCounted'
  <2>1. \A g \in Ids : Hands(g)' = Hands(g)
        BY <1>c, <1>f DEF Hands
  <2>. QED BY <1>b, <1>c, <2>1 DEF HandsAreCounted
<1>7. ASSUME NoErrors' PROVE ScheduledIsOnItsWay' /\ NothingLost' /\ RunningIsManned' /\ RestIsLasting'
  <2>0. place # "failing" /\ NoErrors
        BY <1>c, <1>e, <1>7 DEF NoErrors
  <2>a. ScheduledIsOnItsWay /\ NothingLost /\ RunningIsManned /\ RestIsLasting
        BY <2>0 DEF ServerInOrder
  <2>1. ASSUME NEW x \in queue'.scheduled, MayRun(runtime', x) PROVE IsQueued(x)' \/ IsInHand(x)'
    <3>1. x \in queue.scheduled /\ MayRun(runtime, x)
          BY <1>b, <1>c, <1>3, <2>1 DEF QueueTypes
    <3>2. CASE IsQueued(x)
          BY <1>c, <3>2 DEF IsQueued
    <3>3. CASE IsInHand(x)
      <4>1. PICK v \in Workers : pc[v] \in {"taken", "started"} /\ job[v].execution = x
            BY <3>3 DEF IsInHand
      <4>2. v = w => place = "started"
            BY <2>0, <2>1, <4>1
      <4>. QED BY <1>c, <1>e, <4>1, <4>2 DEF IsInHand
    <3>. QED BY <2>a, <3>1, <3>2, <3>3 DEF ScheduledIsOnItsWay
  <2>2. ASSUME NEW x \in Known(runtime'), MayRun(runtime', x)
        PROVE  IsQueued(x)' \/ IsListed(x)' \/ WillBeListed(x)'
    <3>0. pc'[w] \in {"taken", "started", "running", "finished"} /\ job'[w].group = job[w].group
          BY <1>c, <1>e, <2>0
    <3>1. CASE x \notin Known(runtime)
          BY <1>3, <3>0, <3>1 DEF WillBeListed
    <3>2. CASE x \in Known(runtime)
      <4>1. MayRun(runtime, x) /\ GroupIn(runtime', x) = GroupIn(runtime, x)
            BY <1>3, <2>2, <3>2
      <4>2. IsQueued(x) => IsQueued(x)'
            BY <1>c DEF IsQueued
      <4>3. IsListed(x) => IsListed(x)'
            BY <1>c DEF IsListed
      <4>4. WillBeListed(x) => WillBeListed(x)'
            BY <1>c, <1>e, <3>0, <4>1 DEF WillBeListed
      <4>. QED BY <2>a, <3>2, <4>1, <4>2, <4>3, <4>4 DEF NothingLost
    <3>. QED BY <3>1, <3>2
  <2>3. ASSUME NEW x \in NonResumable(runtime') PROVE \E v \in Workers : pc'[v] = "running" /\ job'[v].execution = x
    <3>1. CASE x # e
      <4>1. PICK v \in Workers : pc[v] = "running" /\ job[v].execution = x
            BY <2>a, <2>3, <3>1 DEF RunningIsManned
      <4>. QED BY <1>c, <1>e, <3>1, <4>1
    <3>2. CASE x = e /\ place = "running"
          BY <1>c, <1>e, <3>2
    <3>3. CASE x = e /\ place # "running"
      <4>1. pc[w] # "running" /\ e \in NonResumable(runtime)
            BY <2>0, <2>3, <3>3
      <4>2. PICK v \in Workers : pc[v] = "running" /\ job[v].execution = x
            BY <2>a, <3>3, <4>1 DEF RunningIsManned
      <4>. QED BY <1>c, <1>e, <4>1, <4>2
    <3>. QED BY <3>1, <3>2, <3>3
  <2>4. RestIsLasting'
    <3>1. ASSUME NEW v \in Workers, pc'[v] = "completing", quiet'[v] PROVE AtRest(runtime', job'[v].group)
      <4>1. v # w /\ pc[v] = "completing" /\ quiet[v]
            BY <1>c, <1>e, <3>1
      <4>2. job[v] \in Jobs(runtime)
            BY <1>b, <4>1 DEF ThreadTypes, Busy
      <4>3. job[v].group \in Known(runtime)
            BY <1>a, <4>2, JobIs
      <4>. QED BY <1>c, <1>3, <2>a, <4>1, <4>3 DEF RestIsLasting
    <3>2. \A g \in queue'.releasing_groups : AtRest(runtime', g)
          BY <1>b, <1>c, <1>3, <2>a DEF RestIsLasting, QueueTypes
    <3>. QED BY <3>1, <3>2 DEF RestIsLasting
  <2>. QED BY <2>1, <2>2, <2>3, <2>4 DEF ScheduledIsOnItsWay, NothingLost, RunningIsManned
<1>. QED BY <1>4, <1>5, <1>6, <1>7 DEF ServerInOrder

\* The reader changes the tree; what it creates it will list.
LEMMA ReaderTends ==
    ASSUME TreeInOrder, ServerInOrder, UNCHANGED <<queue, pc, job, todo, quiet>>, reader.pc = "reading",
           NEW g, Tends(runtime, runtime', g), NonResumable(runtime') \subseteq NonResumable(runtime),
           \/ reader' = reader /\ Known(runtime') = Known(runtime)
           \/ /\ reader' = [pc |-> "submitted", group |-> g]
              /\ g \in Known(runtime') /\ ParentOf(runtime', g) = None
    PROVE  ServerInOrder'
<1>a. Rooted(runtime)
      BY SoundIsRooted DEF TreeInOrder
<1>b. QueueTypes /\ ThreadTypes /\ HandsAreCounted
      BY DEF ServerInOrder
<1>3. /\ Known(runtime) \subseteq Known(runtime') /\ Jobs(runtime) \subseteq Jobs(runtime')
      /\ \A x \in Known(runtime) :
            /\ GroupIn(runtime', x) = GroupIn(runtime, x) /\ ParentOf(runtime', x) = ParentOf(runtime, x)
            /\ MayRun(runtime', x) => MayRun(runtime, x)
            /\ AtRest(runtime, x) => AtRest(runtime', x)
      /\ \A x \in Known(runtime') \ Known(runtime) : GroupIn(runtime', x) = g
      BY <1>a, TendsKeeps
<1>4. QueueTypes'
      BY <1>b, <1>3, JobListsStay DEF QueueTypes
<1>5. ThreadTypes'
  <2>1. \A t \in Threads : todo'[t] \in Seq(Jobs(runtime'))
        BY <1>b, <1>3, JobListsStay DEF ThreadTypes
  <2>2. \A v \in Workers : IF pc'[v] \in Busy THEN job'[v] \in Jobs(runtime') ELSE job'[v] = None
        BY <1>b, <1>3 DEF ThreadTypes
  <2>3. /\ DOMAIN reader' = {"pc", "group"} /\ todo'["reader"] = <<>>
        /\ reader'.pc = "submitted" =>
             reader'.group \in Known(runtime') /\ ParentOf(runtime', reader'.group) = None
        /\ reader'.pc \in {"reading", "enqueuing"} => reader'.group = None
        BY <1>b DEF ThreadTypes
  <2>. QED BY <1>b, <2>1, <2>2, <2>3 DEF ThreadTypes
<1>6. HandsAreCounted'
  <2>1. \A h \in Ids : Hands(h)' = Hands(h)
        BY DEF Hands
  <2>. QED BY <1>b, <2>1 DEF HandsAreCounted
<1>7. ASSUME NoErrors' PROVE ScheduledIsOnItsWay' /\ NothingLost' /\ RunningIsManned' /\ RestIsLasting'
  <2>0. NoErrors
        BY <1>7 DEF NoErrors
  <2>a. ScheduledIsOnItsWay /\ NothingLost /\ RunningIsManned /\ RestIsLasting
        BY <2>0 DEF ServerInOrder
  <2>1. ScheduledIsOnItsWay'
        BY <1>b, <1>3, <2>a DEF ScheduledIsOnItsWay, QueueTypes, IsQueued, IsInHand
  <2>2. ASSUME NEW x \in Known(runtime'), MayRun(runtime', x)
        PROVE  IsQueued(x)' \/ IsListed(x)' \/ WillBeListed(x)'
    <3>1. CASE x \notin Known(runtime)
          BY <1>3, <3>1 DEF WillBeListed
    <3>2. CASE x \in Known(runtime)
      <4>1. MayRun(runtime, x) /\ GroupIn(runtime', x) = GroupIn(runtime, x)
            BY <1>3, <2>2, <3>2
      <4>2. (IsQueued(x) => IsQueued(x)') /\ (IsListed(x) => IsListed(x)')
            BY DEF IsQueued, IsListed
      <4>4. WillBeListed(x) => WillBeListed(x)'
            BY <4>1 DEF WillBeListed
      <4>. QED BY <2>a, <3>2, <4>1, <4>2, <4>4 DEF NothingLost
    <3>. QED BY <3>1, <3>2
  <2>3. RunningIsManned'
        BY <2>a DEF RunningIsManned
  <2>4. RestIsLasting'
    <3>1. ASSUME NEW v \in Workers, pc'[v] = "completing", quiet'[v] PROVE AtRest(runtime', job'[v].group)
      <4>2. job[v] \in Jobs(runtime)
            BY <1>b, <3>1 DEF ThreadTypes, Busy
      <4>3. job[v].group \in Known(runtime)
            BY <1>a, <4>2, JobIs
      <4>. QED BY <1>3, <2>a, <3>1, <4>3 DEF RestIsLasting
    <3>2. \A h \in queue'.releasing_groups : AtRest(runtime', h)
          BY <1>b, <1>3, <2>a DEF RestIsLasting, QueueTypes
    <3>. QED BY <3>1, <3>2 DEF RestIsLasting
  <2>. QED BY <2>1, <2>2, <2>3, <2>4 DEF NothingLost
<1>. QED BY <1>4, <1>5, <1>6, <1>7 DEF ServerInOrder

\* Workers that have no job wake, wait or leave.
Undisturbed ==
    /\ pc' \in [Workers -> Busy \cup Idle \cup {"dead"}]
    /\ \A w \in Workers : pc'[w] = pc[w] \/ (pc[w] \in Idle /\ pc'[w] \in Idle)

\* Nobody's job is disturbed by that.
LEMMA JobsUndisturbed ==
    ASSUME Undisturbed, job' = job
    PROVE  /\ \A w \in Workers : (pc'[w] \in Busy <=> pc[w] \in Busy) /\ (pc[w] \in Busy => pc'[w] = pc[w])
           /\ \A w \in Workers : pc'[w] \in Busy \cup {"dead"} => pc'[w] = pc[w]
           /\ \A g : Hands(g)' = Hands(g)
           /\ \A e : IsInHand(e)' <=> IsInHand(e)
<1>1. \A w \in Workers : /\ pc'[w] \in Busy <=> pc[w] \in Busy
                         /\ pc[w] \in Busy => pc'[w] = pc[w]
                         /\ pc'[w] \in Busy \cup {"dead"} => pc'[w] = pc[w]
      BY DEF Undisturbed, Busy, Idle
<1>2. \A g : Hands(g)' = Hands(g)
      BY <1>1 DEF Hands
<1>3. \A e : IsInHand(e)' <=> IsInHand(e)
      BY <1>1 DEF IsInHand, Busy
<1>. QED BY <1>1, <1>2, <1>3

\* Idle workers come and go, the reader rests or ends, the queue may be closed.
LEMMA IdleMoves ==
    ASSUME TreeInOrder, ServerInOrder, Undisturbed, UNCHANGED <<vars, job, todo, quiet>>,
           queue' = queue \/ queue' = Q!Closed(queue),
           \/ reader' = reader
           \/ reader.pc = "enqueuing" /\ todo["reader"] = <<>> /\ reader' = [reader EXCEPT !.pc = "reading"]
           \/ reader.pc \in {"reading", "submitted"} /\ reader' = [reader EXCEPT !.pc = "ended"]
    PROVE  ServerInOrder'
<1>b. QueueTypes /\ ThreadTypes /\ HandsAreCounted
      BY DEF ServerInOrder
<1>1. runtime' = runtime
      BY DEF vars
<1>2. /\ DOMAIN queue' = QueueFields /\ queue'.pending = queue.pending
      /\ queue'.active_sessions = queue.active_sessions /\ queue'.active_groups = queue.active_groups
      /\ queue'.scheduled = queue.scheduled /\ queue'.releasing_groups = queue.releasing_groups
      BY <1>b, ClosedIs DEF QueueTypes
<1>3. /\ \A w \in Workers : (pc'[w] \in Busy <=> pc[w] \in Busy) /\ (pc[w] \in Busy => pc'[w] = pc[w])
      /\ \A w \in Workers : pc'[w] \in Busy \cup {"dead"} => pc'[w] = pc[w]
      /\ \A g : Hands(g)' = Hands(g)
      /\ \A e : IsInHand(e)' <=> IsInHand(e)
      BY JobsUndisturbed
<1>4. QueueTypes'
      BY <1>b, <1>1, <1>2 DEF QueueTypes
<1>5. ThreadTypes'
  <2>1. /\ DOMAIN reader' = {"pc", "group"}
        /\ reader'.pc = "submitted" => reader' = reader
        /\ reader'.pc \in {"reading", "enqueuing"} => reader'.group = None
        /\ reader'.pc # "enqueuing" => todo["reader"] = <<>>
        BY <1>b DEF ThreadTypes
  <2>2. \A w \in Workers : pc'[w] # "enqueuing" => todo'[w] = <<>>
        BY <1>b, <1>3 DEF ThreadTypes, Busy
  <2>3. pc' \in [Workers -> Busy \cup Idle \cup {"dead"}]
        BY DEF Undisturbed
  <2>. QED BY <1>b, <1>1, <1>3, <2>1, <2>2, <2>3 DEF ThreadTypes
<1>6. HandsAreCounted'
      BY <1>b, <1>2, <1>3 DEF HandsAreCounted
<1>7. ASSUME NoErrors' PROVE ScheduledIsOnItsWay' /\ NothingLost' /\ RunningIsManned' /\ RestIsLasting'
  <2>0. NoErrors
    <3>1. \A w \in Workers : pc[w] \notin {"failing", "dead"}
          BY <1>3, <1>7 DEF NoErrors, Busy, Idle, Undisturbed
    <3>2. ~(reader.pc = "ended" /\ reader.group # None)
          BY <1>7 DEF NoErrors
    <3>. QED BY <3>1, <3>2 DEF NoErrors
  <2>a. ScheduledIsOnItsWay /\ NothingLost /\ RunningIsManned /\ RestIsLasting
        BY <2>0 DEF ServerInOrder
  <2>b. reader.pc = "submitted" => reader' = reader
    <3>1. reader.pc = "submitted" => reader.group # None
          BY <1>b, SoundIsRooted DEF ThreadTypes, TreeInOrder, Rooted
    <3>2. reader.group # None => reader' # [reader EXCEPT !.pc = "ended"]
          BY <1>b, <1>7 DEF NoErrors, ThreadTypes
    <3>. QED BY <3>1, <3>2
  <2>1. ScheduledIsOnItsWay'
        BY <1>1, <1>2, <1>3, <2>a DEF ScheduledIsOnItsWay, IsQueued
  <2>2. ASSUME NEW x \in Known(runtime), MayRun(runtime, x)
        PROVE  IsQueued(x)' \/ IsListed(x)' \/ WillBeListed(x)'
    <3>1. IsQueued(x) => IsQueued(x)'
          BY <1>2 DEF IsQueued
    <3>2. IsListed(x) => IsListed(x)'
          BY DEF IsListed
    <3>3. WillBeListed(x) => WillBeListed(x)'
          BY <1>1, <1>3, <2>b DEF WillBeListed, Busy
    <3>. QED BY <2>2, <2>a, <3>1, <3>2, <3>3 DEF NothingLost
  <2>3. RunningIsManned'
        BY <1>1, <1>3, <2>a DEF RunningIsManned, Busy
  <2>4. RestIsLasting'
        BY <1>1, <1>2, <1>3, <2>a DEF RestIsLasting, Busy
  <2>. QED BY <1>1, <2>1, <2>2, <2>3, <2>4 DEF NothingLost
<1>. QED BY <1>4, <1>5, <1>6, <1>7 DEF ServerInOrder

\* The head of a list, and the rest
LEMMA HeadAndTail ==
    ASSUME NEW S, NEW s \in Seq(S), s # <<>>
    PROVE  /\ Head(s) \in S /\ Tail(s) \in Seq(S)
           /\ \A i \in DOMAIN s : s[i] = Head(s) \/ \E k \in DOMAIN Tail(s) : Tail(s)[k] = s[i]
<1>1. Len(s) \in Nat /\ Len(s) # 0 /\ DOMAIN s = 1..Len(s) /\ Head(s) = s[1] /\ 1 \in 1..Len(s)
      OBVIOUS
<1>2. /\ Tail(s) \in Seq(S) /\ Len(Tail(s)) = Len(s) - 1
      /\ \A k \in 1..(Len(s) - 1) : Tail(s)[k] = s[k + 1]
      OBVIOUS
<1>3. ASSUME NEW i \in DOMAIN s, i # 1 PROVE \E k \in DOMAIN Tail(s) : Tail(s)[k] = s[i]
  <2>1. i - 1 \in 1..(Len(s) - 1) /\ (i - 1) + 1 = i
        BY <1>1, <1>3
  <2>2. DOMAIN Tail(s) = 1..(Len(s) - 1)
        BY <1>2
  <2>. QED BY <1>2, <2>1, <2>2
<1>. QED BY <1>1, <1>2, <1>3

\* A list and one more
LEMMA AppendHas ==
    ASSUME NEW S, NEW s \in Seq(S), NEW x \in S
    PROVE  /\ Append(s, x) \in Seq(S)
           /\ \A i \in DOMAIN s : i \in DOMAIN Append(s, x) /\ Append(s, x)[i] = s[i]
           /\ \E i \in DOMAIN Append(s, x) : Append(s, x)[i] = x
<1>1. /\ Append(s, x) \in Seq(S) /\ Len(s) \in Nat
      /\ DOMAIN Append(s, x) = 1..(Len(s) + 1) /\ DOMAIN s = 1..Len(s)
      /\ Append(s, x)[Len(s) + 1] = x /\ \A i \in 1..Len(s) : Append(s, x)[i] = s[i]
      OBVIOUS
<1>2. Len(s) + 1 \in 1..(Len(s) + 1) /\ \A i \in 1..Len(s) : i \in 1..(Len(s) + 1)
      BY <1>1
<1>. QED BY <1>1, <1>2

\* A job is enqueued: it is in the queue, unless it was scheduled, and then it is or was in
\* the queue or in hand.
LEMMA EnqueueKeeps ==
    ASSUME TreeInOrder, ServerInOrder, NEW t \in Threads, EnqueueNext(t),
           t = "reader" => reader.pc = "enqueuing", t \in Workers => pc[t] = "enqueuing",
           UNCHANGED <<vars, job, reader, quiet>>
    PROVE  ServerInOrder'
<1> DEFINE j == Head(todo[t])
<1>a. Rooted(runtime)
      BY SoundIsRooted DEF TreeInOrder
<1>b. QueueTypes /\ ThreadTypes /\ HandsAreCounted
      BY DEF ServerInOrder
<1>1. runtime' = runtime
      BY DEF vars
<1>2. /\ todo[t] \in Seq(Jobs(runtime)) /\ todo[t] # <<>>
      /\ queue' = Q!Enqueued(queue, j) /\ todo' = [todo EXCEPT ![t] = Tail(todo[t])]
      BY <1>b DEF ThreadTypes, EnqueueNext
<1>3. /\ j \in Jobs(runtime) /\ Tail(todo[t]) \in Seq(Jobs(runtime))
      /\ \A i \in DOMAIN todo[t] : todo[t][i] = j \/ \E k \in DOMAIN Tail(todo[t]) : Tail(todo[t])[k] = todo[t][i]
      BY <1>2, HeadAndTail
<1> HIDE DEF j
<1>4. /\ DOMAIN queue' = QueueFields
      /\ queue'.active_sessions = queue.active_sessions /\ queue'.active_groups = queue.active_groups
      /\ queue'.releasing_groups = queue.releasing_groups
      /\ j.execution \in queue.scheduled => queue' = queue
      /\ j.execution \notin queue.scheduled =>
            queue'.pending = Append(queue.pending, j) /\ queue'.scheduled = queue.scheduled \cup {j.execution}
      BY <1>b, <1>2, EnqueuedIs DEF QueueTypes
<1>5. /\ j.execution \in Known(runtime) /\ j.group = GroupIn(runtime, j.execution)
      BY <1>a, <1>3, JobIs
<1>6. /\ Append(queue.pending, j) \in Seq(Jobs(runtime))
      /\ \A i \in DOMAIN queue.pending :
            i \in DOMAIN Append(queue.pending, j) /\ Append(queue.pending, j)[i] = queue.pending[i]
      /\ \E i \in DOMAIN Append(queue.pending, j) : Append(queue.pending, j)[i] = j
  <2>1. queue.pending \in Seq(Jobs(runtime))
        BY <1>b DEF QueueTypes
  <2>2. j \in Jobs(runtime)
        BY <1>3
  <2> DEFINE S == Jobs(runtime)
             p == queue.pending
  <2> HIDE DEF S, p
  <2>3. p \in Seq(S) /\ j \in S
        BY <2>1, <2>2 DEF S, p
  <2>4. /\ Append(p, j) \in Seq(S)
        /\ \A i \in DOMAIN p : i \in DOMAIN Append(p, j) /\ Append(p, j)[i] = p[i]
        /\ \E i \in DOMAIN Append(p, j) : Append(p, j)[i] = j
        BY <2>3, AppendHas
  <2>. QED BY <2>4 DEF S, p
<1>7. Undisturbed
  <2>1. pc' = pc \/ pc' = Notified
        BY DEF EnqueueNext
  <2>. QED BY <1>b, <2>1, NotifiedIs DEF Undisturbed, ThreadTypes
<1>8. /\ \A w \in Workers : (pc'[w] \in Busy <=> pc[w] \in Busy) /\ (pc[w] \in Busy => pc'[w] = pc[w])
      /\ \A w \in Workers : pc'[w] \in Busy \cup {"dead"} => pc'[w] = pc[w]
      /\ \A g : Hands(g)' = Hands(g)
      /\ \A e : IsInHand(e)' <=> IsInHand(e)
      BY <1>7, JobsUndisturbed
<1>9. DOMAIN todo' = Threads /\ todo'[t] = Tail(todo[t]) /\ \A u \in Threads \ {t} : todo'[u] = todo[u]
      BY <1>b, <1>2 DEF ThreadTypes
<1>10. QueueTypes'
      BY <1>b, <1>1, <1>4, <1>5, <1>6 DEF QueueTypes
<1>11. ThreadTypes'
  <2>1. \A u \in Threads : todo'[u] \in Seq(Jobs(runtime))
        BY <1>b, <1>3, <1>9 DEF ThreadTypes
  <2>2. \A w \in Workers : pc'[w] # "enqueuing" => todo'[w] = <<>>
        BY <1>b, <1>8, <1>9 DEF ThreadTypes, Busy, Threads
  <2>3. reader.pc # "enqueuing" => todo'["reader"] = <<>>
        BY <1>b, <1>9 DEF ThreadTypes, Threads
  <2>4. pc' \in [Workers -> Busy \cup Idle \cup {"dead"}]
        BY <1>7 DEF Undisturbed
  <2>. QED BY <1>b, <1>1, <1>8, <1>9, <2>1, <2>2, <2>3, <2>4 DEF ThreadTypes
<1>12. HandsAreCounted'
      BY <1>b, <1>4, <1>8 DEF HandsAreCounted
<1>13. ASSUME NoErrors' PROVE ScheduledIsOnItsWay' /\ NothingLost' /\ RunningIsManned' /\ RestIsLasting'
  <2>0. NoErrors
        BY <1>7, <1>8, <1>13 DEF NoErrors, Busy, Idle, Undisturbed
  <2>a. ScheduledIsOnItsWay /\ NothingLost /\ RunningIsManned /\ RestIsLasting
        BY <2>0 DEF ServerInOrder
  <2>b. \A x : IsQueued(x) => IsQueued(x)'
        BY <1>4, <1>6 DEF IsQueued
  <2>c. ASSUME NEW x, x = j.execution, x \notin queue.scheduled PROVE IsQueued(x)'
        BY <1>4, <1>6, <2>c DEF IsQueued
  <2>1. ASSUME NEW x \in queue'.scheduled, MayRun(runtime, x) PROVE IsQueued(x)' \/ IsInHand(x)'
    <3>1. x \in queue.scheduled \/ (x = j.execution /\ j.execution \notin queue.scheduled)
          BY <1>4, <2>1
    <3>. QED BY <1>8, <2>a, <2>b, <2>c, <2>1, <3>1 DEF ScheduledIsOnItsWay
  <2>2. ASSUME NEW x \in Known(runtime), MayRun(runtime, x)
        PROVE  IsQueued(x)' \/ IsListed(x)' \/ WillBeListed(x)'
    <3>1. WillBeListed(x) => WillBeListed(x)'
          BY <1>1, <1>8 DEF WillBeListed, Busy
    <3>2. IsInHand(x) => WillBeListed(x)
      <4> SUFFICES ASSUME NEW w \in Workers, pc[w] \in {"taken", "started"}, job[w].execution = x
                   PROVE  WillBeListed(x)
          BY DEF IsInHand
      <4>1. job[w] \in Jobs(runtime)
            BY <1>b DEF ThreadTypes, Busy
      <4>2. job[w].group = GroupIn(runtime, x)
            BY <1>a, <4>1, JobIs
      <4>. QED BY <4>2 DEF WillBeListed
    <3>3. ASSUME IsListed(x), x # j.execution PROVE IsListed(x)'
      <4>1. PICK u \in Threads : \E i \in DOMAIN todo[u] : todo[u][i].execution = x
            BY <3>3 DEF IsListed
      <4>2. CASE u = t
        <5>1. PICK i \in DOMAIN todo[t] : todo[t][i].execution = x
              BY <4>1, <4>2
        <5>2. PICK k \in DOMAIN Tail(todo[t]) : Tail(todo[t])[k] = todo[t][i]
              BY <1>3, <3>3, <5>1
        <5>. QED BY <1>9, <5>1, <5>2 DEF IsListed
      <4>3. CASE u # t
            BY <1>9, <4>1, <4>3 DEF IsListed
      <4>. QED BY <4>2, <4>3
    <3>4. ASSUME x = j.execution PROVE IsQueued(x)' \/ WillBeListed(x)'
      <4>1. CASE x \in queue.scheduled
            BY <2>a, <2>b, <2>2, <3>1, <3>2, <4>1 DEF ScheduledIsOnItsWay
      <4>. QED BY <2>c, <3>4, <4>1
    <3>. QED BY <2>a, <2>b, <2>2, <3>1, <3>3, <3>4 DEF NothingLost
  <2>3. RunningIsManned'
        BY <1>1, <1>8, <2>a DEF RunningIsManned, Busy
  <2>4. RestIsLasting'
        BY <1>1, <1>4, <1>8, <2>a DEF RestIsLasting, Busy
  <2>. QED BY <1>1, <2>1, <2>2, <2>3, <2>4 DEF ScheduledIsOnItsWay, NothingLost
<1>. QED BY <1>10, <1>11, <1>12, <1>13 DEF ServerInOrder

\* A thread lists what is pending of a group, and everything of the group that may run is listed.
LEMMA CollectKeeps ==
    ASSUME TreeInOrder, ServerInOrder, NEW t \in Threads, NEW g \in Known(runtime), ParentOf(runtime, g) = None,
           todo[t] = <<>>, todo' = [todo EXCEPT ![t] = PendingJobs(g)],
           UNCHANGED <<vars, queue, job, quiet>>,
           \/ /\ t = "reader" /\ reader.pc = "submitted" /\ g = reader.group
              /\ reader' = [pc |-> "enqueuing", group |-> None] /\ pc' = pc
           \/ /\ t \in Workers /\ pc[t] = "finished" /\ g = job[t].group
              /\ pc' = [pc EXCEPT ![t] = "enqueuing"] /\ reader' = reader
    PROVE  ServerInOrder'
<1>a. Rooted(runtime) /\ Known(runtime) \subseteq Ids
      BY SoundIsRooted DEF TreeInOrder
<1>b. QueueTypes /\ ThreadTypes /\ HandsAreCounted
      BY DEF ServerInOrder
<1>1. runtime' = runtime
      BY DEF vars
<1>2. /\ PendingJobs(g) \in Seq(Jobs(runtime))
      /\ \A e \in Known(runtime) :
            GroupIn(runtime, e) = g /\ MayRun(runtime, e) =>
               \E i \in DOMAIN PendingJobs(g) : PendingJobs(g)[i].execution = e
      BY <1>a, PendingIs
<1>3. DOMAIN todo' = Threads /\ todo'[t] = PendingJobs(g) /\ \A u \in Threads \ {t} : todo'[u] = todo[u]
      BY <1>b DEF ThreadTypes
<1>4. /\ pc' \in [Workers -> Busy \cup Idle \cup {"dead"}]
      /\ \A w \in Workers : \/ pc'[w] = pc[w]
                            \/ w = t /\ pc[w] = "finished" /\ pc'[w] = "enqueuing" /\ job[w].group = g
      BY <1>b DEF ThreadTypes, Busy
<1>5. \A w \in Workers : pc'[w] \in Busy <=> pc[w] \in Busy
      BY <1>4 DEF Busy
<1>6. "reader" \notin Workers
      BY ServerAssumption
<1>7. QueueTypes'
      BY <1>b, <1>1 DEF QueueTypes
<1>8. ThreadTypes'
  <2>1. \A u \in Threads : todo'[u] \in Seq(Jobs(runtime))
        BY <1>b, <1>2, <1>3 DEF ThreadTypes
  <2>2. \A w \in Workers : pc'[w] # "enqueuing" => todo'[w] = <<>>
    <3> SUFFICES ASSUME NEW w \in Workers, pc'[w] # "enqueuing" PROVE todo'[w] = <<>>
        OBVIOUS
    <3>1. w # t /\ pc'[w] = pc[w]
          BY <1>b, <1>4, <1>6 DEF ThreadTypes
    <3>. QED BY <1>b, <1>3, <3>1 DEF ThreadTypes, Threads
  <2>3. reader'.pc # "enqueuing" => todo'["reader"] = <<>>
        BY <1>b, <1>3, <1>6 DEF ThreadTypes, Threads
  <2>4. /\ DOMAIN reader' = {"pc", "group"}
        /\ reader'.pc = "submitted" => reader' = reader
        /\ reader'.pc \in {"reading", "enqueuing"} => reader'.group = None
        BY <1>b DEF ThreadTypes
  <2>5. \A w \in Workers : IF pc'[w] \in Busy THEN job'[w] \in Jobs(runtime') ELSE job'[w] = None
        BY <1>b, <1>1, <1>5 DEF ThreadTypes
  <2>. QED BY <1>b, <1>1, <1>3, <1>4, <2>1, <2>2, <2>3, <2>4, <2>5 DEF ThreadTypes
<1>9. HandsAreCounted'
  <2>1. \A h \in Ids : Hands(h)' = Hands(h)
        BY <1>5 DEF Hands
  <2>. QED BY <1>b, <2>1 DEF HandsAreCounted
<1>10. ASSUME NoErrors' PROVE ScheduledIsOnItsWay' /\ NothingLost' /\ RunningIsManned' /\ RestIsLasting'
  <2>0. NoErrors
        BY <1>4, <1>10 DEF NoErrors
  <2>a. ScheduledIsOnItsWay /\ NothingLost /\ RunningIsManned /\ RestIsLasting
        BY <2>0 DEF ServerInOrder
  <2>1. ScheduledIsOnItsWay'
        BY <1>1, <1>4, <2>a DEF ScheduledIsOnItsWay, IsQueued, IsInHand
  <2>2. ASSUME NEW x \in Known(runtime), MayRun(runtime, x)
        PROVE  IsQueued(x)' \/ IsListed(x)' \/ WillBeListed(x)'
    <3>1. IsQueued(x) => IsQueued(x)'
          BY DEF IsQueued
    <3>2. ASSUME IsListed(x) PROVE IsListed(x)'
      <4>1. PICK u \in Threads : \E i \in DOMAIN todo[u] : todo[u][i].execution = x
            BY <3>2 DEF IsListed
      <4>2. u # t
            BY <4>1
      <4>. QED BY <1>3, <4>1, <4>2 DEF IsListed
    <3>3. GroupIn(runtime, x) = g => IsListed(x)'
          BY <1>2, <1>3, <2>2 DEF IsListed
    <3>4. ASSUME WillBeListed(x), GroupIn(runtime, x) # g PROVE WillBeListed(x)'
      <4>1. CASE reader.pc = "submitted" /\ reader.group = GroupIn(runtime, x)
            BY <1>1, <3>4, <4>1 DEF WillBeListed
      <4>2. ASSUME NEW w \in Workers, pc[w] \in {"taken", "started", "running", "finished"},
                   job[w].group = GroupIn(runtime, x)
            PROVE  WillBeListed(x)'
        <5>1. pc'[w] = pc[w]
              BY <1>4, <3>4, <4>2
        <5>. QED BY <1>1, <4>2, <5>1 DEF WillBeListed
      <4>. QED BY <3>4, <4>1, <4>2 DEF WillBeListed
    <3>. QED BY <2>2, <2>a, <3>1, <3>2, <3>3, <3>4 DEF NothingLost
  <2>3. RunningIsManned'
        BY <1>1, <1>4, <2>a DEF RunningIsManned
  <2>4. RestIsLasting'
        BY <1>1, <1>4, <2>a DEF RestIsLasting
  <2>. QED BY <1>1, <2>1, <2>2, <2>3, <2>4 DEF NothingLost
<1>. QED BY <1>7, <1>8, <1>9, <1>10 DEF ServerInOrder

\* A worker takes a job, which is then in hand, and counted.
LEMMA TakeKeeps ==
    ASSUME TreeInOrder, ServerInOrder, NEW w \in Workers, Take(w)
    PROVE  /\ ServerInOrder'
           /\ \A s \in Sessions :
                 queue.active_sessions[s] # None => queue'.active_sessions[s] = queue.active_sessions[s]
<1>a. Rooted(runtime) /\ Known(runtime) \subseteq Ids
      BY SoundIsRooted DEF TreeInOrder
<1>b. QueueTypes /\ ThreadTypes /\ HandsAreCounted
      BY DEF ServerInOrder
<1>1. /\ runtime' = runtime /\ UNCHANGED <<reader, todo, quiet>> /\ pc[w] = "next"
      /\ pc' = [pc EXCEPT ![w] = "taken"]
      BY DEF Take, vars
<1>2. PICK i \in DOMAIN queue.pending :
          queue' = Q!Taken(queue, i) /\ job' = [job EXCEPT ![w] = queue.pending[i]]
      BY DEF Take
<1> DEFINE j == queue.pending[i]
<1>3. j \in Jobs(runtime) /\ queue.pending \in Seq(Jobs(runtime))
      BY <1>b DEF QueueTypes
<1>4. /\ j.execution \in Known(runtime) /\ j.group = GroupIn(runtime, j.execution) /\ j.group \in Ids
      BY <1>a, <1>3, JobIs
<1>5. /\ DOMAIN queue' = QueueFields
      /\ queue'.pending = RemoveAt(queue.pending, i)
      /\ queue'.scheduled = queue.scheduled /\ queue'.releasing_groups = queue.releasing_groups
      /\ DOMAIN queue'.active_sessions = Sessions
      /\ \A x \in Sessions :
            queue.active_sessions[x] # None => queue'.active_sessions[x] = queue.active_sessions[x]
      /\ queue'.active_groups = [queue.active_groups EXCEPT ![j.group] = queue.active_groups[j.group] + 1]
  <2>1. /\ DOMAIN queue = QueueFields /\ queue.active_groups \in [Ids -> Nat]
        /\ DOMAIN queue.active_sessions = Sessions
        BY <1>b DEF QueueTypes
  <2> DEFINE q == queue
             s == queue'
  <2>2. q.pending[i].group \in Ids /\ s = Q!Taken(q, i)
        BY <1>2, <1>4
  <2> HIDE DEF q, s
  <2>3. /\ DOMAIN s = QueueFields
        /\ s.pending = RemoveAt(q.pending, i)
        /\ s.scheduled = q.scheduled /\ s.releasing_groups = q.releasing_groups
        /\ DOMAIN s.active_sessions = DOMAIN q.active_sessions
        /\ \A x \in DOMAIN q.active_sessions :
              q.active_sessions[x] # None => s.active_sessions[x] = q.active_sessions[x]
        /\ s.active_groups = [q.active_groups EXCEPT ![q.pending[i].group] = q.active_groups[q.pending[i].group] + 1]
        BY <2>1, <2>2, TakenIs, Zenon DEF q
  <2>. QED BY <2>1, <2>3 DEF q, s
<1>6. /\ RemoveAt(queue.pending, i) \in Seq(Jobs(runtime))
      /\ \A k \in DOMAIN queue.pending : k # i =>
            \E l \in DOMAIN RemoveAt(queue.pending, i) : RemoveAt(queue.pending, i)[l] = queue.pending[k]
      BY <1>3, RemoveAtIs
<1>7. /\ pc'[w] = "taken" /\ job'[w] = j /\ DOMAIN job' = Workers
      /\ \A v \in Workers \ {w} : pc'[v] = pc[v] /\ job'[v] = job[v]
      /\ pc' \in [Workers -> Busy \cup Idle \cup {"dead"}]
      BY <1>b, <1>1, <1>2 DEF ThreadTypes, Busy
<1> HIDE DEF j
<1>8. QueueTypes'
  <2>1. queue'.active_groups \in [Ids -> Nat]
        BY <1>b, <1>4, <1>5 DEF QueueTypes
  <2>. QED BY <1>b, <1>1, <1>5, <1>6, <2>1 DEF QueueTypes
<1>9. ThreadTypes'
  <2>1. \A v \in Workers : IF pc'[v] \in Busy THEN job'[v] \in Jobs(runtime') ELSE job'[v] = None
        BY <1>b, <1>1, <1>3, <1>7 DEF ThreadTypes, Busy
  <2>2. \A v \in Workers : pc'[v] # "enqueuing" => todo'[v] = <<>>
        BY <1>b, <1>1, <1>7 DEF ThreadTypes
  <2>. QED BY <1>b, <1>1, <1>7, <2>1, <2>2 DEF ThreadTypes
<1>10. ASSUME NEW g \in Ids PROVE queue'.active_groups[g] = Cardinality(Hands(g)')
  <2>0. queue.active_groups[g] = Cardinality(Hands(g)) /\ queue.active_groups \in [Ids -> Nat]
        BY <1>b DEF HandsAreCounted, QueueTypes
  <2>1. w \notin Hands(g) /\ IsFiniteSet(Hands(g))
    <3>1. IsFiniteSet(Workers) /\ Hands(g) \subseteq Workers
          BY ServerAssumption DEF Hands
    <3>. QED BY <1>1, <3>1, FS_Subset DEF Hands, Busy
  <2>2. CASE g = j.group
    <3>1. Hands(g)' = Hands(g) \cup {w}
          BY <1>7, <2>2 DEF Hands, Busy
    <3>2. Cardinality(Hands(g) \cup {w}) = Cardinality(Hands(g)) + 1
          BY <2>1, FS_AddElement
    <3>3. queue'.active_groups[g] = queue.active_groups[g] + 1
          BY <1>5, <2>0, <2>2
    <3>. QED BY <2>0, <3>1, <3>2, <3>3
  <2>3. CASE g # j.group
    <3>1. Hands(g)' = Hands(g)
          BY <1>1, <1>7, <2>3 DEF Hands, Busy
    <3>2. queue'.active_groups[g] = queue.active_groups[g]
          BY <1>5, <2>0, <2>3
    <3>. QED BY <2>0, <3>1, <3>2
  <2>. QED BY <2>2, <2>3
<1>11. ASSUME NoErrors' PROVE ScheduledIsOnItsWay' /\ NothingLost' /\ RunningIsManned' /\ RestIsLasting'
  <2>0. NoErrors
        BY <1>1, <1>7, <1>11 DEF NoErrors
  <2>a. ScheduledIsOnItsWay /\ NothingLost /\ RunningIsManned /\ RestIsLasting
        BY <2>0 DEF ServerInOrder
  <2>b. ASSUME NEW x, IsQueued(x), x # j.execution PROVE IsQueued(x)'
    <3>1. PICK k \in DOMAIN queue.pending : queue.pending[k].execution = x
          BY <2>b DEF IsQueued
    <3>2. k # i
          BY <2>b, <3>1 DEF j
    <3>. QED BY <1>5, <1>6, <3>1, <3>2 DEF IsQueued
  <2>c. ASSUME NEW x, x = j.execution PROVE IsInHand(x)' /\ WillBeListed(x)'
        BY <1>1, <1>4, <1>7, <2>c DEF IsInHand, WillBeListed
  <2>d. \A x : (IsInHand(x) => IsInHand(x)') /\ (WillBeListed(x) => WillBeListed(x)')
        BY <1>1, <1>7 DEF IsInHand, WillBeListed
  <2>1. ScheduledIsOnItsWay'
        BY <1>1, <1>5, <2>a, <2>b, <2>c, <2>d DEF ScheduledIsOnItsWay
  <2>2. NothingLost'
    <3>1. \A x : IsListed(x) => IsListed(x)'
          BY <1>1 DEF IsListed
    <3>. QED BY <1>1, <2>a, <2>b, <2>c, <2>d, <3>1 DEF NothingLost
  <2>3. RunningIsManned'
        BY <1>1, <1>7, <2>a DEF RunningIsManned
  <2>4. RestIsLasting'
        BY <1>1, <1>5, <1>7, <2>a DEF RestIsLasting
  <2>. QED BY <2>1, <2>2, <2>3, <2>4
<1>. QED BY <1>5, <1>8, <1>9, <1>10, <1>11 DEF ServerInOrder, HandsAreCounted

\* What is read as quiescent is at rest: whatever is still live there is an agent that is
\* kept from running.
LEMMA QuiescentIsAtRest ==
    ASSUME TreeInOrder, NEW g \in Known(runtime), ParentOf(runtime, g) = None, Quiescent(g)
    PROVE  AtRest(runtime, g)
<1> SUFFICES ASSUME NEW e \in {g} \cup Descendants(runtime, g), Live(runtime, e)
             PROVE  runtime.executions[e].kind = "Agent" /\ Blocked(runtime, e)
    BY DEF AtRest
<1>0. e \in Known(runtime) /\ Rooted(runtime)
      BY SoundIsRooted DEF Descendants, Children, TreeInOrder
<1>1. StateOf(runtime, e) \in States /\ runtime.executions[e].kind \in Kinds
      BY <1>0, SoundHas DEF TreeInOrder, Placed, StateOf
<1>2. StateOf(runtime, e) # "Running" /\ ~Runnable(e)
      BY DEF Quiescent, InGroup
<1>3. StateOf(runtime, e) = "Pending"
      BY <1>1, <1>2 DEF States, Live, Terminal
<1>4. Blocked(runtime, e)
      BY <1>2, <1>3 DEF Runnable, HasBlockingAncestor, Blocked
<1>5. runtime.executions[e].kind # "Orchestration"
  <2> SUFFICES ASSUME runtime.executions[e].kind = "Orchestration" PROVE FALSE
      OBVIOUS
  <2>1. Settled(runtime, e)
        BY <1>0 DEF TreeInOrder, Calm, Orchestrations
  <2>. QED BY <1>2, <2>1 DEF Settled
<1>6. runtime.executions[e].kind # "Root"
  <2> SUFFICES ASSUME runtime.executions[e].kind = "Root" PROVE FALSE
      OBVIOUS
  <2>1. ParentOf(runtime, e) = None
        BY <1>0 DEF Rooted
  <2>2. PICK a \in Known(runtime) : e \in Descendants(runtime, a)
        BY <1>4 DEF Blocked
  <2>. QED BY <1>0, <2>1, <2>2 DEF Rooted, Descendants, Children
<1>. QED BY <1>1, <1>4, <1>5, <1>6 DEF Kinds

\* A worker reads whether its group is quiescent.
LEMMA ReadKeeps ==
    ASSUME TreeInOrder, ServerInOrder, NEW w \in Workers, ReadQuiescence(w)
    PROVE  ServerInOrder'
<1>a. Rooted(runtime)
      BY SoundIsRooted DEF TreeInOrder
<1>b. QueueTypes /\ ThreadTypes /\ HandsAreCounted
      BY DEF ServerInOrder
<1>1. /\ runtime' = runtime /\ UNCHANGED <<queue, job, reader, todo>>
      /\ pc[w] = "enqueuing" /\ todo[w] = <<>>
      /\ pc' = [pc EXCEPT ![w] = "completing"]
      /\ quiet' = [quiet EXCEPT ![w] = Quiescent(job[w].group)]
      BY DEF ReadQuiescence, vars
<1>2. /\ pc'[w] = "completing" /\ \A v \in Workers \ {w} : pc'[v] = pc[v] /\ quiet'[v] = quiet[v]
      /\ pc' \in [Workers -> Busy \cup Idle \cup {"dead"}]
      BY <1>b, <1>1 DEF ThreadTypes, Busy
<1>3. (quiet'[w] <=> Quiescent(job[w].group)) /\ quiet' \in [Workers -> BOOLEAN]
  <2>1. Quiescent(job[w].group) \in BOOLEAN
        BY DEF Quiescent
  <2>. QED BY <1>b, <1>1, <2>1 DEF ThreadTypes
<1>4. job[w] \in Jobs(runtime)
      BY <1>b, <1>1 DEF ThreadTypes, Busy
<1>5. \A v \in Workers : pc'[v] \in Busy <=> pc[v] \in Busy
      BY <1>1, <1>2 DEF Busy
<1>6. QueueTypes'
      BY <1>b, <1>1 DEF QueueTypes
<1>7. ThreadTypes'
  <2>1. \A v \in Workers : IF pc'[v] \in Busy THEN job'[v] \in Jobs(runtime') ELSE job'[v] = None
        BY <1>b, <1>1, <1>5 DEF ThreadTypes
  <2>2. \A v \in Workers : pc'[v] # "enqueuing" => todo'[v] = <<>>
        BY <1>b, <1>1, <1>2 DEF ThreadTypes
  <2>. QED BY <1>b, <1>1, <1>2, <1>3, <2>1, <2>2 DEF ThreadTypes
<1>8. HandsAreCounted'
  <2>1. \A g \in Ids : Hands(g)' = Hands(g)
        BY <1>1, <1>5 DEF Hands
  <2>. QED BY <1>b, <1>1, <2>1 DEF HandsAreCounted
<1>9. ASSUME NoErrors' PROVE ScheduledIsOnItsWay' /\ NothingLost' /\ RunningIsManned' /\ RestIsLasting'
  <2>0. NoErrors
        BY <1>1, <1>2, <1>9 DEF NoErrors
  <2>a. ScheduledIsOnItsWay /\ NothingLost /\ RunningIsManned /\ RestIsLasting
        BY <2>0 DEF ServerInOrder
  <2>b. \A x : /\ IsQueued(x) => IsQueued(x)'
               /\ IsListed(x) => IsListed(x)'
               /\ IsInHand(x) => IsInHand(x)'
               /\ WillBeListed(x) => WillBeListed(x)'
        BY <1>1, <1>2 DEF IsQueued, IsListed, IsInHand, WillBeListed
  <2>1. ScheduledIsOnItsWay' /\ NothingLost'
        BY <1>1, <2>a, <2>b DEF ScheduledIsOnItsWay, NothingLost
  <2>2. RunningIsManned'
        BY <1>1, <1>2, <2>a DEF RunningIsManned
  <2>3. quiet'[w] => AtRest(runtime, job[w].group)
        BY <1>a, <1>3, <1>4, JobIs, QuiescentIsAtRest
  <2>4. RestIsLasting'
        BY <1>1, <1>2, <2>a, <2>3 DEF RestIsLasting
  <2>. QED BY <2>1, <2>2, <2>4
<1>. QED BY <1>6, <1>7, <1>8, <1>9 DEF ServerInOrder

\* A worker gives its job back.  Its session goes on only if no other worker has a job of the
\* group in hand, and the group was to be released.
LEMMA CompleteKeeps ==
    ASSUME TreeInOrder, ServerInOrder, NEW w \in Workers, NEW release \in BOOLEAN, NEW place,
           queue' = Q!Completed(queue, job[w], release),
           job' = [job EXCEPT ![w] = None], pc' = [Notified EXCEPT ![w] = place],
           UNCHANGED <<vars, reader, todo>>,
           \/ /\ pc[w] = "completing" /\ place = "next" /\ release = quiet[w]
              /\ quiet' = [quiet EXCEPT ![w] = FALSE]
           \/ pc[w] = "failing" /\ place = "dead" /\ quiet' = quiet
    PROVE  /\ ServerInOrder'
           /\ \A s \in Sessions : queue'.active_sessions[s] # queue.active_sessions[s] =>
                 /\ queue.active_sessions[s] = job[w].group
                 /\ Hands(job[w].group) = {w}
                 /\ job[w].group \in queue.releasing_groups \/ release
<1> DEFINE j == job[w]
<1>a. Rooted(runtime) /\ Known(runtime) \subseteq Ids
      BY SoundIsRooted DEF TreeInOrder
<1>b. QueueTypes /\ ThreadTypes /\ HandsAreCounted
      BY DEF ServerInOrder
<1>1. runtime' = runtime
      BY DEF vars
<1>2. pc[w] \in Busy /\ j \in Jobs(runtime)
      BY <1>b DEF ThreadTypes, Busy
<1>3. j.group \in Known(runtime) /\ j.group \in Ids
      BY <1>a, <1>2, JobIs
<1>4. /\ DOMAIN queue' = QueueFields
      /\ queue'.pending = queue.pending /\ queue'.scheduled = queue.scheduled
      /\ queue'.releasing_groups \subseteq
            IF release THEN queue.releasing_groups \cup {j.group} ELSE queue.releasing_groups
      /\ DOMAIN queue'.active_sessions = Sessions
      /\ queue'.active_groups = [queue.active_groups EXCEPT ![j.group] = queue.active_groups[j.group] - 1]
      /\ \A x \in Sessions : queue'.active_sessions[x] # queue.active_sessions[x] =>
            /\ queue.active_sessions[x] = j.group /\ queue.active_groups[j.group] - 1 = 0
            /\ j.group \in queue.releasing_groups \/ release
  <2>1. /\ DOMAIN queue = QueueFields /\ queue.active_groups \in [Ids -> Nat]
        /\ DOMAIN queue.active_sessions = Sessions
        BY <1>b DEF QueueTypes
  <2> DEFINE q == queue
             s == queue'
  <2>2. s = Q!Completed(q, j, release)
        OBVIOUS
  <2> HIDE DEF q, s, j
  <2>3. /\ DOMAIN s = QueueFields
        /\ s.pending = q.pending /\ s.scheduled = q.scheduled
        /\ s.releasing_groups \subseteq IF release THEN q.releasing_groups \cup {j.group} ELSE q.releasing_groups
        /\ DOMAIN s.active_sessions = DOMAIN q.active_sessions
        /\ s.active_groups = [q.active_groups EXCEPT ![j.group] = q.active_groups[j.group] - 1]
        /\ \A x \in DOMAIN q.active_sessions :
              s.active_sessions[x] # q.active_sessions[x] =>
                 /\ q.active_sessions[x] = j.group /\ q.active_groups[j.group] - 1 = 0
                 /\ j.group \in q.releasing_groups \/ release
    <3>1. DOMAIN q = QueueFields /\ q.active_groups \in [Ids -> Nat] /\ j.group \in Ids
          BY <1>3, <2>1 DEF q
    <3>. QED BY <2>2, <3>1, CompletedIs
  <2>. QED BY <2>1, <2>3 DEF q, s
<1>5. /\ Notified \in [Workers -> Busy \cup Idle \cup {"dead"}]
      /\ \A v \in Workers : Notified[v] = pc[v] \/ (pc[v] \in Idle /\ Notified[v] \in Idle)
      BY <1>b, NotifiedIs DEF ThreadTypes
<1>6. /\ pc'[w] = place /\ job'[w] = None /\ DOMAIN job' = Workers
      /\ \A v \in Workers \ {w} :
            /\ job'[v] = job[v]
            /\ pc'[v] = pc[v] \/ (pc[v] \in Idle /\ pc'[v] \in Idle)
      /\ pc' \in [Workers -> Busy \cup Idle \cup {"dead"}]
      BY <1>b, <1>5 DEF ThreadTypes, Idle
<1>7. /\ \A v \in Workers \ {w} : (pc'[v] \in Busy <=> pc[v] \in Busy) /\ (pc[v] \in Busy => pc'[v] = pc[v])
      /\ \A v \in Workers \ {w} : pc'[v] \in Busy \cup {"dead"} => pc'[v] = pc[v]
      /\ \A v \in Workers \ {w} : pc[v] \in Busy \cup {"dead"} => pc'[v] = pc[v]
      /\ pc'[w] \notin Busy
      BY <1>6 DEF Busy, Idle
<1> HIDE DEF j
<1>8. ASSUME NEW g \in Ids
      PROVE  /\ queue.active_groups[g] = Cardinality(Hands(g)) /\ queue.active_groups \in [Ids -> Nat]
             /\ IsFiniteSet(Hands(g)) /\ Cardinality(Hands(g)) \in Nat
             /\ w \in Hands(g) <=> g = j.group
  <2>1. IsFiniteSet(Workers) /\ Hands(g) \subseteq Workers
        BY ServerAssumption DEF Hands
  <2>2. IsFiniteSet(Hands(g))
        BY <2>1, FS_Subset
  <2>3. w \in Hands(g) <=> g = j.group
        BY <1>2 DEF Hands, j
  <2>. QED BY <1>b, <2>2, <2>3, FS_CardinalityType DEF HandsAreCounted, QueueTypes
<1>9. ASSUME NEW g \in Ids PROVE queue'.active_groups[g] = Cardinality(Hands(g)') /\ queue'.active_groups[g] \in Nat
  <2>1. CASE g = j.group
    <3>1. Hands(g)' = Hands(g) \ {w}
          BY <1>6, <1>7 DEF Hands
    <3>2. Cardinality(Hands(g) \ {w}) = Cardinality(Hands(g)) - 1 /\ IsFiniteSet(Hands(g) \ {w})
          BY <1>8, <2>1, FS_RemoveElement
    <3>3. Cardinality(Hands(g) \ {w}) \in Nat
          BY <3>2, FS_CardinalityType
    <3>4. queue'.active_groups[g] = queue.active_groups[g] - 1
          BY <1>4, <1>8, <2>1
    <3>. QED BY <1>8, <3>1, <3>2, <3>3, <3>4
  <2>2. CASE g # j.group
    <3>0. w \notin Hands(g)
          BY <1>8, <2>2
    <3>1. Hands(g)' = Hands(g)
          BY <1>6, <1>7, <3>0 DEF Hands
    <3>2. queue'.active_groups[g] = queue.active_groups[g]
          BY <1>4, <1>8, <2>2
    <3>. QED BY <1>8, <3>1, <3>2
  <2>. QED BY <2>1, <2>2
<1>10. QueueTypes'
  <2>1. queue'.active_groups \in [Ids -> Nat]
    <3>1. DOMAIN queue.active_groups = Ids
          BY <1>b DEF QueueTypes
    <3>. QED BY <1>4, <1>9, <3>1
  <2>2. queue'.releasing_groups \subseteq Known(runtime)
        BY <1>b, <1>3, <1>4 DEF QueueTypes
  <2>. QED BY <1>b, <1>1, <1>4, <2>1, <2>2 DEF QueueTypes
<1>11. ThreadTypes'
  <2>1. \A v \in Workers : IF pc'[v] \in Busy THEN job'[v] \in Jobs(runtime') ELSE job'[v] = None
        BY <1>b, <1>1, <1>6, <1>7 DEF ThreadTypes
  <2>2. \A v \in Workers : pc'[v] # "enqueuing" => todo'[v] = <<>>
        BY <1>b, <1>7 DEF ThreadTypes, Busy
  <2>3. quiet' \in [Workers -> BOOLEAN]
        BY <1>b DEF ThreadTypes
  <2>. QED BY <1>b, <1>1, <1>6, <2>1, <2>2, <2>3 DEF ThreadTypes
<1>12. ASSUME NoErrors' PROVE ScheduledIsOnItsWay' /\ NothingLost' /\ RunningIsManned' /\ RestIsLasting'
  <2>0. place # "dead" /\ NoErrors
    <3>1. place # "dead" /\ ~(reader.pc = "ended" /\ reader.group # None)
          BY <1>6, <1>12 DEF NoErrors
    <3>2. \A v \in Workers : pc[v] \notin {"failing", "dead"}
          BY <1>7, <1>12, <3>1 DEF NoErrors, Busy
    <3>. QED BY <3>1, <3>2 DEF NoErrors
  <2>a. ScheduledIsOnItsWay /\ NothingLost /\ RunningIsManned /\ RestIsLasting
        BY <2>0 DEF ServerInOrder
  <2>b. \A x : /\ IsQueued(x) => IsQueued(x)'
               /\ IsListed(x) => IsListed(x)'
               /\ IsInHand(x) => IsInHand(x)'
               /\ WillBeListed(x) => WillBeListed(x)'
        BY <1>1, <1>4, <1>6, <1>7 DEF IsQueued, IsListed, IsInHand, WillBeListed, Busy
  <2>1. ScheduledIsOnItsWay' /\ NothingLost'
        BY <1>1, <1>4, <2>a, <2>b DEF ScheduledIsOnItsWay, NothingLost
  <2>2. RunningIsManned'
        BY <1>1, <1>6, <1>7, <2>a DEF RunningIsManned, Busy
  <2>3. release => AtRest(runtime, j.group)
        BY <2>0, <2>a DEF RestIsLasting, j
  <2>4. \A g \in queue'.releasing_groups : AtRest(runtime, g)
        BY <1>4, <2>a, <2>3 DEF RestIsLasting
  <2>5. ASSUME NEW v \in Workers, pc'[v] = "completing", quiet'[v] PROVE AtRest(runtime, job'[v].group)
    <3>1. v # w /\ pc[v] = "completing" /\ job'[v] = job[v]
          BY <1>6, <1>7, <2>5 DEF Busy
    <3>2. quiet[v]
          BY <1>b, <2>5, <3>1 DEF ThreadTypes
    <3>. QED BY <2>a, <3>1, <3>2 DEF RestIsLasting
  <2>6. RestIsLasting'
        BY <1>1, <2>4, <2>5 DEF RestIsLasting
  <2>. QED BY <2>1, <2>2, <2>6
<1>13. ASSUME NEW s \in Sessions, queue'.active_sessions[s] # queue.active_sessions[s]
      PROVE  /\ queue.active_sessions[s] = j.group
             /\ Hands(j.group) = {w}
             /\ j.group \in queue.releasing_groups \/ release
  <2>1. /\ queue.active_sessions[s] = j.group /\ queue.active_groups[j.group] - 1 = 0
        /\ j.group \in queue.releasing_groups \/ release
        BY <1>4, <1>13
  <2>2. Cardinality(Hands(j.group)) = 1 /\ IsFiniteSet(Hands(j.group)) /\ w \in Hands(j.group)
        BY <1>3, <1>8, <2>1
  <2>3. \E x : Hands(j.group) = {x}
        BY <2>2, FS_Singleton
  <2>. QED BY <2>1, <2>2, <2>3
<1>. QED BY <1>9, <1>10, <1>11, <1>12, <1>13 DEF ServerInOrder, HandsAreCounted, j

\* Where a worker is when it goes on with its job
LEMMA WorkersJob ==
    ASSUME TreeInOrder, ServerInOrder, NEW w \in Workers, pc[w] \in Busy
    PROVE  /\ job[w].execution \in Known(runtime) /\ job[w].group \in Known(runtime)
           /\ ParentOf(runtime, job[w].group) = None
           /\ job[w].group = GroupIn(runtime, job[w].execution)
<1>1. job[w] \in Jobs(runtime)
      BY DEF ServerInOrder, ThreadTypes
<1>2. Rooted(runtime)
      BY SoundIsRooted DEF TreeInOrder
<1>. QED BY <1>1, <1>2, JobIs

\* The steps of a worker between its taking a job and its result
LEMMA JobStepKeeps ==
    ASSUME TreeInOrder, ServerInOrder, NEW w \in Workers,
           StartJob(w) \/ BeginJob(w) \/ FinishJob(w) \/ CallTool(w) \/ JobError(w)
    PROVE  TreeInOrder' /\ ServerInOrder'
<1> DEFINE e == job[w].execution
           g == job[w].group
<1>0. pc[w] \in {"taken", "started", "running"} /\ pc[w] \in Busy
      BY DEF StartJob, BeginJob, FinishJob, CallTool, JobError, Busy
<1>1. e \in Known(runtime) /\ g = GroupIn(runtime, e)
      BY <1>0, WorkersJob
<1>2. ASSUME UNCHANGED vars \/ Start(e)
      PROVE  TreeInOrder' /\ runtime' = runtime /\ Tends(runtime, runtime', g)
      BY <1>1, <1>2, RestTends
<1>3. ASSUME \/ Begin(e) \/ FailPreparation(e) \/ Finish(e, "Completed") \/ Finish(e, "Failed")
             \/ StartOrchestration(e) \/ \E f : DecideFailure(e, f)
      PROVE  /\ TreeInOrder' /\ Tends(runtime, runtime', g)
             /\ NonResumable(runtime') \subseteq NonResumable(runtime) \cup {e}
             /\ FailPreparation(e) \/ Finish(e, "Completed") \/ Finish(e, "Failed") => ~Live(runtime', e)
             /\ Begin(e) => StateOf(runtime', e) = "Running"
      BY <1>1, <1>3, WorkerTends
<1>4. /\ ~Live(runtime', e) => e \notin NonResumable(runtime') /\ ~MayRun(runtime', e)
      /\ StateOf(runtime', e) = "Running" => ~MayRun(runtime', e)
      BY DEF Live, Terminal, NonResumable, MayRun
<1>5. ~Live(runtime, e) => ~MayRun(runtime, e)
      BY DEF Live, Terminal, MayRun
<1>6. ~Runnable(e) => ~MayRun(runtime, e)
      BY DEF Runnable, HasBlockingAncestor, MayRun, Blocked
<1>7. StateOf(runtime, e) # "Running" => e \notin NonResumable(runtime)
      BY DEF NonResumable
<1> DEFINE Fits(place) ==
              /\ Tends(runtime, runtime', g)
              /\ pc[w] \in {"taken", "started", "running"}
              /\ place \in {"started", "running", "finished", "failing"}
              /\ NonResumable(runtime') \subseteq NonResumable(runtime) \cup {e}
              /\ e \in NonResumable(runtime') =>
                    place \in {"running", "failing"} \/ (pc[w] # "running" /\ e \in NonResumable(runtime))
              /\ place \in {"started", "failing"} \/ pc[w] = "running" \/ ~MayRun(runtime', e)
<1>8. ASSUME NEW place, Goes(w, place), Fits(place) PROVE ServerInOrder'
      BY <1>8, WorkerGoes
<1>9. ASSUME NEW place, Persists(w, place), Fits(place), Fits("failing") PROVE ServerInOrder'
      BY <1>8, <1>9 DEF Persists
<1> HIDE DEF e, g
<1>10. CASE StartJob(w)
  <2>1. pc[w] = "taken" /\ ((Start(e) /\ Goes(w, "started")) \/ (~Runnable(e) /\ Goes(w, "finished") /\ UNCHANGED vars))
        BY <1>10 DEF StartJob, e
  <2>2. TreeInOrder' /\ runtime' = runtime /\ Tends(runtime, runtime', g)
        BY <1>2, <2>1
  <2>3. CASE Goes(w, "started")
    <3>1. Fits("started")
          BY <2>1, <2>2
    <3>. QED BY <1>8, <2>2, <2>3, <3>1
  <2>4. CASE ~Runnable(e) /\ Goes(w, "finished")
    <3>1. Fits("finished")
          BY <1>6, <2>1, <2>2, <2>4
    <3>. QED BY <1>8, <2>2, <2>4, <3>1
  <2>. QED BY <2>1, <2>3, <2>4
<1>11. CASE BeginJob(w)
  <2>1. pc[w] = "started" /\ \/ Begin(e) /\ Persists(w, "running")
                             \/ FailPreparation(e) /\ Persists(w, "finished")
                             \/ ~Live(runtime, e) /\ Persists(w, "finished") /\ UNCHANGED vars
        BY <1>11 DEF BeginJob, e
  <2>2. CASE Begin(e) /\ Persists(w, "running")
    <3>1. TreeInOrder' /\ Fits("running") /\ Fits("failing")
          BY <1>3, <1>4, <2>1, <2>2
    <3>. QED BY <1>9, <2>2, <3>1
  <2>3. CASE FailPreparation(e) /\ Persists(w, "finished")
    <3>1. TreeInOrder' /\ Fits("finished") /\ Fits("failing")
          BY <1>3, <1>4, <2>1, <2>3
    <3>. QED BY <1>9, <2>3, <3>1
  <2>4. CASE ~Live(runtime, e) /\ Persists(w, "finished") /\ UNCHANGED vars
    <3>1. TreeInOrder' /\ Fits("finished") /\ Fits("failing")
          BY <1>2, <1>5, <2>1, <2>4
    <3>. QED BY <1>9, <2>4, <3>1
  <2>. QED BY <2>1, <2>2, <2>3, <2>4
<1>12. CASE FinishJob(w)
  <2>1. /\ pc[w] = "running" /\ Persists(w, "finished")
        /\ \/ Finish(e, "Completed") \/ Finish(e, "Failed")
           \/ StateOf(runtime, e) # "Running" /\ UNCHANGED vars
        BY <1>12 DEF FinishJob, e
  <2>2. TreeInOrder' /\ Fits("finished") /\ Fits("failing")
    <3>1. CASE Finish(e, "Completed") \/ Finish(e, "Failed")
          BY <1>3, <1>4, <2>1, <3>1
    <3>2. CASE StateOf(runtime, e) # "Running" /\ UNCHANGED vars
          BY <1>2, <1>7, <2>1, <3>2
    <3>. QED BY <2>1, <3>1, <3>2
  <2>. QED BY <1>9, <2>1, <2>2
<1>13. CASE CallTool(w)
  <2>1. /\ pc[w] = "running" /\ UNCHANGED serverVars
        /\ StartOrchestration(e) \/ \E f : DecideFailure(e, f)
        BY <1>13 DEF CallTool, e
  <2>2. TreeInOrder' /\ Fits("running")
        BY <1>3, <2>1
  <2>3. Goes(w, "running")
    <3>1. pc \in [Workers -> Busy \cup Idle \cup {"dead"}]
          BY DEF ServerInOrder, ThreadTypes
    <3>. QED BY <2>1, <3>1 DEF Goes, serverVars
  <2>. QED BY <1>8, <2>2, <2>3
<1>14. CASE JobError(w)
  <2>1. pc[w] = "started" /\ Goes(w, "failing") /\ UNCHANGED vars
        BY <1>14 DEF JobError
  <2>2. TreeInOrder' /\ Fits("failing")
        BY <1>2, <2>1
  <2>. QED BY <1>8, <2>1, <2>2
<1>. QED BY <1>10, <1>11, <1>12, <1>13, <1>14

\* The steps of the reader and its clients
LEMMA ReaderStepKeeps ==
    ASSUME TreeInOrder, ServerInOrder,
           \/ \E s \in Sessions : Request(s) \/ ClientCloses(s)
           \/ \E e \in Known(runtime) : ClientCancels(e)
           \/ Collect \/ ReaderEnqueues \/ InputEnds \/ RequestFails
           \/ UNCHANGED allVars
    PROVE  TreeInOrder' /\ ServerInOrder'
<1>a. ThreadTypes /\ pc \in [Workers -> Busy \cup Idle \cup {"dead"}]
      BY DEF ServerInOrder, ThreadTypes
<1>b. pc' = pc \/ pc' = Notified => Undisturbed
      BY <1>a, NotifiedIs DEF Undisturbed
<1>c. ASSUME UNCHANGED vars PROVE TreeInOrder'
      BY <1>c, RestTends
<1>1. ASSUME NEW s \in Sessions, Request(s) PROVE TreeInOrder' /\ ServerInOrder'
  <2>1. /\ reader.pc = "reading" /\ (Submit(s) \/ StartSessionOrchestration(s))
        /\ reader' = [pc |-> "submitted", group |-> NextId(runtime)]
        /\ UNCHANGED <<queue, pc, job, todo, quiet>>
        BY <1>1 DEF Request
  <2>2. /\ TreeInOrder' /\ Tends(runtime, runtime', NextId(runtime))
        /\ NextId(runtime) \in Known(runtime') /\ ParentOf(runtime', NextId(runtime)) = None
        /\ NonResumable(runtime') \subseteq NonResumable(runtime)
        BY <2>1, RequestTends
  <2>. QED BY <2>1, <2>2, ReaderTends
<1>2. ASSUME NEW s \in Sessions, ClientCloses(s) PROVE TreeInOrder' /\ ServerInOrder'
  <2>1. reader.pc = "reading" /\ CloseSession(s) /\ UNCHANGED <<queue, pc, job, reader, todo, quiet>>
        BY <1>2 DEF ClientCloses, serverVars
  <2>2. TreeInOrder' /\ runtime' = runtime /\ Tends(runtime, runtime', None)
        BY <2>1, RestTends
  <2>3. NonResumable(runtime') \subseteq NonResumable(runtime) /\ Known(runtime') = Known(runtime)
        BY <2>2
  <2>. QED BY <2>1, <2>2, <2>3, ReaderTends
<1>3. ASSUME NEW e \in Known(runtime), ClientCancels(e) PROVE TreeInOrder' /\ ServerInOrder'
  <2>1. reader.pc = "reading" /\ Cancel(e) /\ UNCHANGED <<queue, pc, job, reader, todo, quiet>>
        BY <1>3 DEF ClientCancels, serverVars
  <2>2. /\ TreeInOrder' /\ Tends(runtime, runtime', None)
        /\ NonResumable(runtime') \subseteq NonResumable(runtime) /\ Known(runtime') = Known(runtime)
        BY <2>1, CancelTends
  <2>. QED BY <2>1, <2>2, ReaderTends
<1>4. CASE Collect
  <2>1. /\ reader.pc = "submitted" /\ todo' = [todo EXCEPT !["reader"] = PendingJobs(reader.group)]
        /\ reader' = [pc |-> "enqueuing", group |-> None]
        /\ UNCHANGED <<vars, queue, job, quiet>> /\ pc' = pc
        BY <1>4 DEF Collect
  <2>2. /\ reader.group \in Known(runtime) /\ ParentOf(runtime, reader.group) = None
        /\ todo["reader"] = <<>> /\ "reader" \in Threads
        BY <1>a, <2>1 DEF ThreadTypes, Threads
  <2>3. TreeInOrder'
        BY <1>c, <2>1
  <2>. QED BY <2>1, <2>2, <2>3, CollectKeeps
<1>5. CASE ReaderEnqueues
  <2>1. reader.pc = "enqueuing" /\ UNCHANGED <<vars, job, quiet>>
        BY <1>5 DEF ReaderEnqueues
  <2>2. TreeInOrder'
        BY <1>c, <2>1
  <2>3. CASE todo["reader"] = <<>>
    <3>1. reader' = [reader EXCEPT !.pc = "reading"] /\ UNCHANGED <<queue, pc, todo>>
          BY <1>5, <2>3 DEF ReaderEnqueues
    <3>. QED BY <1>b, <2>1, <2>2, <2>3, <3>1, IdleMoves
  <2>4. CASE todo["reader"] # <<>>
    <3>1. EnqueueNext("reader") /\ UNCHANGED reader
          BY <1>5, <2>4 DEF ReaderEnqueues
    <3>2. "reader" \in Threads /\ "reader" \notin Workers
          BY ServerAssumption DEF Threads
    <3>. QED BY <2>1, <2>2, <3>1, <3>2, EnqueueKeeps
  <2>. QED BY <2>3, <2>4
<1>6. CASE InputEnds \/ RequestFails
  <2>1. /\ reader.pc \in {"reading", "submitted"} /\ reader' = [reader EXCEPT !.pc = "ended"]
        /\ queue' = Q!Closed(queue) /\ pc' = Notified /\ UNCHANGED <<vars, job, todo, quiet>>
        BY <1>6 DEF InputEnds, RequestFails
  <2>2. TreeInOrder' /\ Undisturbed
        BY <1>b, <1>c, <2>1
  <2>. QED BY <2>1, <2>2, IdleMoves
<1>7. CASE UNCHANGED allVars
  <2>1. UNCHANGED <<vars, queue, pc, job, reader, todo, quiet>>
        BY <1>7 DEF allVars, serverVars
  <2>2. TreeInOrder' /\ Undisturbed
        BY <1>b, <1>c, <2>1
  <2>. QED BY <2>1, <2>2, IdleMoves
<1>. QED BY <1>1, <1>2, <1>3, <1>4, <1>5, <1>6, <1>7

\* Every step of the server
LEMMA ServerKeeps ==
    ASSUME TreeInOrder, ServerInOrder, [ServerNext]_allVars
    PROVE  TreeInOrder' /\ ServerInOrder'
<1>c. ASSUME UNCHANGED vars PROVE TreeInOrder'
      BY <1>c, RestTends
<1>1. CASE \/ \E s \in Sessions : Request(s) \/ ClientCloses(s)
           \/ \E e \in Known(runtime) : ClientCancels(e)
           \/ ReaderStep \/ InputEnds \/ RequestFails
           \/ UNCHANGED allVars
      BY <1>1, ReaderStepKeeps DEF ReaderStep
<1>2. ASSUME NEW w \in Workers, StartJob(w) \/ BeginJob(w) \/ FinishJob(w) \/ CallTool(w) \/ JobError(w)
      PROVE  TreeInOrder' /\ ServerInOrder'
      BY <1>2, JobStepKeeps
<1>3. ASSUME NEW w \in Workers, Take(w) PROVE TreeInOrder' /\ ServerInOrder'
      BY <1>c, <1>3, TakeKeeps DEF Take
<1>4. ASSUME NEW w \in Workers, Wait(w) PROVE TreeInOrder' /\ ServerInOrder'
  <2>1. /\ pc[w] = "next" /\ UNCHANGED <<vars, queue, job, reader, todo, quiet>>
        /\ \E place \in Idle : pc' = [pc EXCEPT ![w] = place]
        BY <1>4 DEF Wait, Goes, Idle
  <2>2. pc \in [Workers -> Busy \cup Idle \cup {"dead"}]
        BY DEF ServerInOrder, ThreadTypes
  <2>3. Undisturbed
        BY <2>1, <2>2 DEF Undisturbed, Idle
  <2>. QED BY <1>c, <2>1, <2>3, IdleMoves
<1>5. ASSUME NEW w \in Workers, CollectGroup(w) PROVE TreeInOrder' /\ ServerInOrder'
  <2>1. /\ pc[w] = "finished" /\ todo' = [todo EXCEPT ![w] = PendingJobs(job[w].group)]
        /\ pc' = [pc EXCEPT ![w] = "enqueuing"] /\ UNCHANGED <<vars, queue, job, quiet>> /\ reader' = reader
        BY <1>5 DEF CollectGroup
  <2>2. /\ job[w].group \in Known(runtime) /\ ParentOf(runtime, job[w].group) = None
        /\ w \in Threads
        BY <2>1, WorkersJob DEF Busy, Threads
  <2>3. todo[w] = <<>>
        BY <2>1 DEF ServerInOrder, ThreadTypes
  <2>. QED BY <1>c, <2>1, <2>2, <2>3, CollectKeeps
<1>6. ASSUME NEW w \in Workers, WorkerEnqueues(w) PROVE TreeInOrder' /\ ServerInOrder'
  <2>1. pc[w] = "enqueuing" /\ EnqueueNext(w) /\ UNCHANGED <<vars, job, reader, quiet>>
        BY <1>6 DEF WorkerEnqueues
  <2>2. w \in Threads /\ w # "reader"
        BY ServerAssumption DEF Threads
  <2>. QED BY <1>c, <2>1, <2>2, EnqueueKeeps
<1>7. ASSUME NEW w \in Workers, ReadQuiescence(w) PROVE TreeInOrder' /\ ServerInOrder'
      BY <1>c, <1>7, ReadKeeps DEF ReadQuiescence
<1>8. ASSUME NEW w \in Workers, CompleteJob(w) PROVE TreeInOrder' /\ ServerInOrder'
  <2>1. quiet[w] \in BOOLEAN
        BY DEF ServerInOrder, ThreadTypes
  <2>. QED BY <1>c, <1>8, <2>1, CompleteKeeps DEF CompleteJob
<1>9. ASSUME NEW w \in Workers, CompleteFailed(w) PROVE TreeInOrder' /\ ServerInOrder'
      BY <1>c, <1>9, CompleteKeeps DEF CompleteFailed
<1>. QED BY <1>1, <1>2, <1>3, <1>4, <1>5, <1>6, <1>7, <1>8, <1>9 DEF ServerNext, WorkerStep

\* Before anything was read
LEMMA ServerInitially ==
    ASSUME ServerInit
    PROVE  TreeInOrder /\ ServerInOrder
<1>1. TreeInOrder
      BY TreeInit DEF ServerInit
<1>2. Known(runtime) = {}
      BY DEF ServerInit, Init, Known, Empty
<1>3. /\ pc = [w \in Workers |-> "next"] /\ job = [w \in Workers |-> None]
      /\ reader = [pc |-> "reading", group |-> None]
      /\ todo = [t \in Threads |-> <<>>] /\ quiet = [w \in Workers |-> FALSE]
      BY DEF ServerInit
<1>4. /\ DOMAIN queue = QueueFields /\ queue.pending = <<>> /\ queue.active_sessions = [s \in Sessions |-> None]
      /\ queue.active_groups = [g \in Ids |-> 0] /\ queue.scheduled = {} /\ queue.releasing_groups = {}
      BY DEF ServerInit, Q!EmptyQueue, QueueFields
<1>5. QueueTypes
  <2>1. <<>> \in Seq(Jobs(runtime))
        OBVIOUS
  <2>. QED BY <1>4, <2>1 DEF QueueTypes
<1>6. ThreadTypes
  <2>1. <<>> \in Seq(Jobs(runtime)) /\ "reader" \in Threads /\ Workers \subseteq Threads
        BY DEF Threads
  <2>. QED BY <1>3, <2>1 DEF ThreadTypes, Busy, Idle
<1>7. HandsAreCounted
  <2>1. \A g \in Ids : Hands(g) = {}
        BY <1>3 DEF Hands, Busy
  <2>. QED BY <1>4, <2>1, FS_EmptySet DEF HandsAreCounted
<1>8. ScheduledIsOnItsWay /\ NothingLost /\ RunningIsManned /\ RestIsLasting
      BY <1>2, <1>3, <1>4 DEF ScheduledIsOnItsWay, NothingLost, RunningIsManned, RestIsLasting, NonResumable
<1>. QED BY <1>1, <1>5, <1>6, <1>7, <1>8 DEF ServerInOrder

\* The server stays in order (server.rs:574-698, 769-1311): queue and threads hold jobs of known
\* executions, every job in hand is counted for its group, and unless a thread was lost to an
\* error, what was scheduled is still on its way, what runs has a worker, and a group that was
\* read as quiescent has not moved since.
THEOREM ServerStaysInOrder == ServerSpec => [](TreeInOrder /\ ServerInOrder)
<1>1. ServerInit => TreeInOrder /\ ServerInOrder
      BY ServerInitially
<1>2. TreeInOrder /\ ServerInOrder /\ [ServerNext]_allVars => (TreeInOrder /\ ServerInOrder)'
      BY ServerKeeps
<1>. QED BY <1>1, <1>2, PTL DEF ServerSpec

\* Errors are counted.
LEMMA ErrorsAreCounted ==
    Errors \in Nat /\ (Errors = 0 <=> NoErrors)
<1> DEFINE S == {w \in Workers : pc[w] \in {"failing", "dead"}}
           R == {r \in {reader} : r.pc = "ended" /\ r.group # None}
<1>1. IsFiniteSet(S) /\ IsFiniteSet(R)
  <2>1. IsFiniteSet(Workers) /\ S \subseteq Workers
        BY ServerAssumption
  <2>2. IsFiniteSet({reader}) /\ R \subseteq {reader}
        BY FS_Singleton
  <2> HIDE DEF S, R
  <2>. QED BY <2>1, <2>2, FS_Subset
<1>2. S \cup R = {} <=> NoErrors
      BY DEF NoErrors
<1>3. Errors = Cardinality(S \cup R)
      BY DEF Errors
<1> HIDE DEF S, R
<1>4. IsFiniteSet(S \cup R)
      BY <1>1, FS_Union
<1>. QED BY <1>2, <1>3, <1>4, FS_CardinalityType, FS_EmptySet

\* Nothing runnable is forgotten (server.rs:777), as long as no thread is lost to an error:
\* what may run is queued, about to be, or of a group that a thread will list.
THEOREM NothingIsForgotten == ServerSpec => [](Errors = 0 => NothingForgotten)
<1>1. ServerInOrder => (Errors = 0 => NothingForgotten)
  <2> SUFFICES ASSUME ServerInOrder, Errors = 0, NEW e \in Known(runtime), Runnable(e)
               PROVE  \/ \E i \in DOMAIN queue.pending : queue.pending[i].execution = e
                      \/ \E t \in Threads : \E i \in DOMAIN todo[t] : todo[t][i].execution = e
                      \/ \E w \in Workers : AttendedBy(w, e)
                      \/ reader.pc = "submitted" /\ reader.group = GroupOf(e)
      BY DEF NothingForgotten
  <2>1. NothingLost
        BY ErrorsAreCounted DEF ServerInOrder
  <2>2. MayRun(runtime, e)
        BY DEF Runnable, HasBlockingAncestor, MayRun, Blocked
  <2>3. GroupOf(e) = GroupIn(runtime, e)
        BY DEF GroupOf, GroupIn
  <2>4. IsQueued(e) \/ IsListed(e) \/ WillBeListed(e)
        BY <2>1, <2>2 DEF NothingLost
  <2>. QED BY <2>3, <2>4 DEF IsQueued, IsListed, WillBeListed, AttendedBy
<1>. QED BY <1>1, ServerStaysInOrder, PTL

\* A step without errors to come, and none so far, makes none.
LEMMA ErrorsStayOut ==
    ASSUME MaxErrors = 0, TreeInOrder, ServerInOrder, NoErrors, [ServerNext]_allVars
    PROVE  NoErrors'
<1>1. ~(Errors < MaxErrors)
      BY ErrorsAreCounted
<1>2. /\ pc \in [Workers -> Busy \cup Idle \cup {"dead"}] /\ DOMAIN reader = {"pc", "group"}
      /\ reader.pc = "reading" => reader.group = None
      BY DEF ServerInOrder, ThreadTypes
<1>3. /\ Notified \in [Workers -> Busy \cup Idle \cup {"dead"}]
      /\ \A v \in Workers : Notified[v] = pc[v] \/ Notified[v] \in Idle
      BY <1>2, NotifiedIs
<1>4. ASSUME \A v \in Workers : pc'[v] = pc[v] \/ pc'[v] \notin {"failing", "dead"},
             reader' = reader \/ reader'.pc # "ended" \/ reader'.group = None
      PROVE  NoErrors'
      BY <1>4 DEF NoErrors
<1>5. ASSUME NEW w \in Workers, NEW place, place \notin {"failing", "dead"}, Goes(w, place) PROVE NoErrors'
      BY <1>2, <1>4, <1>5 DEF Goes
<1>6. ASSUME NEW w \in Workers, NEW place, place \notin {"failing", "dead"}, Persists(w, place) PROVE NoErrors'
      BY <1>1, <1>5, <1>6 DEF Persists
<1>7. ASSUME NEW s \in Sessions, Request(s) \/ ClientCloses(s) PROVE NoErrors'
      BY <1>4, <1>7 DEF Request, ClientCloses, serverVars
<1>8. ASSUME NEW e \in Known(runtime), ClientCancels(e) PROVE NoErrors'
      BY <1>4, <1>8 DEF ClientCancels, serverVars
<1>9. CASE Collect
      BY <1>4, <1>9 DEF Collect
<1>10. ASSUME NEW t, EnqueueNext(t), UNCHANGED reader PROVE NoErrors'
  <2>1. pc' = pc \/ pc' = Notified
        BY <1>10 DEF EnqueueNext
  <2>. QED BY <1>3, <1>4, <1>10, <2>1 DEF Idle
<1>11. CASE ReaderEnqueues
  <2>1. CASE todo["reader"] = <<>>
    <3>1. reader' = [reader EXCEPT !.pc = "reading"] /\ pc' = pc
          BY <1>11, <2>1 DEF ReaderEnqueues
    <3>. QED BY <1>2, <1>4, <3>1
  <2>2. CASE todo["reader"] # <<>>
        BY <1>10, <1>11, <2>2 DEF ReaderEnqueues
  <2>. QED BY <2>1, <2>2
<1>12. CASE InputEnds
  <2>1. reader'.group = None /\ pc' = Notified
        BY <1>2, <1>12 DEF InputEnds
  <2>. QED BY <1>3, <1>4, <2>1 DEF Idle
<1>13. ~RequestFails
      BY <1>1 DEF RequestFails
<1>14. ASSUME NEW w \in Workers, WorkerStep(w) \/ CallTool(w) \/ JobError(w) PROVE NoErrors'
  <2>1. CASE Take(w)
        BY <1>2, <1>4, <2>1 DEF Take
  <2>2. CASE Wait(w)
        BY <1>5, <2>2 DEF Wait
  <2>3. CASE StartJob(w)
        BY <1>5, <2>3 DEF StartJob
  <2>4. CASE BeginJob(w)
        BY <1>6, <2>4 DEF BeginJob
  <2>5. CASE FinishJob(w)
        BY <1>6, <2>5 DEF FinishJob
  <2>6. CASE CollectGroup(w)
        BY <1>2, <1>4, <2>6 DEF CollectGroup
  <2>7. CASE WorkerEnqueues(w)
        BY <1>10, <2>7 DEF WorkerEnqueues
  <2>8. CASE ReadQuiescence(w)
        BY <1>2, <1>4, <2>8 DEF ReadQuiescence
  <2>9. CASE CompleteJob(w)
    <3>1. pc' = [Notified EXCEPT ![w] = "next"] /\ reader' = reader
          BY <2>9 DEF CompleteJob
    <3>. QED BY <1>3, <1>4, <3>1 DEF Idle
  <2>10. ~CompleteFailed(w) /\ ~JobError(w)
        BY <1>1 DEF CompleteFailed, JobError, NoErrors
  <2>11. CASE CallTool(w)
        BY <1>4, <2>11 DEF CallTool, serverVars
  <2>. QED BY <1>14, <2>1, <2>2, <2>3, <2>4, <2>5, <2>6, <2>7, <2>8, <2>9, <2>10, <2>11 DEF WorkerStep
<1>15. CASE UNCHANGED allVars
      BY <1>4, <1>15 DEF allVars, serverVars
<1>. QED BY <1>7, <1>8, <1>9, <1>11, <1>12, <1>13, <1>14, <1>15 DEF ServerNext, ReaderStep

\* A session is given up by a group only at rest.
LEMMA TurnsEnd ==
    ASSUME TreeInOrder, ServerInOrder, NoErrors, [ServerNext]_allVars, NEW s \in Sessions,
           NEW g, g = queue.active_sessions[s], g # None, queue'.active_sessions[s] # g,
           NEW e \in InGroup(g)
    PROVE  \/ ~Live(runtime, e)
           \/ /\ StateOf(runtime, e) = "Pending" /\ HasBlockingAncestor(e)
              /\ \A w \in Workers : job'[w] # None => job'[w].execution # e
<1>a. Rooted(runtime)
      BY SoundIsRooted DEF TreeInOrder
<1>b. QueueTypes /\ ThreadTypes /\ RunningIsManned /\ RestIsLasting
      BY DEF ServerInOrder
<1>0. queue' # queue
      OBVIOUS
<1>1. ASSUME NEW t, EnqueueNext(t) PROVE FALSE
      BY <1>b, <1>1, EnqueuedIs DEF EnqueueNext, QueueTypes
<1>2. ASSUME queue' = Q!Closed(queue) PROVE FALSE
      BY <1>b, <1>2, ClosedIs DEF QueueTypes
<1>3. \E w \in Workers : CompleteJob(w)
  <2>1. ASSUME NEW w \in Workers, WorkerStep(w) \/ CallTool(w) \/ JobError(w) PROVE CompleteJob(w)
    <3>1. ~Take(w)
          BY TakeKeeps
    <3>2. ~CompleteFailed(w)
          BY DEF CompleteFailed, NoErrors
    <3>3. /\ ~Wait(w) /\ ~StartJob(w) /\ ~BeginJob(w) /\ ~FinishJob(w) /\ ~JobError(w)
          BY <1>0 DEF Wait, StartJob, BeginJob, FinishJob, JobError, Goes, Persists
    <3>4. ~CallTool(w) /\ ~CollectGroup(w) /\ ~ReadQuiescence(w)
          BY <1>0 DEF CallTool, CollectGroup, ReadQuiescence, serverVars
    <3>5. ~WorkerEnqueues(w)
          BY <1>1 DEF WorkerEnqueues
    <3>. QED BY <2>1, <3>1, <3>2, <3>3, <3>4, <3>5 DEF WorkerStep
  <2>2. \A x : ~Request(x) /\ ~ClientCloses(x) /\ ~ClientCancels(x)
        BY <1>0 DEF Request, ClientCloses, ClientCancels, serverVars
  <2>3. ~Collect /\ ~ReaderEnqueues
        BY <1>0, <1>1 DEF Collect, ReaderEnqueues
  <2>4. ~InputEnds /\ ~RequestFails
        BY <1>2 DEF InputEnds, RequestFails
  <2>5. ~UNCHANGED allVars
        BY <1>0 DEF allVars, serverVars
  <2>. QED BY <2>1, <2>2, <2>3, <2>4, <2>5 DEF ServerNext, ReaderStep
<1>4. PICK w \in Workers : CompleteJob(w)
      BY <1>3
<1>5. /\ g = job[w].group /\ Hands(g) = {w}
      /\ g \in queue.releasing_groups \/ quiet[w]
  <2>1. quiet[w] \in BOOLEAN
        BY <1>b DEF ThreadTypes
  <2>. QED BY <1>4, <2>1, CompleteKeeps DEF CompleteJob
<1>6. pc[w] = "completing" /\ job' = [job EXCEPT ![w] = None] /\ g \in Known(runtime)
      BY <1>4, <1>5, WorkersJob DEF CompleteJob, Busy
<1>7. AtRest(runtime, g)
      BY <1>b, <1>5, <1>6 DEF RestIsLasting
<1>8. /\ e \in Known(runtime) /\ GroupIn(runtime, e) = g
  <2>1. ParentOf(runtime, g) = None
        BY <1>5, <1>6, WorkersJob DEF Busy
  <2>2. e \in Known(runtime) /\ e \in {g} \cup Descendants(runtime, g)
        BY <1>6 DEF InGroup, Descendants, Children
  <2>. QED BY <1>a, <1>6, <2>1, <2>2, GroupIs
<1>9. ASSUME NEW v \in Workers, pc[v] \in Busy, job[v].execution = e PROVE v = w
  <2>1. job[v].group = g
        BY <1>8, <1>9, WorkersJob
  <2>2. v \in Hands(g)
        BY <1>9, <2>1 DEF Hands
  <2>. QED BY <1>5, <2>2
<1>10. ASSUME Live(runtime, e) PROVE StateOf(runtime, e) = "Pending" /\ HasBlockingAncestor(e)
  <2>1. runtime.executions[e].kind = "Agent" /\ Blocked(runtime, e)
        BY <1>7, <1>10 DEF AtRest, InGroup
  <2>2. StateOf(runtime, e) # "Running"
    <3> SUFFICES ASSUME StateOf(runtime, e) = "Running" PROVE FALSE
        OBVIOUS
    <3>1. e \in NonResumable(runtime)
          BY <1>8, <2>1 DEF NonResumable, IsOrchestration
    <3>2. PICK v \in Workers : pc[v] = "running" /\ job[v].execution = e
          BY <1>b, <3>1 DEF RunningIsManned
    <3>. QED BY <1>6, <1>9, <3>2 DEF Busy
  <2>3. StateOf(runtime, e) \in States
        BY <1>8, SoundHas DEF TreeInOrder, Placed, StateOf
  <2>. QED BY <1>10, <2>1, <2>2, <2>3 DEF States, Live, Terminal, Blocked, HasBlockingAncestor
<1>11. ASSUME NEW v \in Workers, job'[v] # None PROVE job'[v].execution # e
  <2>1. v # w /\ job'[v] = job[v]
        BY <1>b, <1>6, <1>11 DEF ThreadTypes
  <2>2. pc[v] \in Busy
        BY <1>b, <1>11, <2>1 DEF ThreadTypes
  <2>. QED BY <1>9, <2>1, <2>2
<1>. QED BY <1>10, <1>11

\* A session goes on to its next group only when the last has come to rest and will stay so
\* (server.rs:777), if no thread is lost to an error: what was read as quiescent under one mutex
\* is acted upon under another, perhaps by another worker.
THEOREM TurnsEndAtRest ==
    ASSUME MaxErrors = 0
    PROVE  ServerSpec => TurnEndsAtRest
<1> DEFINE Good == TreeInOrder /\ ServerInOrder /\ NoErrors
           Rests == \A s \in Sessions :
               LET g == queue.active_sessions[s] IN
               g # None /\ queue'.active_sessions[s] # g =>
                   \A e \in InGroup(g) :
                       \/ ~Live(runtime, e)
                       \/ /\ StateOf(runtime, e) = "Pending" /\ HasBlockingAncestor(e)
                          /\ \A w \in Workers : job'[w] # None => job'[w].execution # e
<1>1. ServerInit => Good
      BY ServerInitially DEF NoErrors, ServerInit
<1>2. Good /\ [ServerNext]_allVars => Good'
      BY ServerKeeps, ErrorsStayOut
<1>3. Good /\ [ServerNext]_allVars => [Rests]_allVars
  <2> SUFFICES ASSUME Good, [ServerNext]_allVars PROVE Rests
      OBVIOUS
  <2>. QED BY TurnsEnd
<1>4. TurnEndsAtRest <=> [][Rests]_allVars
      BY DEF TurnEndsAtRest
<1> HIDE DEF Good, Rests
<1>. QED BY <1>1, <1>2, <1>3, <1>4, PTL DEF ServerSpec

-------------------------------------------------------------------------------
(* The server and the tree. *)

\* A step of the server is a step of the tree, or leaves the tree alone.
LEMMA ServerStepIsTreeStep ==
    ASSUME TreeInOrder, ServerInOrder, [ServerNext]_allVars
    PROVE  [Next]_vars
<1>1. ASSUME NEW s \in Sessions, Request(s) \/ ClientCloses(s) PROVE [Next]_vars
      BY <1>1 DEF Request, ClientCloses, Next
<1>2. ASSUME NEW e \in Known(runtime), ClientCancels(e) PROVE [Next]_vars
      BY <1>2 DEF ClientCancels, Next
<1>3. ASSUME NEW w \in Workers, StartJob(w) \/ BeginJob(w) \/ FinishJob(w) \/ CallTool(w)
      PROVE  [Next]_vars
  <2> DEFINE e == job[w].execution
  <2>1. pc[w] \in Busy
        BY <1>3 DEF StartJob, BeginJob, FinishJob, CallTool, Busy
  <2>2. e \in Known(runtime)
        BY <2>1, WorkersJob
  <2>3. \/ Start(e) \/ Begin(e) \/ FailPreparation(e) \/ StartOrchestration(e)
        \/ Finish(e, "Completed") \/ Finish(e, "Failed")
        \/ \E failed \in Known(runtime) : DecideFailure(e, failed)
        \/ UNCHANGED vars
        BY <1>3 DEF StartJob, BeginJob, FinishJob, CallTool
  <2> HIDE DEF e
  <2>. QED BY <2>2, <2>3 DEF Next
<1>4. CASE \/ ReaderStep \/ InputEnds \/ RequestFails
      BY <1>4 DEF ReaderStep, Collect, ReaderEnqueues, InputEnds, RequestFails
<1>5. ASSUME NEW w \in Workers,
             \/ Take(w) \/ Wait(w) \/ CollectGroup(w) \/ WorkerEnqueues(w) \/ ReadQuiescence(w)
             \/ CompleteJob(w) \/ CompleteFailed(w) \/ JobError(w)
      PROVE  [Next]_vars
      BY <1>5 DEF Take, Wait, CollectGroup, WorkerEnqueues, ReadQuiescence, CompleteJob, CompleteFailed, JobError
<1>6. CASE UNCHANGED allVars
      BY <1>6 DEF allVars
<1>. QED BY <1>1, <1>2, <1>3, <1>4, <1>5, <1>6 DEF ServerNext, WorkerStep

\* The server implements the tree: whatever the reader and the workers do, and in whatever
\* order, the runtime behind its mutex does nothing but the tree's operations, each of them in a
\* state in which the tree allows it (server.rs:574-698, 769-1311).
THEOREM ServerImplementsTree == ServerSpec => Spec
<1>1. ServerInit => Init
      BY DEF ServerInit
<1>2. TreeInOrder /\ ServerInOrder /\ [ServerNext]_allVars => [Next]_vars
      BY ServerStepIsTreeStep
<1>. QED BY <1>1, <1>2, ServerStaysInOrder, PTL DEF ServerSpec, Spec

\* Hence all that holds of the tree holds of it in the server.
THEOREM TreeHoldsInServer ==
    ServerSpec => /\ [](/\ FailureStopsDescendants /\ NoEventRefused /\ CancelIsComplete
                        /\ NodesRunInOrder /\ NoStalledOrchestration /\ AttemptsAreChains)
                  /\ OutcomesAreFinal
BY ServerImplementsTree, FailuresAreComplete, EveryEventIsAccepted, CancellationsAreComplete,
   OrchestrationsRunAsWritten, OrchestrationsNeverStall, AttemptsStayChains, FinalOutcomes, PTL

\* Whoever has a job in hand works for the group whose turn it is in the job's session.
TurnOfHand ==
    \A w \in Workers : pc[w] \in Busy => queue.active_sessions[job[w].session] = job[w].group

\* A turn is given to a group when its first job is taken, and given back by the worker that has
\* the last of its jobs in hand.
LEMMA TurnOfHandStays ==
    ASSUME TreeInOrder, ServerInOrder, TurnOfHand, [ServerNext]_allVars
    PROVE  TurnOfHand'
<1>a. Known(runtime) \subseteq Ids /\ None \notin Ids
  <2>1. None \notin Int /\ Ids \subseteq Int
        BY DefinitionAssumption DEF Ids
  <2>. QED BY <2>1 DEF TreeInOrder
<1>b. QueueTypes /\ ThreadTypes
      BY DEF ServerInOrder
<1>c. \A j \in Jobs(runtime) : j.session \in Sessions /\ j.group \in Known(runtime)
  <2>1. \A e \in Known(runtime) : runtime.executions[e].session \in Sessions
        BY SoundHas DEF TreeInOrder, Placed
  <2>2. Rooted(runtime)
        BY SoundIsRooted DEF TreeInOrder
  <2>. QED BY <2>1, <2>2, JobIs DEF Jobs
<1>d. \A w \in Workers : pc[w] \in Busy => job[w].session \in Sessions /\ job[w].group # None
      BY <1>a, <1>b, <1>c DEF ThreadTypes
<1>e. pc \in [Workers -> Busy \cup Idle \cup {"dead"}]
      BY <1>b DEF ThreadTypes
<1>1. ASSUME queue'.active_sessions = queue.active_sessions, job' = job,
             \A w \in Workers : pc'[w] \in Busy => pc[w] \in Busy
      PROVE  TurnOfHand'
      BY <1>1 DEF TurnOfHand
<1>n. \A w \in Workers : Notified[w] \in Busy => pc[w] \in Busy
      BY DEF Notified, Busy
<1>2. ASSUME \/ \E s \in Sessions : Request(s) \/ ClientCloses(s)
             \/ \E e \in Known(runtime) : ClientCancels(e)
             \/ Collect
             \/ \E w \in Workers : CallTool(w)
             \/ UNCHANGED allVars
      PROVE  TurnOfHand'
  <2>1. queue' = queue /\ job' = job /\ pc' = pc
        BY <1>2 DEF Request, ClientCloses, ClientCancels, Collect, CallTool, serverVars, allVars
  <2>. QED BY <1>1, <2>1
<1>3. ASSUME InputEnds \/ RequestFails PROVE TurnOfHand'
  <2>1. queue' = Q!Closed(queue) /\ job' = job /\ pc' = Notified
        BY <1>3 DEF InputEnds, RequestFails
  <2>2. queue'.active_sessions = queue.active_sessions
        BY <1>b, <2>1, ClosedIs DEF QueueTypes
  <2>. QED BY <1>1, <1>n, <2>1, <2>2
<1>4. ASSUME ReaderEnqueues \/ \E w \in Workers : WorkerEnqueues(w) PROVE TurnOfHand'
  <2>1. /\ job' = job
        /\ \/ queue' = queue /\ pc' = pc
           \/ \E j : queue' = Q!Enqueued(queue, j) /\ pc' \in {pc, Notified}
        BY <1>4 DEF ReaderEnqueues, WorkerEnqueues, EnqueueNext
  <2>2. queue'.active_sessions = queue.active_sessions
        BY <1>b, <2>1, EnqueuedIs DEF QueueTypes
  <2>. QED BY <1>1, <1>n, <2>1, <2>2
<1>5. ASSUME NEW w \in Workers,
             \/ Wait(w) \/ StartJob(w) \/ BeginJob(w) \/ FinishJob(w) \/ JobError(w)
             \/ CollectGroup(w) \/ ReadQuiescence(w)
      PROVE  TurnOfHand'
  <2>1. /\ queue' = queue /\ job' = job
        /\ \E place : pc' = [pc EXCEPT ![w] = place] /\ (pc[w] \in Busy \/ place \notin Busy)
        BY <1>5 DEF Wait, StartJob, BeginJob, FinishJob, JobError, CollectGroup, ReadQuiescence, Persists, Goes, Busy
  <2>. QED BY <1>1, <1>e, <2>1
<1>6. ASSUME NEW w \in Workers, Take(w) PROVE TurnOfHand'
  <2>1. PICK i \in DOMAIN queue.pending :
           /\ Q!FirstEligible(queue, i) /\ queue' = Q!Taken(queue, i)
           /\ job' = [job EXCEPT ![w] = queue.pending[i]]
        BY <1>6 DEF Take
  <2> DEFINE j == queue.pending[i]
  <2>2. j \in Jobs(runtime)
        BY <1>b, ElementOfSeq, LenProperties DEF QueueTypes
  <2>3. j.session \in Sessions /\ DOMAIN queue.active_sessions = Sessions /\ DOMAIN queue = QueueFields
        BY <1>b, <1>c, <2>2 DEF QueueTypes
  <2>4. queue.active_sessions[j.session] \in {None, j.group}
        BY <2>1 DEF Q!FirstEligible, Q!Eligible
  <2>5. queue'.active_sessions =
           [queue.active_sessions EXCEPT ![j.session] =
              IF queue.active_sessions[j.session] = None THEN j.group ELSE queue.active_sessions[j.session]]
        BY <2>1, <2>3 DEF Q!Taken, QueueFields
  <2> HIDE DEF j
  <2>6. queue'.active_sessions[j.session] = j.group
        BY <2>3, <2>4, <2>5
  <2>7. \A s \in Sessions : queue.active_sessions[s] # None => queue'.active_sessions[s] = queue.active_sessions[s]
        BY <2>3, <2>5
  <2>8. /\ job'[w] = j /\ \A v \in Workers \ {w} : job'[v] = job[v] /\ pc'[v] = pc[v]
        BY <1>b, <1>6, <2>1 DEF Take, ThreadTypes, j
  <2>9. ASSUME NEW v \in Workers, pc'[v] \in Busy
        PROVE  queue'.active_sessions[job'[v].session] = job'[v].group
        BY <1>d, <2>6, <2>7, <2>8, <2>9 DEF TurnOfHand
  <2>. QED BY <2>9 DEF TurnOfHand
<1>7. ASSUME NEW w \in Workers, CompleteJob(w) \/ CompleteFailed(w) PROVE TurnOfHand'
  <2>1. \A s \in Sessions : queue'.active_sessions[s] # queue.active_sessions[s] =>
           queue.active_sessions[s] = job[w].group /\ Hands(job[w].group) = {w}
    <3>1. quiet[w] \in BOOLEAN
          BY <1>b DEF ThreadTypes
    <3>2. CASE CompleteJob(w)
          BY <3>1, <3>2, CompleteKeeps DEF CompleteJob
    <3>3. CASE CompleteFailed(w)
          BY <3>3, CompleteKeeps DEF CompleteFailed
    <3>. QED BY <1>7, <3>2, <3>3
  <2>2. /\ pc'[w] \notin Busy
        /\ \A v \in Workers \ {w} : job'[v] = job[v] /\ (pc'[v] \in Busy => pc[v] \in Busy)
        BY <1>b, <1>7, <1>n DEF CompleteJob, CompleteFailed, ThreadTypes, Notified, Busy
  <2>3. ASSUME NEW v \in Workers, pc'[v] \in Busy
        PROVE  queue'.active_sessions[job'[v].session] = job'[v].group
    <3>1. v # w /\ job'[v] = job[v] /\ pc[v] \in Busy
          BY <2>2, <2>3
    <3>2. queue.active_sessions[job[v].session] = job[v].group /\ job[v].session \in Sessions
          BY <1>d, <3>1 DEF TurnOfHand
    <3>3. v \in Hands(job[v].group)
          BY <3>1 DEF Hands
    <3>. QED BY <2>1, <3>1, <3>2, <3>3
  <2>. QED BY <2>3 DEF TurnOfHand
<1>. QED BY <1>2, <1>3, <1>4, <1>5, <1>6, <1>7 DEF ServerNext, WorkerStep, ReaderStep

\* Executions of one session that are at work are of one group.
OneGroupAtWork ==
    \A e, f \in NonResumable(runtime) :
        runtime.executions[e].session = runtime.executions[f].session => GroupOf(e) = GroupOf(f)

\* A session works on one group at a time: its submissions do not run into each other.  The queue
\* keeps turns of jobs (server.rs:118-182); that what the tree calls Running is a job in a worker's
\* hand takes the workers, and fails once one of them is lost to an error.
THEOREM SessionsTakeTurns == ServerSpec => [](Errors = 0 => OneGroupAtWork)
<1>1. ServerInit => TurnOfHand
      BY DEF ServerInit, TurnOfHand, Busy
<1>2. TreeInOrder /\ ServerInOrder /\ TurnOfHand /\ [ServerNext]_allVars => TurnOfHand'
      BY TurnOfHandStays
<1>3. TreeInOrder /\ ServerInOrder /\ TurnOfHand => (Errors = 0 => OneGroupAtWork)
  <2> SUFFICES ASSUME TreeInOrder, ServerInOrder, TurnOfHand, Errors = 0,
                      NEW e \in NonResumable(runtime), NEW f \in NonResumable(runtime),
                      runtime.executions[e].session = runtime.executions[f].session
               PROVE  GroupOf(e) = GroupOf(f)
      BY DEF OneGroupAtWork
  <2>1. RunningIsManned
        BY ErrorsAreCounted DEF ServerInOrder
  <2>2. ASSUME NEW x \in NonResumable(runtime)
        PROVE  queue.active_sessions[runtime.executions[x].session] = GroupOf(x)
    <3>1. PICK w \in Workers : pc[w] = "running" /\ job[w].execution = x
          BY <2>1, <2>2 DEF RunningIsManned
    <3>2. pc[w] \in Busy
          BY <3>1 DEF Busy
    <3>3. job[w] \in Jobs(runtime)
          BY <3>2 DEF ServerInOrder, ThreadTypes
    <3>4. job[w].session = runtime.executions[x].session /\ job[w].group = GroupIn(runtime, x)
          BY <3>1, <3>3 DEF Jobs
    <3>. QED BY <3>2, <3>4 DEF TurnOfHand, GroupOf, GroupIn
  <2>. QED BY <2>2
<1>. QED BY <1>1, <1>2, <1>3, ServerStaysInOrder, PTL DEF ServerSpec
===============================================================================

--------------------------- MODULE ConductorRuntime ---------------------------
(***************************************************************************)
(* The execution tree of the conductor (ConductorRuntime in lib.rs,        *)
(* failure_decisions.rs and callables.rs): top-level executions of a       *)
(* session, orchestrations that start one agent per node once the node's   *)
(* dependencies completed, interface agents that decide what becomes of a  *)
(* failed child, and the propagation of failure and cancellation.          *)
(*                                                                         *)
(* Every operation runs under the runtime mutex, so it is one action.  The *)
(* operations call each other (set_state -> cancel_descendants -> set_state*)
(* -> refresh_orchestration -> set_state ...); they are written as         *)
(* functions from runtime to runtime.  The conductor's server only creates *)
(* orchestrations at top level or under a root execution, and agents at    *)
(* top level or under an orchestration, so the recursion is at most three  *)
(* executions deep and is unfolded.                                        *)
(*                                                                         *)
(* Objectives, targets and event payloads are abstracted.  No policy guard *)
(* is registered by the conductor binary, so policy checks succeed.        *)
(***************************************************************************)
EXTENDS Integers, Sequences, FiniteSets, SequencesExt

CONSTANTS Sessions,        \* session ids
          Agents,          \* callables of kind Agent
          InterfaceAgent,  \* the orchestration's interface_agent, or None
          NodeOrder,       \* the nodes of the orchestration definition, in order
          NodeCallable,    \* NodeCallable[n]: the agent a node runs
          DependsOn,       \* DependsOn[n]: the nodes n waits for
          Delegable,       \* callables the interface agent may delegate to
          FirstExecution,  \* the cursor of ids: execution-<n>
          MaxExecutions,   \* bound: executions created in a behaviour
          MaxTopLevel,     \* bound: those among them that have no parent
          None

\* OrchestrationNodeIds of the definition
Nodes == ToSet(NodeOrder)

ASSUME DefinitionAssumption ==
    /\ FirstExecution \in Nat /\ MaxExecutions \in Nat /\ MaxTopLevel \in Nat
    /\ FirstExecution >= 1 /\ FirstExecution + MaxExecutions <= 100
    /\ NodeOrder \in Seq(Nodes)
    /\ NodeCallable \in [Nodes -> Agents]
    /\ DependsOn \in [Nodes -> SUBSET Nodes]
    /\ InterfaceAgent \in Agents \cup {None}
    /\ Delegable \subseteq Agents
    /\ None \notin Agents \cup Nodes \cup Int

\* What register_orchestration sees to: no node comes twice, and dependencies are
\* acyclic, so that among any nodes one waits for none of the others.
ASSUME RegistrationAssumption ==
    /\ IsInjective(NodeOrder)
    /\ \A S \in SUBSET Nodes : S # {} => \E n \in S : DependsOn[n] \cap S = {}

VARIABLES runtime,   \* the tree, the decisions, the interfaces and whether an event was refused
          sessions,  \* sessions[s]: "Active" or "Closed"
          attempts,  \* attempt_groups, in creation order
          started    \* the executions a worker is preparing or running

vars == <<runtime, sessions, attempts, started>>

Ids == FirstExecution .. (FirstExecution + MaxExecutions - 1)

States == {"Pending", "Running", "Completed", "Failed", "Cancelled", "Interrupted"}

\* is_terminal
Terminal == {"Completed", "Failed", "Cancelled", "Interrupted"}

Kinds == {"Root", "Agent", "Orchestration"}

Executions == [session : Sessions, parent : Ids \cup {None}, kind : Kinds,
               callable : Agents \cup {None}, node : Nodes \cup {None},
               state : States]

\* OrchestrationFailureDecision
Decisions == [kind : {"Retry", "ChooseAnotherChild"}, execution : Ids]
             \cup [kind : {"Continue", "Fail"}, execution : {None}]

\* ExecutionTerminationCause: whose cancellation or failure ended the execution.
Causes == [kind : {"ExplicitCancellation", "AncestorFailure"}, execution : Ids]

TypeOK ==
    /\ DOMAIN runtime.executions = FirstExecution ..
                                   (FirstExecution + Cardinality(DOMAIN runtime.executions) - 1)
    /\ DOMAIN runtime.executions \subseteq Ids
    /\ \A e \in DOMAIN runtime.executions : runtime.executions[e] \in Executions
    /\ DOMAIN runtime.decisions \subseteq DOMAIN runtime.executions
    /\ \A e \in DOMAIN runtime.decisions : runtime.decisions[e] \in Decisions
    /\ DOMAIN runtime.interfaces \subseteq DOMAIN runtime.executions
    /\ \A e \in DOMAIN runtime.interfaces : runtime.interfaces[e] \in DOMAIN runtime.executions
    /\ DOMAIN runtime.causes \subseteq DOMAIN runtime.executions
    /\ \A e \in DOMAIN runtime.causes : runtime.causes[e] \in Causes
    /\ sessions \in [Sessions -> {"Active", "Closed"}]
    /\ started \subseteq DOMAIN runtime.executions
    /\ runtime.refused \in BOOLEAN
    /\ \A i \in DOMAIN attempts : attempts[i] \in [attempts : Seq(Ids), failures : Seq(Ids)]

Empty == [x \in {} |-> None]

Init ==
    /\ runtime = [executions |-> Empty, decisions |-> Empty,
                  interfaces |-> Empty, causes |-> Empty, refused |-> FALSE]
    /\ sessions = [s \in Sessions |-> "Active"]
    /\ attempts = <<>>
    /\ started = {}
-------------------------------------------------------------------------------
(* Reading a runtime r. *)

Known(r) == DOMAIN r.executions

StateOf(r, e) == r.executions[e].state

Live(r, e) == StateOf(r, e) \notin Terminal

ParentOf(r, e) == r.executions[e].parent

Children(r, p) == {e \in Known(r) : ParentOf(r, e) = p}

\* execution_subtree, without its root
Descendants(r, p) ==
    Children(r, p) \cup UNION {Children(r, c) : c \in Children(r, p)}

IsOrchestration(r, e) == e # None /\ r.executions[e].kind = "Orchestration"

\* Executions are kept in maps ordered by id string: execution-10 comes
\* before execution-9 (ids below 100).
StringKey(e) == IF e < 10 THEN 20 * e - 1 ELSE 2 * e

StringBefore(a, b) == StringKey(a) < StringKey(b)

\* An id's place is the number of ids up to it.
IdOrder ==
    [i \in 1..MaxExecutions |->
        CHOOSE e \in Ids : Cardinality({f \in Ids : ~StringBefore(e, f)}) = i]

InIdOrder(S) ==
    LET upTo[i \in 0..MaxExecutions] ==
            IF i = 0 THEN <<>>
            ELSE IF IdOrder[i] \in S THEN Append(upTo[i - 1], IdOrder[i]) ELSE upTo[i - 1]
    IN upTo[MaxExecutions]

FirstInIdOrder(S) == CHOOSE e \in S : \A f \in S \ {e} : StringBefore(e, f)

\* new_execution_id
NextId(r) == FirstExecution + Cardinality(Known(r))

\* orchestration_interfaces: the interfaces of o's failed children
InterfacesOf(r, o) == {r.interfaces[f] : f \in {f \in DOMAIN r.interfaces : ParentOf(r, f) = o}}

\* failed_child_for_interface
FailedChildFor(r, i) == {f \in DOMAIN r.interfaces : r.interfaces[f] = i}

Decided(r, e) == e \in DOMAIN r.decisions

\* effective_orchestration_execution_state: follow the recoveries of a
\* failed execution.  A recovery is created after what it recovers.
EffectiveState(r, e) ==
    LET follow[x \in Known(r)] ==
            IF StateOf(r, x) # "Failed" THEN StateOf(r, x)
            ELSE IF ~Decided(r, x) THEN "Failed"
            ELSE CASE r.decisions[x].kind = "Continue" -> "Completed"
                   [] r.decisions[x].kind = "Fail" -> "Failed"
                   [] OTHER -> follow[r.decisions[x].execution]
    IN follow[e]

\* The node executions of orchestration o, and orchestration_node_states.
NodeExecutions(r, o) == {e \in Children(r, o) : r.executions[e].node # None}

StartedNodes(r, o) == {r.executions[e].node : e \in NodeExecutions(r, o)}

NodeState(r, o, n) ==
    EffectiveState(r, CHOOSE e \in NodeExecutions(r, o) : r.executions[e].node = n)

SomeNode(r, o, state) == \E n \in StartedNodes(r, o) : NodeState(r, o, n) = state
-------------------------------------------------------------------------------
(* What the reducer of the journal (apply_domain_event) asks of an event      *)
(* before it is applied to r.  An event that it refuses makes the operation   *)
(* that recorded it return an error, with its earlier events in effect.       *)

\* The callables in the authority of p.  An orchestration's is the envelope of
\* its agents', so it holds what its interface agent may delegate to.
Delegates(r, p) ==
    IF r.executions[p].kind = "Root" THEN Agents
    ELSE Delegable \cup {InterfaceAgent} \cup {NodeCallable[n] : n \in Nodes}

\* ExecutionCreated
AcceptsExecution(r, e, s, parent, callable) ==
    /\ sessions[s] = "Active"
    /\ e = FirstExecution + Cardinality(Known(r))
    /\ parent # None => /\ parent \in Known(r)
                        /\ callable # None => callable \in Delegates(r, parent)

\* ExecutionStateChanged
AcceptsState(r, e) == e \in Known(r) /\ Live(r, e)

\* OrchestrationNodeStarted, for the child that was created last
AcceptsNode(r, o, n) == IsOrchestration(r, o) /\ n \notin StartedNodes(r, o)

IsLatest(r, e) == e = FirstExecution + Cardinality(Known(r)) - 1

\* failed is a failed agent of the running orchestration o.
FailedAgentOf(r, o, failed) ==
    /\ IsOrchestration(r, o) /\ StateOf(r, o) = "Running"
    /\ ParentOf(r, failed) = o
    /\ r.executions[failed].kind = "Agent" /\ StateOf(r, failed) = "Failed"

\* new was just created as an agent of o, for no node.
FreshAgentOf(r, o, new) ==
    /\ new \in Known(r) /\ IsLatest(r, new)
    /\ ParentOf(r, new) = o
    /\ r.executions[new].kind = "Agent" /\ StateOf(r, new) = "Pending"
    /\ r.executions[new].node = None

\* OrchestrationFailureInterfaceStarted
AcceptsInterface(r, o, failed, interface) ==
    /\ failed \notin DOMAIN r.interfaces
    /\ FailedAgentOf(r, o, failed)
    /\ FreshAgentOf(r, o, interface)

\* OrchestrationDecisionMade, the recovery and the decider aside
AcceptsDecision(r, failed) ==
    ~Decided(r, failed) /\ FailedAgentOf(r, ParentOf(r, failed), failed)

\* The decider is the interface of failed, and has not come to grief.
AcceptsDecider(r, failed, decider) ==
    /\ failed \in DOMAIN r.interfaces /\ r.interfaces[failed] = decider
    /\ ParentOf(r, decider) = ParentOf(r, failed)
    /\ r.executions[decider].kind = "Agent"
    /\ StateOf(r, decider) \in {"Running", "Completed"}

\* The recovery is new, and nobody else's.
AcceptsRecovery(r, failed, recovery) ==
    /\ FreshAgentOf(r, ParentOf(r, failed), recovery)
    /\ \A f \in DOMAIN r.interfaces : r.interfaces[f] # recovery
    /\ \A f \in DOMAIN r.decisions : r.decisions[f].execution # recovery

\* AttemptGroupCreated, AttemptFailureRecorded and AttemptRetryStarted: the
\* attempts of group g, the last of which has failed, go on with retry.
AcceptsRetry(r, groups, g, retry) ==
    LET tried == Front(g.attempts) IN
    /\ g.failures = tried
    /\ Last(g.attempts) = retry
    /\ r.executions[Last(tried)].kind = "Agent" /\ StateOf(r, Last(tried)) = "Failed"
    /\ r.executions[retry].kind = "Agent" /\ StateOf(r, retry) = "Pending"
    /\ ParentOf(r, retry) = ParentOf(r, Head(tried))
    /\ r.executions[retry].callable = r.executions[Head(tried)].callable
    /\ \A other \in ToSet(groups) \ {g} : ToSet(other.attempts) \cap ToSet(g.attempts) = {}
-------------------------------------------------------------------------------
(* Writing a runtime. *)

Add(f, k, v) == [x \in DOMAIN f \cup {k} |-> IF x = k THEN v ELSE f[x]]

\* record_domain_event: what becomes of r with an event that may be refused
Recorded(r, accepted) == [r EXCEPT !.refused = @ \/ ~accepted]

\* The ExecutionStateChanged event alone.
WithState(r, e, state) ==
    [Recorded(r, AcceptsState(r, e)) EXCEPT !.executions[e].state = state]

\* create_child, create_recovery_agent and create_session_callable_execution
Create(r, s, parent, kind, callable, node) ==
    LET accepted == /\ AcceptsExecution(r, NextId(r), s, parent, callable)
                    /\ node # None => AcceptsNode(r, parent, node)
    IN [Recorded(r, accepted) EXCEPT !.executions = Add(@, NextId(r),
           [session |-> s, parent |-> parent, kind |-> kind, callable |-> callable,
            node |-> node, state |-> "Pending"])]

CreateAgent(r, o, callable, node) ==
    Create(r, r.executions[o].session, o, "Agent", callable, node)

\* record_orchestration_failure_decision
Decide(r, failed, kind, recovery) ==
    [Recorded(r, AcceptsDecision(r, failed)) EXCEPT
        !.decisions = Add(@, failed, [kind |-> kind, execution |-> recovery])]

\* Mutant: the fallback only respects a decision that started a recovery.
FallbackFailOverwriting(r, S) ==
    LET undecided == {e \in S : ~Decided(r, e) \/ r.decisions[e].kind = "Continue"}
        fail == [kind |-> "Fail", execution |-> None]
    IN [r EXCEPT !.decisions = [e \in DOMAIN r.decisions \cup undecided |->
                                  IF e \in undecided THEN fail ELSE r.decisions[e]]]

\* record_fallback_fail of each of S: the one decision without a decider
FallbackFail(r, S) ==
    LET undecided == {e \in S : ~Decided(r, e)}
        fail == [kind |-> "Fail", execution |-> None]
    IN [Recorded(r, \A e \in undecided : AcceptsDecision(r, e)) EXCEPT
           !.decisions = [e \in DOMAIN r.decisions \cup undecided |->
                            IF e \in undecided THEN fail ELSE r.decisions[e]]]

\* The ExecutionTerminated event that cancel_execution_set pushes.
WithCause(r, e, cause) == [r EXCEPT !.causes = Add(@, e, cause)]

\* Mutant: set_state forgets cancel_descendants.
FailOrchestrationAlone(r, o) == WithState(r, o, "Failed")

\* set_state(o, Failed) of an orchestration: every child that is still live is
\* cancelled; o is already terminal, so their refreshes change nothing.
FailOrchestration(r, o) ==
    LET failed == WithState(r, o, "Failed")
        live == {c \in Children(r, o) : Live(failed, c)}
        cause == [kind |-> "AncestorFailure", execution |-> o]
    IN [failed EXCEPT
           !.executions = [e \in Known(r) |->
                             IF e \in live THEN [failed.executions[e] EXCEPT !.state = "Cancelled"]
                             ELSE failed.executions[e]],
           !.causes = [e \in DOMAIN r.causes \cup live |->
                         IF e \in live THEN cause ELSE r.causes[e]]]

\* start_failure_interface
StartInterface(r, o, failed) ==
    LET s == CreateAgent(r, o, InterfaceAgent, None)
    IN [Recorded(s, AcceptsInterface(s, o, failed, NextId(r))) EXCEPT
           !.interfaces = Add(@, failed, NextId(r))]

\* Mutant: a node that has started counts as ready again.
ReadyAgain(r, o) ==
    {n \in Nodes :
        \A d \in DependsOn[n] : d \in StartedNodes(r, o) /\ NodeState(r, o, d) = "Completed"}

\* The nodes that have not started and whose dependencies are all Completed.
ReadyNodes(r, o) ==
    {n \in Nodes \ StartedNodes(r, o) :
        \A d \in DependsOn[n] : d \in StartedNodes(r, o) /\ NodeState(r, o, d) = "Completed"}

AllNodesCompleted(r, o) ==
    \A n \in Nodes : n \in StartedNodes(r, o) /\ NodeState(r, o, n) = "Completed"

\* The agents of the nodes in ready are created, in the order of the definition.
StartNodes(r, o, ready) ==
    LET upTo[i \in 0..Len(NodeOrder)] ==
            IF i = 0 THEN r
            ELSE IF NodeOrder[i] \in ready
                 THEN CreateAgent(upTo[i - 1], o, NodeCallable[NodeOrder[i]], NodeOrder[i])
                 ELSE upTo[i - 1]
    IN upTo[Len(NodeOrder)]

\* advance_orchestration
Advance(r, o) ==
    IF StateOf(r, o) # "Running" THEN r
    ELSE IF ReadyNodes(r, o) # {} THEN StartNodes(r, o, ReadyNodes(r, o))
    ELSE IF AllNodesCompleted(r, o) THEN WithState(r, o, "Completed")
    ELSE r

\* The failed children of o that the orchestration has yet to handle, and the
\* interfaces that failed themselves.
Undecided(r, o) ==
    {c \in Children(r, o) : StateOf(r, c) = "Failed" /\ ~Decided(r, c)} \ InterfacesOf(r, o)

FailedInterfaces(r, o) == {i \in InterfacesOf(r, o) : StateOf(r, i) = "Failed"}

\* Mutant: an interface that ended without a decision is waited for.
HandleFailureWaiting(r, o, failed) ==
    IF InterfaceAgent = None THEN FailOrchestration(FallbackFail(r, {failed}), o)
    ELSE IF failed \in DOMAIN r.interfaces THEN r
    ELSE StartInterface(r, o, failed)

\* Mutant: the orchestration is failed before the decision is recorded.
HandleFailureSwapped(r, o, failed) ==
    IF \/ InterfaceAgent = None
       \/ failed \in DOMAIN r.interfaces /\ ~Live(r, r.interfaces[failed])
    THEN FallbackFail(FailOrchestration(r, o), {failed})
    ELSE IF failed \in DOMAIN r.interfaces THEN r
    ELSE StartInterface(r, o, failed)

\* One undecided failure: without an interface agent, or once the interface
\* ended without a decision, the orchestration fails; otherwise an interface
\* is started, or waited for.
HandleFailure(r, o, failed) ==
    IF \/ InterfaceAgent = None
       \/ failed \in DOMAIN r.interfaces /\ ~Live(r, r.interfaces[failed])
    THEN FailOrchestration(FallbackFail(r, {failed}), o)
    ELSE IF failed \in DOMAIN r.interfaces THEN r
    ELSE StartInterface(r, o, failed)

\* refresh_orchestration
Refresh(r, o) ==
    IF ~IsOrchestration(r, o) \/ ~Live(r, o) THEN r
    ELSE IF FailedInterfaces(r, o) # {}
         THEN LET i == FirstInIdOrder(FailedInterfaces(r, o))
              IN FailOrchestration(FallbackFail(r, {i} \cup FailedChildFor(r, i)), o)
    ELSE IF Undecided(r, o) # {} THEN HandleFailure(r, o, FirstInIdOrder(Undecided(r, o)))
    ELSE IF SomeNode(r, o, "Failed") THEN FailOrchestration(r, o)
    ELSE IF SomeNode(r, o, "Cancelled") THEN WithState(r, o, "Cancelled")
    ELSE IF SomeNode(r, o, "Interrupted") THEN WithState(r, o, "Interrupted")
    ELSE Advance(r, o)

\* What becomes of e in cancel_execution_set: it is cancelled if it is live, and
\* its parent refreshed.
CancelOne(r, e, cause) ==
    IF Live(r, e) THEN Refresh(WithState(WithCause(r, e, cause), e, "Cancelled"), ParentOf(r, e))
    ELSE r

\* cancel_execution_set: in id order, the next one is looked at when the parent of
\* the last is refreshed.
CancelSet(r, S, cause) ==
    LET upTo[i \in 0..MaxExecutions] ==
            IF i = 0 THEN r
            ELSE IF IdOrder[i] \in S THEN CancelOne(upTo[i - 1], IdOrder[i], cause)
                 ELSE upTo[i - 1]
    IN upTo[MaxExecutions]

\* set_state for a live execution
SetState(r, e, state) ==
    LET changed == WithState(r, e, state)
        settled == IF state = "Failed"
                   THEN CancelSet(changed, Descendants(changed, e),
                                  [kind |-> "AncestorFailure", execution |-> e])
                   ELSE changed
    IN IF state \in Terminal THEN Refresh(settled, ParentOf(r, e)) ELSE settled
-------------------------------------------------------------------------------
(* The operations. *)

\* Bounds: no step creates more executions than MaxExecutions and MaxTopLevel.
Commit(r) ==
    /\ Cardinality(Known(r)) <= MaxExecutions
    /\ Cardinality(Children(r, None)) <= MaxTopLevel
    /\ runtime' = r

\* submit, and start_session_callable of an agent
Submit(s) ==
    /\ sessions[s] = "Active"
    /\ \/ Commit(Create(runtime, s, None, "Root", None, None))
       \/ \E c \in Agents : Commit(Create(runtime, s, None, "Agent", c, None))
    /\ UNCHANGED <<sessions, attempts, started>>

\* The orchestration created last is set Running and advanced.
Launch(r) == Advance(SetState(r, NextId(runtime), "Running"), NextId(runtime))

\* start_session_callable of an orchestration
StartSessionOrchestration(s) ==
    /\ sessions[s] = "Active"
    /\ Commit(Launch(Create(runtime, s, None, "Orchestration", None, None)))
    /\ UNCHANGED <<sessions, attempts, started>>

\* start_orchestration, called by the semantic tool of a running root
StartOrchestration(p) ==
    /\ runtime.executions[p].kind = "Root"
    /\ StateOf(runtime, p) = "Running"
    /\ sessions[runtime.executions[p].session] = "Active"
    /\ Commit(Launch(Create(runtime, runtime.executions[p].session, p,
                            "Orchestration", None, None)))
    /\ UNCHANGED <<sessions, attempts, started>>

\* execution_has_blocking_ancestor
HasBlockingAncestor(e) ==
    \E a \in Known(runtime) :
        /\ e \in Descendants(runtime, a)
        /\ StateOf(runtime, a) \in {"Failed", "Cancelled", "Interrupted"}

\* execution_group_id
GroupOf(e) ==
    CHOOSE g \in Known(runtime) :
        ParentOf(runtime, g) = None /\ e \in {g} \cup Descendants(runtime, g)

InGroup(g) == {g} \cup Descendants(runtime, g)

\* Pending and not kept from running by an ancestor
Runnable(e) == StateOf(runtime, e) = "Pending" /\ ~HasBlockingAncestor(e)

\* A worker takes e up (execute_execution): its ancestors are looked at now and
\* not again, however long the lease and the backend session take.
Start(e) ==
    /\ ~IsOrchestration(runtime, e)
    /\ e \notin started
    /\ StateOf(runtime, e) = "Pending"
    /\ ~HasBlockingAncestor(e)
    /\ started' = started \cup {e}
    /\ UNCHANGED <<runtime, sessions, attempts>>

\* begin_execution
Begin(e) ==
    /\ e \in started
    /\ StateOf(runtime, e) = "Pending"
    /\ Commit(SetState(runtime, e, "Running"))
    /\ UNCHANGED <<sessions, attempts, started>>

\* fail_shared_execution: e could not be prepared
FailPreparation(e) ==
    /\ e \in started
    /\ StateOf(runtime, e) = "Pending"
    /\ Commit(SetState(runtime, e, "Failed"))
    /\ UNCHANGED <<sessions, attempts, started>>

\* finish_model_execution and finish_provider_execution: the result of an
\* execution that was cancelled meanwhile is dropped.
Finish(e, state) ==
    /\ e \in started
    /\ StateOf(runtime, e) = "Running"
    /\ Commit(SetState(runtime, e, state))
    /\ UNCHANGED <<sessions, attempts, started>>

\* Mutant: only the execution itself is cancelled.
CancelAlone(e) ==
    /\ Commit(CancelSet(runtime, {e}, [kind |-> "ExplicitCancellation", execution |-> e]))
    /\ UNCHANGED <<sessions, attempts, started>>

\* cancel_execution
Cancel(e) ==
    /\ Commit(CancelSet(runtime, {e} \cup Descendants(runtime, e),
                        [kind |-> "ExplicitCancellation", execution |-> e]))
    /\ UNCHANGED <<sessions, attempts, started>>

\* validate_session_close and close_session
CloseSession(s) ==
    /\ sessions[s] = "Active"
    /\ \A e \in Known(runtime) : runtime.executions[e].session = s => ~Live(runtime, e)
    /\ sessions' = [sessions EXCEPT ![s] = "Closed"]
    /\ UNCHANGED <<runtime, attempts, started>>
-------------------------------------------------------------------------------
(* decide_orchestration_failure, by the interface agent d *)

\* The checks that come before any change of state.
MayDecide(d, failed) ==
    /\ failed \in FailedChildFor(runtime, d)
    /\ ~Decided(runtime, failed)
    /\ StateOf(runtime, d) = "Running"  \* invoke_tool of the host; decide admits Completed too
    /\ StateOf(runtime, failed) = "Failed"
    /\ StateOf(runtime, ParentOf(runtime, d)) = "Running"

\* Mutant: only the execution that was tried first is looked up.
GroupsStartedBy(failed) == {i \in DOMAIN attempts : Head(attempts[i].attempts) = failed}

\* The group of attempts failed belongs to, if it was retried before.
GroupsOf(failed) == {i \in DOMAIN attempts : Contains(attempts[i].attempts, failed)}

\* create_retry_recovery: the failure and the retry join the attempt group.
WithRetry(failed, retry) ==
    IF GroupsOf(failed) = {}
    THEN Append(attempts, [attempts |-> <<failed, retry>>, failures |-> <<failed>>])
    ELSE LET i == CHOOSE i \in GroupsOf(failed) : TRUE IN
         [attempts EXCEPT
            ![i].failures = IF Contains(@, failed) THEN @ ELSE Append(@, failed),
            ![i].attempts = Append(@, retry)]

\* create_recovery_agent, for the failed child that d decides about
WithRecovery(d, callable) == CreateAgent(runtime, ParentOf(runtime, d), callable, None)

\* Retry and ChooseAnotherChild: a recovery agent takes the failed one's place;
\* backed is what else the reducer asks of the decision.
Recover(d, failed, kind, callable, backed) ==
    LET recovery == NextId(runtime)
        created == WithRecovery(d, callable)
        accepted == /\ AcceptsDecider(created, failed, d)
                    /\ AcceptsRecovery(created, failed, recovery)
                    /\ backed
    IN /\ MayDecide(d, failed)
       /\ callable \in Delegable
       /\ Commit(Refresh(Decide(Recorded(created, accepted), failed, kind, recovery),
                         ParentOf(runtime, d)))
       /\ UNCHANGED <<sessions, started>>

Retry(d, failed) ==
    LET callable == runtime.executions[failed].callable
        retry == NextId(runtime)
        groups == WithRetry(failed, retry)
        backed == \E g \in ToSet(groups) :
                     /\ Contains(g.attempts, failed)
                     /\ AcceptsRetry(WithRecovery(d, callable), groups, g, retry)
    IN /\ \A i \in GroupsOf(failed) : Last(attempts[i].attempts) = failed
       /\ Recover(d, failed, "Retry", callable, backed)
       /\ attempts' = groups

ChooseAnotherChild(d, failed, callable) ==
    LET other == callable # runtime.executions[failed].callable IN
    /\ callable \notin {runtime.executions[failed].callable, InterfaceAgent}
    /\ Recover(d, failed, "ChooseAnotherChild", callable, other)
    /\ UNCHANGED attempts

\* Continue and Fail
Resolve(d, failed, kind) ==
    /\ MayDecide(d, failed)
    /\ Commit(Refresh(Decide(Recorded(runtime, AcceptsDecider(runtime, failed, d)),
                             failed, kind, None), ParentOf(runtime, d)))
    /\ UNCHANGED <<sessions, attempts, started>>

DecideFailure(d, failed) ==
    \/ Retry(d, failed)
    \/ \E c \in Agents : ChooseAnotherChild(d, failed, c)
    \/ \E kind \in {"Continue", "Fail"} : Resolve(d, failed, kind)

Next ==
    \/ \E s \in Sessions : Submit(s) \/ StartSessionOrchestration(s) \/ CloseSession(s)
    \/ \E e \in Known(runtime) :
          \/ StartOrchestration(e)
          \/ Start(e)
          \/ Begin(e)
          \/ Finish(e, "Completed")
          \/ Finish(e, "Failed")
          \/ FailPreparation(e)
          \/ Cancel(e)
          \/ \E failed \in Known(runtime) : DecideFailure(e, failed)

Spec == Init /\ [][Next]_vars
-------------------------------------------------------------------------------
(* Properties. *)

\* A failed execution leaves nothing of its subtree running or waiting to run
\* (set_state, lib.rs:1676): neither a sibling still at work when an
\* orchestration gives up, nor a recovery started a moment before.
FailureStopsDescendants ==
    \A e \in Known(runtime) :
        StateOf(runtime, e) = "Failed" =>
            \A d \in Descendants(runtime, e) : ~Live(runtime, d)

\* No operation is refused halfway: however operations are nested, the journal's
\* reducer accepts every event they record, so none returns an error with its
\* first events in effect and published, and replay accepts the journal
\* (record_domain_event, lib.rs:531).
NoEventRefused == ~runtime.refused

\* A running orchestration is waiting for somebody: one of its agents is live,
\* so that some later event refreshes it (failure_decisions.rs:447).
NoStalledOrchestration ==
    \A o \in Known(runtime) :
        IsOrchestration(runtime, o) /\ Live(runtime, o) =>
            \E c \in Children(runtime, o) : Live(runtime, c)

\* What is recorded of a cancellation is true.  The cause names the execution
\* itself or one above it, which failed if it is said to have failed; and once
\* the client's cancellation has ended anything, nothing of the subtree is live
\* or ever will be, although the subtree is collected once and orchestrations
\* are refreshed, which may start agents, while it is cancelled (lib.rs:1614).
CancelIsComplete ==
    \A e \in DOMAIN runtime.causes :
        LET cause == runtime.causes[e]
            below == {cause.execution} \cup Descendants(runtime, cause.execution)
        IN /\ StateOf(runtime, e) = "Cancelled" /\ e \in below
           /\ cause.kind = "AncestorFailure" =>
                 e # cause.execution /\ StateOf(runtime, cause.execution) = "Failed"
           /\ cause.kind = "ExplicitCancellation" => \A d \in below : ~Live(runtime, d)

\* What is over stays so: an execution that ended stays as it ended, whoever
\* finishes late, and what was decided about a failed child is not revised, not
\* even when the interface agent that decided fails in its turn: "exactly one
\* parent decision for the failed child" (semantic_tools.rs:316).
OutcomesAreFinal ==
    [][/\ \A e \in Known(runtime) :
             ~Live(runtime, e) => StateOf(runtime', e) = StateOf(runtime, e)
       /\ \A e \in DOMAIN runtime.decisions :
             runtime'.decisions[e] = runtime.decisions[e]]_vars

\* An orchestration runs as it is written, whatever order the completions,
\* retries and replacements of its agents arrive in (failure_decisions.rs:447):
\* a node is started at most once, and only when its dependencies completed,
\* recoveries counted, which is never taken back; the orchestration is Completed
\* only when every node is, in person, through a recovery or by a decision to
\* continue.
NodesRunInOrder ==
    \A o \in {o \in Known(runtime) : IsOrchestration(runtime, o)} :
        LET NodeOf(e) == runtime.executions[e].node
            own == {e \in Children(runtime, o) : NodeOf(e) # None}
            done == {NodeOf(e) : e \in {e \in own : EffectiveState(runtime, e) = "Completed"}}
        IN /\ IsInjective([e \in own |-> NodeOf(e)])
           /\ \A e \in own : DependsOn[NodeOf(e)] \subseteq done
           /\ StateOf(runtime, o) = "Completed" => done = Nodes

\* An attempt group is the history of one piece of work: it lists every
\* attempt in order, each the retry decided for the one before, of one
\* callable and under one orchestration, and no execution is in two groups
\* (failure_decisions.rs:200).
AttemptsAreChains ==
    \A i \in DOMAIN attempts :
        LET tried == attempts[i].attempts IN
        /\ attempts[i].failures = Front(tried)
        /\ \A k \in 1 .. Len(tried) - 1 :
              /\ StateOf(runtime, tried[k]) = "Failed"
              /\ runtime.decisions[tried[k]] = [kind |-> "Retry", execution |-> tried[k + 1]]
              /\ runtime.executions[tried[k]].callable = runtime.executions[tried[k + 1]].callable
              /\ ParentOf(runtime, tried[k]) = ParentOf(runtime, tried[k + 1])
        /\ \A j \in DOMAIN attempts \ {i} : ToSet(tried) \cap ToSet(attempts[j].attempts) = {}

===============================================================================

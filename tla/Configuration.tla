----------------------------- MODULE Configuration -----------------------------
(***************************************************************************)
(* Configuration revisions, sessions, and what executions are pinned to    *)
(* when they are created: a revision, an authority, a target and, once     *)
(* resolved, a model, tools and skills (lib.rs, journal.rs, context.rs).    *)
(*                                                                         *)
(* Executions are numbered in the order of their creation.  How failures,  *)
(* cancellations and decisions travel through a tree is ConductorRuntime's *)
(* matter: here an execution completes, or stops with what is below it.    *)
(***************************************************************************)
EXTENDS CallableRegistry

CONSTANTS BuiltIn,        \* the configuration a process starts with
          FirstFiles,     \* files an installation may start with
          LaterFiles,     \* files that are installed later on
          SkillNames,     \* skills an input may name
          Targets,        \* targets a client may choose for a session
          MaxRevisions, MaxRequests, MaxExecutions, MaxTopLevel,
          MaxNodes        \* sessions use configurations with at most as many nodes

\* A sequence, of whatever is in it
Listed(xs) == xs \in Seq({xs[i] : i \in DOMAIN xs})

\* The built-in configuration has nothing but tools.  A file is what its type
\* lets through: lists of agents, orchestrations, profiles and roots, and
\* orchestrations with a list of nodes, which are numbered.
ASSUME FileAssumption ==
    /\ \A c \in DOMAIN BuiltIn.callables : BuiltIn.callables[c].kind = "Tool"
    /\ \A file \in FirstFiles \cup LaterFiles :
          /\ Listed(file.agents) /\ Listed(file.orchestrations) /\ Listed(file.profiles)
          /\ file.roots # None => Listed(file.roots)
          /\ \A i \in DOMAIN file.orchestrations :
                LET d == file.orchestrations[i] IN
                /\ DOMAIN d = {"id", "kind", "nodes", "interface", "asks"}
                /\ Listed(d.nodes)
                /\ \A j \in DOMAIN d.nodes : d.nodes[j].id \in Nat

VARIABLES offer,       \* the file that is being installed, or None
          revisions,   \* config_revisions, in the order of their activation
          sessions,    \* the sessions: [revision, target, open]
          executions,  \* the executions, with what they are pinned to
          call,        \* the tool call that was made last, and by whom
          requests     \* how many requests have changed sessions, for the bound

vars == <<offer, revisions, sessions, executions, call, requests>>

NoExecution == 0

Live == {"Pending", "Running"}

Current == Len(revisions)

ConfigurationOf(xs, e) == revisions[xs[e].revision]

Init ==
    /\ offer = None
    /\ revisions = <<BuiltIn>>
    /\ sessions = <<>>
    /\ executions = <<>>
    /\ call = None
    /\ requests = 0
-------------------------------------------------------------------------------
(* Revisions and sessions. *)

\* main installs the first file before it serves clients.
Serving == Current > 1

Offer ==
    /\ offer = None
    /\ Current < MaxRevisions
    /\ offer' \in IF Serving THEN LaterFiles ELSE FirstFiles
    /\ UNCHANGED <<revisions, sessions, executions, requests>>
    /\ call' = None

\* ConfigurationRevisionActivated: revisions are numbered in order, the last is
\* the current one.
Activate(compiled) == revisions' = Append(revisions, compiled)

\* The file is compiled on top of the built-in configuration, or of the current
\* one (revise_configuration), and activated by reload_configuration, or refused.
Install ==
    /\ offer # None
    /\ \E base \in {BuiltIn, revisions[Current]} :
          \/ Compile(base, offer) = Refused /\ UNCHANGED revisions
          \/ \E compiled \in Compile(base, offer) : Activate(compiled)
    /\ offer' = None
    /\ UNCHANGED <<sessions, executions, requests>>
    /\ call' = None

\* A bound on what is explored: larger orchestrations are only compiled.
SmallEnough(configuration) ==
    \A c \in DOMAIN configuration.callables :
        configuration.callables[c].kind = "Orchestration" =>
            Len(configuration.callables[c].nodes) <= MaxNodes

\* A request that changes sessions, one of MaxRequests
Requested ==
    /\ requests < MaxRequests
    /\ requests' = requests + 1
    /\ UNCHANGED <<offer, revisions, executions>>
    /\ call' = None

\* SessionCreated: sessions are numbered in order and start active.
NewSession(revision, target) ==
    Append(sessions, [revision |-> revision, target |-> target, open |-> TRUE])

CreateSession(target) ==
    /\ Serving
    /\ SmallEnough(revisions[Current])
    /\ sessions' = NewSession(Current, target)
    /\ Requested

\* fork_session: also of a closed session, at its revision.
ForkSession(s) ==
    /\ sessions' = NewSession(sessions[s].revision, sessions[s].target)
    /\ Requested

\* SessionConfigRebased, SessionTargetChanged and SessionClosed: of sessions that are not closed
Changed(s, session) ==
    /\ sessions[s].open
    /\ sessions' = [sessions EXCEPT ![s] = session]
    /\ Requested

RebaseSession(s, revision) == Changed(s, [sessions[s] EXCEPT !.revision = revision])

SetSessionTarget(s, target) == Changed(s, [sessions[s] EXCEPT !.target = target])

\* Mutant: only the top-level executions of the session have to be over.
CloseSessionWithChildren(s) ==
    /\ \A e \in DOMAIN executions :
          executions[e].session = s /\ executions[e].parent = NoExecution
             => executions[e].state \notin Live
    /\ Changed(s, [sessions[s] EXCEPT !.open = FALSE])

\* close_session: while nothing of the session is live no worker has anything
\* to do for it, so the check still holds when the backends have let go of it.
CloseSession(s) ==
    /\ \A e \in DOMAIN executions :
          executions[e].session = s => executions[e].state \notin Live
    /\ Changed(s, [sessions[s] EXCEPT !.open = FALSE])
-------------------------------------------------------------------------------
(* Creating executions: record_domain_event fills in the authority, and the *)
(* reducer the revision.                                                    *)

PinnedRevision(xs, s, parent) ==
    IF parent = NoExecution THEN sessions[s].revision ELSE xs[parent].revision

\* Mutant: a child has what its definition asks for.
ConfiguredAuthority(xs, s, parent, kind, callable) ==
    Configured(revisions[PinnedRevision(xs, s, parent)], kind, callable)

\* effective_authority_for_execution
EffectiveAuthority(xs, s, parent, kind, callable) ==
    LET configured == Configured(revisions[PinnedRevision(xs, s, parent)], kind, callable)
    IN IF parent = NoExecution THEN configured ELSE xs[parent].authority \cap configured

\* xs with one execution more; a child inherits its parent's target.
Created(xs, s, parent, kind, callable, node) ==
    Append(xs, [session |-> s, parent |-> parent, kind |-> kind, callable |-> callable,
                node |-> node, state |-> IF kind = "Orchestration" THEN "Running" ELSE "Pending",
                target |-> IF parent = NoExecution THEN sessions[s].target ELSE xs[parent].target,
                revision |-> PinnedRevision(xs, s, parent),
                authority |-> EffectiveAuthority(xs, s, parent, kind, callable),
                model |-> None, tools |-> {}, asked |-> None, skills |-> {}])

Children(xs, o) == {e \in DOMAIN xs : xs[e].parent = o}

Definition(xs, o) == ConfigurationOf(xs, o).callables[xs[o].callable]

\* advance_orchestration: the nodes whose dependencies have completed, in order.
Advanced(xs, o) ==
    LET nodes == Definition(xs, o).nodes
        completed(ys) == {ys[e].node : e \in {c \in Children(ys, o) : ys[c].state = "Completed"}}
        started(ys) == {ys[e].node : e \in Children(ys, o)}
        start(ys, n) ==
            IF n.id \in started(ys) \/ ~(n.dependsOn \subseteq completed(ys))
               \/ n.callable \notin ys[o].authority
            THEN ys
            ELSE Created(ys, ys[o].session, o, "Agent", n.callable, n.id)
        upTo[i \in 0..Len(nodes)] == IF i = 0 THEN xs ELSE start(upTo[i - 1], nodes[i])
    IN upTo[Len(nodes)]

\* refresh_orchestration, of one whose agents complete
Refreshed(xs, o) ==
    LET over == \A n \in NodeIds(Definition(xs, o).nodes) :
                   \E e \in Children(xs, o) : xs[e].node = n /\ xs[e].state = "Completed"
    IN IF over THEN [xs EXCEPT ![o].state = "Completed"] ELSE Advanced(xs, o)

Becomes(xs) ==
    /\ Len(xs) <= MaxExecutions
    /\ Cardinality(Children(xs, NoExecution)) <= MaxTopLevel
    /\ executions' = xs
    /\ call' = None
    /\ UNCHANGED <<offer, revisions, sessions, requests>>

Submit(s) ==
    /\ sessions[s].open
    /\ Becomes(Created(executions, s, NoExecution, "Root", None, None))

\* start_orchestration and start_session_callable: the orchestration and all
\* of its cast must be allowed before anything is created.
StartsOrchestration(configuration, s, parent, c) ==
    /\ sessions[s].open
    /\ c \in DOMAIN configuration.callables
    /\ configuration.callables[c].kind = "Orchestration"
    /\ \A a \in {c} \cup Cast(configuration.callables[c]) : Allowed(configuration, a)
    /\ LET xs == Created(executions, s, parent, "Orchestration", c, None)
       IN Becomes(Advanced(xs, Len(xs)))

StartSessionOrchestration(s, c) ==
    StartsOrchestration(revisions[sessions[s].revision], s, NoExecution, c)

StartSessionAgent(s, c) ==
    LET configuration == revisions[sessions[s].revision] IN
    /\ sessions[s].open
    /\ c \in Agents(configuration)
    /\ Allowed(configuration, c)
    /\ Becomes(Created(executions, s, NoExecution, "Agent", c, None))

\* semantic_tools::invoke: a tool of the conductor itself is called by a running
\* execution that it was offered to.
Invoked(e, tool) ==
    /\ executions[e].state = "Running"
    /\ tool \in SemanticTools(ConfigurationOf(executions, e), executions[e].kind)

\* Only roots are offered the tool that starts orchestrations.
StartOrchestration(p, c) ==
    /\ Invoked(p, "start")
    /\ c \in executions[p].authority
    /\ StartsOrchestration(ConfigurationOf(executions, p), executions[p].session, p, c)

\* start_agent below a root or an agent, or for a decision to choose another
\* child of an orchestration.
StartAgent(p, c) ==
    /\ executions[p].state = "Running"
    /\ sessions[executions[p].session].open
    /\ c \in Agents(ConfigurationOf(executions, p))
    /\ Allowed(ConfigurationOf(executions, p), c)
    /\ c \in executions[p].authority
    /\ Becomes(Created(executions, executions[p].session, p, "Agent", c, None))
-------------------------------------------------------------------------------
(* Invocations. *)

\* An execution with its parent, the parent of that, and so on
Ancestors(xs, e) ==
    LET up[x \in 0..Len(xs)] == IF x = NoExecution THEN {} ELSE {x} \cup up[xs[x].parent]
    IN up[e]

Stopped(xs, top) ==
    [e \in DOMAIN xs |->
        IF top \in Ancestors(xs, e) /\ xs[e].state \in Live
        THEN [xs[e] EXCEPT !.state = "Stopped"] ELSE xs[e]]

\* Mutant: the route is looked up in the current revision.
ModelOfCurrent(e) ==
    LET target == executions[e].target IN
    IF target.kind = "Fixed" THEN target.to
    ELSE Routed(revisions[Current], target.to, executions[e].callable)

\* The model of an execution whose target is fixed, or routed by a known profile
ModelOf(e) ==
    LET target == executions[e].target IN
    IF target.kind = "Fixed" THEN target.to
    ELSE Routed(ConfigurationOf(executions, e), target.to, executions[e].callable)

\* resolve_manual_activation: what an input that begins with "/skill k" or "/k"
\* activates; one that begins with "/k" for an unknown k activates nothing.
Activated(e, k) == {k} \cap DOMAIN ConfigurationOf(executions, e).skills

\* resolve_invocation: once, before the execution begins, of an input that may
\* name a skill.  An execution whose profile its revision does not know fails,
\* and one of which "/skill k" asks for an unknown skill, its route resolved.
Resolve(e, k) ==
    LET x == executions[e]
        active == Activated(e, k)
        unknown == /\ x.target.kind = "Routed"
                   /\ x.target.to \notin DOMAIN ConfigurationOf(executions, e).routing
    IN
    /\ x.kind # "Orchestration"
    /\ x.state = "Pending"
    /\ x.model = None
    /\ \/ /\ unknown
          /\ Becomes(Stopped(executions, e))
       \/ /\ ~unknown
          /\ k # None /\ active = {}
          /\ Becomes(Stopped([executions EXCEPT ![e].model = ModelOf(e)], e))
       \/ /\ ~unknown
          /\ Becomes([executions EXCEPT ![e].model = ModelOf(e),
                         ![e].asked = IF active = {} THEN None ELSE k,
                         ![e].skills = active,
                         ![e].tools = Permitted(ConfigurationOf(executions, e), x.authority)])

Begin(e) ==
    /\ executions[e].state = "Pending"
    /\ executions[e].model # None
    /\ Becomes([executions EXCEPT ![e].state = "Running"])

\* invoke_tool: provisioned, in the pinned registry, and allowed by the policy.
InvokeTool(e, t) ==
    LET configuration == ConfigurationOf(executions, e) IN
    /\ executions[e].state = "Running"
    /\ t \in executions[e].tools
    /\ t \in DOMAIN configuration.callables
    /\ Allowed(configuration, t)
    /\ call' = [by |-> e, tool |-> t]
    /\ UNCHANGED <<offer, revisions, sessions, executions, requests>>

\* load_skill: by a model, one of the pinned revision that is not manual only.
LoadSkill(e, k) ==
    /\ Invoked(e, "load")
    /\ k \in ModelSkills(ConfigurationOf(executions, e))
    /\ Becomes([executions EXCEPT ![e].skills = @ \cup {k}])

Complete(e) ==
    LET x == executions[e]
        xs == [executions EXCEPT ![e].state = "Completed"]
    IN
    /\ x.kind # "Orchestration"
    /\ x.state = "Running"
    /\ Becomes(IF x.node # None /\ xs[x.parent].state = "Running" THEN Refreshed(xs, x.parent)
               ELSE xs)

\* A failure or a cancellation, seen from here
Stop(e) ==
    /\ executions[e].state \in Live
    /\ Becomes(Stopped(executions, e))
-------------------------------------------------------------------------------
Next ==
    \/ Offer \/ Install
    \/ \E t \in Targets : CreateSession(t)
    \/ \E s \in DOMAIN sessions :
          \/ ForkSession(s) \/ CloseSession(s) \/ Submit(s)
          \/ \E r \in DOMAIN revisions : RebaseSession(s, r)
          \/ \E t \in Targets : SetSessionTarget(s, t)
          \/ \E c \in DOMAIN revisions[sessions[s].revision].callables :
                StartSessionOrchestration(s, c) \/ StartSessionAgent(s, c)
    \/ \E e \in DOMAIN executions :
          \/ Begin(e) \/ Complete(e) \/ Stop(e)
          \/ \E k \in SkillNames \cup {None} : Resolve(e, k)
          \/ \E k \in SkillNames : LoadSkill(e, k)
          \/ \E c \in DOMAIN ConfigurationOf(executions, e).callables :
                StartOrchestration(e, c) \/ StartAgent(e, c) \/ InvokeTool(e, c)

Spec == Init /\ [][Next]_vars
-------------------------------------------------------------------------------
(* Properties. *)

Top(e) == CHOOSE a \in Ancestors(executions, e) : executions[a].parent = NoExecution

\* register_orchestration, insert and compile refuse exactly the files that
\* could not be run: an orchestration with a cycle, an unknown dependency, a
\* node that is no agent, a name that is taken.  Of an accepted file nothing is
\* lost and nothing replaces what was registered before; an orchestration lists
\* each of its nodes once, after what it depends on; and of skills of one name the
\* one of the root with the highest precedence is found.
AcceptedIffRunnable ==
    offer # None =>
        \A base \in {BuiltIn, revisions[Current]} :
            /\ Compile(base, offer) # Refused <=> Sound(base, offer)
            /\ \A compiled \in Compile(base, offer) :
                  /\ Ordered(compiled) /\ Carries(compiled, base, offer)
                  /\ offer.roots # None => LastRootWins(compiled.skills, offer.roots)

\* "reloading configuration MUST create a new revision rather than mutate the
\* meaning of existing sessions/executions" (spec/runtime-redesign-v1.md:453):
\* all of a tree runs under the revision and the target that its top was created
\* with, however sessions are rebased and configurations reloaded meanwhile, and
\* uses the models, the tools and the skills of that revision; a skill that is
\* manual there is active only in executions whose input has named it.
TreeIsPinned ==
    \A e \in DOMAIN executions :
        LET top == executions[Top(e)]
            configuration == revisions[top.revision]
            x == executions[e]
        IN /\ x.revision = top.revision /\ x.target = top.target
           /\ x.model # None =>
                 x.model = IF top.target.kind = "Fixed" THEN top.target.to
                           ELSE Routed(configuration, top.target.to, x.callable)
           /\ x.tools \subseteq Tools(configuration)
           /\ \A k \in x.skills :
                 /\ k \in DOMAIN configuration.skills
                 /\ configuration.skills[k].manual => x.asked = k

\* "Authority never expands from parent to child", "no descendant can regain a
\* callable removed by an ancestor" and "A read-only parent therefore cannot
\* create a writable child" (rust/ARCHITECTURE.md:128-130): what an execution is,
\* and may do or delegate, each of its ancestors could delegate, and a tool that
\* changes files is called only where every agent up to the top is a writer.
AuthorityNeverExpands ==
    /\ \A e \in DOMAIN executions : \A a \in Ancestors(executions, e) \ {e} :
          /\ executions[e].authority \subseteq executions[a].authority
          /\ executions[e].callable \in executions[a].authority
    /\ call # None =>
          LET callables == ConfigurationOf(executions, call.by).callables IN
          \A a \in Ancestors(executions, call.by) :
              executions[a].kind = "Agent" =>
                  callables[call.tool].needs \subseteq callables[executions[a].callable].authority

\* An orchestration that was started can start every node and its interface
\* agent: the authority that the root or the session has left it is enough, so
\* that advance_orchestration is never refused halfway.
CastIsDelegated ==
    \A o \in DOMAIN executions :
        executions[o].kind = "Orchestration" =>
            Cast(Definition(executions, o)) \subseteq executions[o].authority

\* A closed session has nothing left to run, also below executions that are over.
ClosedIsQuiet ==
    \A e \in DOMAIN executions :
        ~sessions[executions[e].session].open => executions[e].state \notin Live
===============================================================================

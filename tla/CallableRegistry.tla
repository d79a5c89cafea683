--------------------------- MODULE CallableRegistry ---------------------------
(***************************************************************************)
(* Compiled configurations (callables.rs, routing.rs, configuration.rs)    *)
(* and what they grant (phenix-core/workspace.rs, lib.rs).                 *)
(*                                                                         *)
(* A configuration is a registry of callables, a function from names to    *)
(* definitions, a registry of routing profiles and one of skills.          *)
(* Definitions are added one by one; a definition that is refused refuses  *)
(* the whole file.  A Result is the set of what it is Ok with: one value,  *)
(* or none.                                                                *)
(*                                                                         *)
(* The six dimensions of ExecutionAuthority are ordered enumerations of    *)
(* two values and sets, compared and combined one by one.  Here an         *)
(* authority is the set of what it grants: rights, such as "write", and    *)
(* the names of the callables it may delegate to.  The minimum and the     *)
(* intersection of the code are then intersection, the maximum and the     *)
(* extension are union, and read_only() is {}.                             *)
(***************************************************************************)
EXTENDS Naturals, Sequences, SequencesExt, TLC

CONSTANT None

\* The Result of what fails
Refused == {}

\* BTreeMap::insert
With(registry, id, entry) ==
    [x \in DOMAIN registry \cup {id} |-> IF x = id THEN entry ELSE registry[x]]

\* insert: the descriptor's kind is the expected one and the name is new.
Inserted(registry, entry, expected) ==
    IF entry.kind = expected /\ entry.id \notin DOMAIN registry
    THEN {With(registry, entry.id, entry)} ELSE Refused

IsAgent(registry, id) == id \in DOMAIN registry /\ registry[id].kind = "Agent"
-------------------------------------------------------------------------------
(* register_orchestration.  A node is [id, callable, dependsOn]; node names *)
(* are numbers, which stand for their order as strings.                     *)

NodeIds(nodes) == {nodes[i].id : i \in DOMAIN nodes}

NodeNamed(nodes, n) == nodes[CHOOSE i \in DOMAIN nodes : nodes[i].id = n]

\* Mutant: a node is ready as soon as one of its dependencies is ordered.
TopologicalOrderEager(nodes) ==
    LET ids == NodeIds(nodes)
        depends == [n \in ids |-> NodeNamed(nodes, n).dependsOn]
        loop[k \in 0..Len(nodes)] ==
            IF k = 0 THEN <<>>
            ELSE LET order == loop[k - 1]
                     ready == {n \in ids \ ToSet(order) :
                                  depends[n] = {} \/ depends[n] \cap ToSet(order) # {}}
                 IN IF ready = {} THEN order ELSE Append(order, Min(ready))
    IN loop[Len(nodes)]

\* The nodes in an order in which each follows what it depends on, the least
\* name first among those that are ready; what is on a cycle is left out.
\* depends_on.len() counts down to zero as dependencies are ordered.
TopologicalOrder(nodes) ==
    LET ids == NodeIds(nodes)
        depends == [n \in ids |-> NodeNamed(nodes, n).dependsOn]
        start == [order |-> <<>>,
                  indegree |-> [n \in ids |-> Cardinality(depends[n])],
                  ready |-> {n \in ids : depends[n] = {}}]
        loop[k \in 0..Len(nodes)] ==
            IF k = 0 THEN start
            ELSE LET s == loop[k - 1]
                     n == Min(s.ready)
                     left == [m \in ids |-> IF n \in depends[m] THEN s.indegree[m] - 1
                                            ELSE s.indegree[m]]
                 IN IF s.ready = {} THEN s
                    ELSE [order |-> Append(s.order, n),
                          indegree |-> left,
                          ready |-> (s.ready \ {n})
                                       \cup {m \in ids : n \in depends[m] /\ left[m] = 0}]
    IN loop[Len(nodes)].order

RegisterOrchestration(registry, d) ==
    LET order == TopologicalOrder(d.nodes)
        sound == /\ d.kind = "Orchestration"
                 /\ d.nodes # <<>>
                 /\ d.interface # None => IsAgent(registry, d.interface)
                 /\ Cardinality(NodeIds(d.nodes)) = Len(d.nodes)
                 /\ \A i \in DOMAIN d.nodes :
                       /\ IsAgent(registry, d.nodes[i].callable)
                       /\ d.nodes[i].dependsOn \subseteq NodeIds(d.nodes)
    IN IF ~sound \/ Len(order) # Len(d.nodes) THEN Refused
       ELSE Inserted(registry,
                     [d EXCEPT !.nodes = [i \in DOMAIN order |-> NodeNamed(d.nodes, order[i])]],
                     "Orchestration")
-------------------------------------------------------------------------------
\* RoutingRegistry::register
RegisterProfile(routing, p) ==
    IF p.id \in DOMAIN routing THEN Refused ELSE {With(routing, p.id, p)}

(* Skills.  A root is a function from the directories in it to what their   *)
(* SKILL.md says: the skill's name, and whether it is manual only.          *)

\* parse_skill: a skill is named like its directory.
ParsesSkill(directory, document) == document.name = directory

\* discover_skill_root: what a root adds, over what was found before.
WithRoot(found, root) ==
    IF \A k \in DOMAIN root : ParsesSkill(k, root[k])
    THEN {[k \in DOMAIN found \cup DOMAIN root |->
              IF k \in DOMAIN root THEN [manual |-> root[k].manual] ELSE found[k]]}
    ELSE Refused

\* SkillRegistry::discover, of the roots from the lowest to the highest precedence
Discovered(roots) ==
    LET upTo[i \in 0..Len(roots)] ==
            IF i = 0 THEN {<<>>} ELSE UNION {WithRoot(found, roots[i]) : found \in upTo[i - 1]}
    IN upTo[Len(roots)]

(* RuntimeConfiguration::compile: the agents, the orchestrations and the    *)
(* routing profiles of a file are registered, in this order, in a copy of   *)
(* the configuration at hand, with the skills discovered before, if any.    *)

\* register_agent, register_orchestration and register_routing_profile
Register(registry, d, kind) ==
    CASE kind = "Agent" -> Inserted(registry, d, kind)
      [] kind = "Orchestration" -> RegisterOrchestration(registry, d)
      [] kind = "Profile" -> RegisterProfile(registry, d)

RegisterAll(registry, definitions, kind) ==
    LET upTo[i \in 0..Len(definitions)] ==
            IF i = 0 THEN {registry}
            ELSE UNION {Register(r, definitions[i], kind) : r \in upTo[i - 1]}
    IN upTo[Len(definitions)]

Compile(base, file) ==
    LET agents == RegisterAll(base.callables, file.agents, "Agent")
        callables == UNION {RegisterAll(r, file.orchestrations, "Orchestration") : r \in agents}
        routing == RegisterAll(base.routing, file.profiles, "Profile")
        skills == IF file.roots = None THEN {base.skills} ELSE Discovered(file.roots)
    IN [callables : callables, routing : routing, skills : skills]

\* RoutingRegistry::resolve: a profile's model for a callable, or its default.
Routed(configuration, profile, callable) ==
    LET p == configuration.routing[profile] IN
    IF callable \in DOMAIN p.targets THEN p.targets[callable] ELSE p.default
-------------------------------------------------------------------------------
(* What a configuration grants.  Roots have no callable.                  *)

Agents(configuration) ==
    {c \in DOMAIN configuration.callables : configuration.callables[c].kind = "Agent"}

Tools(configuration) ==
    {c \in DOMAIN configuration.callables : configuration.callables[c].kind = "Tool"}

\* authority_envelope of some agents
Envelope(configuration, agents) ==
    UNION {configuration.callables[a].authority : a \in agents}

\* The agents an orchestration starts by itself.
Cast(d) ==
    {d.nodes[i].callable : i \in DOMAIN d.nodes} \cup ({d.interface} \ {None})

\* Mutant: an orchestration has what its agents have.
ConfiguredWithoutCast(configuration, kind, callable) ==
    CASE kind = "Root" ->
            Envelope(configuration, Agents(configuration))
               \cup (DOMAIN configuration.callables \ Tools(configuration))
      [] kind = "Agent" -> configuration.callables[callable].authority
      [] kind = "Orchestration" ->
            Envelope(configuration, Cast(configuration.callables[callable]))

\* configured_authority_for_execution
Configured(configuration, kind, callable) ==
    CASE kind = "Root" ->
            Envelope(configuration, Agents(configuration))
               \cup (DOMAIN configuration.callables \ Tools(configuration))
      [] kind = "Agent" -> configuration.callables[callable].authority
      [] kind = "Orchestration" ->
            LET cast == Cast(configuration.callables[callable])
            IN Envelope(configuration, cast) \cup cast

\* permitted_tool_descriptors: a tool that may write needs the right to.
Permitted(configuration, authority) ==
    {t \in Tools(configuration) : configuration.callables[t].needs \subseteq authority}

\* InvocationPolicy with its one guard, CallablePermissionGuard
Allowed(configuration, callable) == ~configuration.callables[callable].asks

\* has_model_invocable_skills, and what model_skill_payload lets a model load
ModelSkills(configuration) ==
    {k \in DOMAIN configuration.skills : ~configuration.skills[k].manual}

\* extend_semantic_tools, without the one that decides about failures
SemanticTools(configuration, kind) ==
    {t \in {"start", "load"} :
        IF t = "load" THEN ModelSkills(configuration) # {}
        ELSE /\ kind = "Root"
             /\ \E c \in DOMAIN configuration.callables :
                   configuration.callables[c].kind = "Orchestration"}
-------------------------------------------------------------------------------
(* The reference: when a file deserves to be accepted. *)

\* Nothing waits for itself: of any nodes, one waits for none of them.
Acyclic(nodes) ==
    \A S \in SUBSET DOMAIN nodes : S # {} =>
        \E i \in S : \A j \in S : nodes[j].id \notin nodes[i].dependsOn

\* An orchestration of known agents has nodes that are distinct and wait for
\* each other without a cycle.
Feasible(d, agents) ==
    LET ids == [j \in DOMAIN d.nodes |-> d.nodes[j].id]
    IN /\ d.kind = "Orchestration"
       /\ d.nodes # <<>> /\ IsInjective(ids) /\ Acyclic(d.nodes)
       /\ Cast(d) \subseteq agents
       /\ \A j \in DOMAIN d.nodes : d.nodes[j].dependsOn \subseteq ToSet(ids)

\* The names are new and distinct, agents are agents, every orchestration is
\* feasible, and skills are named like their directories.
Sound(base, file) ==
    LET names == [i \in DOMAIN file.agents |-> file.agents[i].id]
                 \o [i \in DOMAIN file.orchestrations |-> file.orchestrations[i].id]
        profiles == [i \in DOMAIN file.profiles |-> file.profiles[i].id]
        agents == Agents(base) \cup {file.agents[i].id : i \in DOMAIN file.agents}
    IN /\ \A i \in DOMAIN file.agents : file.agents[i].kind = "Agent"
       /\ IsInjective(names) /\ ToSet(names) \cap DOMAIN base.callables = {}
       /\ IsInjective(profiles) /\ ToSet(profiles) \cap DOMAIN base.routing = {}
       /\ \A i \in DOMAIN file.orchestrations : Feasible(file.orchestrations[i], agents)
       /\ file.roots # None =>
             \A i \in DOMAIN file.roots : \A k \in DOMAIN file.roots[i] :
                file.roots[i][k].name = k

\* No node comes twice, and each comes after what it depends on.
InOrder(nodes) ==
    /\ IsInjective([i \in DOMAIN nodes |-> nodes[i].id])
    /\ \A i \in DOMAIN nodes : nodes[i].dependsOn \subseteq {nodes[j].id : j \in 1..(i - 1)}

Ordered(configuration) ==
    \A c \in DOMAIN configuration.callables :
        configuration.callables[c].kind = "Orchestration" =>
            InOrder(configuration.callables[c].nodes)

\* The same orchestration, but for the order of its nodes
Reordered(e, d) == ToSet(e.nodes) = ToSet(d.nodes) /\ e = [d EXCEPT !.nodes = e.nodes]

\* The callables and profiles of base as they were, and those of the file
Carries(configuration, base, file) ==
    LET callables == configuration.callables
        routing == configuration.routing
        Names(ds) == {ds[i].id : i \in DOMAIN ds}
    IN /\ DOMAIN callables =
             DOMAIN base.callables \cup Names(file.agents) \cup Names(file.orchestrations)
       /\ \A c \in DOMAIN base.callables : callables[c] = base.callables[c]
       /\ \A i \in DOMAIN file.agents : callables[file.agents[i].id] = file.agents[i]
       /\ \A i \in DOMAIN file.orchestrations :
             Reordered(callables[file.orchestrations[i].id], file.orchestrations[i])
       /\ DOMAIN routing = DOMAIN base.routing \cup Names(file.profiles)
       /\ \A p \in DOMAIN base.routing : routing[p] = base.routing[p]
       /\ \A i \in DOMAIN file.profiles : routing[file.profiles[i].id] = file.profiles[i]

\* A skill is the one of the last root that has one of its name.
LastRootWins(skills, roots) ==
    LET having(k) == {i \in DOMAIN roots : k \in DOMAIN roots[i]}
    IN /\ DOMAIN skills = UNION {DOMAIN roots[i] : i \in DOMAIN roots}
       /\ \A k \in DOMAIN skills : skills[k].manual = roots[Max(having(k))][k].manual
===============================================================================

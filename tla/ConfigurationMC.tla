---------------------------- MODULE ConfigurationMC ----------------------------
(* Two agents, a writer that may delegate to a reader, and an orchestration of *)
(* three nodes with any dependencies between them; later the reader becomes a  *)
(* writer, the profile changes its models, and skills are gone.                *)
EXTENDS Configuration

Tool(id, needs, asks) == [id |-> id, kind |-> "Tool", needs |-> needs, asks |-> asks]

Agent(id, authority) == [id |-> id, kind |-> "Agent", authority |-> authority, asks |-> FALSE]

Flow(nodes, interface) ==
    [id |-> "flow", kind |-> "Orchestration", nodes |-> nodes, interface |-> interface,
     asks |-> FALSE]

Node(id, callable, dependsOn) == [id |-> id, callable |-> callable, dependsOn |-> dependsOn]

Profile(default, scouts) ==
    [id |-> "p", default |-> default, targets |-> [c \in {"scout"} |-> scouts]]

MCBuiltIn ==
    [callables |-> [t \in {"patch", "push"} |->
                       IF t = "patch" THEN Tool(t, {"write"}, FALSE) ELSE Tool(t, {}, TRUE)],
     routing |-> <<>>, skills |-> <<>>]

Writer == Agent("edit", {"write", "scout"})

Reader == Agent("scout", {})

File(agents, nodes, interface) ==
    [agents |-> agents, orchestrations |-> <<Flow(nodes, interface)>>,
     profiles |-> <<Profile("m1", "m2")>>, roots |-> None]

\* An agent and the skills of some roots
Skilled(roots) ==
    [agents |-> <<Reader>>, orchestrations |-> <<>>, profiles |-> <<>>, roots |-> roots]

Skill(id, manual) == id :> [name |-> id, manual |-> manual]

\* Every graph on three nodes, given in an order that is not that of the names.
Graphs3 ==
    {File(<<Writer, Reader>>,
          <<Node(2, "scout", d[2]), Node(1, "edit", d[1]), Node(3, "scout", d[3])>>, None) :
        d \in [1..3 -> SUBSET (1..3)]}

\* What else may be wrong with a file.
Faulty ==
    {File(<<Writer, Reader, Reader>>, <<Node(1, "edit", {})>>, None),
     File(<<Writer, Reader>>, <<>>, None),
     File(<<Writer, Reader>>, <<Node(1, "edit", {}), Node(1, "scout", {})>>, None),
     File(<<Writer>>, <<Node(1, "scout", {})>>, None),
     File(<<Writer, Reader>>, <<Node(1, "patch", {})>>, None),
     File(<<Writer, Reader>>, <<Node(1, "edit", {4})>>, None),
     File(<<Writer, Reader>>, <<Node(1, "edit", {})>>, "flow")}

\* The orchestration that sessions use: a reader after a writer.
TwoNodes == File(<<Writer, Reader>>, <<Node(2, "scout", {1}), Node(1, "edit", {})>>, None)

\* A portable skill that a native one overrides, one that is manual only, and one
\* that is not valid
Skills ==
    {Skilled(<<Skill("review", TRUE) @@ Skill("deploy", TRUE), Skill("review", FALSE)>>),
     Skilled(<<Skill("review", FALSE), "review" :> [name |-> "deploy", manual |-> FALSE]>>)}

MCFirstFiles == Graphs3 \cup Faulty \cup Skills \cup {TwoNodes}

MCLaterFiles ==
    {[agents |-> <<Agent("edit", {"scout"}), Agent("scout", {"write", "edit"})>>,
      orchestrations |-> <<Flow(<<Node(1, "scout", {})>>, "edit")>>,
      profiles |-> <<Profile("m2", "m1")>>,
      roots |-> <<>>]}

MCTargets == {[kind |-> "Routed", to |-> "p"], [kind |-> "Fixed", to |-> "m3"]}
===============================================================================

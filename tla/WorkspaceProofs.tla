---------------------------- MODULE WorkspaceProofs ----------------------------
(***************************************************************************)
(* Proofs about Workspace, for any executions, groups, protected paths and *)
(* contents, any commands, and any number of tool calls and of the user's  *)
(* edits: readers are undisturbed, a checkpoint is its write phase's       *)
(* start, no tool overwrites a conflict that it could see, and a command's *)
(* commit is exact.                                                        *)
(***************************************************************************)
EXTENDS Workspace, TLAPS

\* A worker has a lease, and this is the one.
Leased(e) == place[e] \in {"leased", "walking", "ready", "running"}

LeaseOf(e) == [execution |-> e, mode |-> ModeOf[e]]

ToolCalls ==
    [by : Executions, step : Steps, path : Paths \cup {None}, expected : Versions \cup {None},
     content : Contents \cup {None}, scan : Seq(Versions), base : Seq(Versions),
     upper : Commands \cup {<<>>}, snapshot : Seq(Versions), applied : SUBSET Paths]

Types ==
    /\ granted \in [{"workspace"} -> SUBSET Lease!Grant]
    /\ place \in [Executions -> Places]
    /\ state \in [Executions -> {"Pending", "Running", "Cancelled", "Completed"}]
    /\ writing \subseteq Groups
    /\ walk \in Seq(Versions) /\ Len(walk) <= NPaths
    /\ journal \in [Groups -> Manifests \cup {None}]
    /\ files \in Manifests
    /\ tool \in ToolCalls \cup {None}
    /\ readSet \in [Executions -> [Paths -> Contents \cup {None}]]
    /\ edits \in Nat
    /\ edited \subseteq Paths
    /\ found \in [Groups -> [Paths -> Versions \cup {None}]]
    /\ foreign \in [Groups -> SUBSET Paths]
    /\ touched \in [Paths -> {"no", "before", "after"}]

\* The arguments of a call, and what it has collected, by its step.
Shaped(t) ==
    /\ t.step \in {"read", "check", "write"} => t.path \in Paths /\ t.content \in Contents
    /\ t.step \notin {"read", "check", "write", "baseline"} => t.upper \in Commands
    /\ Len(t.scan) <= NPaths
    /\ t.step = "snapshot" => Len(t.snapshot) < NPaths
    /\ t.step \in {"validate", "apply", "verify", "ok"} => Len(t.snapshot) = NPaths
    /\ t.step \in {"read", "check", "write", "baseline"} => t.snapshot = <<>>

ToolTypes == tool # None => Shaped(tool)

\* Who has a lease is in granted, a writer's lease is the only one, and a tool
\* call that may write is of a running writer.
LeasesHold ==
    /\ \A e \in Executions : Leased(e) => LeaseOf(e) \in granted["workspace"]
    /\ \A g, h \in granted["workspace"] : g # h => g.mode = "Read" /\ h.mode = "Read"
    /\ tool # None => /\ place[tool.by] = "running" /\ state[tool.by] = "Running"
                      /\ ModeOf[tool.by] = "Write"

\* A writer that has entered its phase has its group in it.
PhasesHold ==
    \A e \in Executions :
        /\ place[e] \in {"walking", "ready", "running"} /\ ModeOf[e] = "Write"
              => GroupOf[e] \in writing
        /\ place[e] = "walking" => ModeOf[e] = "Write"

NotReadYet ==
    \A e \in Executions : place[e] \notin {"running", "ended"} => readSet[e] = NoFile

\* p's version is known to g: it is the one given, or others changed the file.
Known(g, p, version) == version = files[p] \/ p \in foreign[g]

\* A walk is of its phase's start, as far as it has come.
WalkIsOfStart ==
    /\ (\A e \in Executions : place[e] # "walking") => walk = <<>>
    /\ \A e \in Executions :
          place[e] = "walking" =>
              /\ found[GroupOf[e]] = NoFile
              /\ \A i \in 1..Len(walk) : Known(GroupOf[e], i, walk[i])

\* In a phase, a file that it has not changed is as it was recorded.
PhaseIsRecorded ==
    \A g \in Groups :
        /\ g \in writing
        /\ \A e \in Executions : GroupOf[e] = g => place[e] \notin {"lost", "walking"}
        => /\ journal[g] # None
           /\ \A p \in Paths : found[g][p] = None => Known(g, p, journal[g][p])

\* What the command of call t leaves of file p
Effect(t, p) == IF t.upper[p] = None THEN t.base[p] ELSE t.upper[p]

\* What call t knows of the files, by its step: what it has seen of a file is still
\* there, or the user has touched the file since.
Knows(t) ==
    /\ t.step = "write" => files[t.path] = t.expected \/ touched[t.path] = "after"
    /\ t.step = "baseline" =>
          \A p \in 1..Len(t.scan) : touched[p] = "no" => t.scan[p] = files[p]
    /\ t.step = "snapshot" => t.scan = <<>>
    /\ t.step \in {"snapshot", "validate", "apply"} =>
          /\ \A p \in Paths \ t.applied : touched[p] = "no" => t.base[p] = files[p]
          /\ \A p \in 1..Len(t.snapshot) : touched[p] = "no" => t.snapshot[p] = Effect(t, p)
    /\ t.step = "validate" =>
          \A p \in 1..Len(t.scan) : t.scan[p] = files[p] \/ touched[p] = "after"
    /\ t.step = "apply" =>
          \A p \in Paths \ t.applied : t.base[p] = files[p] \/ touched[p] = "after"
    /\ t.step \in {"apply", "verify", "ok"} =>
          \A p \in t.applied : touched[p] = "no" => files[p] = Effect(t, p)
    /\ t.step \in {"verify", "ok"} => t.applied = Paths
    /\ t.step \notin {"apply", "verify", "ok"} => t.applied = {}

ToolKnows == IF tool = None THEN touched = Untouched ELSE Knows(tool)
-------------------------------------------------------------------------------
\* A call is of these types, however it begins.
LEMMA CallType ==
    ASSUME NEW e \in Executions, NEW step \in Steps, NEW p \in Paths \cup {None},
           NEW x \in Versions \cup {None}, NEW c \in Contents \cup {None}
    PROVE  Call(e, step, p, x, c) \in ToolCalls
BY DEF Call, ToolCalls

\* A call stays of these types when a step changes some of its fields.
LEMMA CallUpdate ==
    ASSUME NEW t \in ToolCalls
    PROVE  /\ \A a \in Seq(Versions) : [t EXCEPT !.scan = a] \in ToolCalls
           /\ \A s \in Steps, a \in Seq(Versions) : [t EXCEPT !.step = s, !.scan = a] \in ToolCalls
           /\ \A s \in Steps, a, b \in Seq(Versions), u \in Commands :
                 [t EXCEPT !.step = s, !.base = b, !.upper = u, !.scan = a] \in ToolCalls
           /\ \A s \in Steps, a \in Seq(Versions) : [t EXCEPT !.snapshot = a, !.step = s] \in ToolCalls
           /\ \A s \in Steps, w \in SUBSET Paths : [t EXCEPT !.applied = w, !.step = s] \in ToolCalls
<1> DEFINE S == Seq(Versions)
<1>1. ToolCalls = [by : Executions, step : Steps, path : Paths \cup {None},
                   expected : Versions \cup {None}, content : Contents \cup {None}, scan : S,
                   base : S, upper : Commands \cup {<<>>}, snapshot : S, applied : SUBSET Paths]
      BY DEF ToolCalls
<1> HIDE DEF S
<1>2. \A a \in S : [t EXCEPT !.scan = a] \in ToolCalls
      BY <1>1
<1>3. \A s \in Steps, a \in S : [t EXCEPT !.step = s, !.scan = a] \in ToolCalls
      BY <1>1
<1>4. \A s \in Steps, a, b \in S, u \in Commands :
          [t EXCEPT !.step = s, !.base = b, !.upper = u, !.scan = a] \in ToolCalls
      BY <1>1
<1>5. \A s \in Steps, a \in S : [t EXCEPT !.snapshot = a, !.step = s] \in ToolCalls
      BY <1>1
<1>6. \A s \in Steps, w \in SUBSET Paths : [t EXCEPT !.applied = w, !.step = s] \in ToolCalls
      BY <1>1
<1>. QED BY <1>2, <1>3, <1>4, <1>5, <1>6 DEF S

\* Every step keeps the types and the shape of the tool call in progress.
LEMMA NextTypes == Types /\ ToolTypes /\ [Next]_vars => Types' /\ ToolTypes'
<1> SUFFICES ASSUME Types, ToolTypes, [Next]_vars PROVE Types' /\ ToolTypes'
    OBVIOUS
<1> USE WorkspaceAssumption, InputAssumption
<1> USE DEF workerVars, boundVars, historyVars, toolOnly
<1>1. ASSUME NEW e \in Executions, Enqueue(e) PROVE Types' /\ ToolTypes'
      BY <1>1 DEF Types, ToolTypes, Enqueue, Goes, Places
<1>2. ASSUME NEW e \in Executions, Take(e) PROVE Types' /\ ToolTypes'
      <2>1. writing' \subseteq Groups
            BY <1>2 DEF Types, Take, Released
      <2>. QED BY <1>2, <2>1 DEF Types, ToolTypes, Take, Goes, Places
<1>3. ASSUME NEW e \in Executions, Acquire(e) PROVE Types' /\ ToolTypes'
      <2>1. granted' \in [{"workspace"} -> SUBSET Lease!Grant]
            BY <1>3 DEF Types, Acquire, Lease!Give, Lease!Grant, Lease!Modes
      <2>. QED BY <1>3, <2>1 DEF Types, ToolTypes, Acquire, Goes, Places
<1>4. ASSUME NEW e \in Executions, EnterPhase(e) PROVE Types' /\ ToolTypes'
      <2>1. writing' \subseteq Groups
            BY <1>4 DEF Types, EnterPhase, Enter
      <2>2. place' \in [Executions -> Places]
            BY <1>4 DEF Types, EnterPhase, Goes, Places
      <2>3. found' \in [Groups -> [Paths -> Versions \cup {None}]]
            BY <1>4 DEF Types, EnterPhase, NoFile
      <2>4. foreign' \in [Groups -> SUBSET Paths]
            BY <1>4 DEF Types, EnterPhase
      <2>. QED BY <1>4, <2>1, <2>2, <2>3, <2>4 DEF Types, ToolTypes, EnterPhase
<1>5. ASSUME NEW e \in Executions, Walk(e) PROVE Types' /\ ToolTypes'
      <2>1. Len(walk) + 1 \in Paths
            BY <1>5 DEF Types, Walk, Paths
      <2>2. walk' \in Seq(Versions) /\ Len(walk') <= NPaths
            BY <1>5, <2>1 DEF Types, Walk, Manifests
      <2>. QED BY <1>5, <2>2 DEF Types, ToolTypes, Walk
<1>6. ASSUME NEW e \in Executions, RecordCheckpoint(e) PROVE Types' /\ ToolTypes'
      <2>1. walk \in Manifests
            BY <1>6 DEF Types, RecordCheckpoint, Manifests, Paths
      <2>2. journal' \in [Groups -> Manifests \cup {None}]
            BY <1>6, <2>1 DEF Types, RecordCheckpoint
      <2>3. walk' \in Seq(Versions) /\ Len(walk') <= NPaths
            BY <1>6 DEF RecordCheckpoint
      <2>4. place' \in [Executions -> Places]
            BY <1>6 DEF Types, RecordCheckpoint, Goes, Places
      <2>. QED BY <1>6, <2>2, <2>3, <2>4 DEF Types, ToolTypes, RecordCheckpoint
<1>7. ASSUME NEW e \in Executions, NEW next \in Places, Leaves(e, next)
      PROVE  /\ granted' \in [{"workspace"} -> SUBSET Lease!Grant]
             /\ writing' \subseteq Groups
             /\ walk' \in Seq(Versions) /\ Len(walk') <= NPaths
             /\ place' \in [Executions -> Places]
      BY <1>7 DEF Types, Leaves, Goes, Released, Lease!Return
<1>8. ASSUME NEW e \in Executions, CheckpointFails(e) PROVE Types' /\ ToolTypes'
      BY <1>7, <1>8 DEF Types, ToolTypes, CheckpointFails, Places
<1>9. ASSUME NEW e \in Executions, Begin(e) PROVE Types' /\ ToolTypes'
      <2>1. CASE state[e] = "Pending"
            BY <1>9, <2>1 DEF Types, ToolTypes, Begin, Goes, Places
      <2>2. CASE state[e] # "Pending"
            BY <1>7, <1>9, <2>2 DEF Types, ToolTypes, Begin, Places
      <2>. QED BY <2>1, <2>2
<1>10. ASSUME NEW e \in Executions, Finish(e) PROVE Types' /\ ToolTypes'
       <2>1. state' \in [Executions -> {"Pending", "Running", "Cancelled", "Completed"}]
             BY <1>10 DEF Types, Finish
       <2>. QED BY <1>7, <1>10, <2>1 DEF Types, ToolTypes, Finish, Places
<1>11. ASSUME NEW e \in Executions, Cancel(e) PROVE Types' /\ ToolTypes'
       BY <1>11 DEF Types, ToolTypes, Cancel
<1>12. ASSUME NEW e \in Executions, NEW p \in Paths, Read(e, p) PROVE Types' /\ ToolTypes'
       <2>1. files[p] \in Contents
             BY <1>12 DEF Types, Read, Manifests, Versions
       <2>2. readSet' \in [Executions -> [Paths -> Contents \cup {None}]]
             BY <1>12, <2>1 DEF Types, Read, Observe
       <2>. QED BY <1>12, <2>2 DEF Types, ToolTypes, Read
<1>13. ASSUME NEW e \in Executions, NEW step \in {"read", "check"}, NEW p \in Paths,
              NEW x \in Versions, NEW c \in Contents, BeginTool(e, Call(e, step, p, x, c))
       PROVE  Types' /\ ToolTypes'
       <2>1. tool' = Call(e, step, p, x, c)
             BY <1>13 DEF BeginTool
       <2>2. tool' \in ToolCalls
             BY <2>1, CallType DEF Steps
       <2>3. ToolTypes'
             BY <2>1 DEF ToolTypes, Shaped, Call
       <2>. QED BY <1>13, <2>2, <2>3 DEF Types, BeginTool
<1>14. ASSUME NEW e \in Executions, CallBash(e) PROVE Types' /\ ToolTypes'
       <2>1. tool' = Call(e, "baseline", None, None, None)
             BY <1>14 DEF CallBash, BeginTool
       <2>2. tool' \in ToolCalls
             BY <2>1, CallType DEF Steps
       <2>3. ToolTypes'
             BY <2>1 DEF ToolTypes, Shaped, Call
       <2>. QED BY <1>14, <2>2, <2>3 DEF Types, CallBash, BeginTool
<1>15. ASSUME NEW next \in ToolCalls \cup {None}, Becomes(next), next # None => Shaped(next)
       PROVE  /\ tool' \in ToolCalls \cup {None} /\ ToolTypes'
              /\ touched' \in [Paths -> {"no", "before", "after"}]
       BY <1>15 DEF Becomes, Types, Untouched, ToolTypes, Shaped
<1>16. ASSUME NEW next \in ToolCalls \cup {None}, ToolGoes(next), next # None => Shaped(next)
       PROVE  Types' /\ ToolTypes'
       BY <1>15, <1>16 DEF Types, ToolGoes
<1>17. ASSUME tool # None PROVE tool \in ToolCalls /\ Shaped(tool)
       BY <1>17 DEF Types, ToolTypes
<1>18. CASE EditReads
       BY <1>16, <1>17, <1>18 DEF EditReads, At, ToolCalls, Steps, Shaped
<1>19. CASE CheckVersion
       BY <1>16, <1>17, <1>19 DEF CheckVersion, At, ToolCalls, Steps, Shaped
<1>20. ASSUME NEW p \in Paths, NEW version \in Versions, Sets(p, version), tool # None
       PROVE  /\ files' \in Manifests
              /\ found' \in [Groups -> [Paths -> Versions \cup {None}]]
              /\ foreign' \in [Groups -> SUBSET Paths]
       <2>1. GroupOf[tool.by] \in Groups /\ files[p] \in Versions
             BY <1>17, <1>20 DEF ToolCalls, Types, Manifests
       <2>2. files' \in Manifests
             BY <1>20 DEF Types, Sets, Manifests
       <2>3. found' \in [Groups -> [Paths -> Versions \cup {None}]]
             <3> DEFINE g == GroupOf[tool.by]
             <3>1. g \in Groups /\ found[g] \in [Paths -> Versions \cup {None}] /\ found[g][p] \in Versions \cup {None}
                   BY <2>1 DEF Types
             <3>2. \/ found' = found
                   \/ \E v \in Versions \cup {None} :
                         found' = [found EXCEPT ![g] = [found[g] EXCEPT ![p] = v]]
                   BY <1>20, <2>1, <3>1 DEF Sets
             <3>3. \A v \in Versions \cup {None} :
                      [found[g] EXCEPT ![p] = v] \in [Paths -> Versions \cup {None}]
                   BY <3>1
             <3>4. found \in [Groups -> [Paths -> Versions \cup {None}]]
                   BY DEF Types
             <3> HIDE DEF g
             <3>. QED BY <3>1, <3>2, <3>3, <3>4
       <2>4. foreign' \in [Groups -> SUBSET Paths]
             BY <1>20 DEF Types, Sets
       <2>. QED BY <2>2, <2>3, <2>4
<1>21. CASE WriteFile
       <2>1. tool # None /\ tool.path \in Paths /\ tool.content \in Versions
             BY <1>17, <1>21 DEF WriteFile, At, Shaped, Versions
       <2>. QED BY <1>15, <1>20, <1>21, <2>1 DEF WriteFile, Sets, Types
<1>22. ASSUME NEW upper \in Commands, RunCommand(upper) PROVE Types' /\ ToolTypes'
       <2> DEFINE next == [tool EXCEPT !.step = "snapshot", !.base = tool.scan, !.upper = upper,
                                       !.scan = <<>>]
       <2>1. tool # None /\ tool.step = "baseline" /\ ToolGoes(next)
             BY <1>22 DEF RunCommand, Walked, At
       <2>2. next \in ToolCalls
             <3>1. <<>> \in Seq(Versions) /\ tool.scan \in Seq(Versions) /\ "snapshot" \in Steps
                   BY <1>17, <2>1 DEF ToolCalls, Steps
             <3>. QED BY <1>17, <2>1, <3>1, CallUpdate
       <2>3. Shaped(next)
             BY <1>17, <2>1 DEF ToolCalls, Shaped
       <2>. QED BY <1>16, <2>1, <2>2, <2>3
<1>23. CASE ToolWalks
       <2> DEFINE next == [tool EXCEPT !.scan = Append(@, files[Len(@) + 1])]
       <2>1. tool # None /\ Len(tool.scan) < NPaths /\ ToolGoes(next)
             BY <1>23 DEF ToolWalks, At
       <2>2. tool.scan \in Seq(Versions) /\ files[Len(tool.scan) + 1] \in Versions
             BY <1>17, <2>1 DEF ToolCalls, Types, Manifests, Paths
       <2>3. next \in ToolCalls
             <3>1. tool.step \in Steps /\ Append(tool.scan, files[Len(tool.scan) + 1]) \in Seq(Versions)
                   BY <1>17, <2>1, <2>2 DEF ToolCalls
             <3>. QED BY <1>17, <2>1, <3>1, CallUpdate
       <2>4. Shaped(next)
             BY <1>17, <2>1, <2>2 DEF ToolCalls, Shaped
       <2>. QED BY <1>16, <2>1, <2>3, <2>4
<1>24. CASE Snapshot
       <2> DEFINE i == Len(tool.snapshot) + 1
                  copied == Append(tool.snapshot, Merged(i))
                  next == [tool EXCEPT !.snapshot = copied,
                                       !.step = IF Len(copied) = NPaths THEN "validate" ELSE @]
       <2>1. tool # None /\ tool.step = "snapshot" /\ ToolGoes(next)
             BY <1>24 DEF Snapshot, At
       <2>2. tool.snapshot \in Seq(Versions) /\ i \in Paths
             BY <1>17, <2>1 DEF ToolCalls, Shaped, Paths
       <2>3. tool.upper \in [Paths -> Versions \cup {None}]
             BY <1>17, <2>1 DEF Shaped
       <2>4. Merged(i) \in Versions
             BY <2>2, <2>3 DEF Merged, Types, Manifests
       <2>5. copied \in Seq(Versions) /\ Len(copied) = Len(tool.snapshot) + 1
             BY <2>2, <2>4
       <2> HIDE DEF copied
       <2>6. next \in ToolCalls
             BY <1>17, <2>1, <2>5 DEF ToolCalls, Steps
       <2>7. Shaped(next)
             BY <1>17, <2>1, <2>2, <2>5 DEF ToolCalls, Shaped, Paths
       <2>. QED BY <1>16, <2>1, <2>6, <2>7
<1>25. CASE Validate
       <2> DEFINE next == [tool EXCEPT !.step = "apply", !.scan = <<>>]
       <2>1. tool # None /\ tool.step = "validate" /\ (ToolGoes(next) \/ ToolGoes(None))
             BY <1>25 DEF Validate, Walked, At
       <2>2. next \in ToolCalls
             <3>1. <<>> \in Seq(Versions) /\ "apply" \in Steps
                   BY DEF Steps
             <3>. QED BY <1>17, <2>1, <3>1, CallUpdate
       <2>3. Shaped(next)
             BY <1>17, <2>1 DEF ToolCalls, Shaped
       <2>. QED BY <1>16, <2>1, <2>2, <2>3
<1>26. ASSUME NEW p \in Paths, Apply(p) PROVE Types' /\ ToolTypes'
       <2> DEFINE next == [tool EXCEPT !.applied = @ \cup {p},
                                       !.step = IF tool.applied \cup {p} = Paths THEN "verify" ELSE @]
       <2>1. tool # None /\ tool.step = "apply" /\ Sets(p, tool.snapshot[p]) /\ Becomes(next)
             BY <1>26 DEF Apply, At
       <2>2. tool.snapshot[p] \in Versions
             BY <1>17, <2>1 DEF ToolCalls, Shaped, Paths
       <2>3. next \in ToolCalls
             <3>1. tool.applied \cup {p} \in SUBSET Paths
                   BY <1>17, <2>1 DEF ToolCalls
             <3>2. (IF tool.applied \cup {p} = Paths THEN "verify" ELSE tool.step) \in Steps
                   BY <1>17, <2>1 DEF ToolCalls, Steps
             <3>. QED BY <1>17, <2>1, <3>1, <3>2, CallUpdate
       <2>4. Shaped(next)
             BY <1>17, <2>1 DEF ToolCalls, Shaped
       <2>. QED BY <1>15, <1>20, <2>1, <2>2, <2>3, <2>4 DEF Sets, Types
<1>27. CASE Verify
       BY <1>16, <1>17, <1>27 DEF Verify, Walked, At, ToolCalls, Steps, Shaped
<1>28. CASE Return \/ ToolFails
       BY <1>16, <1>28 DEF Return, ToolFails
<1>29. ASSUME NEW p \in Paths, NEW v \in Versions, Edit(p, v) PROVE Types' /\ ToolTypes'
       BY <1>29 DEF Edit, Types, ToolTypes, Manifests
<1>30. CASE UNCHANGED vars
       BY <1>30 DEF vars, Types, ToolTypes
<1>. QED BY <1>1, <1>2, <1>3, <1>4, <1>5, <1>6, <1>8, <1>9, <1>10, <1>11, <1>12, <1>13, <1>14,
            <1>18, <1>19, <1>21, <1>22, <1>23, <1>24, <1>25, <1>26, <1>27, <1>28, <1>29, <1>30
         DEF Next, WorkerStep, ToolCall, ToolStep, CallWrite, CallEdit

\* The types hold in every state.
THEOREM TypeCorrect == Spec => [](Types /\ ToolTypes)
<1>1. Init => Types /\ ToolTypes
      BY WorkspaceAssumption, InputAssumption
      DEF Init, Lease!Init, Types, ToolTypes, Places, NoFile, Untouched
<1>. QED BY <1>1, NextTypes, PTL DEF Spec
-------------------------------------------------------------------------------
\* A step of a tool is of a call in progress, which stays its execution's or
\* returns; it touches nothing of the workers', and files only one by one.
LEMMA ToolKinds ==
    ASSUME Types, ToolTypes, ToolStep
    PROVE  /\ tool # None
           /\ UNCHANGED <<workerVars, state, journal, readSet, boundVars, edited>>
           /\ tool' = None \/ tool'.by = tool.by
           /\ \/ UNCHANGED <<files, found, foreign>>
              \/ \E p \in Paths, v \in Versions : Sets(p, v)
<1> DEFINE Goal == /\ tool # None
                   /\ UNCHANGED <<workerVars, state, journal, readSet, boundVars, edited>>
                   /\ tool' = None \/ tool'.by = tool.by
                   /\ \/ UNCHANGED <<files, found, foreign>>
                      \/ \E p \in Paths, v \in Versions : Sets(p, v)
<1>1. tool # None => tool \in ToolCalls /\ Shaped(tool)
      BY DEF Types, ToolTypes
<1>2. ASSUME tool # None, NEW next, ToolGoes(next), next = None \/ next.by = tool.by PROVE Goal
      BY <1>2 DEF ToolGoes, Becomes, toolOnly
<1>3. ASSUME tool # None, NEW p \in Paths, NEW v \in Versions, Sets(p, v), NEW next, Becomes(next),
             next = None \/ next.by = tool.by
      PROVE  Goal
      BY <1>3 DEF Sets, Becomes, toolOnly
<1> HIDE DEF Goal
<1>4. CASE EditReads \/ CheckVersion \/ Return \/ ToolFails
      BY <1>1, <1>2, <1>4 DEF EditReads, CheckVersion, Return, ToolFails, At, ToolCalls, Goal
<1>5. ASSUME NEW upper, RunCommand(upper) PROVE Goal
      BY <1>1, <1>2, <1>5 DEF RunCommand, Walked, At, ToolCalls
<1>6. CASE ToolWalks \/ Snapshot
      BY <1>1, <1>2, <1>6 DEF ToolWalks, Snapshot, At, ToolCalls, Goal
<1>7. CASE Validate \/ Verify
      BY <1>1, <1>2, <1>7 DEF Validate, Verify, Walked, At, ToolCalls, Goal
<1>8. CASE WriteFile
      <2>1. tool # None /\ tool.path \in Paths /\ tool.content \in Versions
            BY <1>1, <1>8 DEF WriteFile, At, Shaped, Versions
      <2>. QED BY <1>3, <1>8, <2>1 DEF WriteFile, Goal
<1>9. ASSUME NEW p \in Paths, Apply(p) PROVE Goal
      <2>1. tool # None /\ tool.step = "apply"
            BY <1>9 DEF Apply, At
      <2>2. tool.snapshot[p] \in Versions
            BY <1>1, <2>1, WorkspaceAssumption DEF ToolCalls, Shaped, Paths
      <2> DEFINE next == [tool EXCEPT !.applied = tool.applied \cup {p},
                                      !.step = IF tool.applied \cup {p} = Paths THEN "verify" ELSE @]
      <2>3. Becomes(next) /\ next.by = tool.by
            BY <1>1, <1>9, <2>1 DEF Apply, ToolCalls
      <2>. QED BY <1>3, <1>9, <2>1, <2>2, <2>3 DEF Apply
<1>. QED BY <1>4, <1>5, <1>6, <1>7, <1>8, <1>9 DEF ToolStep, Goal

\* Who has a write lease is the only one to have a lease.
LEMMA WriterIsAlone ==
    ASSUME LeasesHold,
           NEW e \in Executions, Leased(e), ModeOf[e] = "Write",
           NEW f \in Executions, Leased(f)
    PROVE  f = e
<1>1. LeaseOf(e) \in granted["workspace"] /\ LeaseOf(f) \in granted["workspace"]
      BY DEF LeasesHold
<1>2. f # e => LeaseOf(e) # LeaseOf(f)
      BY DEF LeaseOf
<1>3. LeaseOf(e).mode = "Write"
      BY DEF LeaseOf
<1>. QED BY <1>1, <1>2, <1>3 DEF LeasesHold

\* Every step keeps the leases: they are given only where compatible, and returned
\* by the worker that has them.
LEMMA NextLeases == Types /\ ToolTypes /\ LeasesHold /\ [Next]_vars => LeasesHold'
<1> SUFFICES ASSUME Types, ToolTypes, LeasesHold, [Next]_vars PROVE LeasesHold'
    OBVIOUS
<1> DEFINE leases == granted["workspace"]
           Have == \A e \in Executions : Leased(e) => LeaseOf(e) \in leases
           Exclude == \A g, h \in leases : g # h => g.mode = "Read" /\ h.mode = "Read"
           Calling == tool # None => /\ place[tool.by] = "running" /\ state[tool.by] = "Running"
                                     /\ ModeOf[tool.by] = "Write"
<1>a. Have /\ Exclude /\ Calling
      BY DEF LeasesHold
<1>b. Have' /\ Exclude' /\ Calling' => LeasesHold'
      BY DEF LeasesHold
<1>c. granted \in [{"workspace"} -> SUBSET Lease!Grant] /\ place \in [Executions -> Places]
      BY DEF Types
<1>d. tool # None => tool.by \in Executions
      BY DEF Types, ToolCalls
<1>e. ASSUME NEW e \in Executions, NEW next, Goes(e, next), next \notin {"leased", "walking", "ready", "running"},
             UNCHANGED granted
      PROVE  Have' /\ Exclude'
      BY <1>a, <1>c, <1>e DEF Goes, Leased, LeaseOf
<1>f. ASSUME NEW e \in Executions, NEW next, Goes(e, next), Leased(e), UNCHANGED granted
      PROVE  Have' /\ Exclude'
      BY <1>a, <1>c, <1>f DEF Goes, Leased, LeaseOf
<1>g. ASSUME NEW e \in Executions, NEW next, Leaves(e, next),
             next \notin {"leased", "walking", "ready", "running"}
      PROVE  Have' /\ Exclude'
      <2>1. leases' = leases \ {LeaseOf(e)} /\ place' = [place EXCEPT ![e] = next]
            BY <1>c, <1>g DEF Leaves, Goes, Lease!Return, LeaseOf
      <2>2. \A f \in Executions : LeaseOf(f) = LeaseOf(e) => f = e
            BY DEF LeaseOf
      <2>. QED BY <1>a, <1>c, <1>g, <2>1, <2>2 DEF Leased, LeaseOf
<1>h. ASSUME NEW e \in Executions, NEW next, Goes(e, next), place[e] # "running",
             UNCHANGED <<tool, state>>
      PROVE  Calling'
      BY <1>a, <1>c, <1>d, <1>h DEF Goes
<1> HIDE DEF Have, Exclude, Calling
<1>1. ASSUME NEW e \in Executions, Enqueue(e) \/ Take(e) PROVE LeasesHold'
      BY <1>b, <1>e, <1>h, <1>1 DEF Enqueue, Take
<1>2. ASSUME NEW e \in Executions, Acquire(e) PROVE LeasesHold'
      <2>1. leases' = leases \cup {LeaseOf(e)} /\ place' = [place EXCEPT ![e] = "leased"]
            BY <1>c, <1>2 DEF Acquire, Goes, Lease!Give, LeaseOf
      <2>2. \A g \in leases : g.mode = "Read" /\ ModeOf[e] = "Read"
            BY <1>2 DEF Acquire, Lease!Give, Lease!Compatible
      <2>3. LeaseOf(e).mode = ModeOf[e]
            BY DEF LeaseOf
      <2>4. Have'
            BY <1>a, <1>c, <2>1 DEF Have, Leased, LeaseOf
      <2>5. Exclude'
            BY <1>a, <2>1, <2>2, <2>3 DEF Exclude
      <2>6. Calling'
            BY <1>h, <1>2 DEF Acquire
      <2>. QED BY <1>b, <2>4, <2>5, <2>6
<1>3. ASSUME NEW e \in Executions, EnterPhase(e) PROVE LeasesHold'
      BY <1>b, <1>f, <1>h, <1>3 DEF EnterPhase, Leased
<1>4. ASSUME NEW e \in Executions, Walk(e) PROVE LeasesHold'
      BY <1>4 DEF Walk, LeasesHold, Leased
<1>5. ASSUME NEW e \in Executions, RecordCheckpoint(e) PROVE LeasesHold'
      BY <1>b, <1>f, <1>h, <1>5 DEF RecordCheckpoint, Leased
<1>6. ASSUME NEW e \in Executions, CheckpointFails(e) PROVE LeasesHold'
      BY <1>b, <1>g, <1>h, <1>6 DEF CheckpointFails, Leaves
<1>7. ASSUME NEW e \in Executions, Begin(e) PROVE LeasesHold'
      <2>1. Calling'
            BY <1>7 DEF Begin, Calling
      <2>. QED BY <1>b, <1>f, <1>g, <1>7, <2>1 DEF Begin, Leased
<1>8. ASSUME NEW e \in Executions, Finish(e) PROVE LeasesHold'
      <2>1. Calling'
            BY <1>8 DEF Finish, Calling
      <2>. QED BY <1>b, <1>g, <1>8, <2>1 DEF Finish
<1>9. ASSUME NEW e \in Executions, Cancel(e) PROVE LeasesHold'
      BY <1>9 DEF Cancel, workerVars, LeasesHold, Leased
<1>10. ASSUME NEW e \in Executions, NEW p \in Paths, Read(e, p) PROVE LeasesHold'
       BY <1>10 DEF Read, workerVars, LeasesHold, Leased
<1>11. ASSUME NEW e \in Executions, NEW call, BeginTool(e, call), call.by = e PROVE LeasesHold'
       BY <1>11 DEF BeginTool, Calls, MayWrite, workerVars, LeasesHold, Leased
<1>12. ASSUME NEW e \in Executions, ToolCall(e) PROVE LeasesHold'
       BY <1>10, <1>11, <1>12 DEF ToolCall, CallWrite, CallEdit, CallBash, Call
<1>13. CASE ToolStep
       BY <1>13, ToolKinds DEF workerVars, LeasesHold, Leased
<1>14. ASSUME NEW p \in Paths, NEW v \in Versions, Edit(p, v) PROVE LeasesHold'
       BY <1>14 DEF Edit, workerVars, LeasesHold, Leased
<1>15. CASE UNCHANGED vars
       BY <1>15 DEF vars, workerVars, LeasesHold, Leased
<1>. QED BY <1>1, <1>2, <1>3, <1>4, <1>5, <1>6, <1>7, <1>8, <1>9, <1>12, <1>13, <1>14, <1>15
         DEF Next, WorkerStep

\* Every step keeps the phases: a group leaves its write phase only with its last
\* job, or when one of its readers has a lease.
LEMMA NextPhases ==
    Types /\ ToolTypes /\ LeasesHold /\ PhasesHold /\ [Next]_vars => PhasesHold'
<1> SUFFICES ASSUME Types, ToolTypes, LeasesHold, PhasesHold, [Next]_vars PROVE PhasesHold'
    OBVIOUS
<1>a. place \in [Executions -> Places] /\ \A e \in Executions : ModeOf[e] \in {"Read", "Write"}
      BY WorkspaceAssumption DEF Types
<1>b. ASSUME NEW e \in Executions, NEW next, Goes(e, next), next \notin {"walking", "ready", "running"},
             writing' = writing \/ writing' = Released(e)
      PROVE  PhasesHold'
      <2>1. \A f \in Executions \ {e} : place'[f] = place[f]
            BY <1>a, <1>b DEF Goes
      <2>2. \A f \in Executions \ {e} :
                place[f] \in {"walking", "ready", "running"} /\ GroupOf[f] \in writing
                   => GroupOf[f] \in writing'
            BY <1>b DEF Released, Active
      <2>3. place'[e] = next
            BY <1>a, <1>b DEF Goes
      <2>. QED BY <1>b, <2>1, <2>2, <2>3 DEF PhasesHold
<1>1. ASSUME NEW e \in Executions, Enqueue(e) \/ Take(e) \/ Acquire(e) PROVE PhasesHold'
      BY <1>b, <1>1 DEF Enqueue, Take, Acquire
<1>2. ASSUME NEW e \in Executions, EnterPhase(e) PROVE PhasesHold'
      <2>1. place[e] = "leased" /\ \A f \in Executions \ {e} : place'[f] = place[f]
            BY <1>a, <1>2 DEF EnterPhase, Goes
      <2>2. CASE ModeOf[e] = "Write"
            <3>1. writing' = writing \cup {GroupOf[e]}
                  BY <1>2, <2>2 DEF EnterPhase, Enter
            <3>. QED BY <2>1, <2>2, <3>1 DEF PhasesHold
      <2>3. CASE ModeOf[e] = "Read"
            <3>1. place'[e] = "ready"
                  BY <1>a, <1>2, <2>3 DEF EnterPhase, StartsWritePhase, Goes
            <3>2. \A f \in Executions \ {e} :
                      ~(place[f] \in {"walking", "ready", "running"} /\ ModeOf[f] = "Write")
                  BY <2>1, WriterIsAlone DEF Leased
            <3>. QED BY <2>1, <2>3, <3>1, <3>2 DEF PhasesHold
      <2>. QED BY <1>a, <2>2, <2>3
<1>3. ASSUME NEW e \in Executions, Walk(e) PROVE PhasesHold'
      BY <1>3 DEF Walk, PhasesHold
<1>4. ASSUME NEW e \in Executions, RecordCheckpoint(e) PROVE PhasesHold'
      BY <1>a, <1>4 DEF RecordCheckpoint, Goes, PhasesHold
<1>5. ASSUME NEW e \in Executions, CheckpointFails(e) \/ Finish(e) PROVE PhasesHold'
      BY <1>b, <1>5 DEF CheckpointFails, Finish, Leaves
<1>6. ASSUME NEW e \in Executions, Begin(e) PROVE PhasesHold'
      <2>1. CASE state[e] = "Pending"
            BY <1>a, <1>6, <2>1 DEF Begin, Goes, PhasesHold
      <2>2. CASE state[e] # "Pending"
            BY <1>b, <1>6, <2>2 DEF Begin, Leaves
      <2>. QED BY <2>1, <2>2
<1>7. ASSUME NEW e \in Executions, ToolCall(e) \/ Cancel(e) PROVE PhasesHold'
      BY <1>7 DEF ToolCall, Cancel, Read, CallWrite, CallEdit, CallBash, BeginTool, workerVars, PhasesHold
<1>8. CASE ToolStep \/ UNCHANGED vars
      BY <1>8, ToolKinds DEF vars, workerVars, PhasesHold
<1>9. ASSUME NEW p \in Paths, NEW v \in Versions, Edit(p, v) PROVE PhasesHold'
      BY <1>9 DEF Edit, workerVars, PhasesHold
<1>. QED BY <1>1, <1>2, <1>3, <1>4, <1>5, <1>6, <1>7, <1>8, <1>9 DEF Next, WorkerStep

\* Leases and phases hold in every state.
LEMMA Leasing == Spec => [](LeasesHold /\ PhasesHold)
<1>1. Init => LeasesHold /\ PhasesHold
      BY DEF Init, Lease!Init, LeasesHold, PhasesHold, Leased
<1>. QED BY <1>1, TypeCorrect, NextLeases, NextPhases, PTL DEF Spec
-------------------------------------------------------------------------------
\* Every step keeps readers undisturbed: beside a reader no writer has a lease,
\* and only a writer's tools change files.
LEMMA NextReaders ==
    Types /\ ToolTypes /\ LeasesHold /\ NotReadYet /\ ReadersUndisturbed /\ [Next]_vars
        => NotReadYet' /\ ReadersUndisturbed'
<1> SUFFICES ASSUME Types, ToolTypes, LeasesHold, NotReadYet, ReadersUndisturbed, [Next]_vars
             PROVE  NotReadYet' /\ ReadersUndisturbed'
    OBVIOUS
<1>a. place \in [Executions -> Places] /\ readSet \in [Executions -> [Paths -> Contents \cup {None}]]
      BY DEF Types
<1>b. ASSUME NEW e \in Executions, NEW next, Goes(e, next), next = "running" => readSet[e] = NoFile,
             next \in {"running", "ended"} \/ readSet[e] = NoFile,
             UNCHANGED <<files, readSet>>, 
             edited' = edited \/ (\A f \in Executions : place[f] # "running")
      PROVE  NotReadYet' /\ ReadersUndisturbed'
      <2>1. place' = [place EXCEPT ![e] = next]
            BY <1>b DEF Goes
      <2>2. NotReadYet'
            BY <1>a, <1>b, <2>1 DEF NotReadYet
      <2>3. \A f \in Executions : UNCHANGED Conflicts(f)
            BY <1>b DEF Conflicts
      <2>4. readSet[e] = NoFile => Conflicts(e) = {}
            BY DEF Conflicts, NoFile
      <2>5. ReadersUndisturbed'
            <3> SUFFICES ASSUME NEW f \in Executions, place'[f] = "running", ModeOf[f] = "Read"
                         PROVE  Conflicts(f)' \subseteq edited'
                BY DEF ReadersUndisturbed
            <3>1. CASE f = e
                  BY <1>a, <1>b, <2>1, <2>3, <2>4, <3>1
            <3>2. CASE f # e
                  BY <1>a, <1>b, <2>1, <2>3, <3>2 DEF ReadersUndisturbed
            <3>. QED BY <3>1, <3>2
      <2>. QED BY <2>2, <2>5
<1>c. ASSUME UNCHANGED <<place, files, readSet, edited>> PROVE NotReadYet' /\ ReadersUndisturbed'
      BY <1>c DEF NotReadYet, ReadersUndisturbed, Conflicts
<1>1. ASSUME NEW e \in Executions, Enqueue(e) \/ Take(e) \/ Acquire(e) \/ EnterPhase(e)
      PROVE  NotReadYet' /\ ReadersUndisturbed'
      <2>1. place[e] \in {"new", "queued", "waiting", "leased"}
            BY <1>1 DEF Enqueue, Take, Acquire, EnterPhase
      <2>2. readSet[e] = NoFile
            BY <2>1 DEF NotReadYet
      <2>3. \E next \in {"queued", "waiting", "ended", "leased", "walking", "ready"} : Goes(e, next)
            BY <1>1 DEF Enqueue, Take, Acquire, EnterPhase
      <2>. QED BY <1>b, <1>1, <2>2, <2>3 DEF Enqueue, Take, Acquire, EnterPhase, historyVars
<1>2. ASSUME NEW e \in Executions, Walk(e) \/ Cancel(e) PROVE NotReadYet' /\ ReadersUndisturbed'
      BY <1>c, <1>2 DEF Walk, Cancel, workerVars, historyVars
<1>3. ASSUME NEW e \in Executions, RecordCheckpoint(e) \/ CheckpointFails(e) \/ Begin(e)
      PROVE  NotReadYet' /\ ReadersUndisturbed'
      <2>1. readSet[e] = NoFile
            BY <1>3 DEF NotReadYet, RecordCheckpoint, CheckpointFails, Begin
      <2>. QED BY <1>b, <1>3, <2>1 DEF RecordCheckpoint, CheckpointFails, Begin, Leaves, historyVars
<1>4. ASSUME NEW e \in Executions, Finish(e) PROVE NotReadYet' /\ ReadersUndisturbed'
      BY <1>b, <1>4 DEF Finish, Leaves, historyVars
<1>5. ASSUME NEW e \in Executions, NEW p \in Paths, Read(e, p) PROVE NotReadYet' /\ ReadersUndisturbed'
      <2>1. place[e] = "running" /\ UNCHANGED <<place, files, edited>> /\ readSet' = Observe(e, p)
            BY <1>5 DEF Read, Calls, workerVars, historyVars
      <2>2. \A f \in Executions \ {e} : readSet'[f] = readSet[f]
            BY <1>a, <2>1 DEF Observe
      <2>3. \A q \in Paths : readSet'[e][q] = readSet[e][q] \/ readSet'[e][q] = files[q]
            BY <1>a, <2>1 DEF Observe
      <2>4. \A f \in Executions : Conflicts(f)' \subseteq Conflicts(f)
            BY <2>1, <2>2, <2>3 DEF Conflicts
      <2>. QED BY <2>1, <2>2, <2>4 DEF NotReadYet, ReadersUndisturbed
<1>6. ASSUME NEW e \in Executions, NEW call, BeginTool(e, call) PROVE NotReadYet' /\ ReadersUndisturbed'
      BY <1>c, <1>6 DEF BeginTool, workerVars, historyVars
<1>7. ASSUME NEW e \in Executions, ToolCall(e) PROVE NotReadYet' /\ ReadersUndisturbed'
      BY <1>5, <1>6, <1>7 DEF ToolCall, CallWrite, CallEdit, CallBash
<1>8. CASE ToolStep
      <2>1. CASE UNCHANGED files
            BY <1>c, <1>8, <2>1, ToolKinds DEF workerVars
      <2>2. ASSUME NEW p \in Paths, NEW v \in Versions, Sets(p, v)
            PROVE  NotReadYet' /\ ReadersUndisturbed'
            <3>1. UNCHANGED <<place, readSet>> /\ tool # None
                  BY <1>8, ToolKinds DEF workerVars
            <3>2. tool.by \in Executions /\ Leased(tool.by) /\ ModeOf[tool.by] = "Write"
                  BY <3>1 DEF LeasesHold, Leased, Types, ToolCalls
            <3>3. \A e \in Executions : ~(place[e] = "running" /\ ModeOf[e] = "Read")
                  BY <3>2, WriterIsAlone DEF Leased
            <3>. QED BY <3>1, <3>3 DEF NotReadYet, ReadersUndisturbed
      <2>. QED BY <1>8, <2>1, <2>2, ToolKinds
<1>9. ASSUME NEW p \in Paths, NEW v \in Versions, Edit(p, v) PROVE NotReadYet' /\ ReadersUndisturbed'
      <2>1. UNCHANGED <<place, readSet>> /\ edited' = edited \cup {p}
            BY <1>9 DEF Edit, workerVars
      <2>2. \A q \in Paths \ {p} : files'[q] = files[q]
            BY <1>9 DEF Edit, Types, Manifests
      <2>3. \A e \in Executions : Conflicts(e)' \subseteq Conflicts(e) \cup {p}
            BY <2>1, <2>2 DEF Conflicts
      <2>. QED BY <2>1, <2>3 DEF NotReadYet, ReadersUndisturbed
<1>10. CASE UNCHANGED vars
       BY <1>c, <1>10 DEF vars, workerVars, historyVars
<1>. QED BY <1>1, <1>2, <1>3, <1>4, <1>7, <1>8, <1>9, <1>10 DEF Next, WorkerStep

\* What a reader has read stays as it read it, except where the user edits: the
\* lease that execute_execution takes (server.rs:944) keeps every tool of every
\* writer, in whatever group, away while it runs.
THEOREM Undisturbed == Spec => []ReadersUndisturbed
<1>1. Init => NotReadYet /\ ReadersUndisturbed
      BY DEF Init, NotReadYet, ReadersUndisturbed
<1>. QED BY <1>1, TypeCorrect, Leasing, NextReaders, PTL DEF Spec
-------------------------------------------------------------------------------
Recorded == CheckpointIsPhaseStart /\ PhaseIsRecorded

\* Every step keeps a walk true to the start of its phase, and a phase's record:
\* nobody else has a lease while a worker walks, and whoever changes a file of a
\* group that is writing is either of the group, or foreign.
LEMMA NextRecorded ==
    Types /\ ToolTypes /\ LeasesHold /\ PhasesHold /\ WalkIsOfStart /\ Recorded /\ [Next]_vars
        => WalkIsOfStart' /\ Recorded'
<1> SUFFICES ASSUME Types, ToolTypes, LeasesHold, PhasesHold, WalkIsOfStart, Recorded, [Next]_vars
             PROVE  WalkIsOfStart' /\ Recorded'
    OBVIOUS
<1> USE WorkspaceAssumption
<1>a. place \in [Executions -> Places] /\ \A e \in Executions : GroupOf[e] \in Groups
      BY DEF Types
<1>b. ASSUME UNCHANGED <<walk, files, found, foreign, journal>>, writing' \subseteq writing,
             NEW e \in Executions, NEW next, place' = [place EXCEPT ![e] = next], next # "walking",
             place[e] \notin {"walking", "lost"}
      PROVE  WalkIsOfStart' /\ Recorded'
      <2>1. \A f \in Executions : (place'[f] = "walking") <=> (place[f] = "walking")
            BY <1>a, <1>b
      <2>2. \A f \in Executions : place[f] = "lost" => place'[f] = "lost"
            BY <1>a, <1>b
      <2>3. WalkIsOfStart'
            BY <1>b, <2>1 DEF WalkIsOfStart, Known
      <2>4. CheckpointIsPhaseStart'
            BY <1>b, <2>2 DEF Recorded, CheckpointIsPhaseStart
      <2>5. PhaseIsRecorded'
            BY <1>b, <2>1, <2>2 DEF Recorded, PhaseIsRecorded, Known
      <2>. QED BY <2>3, <2>4, <2>5 DEF Recorded
<1>c. ASSUME UNCHANGED <<walk, files, found, foreign, journal, writing, place>>
      PROVE  WalkIsOfStart' /\ Recorded'
      BY <1>c DEF WalkIsOfStart, Recorded, CheckpointIsPhaseStart, PhaseIsRecorded, Known
<1>d. ASSUME NEW e \in Executions, Leased(e), ModeOf[e] = "Write" \/ place[e] # "walking",
             NEW f \in Executions \ {e}
      PROVE  place[f] # "walking"
      <2> SUFFICES ASSUME place[f] = "walking" PROVE FALSE
          OBVIOUS
      <2>1. Leased(f) /\ ModeOf[f] = "Write"
            BY DEF Leased, PhasesHold
      <2>. QED BY <1>d, <2>1, WriterIsAlone
<1>e. ASSUME NEW e \in Executions, NEW next, Leaves(e, next), place[e] \in {"ready", "running"},
             next = "ended", UNCHANGED <<files, found, foreign, journal>>
      PROVE  WalkIsOfStart' /\ Recorded'
      <2>1. \A f \in Executions : place[f] # "walking"
            BY <1>d, <1>e DEF Leased
      <2>2. walk' = walk
            BY <1>e, <2>1 DEF WalkIsOfStart, Leaves
      <2>3. writing' \subseteq writing
            BY <1>e DEF Leaves, Released
      <2>. QED BY <1>b, <1>e, <2>2, <2>3 DEF Leaves, Goes
<1>1. ASSUME NEW e \in Executions, Enqueue(e) \/ Take(e) \/ Acquire(e)
      PROVE  WalkIsOfStart' /\ Recorded'
      BY <1>b, <1>1 DEF Enqueue, Take, Acquire, Goes, Released, historyVars
<1>2. ASSUME NEW e \in Executions, EnterPhase(e) PROVE WalkIsOfStart' /\ Recorded'
      <2> DEFINE g == GroupOf[e]
      <2>1. place[e] = "leased" /\ g \in Groups /\ \A f \in Executions \ {e} : place'[f] = place[f]
            BY <1>a, <1>2 DEF EnterPhase, Goes
      <2>2. \A f \in Executions : place[f] # "walking"
            BY <1>d, <2>1 DEF Leased
      <2>3. walk = <<>> /\ UNCHANGED <<walk, files, journal>>
            BY <1>2, <2>2 DEF WalkIsOfStart, EnterPhase
      <2>4. \A h \in Groups \ {g} : /\ found'[h] = found[h] /\ foreign'[h] = foreign[h]
                                    /\ h \in writing' => h \in writing
            BY <1>2 DEF EnterPhase, Enter, Types
      <2>5. CASE ModeOf[e] = "Write" /\ g \in writing
            <3>1. UNCHANGED <<found, foreign, writing>> /\ place' = [place EXCEPT ![e] = "ready"]
                  BY <1>2, <2>5 DEF EnterPhase, Enter, StartsWritePhase, Goes, Types
            <3>. QED BY <1>b, <2>1, <2>3, <3>1
      <2>6. CASE ~(ModeOf[e] = "Write" /\ g \in writing)
            <3>1. found'[g] = NoFile /\ foreign'[g] = {}
                  BY <1>2, <2>1, <2>6 DEF EnterPhase, Types
            <3>2. g \in writing' => place'[e] = "walking"
                  BY <1>a, <1>2, <2>6 DEF EnterPhase, Enter, StartsWritePhase, Goes
            <3>3. place'[e] # "lost"
                  BY <1>a, <1>2 DEF EnterPhase, Goes
            <3>4. WalkIsOfStart'
                  BY <2>1, <2>2, <2>3, <3>1 DEF WalkIsOfStart
            <3>5. CheckpointIsPhaseStart'
                  BY <2>1, <2>3, <2>4, <3>1, <3>3 DEF Recorded, CheckpointIsPhaseStart, NoFile
            <3>6. PhaseIsRecorded'
                  BY <2>1, <2>2, <2>3, <2>4, <3>2 DEF Recorded, PhaseIsRecorded, Known
            <3>. QED BY <3>4, <3>5, <3>6 DEF Recorded
      <2>. QED BY <2>5, <2>6
<1>3. ASSUME NEW e \in Executions, Walk(e) PROVE WalkIsOfStart' /\ Recorded'
      <2>1. place[e] = "walking" /\ walk' = Append(walk, files[Len(walk) + 1])
               /\ UNCHANGED <<place, writing, journal, files, found, foreign>>
            BY <1>3 DEF Walk, historyVars
      <2>2. walk \in Seq(Versions) /\ files[Len(walk) + 1] \in Versions
            BY <1>3 DEF Walk, Types, Manifests, Paths
      <2>3. WalkIsOfStart'
            BY <2>1, <2>2 DEF WalkIsOfStart, Known
      <2>. QED BY <2>1, <2>3 DEF Recorded, CheckpointIsPhaseStart, PhaseIsRecorded, Known
<1>4. ASSUME NEW e \in Executions, RecordCheckpoint(e) PROVE WalkIsOfStart' /\ Recorded'
      <2> DEFINE g == GroupOf[e]
      <2>1. /\ place[e] = "walking" /\ place' = [place EXCEPT ![e] = "ready"]
            /\ journal' = [journal EXCEPT ![g] = walk] /\ walk' = <<>> /\ Len(walk) = NPaths
            /\ UNCHANGED <<files, found, foreign, writing>>
            BY <1>4 DEF RecordCheckpoint, Goes, historyVars
      <2>2. \A f \in Executions : place'[f] # "walking"
            BY <1>a, <1>d, <2>1 DEF Leased, PhasesHold
      <2>3. \A f \in Executions : place[f] = "lost" => place'[f] = "lost"
            BY <1>a, <2>1
      <2>4. walk \in Manifests /\ walk # None
            BY <2>1, InputAssumption DEF Types, Manifests, Paths
      <2>5. /\ g \in Groups /\ journal'[g] = walk /\ found[g] = NoFile
            /\ \A p \in Paths : Known(g, p, walk[p])
            BY <1>a, <2>1 DEF WalkIsOfStart, Paths, Types
      <2>6. \A h \in Groups \ {g} : journal'[h] = journal[h]
            BY <2>1 DEF Types
      <2>7. WalkIsOfStart'
            BY <2>1, <2>2 DEF WalkIsOfStart
      <2>8. CheckpointIsPhaseStart'
            BY <2>1, <2>3, <2>5, <2>6 DEF Recorded, CheckpointIsPhaseStart, NoFile
      <2>9. PhaseIsRecorded'
            <3> SUFFICES ASSUME NEW h \in Groups, h \in writing',
                                \A f \in Executions : GroupOf[f] = h => place'[f] \notin {"lost", "walking"}
                         PROVE  /\ journal'[h] # None
                                /\ \A p \in Paths : found'[h][p] = None =>
                                      journal'[h][p] = files'[p] \/ p \in foreign'[h]
                BY DEF PhaseIsRecorded, Known
            <3>1. CASE h = g
                  BY <2>1, <2>4, <2>5, <3>1 DEF Known
            <3>2. CASE h # g
                  <4>1. \A f \in Executions : GroupOf[f] = h => place[f] \notin {"lost", "walking"}
                        BY <1>a, <2>1, <3>2
                  <4>. QED BY <2>1, <2>6, <3>2, <4>1 DEF Recorded, PhaseIsRecorded, Known
            <3>. QED BY <3>1, <3>2
      <2>. QED BY <2>7, <2>8, <2>9 DEF Recorded
<1>5. ASSUME NEW e \in Executions, CheckpointFails(e) PROVE WalkIsOfStart' /\ Recorded'
      <2>1. /\ place[e] = "walking" /\ place' = [place EXCEPT ![e] = "lost"] /\ walk' = <<>>
            /\ UNCHANGED <<files, found, foreign, journal>>
            BY <1>5 DEF CheckpointFails, Leaves, Goes, historyVars
      <2>2. writing' \subseteq writing
            BY <1>5 DEF CheckpointFails, Leaves, Released
      <2>3. \A f \in Executions : place'[f] # "walking"
            BY <1>a, <1>d, <2>1 DEF Leased, PhasesHold
      <2>4. \A f \in Executions : place[f] \in {"lost", "walking"} => f = e \/ place'[f] = place[f]
            BY <1>a, <2>1
      <2>5. place'[e] = "lost"
            BY <1>a, <2>1
      <2>6. WalkIsOfStart'
            BY <2>1, <2>3 DEF WalkIsOfStart
      <2>7. CheckpointIsPhaseStart'
            BY <2>1, <2>4, <2>5 DEF Recorded, CheckpointIsPhaseStart
      <2>8. PhaseIsRecorded'
            BY <2>1, <2>2, <2>4, <2>5 DEF Recorded, PhaseIsRecorded, Known
      <2>. QED BY <2>6, <2>7, <2>8 DEF Recorded
<1>6. ASSUME NEW e \in Executions, Begin(e) \/ Finish(e) PROVE WalkIsOfStart' /\ Recorded'
      BY <1>b, <1>e, <1>6 DEF Begin, Finish, Goes, historyVars
<1>7. ASSUME NEW e \in Executions, Cancel(e) PROVE WalkIsOfStart' /\ Recorded'
      BY <1>c, <1>7 DEF Cancel, workerVars, historyVars
<1>8. ASSUME NEW e \in Executions, ToolCall(e) PROVE WalkIsOfStart' /\ Recorded'
      BY <1>c, <1>8
      DEF ToolCall, Read, CallWrite, CallEdit, CallBash, BeginTool, workerVars, historyVars
<1>9. ASSUME ToolStep, NEW p \in Paths, NEW v \in Versions, Sets(p, v)
      PROVE  WalkIsOfStart' /\ Recorded'
      <2> DEFINE g == GroupOf[tool.by]
      <2>1. tool # None /\ UNCHANGED <<walk, place, writing, journal>>
            BY <1>9, ToolKinds DEF workerVars
      <2>2. tool.by \in Executions /\ place[tool.by] = "running" /\ ModeOf[tool.by] = "Write"
            BY <2>1 DEF LeasesHold, Types, ToolCalls
      <2>3. g \in Groups /\ g \in writing
            BY <1>a, <2>2 DEF PhasesHold
      <2>4. \A f \in Executions : place[f] # "walking"
            BY <1>d, <2>2 DEF Leased
      <2>5. WalkIsOfStart'
            BY <2>1, <2>4 DEF WalkIsOfStart
      <2>6. CASE v = files[p]
            <3>1. UNCHANGED <<files, found, foreign>>
                  BY <1>9, <2>6 DEF Sets, Types, Manifests
            <3>. QED BY <1>c, <2>1, <3>1
      <2>7. CASE v # files[p]
            <3>1. /\ \A q \in Paths \ {p} : files'[q] = files[q] /\ found'[g][q] = found[g][q]
                  /\ found'[g][p] = IF found[g][p] = None THEN files[p] ELSE found[g][p]
                  /\ files[p] # None
                  BY <1>9, <2>3, <2>7 DEF Sets, Types, Manifests, Versions
            <3>2. \A h \in Groups \ {g} :
                      /\ found'[h] = found[h] 
                      /\ foreign'[h] = foreign[h] \cup (IF h \in writing THEN {p} ELSE {})
                  BY <1>9, <2>7 DEF Sets, Types
            <3>3. foreign'[g] = foreign[g]
                  <4>1. foreign'[g] = foreign[g] \cup (IF g \in writing \ {g} THEN {p} ELSE {})
                        BY <1>9, <2>3, <2>7 DEF Sets
                  <4>2. g \notin writing \ {g}
                        OBVIOUS
                  <4>. QED BY <4>1, <4>2, foreign[g] \cup {} = foreign[g]
            <3>4. ASSUME \A f \in Executions : GroupOf[f] = g => place[f] # "lost"
                  PROVE  /\ journal[g] # None
                         /\ \A q \in Paths : found[g][q] = None => Known(g, q, journal[g][q])
                  BY <2>3, <2>4, <3>4 DEF Recorded, PhaseIsRecorded
            <3>5. CheckpointIsPhaseStart'
                  <4> SUFFICES ASSUME NEW h \in Groups, NEW q \in Paths, found'[h][q] # None,
                                      \A f \in Executions : GroupOf[f] = h => place[f] # "lost"
                               PROVE  /\ journal[h] # None
                                      /\ journal[h][q] = found'[h][q] \/ q \in foreign'[h]
                      BY <2>1 DEF CheckpointIsPhaseStart
                  <4>1. CASE h = g
                        BY <3>1, <3>3, <3>4, <4>1 DEF Recorded, CheckpointIsPhaseStart, Known
                  <4>2. CASE h # g
                        BY <3>2, <4>2 DEF Recorded, CheckpointIsPhaseStart
                  <4>. QED BY <4>1, <4>2
            <3>6. PhaseIsRecorded'
                  <4> SUFFICES ASSUME NEW h \in Groups, h \in writing, NEW q \in Paths,
                                      \A f \in Executions : GroupOf[f] = h => place[f] \notin {"lost", "walking"}
                               PROVE  /\ journal[h] # None
                                      /\ found'[h][q] = None =>
                                            journal[h][q] = files'[q] \/ q \in foreign'[h]
                      BY <2>1, <2>3 DEF PhaseIsRecorded, Known
                  <4>1. CASE h = g
                        BY <3>1, <3>3, <3>4, <4>1 DEF Known
                  <4>2. CASE h # g
                        BY <3>1, <3>2, <4>2 DEF Recorded, PhaseIsRecorded, Known
                  <4>. QED BY <4>1, <4>2
            <3>. QED BY <2>5, <3>5, <3>6 DEF Recorded
      <2>. QED BY <2>6, <2>7
<1>10. CASE ToolStep
       <2>1. CASE UNCHANGED <<files, found, foreign>>
             BY <1>c, <1>10, <2>1, ToolKinds DEF workerVars
       <2>. QED BY <1>9, <1>10, <2>1, ToolKinds
<1>11. ASSUME NEW p \in Paths, NEW v \in Versions, Edit(p, v) PROVE WalkIsOfStart' /\ Recorded'
       <2>1. UNCHANGED <<place, writing, walk, journal, found>>
             BY <1>11 DEF Edit, workerVars
       <2>2. \A q \in Paths \ {p} : files'[q] = files[q]
             BY <1>11 DEF Edit, Types, Manifests
       <2>3. \A g \in Groups : foreign'[g] = foreign[g] \cup (IF g \in writing THEN {p} ELSE {})
             BY <1>11 DEF Edit
       <2>4. \A x : \A g \in writing, q \in Paths : Known(g, q, x) => Known(g, q, x)'
             BY <2>2, <2>3 DEF Known, Types
       <2>5. \A i \in 1..Len(walk) : i \in Paths
             BY DEF Types, Paths
       <2>6. WalkIsOfStart'
             BY <1>a, <2>1, <2>4, <2>5 DEF WalkIsOfStart, PhasesHold
       <2>7. CheckpointIsPhaseStart'
             BY <2>1, <2>3 DEF Recorded, CheckpointIsPhaseStart
       <2>8. PhaseIsRecorded'
             BY <2>1, <2>4 DEF Recorded, PhaseIsRecorded
       <2>. QED BY <2>6, <2>7, <2>8 DEF Recorded
<1>12. CASE UNCHANGED vars
       BY <1>c, <1>12 DEF vars, workerVars, historyVars
<1>. QED BY <1>1, <1>2, <1>3, <1>4, <1>5, <1>6, <1>7, <1>8, <1>10, <1>11, <1>12 DEF Next, WorkerStep

\* The checkpoint that execute_execution records (server.rs:953) is what the write
\* phase found: whatever members of the group take part in the phase, whoever else
\* writes and edits, and wherever workers are cancelled.
THEOREM CheckpointsAreStarts == Spec => []CheckpointIsPhaseStart
<1>1. Init => WalkIsOfStart /\ Recorded
      BY DEF Init, WalkIsOfStart, Recorded, CheckpointIsPhaseStart, PhaseIsRecorded, NoFile
<1>2. Recorded => CheckpointIsPhaseStart
      BY DEF Recorded
<1>. QED BY <1>1, <1>2, TypeCorrect, Leasing, NextRecorded, PTL DEF Spec
-------------------------------------------------------------------------------
\* Every step keeps what the tool in progress knows: only its own steps change
\* files, and where the user changes one, that it was touched is on record.
LEMMA NextKnows == Types /\ ToolTypes /\ ToolKnows /\ [Next]_vars => ToolKnows'
<1> SUFFICES ASSUME Types, ToolTypes, ToolKnows, [Next]_vars PROVE ToolKnows'
    OBVIOUS
<1> USE WorkspaceAssumption
<1>a. ASSUME tool # None PROVE tool \in ToolCalls /\ Shaped(tool) /\ Knows(tool)
      BY <1>a DEF Types, ToolTypes, ToolKnows
<1>b. ASSUME UNCHANGED <<files, tool, touched>> PROVE ToolKnows'
      BY <1>b DEF ToolKnows, Knows, Untouched
<1>c. ASSUME NEW next, ToolGoes(next), next # None => Knows(next) PROVE ToolKnows'
      BY <1>c DEF ToolGoes, Becomes, ToolKnows, Knows, Untouched
<1>1. ASSUME NEW e \in Executions, WorkerStep(e) \/ Cancel(e) PROVE ToolKnows'
      <2>1. UNCHANGED <<files, tool, touched>>
            BY <1>1 DEF WorkerStep, Enqueue, Take, Acquire, EnterPhase, Walk, RecordCheckpoint,
                        CheckpointFails, Begin, Finish, Cancel, historyVars
      <2>. QED BY <1>b, <2>1
<1>2. ASSUME NEW e \in Executions, NEW step \in {"read", "check", "baseline"}, NEW p, NEW x, NEW c,
             BeginTool(e, Call(e, step, p, x, c))
      PROVE  ToolKnows'
      <2> DEFINE next == Call(e, step, p, x, c)
      <2>1. tool' = next /\ UNCHANGED <<files, touched>> /\ tool = None
            BY <1>2 DEF BeginTool, Calls, historyVars
      <2>2. Knows(next)
            BY DEF Knows, Call
      <2>3. touched = Untouched
            BY <2>1 DEF ToolKnows
      <2>. QED BY <2>1, <2>2, <2>3 DEF ToolKnows, Knows, Untouched
<1>3. ASSUME NEW e \in Executions, ToolCall(e) PROVE ToolKnows'
      <2>1. ASSUME NEW p \in Paths, Read(e, p) PROVE ToolKnows'
            BY <1>b, <2>1 DEF Read, historyVars
      <2>. QED BY <1>2, <1>3, <2>1 DEF ToolCall, CallWrite, CallEdit, CallBash
<1>4. CASE EditReads
      <2> DEFINE next == [tool EXCEPT !.step = "check"]
      <2>1. tool # None /\ tool.step = "read" /\ (ToolGoes(next) \/ ToolGoes(None))
            BY <1>4 DEF EditReads, At
      <2>2. Knows(next)
            BY <1>a, <2>1 DEF Knows, ToolCalls
      <2>. QED BY <1>c, <2>1, <2>2
<1>5. CASE CheckVersion
      <2> DEFINE next == [tool EXCEPT !.step = "write"]
      <2>1. /\ tool # None /\ tool.step = "check"
            /\ ToolGoes(None) \/ (ToolGoes(next) /\ files[tool.path] = tool.expected)
            BY <1>5 DEF CheckVersion, At
      <2>2. files[tool.path] = tool.expected => Knows(next)
            BY <1>a, <2>1 DEF Knows, ToolCalls
      <2>. QED BY <1>c, <2>1, <2>2
<1>6. CASE WriteFile
      <2>1. tool' = None /\ touched' = Untouched
            BY <1>6 DEF WriteFile, Becomes
      <2>. QED BY <2>1 DEF ToolKnows, Untouched
<1>7. ASSUME NEW upper \in Commands, RunCommand(upper) PROVE ToolKnows'
      <2> DEFINE next == [tool EXCEPT !.step = "snapshot", !.base = tool.scan, !.upper = upper,
                                      !.scan = <<>>]
      <2>1. tool # None /\ tool.step = "baseline" /\ Len(tool.scan) = NPaths /\ ToolGoes(next)
            BY <1>7 DEF RunCommand, Walked, At
      <2>2. /\ next.step = "snapshot" /\ next.scan = <<>> /\ next.base = tool.scan
            /\ next.snapshot = <<>> /\ next.applied = {}
            BY <1>a, <2>1 DEF ToolCalls, Shaped, Knows
      <2>3. \A p \in Paths : touched[p] = "no" => tool.scan[p] = files[p]
            BY <1>a, <2>1 DEF Knows, Paths
      <2> HIDE DEF next
      <2>4. Knows(next)
            BY <2>2, <2>3 DEF Knows
      <2>. QED BY <1>c, <2>1, <2>4
<1>8. CASE ToolWalks
      <2> DEFINE i == Len(tool.scan) + 1
                 next == [tool EXCEPT !.scan = Append(tool.scan, files[i])]
      <2>1. tool # None /\ tool.step \in {"baseline", "validate", "verify"} /\ ToolGoes(next)
            BY <1>8 DEF ToolWalks, At
      <2>2. /\ next.step = tool.step /\ next.base = tool.base /\ next.snapshot = tool.snapshot
            /\ next.applied = tool.applied /\ next.upper = tool.upper
            /\ next.scan = Append(tool.scan, files[i])
            BY <1>a, <2>1 DEF ToolCalls
      <2>3. /\ Len(next.scan) = i /\ i \in Nat /\ next.scan[i] = files[i]
            /\ \A p \in 1..Len(tool.scan) : next.scan[p] = tool.scan[p]
            BY <1>a, <1>8, <2>1, <2>2 DEF ToolCalls, Types, Manifests, Paths, ToolWalks
      <2> HIDE DEF next
      <2>4. \A p \in 1..Len(next.scan) : p \in 1..Len(tool.scan) \/ p = i
            BY <1>a, <2>1, <2>3 DEF ToolCalls
      <2>5. \A p : Effect(next, p) = Effect(tool, p)
            BY <2>2 DEF Effect
      <2>6. Knows(next)
            BY <1>a, <2>1, <2>2, <2>3, <2>4, <2>5 DEF Knows
      <2>. QED BY <1>c, <2>1, <2>6
<1>9. CASE Snapshot
      <2> DEFINE i == Len(tool.snapshot) + 1
                 copied == Append(tool.snapshot, Merged(i))
                 next == [tool EXCEPT !.snapshot = copied,
                                      !.step = IF Len(copied) = NPaths THEN "validate" ELSE @]
      <2>1. tool # None /\ tool.step = "snapshot" /\ ToolGoes(next)
            BY <1>9 DEF Snapshot, At
      <2>2. /\ next.step \in {"snapshot", "validate"} /\ next.base = tool.base
            /\ next.snapshot = copied /\ next.scan = <<>> /\ next.applied = {} /\ tool.applied = {}
            /\ next.upper = tool.upper
            BY <1>a, <2>1 DEF ToolCalls, Knows
      <2>3. tool.snapshot \in Seq(Versions) /\ i \in Paths
            BY <1>a, <2>1 DEF ToolCalls, Shaped, Paths
      <2>4. /\ Len(copied) = i /\ i \in Nat /\ copied[i] = Merged(i)
            /\ \A p \in 1..Len(tool.snapshot) : copied[p] = tool.snapshot[p]
            BY <2>3
      <2>5. \A p \in 1..Len(copied) : p \in 1..Len(tool.snapshot) \/ p = i
            BY <2>3, <2>4
      <2>6. \A p : Effect(next, p) = Effect(tool, p)
            BY <2>2 DEF Effect
      <2>7. touched[i] = "no" => Merged(i) = Effect(tool, i)
            BY <1>a, <2>1, <2>2, <2>3 DEF Knows, Merged, Effect
      <2> HIDE DEF next, copied
      <2>8. Knows(next)
            BY <1>a, <2>1, <2>2, <2>4, <2>5, <2>6, <2>7 DEF Knows
      <2>. QED BY <1>c, <2>1, <2>8
<1>10. CASE Validate
       <2> DEFINE next == [tool EXCEPT !.step = "apply", !.scan = <<>>]
       <2>1. /\ tool # None /\ tool.step = "validate" /\ Len(tool.scan) = NPaths
             /\ ToolGoes(None) \/ (ToolGoes(next) /\ tool.scan = tool.base)
             BY <1>10 DEF Validate, Walked, At, Matches
       <2>2. /\ next.step = "apply" /\ next.base = tool.base /\ next.snapshot = tool.snapshot
             /\ next.upper = tool.upper /\ next.applied = {} /\ tool.applied = {}
             BY <1>a, <2>1 DEF ToolCalls, Knows
       <2>3. \A p \in Paths : tool.scan[p] = files[p] \/ touched[p] = "after"
             BY <1>a, <2>1 DEF Knows, Paths
       <2>4. \A p : Effect(next, p) = Effect(tool, p)
             BY <2>2 DEF Effect
       <2> HIDE DEF next
       <2>5. tool.scan = tool.base => Knows(next)
             BY <1>a, <2>1, <2>2, <2>3, <2>4 DEF Knows
       <2>. QED BY <1>c, <2>1, <2>5
<1>11. ASSUME NEW p \in Paths, Apply(p) PROVE ToolKnows'
       <2> DEFINE next == [tool EXCEPT !.applied = tool.applied \cup {p},
                                       !.step = IF tool.applied \cup {p} = Paths THEN "verify" ELSE @]
       <2>1. tool # None /\ tool.step = "apply" /\ Sets(p, tool.snapshot[p]) /\ Becomes(next)
             BY <1>11 DEF Apply, At
       <2>2. /\ next.step \in {"apply", "verify"} /\ next.base = tool.base
             /\ next.snapshot = tool.snapshot /\ next.upper = tool.upper
             /\ next.applied = tool.applied \cup {p}
             /\ next.step = "verify" => next.applied = Paths
             BY <1>a, <2>1 DEF ToolCalls
       <2>3. files'[p] = tool.snapshot[p] /\ \A q \in Paths \ {p} : files'[q] = files[q]
             BY <2>1 DEF Sets, Types, Manifests
       <2>4. touched[p] = "no" => tool.snapshot[p] = Effect(tool, p)
             BY <1>a, <2>1 DEF Knows, Shaped, Paths
       <2>5. \A q : Effect(next, q) = Effect(tool, q)
             BY <2>2 DEF Effect
       <2>6. tool.applied \subseteq Paths
             BY <1>a, <2>1 DEF ToolCalls
       <2>7. tool' = None \/ (tool' = next /\ UNCHANGED touched)
             BY <2>1 DEF Becomes
       <2>8. CASE tool' = None
             BY <2>1, <2>8 DEF Becomes, ToolKnows, Untouched
       <2>9. CASE tool' = next /\ UNCHANGED touched
             <3> HIDE DEF next
             <3>1. \A q \in Paths \ next.applied : q \in Paths \ tool.applied /\ files'[q] = files[q]
                   BY <2>2, <2>3
             <3>2. \A q \in next.applied : touched[q] = "no" => files'[q] = Effect(next, q)
                   BY <1>a, <2>1, <2>2, <2>3, <2>4, <2>5, <2>6 DEF Knows
             <3>3. \A q \in 1..Len(tool.snapshot) : touched[q] = "no" => next.snapshot[q] = Effect(next, q)
                   BY <1>a, <2>1, <2>2, <2>5 DEF Knows
             <3>4. \A q : Effect(tool, q)' = Effect(next, q)
                   BY <2>9 DEF Effect
             <3>5. /\ \A q \in Paths \ next.applied :
                         /\ touched[q] = "no" => next.base[q] = files'[q]
                         /\ next.base[q] = files'[q] \/ touched[q] = "after"
                   BY <1>a, <2>1, <2>2, <3>1 DEF Knows
             <3>6. Knows(tool)'
                   BY <2>2, <2>9, <3>2, <3>3, <3>4, <3>5 DEF Knows
             <3>. QED BY <2>1, <2>9, <3>6 DEF ToolKnows, Becomes
       <2>. QED BY <2>7, <2>8, <2>9
<1>12. CASE Verify
       <2> DEFINE next == [tool EXCEPT !.step = "ok"]
       <2>1. tool # None /\ tool.step = "verify" /\ (ToolGoes(next) \/ ToolGoes(None))
             BY <1>12 DEF Verify, Walked, At
       <2>2. next.step = "ok" /\ next.applied = tool.applied /\ \A p : Effect(next, p) = Effect(tool, p)
             BY <1>a, <2>1 DEF ToolCalls, Effect
       <2> HIDE DEF next
       <2>3. Knows(next)
             BY <1>a, <2>1, <2>2 DEF Knows
       <2>. QED BY <1>c, <2>1, <2>3
<1>13. CASE Return \/ ToolFails
       BY <1>c, <1>13 DEF Return, ToolFails
<1>14. ASSUME NEW p \in Paths, NEW v \in Versions, Edit(p, v) PROVE ToolKnows'
       <2>1. tool' = tool /\ files' = [files EXCEPT ![p] = v]
             BY <1>14 DEF Edit
       <2>2. CASE tool = None
             BY <1>14, <2>1, <2>2 DEF Edit, ToolKnows, Untouched
       <2>3. CASE tool # None
             <3>1. /\ \A q \in Paths \ {p} : touched'[q] = touched[q] /\ files'[q] = files[q]
                   /\ touched'[p] # "no" /\ (Compared(p) => touched'[p] = "after")
                   BY <1>14, <2>1, <2>3 DEF Edit, Types, Manifests
             <3>2. \A q \in Paths : touched'[q] = "no" => touched[q] = "no" /\ files'[q] = files[q]
                   BY <3>1
             <3>3. \A q \in Paths : Compared(q) =>
                      touched'[q] = "after" \/ (touched'[q] = touched[q] /\ files'[q] = files[q])
                   BY <3>1
             <3>4. \A q \in 1..Len(tool.scan) : q \in Paths
                   BY <1>a, <2>3 DEF Shaped, ToolCalls, Paths
             <3>5. \A q \in 1..Len(tool.snapshot) :
                      tool.step \in {"snapshot", "validate", "apply"} => q \in Paths
                   BY <1>a, <2>3 DEF Shaped, ToolCalls, Paths
             <3>6. tool.applied \subseteq Paths /\ (tool.step = "write" => tool.path \in Paths)
                   BY <1>a, <2>3 DEF Shaped, ToolCalls
             <3>7. tool.step = "write" => files'[tool.path] = tool.expected \/ touched'[tool.path] = "after"
                   BY <1>a, <2>3, <3>3, <3>6 DEF Knows, Compared, At
             <3>8. tool.step = "validate" =>
                      \A q \in 1..Len(tool.scan) : tool.scan[q] = files'[q] \/ touched'[q] = "after"
                   <4>1. tool.step = "validate" => \A q \in 1..Len(tool.scan) : Compared(q)
                         BY <1>a, <2>3 DEF Compared, At, ToolCalls
                   <4>. QED BY <1>a, <2>3, <3>3, <3>4, <4>1 DEF Knows
             <3>9. tool.step = "apply" =>
                      \A q \in Paths \ tool.applied : tool.base[q] = files'[q] \/ touched'[q] = "after"
                   <4>1. tool.step = "apply" => \A q \in Paths : Compared(q)
                         BY <2>3 DEF Compared, At
                   <4>. QED BY <1>a, <2>3, <3>3, <4>1 DEF Knows
             <3>10. \A q : Effect(tool, q)' = Effect(tool, q)
                    BY <2>1 DEF Effect
             <3>11. Knows(tool)'
                    BY <1>a, <2>1, <2>3, <3>2, <3>4, <3>5, <3>6, <3>7, <3>8, <3>9, <3>10 DEF Knows
             <3>. QED BY <2>1, <2>3, <3>11 DEF ToolKnows
       <2>. QED BY <2>2, <2>3
<1>15. CASE UNCHANGED vars
       BY <1>b, <1>15 DEF vars, historyVars
<1>. QED BY <1>1, <1>3, <1>4, <1>5, <1>6, <1>7, <1>8, <1>9, <1>10, <1>11, <1>12, <1>13, <1>14, <1>15
         DEF Next, ToolStep

\* What the tool in progress knows is true in every state.
LEMMA Knowing == Spec => []ToolKnows
<1>1. Init => ToolKnows
      BY DEF Init, ToolKnows
<1>. QED BY <1>1, TypeCorrect, NextKnows, PTL DEF Spec

\* A transaction that is reported done (transaction.rs:186) has had exactly its
\* command's effect on every file that the user left alone, for any command.
THEOREM CommitsAreExact == Spec => []CommitIsExact
<1>1. ToolKnows => CommitIsExact
      BY DEF ToolKnows, Knows, Effect, CommitIsExact, At
<1>. QED BY <1>1, Knowing, PTL

\* write and edit (workspace_consistency.rs:213) and the application of a
\* transaction (transaction.rs:160) replace only what they expect, or what the user
\* wrote after they had compared.
THEOREM ConflictsAreRefused == Spec => OverwritesWhatItExpects
<1> DEFINE Expected(p) == \/ files[p] = IF tool.step = "write" THEN tool.expected ELSE tool.base[p]
                          \/ touched[p] = "after"
           Overwrites == \A p \in Paths : tool # None /\ edits' = edits /\ files'[p] # files[p] => Expected(p)
<1>1. Types /\ ToolTypes /\ ToolKnows /\ [Next]_vars => Overwrites
      <2> SUFFICES ASSUME Types, ToolTypes, ToolKnows, [Next]_vars, NEW p \in Paths, tool # None,
                          edits' = edits, files'[p] # files[p]
                   PROVE  Expected(p)
          OBVIOUS
      <2>1. tool \in ToolCalls /\ Shaped(tool) /\ Knows(tool)
            BY DEF Types, ToolTypes, ToolKnows
      <2>2. CASE WriteFile
            <3>1. tool.step = "write" /\ p = tool.path
                  BY <2>1, <2>2 DEF WriteFile, At, Sets, Shaped, Types, Manifests
            <3>. QED BY <2>1, <3>1 DEF Knows
      <2>3. ASSUME NEW q \in Paths, Apply(q) PROVE Expected(p)
            <3>1. tool.step = "apply" /\ p = q /\ p \notin tool.applied
                  BY <2>3 DEF Apply, At, Sets, Types, Manifests
            <3>. QED BY <2>1, <3>1 DEF Knows
      <2>4. ASSUME NEW q \in Paths, NEW v \in Versions, Edit(q, v) PROVE FALSE
            BY <2>4 DEF Edit, Types
      <2>5. ASSUME UNCHANGED files PROVE FALSE
            BY <2>5
      <2>6. ASSUME NEW e \in Executions, WorkerStep(e) \/ Cancel(e) \/ ToolCall(e) PROVE UNCHANGED files
            BY <2>6 DEF WorkerStep, Enqueue, Take, Acquire, EnterPhase, Walk, RecordCheckpoint,
                        CheckpointFails, Begin, Finish, Cancel, ToolCall, Read, CallWrite, CallEdit,
                        CallBash, BeginTool
      <2>7. ASSUME ToolStep, ~WriteFile, \A q \in Paths : ~Apply(q) PROVE UNCHANGED files
            BY <2>7 DEF ToolStep, EditReads, CheckVersion, RunCommand, ToolWalks, Snapshot, Validate,
                        Verify, Return, ToolFails, ToolGoes
      <2>8. CASE UNCHANGED vars
            BY <2>5, <2>8 DEF vars
      <2>. QED BY <2>2, <2>3, <2>4, <2>5, <2>6, <2>7, <2>8 DEF Next
<1>2. Overwrites => [Overwrites]_vars
      OBVIOUS
<1>. QED BY <1>1, TypeCorrect, Knowing, PTL DEF Spec, OverwritesWhatItExpects
====

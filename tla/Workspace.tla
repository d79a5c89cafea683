------------------------------- MODULE Workspace -------------------------------
(***************************************************************************)
(* One workspace directory and the executions that work in it              *)
(* (workspace_tools.rs, workspace_consistency.rs, transaction.rs, and      *)
(* execute_execution of server.rs): a worker takes the lease of the        *)
(* execution's mode, enters its group's read or write phase, records a     *)
(* checkpoint of the protected files when a write phase starts, and runs   *)
(* the execution, whose backend calls tools.  A tool runs under the        *)
(* runtime's mutex; what else changes files meanwhile is the user's        *)
(* editor, at any moment.                                                  *)
(*                                                                         *)
(* The files are the protected ones, 1 .. NPaths in the order of a walk;   *)
(* a version stands for a file's content, kind and fingerprint.  Scratch   *)
(* paths and .git are excluded from all of this by the code.               *)
(***************************************************************************)
EXTENDS Naturals, Sequences

CONSTANTS Executions, Groups, None,
          ModeOf,    \* the lease mode of an execution, from its authority
          GroupOf,   \* the group of an execution: the id of its root
          NPaths,    \* number of protected paths
          Contents,  \* what a file may contain
          Initially, \* the files the conductor may find
          Commands,  \* bound: the effects of a command, None where it leaves a file alone
          MaxCalls,  \* bound: tool calls
          MaxEdits   \* bound: changes made by the user

ASSUME WorkspaceAssumption ==
    /\ ModeOf \in [Executions -> {"Read", "Write"}]
    /\ GroupOf \in [Executions -> Groups]
    /\ NPaths \in Nat \ {0} /\ MaxCalls \in Nat /\ MaxEdits \in Nat
    /\ None \notin Executions \cup Contents \cup {"Absent"}
    /\ "Absent" \notin Contents

Paths == 1 .. NPaths

\* FileVersion
Versions == Contents \cup {"Absent"}

Manifests == [Paths -> Versions]

ASSUME InputAssumption ==
    /\ Initially \subseteq Manifests /\ None \notin Manifests
    /\ Commands \subseteq [Paths -> Versions \cup {None}]

VARIABLES granted,    \* the leases in force
          place,      \* place[e]: where the worker of e is
          state,      \* state[e]: the execution's state in the runtime
          writing,    \* groups in a write phase: WorkspacePhase.writing
          walk,       \* the manifest a worker is collecting for a checkpoint
          journal,    \* journal[g]: the last checkpoint recorded for g
          files,      \* the protected files
          tool,       \* the tool call in progress, which holds the runtime's mutex
          readSet,    \* readSet[e]: the first version of each file e has read
          calls, edits

workerVars == <<granted, place, writing, walk>>
boundVars == <<calls, edits>>

\* History: what the properties compare the state with
VARIABLES edited,   \* files the user has changed while executions run
          found,    \* found[g][p]: what g's write phase found before it first changed p
          foreign,  \* foreign[g]: files others have changed since g's write phase began
          touched   \* touched[p]: whether the user changed p during the tool call,
                    \* "before" or "after" the tool compared it with what it expects

historyVars == <<edited, found, foreign, touched>>

vars == <<workerVars, state, journal, files, tool, readSet, boundVars, historyVars>>

\* The workspace lease manager, by what it promises (WorkspaceLease implements it)
Lease == INSTANCE ReadersWriter WITH Workspaces <- {"workspace"}

Places == {"new", "queued", "waiting", "leased", "walking", "ready", "running", "ended", "lost"}

\* A worker has the job: it is active in the execution queue.
Active(e) == place[e] \in {"waiting", "leased", "walking", "ready", "running"}

\* Steps of a tool call, in order: edit reads, write compares and writes;
\* bash takes its baseline, snapshots, validates, applies and verifies.
Steps == {"read", "check", "write"} \cup
         {"baseline", "snapshot", "validate", "apply", "verify", "ok"}

NoFile == [p \in Paths |-> None]

Untouched == [p \in Paths |-> "no"]

WorkspaceTypeOK ==
    /\ granted["workspace"] \subseteq Lease!Grant
    /\ place \in [Executions -> Places]
    /\ state \in [Executions -> {"Pending", "Running", "Cancelled", "Completed"}]
    /\ writing \subseteq Groups
    /\ Len(walk) \in 0 .. NPaths
    /\ journal \in [Groups -> Manifests \cup {None}]
    /\ files \in Manifests
    /\ tool # None => tool.step \in Steps /\ state[tool.by] = "Running" /\ Len(tool.scan) <= NPaths
    /\ \A e \in Executions : readSet[e] \in [Paths -> Contents \cup {None}]
    /\ touched \in [Paths -> {"no", "before", "after"}]

Init ==
    /\ Lease!Init
    /\ place = [e \in Executions |-> "new"]
    /\ state = [e \in Executions |-> "Pending"]
    /\ writing = {}
    /\ walk = <<>>
    /\ journal = [g \in Groups |-> None]
    /\ files \in Initially
    /\ tool = None
    /\ readSet = [e \in Executions |-> NoFile]
    /\ calls = 0 /\ edits = 0
    /\ edited = {}
    /\ found = [g \in Groups |-> NoFile]
    /\ foreign = [g \in Groups |-> {}]
    /\ touched = Untouched
-------------------------------------------------------------------------------
(* A worker: execute_execution and what execution_loop does after it. *)

Goes(e, next) == place' = [place EXCEPT ![e] = next]

\* Something has made e and put it into the execution queue.
Enqueue(e) ==
    /\ place[e] = "new" /\ tool = None
    /\ Goes(e, "queued")
    /\ UNCHANGED <<granted, writing, walk, state, journal, files, tool, readSet, boundVars, historyVars>>

\* complete: the queue releases a group with its last job, and its phase is forgotten.
Released(e) ==
    IF \E f \in Executions \ {e} : GroupOf[f] = GroupOf[e] /\ (Active(f) \/ place[f] = "queued")
    THEN writing
    ELSE writing \ {GroupOf[e]}

\* execute_execution returns, the lease is dropped, and the job is complete.
Leaves(e, next) ==
    /\ Lease!Return("workspace", [execution |-> e, mode |-> ModeOf[e]])
    /\ writing' = Released(e)
    /\ walk' = <<>>
    /\ Goes(e, next)

\* next, and the first look at e's state
Take(e) ==
    /\ place[e] = "queued" /\ tool = None
    /\ IF state[e] = "Pending"
       THEN Goes(e, "waiting") /\ UNCHANGED writing
       ELSE Goes(e, "ended") /\ writing' = Released(e)
    /\ UNCHANGED <<granted, walk, state, journal, files, tool, readSet, boundVars, historyVars>>

\* WorkspaceLeaseManager::acquire returns
Acquire(e) ==
    /\ place[e] = "waiting"
    /\ Lease!Give("workspace", e, ModeOf[e])
    /\ Goes(e, "leased")
    /\ edited' = IF \E f \in Executions : place[f] = "running" THEN edited ELSE {}
    /\ UNCHANGED <<writing, walk, state, journal, files, tool, readSet, boundVars, found, foreign, touched>>

\* Mutant: reading does not end a write phase.
EnterNeverEnds(g, mode) == IF mode = "Write" THEN writing \cup {g} ELSE writing

\* WorkspacePhase::enter
Enter(g, mode) == IF mode = "Write" THEN writing \cup {g} ELSE writing \ {g}

StartsWritePhase(e) == ModeOf[e] = "Write" /\ GroupOf[e] \notin writing

EnterPhase(e) ==
    LET g == GroupOf[e]
        continues == ModeOf[e] = "Write" /\ g \in writing
    IN
    /\ place[e] = "leased"
    /\ writing' = Enter(g, ModeOf[e])
    /\ Goes(e, IF StartsWritePhase(e) THEN "walking" ELSE "ready")
    /\ found' = [found EXCEPT ![g] = IF continues THEN @ ELSE NoFile]
    /\ foreign' = [foreign EXCEPT ![g] = IF continues THEN @ ELSE {}]
    /\ UNCHANGED <<granted, walk, state, journal, files, tool, readSet, boundVars, edited, touched>>

\* checkpoint_baseline, one file after the other
Walk(e) ==
    /\ place[e] = "walking" /\ Len(walk) < NPaths
    /\ walk' = Append(walk, files[Len(walk) + 1])
    /\ UNCHANGED <<granted, place, writing, state, journal, files, tool, readSet, boundVars, historyVars>>

\* record_workspace_checkpoint: the reducer accepts it for a Pending execution.
RecordCheckpoint(e) ==
    /\ place[e] = "walking" /\ Len(walk) = NPaths /\ tool = None
    /\ state[e] = "Pending"
    /\ journal' = [journal EXCEPT ![GroupOf[e]] = walk]
    /\ walk' = <<>>
    /\ Goes(e, "ready")
    /\ UNCHANGED <<granted, writing, state, files, tool, readSet, boundVars, historyVars>>

\* The walk meets an I/O error or the reducer refuses the checkpoint: the worker
\* leaves with the error, and its thread ends.
CheckpointFails(e) ==
    /\ place[e] = "walking"
    /\ Len(walk) = NPaths => state[e] # "Pending" /\ tool = None
    /\ Leaves(e, "lost")
    /\ UNCHANGED <<state, journal, files, tool, readSet, boundVars, historyVars>>

\* Mutant: a read lease is dropped when the execution begins.
BeginUnleased(e) ==
    /\ place[e] = "ready" /\ tool = None
    /\ state[e] = "Pending"
    /\ state' = [state EXCEPT ![e] = "Running"]
    /\ Goes(e, "running")
    /\ IF ModeOf[e] = "Read"
       THEN Lease!Return("workspace", [execution |-> e, mode |-> "Read"])
       ELSE UNCHANGED granted
    /\ UNCHANGED <<writing, walk, journal, files, tool, readSet, boundVars, historyVars>>

\* begin_execution, or the second look at e's state
Begin(e) ==
    /\ place[e] = "ready" /\ tool = None
    /\ IF state[e] = "Pending"
       THEN /\ state' = [state EXCEPT ![e] = "Running"]
            /\ Goes(e, "running")
            /\ UNCHANGED <<granted, writing, walk>>
       ELSE Leaves(e, "ended") /\ UNCHANGED state
    /\ UNCHANGED <<journal, files, tool, readSet, boundVars, historyVars>>

\* The backend returns, in its own time also when e was cancelled.
Finish(e) ==
    /\ place[e] = "running" /\ tool = None
    /\ state' = [state EXCEPT ![e] = IF @ = "Running" THEN "Completed" ELSE @]
    /\ Leaves(e, "ended")
    /\ UNCHANGED <<journal, files, tool, readSet, boundVars, historyVars>>

\* The client cancels e, which takes the runtime's mutex.
Cancel(e) ==
    /\ place[e] # "new" /\ tool = None
    /\ state[e] \in {"Pending", "Running"}
    /\ state' = [state EXCEPT ![e] = "Cancelled"]
    /\ UNCHANGED <<workerVars, journal, files, tool, readSet, boundVars, historyVars>>
-------------------------------------------------------------------------------
(* The tools. *)

\* invoke_tool: the backend of a Running execution calls a tool.
Calls(e) ==
    /\ place[e] = "running" /\ state[e] = "Running"
    /\ tool = None
    /\ calls < MaxCalls
    /\ calls' = calls + 1

\* ExecutionReadSet::observe keeps the first.
Observe(e, p) == [readSet EXCEPT ![e][p] = IF @ = None THEN files[p] ELSE @]

\* execute_read; a file that is not there is an error that changes nothing.
Read(e, p) ==
    /\ Calls(e)
    /\ files[p] # "Absent"
    /\ readSet' = Observe(e, p)
    /\ UNCHANGED <<workerVars, state, journal, files, tool, edits, historyVars>>

\* A tool that writes needs the authority for it: permits_capabilities, and for
\* bash the choice between a read-only sandbox and a transaction.
MayWrite(e) == ModeOf[e] = "Write"

\* A tool call as it begins
Call(e, step, p, expected, content) ==
    [by |-> e, step |-> step, path |-> p, expected |-> expected, content |-> content,
     scan |-> <<>>, base |-> <<>>, upper |-> <<>>, snapshot |-> <<>>, applied |-> {}]

BeginTool(e, call) ==
    /\ Calls(e) /\ MayWrite(e)
    /\ tool' = call
    /\ UNCHANGED <<workerVars, state, journal, files, readSet, edits, historyVars>>

\* execute_write, with whatever version the model says it expects; execute_edit
\* reads the file first.
CallWrite(e, p, expected, content) == BeginTool(e, Call(e, "check", p, expected, content))
CallEdit(e, p, expected, content) == BeginTool(e, Call(e, "read", p, expected, content))

\* execute_bash with the authority to write: WorkspaceTransaction::begin
CallBash(e) == BeginTool(e, Call(e, "baseline", None, None, None))

toolOnly == <<workerVars, state, journal, readSet, boundVars>>

\* The tool goes on, or returns and gives the mutex back.
Becomes(next) ==
    /\ tool' = next
    /\ touched' = IF next = None THEN Untouched ELSE touched

\* It does so and changes no file.
ToolGoes(next) ==
    /\ Becomes(next)
    /\ UNCHANGED <<toolOnly, files, edited, found, foreign>>

At(step) == tool # None /\ tool.step = step

\* execute_edit replaces text in what it reads.
EditReads ==
    /\ At("read")
    /\ ToolGoes(IF files[tool.path] # "Absent" THEN [tool EXCEPT !.step = "check"] ELSE None)

\* write_utf8 compares the version with the one expected ...
CheckVersion ==
    /\ At("check")
    /\ ToolGoes(IF files[tool.path] = tool.expected THEN [tool EXCEPT !.step = "write"] ELSE None)

\* A tool sets file p: history of who changed what in whose write phase
Sets(p, version) ==
    LET g == GroupOf[tool.by] IN
    /\ files' = [files EXCEPT ![p] = version]
    /\ IF version = files[p]
       THEN UNCHANGED <<found, foreign>>
       ELSE /\ found' = [found EXCEPT ![g][p] = IF @ = None THEN files[p] ELSE @]
            /\ foreign' = [h \in Groups |-> foreign[h] \cup (IF h \in writing \ {g} THEN {p} ELSE {})]
    /\ UNCHANGED <<toolOnly, edited>>

\* ... and then writes.
WriteFile ==
    /\ At("write")
    /\ Sets(tool.path, tool.content)
    /\ Becomes(None)

\* checkpoint_baseline of a transaction, three times: one file after the other
ToolWalks ==
    /\ At("baseline") \/ At("validate") \/ At("verify")
    /\ Len(tool.scan) < NPaths
    /\ ToolGoes([tool EXCEPT !.scan = Append(@, files[Len(@) + 1])])

Walked(step) == At(step) /\ Len(tool.scan) = NPaths

\* The command runs on an overlay: it writes some files there, deletes others.
RunCommand(upper) ==
    /\ Walked("baseline")
    /\ ToolGoes([tool EXCEPT !.step = "snapshot", !.base = tool.scan, !.upper = upper, !.scan = <<>>])

\* Mutant: the snapshot is taken of the workspace beneath the overlay.
MergedBeneath(p) == files[p]

\* A file as the sandbox sees it: the command's above the workspace's
Merged(p) == IF tool.upper[p] = None THEN files[p] ELSE tool.upper[p]

\* The sandbox copies the overlay, one file after the other; snapshot_manifest
\* reads the copy, which nobody else changes.
Snapshot ==
    LET copied == Append(tool.snapshot, Merged(Len(tool.snapshot) + 1)) IN
    /\ At("snapshot")
    /\ ToolGoes([tool EXCEPT !.snapshot = copied,
                             !.step = IF Len(copied) = NPaths THEN "validate" ELSE @])

\* Mutant: nothing is compared.
NothingCompared(expected) == tool.scan = tool.scan

\* compare_manifests
Matches(expected) == tool.scan = expected

\* validate_checkpoint_baseline of the baseline
Validate ==
    /\ Walked("validate")
    /\ ToolGoes(IF Matches(tool.base) THEN [tool EXCEPT !.step = "apply", !.scan = <<>>] ELSE None)

\* rsync brings one file to what the snapshot has.
Apply(p) ==
    LET applied == tool.applied \cup {p} IN
    /\ At("apply") /\ p \notin tool.applied
    /\ Sets(p, tool.snapshot[p])
    /\ Becomes([tool EXCEPT !.applied = applied,
                            !.step = IF applied = Paths THEN "verify" ELSE @])

\* validate_checkpoint_baseline of the snapshot's manifest
Verify ==
    /\ Walked("verify")
    /\ ToolGoes(IF Matches(tool.snapshot) THEN [tool EXCEPT !.step = "ok"] ELSE None)

Return == At("ok") /\ ToolGoes(None)

\* An I/O error, a sandbox or an rsync that fails: the tool returns an error,
\* and what was applied stays applied.
ToolFails == tool # None /\ tool.step # "ok" /\ ToolGoes(None)

\* The tool has compared p with what it expects there.
Compared(p) ==
    \/ At("write") /\ tool.path = p
    \/ At("validate") /\ p <= Len(tool.scan)
    \/ At("apply") \/ At("verify") \/ At("ok")

\* The user changes, makes or deletes a file.
Edit(p, version) ==
    /\ edits < MaxEdits /\ version # files[p]
    /\ edits' = edits + 1
    /\ files' = [files EXCEPT ![p] = version]
    /\ edited' = edited \cup {p}
    /\ foreign' = [g \in Groups |-> foreign[g] \cup (IF g \in writing THEN {p} ELSE {})]
    /\ touched' = IF tool = None THEN touched
                  ELSE [touched EXCEPT ![p] = IF Compared(p) THEN "after"
                                              ELSE IF @ = "after" THEN @ ELSE "before"]
    /\ UNCHANGED <<workerVars, state, journal, tool, readSet, calls, found>>

WorkerStep(e) ==
    \/ Enqueue(e) \/ Take(e) \/ Acquire(e) \/ EnterPhase(e) \/ Walk(e)
    \/ RecordCheckpoint(e) \/ CheckpointFails(e) \/ Begin(e) \/ Finish(e)

ToolCall(e) ==
    \/ \E p \in Paths : Read(e, p)
    \/ \E p \in Paths, x \in Versions, c \in Contents : CallWrite(e, p, x, c) \/ CallEdit(e, p, x, c)
    \/ CallBash(e)

ToolStep ==
    \/ EditReads \/ CheckVersion \/ WriteFile
    \/ \E upper \in Commands : RunCommand(upper)
    \/ ToolWalks \/ Snapshot \/ Validate
    \/ \E p \in Paths : Apply(p)
    \/ Verify \/ Return \/ ToolFails

Next ==
    \/ \E e \in Executions : WorkerStep(e) \/ ToolCall(e) \/ Cancel(e)
    \/ ToolStep
    \/ \E p \in Paths, v \in Versions : Edit(p, v)

Spec == Init /\ [][Next]_vars
-------------------------------------------------------------------------------
(* Properties. *)

\* conflicts_with
Conflicts(e) == {p \in Paths : readSet[e][p] # None /\ readSet[e][p] # files[p]}

\* What a reader has read stays true while it runs: no tool of any execution
\* changes a protected file beside it, only the user does (server.rs:944,
\* workspace.rs:18).
ReadersUndisturbed ==
    \A e \in Executions :
        place[e] = "running" /\ ModeOf[e] = "Read" => Conflicts(e) \subseteq edited

\* The checkpoint tells what a write phase found from what it did: as long as no
\* worker of the group was lost, a file a phase has changed is in a checkpoint
\* recorded before, as the phase found it, unless others changed it since the
\* phase began (server.rs:953).
CheckpointIsPhaseStart ==
    \A g \in Groups, p \in Paths :
        /\ found[g][p] # None
        /\ \A e \in Executions : GroupOf[e] = g => place[e] # "lost"
        => journal[g] # None /\ (journal[g][p] = found[g][p] \/ p \in foreign[g])

\* Whatever a tool replaces is the version it expects, or one that the user
\* wrote after the tool compared: a conflict that is there when the tool looks
\* is never overwritten (workspace_consistency.rs:213, transaction.rs:160).
OverwritesWhatItExpects ==
    [][\A p \in Paths :
          tool # None /\ edits' = edits /\ files'[p] # files[p] =>
              \/ files[p] = IF tool.step = "write" THEN tool.expected ELSE tool.base[p]
              \/ touched[p] = "after"]_vars

\* A command that is reported done has exactly its own effect: every file the
\* user left alone meanwhile is as the command left it, or as it was
\* (transaction.rs:186).
CommitIsExact ==
    At("ok") =>
        \A p \in Paths :
            touched[p] = "no" =>
                files[p] = IF tool.upper[p] = None THEN tool.base[p] ELSE tool.upper[p]
===============================================================================

--------------------------- MODULE ConductorRestart ---------------------------
(***************************************************************************)
(* Crash and restart of the conductor (load_or_new, persist_shared and     *)
(* begin_execution in server.rs, persistence.rs, main.rs), over the tree   *)
(* of ConductorRuntime.  Operations change the runtime in memory; the      *)
(* thread that ran one then saves the whole journal, in one step as far as *)
(* a crash can tell (a temporary file is renamed), and only then goes on.  *)
(*                                                                         *)
(* The journal is represented by the projection that replay makes of it:   *)
(* record_domain_event appends what the reducer accepted and nothing else  *)
(* (NoEventRefused in ConductorRuntime), so replay rebuilds the runtime as *)
(* it was when it was saved, but for what belongs to the process: the      *)
(* compiled configurations, the queue and the workers.  Turns of a session *)
(* are left to ConductorServer: what is queued may run.                    *)
(***************************************************************************)
EXTENDS ConductorRuntime

CONSTANTS Configurations,  \* what a start may find installed, workspace tools included
          MaxCrashes       \* bound: crashes in a behaviour

\* The built-in configuration has no tools, so no installed one equals it.
ASSUME RestartAssumption ==
    MaxCrashes \in Nat /\ "built-in" \notin Configurations /\ None \notin Configurations

VARIABLES phase,      \* where the process is
          installed,  \* the configuration that main compiles
          config,     \* the revisions: their fingerprints, and those that are bound
          saved,      \* the journal on disk: a set with one, or with none
          handling,   \* the request that the reader is at, or None
          worker,     \* worker[e]: where the worker that runs e is
          queued,     \* the executions that were enqueued in this process
          crashes,
          ran,        \* history: executions whose backend was started
          acked       \* history: executions the client was told of, and those that it was told are over

processVars == <<phase, config, handling, worker, queued>>
historyVars == <<ran, acked>>

restartVars == <<vars, processVars, installed, saved, crashes, historyVars>>

\* The phase is "down"; "loaded" once load_or_new has returned; "up";
\* "unrecovered" if load_or_new failed and "unconfigured" if the configuration
\* was not accepted.  A worker is "idle", "preparing", "begun", "running",
\* "calling" a tool, or "finished".

\* ConductorRuntime::new
Fresh == [executions |-> Empty, decisions |-> Empty, interfaces |-> Empty,
          causes |-> Empty, refused |-> FALSE]

BuiltIn == [prints |-> <<"built-in">>, bound |-> {1}]

NobodyWorks == [e \in Ids |-> "idle"]

RestartInit ==
    /\ Init
    /\ phase = "down"
    /\ installed \in Configurations
    /\ config = BuiltIn
    /\ saved = {}
    /\ handling = None /\ worker = NobodyWorks /\ queued = {}
    /\ crashes = 0
    /\ ran = {}
    /\ acked = [known |-> {}, over |-> {}]
-------------------------------------------------------------------------------
(* Starting. *)

\* The journal as it is saved
Journal(r, s, a, c) == [runtime |-> r, sessions |-> s, attempts |-> a, prints |-> c.prints]

\* persist_shared, of the runtime as it is now
Save == saved' = {Journal(runtime, sessions, attempts, config)}

\* Running invocations, which no backend can resume
NonResumable(r) ==
    {e \in Known(r) : StateOf(r, e) = "Running" /\ ~IsOrchestration(r, e)}

\* Mutant: executions that were running are left as they are.
InterruptNothing(r) == r

\* interrupt_non_resumable_executions: set_state of each, where no parent is an
\* orchestration that its refresh would change (NeedsDefinition below)
Interrupt(r) ==
    [r EXCEPT !.executions =
        [e \in Known(r) |-> IF e \in NonResumable(r)
                            THEN [r.executions[e] EXCEPT !.state = "Interrupted"]
                            ELSE r.executions[e]]]

\* refresh_orchestration needs the definition of a live orchestration, which is
\* in a compiled configuration; none is bound when a journal was restored.
NeedsDefinition(r) ==
    \E e \in NonResumable(r) :
        IsOrchestration(r, ParentOf(r, e)) /\ Live(r, ParentOf(r, e))

\* load_or_new without a journal
LoadNew ==
    /\ phase \notin {"loaded", "up"}
    /\ saved = {}
    /\ phase' = "loaded"
    /\ config' = BuiltIn
    /\ saved' = {Journal(Fresh, sessions, <<>>, BuiltIn)}
    /\ UNCHANGED <<vars, installed, handling, worker, queued, crashes, historyVars>>

\* load_or_new with a journal: restore, interrupt, save
Load ==
    /\ phase \notin {"loaded", "up"}
    /\ \E journal \in saved :
          IF NeedsDefinition(journal.runtime)
          THEN phase' = "unrecovered" /\ UNCHANGED <<vars, config, saved>>
          ELSE /\ phase' = "loaded"
               /\ runtime' = Interrupt(journal.runtime)
               /\ sessions' = journal.sessions
               /\ attempts' = journal.attempts
               /\ started' = {}
               /\ config' = [prints |-> journal.prints, bound |-> {}]
               /\ saved' = {Journal(runtime', sessions', attempts', config')}
    /\ UNCHANGED <<installed, handling, worker, queued, crashes, historyVars>>

\* reload_configuration: a new revision, recorded and bound
ReloadConfiguration(print) ==
    [prints |-> Append(config.prints, print),
     bound |-> config.bound \cup {Len(config.prints) + 1}]

\* bind_configuration_revision: only to what the revision was compiled from
Bindable(revision, print) ==
    revision \notin config.bound /\ config.prints[revision] = print

\* main: what is installed becomes a new revision beside a bound one, and must
\* be what an unbound one was compiled from.
Configure ==
    LET current == Len(config.prints) IN
    /\ phase = "loaded"
    /\ \/ /\ current \in config.bound
          /\ config' = ReloadConfiguration(installed)
          /\ phase' = "up"
       \/ /\ Bindable(current, installed)
          /\ config' = [config EXCEPT !.bound = @ \cup {current}]
          /\ phase' = "up"
       \/ /\ current \notin config.bound /\ ~Bindable(current, installed)
          /\ phase' = "unconfigured"
          /\ UNCHANGED config
    /\ UNCHANGED <<vars, installed, saved, handling, worker, queued, crashes, historyVars>>

\* The process ends, whatever it is doing; what is in memory is gone.
Crash ==
    /\ phase \in {"loaded", "up"}
    /\ crashes < MaxCrashes
    /\ crashes' = crashes + 1
    /\ phase' = "down"
    /\ runtime' = Fresh
    /\ sessions' = [s \in Sessions |-> "Active"]
    /\ attempts' = <<>> /\ started' = {}
    /\ config' = BuiltIn
    /\ handling' = None /\ worker' = NobodyWorks /\ queued' = {}
    /\ UNCHANGED <<installed, saved, historyVars>>

\* Between two starts the user edits the configuration, a skill or AGENTS.md.
Reinstall(c) ==
    /\ phase \notin {"loaded", "up"}
    /\ c # installed
    /\ installed' = c
    /\ UNCHANGED <<vars, processVars, saved, crashes, historyVars>>
-------------------------------------------------------------------------------
(* Running. *)

\* submit and start_callable, before the save
RequestStart(s) ==
    /\ phase = "up" /\ handling = None
    /\ Submit(s) \/ StartSessionOrchestration(s)
    /\ handling' = [request |-> "start", execution |-> NextId(runtime)]
    /\ UNCHANGED <<phase, config, worker, queued, installed, saved, crashes, ran, acked>>

\* cancel_execution, before the save; nothing changes if e has ended.
RequestCancel(e) ==
    /\ phase = "up" /\ handling = None
    /\ Live(runtime, e)
    /\ Cancel(e)
    /\ handling' = [request |-> "cancel", execution |-> e]
    /\ UNCHANGED <<phase, config, worker, queued, installed, saved, crashes, ran, acked>>

\* enqueue_pending_execution_group
EnqueueGroup(e) == queued' = queued \cup {f \in InGroup(GroupOf(e)) : Runnable(f)}

\* What the reply to the reader's request tells the client
Acknowledged ==
    LET e == handling.execution IN
    [acked EXCEPT !.known = @ \cup {<<e, runtime.executions[e].kind>>},
                  !.over = IF handling.request = "cancel" THEN @ \cup {e} ELSE @]

\* Mutant: the reply is sent before the journal is saved.
RespondUnsaved ==
    /\ phase = "up" /\ handling # None
    /\ acked' = Acknowledged
    /\ IF handling.request = "start" THEN EnqueueGroup(handling.execution) ELSE UNCHANGED queued
    /\ handling' = None
    /\ UNCHANGED <<vars, phase, config, worker, saved, installed, crashes, ran>>

\* The journal is saved, the client gets its reply, and what is pending is queued.
Respond ==
    /\ phase = "up" /\ handling # None
    /\ Save
    /\ acked' = Acknowledged
    /\ IF handling.request = "start" THEN EnqueueGroup(handling.execution) ELSE UNCHANGED queued
    /\ handling' = None
    /\ UNCHANGED <<vars, phase, config, worker, installed, crashes, ran>>

WorkerAt(e, place) == worker' = [worker EXCEPT ![e] = place]

\* A worker takes e from the queue: execute_execution.
TakeUp(e) ==
    /\ phase = "up" /\ e \in queued
    /\ Start(e)
    /\ WorkerAt(e, "preparing")
    /\ UNCHANGED <<phase, config, handling, queued, installed, saved, crashes, historyVars>>

\* The workspace checkpoint and the resolved route are saved before e begins.
SavePreparation(e) ==
    /\ phase = "up" /\ worker[e] = "preparing" /\ Live(runtime, e)
    /\ Save
    /\ UNCHANGED <<vars, processVars, installed, crashes, historyVars>>

\* begin_execution, or fail_shared_execution, before the save
BeginOrFail(e) ==
    /\ phase = "up" /\ worker[e] = "preparing"
    /\ \/ Begin(e) /\ WorkerAt(e, "begun")
       \/ FailPreparation(e) /\ WorkerAt(e, "finished")
    /\ UNCHANGED <<phase, config, handling, queued, installed, saved, crashes, ran, acked>>

\* e was cancelled while it was being prepared.
GiveUp(e) ==
    /\ phase = "up" /\ worker[e] = "preparing" /\ ~Live(runtime, e)
    /\ WorkerAt(e, "finished")
    /\ UNCHANGED <<vars, phase, config, handling, queued, installed, saved, crashes, historyVars>>

\* Mutant: the backend is started before Running is saved.
RunUnsaved(e) ==
    /\ phase = "up" /\ worker[e] = "begun"
    /\ WorkerAt(e, "running")
    /\ ran' = ran \cup {e}
    /\ UNCHANGED <<vars, phase, config, handling, queued, installed, saved, crashes, acked>>

\* The journal is saved, then the backend is started.
Run(e) ==
    /\ phase = "up" /\ worker[e] = "begun"
    /\ Save
    /\ WorkerAt(e, "running")
    /\ ran' = ran \cup {e}
    /\ UNCHANGED <<vars, phase, config, handling, queued, installed, crashes, acked>>

\* The backend emits an event or calls a tool, before the save: a tool may
\* start an orchestration, decide about a failure or leave the tree alone.
CallHost(e) ==
    /\ phase = "up" /\ worker[e] = "running"
    /\ StateOf(runtime, e) = "Running"
    /\ \/ StartOrchestration(e)
       \/ \E failed \in Known(runtime) : DecideFailure(e, failed)
       \/ UNCHANGED vars
    /\ WorkerAt(e, "calling")
    /\ UNCHANGED <<phase, config, handling, queued, installed, saved, crashes, ran, acked>>

HostReturns(e) ==
    /\ phase = "up" /\ worker[e] = "calling"
    /\ Save
    /\ WorkerAt(e, "running")
    /\ UNCHANGED <<vars, phase, config, handling, queued, installed, crashes, historyVars>>

\* The backend returns; a result that comes too late changes nothing.
BackendReturns(e) ==
    /\ phase = "up" /\ worker[e] = "running"
    /\ \/ \E outcome \in {"Completed", "Failed"} : Finish(e, outcome)
       \/ StateOf(runtime, e) # "Running" /\ UNCHANGED vars
    /\ WorkerAt(e, "finished")
    /\ UNCHANGED <<phase, config, handling, queued, installed, saved, crashes, ran, acked>>

\* The worker saves, enqueues what has become pending and is done with e.
WorkerDone(e) ==
    /\ phase = "up" /\ worker[e] = "finished"
    /\ Save
    /\ EnqueueGroup(e)
    /\ WorkerAt(e, "idle")
    /\ UNCHANGED <<vars, phase, config, handling, installed, crashes, historyVars>>

WorkerActs(e) ==
    \/ TakeUp(e) \/ BeginOrFail(e) \/ GiveUp(e) \/ Run(e) \/ HostReturns(e)
    \/ BackendReturns(e) \/ WorkerDone(e)

StartStep == LoadNew \/ Load \/ Configure

RestartNext ==
    \/ StartStep \/ Crash \/ Respond
    \/ \E c \in Configurations : Reinstall(c)
    \/ \E s \in Sessions : RequestStart(s)
    \/ \E e \in Known(runtime) :
          RequestCancel(e) \/ WorkerActs(e) \/ SavePreparation(e) \/ CallHost(e)

RestartSpec == RestartInit /\ [][RestartNext]_restartVars

-------------------------------------------------------------------------------
(* Properties. *)

\* What the client was told survives every crash: once the conductor is up
\* again, an acknowledged execution is there under its id, which nothing else
\* was given meanwhile, and a cancellation that was accepted holds
\* (server.rs:588, before the reply at 589).
AcknowledgedSurvives ==
    phase = "up" =>
        /\ \A a \in acked.known : a[1] \in Known(runtime) /\ runtime.executions[a[1]].kind = a[2]
        /\ \A e \in acked.over : ~Live(runtime, e)

\* No backend is started behind the journal's back: an execution that a backend
\* worked for, in this process or an earlier one, is never again Pending, so
\* its effects on the workspace are never taken for not having happened and it
\* is not run twice (begin_execution saves before it returns, server.rs:1219).
StartedIsRemembered ==
    phase = "up" => \A e \in ran : e \in Known(runtime) /\ StateOf(runtime, e) # "Pending"

\* An execution said to be Running has a worker: none is left over from a
\* process that died (interrupt_non_resumable_executions, server.rs:1499).
NothingRunsUnattended ==
    phase = "up" => \A e \in NonResumable(runtime) : worker[e] \in {"begun", "running", "calling"}

\* "Non-resumable active executions MUST become explicit Interrupted/failed
\* state" (spec/runtime-redesign-v1.md:528).  Violated: to interrupt the agent
\* of a running orchestration, load_or_new refreshes the orchestration, for
\* which no configuration is bound yet, and the conductor does not start.
RecoveryNeverRefused == phase # "unrecovered"

===============================================================================

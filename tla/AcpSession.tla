------------------------------- MODULE AcpSession -------------------------------
(***************************************************************************)
(* Turns on the ACP backend and their cancellation (phenix-backend-acp,    *)
(* lib.rs, as the workers and the reader of server.rs use it).  An agent   *)
(* is reached through a backend session: one per execution (open_session,  *)
(* routed targets) or one for all executions of a Phenix session           *)
(* (open_persistent_session, fixed targets), which siblings of one         *)
(* orchestration then use concurrently.                                    *)
(*                                                                         *)
(* A cancellation is asked for by the reader: it copies the live scopes,   *)
(* has the runtime cancel executions, and calls cancel on the copied       *)
(* scopes of those that are Cancelled, each under a lock of its own.  A    *)
(* fixed target is inherited, so the siblings' model is the same and only  *)
(* the tools of their requests differ.                                     *)
(***************************************************************************)
EXTENDS FiniteSets

CONSTANTS Executions,  \* sibling executions of one Phenix session
          None

ASSUME AcpAssumption ==
    None \notin Executions /\ IsFiniteSet(Executions)

\* Backend sessions, named by an execution when they belong to it.
Handles == Executions \cup {"shared"}

VARIABLES persistent, \* TRUE: the executions share one backend session
          thread,     \* thread[h]: the agent's thread behind h: none yet, alive or dead
          tools,      \* tools[h]: whose tools the session was opened with last
          requested,  \* the handles on which a cancellation is remembered
          signal,     \* signal[h]: the execution whose turn is armed on h, or None
          pc,         \* pc[e]: where the worker of execution e is
          state,      \* state[e]: the execution's state in the runtime
          scopes,     \* active_scopes
          given,      \* given[e]: whose tools e's command was sent with
          prompted,   \* executions whose prompt was sent
          inbox,      \* executions with a Cancel in their turn's channel
          told,       \* executions whose agent was sent session/cancel
          early,      \* those of them whose agent got it before their prompt
          result,     \* result[e]: what execute returned
          reader,     \* the reader's cancellation in progress
          asked       \* executions whose scope was asked to cancel

sessionVars == <<persistent, thread, tools, requested, signal>>  \* AcpPersistentSession, CancellationState
turnVars == <<given, prompted, inbox, told, early>>
runtimeVars == <<state, scopes>>
readerVars == <<reader, asked>>

vars == <<sessionVars, pc, runtimeVars, turnVars, result, readerVars>>

HandleOf(e) == IF persistent THEN "shared" ELSE e

\* "new" -> "opened" -> "scoped" -> "begun" -> "armed" -> "sent" -> "forwarding"
\* -> "prompting" -> "answered" -> "returned" -> "finished" -> "ended"
Places == {"new", "opened", "scoped", "begun", "armed", "sent", "forwarding",
           "prompting", "answered", "returned", "finished", "ended"}

States == {"Pending", "Running", "Completed", "Failed", "Cancelled"}

TypeOK ==
    /\ persistent \in BOOLEAN
    /\ thread \in [Handles -> {"none", "alive", "dead"}]
    /\ tools \in [Handles -> Executions \cup {None}]
    /\ requested \subseteq Handles
    /\ signal \in [Handles -> Executions \cup {None}]
    /\ pc \in [Executions -> Places]
    /\ state \in [Executions -> States]
    /\ given \in [Executions -> Executions \cup {None}]
    /\ prompted \subseteq Executions /\ inbox \subseteq Executions
    /\ told \subseteq Executions /\ early \subseteq told
    /\ result \in [Executions -> {"none", "ok", "error"}]
    /\ reader \in [pc : {"idle", "copied", "cancelling"},
                  active : SUBSET Executions, targets : SUBSET Executions]
    /\ asked \subseteq Executions
    /\ scopes = {e \in Executions : pc[e] \notin {"new", "opened", "ended"}}
    /\ \A e \in Executions : pc[e] = "ended" => state[e] \notin {"Pending", "Running"}

Init ==
    /\ persistent \in BOOLEAN
    /\ thread = [h \in Handles |-> "none"]
    /\ tools = [h \in Handles |-> None]
    /\ requested = {}
    /\ signal = [h \in Handles |-> None]
    /\ pc = [e \in Executions |-> "new"]
    /\ state = [e \in Executions |-> "Pending"]
    /\ scopes = {}
    /\ given = [e \in Executions |-> None]
    /\ prompted = {} /\ inbox = {} /\ told = {} /\ early = {}
    /\ result = [e \in Executions |-> "none"]
    /\ reader = [pc |-> "idle", active |-> {}, targets |-> {}]
    /\ asked = {}
-------------------------------------------------------------------------------
(* A worker: execute_model_execution around the backend session. *)

Goes(e, place) == pc' = [pc EXCEPT ![e] = place]

Returns(e, outcome) == result' = [result EXCEPT ![e] = outcome]

\* execute_execution finds e cancelled before it opened a session.
SkipCancelled(e) ==
    /\ pc[e] = "new"
    /\ state[e] = "Cancelled"
    /\ Goes(e, "ended")
    /\ UNCHANGED <<sessionVars, runtimeVars, turnVars, result, readerVars>>

\* open_session, or open_persistent_session: started once, then its tools are
\* replaced, whoever else is about to use them and however dead the agent is.
Open(e) ==
    LET h == HandleOf(e) IN
    /\ pc[e] = "new"
    /\ state[e] = "Pending"
    /\ thread' = [thread EXCEPT ![h] = IF @ = "none" THEN "alive" ELSE @]
    /\ tools' = [tools EXCEPT ![h] = e]
    /\ Goes(e, "opened")
    /\ UNCHANGED <<persistent, requested, signal, runtimeVars, turnVars, result, readerVars>>

\* The request is refused or the agent cannot be started: fail_shared_execution.
OpenFails(e) ==
    /\ pc[e] = "new"
    /\ state[e] = "Pending"
    /\ state' = [state EXCEPT ![e] = "Failed"]
    /\ Goes(e, "ended")
    /\ UNCHANGED <<sessionVars, scopes, turnVars, result, readerVars>>

InstallScope(e) ==
    /\ pc[e] = "opened"
    /\ scopes' = scopes \cup {e}
    /\ Goes(e, "scoped")
    /\ UNCHANGED <<sessionVars, state, turnVars, result, readerVars>>

\* begin_execution
Begin(e) ==
    /\ pc[e] = "scoped"
    /\ IF state[e] = "Pending"
       THEN state' = [state EXCEPT ![e] = "Running"] /\ Goes(e, "begun")
       ELSE Goes(e, "finished") /\ UNCHANGED state
    /\ UNCHANGED <<sessionVars, scopes, turnVars, result, readerVars>>

\* Mutant: a turn is armed although another one is.
ArmAnyway(e) ==
    /\ pc[e] = "begun"
    /\ signal' = [signal EXCEPT ![HandleOf(e)] = e]
    /\ Goes(e, "armed")
    /\ UNCHANGED <<persistent, thread, tools, requested, runtimeVars, turnVars, result, readerVars>>

\* arm_cancellation: refused while another turn is armed; a cancellation that
\* was asked for before ends the turn at once, with success.
Arm(e) ==
    LET h == HandleOf(e) IN
    /\ pc[e] = "begun"
    /\ \/ /\ signal[h] # None
          /\ Returns(e, "error") /\ Goes(e, "returned")
          /\ UNCHANGED <<requested, signal>>
       \/ /\ signal[h] = None /\ h \in requested
          /\ requested' = requested \ {h}
          /\ Returns(e, "ok") /\ Goes(e, "returned")
          /\ UNCHANGED signal
       \/ /\ signal[h] = None /\ h \notin requested
          /\ signal' = [signal EXCEPT ![h] = e]
          /\ Goes(e, "armed")
          /\ UNCHANGED <<requested, result>>
    /\ UNCHANGED <<persistent, thread, tools, runtimeVars, turnVars, readerVars>>

\* The tools are read and the command is sent; nobody may be there to take it.
Send(e) ==
    LET h == HandleOf(e) IN
    /\ pc[e] = "armed"
    /\ IF thread[h] = "alive"
       THEN given' = [given EXCEPT ![e] = tools[h]] /\ Goes(e, "sent") /\ UNCHANGED result
       ELSE Returns(e, "error") /\ Goes(e, "answered") /\ UNCHANGED given
    /\ UNCHANGED <<sessionVars, runtimeVars, prompted, inbox, told, early, readerVars>>

\* disarm_cancellation
Disarm(e) ==
    /\ pc[e] = "answered"
    /\ signal' = [signal EXCEPT ![HandleOf(e)] = None]
    /\ requested' = requested \ {HandleOf(e)}
    /\ Goes(e, "returned")
    /\ UNCHANGED <<persistent, thread, tools, runtimeVars, turnVars, result, readerVars>>

\* finish_model_execution
Finish(e) ==
    /\ pc[e] = "returned"
    /\ state' = [state EXCEPT ![e] =
                    IF @ # "Running" THEN @
                    ELSE IF result[e] = "ok" THEN "Completed" ELSE "Failed"]
    /\ Goes(e, "finished")
    /\ UNCHANGED <<sessionVars, scopes, turnVars, result, readerVars>>

\* Drop of LiveExecutionLease
DropScope(e) ==
    /\ pc[e] = "finished"
    /\ scopes' = scopes \ {e}
    /\ Goes(e, "ended")
    /\ UNCHANGED <<sessionVars, state, turnVars, result, readerVars>>
-------------------------------------------------------------------------------
(* The agent's thread: run_turn, or the loop of run_persistent_session. *)

\* The turn of e ends; an error ends a persistent session's thread with it.
Done(e, outcome) ==
    /\ Returns(e, outcome)
    /\ thread' = [thread EXCEPT ![HandleOf(e)] =
                     IF persistent /\ outcome = "error" THEN "dead" ELSE @]
    /\ Goes(e, "answered")
    /\ UNCHANGED <<persistent, tools, requested, signal>>

\* The agent is started, given a session, model and tools, and a thread is spawned
\* that forwards cancellations; or the agent cannot be set up.
SetUp(e) ==
    /\ pc[e] = "sent"
    /\ \/ Goes(e, "forwarding") /\ UNCHANGED <<sessionVars, result>>
       \/ Done(e, "error")
    /\ UNCHANGED <<runtimeVars, turnVars, readerVars>>

\* The prompt goes out.
Prompt(e) ==
    /\ pc[e] = "forwarding"
    /\ prompted' = prompted \cup {e}
    /\ Goes(e, "prompting")
    /\ UNCHANGED <<sessionVars, runtimeVars, given, inbox, told, early, result, readerVars>>

\* spawn_cancel_forwarder: session/cancel is sent to the agent by a thread of its
\* own, which does not wait for the prompt.
ForwardCancel(e) ==
    /\ pc[e] \in {"forwarding", "prompting"}
    /\ e \in inbox \ told
    /\ told' = told \cup {e}
    /\ early' = IF pc[e] = "forwarding" THEN early \cup {e} ELSE early
    /\ UNCHANGED <<sessionVars, pc, runtimeVars, given, prompted, inbox, result, readerVars>>

\* The agent answers the prompt, or fails.  A Cancel that the forwarder has yet
\* to take is sent all the same before the forwarder is joined.
Answer(e) ==
    /\ pc[e] = "prompting"
    /\ \E outcome \in {"ok", "error"} : Done(e, outcome)
    /\ told' = told \cup ({e} \cap inbox)
    /\ UNCHANGED <<runtimeVars, given, prompted, inbox, early, readerVars>>
-------------------------------------------------------------------------------
(* The reader: cancel_execution of one execution, or of their parent. *)

CopyScopes ==
    /\ reader.pc = "idle"
    /\ reader' = [reader EXCEPT !.pc = "copied", !.active = scopes]
    /\ UNCHANGED <<sessionVars, pc, runtimeVars, turnVars, result, asked>>

\* state after the executions in C are cancelled in the runtime
AfterCancel(C) ==
    [e \in Executions |-> IF e \in C /\ state[e] \in {"Pending", "Running"} THEN "Cancelled"
                          ELSE state[e]]

\* Mutant: every scope that was copied is told, whatever its execution's state.
CancelInRuntimeTellingAll(C) ==
    /\ reader.pc = "copied"
    /\ state' = AfterCancel(C)
    /\ reader' = [reader EXCEPT !.pc = "cancelling", !.targets = reader.active]
    /\ UNCHANGED <<sessionVars, pc, scopes, turnVars, result, asked>>

CancelInRuntime(C) ==
    /\ reader.pc = "copied"
    /\ state' = AfterCancel(C)
    /\ reader' = [reader EXCEPT !.pc = "cancelling",
                      !.targets = {e \in reader.active : AfterCancel(C)[e] = "Cancelled"}]
    /\ UNCHANGED <<sessionVars, pc, scopes, turnVars, result, asked>>

\* Mutant: a cancellation that finds no turn armed is not remembered.
RequestWithoutLatch(e) ==
    /\ reader.pc = "cancelling"
    /\ e \in reader.targets
    /\ inbox' = inbox \cup ({signal[HandleOf(e)]} \ {None})
    /\ reader' = [reader EXCEPT !.targets = @ \ {e}]
    /\ asked' = asked \cup {e}
    /\ UNCHANGED <<sessionVars, pc, runtimeVars, given, prompted, told, early, result>>

\* request_cancellation on the backend session of e: it is remembered, and
\* the turn that is armed, whosever it is, is signalled.
RequestCancellation(e) ==
    /\ reader.pc = "cancelling"
    /\ e \in reader.targets
    /\ requested' = requested \cup {HandleOf(e)}
    /\ inbox' = inbox \cup ({signal[HandleOf(e)]} \ {None})
    /\ reader' = [reader EXCEPT !.targets = @ \ {e}]
    /\ asked' = asked \cup {e}
    /\ UNCHANGED <<persistent, thread, tools, signal, pc, runtimeVars, given, prompted, told, early, result>>

CancelDone ==
    /\ reader.pc = "cancelling"
    /\ reader.targets = {}
    /\ reader' = [reader EXCEPT !.pc = "idle", !.active = {}]
    /\ UNCHANGED <<sessionVars, pc, runtimeVars, turnVars, result, asked>>

\* What the worker and the agent's thread do by themselves.
WorkerStep(e) ==
    \/ SkipCancelled(e) \/ Open(e) \/ OpenFails(e) \/ InstallScope(e) \/ Begin(e)
    \/ Arm(e) \/ Send(e) \/ Disarm(e) \/ Finish(e) \/ DropScope(e)
    \/ SetUp(e) \/ Prompt(e) \/ ForwardCancel(e)

ReaderStep ==
    \/ \E C \in {{e} : e \in Executions} \cup {Executions} : CancelInRuntime(C)
    \/ \E e \in Executions : RequestCancellation(e)
    \/ CancelDone

Next ==
    \/ \E e \in Executions : WorkerStep(e) \/ Answer(e)
    \/ CopyScopes
    \/ ReaderStep

Spec == Init /\ [][Next]_vars

\* Threads go on, and agents answer the requests that set them up.  An agent may
\* think about a prompt forever, but one that it is told to cancel while it does is
\* answered (the protocol's session/cancel).  A session/cancel that comes before
\* the prompt finds nothing to cancel.
Fairness ==
    /\ WF_vars(ReaderStep)
    /\ \A e \in Executions :
          WF_vars(WorkerStep(e)) /\ WF_vars(e \in told \ early /\ Answer(e))

FairSpec == Spec /\ Fairness
-------------------------------------------------------------------------------
(* Properties. *)

CompletedWasPrompted ==
    \A e \in Executions : state[e] = "Completed" => e \in prompted

OnlyCancelledAreTold ==
    \A e \in Executions : e \in told => state[e] = "Cancelled"

\* With a backend session of its own, an execution is Completed only if its prompt
\* was sent, since a cancellation that ends a turn at once, with success, ends none
\* that was not cancelled; and its agent is told to cancel only if it was
\* cancelled ("cancelling a child does not imply cancelling unrelated siblings",
\* spec/runtime-redesign-v1.md:552).
CancelsOnlyItsOwn == ~persistent => CompletedWasPrompted /\ OnlyCancelledAreTold

\* One prompt at a time on a backend session, also when executions that found
\* it busy, or cancelled, have given up on it.
OneTurnAtATime ==
    \A e, f \in Executions :
        /\ e # f /\ HandleOf(e) = HandleOf(f)
        /\ pc[e] \in {"armed", "sent", "forwarding", "prompting", "answered"}
        => pc[f] \notin {"armed", "sent", "forwarding", "prompting", "answered"}

\* A cancellation came before e began, or has e's scope on its list or told it.
Reached(e) ==
    /\ state[e] = "Cancelled"
    /\ pc[e] \in {"new", "opened", "scoped"} \/ e \in reader.targets \cup asked

\* With a backend session of its own, an execution that a cancellation reached has
\* its worker come to an end, however early or late it met the turn (test
\* cancel_before_execute_is_latched), unless session/cancel overtook the prompt.
CancellationEndsTurn ==
    \A e \in Executions : ~persistent /\ Reached(e) ~> pc[e] = "ended" \/ e \in early
===============================================================================

---------------------------- MODULE ConductorServer ----------------------------
(***************************************************************************)
(* The conductor's server (server.rs): the reader that handles client      *)
(* messages, the execution queue and the workers, over the execution tree  *)
(* of ConductorRuntime.  One action is one critical section of a thread:   *)
(* the runtime's mutex and the queue's are different, so what a thread     *)
(* reads from the tree may be stale when it tells the queue.               *)
(*                                                                         *)
(* Leases, backends and the journal are passed over: a worker that waits   *)
(* for a lease or for its backend stays where it is, and a write of the    *)
(* journal or a checkpoint that fails is an error of the thread.           *)
(***************************************************************************)
EXTENDS ConductorRuntime

CONSTANTS Workers,            \* EXECUTION_WORKERS threads
          MaxOrchestrations,  \* bound: orchestrations started
          MaxErrors           \* bound: threads that end with an error

ASSUME ServerAssumption ==
    /\ IsFiniteSet(Workers) /\ "reader" \notin Workers
    /\ MaxOrchestrations \in Nat /\ MaxErrors \in Nat

VARIABLES queue,   \* ExecutionQueueState
          pc,      \* pc[w]: where worker w is in execution_loop
          job,     \* job[w]: the job it runs, or None
          reader,  \* where the reader is
          todo,    \* todo[t]: jobs that thread t found pending and has yet to enqueue
          quiet    \* quiet[w]: what w read of its group's quiescence

serverVars == <<queue, pc, job, reader, todo, quiet>>

allVars == <<vars, serverVars>>

Threads == Workers \cup {"reader"}

\* pc[w] is "next" or "waiting" in ExecutionQueue::next, "taken" before the
\* state of the job's execution is looked at, "started" while it is prepared,
\* "running" while its backend works, "finished", "enqueuing" what has become
\* pending, "completing", "failing" after an error, "exited" and "dead" at the
\* end.

Q == INSTANCE ExecutionQueueState WITH Executions <- Ids

ServerInit ==
    /\ Init
    /\ queue = Q!EmptyQueue
    /\ pc = [w \in Workers |-> "next"]
    /\ job = [w \in Workers |-> None]
    /\ reader = [pc |-> "reading", group |-> None]
    /\ todo = [t \in Threads |-> <<>>]
    /\ quiet = [w \in Workers |-> FALSE]
-------------------------------------------------------------------------------
(* What the server reads of the tree. *)

JobOf(e) == [execution |-> e, session |-> runtime.executions[e].session, group |-> GroupOf(e)]

\* pending_execution_jobs
PendingJobs(g) ==
    LET ids == InIdOrder({e \in InGroup(g) : Runnable(e)})
    IN [i \in DOMAIN ids |-> JobOf(ids[i])]

\* execution_group_quiescent
Quiescent(g) ==
    \A e \in InGroup(g) : StateOf(runtime, e) # "Running" /\ ~Runnable(e)

RoomForOrchestration ==
    Cardinality({e \in Known(runtime) : IsOrchestration(runtime, e)}) < MaxOrchestrations

\* Condvar::notify_all
Notified == [w \in Workers |-> IF pc[w] = "waiting" THEN "next" ELSE pc[w]]
-------------------------------------------------------------------------------
(* The reader. *)

\* submit and start_callable: the execution is created ...
Request(s) ==
    /\ reader.pc = "reading"
    /\ Submit(s) \/ (RoomForOrchestration /\ StartSessionOrchestration(s))
    /\ reader' = [pc |-> "submitted", group |-> NextId(runtime)]
    /\ UNCHANGED <<queue, pc, job, todo, quiet>>

\* ... and what is pending of it is collected, then enqueued job by job.
Collect ==
    /\ reader.pc = "submitted"
    /\ todo' = [todo EXCEPT !["reader"] = PendingJobs(reader.group)]
    /\ reader' = [pc |-> "enqueuing", group |-> None]
    /\ UNCHANGED <<vars, queue, pc, job, quiet>>

\* ExecutionQueue::enqueue of thread t's next job
EnqueueNext(t) ==
    /\ todo[t] # <<>>
    /\ queue' = Q!Enqueued(queue, Head(todo[t]))
    /\ pc' = IF queue' = queue THEN pc ELSE Notified
    /\ todo' = [todo EXCEPT ![t] = Tail(@)]

ReaderEnqueues ==
    /\ reader.pc = "enqueuing"
    /\ IF todo["reader"] = <<>>
       THEN /\ reader' = [reader EXCEPT !.pc = "reading"]
            /\ UNCHANGED <<queue, pc, todo>>
       ELSE EnqueueNext("reader") /\ UNCHANGED reader
    /\ UNCHANGED <<vars, job, quiet>>

\* cancel_execution, as far as it changes the tree
ClientCancels(e) ==
    /\ reader.pc = "reading"
    /\ Cancel(e)
    /\ UNCHANGED serverVars

ClientCloses(s) ==
    /\ reader.pc = "reading"
    /\ CloseSession(s)
    /\ UNCHANGED serverVars

\* Mutant: the workers are not told that the input has ended.
InputEndsSilently ==
    /\ reader.pc = "reading"
    /\ reader' = [reader EXCEPT !.pc = "ended"]
    /\ queue' = Q!Closed(queue)
    /\ UNCHANGED <<vars, pc, job, todo, quiet>>

\* The errors so far: workers that ended, and a reader that left a request.
Errors ==
    Cardinality({w \in Workers : pc[w] \in {"failing", "dead"}}
                \cup {r \in {reader} : r.pc = "ended" /\ r.group # None})

\* The new execution cannot be written to the journal: the reader ends.
RequestFails ==
    /\ reader.pc = "submitted"
    /\ Errors < MaxErrors
    /\ reader' = [reader EXCEPT !.pc = "ended"]
    /\ queue' = Q!Closed(queue)
    /\ pc' = Notified
    /\ UNCHANGED <<vars, job, todo, quiet>>

\* The input ends: ExecutionQueue::close.
InputEnds ==
    /\ reader.pc = "reading"
    /\ reader' = [reader EXCEPT !.pc = "ended"]
    /\ queue' = Q!Closed(queue)
    /\ pc' = Notified
    /\ UNCHANGED <<vars, job, todo, quiet>>
-------------------------------------------------------------------------------
(* A worker: execution_loop and execute_execution. *)

\* Worker w goes on to place, changing nothing but the tree.
Goes(w, place) ==
    /\ pc' = [pc EXCEPT ![w] = place]
    /\ UNCHANGED <<queue, job, reader, todo, quiet>>

\* Worker w writes the journal (persist_shared) and goes on, or has an error.
Persists(w, place) ==
    \/ Goes(w, place)
    \/ Errors < MaxErrors /\ Goes(w, "failing")

Take(w) ==
    /\ pc[w] = "next"
    /\ \E i \in DOMAIN queue.pending :
          /\ Q!FirstEligible(queue, i)
          /\ queue' = Q!Taken(queue, i)
          /\ job' = [job EXCEPT ![w] = queue.pending[i]]
    /\ pc' = [pc EXCEPT ![w] = "taken"]
    /\ UNCHANGED <<vars, reader, todo, quiet>>

Wait(w) ==
    /\ pc[w] = "next"
    /\ Q!NothingEligible(queue)
    /\ Goes(w, IF Q!Drained(queue) THEN "exited" ELSE "waiting")
    /\ UNCHANGED vars

\* The execution is looked at: taken up, or skipped if it may not run any more.
StartJob(w) ==
    LET e == job[w].execution IN
    /\ pc[w] = "taken"
    /\ \/ Start(e) /\ Goes(w, "started")
       \/ ~Runnable(e) /\ Goes(w, "finished") /\ UNCHANGED vars

\* It is prepared and begun, or fails in preparation, or was cancelled meanwhile.
BeginJob(w) ==
    LET e == job[w].execution IN
    /\ pc[w] = "started"
    /\ \/ Begin(e) /\ Persists(w, "running")
       \/ FailPreparation(e) /\ Persists(w, "finished")
       \/ ~Live(runtime, e) /\ Persists(w, "finished") /\ UNCHANGED vars

\* The semantic tools a backend may call while its execution runs.
CallTool(w) ==
    LET e == job[w].execution IN
    /\ pc[w] = "running"
    /\ \/ RoomForOrchestration /\ StartOrchestration(e)
       \/ \E failed \in Known(runtime) : DecideFailure(e, failed)
    /\ UNCHANGED serverVars

\* The backend returns; its result is dropped if e was cancelled meanwhile.
FinishJob(w) ==
    LET e == job[w].execution IN
    /\ pc[w] = "running"
    /\ \/ \E outcome \in {"Completed", "Failed"} : Finish(e, outcome)
       \/ StateOf(runtime, e) # "Running" /\ UNCHANGED vars
    /\ Persists(w, "finished")

\* Mutant: a worker enqueues nothing but goes straight to the release.
CollectNothing(w) ==
    /\ pc[w] = "finished"
    /\ pc' = [pc EXCEPT ![w] = "enqueuing"]
    /\ UNCHANGED <<vars, queue, job, reader, todo, quiet>>

\* enqueue_pending_execution_group: the pending jobs of the group ...
CollectGroup(w) ==
    /\ pc[w] = "finished"
    /\ todo' = [todo EXCEPT ![w] = PendingJobs(job[w].group)]
    /\ pc' = [pc EXCEPT ![w] = "enqueuing"]
    /\ UNCHANGED <<vars, queue, job, reader, quiet>>

\* ... are enqueued one by one.
WorkerEnqueues(w) ==
    /\ pc[w] = "enqueuing"
    /\ EnqueueNext(w)
    /\ UNCHANGED <<vars, job, reader, quiet>>

\* execution_group_quiescent
ReadQuiescence(w) ==
    /\ pc[w] = "enqueuing"
    /\ todo[w] = <<>>
    /\ quiet' = [quiet EXCEPT ![w] = Quiescent(job[w].group)]
    /\ pc' = [pc EXCEPT ![w] = "completing"]
    /\ UNCHANGED <<vars, queue, job, reader, todo>>

\* Mutant: the group is kept until a worker that read it quiescent leaves last.
CompleteWithoutMemory(w) ==
    /\ pc[w] = "completing"
    /\ queue' = [Q!Completed(queue, job[w], quiet[w]) EXCEPT !.releasing_groups = {}]
    /\ job' = [job EXCEPT ![w] = None]
    /\ quiet' = [quiet EXCEPT ![w] = FALSE]
    /\ pc' = [Notified EXCEPT ![w] = "next"]
    /\ UNCHANGED <<vars, reader, todo>>

\* ExecutionQueue::complete, with what was read before
CompleteJob(w) ==
    /\ pc[w] = "completing"
    /\ queue' = Q!Completed(queue, job[w], quiet[w])
    /\ job' = [job EXCEPT ![w] = None]
    /\ quiet' = [quiet EXCEPT ![w] = FALSE]
    /\ pc' = [Notified EXCEPT ![w] = "next"]
    /\ UNCHANGED <<vars, reader, todo>>

\* execute_execution gives up on its checkpoint or its routing record.
JobError(w) ==
    /\ pc[w] = "started"
    /\ Errors < MaxErrors
    /\ Goes(w, "failing")
    /\ UNCHANGED vars

\* After an error what became pending is not enqueued, the group is released
\* whatever its state, and the worker ends.
CompleteFailed(w) ==
    /\ pc[w] = "failing"
    /\ queue' = Q!Completed(queue, job[w], TRUE)
    /\ job' = [job EXCEPT ![w] = None]
    /\ pc' = [Notified EXCEPT ![w] = "dead"]
    /\ UNCHANGED <<vars, reader, todo, quiet>>

\* The steps a worker takes by itself, its backend's return included.
WorkerStep(w) ==
    \/ Take(w) \/ Wait(w) \/ StartJob(w) \/ BeginJob(w) \/ FinishJob(w)
    \/ CollectGroup(w) \/ WorkerEnqueues(w) \/ ReadQuiescence(w) \/ CompleteJob(w)
    \/ CompleteFailed(w)

ReaderStep == Collect \/ ReaderEnqueues

ServerNext ==
    \/ \E s \in Sessions : Request(s) \/ ClientCloses(s)
    \/ \E e \in Known(runtime) : ClientCancels(e)
    \/ ReaderStep
    \/ InputEnds
    \/ RequestFails
    \/ \E w \in Workers : WorkerStep(w) \/ CallTool(w) \/ JobError(w)

ServerSpec == ServerInit /\ [][ServerNext]_allVars

\* Every thread that can go on does, and backends return.  Clients, tool calls
\* and errors are not forced.
ServerFairness ==
    /\ WF_allVars(ReaderStep)
    /\ \A w \in Workers : WF_allVars(WorkerStep(w))

FairServerSpec == ServerSpec /\ ServerFairness
-------------------------------------------------------------------------------
(* Properties. *)

\* A worker stands by e: it will look for pending jobs of e's group again, or
\* has e in hand.
AttendedBy(w, e) ==
    /\ pc[w] \in {"taken", "started", "running", "finished"}
    /\ job[w].group = GroupOf(e)

\* Nothing runnable is forgotten: a pending execution that may run is queued,
\* about to be queued, or belongs to a group that some thread will collect
\* from.  (The tree says Pending under one mutex, the queue learns of it under
\* another, later; server.rs:777.)
NothingForgotten ==
    \A e \in Known(runtime) : Runnable(e) =>
        \/ \E i \in DOMAIN queue.pending : queue.pending[i].execution = e
        \/ \E t \in Threads : \E i \in DOMAIN todo[t] : todo[t][i].execution = e
        \/ \E w \in Workers : AttendedBy(w, e)
        \/ reader.pc = "submitted" /\ reader.group = GroupOf(e)

\* A session goes on to its next group only when the last has come to rest and
\* will stay so, although that was read earlier, perhaps by another worker, and
\* under another mutex (server.rs:777).
TurnEndsAtRest ==
    [][\A s \in Sessions :
        LET g == queue.active_sessions[s] IN
        g # None /\ queue'.active_sessions[s] # g =>
            \A e \in InGroup(g) :
                \/ ~Live(runtime, e)
                \/ /\ StateOf(runtime, e) = "Pending" /\ HasBlockingAncestor(e)
                   /\ \A w \in Workers : job'[w] # None => job'[w].execution # e]_allVars

\* Whatever may run is run, skipped or cancelled in the end, unless a thread is
\* lost to an error.  (What has run may not run again, and a behaviour has
\* finitely many executions: none of them waits for ever.)
EveryExecutionServed ==
    (\E e \in Known(runtime) : Runnable(e))
        ~> (Errors > 0 \/ \A e \in Known(runtime) : ~Runnable(e))

\* Once the input has ended the server comes to an end: all workers leave.
ShutdownCompletes ==
    reader.pc = "ended" ~> \A w \in Workers : pc[w] \in {"exited", "dead"}
===============================================================================

---------------------------- MODULE ExecutionQueue ----------------------------
(***************************************************************************)
(* The execution queue and the workers that wait on its condition variable *)
(* (ExecutionQueue and execution_loop in server.rs).  What a job does is   *)
(* left open here (ConductorServer fills it in): the reader and the        *)
(* workers that run jobs enqueue jobs when they like, and a worker decides *)
(* freely whether its job's group is to be released.                       *)
(***************************************************************************)
EXTENDS ExecutionQueueState

CONSTANTS Jobs,    \* the job of each execution
          Workers  \* EXECUTION_WORKERS threads

\* An execution has one job, and a group belongs to one session.
ASSUME JobsAssumption ==
    /\ Jobs \subseteq JobRecords
    /\ \A j, k \in Jobs : j.execution = k.execution => j = k
    /\ \A j, k \in Jobs : j.group = k.group => j.session = k.session
    /\ None \notin Executions
    /\ None \notin Jobs

ASSUME WorkersAssumption == IsFiniteSet(Workers)

VARIABLES queue,  \* ExecutionQueueState
          pc,     \* pc[w]: where worker w is
          job     \* job[w]: the job worker w runs, or None

vars == <<queue, pc, job>>

\* "next": about to examine the queue under the mutex; "waiting": inside
\* Condvar::wait; "busy": running a job; "exited": the loop has ended.
Places == {"next", "waiting", "busy", "exited"}

TypeOK ==
    /\ queue \in QueueRecords
    /\ pc \in [Workers -> Places]
    /\ job \in [Workers -> Jobs \cup {None}]
    /\ \A w \in Workers : pc[w] = "busy" <=> job[w] # None
    /\ \A i \in DOMAIN queue.pending : queue.pending[i] \in Jobs

Init ==
    /\ queue = EmptyQueue
    /\ pc = [w \in Workers |-> "next"]
    /\ job = [w \in Workers |-> None]

\* Condvar::notify_all
NotifyAll == [w \in Workers |-> IF pc[w] = "waiting" THEN "next" ELSE pc[w]]

\* Mutant: the waiters are not told of a new job.
EnqueueSilently(j) ==
    /\ queue' = Enqueued(queue, j)
    /\ UNCHANGED <<pc, job>>

\* enqueue, called by the reader until the input ends and by busy workers.
Enqueue(j) ==
    /\ ~queue.closed \/ \E w \in Workers : pc[w] = "busy"
    /\ queue' = Enqueued(queue, j)
    /\ pc' = IF queue' = queue THEN pc ELSE NotifyAll
    /\ UNCHANGED job

\* next() finds a job
Take(w, i) ==
    /\ pc[w] = "next"
    /\ FirstEligible(queue, i)
    /\ queue' = Taken(queue, i)
    /\ pc' = [pc EXCEPT ![w] = "busy"]
    /\ job' = [job EXCEPT ![w] = queue.pending[i]]

\* next() ends the worker's loop
Exit(w) ==
    /\ pc[w] = "next"
    /\ NothingEligible(queue)
    /\ Drained(queue)
    /\ pc' = [pc EXCEPT ![w] = "exited"]
    /\ UNCHANGED <<queue, job>>

\* next() waits
Wait(w) ==
    /\ pc[w] = "next"
    /\ NothingEligible(queue)
    /\ ~Drained(queue)
    /\ pc' = [pc EXCEPT ![w] = "waiting"]
    /\ UNCHANGED <<queue, job>>

\* complete(), after which the loop calls next() again
Complete(w, release) ==
    /\ pc[w] = "busy"
    /\ queue' = Completed(queue, job[w], release)
    /\ pc' = [NotifyAll EXCEPT ![w] = "next"]
    /\ job' = [job EXCEPT ![w] = None]

\* complete() after an error, which ends the worker; the group is released.
CompleteFailed(w) ==
    /\ pc[w] = "busy"
    /\ queue' = Completed(queue, job[w], TRUE)
    /\ pc' = [NotifyAll EXCEPT ![w] = "exited"]
    /\ job' = [job EXCEPT ![w] = None]

\* close(), when the input ends
Close ==
    /\ ~queue.closed
    /\ queue' = Closed(queue)
    /\ pc' = NotifyAll
    /\ UNCHANGED job

\* A condition variable may wake a waiter without a notification.
SpuriousWakeup(w) ==
    /\ pc[w] = "waiting"
    /\ pc' = [pc EXCEPT ![w] = "next"]
    /\ UNCHANGED <<queue, job>>

Next ==
    \/ \E j \in Jobs : Enqueue(j)
    \/ \E w \in Workers :
          \/ \E i \in DOMAIN queue.pending : Take(w, i)
          \/ Exit(w)
          \/ Wait(w)
          \/ \E release \in BOOLEAN : Complete(w, release)
          \/ CompleteFailed(w)
          \/ SpuriousWakeup(w)
    \/ Close

Spec == Init /\ [][Next]_vars
-------------------------------------------------------------------------------
Busy(w) == pc[w] = "busy"

\* Two workers busy for one session work on the same group: a session never
\* runs two of its top-level executions at once, even while one of them is
\* being released by a worker and joined by another (server.rs:169).
SessionExclusive ==
    \A v, w \in Workers :
        Busy(v) /\ Busy(w) /\ job[v].session = job[w].session =>
            job[v].group = job[w].group

\* An execution is handed to a worker at most once: no job is pending twice,
\* pending and taken, or held by two workers.
HandedOutOnce ==
    /\ \A i, k \in DOMAIN queue.pending : i # k => queue.pending[i] # queue.pending[k]
    /\ \A w \in Workers, i \in DOMAIN queue.pending : Busy(w) => queue.pending[i] # job[w]
    /\ \A v, w \in Workers : v # w /\ Busy(v) => job[v] # job[w]
    /\ \A w \in Workers : Busy(w) => job[w].execution \in queue.scheduled
    /\ \A i \in DOMAIN queue.pending : queue.pending[i].execution \in queue.scheduled

\* No wakeup is lost: a worker asleep in next() has nothing to take and no
\* reason to leave.
NoLostWakeup ==
    \A w \in Workers : pc[w] = "waiting" => NothingEligible(queue) /\ ~Drained(queue)

\* The counter of a group is the number of workers that run its jobs, and the
\* session of a running job is its group's: what makes SessionExclusive
\* inductive.
BusyFor(g) == {w \in Workers : Busy(w) /\ job[w].group = g}

CountsBusy == \A g \in Executions : queue.active_groups[g] = Cardinality(BusyFor(g))

TurnOfBusy == \A w \in Workers : Busy(w) => queue.active_sessions[job[w].session] = job[w].group
-------------------------------------------------------------------------------
\* Does the i-th job of a list begin a group that waits for a turn in session s,
\* whose turn is now turn's?  A group waits where its first job is.
Waits(jobs, turn, s, i) ==
    /\ jobs[i].session = s
    /\ jobs[i].group # turn
    /\ \A k \in 1 .. i - 1 : jobs[k].group # jobs[i].group

\* The groups of a list of jobs that wait for a turn in session s, in order.
GroupsWaiting(jobs, turn, s) ==
    LET upTo[n \in 0 .. Len(jobs)] ==
            IF n = 0 THEN <<>>
            ELSE IF Waits(jobs, turn, s, n) THEN Append(upTo[n - 1], jobs[n].group)
                 ELSE upTo[n - 1]
    IN upTo[Len(jobs)]

WaitingGroups(s) == GroupsWaiting(queue.pending, queue.active_sessions[s], s)

Turns == INSTANCE SessionTurns
    WITH Groups <- Executions,
         turn <- queue.active_sessions,
         waiting <- [s \in Sessions |-> WaitingGroups(s)]

\* The queue implements turns in order of arrival, session by session.
ImplementsSessionTurns == Turns!Spec
===============================================================================

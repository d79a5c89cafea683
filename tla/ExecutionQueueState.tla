-------------------------- MODULE ExecutionQueueState --------------------------
(***************************************************************************)
(* The data behind the mutex of the execution queue (ExecutionQueueState   *)
(* and ExecutionJob in server.rs) and what each critical section does to   *)
(* it, as functions from queue to queue.  The entries that BTreeMap lacks  *)
(* are None in active_sessions and 0 in active_groups.                     *)
(***************************************************************************)
EXTENDS Naturals, Sequences, SequencesExt

CONSTANTS Executions,  \* execution ids; the id of a group is that of its top-level execution
          Sessions,    \* session ids
          None

\* ExecutionJob
JobRecords == [execution : Executions, session : Sessions, group : Executions]

\* ExecutionQueueState
QueueRecords ==
    [pending : Seq(JobRecords),
     active_sessions : [Sessions -> Executions \cup {None}],
     active_groups : [Executions -> Nat],
     scheduled : SUBSET Executions,
     releasing_groups : SUBSET Executions,
     closed : BOOLEAN]

EmptyQueue ==
    [pending |-> <<>>,
     active_sessions |-> [s \in Sessions |-> None],
     active_groups |-> [g \in Executions |-> 0],
     scheduled |-> {},
     releasing_groups |-> {},
     closed |-> FALSE]
-------------------------------------------------------------------------------
\* Mutant: an execution may be enqueued again once its job was taken.
EnqueuedUnlessPending(q, job) ==
    IF \E i \in DOMAIN q.pending : q.pending[i] = job THEN q
    ELSE [q EXCEPT !.scheduled = @ \cup {job.execution}, !.pending = Append(@, job)]

\* ExecutionQueue::enqueue: an execution is scheduled at most once.
Enqueued(q, job) ==
    IF job.execution \in q.scheduled THEN q
    ELSE [q EXCEPT !.scheduled = @ \cup {job.execution}, !.pending = Append(@, job)]

\* May job run now?  Its session is idle or works on the same group.
Eligible(q, job) == q.active_sessions[job.session] \in {None, job.group}

\* Mutant: any job that may run is as good as the first.
AnyEligible(q, i) == i \in DOMAIN q.pending /\ Eligible(q, q.pending[i])

\* The index of the job that next() returns, if there is one.
FirstEligible(q, i) ==
    /\ i \in DOMAIN q.pending
    /\ Eligible(q, q.pending[i])
    /\ \A k \in 1 .. i - 1 : ~Eligible(q, q.pending[k])

NothingEligible(q) == \A i \in DOMAIN q.pending : ~Eligible(q, q.pending[i])

\* next(), returning the job at index i
Taken(q, i) ==
    LET job == q.pending[i] IN
    [q EXCEPT !.pending = RemoveAt(@, i),
              !.active_sessions[job.session] = IF @ = None THEN job.group ELSE @,
              !.active_groups[job.group] = @ + 1]

\* next(), returning None
Drained(q) ==
    /\ q.closed
    /\ q.pending = <<>>
    /\ \A g \in Executions : q.active_groups[g] = 0

\* Mutant: a group is released while its other jobs run.
ReleasesEarly(q, job) ==
    /\ job.group \in q.releasing_groups
    /\ \A i \in DOMAIN q.pending : q.pending[i].group # job.group
    /\ q.active_sessions[job.session] = job.group

\* Mutant: a group is released as soon as none of its jobs runs.
ReleasesWhenIdle(q, job) ==
    /\ q.active_groups[job.group] = 0
    /\ q.active_sessions[job.session] = job.group

\* Does the end of job end its group's hold on the session?
Releases(q, job) ==
    /\ job.group \in q.releasing_groups
    /\ q.active_groups[job.group] = 0
    /\ \A i \in DOMAIN q.pending : q.pending[i].group # job.group
    /\ q.active_sessions[job.session] = job.group

\* The first half of complete(): the job is counted out of its group.
CountedOut(q, job, release) ==
    [q EXCEPT !.releasing_groups = IF release THEN @ \cup {job.group} ELSE @,
              !.active_groups[job.group] = @ - 1]

\* complete()
Completed(q, job, release) ==
    LET counted == CountedOut(q, job, release) IN
    IF Releases(counted, job)
    THEN [counted EXCEPT !.active_sessions[job.session] = None,
                         !.releasing_groups = @ \ {job.group}]
    ELSE counted

\* close()
Closed(q) == [q EXCEPT !.closed = TRUE]
===============================================================================

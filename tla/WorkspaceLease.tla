---------------------------- MODULE WorkspaceLease ----------------------------
(***************************************************************************)
(* The workspace lease manager (workspace_lease.rs): a table of readers    *)
(* and writer per workspace under one mutex, one condition variable for    *)
(* every waiter, and a lease that is given back when it is dropped.        *)
(*                                                                         *)
(* The thread that acquires a lease is the worker that runs the execution, *)
(* and an execution is run by at most one worker, once, so threads are     *)
(* named by their execution.  A table entry that is absent in the code is  *)
(* an entry without readers and writer here (entry().or_default() creates  *)
(* it, release removes it).                                                *)
(***************************************************************************)
CONSTANTS Executions,  \* execution ids
          Workspaces,  \* workspace ids
          None         \* Option::None

\* Option::None is none of the ids and none of the requests.
ASSUME NoneAssumption ==
    /\ None \notin Executions
    /\ None \notin [workspace : Workspaces, mode : {"Read", "Write"}]

Modes == {"Read", "Write"}

VARIABLES readers,  \* readers[w]: WorkspaceLeaseHolders.readers
          writer,   \* writer[w]: WorkspaceLeaseHolders.writer
          request,  \* request[e]: the WorkspaceLeaseRequest of e, or None
          pc        \* where the thread of e is

vars == <<readers, writer, request, pc>>

Requests == [workspace : Workspaces, mode : Modes]

\* "idle": before acquire; "locked": about to examine the table under the
\* mutex; "waiting": inside Condvar::wait; "held": the WorkspaceLease lives;
\* "dropped": it has been dropped.
Places == {"idle", "locked", "waiting", "held", "dropped"}

TypeOK ==
    /\ readers \in [Workspaces -> SUBSET Executions]
    /\ writer \in [Workspaces -> Executions \cup {None}]
    /\ request \in [Executions -> Requests \cup {None}]
    /\ pc \in [Executions -> Places]
    /\ \A e \in Executions : pc[e] = "idle" <=> request[e] = None

Init ==
    /\ readers = [w \in Workspaces |-> {}]
    /\ writer = [w \in Workspaces |-> None]
    /\ request = [e \in Executions |-> None]
    /\ pc = [e \in Executions |-> "idle"]
-------------------------------------------------------------------------------
\* Mutant: a writer is let in among readers.
PermitsIgnoringReaders(w, mode) == writer[w] = None

\* WorkspaceLeaseHolders::permits
Permits(w, mode) ==
    /\ writer[w] = None
    /\ mode = "Write" => readers[w] = {}

\* The worker calls WorkspaceLeaseManager::acquire.
Call(e, r) ==
    /\ pc[e] = "idle"
    /\ request' = [request EXCEPT ![e] = r]
    /\ pc' = [pc EXCEPT ![e] = "locked"]
    /\ UNCHANGED <<readers, writer>>

\* One turn of the loop that finds the table permitting the request.
Acquire(e) ==
    LET r == request[e] IN
    /\ pc[e] = "locked"
    /\ Permits(r.workspace, r.mode)
    /\ IF r.mode = "Read"
       THEN /\ readers' = [readers EXCEPT ![r.workspace] = @ \cup {e}]
            /\ UNCHANGED writer
       ELSE /\ writer' = [writer EXCEPT ![r.workspace] = e]
            /\ UNCHANGED readers
    /\ pc' = [pc EXCEPT ![e] = "held"]
    /\ UNCHANGED request

\* One turn of the loop that does not: the mutex is released and the thread
\* enqueued on the condition variable in one step.
Wait(e) ==
    /\ pc[e] = "locked"
    /\ ~Permits(request[e].workspace, request[e].mode)
    /\ pc' = [pc EXCEPT ![e] = "waiting"]
    /\ UNCHANGED <<readers, writer, request>>

\* Mutant: only the other waiters for a read lease are woken.
NotifyReaders == [f \in Executions |-> IF pc[f] = "waiting" /\ request[f].mode = "Read"
                                       THEN "locked" ELSE pc[f]]

\* Condvar::notify_all: every waiter, of whatever workspace, looks again.
NotifyAll == [f \in Executions |-> IF pc[f] = "waiting" THEN "locked" ELSE pc[f]]

\* Mutant: dropping a write lease leaves the writer in the table.
ReleaseReadersOnly(e) ==
    /\ pc[e] = "held"
    /\ readers' = [readers EXCEPT ![request[e].workspace] = @ \ {e}]
    /\ pc' = [NotifyAll EXCEPT ![e] = "dropped"]
    /\ UNCHANGED <<writer, request>>

\* Mutant: the first reader to leave takes the others off the table.
ReleaseAllReaders(e) ==
    LET r == request[e] IN
    /\ pc[e] = "held"
    /\ IF r.mode = "Read"
       THEN /\ readers' = [readers EXCEPT ![r.workspace] = {}]
            /\ UNCHANGED writer
       ELSE /\ writer' = [writer EXCEPT ![r.workspace] = IF @ = e THEN None ELSE @]
            /\ UNCHANGED readers
    /\ pc' = [NotifyAll EXCEPT ![e] = "dropped"]
    /\ UNCHANGED request

\* Drop for WorkspaceLease: WorkspaceLeaseManager::release.
Release(e) ==
    LET r == request[e] IN
    /\ pc[e] = "held"
    /\ IF r.mode = "Read"
       THEN /\ readers' = [readers EXCEPT ![r.workspace] = @ \ {e}]
            /\ UNCHANGED writer
       ELSE /\ writer' = [writer EXCEPT ![r.workspace] = IF @ = e THEN None ELSE @]
            /\ UNCHANGED readers
    /\ pc' = [NotifyAll EXCEPT ![e] = "dropped"]
    /\ UNCHANGED request

\* A condition variable may wake a waiter without a notification.
SpuriousWakeup(e) ==
    /\ pc[e] = "waiting"
    /\ pc' = [pc EXCEPT ![e] = "locked"]
    /\ UNCHANGED <<readers, writer, request>>

Next ==
    \E e \in Executions :
        \/ \E r \in Requests : Call(e, r)
        \/ Acquire(e)
        \/ Wait(e)
        \/ Release(e)
        \/ SpuriousWakeup(e)

Spec == Init /\ [][Next]_vars

\* A thread that may run runs, and an execution that holds a lease ends.
\* Nothing is assumed of a waiter that nobody wakes.
Fairness ==
    \A e \in Executions : WF_vars(Acquire(e)) /\ WF_vars(Wait(e)) /\ WF_vars(Release(e))

FairSpec == Spec /\ Fairness
-------------------------------------------------------------------------------
Holds(e, w, mode) ==
    /\ pc[e] = "held"
    /\ request[e] = [workspace |-> w, mode |-> mode]

\* Two workers whose leases on one workspace are in force at the same time
\* are both readers: what execute_execution relies on while a backend edits
\* the workspace (server.rs:944).
LeaseExclusion ==
    \A e, f \in Executions, w \in Workspaces, m, n \in Modes :
        /\ e # f
        /\ Holds(e, w, m)
        /\ Holds(f, w, n)
        => m = "Read" /\ n = "Read"

\* No wakeup is lost: a thread asleep in Condvar::wait has a request that the
\* table still refuses, so that some holder is left to wake it.  (The single
\* condition variable serves all workspaces and both modes.)
NoLostWakeup ==
    \A e \in Executions :
        pc[e] = "waiting" => ~Permits(request[e].workspace, request[e].mode)

\* The table says exactly who holds what: a lease is neither leaked by a drop
\* nor forgotten while it is in force.
TableIsHolders ==
    \A w \in Workspaces :
        /\ readers[w] = {e \in Executions : Holds(e, w, "Read")}
        /\ \A e \in Executions : writer[w] = e <=> Holds(e, w, "Write")

\* Every caller of acquire gets its lease, each execution asking once.
EveryRequestServed ==
    \A e \in Executions : pc[e] = "locked" ~> pc[e] = "held"
-------------------------------------------------------------------------------
\* The leases in force, as the abstract readers-writer lock has them.
Granted == [w \in Workspaces |->
              {[execution |-> e, mode |-> "Read"] : e \in readers[w]}
              \cup {[execution |-> e, mode |-> "Write"] : e \in {writer[w]} \ {None}}]

Lock == INSTANCE ReadersWriter WITH granted <- Granted

\* The manager implements the readers-writer lock.
ImplementsReadersWriter == Lock!Spec
===============================================================================

------------------------- MODULE ExecutionQueueProofs -------------------------
(***************************************************************************)
(* The execution queue keeps a session to one group at a time, hands every *)
(* execution out at most once and loses no wakeup, for any set of jobs,    *)
(* any number of sessions and any finite number of workers.                *)
(***************************************************************************)
EXTENDS ExecutionQueue, FiniteSetTheorems, SequenceTheorems, WellFoundedInduction, TLAPS

IInv ==
    /\ TypeOK
    /\ CountsBusy
    /\ TurnOfBusy
-------------------------------------------------------------------------------
(* What the critical sections do to the queue. *)

\* Removing one element of a sequence shifts the later ones by one.
LEMMA RemoveAtElements ==
    ASSUME NEW S, NEW s \in Seq(S), NEW i \in 1 .. Len(s)
    PROVE  /\ RemoveAt(s, i) \in Seq(S)
           /\ Len(RemoveAt(s, i)) = Len(s) - 1
           /\ \A k \in 1 .. Len(s) - 1 :
                 RemoveAt(s, i)[k] = IF k < i THEN s[k] ELSE s[k + 1]
<1> DEFINE a == SubSeq(s, 1, i - 1)
           b == SubSeq(s, i + 1, Len(s))
<1>1. a \in Seq(S) /\ Len(a) = i - 1 /\ \A k \in 1 .. i - 1 : a[k] = s[k]
  <2>1. \A k \in 1 .. i - 1 : s[k] \in S
    OBVIOUS
  <2>2. SubSeq(s, 1, i - 1) \in Seq(S)
    BY <2>1, SubSeqProperties
  <2> QED
    BY <2>1, <2>2, SubSeqProperties
<1>2. b \in Seq(S) /\ Len(b) = Len(s) - i /\ \A k \in 1 .. Len(s) - i : b[k] = s[i + k]
  <2>1. \A k \in i + 1 .. Len(s) : s[k] \in S
    OBVIOUS
  <2>2. /\ SubSeq(s, i + 1, Len(s)) \in Seq(S)
        /\ Len(SubSeq(s, i + 1, Len(s))) = IF i + 1 <= Len(s) THEN Len(s) - (i + 1) + 1 ELSE 0
        /\ \A k \in 1 .. Len(s) - (i + 1) + 1 :
              SubSeq(s, i + 1, Len(s))[k] = s[(i + 1) + k - 1]
    BY <2>1, SubSeqProperties
  <2> QED
    BY <2>2
<1>3. RemoveAt(s, i) = a \o b
  BY DEF RemoveAt
<1> HIDE DEF a, b
<1>4. /\ a \o b \in Seq(S)
      /\ Len(a \o b) = Len(s) - 1
      /\ \A k \in 1 .. Len(s) - 1 :
            (a \o b)[k] = IF k <= i - 1 THEN a[k] ELSE b[k - (i - 1)]
  <2>1. /\ a \o b \in Seq(S)
        /\ Len(a \o b) = Len(a) + Len(b)
        /\ \A k \in 1 .. Len(a) + Len(b) :
              (a \o b)[k] = IF k <= Len(a) THEN a[k] ELSE b[k - Len(a)]
    BY <1>1, <1>2, ConcatProperties
  <2> QED
    BY <1>1, <1>2, <2>1
<1> QED
  BY <1>1, <1>2, <1>3, <1>4

\* What is left are elements from the other places, and no element twice
\* unless it was there twice.
LEMMA RemoveAtRest ==
    ASSUME NEW S, NEW s \in Seq(S), NEW i \in 1 .. Len(s)
    PROVE  /\ \A k \in DOMAIN RemoveAt(s, i) : \E m \in DOMAIN s \ {i} : RemoveAt(s, i)[k] = s[m]
           /\ (\A k, m \in DOMAIN s : k # m => s[k] # s[m]) =>
                 \A k, m \in DOMAIN RemoveAt(s, i) :
                    k # m => RemoveAt(s, i)[k] # RemoveAt(s, i)[m]
<1> DEFINE r == RemoveAt(s, i)
<1>1. /\ r \in Seq(S)
      /\ Len(r) = Len(s) - 1
      /\ \A k \in 1 .. Len(s) - 1 : r[k] = IF k < i THEN s[k] ELSE s[k + 1]
  BY RemoveAtElements
<1> HIDE DEF r
<1>2. DOMAIN r = 1 .. Len(s) - 1 /\ DOMAIN s = 1 .. Len(s) /\ Len(s) \in Nat
  BY <1>1
<1>3. ASSUME NEW k \in DOMAIN r
      PROVE  \E m \in DOMAIN s \ {i} : r[k] = s[m]
  <2>1. CASE k < i
    <3>1. k \in DOMAIN s \ {i} /\ r[k] = s[k]
      BY <1>1, <1>2, <1>3, <2>1
    <3> QED
      BY <3>1
  <2>2. CASE ~(k < i)
    <3>1. k + 1 \in DOMAIN s \ {i} /\ r[k] = s[k + 1]
      BY <1>1, <1>2, <1>3, <2>2
    <3> QED
      BY <3>1
  <2> QED
    BY <2>1, <2>2
<1>4. ASSUME \A k, m \in DOMAIN s : k # m => s[k] # s[m],
             NEW k \in DOMAIN r, NEW m \in DOMAIN r, k # m
      PROVE  r[k] # r[m]
  <2> DEFINE at(n) == IF n < i THEN n ELSE n + 1
  <2>1. at(k) \in DOMAIN s /\ at(m) \in DOMAIN s /\ at(k) # at(m)
    BY <1>2, <1>4
  <2>2. r[k] = s[at(k)] /\ r[m] = s[at(m)]
    BY <1>1, <1>2
  <2> QED
    BY <1>4, <2>1, <2>2
<1> QED
  BY <1>3, <1>4 DEF r

\* enqueue of an execution that was not scheduled.
LEMMA EnqueuedFields ==
    ASSUME NEW q \in QueueRecords, NEW j \in JobRecords, j.execution \notin q.scheduled
    PROVE  /\ Enqueued(q, j) \in QueueRecords
           /\ Enqueued(q, j).pending = Append(q.pending, j)
           /\ Enqueued(q, j).active_sessions = q.active_sessions
           /\ Enqueued(q, j).active_groups = q.active_groups
           /\ Enqueued(q, j).scheduled = q.scheduled \cup {j.execution}
<1>1. Enqueued(q, j) = [q EXCEPT !.scheduled = @ \cup {j.execution}, !.pending = Append(@, j)]
  BY DEF Enqueued
<1>2. Append(q.pending, j) \in Seq(JobRecords)
  BY DEF QueueRecords
<1>3. j.execution \in Executions
  BY DEF JobRecords
<1> QED
  BY <1>1, <1>2, <1>3 DEF QueueRecords

\* next() takes a job: its session and its group's counter.
LEMMA TakenFields ==
    ASSUME NEW q \in QueueRecords, NEW i \in DOMAIN q.pending
    PROVE  /\ Taken(q, i) \in QueueRecords
           /\ Taken(q, i).pending = RemoveAt(q.pending, i)
           /\ Taken(q, i).active_sessions =
                 [q.active_sessions EXCEPT ![q.pending[i].session] =
                     IF @ = None THEN q.pending[i].group ELSE @]
           /\ Taken(q, i).active_groups =
                 [q.active_groups EXCEPT ![q.pending[i].group] = @ + 1]
           /\ Taken(q, i).scheduled = q.scheduled
<1>1. q.pending \in Seq(JobRecords) /\ i \in 1 .. Len(q.pending)
  BY DEF QueueRecords
<1>2. q.pending[i] \in JobRecords
  BY <1>1
<1>3. RemoveAt(q.pending, i) \in Seq(JobRecords)
  BY <1>1, RemoveAtElements
<1>4. q.pending[i].session \in Sessions /\ q.pending[i].group \in Executions
  BY <1>2 DEF JobRecords
<1> DEFINE P == RemoveAt(q.pending, i)
           A == [q.active_sessions EXCEPT ![q.pending[i].session] =
                     IF @ = None THEN q.pending[i].group ELSE @]
           G == [q.active_groups EXCEPT ![q.pending[i].group] = @ + 1]
<1>5. A \in [Sessions -> Executions \cup {None}] /\ G \in [Executions -> Nat]
  BY <1>4 DEF QueueRecords
<1>6. Taken(q, i) = [q EXCEPT !.pending = P, !.active_sessions = A, !.active_groups = G]
  BY Zenon DEF Taken
<1>7. P \in Seq(JobRecords)
  BY <1>3
<1> HIDE DEF P, A, G
<1>8. /\ Taken(q, i) \in QueueRecords
      /\ Taken(q, i).pending = P
      /\ Taken(q, i).active_sessions = A
      /\ Taken(q, i).active_groups = G
      /\ Taken(q, i).scheduled = q.scheduled
  BY <1>5, <1>6, <1>7 DEF QueueRecords
<1> QED
  BY <1>8 DEF P, A, G

\* complete() counts a job out; only the job's own session can change hands.
LEMMA CompletedFields ==
    ASSUME NEW q \in QueueRecords, NEW j \in JobRecords, NEW release \in BOOLEAN,
           q.active_groups[j.group] > 0
    PROVE  /\ Completed(q, j, release) \in QueueRecords
           /\ Completed(q, j, release).pending = q.pending
           /\ Completed(q, j, release).active_groups =
                 [q.active_groups EXCEPT ![j.group] = @ - 1]
           /\ Completed(q, j, release).scheduled = q.scheduled
           /\ \/ Completed(q, j, release).active_sessions = q.active_sessions
              \/ /\ q.active_groups[j.group] = 1
                 /\ q.active_sessions[j.session] = j.group
                 /\ Completed(q, j, release).active_sessions =
                       [q.active_sessions EXCEPT ![j.session] = None]
<1> DEFINE c == CountedOut(q, j, release)
<1>1. j.group \in Executions /\ j.session \in Sessions
  BY DEF JobRecords
<1>2. /\ c \in QueueRecords
      /\ c.pending = q.pending
      /\ c.active_groups = [q.active_groups EXCEPT ![j.group] = @ - 1]
      /\ c.active_sessions = q.active_sessions
      /\ c.scheduled = q.scheduled
  <2> DEFINE G == [q.active_groups EXCEPT ![j.group] = @ - 1]
             R == IF release THEN q.releasing_groups \cup {j.group} ELSE q.releasing_groups
  <2>1. G \in [Executions -> Nat] /\ R \in SUBSET Executions
    BY <1>1 DEF QueueRecords
  <2>2. c = [q EXCEPT !.releasing_groups = R, !.active_groups = G]
    BY Zenon DEF CountedOut
  <2> HIDE DEF G, R, c
  <2>3. /\ c \in QueueRecords
        /\ c.pending = q.pending
        /\ c.active_groups = G
        /\ c.active_sessions = q.active_sessions
        /\ c.scheduled = q.scheduled
    BY <2>1, <2>2 DEF QueueRecords
  <2> QED
    BY <2>3 DEF G
<1>3. CASE Releases(c, j)
  <2>1. q.active_groups[j.group] = 1 /\ q.active_sessions[j.session] = j.group
    BY <1>1, <1>2, <1>3 DEF Releases, QueueRecords
  <2> DEFINE A == [c.active_sessions EXCEPT ![j.session] = None]
             R == c.releasing_groups \ {j.group}
  <2>2. Completed(q, j, release) = [c EXCEPT !.active_sessions = A, !.releasing_groups = R]
    BY <1>3, Zenon DEF Completed
  <2> HIDE DEF c
  <2>3. A \in [Sessions -> Executions \cup {None}] /\ R \in SUBSET Executions
    BY <1>1, <1>2 DEF QueueRecords
  <2>4. A = [q.active_sessions EXCEPT ![j.session] = None]
    BY <1>2
  <2> HIDE DEF A, R
  <2>5. /\ Completed(q, j, release) \in QueueRecords
        /\ Completed(q, j, release).pending = c.pending
        /\ Completed(q, j, release).active_groups = c.active_groups
        /\ Completed(q, j, release).scheduled = c.scheduled
        /\ Completed(q, j, release).active_sessions = A
    BY <1>2, <2>2, <2>3 DEF QueueRecords
  <2> QED
    BY <1>2, <2>1, <2>4, <2>5
<1>4. CASE ~Releases(c, j)
  <2>1. Completed(q, j, release) = c
    BY <1>4 DEF Completed
  <2> QED
    BY <1>2, <2>1
<1> QED
  BY <1>3, <1>4

\* A session changes hands only when the group that had it has no job pending.
LEMMA ReleasedIsDone ==
    ASSUME NEW q \in QueueRecords, NEW j \in JobRecords, NEW release \in BOOLEAN,
           Completed(q, j, release).active_sessions # q.active_sessions
    PROVE  \A i \in DOMAIN q.pending : q.pending[i].group # j.group
<1> DEFINE c == CountedOut(q, j, release)
<1>1. c.pending = q.pending /\ c.active_sessions = q.active_sessions
  BY DEF CountedOut, QueueRecords
<1> HIDE DEF c
<1>2. Releases(c, j)
  BY <1>1 DEF Completed, c
<1> QED
  BY <1>1, <1>2 DEF Releases
-------------------------------------------------------------------------------
(* Type correctness and the two facts about busy workers. *)

\* A worker runs a job only if its group's counter is positive.
LEMMA BusyIsCounted ==
    ASSUME IInv, NEW w \in Workers, Busy(w)
    PROVE  /\ job[w] \in JobRecords
           /\ IsFiniteSet(BusyFor(job[w].group))
           /\ queue.active_groups[job[w].group] > 0
<1>1. job[w] \in JobRecords
  BY JobsAssumption DEF IInv, TypeOK, Busy
<1>2. job[w].group \in Executions
  BY <1>1 DEF JobRecords
<1>3. w \in BusyFor(job[w].group)
  BY DEF BusyFor
<1>4. IsFiniteSet(BusyFor(job[w].group))
  BY WorkersAssumption, FS_Subset DEF BusyFor
<1>5. Cardinality(BusyFor(job[w].group)) # 0 /\ Cardinality(BusyFor(job[w].group)) \in Nat
  BY <1>3, <1>4, FS_EmptySet, FS_CardinalityType
<1> QED
  BY <1>1, <1>2, <1>4, <1>5 DEF IInv, CountsBusy

\* The initial states satisfy the inductive invariant.
LEMMA InitIInv == Init => IInv
<1> SUFFICES ASSUME Init PROVE IInv
  OBVIOUS
<1>1. queue \in QueueRecords
  BY DEF Init, EmptyQueue, QueueRecords, JobRecords
<1>2. TypeOK
  BY <1>1, JobsAssumption DEF TypeOK, Init, EmptyQueue, Places
<1>3. \A g \in Executions : BusyFor(g) = {}
  BY DEF Init, BusyFor, Busy
<1>4. CountsBusy
  BY <1>3, FS_EmptySet DEF CountsBusy, Init, EmptyQueue
<1>5. TurnOfBusy
  BY DEF TurnOfBusy, Busy, Init
<1> QED
  BY <1>2, <1>4, <1>5 DEF IInv

\* A step that leaves the queue's counters, its sessions and the busy workers
\* alone keeps both facts.
LEMMA SameBusy ==
    ASSUME IInv,
           queue'.active_groups = queue.active_groups,
           queue'.active_sessions = queue.active_sessions,
           job' = job,
           \A w \in Workers : Busy(w)' <=> Busy(w)
    PROVE  CountsBusy' /\ TurnOfBusy'
<1>1. \A g : BusyFor(g)' = BusyFor(g)
  BY DEF BusyFor
<1> QED
  BY <1>1 DEF IInv, CountsBusy, TurnOfBusy

\* next() returns a job.
LEMMA TakeIInv ==
    ASSUME IInv, NEW w \in Workers, NEW i \in DOMAIN queue.pending, Take(w, i)
    PROVE  IInv'
<1> DEFINE j == queue.pending[i]
<1>1. /\ queue \in QueueRecords /\ j \in Jobs /\ j \in JobRecords
      /\ j.session \in Sessions /\ j.group \in Executions /\ j # None
  BY JobsAssumption DEF IInv, TypeOK, JobRecords
<1>2. /\ queue' \in QueueRecords
      /\ queue'.pending = RemoveAt(queue.pending, i)
      /\ queue'.active_sessions = [queue.active_sessions EXCEPT ![j.session] =
                                       IF @ = None THEN j.group ELSE @]
      /\ queue'.active_groups = [queue.active_groups EXCEPT ![j.group] = @ + 1]
  BY <1>1, TakenFields DEF Take
<1>3. /\ pc[w] = "next" /\ pc' = [pc EXCEPT ![w] = "busy"]
      /\ job' = [job EXCEPT ![w] = j]
      /\ queue.active_sessions[j.session] \in {None, j.group}
  BY DEF Take, FirstEligible, Eligible
<1>4. /\ pc \in [Workers -> Places] /\ job \in [Workers -> Jobs \cup {None}]
      /\ \A v \in Workers : pc[v] = "busy" <=> job[v] # None
      /\ \A k \in DOMAIN queue.pending : queue.pending[k] \in Jobs
      /\ queue.pending \in Seq(JobRecords)
      /\ queue.active_sessions \in [Sessions -> Executions \cup {None}]
      /\ queue.active_groups \in [Executions -> Nat]
  BY DEF IInv, TypeOK, QueueRecords
<1> HIDE DEF j
<1>5. \A k \in DOMAIN queue'.pending : queue'.pending[k] \in Jobs
  <2>1. i \in 1 .. Len(queue.pending)
    BY <1>4
  <2>2. \A k \in DOMAIN queue'.pending :
           \E m \in DOMAIN queue.pending \ {i} : queue'.pending[k] = queue.pending[m]
    BY <1>2, <1>4, <2>1, RemoveAtRest
  <2> QED
    BY <1>4, <2>2
<1>6. TypeOK'
  BY <1>1, <1>2, <1>3, <1>4, <1>5 DEF TypeOK, Places
<1>7. CountsBusy'
  <2> SUFFICES ASSUME NEW g \in Executions
               PROVE  queue'.active_groups[g] = Cardinality(BusyFor(g)')
    BY DEF CountsBusy
  <2>1. queue.active_groups[g] = Cardinality(BusyFor(g)) /\ IsFiniteSet(BusyFor(g))
    BY WorkersAssumption, FS_Subset DEF IInv, CountsBusy, BusyFor
  <2>2. w \notin BusyFor(g)
    BY <1>3 DEF BusyFor, Busy
  <2>3. CASE g = j.group
    <3>1. BusyFor(g)' = BusyFor(g) \cup {w}
      BY <1>3, <1>4, <2>3 DEF BusyFor, Busy
    <3>2. Cardinality(BusyFor(g)') = Cardinality(BusyFor(g)) + 1
      BY <2>1, <2>2, <3>1, FS_AddElement
    <3> QED
      BY <1>1, <1>2, <1>4, <2>1, <2>3, <3>2
  <2>4. CASE g # j.group
    <3>1. BusyFor(g)' = BusyFor(g)
      BY <1>3, <1>4, <2>2, <2>4 DEF BusyFor, Busy
    <3> QED
      BY <1>1, <1>2, <1>4, <2>1, <2>4, <3>1
  <2> QED
    BY <2>3, <2>4
<1>8. TurnOfBusy'
  <2> SUFFICES ASSUME NEW v \in Workers, Busy(v)'
               PROVE  queue'.active_sessions[job'[v].session] = job'[v].group
    BY DEF TurnOfBusy
  <2>1. CASE v = w
    BY <1>1, <1>2, <1>3, <1>4, <2>1
  <2>2. CASE v # w
    <3>1. Busy(v) /\ job'[v] = job[v] /\ job[v] \in Jobs
      BY <1>3, <1>4, <2>2 DEF Busy
    <3>2. /\ queue.active_sessions[job[v].session] = job[v].group
          /\ job[v].session \in Sessions /\ job[v].group \in Executions
      BY <3>1, JobsAssumption DEF IInv, TurnOfBusy, JobRecords
    <3>3. None \notin Executions
      BY JobsAssumption
    <3> QED
      BY <1>1, <1>2, <1>3, <1>4, <3>1, <3>2, <3>3
  <2> QED
    BY <2>1, <2>2
<1> QED
  BY <1>6, <1>7, <1>8 DEF IInv

\* complete(): a session changes hands only when nobody else runs for the
\* group that gives it up.
LEMMA CompleteIInv ==
    ASSUME IInv, NEW w \in Workers, NEW release \in BOOLEAN, Busy(w),
           NEW place \in Places \ {"busy"},
           queue' = Completed(queue, job[w], release),
           pc' = [NotifyAll EXCEPT ![w] = place],
           job' = [job EXCEPT ![w] = None]
    PROVE  IInv'
<1> DEFINE j == job[w]
<1>1. /\ j \in JobRecords /\ IsFiniteSet(BusyFor(j.group))
      /\ queue.active_groups[j.group] > 0
      /\ j.session \in Sessions /\ j.group \in Executions
  BY BusyIsCounted DEF JobRecords
<1>2. queue \in QueueRecords
  BY DEF IInv, TypeOK
<1>3. /\ queue' \in QueueRecords
      /\ queue'.pending = queue.pending
      /\ queue'.active_groups = [queue.active_groups EXCEPT ![j.group] = @ - 1]
      /\ \/ queue'.active_sessions = queue.active_sessions
         \/ /\ queue.active_groups[j.group] = 1
            /\ queue.active_sessions[j.session] = j.group
            /\ queue'.active_sessions = [queue.active_sessions EXCEPT ![j.session] = None]
  BY <1>1, <1>2, CompletedFields
<1>4. /\ pc \in [Workers -> Places] /\ job \in [Workers -> Jobs \cup {None}]
      /\ \A v \in Workers : pc[v] = "busy" <=> job[v] # None
      /\ \A k \in DOMAIN queue.pending : queue.pending[k] \in Jobs
      /\ queue.active_sessions \in [Sessions -> Executions \cup {None}]
      /\ queue.active_groups \in [Executions -> Nat]
  BY <1>2 DEF IInv, TypeOK, QueueRecords
<1>5. \A v \in Workers : Busy(v)' <=> Busy(v) /\ v # w
  BY <1>4 DEF Busy, NotifyAll, Places
<1>6. TypeOK'
  <2>1. pc' \in [Workers -> Places]
    BY <1>4 DEF NotifyAll, Places
  <2>2. job' \in [Workers -> Jobs \cup {None}]
    BY <1>4
  <2>3. \A v \in Workers : pc'[v] = "busy" <=> job'[v] # None
    BY <1>4, <1>5 DEF Busy
  <2> QED
    BY <1>3, <1>4, <2>1, <2>2, <2>3 DEF TypeOK
<1>7. \A v \in Workers : Busy(v)' => job'[v] = job[v]
  BY <1>4, <1>5
<1> HIDE DEF j
<1>8. CountsBusy'
  <2> SUFFICES ASSUME NEW g \in Executions
               PROVE  queue'.active_groups[g] = Cardinality(BusyFor(g)')
    BY DEF CountsBusy
  <2>1. queue.active_groups[g] = Cardinality(BusyFor(g)) /\ IsFiniteSet(BusyFor(g))
    BY WorkersAssumption, FS_Subset DEF IInv, CountsBusy, BusyFor
  <2>2. BusyFor(g)' = BusyFor(g) \ {w}
    BY <1>5, <1>7 DEF BusyFor
  <2>3. w \in BusyFor(g) <=> g = j.group
    BY DEF BusyFor, j
  <2>4. Cardinality(BusyFor(g)') =
            IF g = j.group THEN Cardinality(BusyFor(g)) - 1 ELSE Cardinality(BusyFor(g))
    BY <2>1, <2>2, <2>3, FS_RemoveElement
  <2> QED
    BY <1>1, <1>3, <1>4, <2>1, <2>4
<1>9. TurnOfBusy'
  <2> SUFFICES ASSUME NEW v \in Workers, Busy(v)'
               PROVE  queue'.active_sessions[job'[v].session] = job'[v].group
    BY DEF TurnOfBusy
  <2>1. /\ Busy(v) /\ v # w /\ job'[v] = job[v]
        /\ queue.active_sessions[job[v].session] = job[v].group
    BY <1>5, <1>7 DEF IInv, TurnOfBusy
  <2>2. CASE queue'.active_sessions = queue.active_sessions
    BY <2>1, <2>2
  <2>3. CASE /\ queue.active_groups[j.group] = 1
             /\ queue.active_sessions[j.session] = j.group
             /\ queue'.active_sessions = [queue.active_sessions EXCEPT ![j.session] = None]
    <3>1. job[v].session # j.session
      <4> SUFFICES ASSUME job[v].session = j.session PROVE FALSE
        OBVIOUS
      <4>1. w \in BusyFor(j.group) /\ v \in BusyFor(j.group)
        BY <2>1, <2>3 DEF BusyFor, j
      <4>2. Cardinality(BusyFor(j.group)) = 1
        BY <1>1, <2>3 DEF IInv, CountsBusy
      <4>3. Cardinality(BusyFor(j.group) \ {w}) = 0 /\ IsFiniteSet(BusyFor(j.group) \ {w})
        BY <1>1, <4>1, <4>2, FS_RemoveElement
      <4> QED
        BY <2>1, <4>1, <4>3, FS_EmptySet
    <3>2. job[v].session \in Sessions
      BY <1>4, <2>1, JobsAssumption DEF Busy, JobRecords
    <3> QED
      BY <1>4, <2>1, <2>3, <3>1, <3>2
  <2> QED
    BY <1>3, <2>2, <2>3
<1> QED
  BY <1>6, <1>8, <1>9 DEF IInv

\* enqueue()
LEMMA EnqueueIInv ==
    ASSUME IInv, NEW j \in Jobs, Enqueue(j)
    PROVE  IInv'
<1>1. queue \in QueueRecords /\ j \in JobRecords
  BY JobsAssumption DEF IInv, TypeOK
<1>2. /\ queue' \in QueueRecords
      /\ queue'.active_sessions = queue.active_sessions
      /\ queue'.active_groups = queue.active_groups
      /\ queue'.pending \in {queue.pending, Append(queue.pending, j)}
  <2>1. CASE j.execution \in queue.scheduled
    BY <1>1, <2>1 DEF Enqueue, Enqueued
  <2>2. CASE j.execution \notin queue.scheduled
    BY <1>1, <2>2, EnqueuedFields DEF Enqueue
  <2> QED
    BY <2>1, <2>2
<1>3. pc' \in {pc, NotifyAll} /\ job' = job
  BY DEF Enqueue
<1>4. \A k \in DOMAIN queue'.pending : queue'.pending[k] \in Jobs
  <2>1. queue.pending \in Seq(JobRecords)
    BY <1>1 DEF QueueRecords
  <2> QED
    BY <1>1, <1>2, <2>1 DEF IInv, TypeOK
<1>5. /\ pc' \in [Workers -> Places]
      /\ \A v \in Workers : pc'[v] = "busy" <=> pc[v] = "busy"
  BY <1>3 DEF IInv, TypeOK, NotifyAll, Places
<1>6. TypeOK'
  BY <1>2, <1>3, <1>4, <1>5 DEF IInv, TypeOK
<1>7. CountsBusy' /\ TurnOfBusy'
  BY <1>2, <1>3, <1>5, SameBusy DEF Busy
<1> QED
  BY <1>6, <1>7 DEF IInv

\* Every step of a worker or of an enqueuing thread keeps the inductive invariant.
LEMMA NextIInv == IInv /\ [Next]_vars => IInv'
<1> SUFFICES ASSUME IInv, [Next]_vars PROVE IInv'
  OBVIOUS
<1>1. ASSUME NEW j \in Jobs, Enqueue(j) PROVE IInv'
  BY <1>1, EnqueueIInv
<1>2. ASSUME NEW w \in Workers, NEW i \in DOMAIN queue.pending, Take(w, i) PROVE IInv'
  BY <1>2, TakeIInv
<1>3. ASSUME NEW w \in Workers, Exit(w) \/ Wait(w) \/ SpuriousWakeup(w) PROVE IInv'
  <2>1. /\ queue' = queue /\ job' = job
        /\ pc' \in [Workers -> Places]
        /\ \A v \in Workers : pc'[v] = "busy" <=> pc[v] = "busy"
    BY <1>3 DEF Exit, Wait, SpuriousWakeup, IInv, TypeOK, Places
  <2>2. TypeOK'
    BY <2>1 DEF IInv, TypeOK
  <2>3. CountsBusy' /\ TurnOfBusy'
    BY <2>1, SameBusy DEF Busy
  <2> QED
    BY <2>2, <2>3 DEF IInv
<1>4. ASSUME NEW w \in Workers, NEW release \in BOOLEAN, Complete(w, release) PROVE IInv'
  BY <1>4, CompleteIInv DEF Complete, Busy, Places
<1>5. ASSUME NEW w \in Workers, CompleteFailed(w) PROVE IInv'
  BY <1>5, CompleteIInv DEF CompleteFailed, Busy, Places
<1>6. CASE Close
  <2>1. queue \in QueueRecords
    BY DEF IInv, TypeOK
  <2>2. /\ queue' \in QueueRecords
        /\ queue'.active_sessions = queue.active_sessions
        /\ queue'.active_groups = queue.active_groups
        /\ queue'.pending = queue.pending
    BY <1>6, <2>1 DEF Close, Closed, QueueRecords
  <2>3. /\ job' = job /\ pc' \in [Workers -> Places]
        /\ \A v \in Workers : pc'[v] = "busy" <=> pc[v] = "busy"
    BY <1>6 DEF Close, NotifyAll, IInv, TypeOK, Places
  <2>4. TypeOK'
    BY <2>2, <2>3 DEF IInv, TypeOK
  <2>5. CountsBusy' /\ TurnOfBusy'
    BY <2>2, <2>3, SameBusy DEF Busy
  <2> QED
    BY <2>4, <2>5 DEF IInv
<1>7. CASE UNCHANGED vars
  <2>1. TypeOK'
    BY <1>7 DEF IInv, TypeOK, vars
  <2>2. CountsBusy' /\ TurnOfBusy'
    BY <1>7, SameBusy DEF vars, Busy
  <2> QED
    BY <2>1, <2>2 DEF IInv
<1> QED
  BY <1>1, <1>2, <1>3, <1>4, <1>5, <1>6, <1>7 DEF Next

\* The counters of the queue count, and a busy worker's group has the session
\* (server.rs:130 and server.rs:158).
THEOREM Invariance == Spec => []IInv
  BY InitIInv, NextIInv, PTL DEF Spec

\* The queue and the workers are well typed: the usize counter of a group is
\* never decremented below zero (server.rs:163).
THEOREM TypeCorrect == Spec => []TypeOK
<1>1. IInv => TypeOK
  BY DEF IInv
<1> QED
  BY Invariance, <1>1, PTL

\* Two workers busy for one session work on the same group, for every number
\* of workers, jobs and sessions (ExecutionQueue::next and complete).
THEOREM Exclusion == Spec => []SessionExclusive
<1>1. IInv => SessionExclusive
  BY DEF IInv, TurnOfBusy, SessionExclusive
<1> QED
  BY Invariance, <1>1, PTL
-------------------------------------------------------------------------------
(* No wakeup is lost. *)

\* A step that makes a job eligible wakes every sleeping worker.
LEMMA NextNoLostWakeup == IInv /\ NoLostWakeup /\ [Next]_vars => NoLostWakeup'
<1> SUFFICES ASSUME IInv, NoLostWakeup, [Next]_vars PROVE NoLostWakeup'
  OBVIOUS
<1>1. pc \in [Workers -> Places]
  BY DEF IInv, TypeOK
<1>2. ASSUME NEW place \in Places \ {"waiting"}, NEW w \in Workers,
             pc' \in {NotifyAll, [NotifyAll EXCEPT ![w] = place]}
      PROVE  NoLostWakeup'
  BY <1>1, <1>2 DEF NoLostWakeup, NotifyAll
<1>3. ASSUME NEW j \in Jobs, Enqueue(j) PROVE NoLostWakeup'
  <2>1. CASE queue' = queue
    BY <1>3, <2>1 DEF Enqueue, NoLostWakeup
  <2>2. CASE queue' # queue
    BY <1>1, <1>3, <2>2 DEF Enqueue, NotifyAll, NoLostWakeup
  <2> QED
    BY <2>1, <2>2
<1>4. ASSUME NEW w \in Workers, NEW i \in DOMAIN queue.pending, Take(w, i)
      PROVE  NoLostWakeup'
  <2>1. ~NothingEligible(queue)
    BY <1>4 DEF Take, FirstEligible, NothingEligible
  <2>2. \A v \in Workers : pc'[v] # "waiting"
    BY <1>1, <1>4, <2>1 DEF Take, NoLostWakeup
  <2> QED
    BY <2>2 DEF NoLostWakeup
<1>5. ASSUME NEW w \in Workers, Exit(w) \/ Wait(w) \/ SpuriousWakeup(w)
      PROVE  NoLostWakeup'
  <2>1. CASE Wait(w)
    <3>1. /\ queue' = queue /\ NothingEligible(queue) /\ ~Drained(queue)
          /\ pc' = [pc EXCEPT ![w] = "waiting"]
      BY <2>1 DEF Wait
    <3> QED
      BY <3>1 DEF NoLostWakeup
  <2>2. CASE Exit(w) \/ SpuriousWakeup(w)
    <3>1. queue' = queue /\ \E place \in {"exited", "next"} : pc' = [pc EXCEPT ![w] = place]
      BY <2>2, Zenon DEF Exit, SpuriousWakeup
    <3>2. \A v \in Workers : pc'[v] = "waiting" => pc[v] = "waiting"
      BY <1>1, <3>1
    <3> QED
      BY <3>1, <3>2 DEF NoLostWakeup
  <2> QED
    BY <1>5, <2>1, <2>2
<1>6. ASSUME NEW w \in Workers, NEW release \in BOOLEAN, Complete(w, release)
      PROVE  NoLostWakeup'
  BY <1>2, <1>6 DEF Complete, Places
<1>7. ASSUME NEW w \in Workers, CompleteFailed(w) PROVE NoLostWakeup'
  BY <1>2, <1>7 DEF CompleteFailed, Places
<1>8. CASE Close
  BY <1>1, <1>8 DEF Close, NotifyAll, NoLostWakeup
<1>9. CASE UNCHANGED vars
  BY <1>9 DEF vars, NoLostWakeup
<1> QED
  BY <1>3, <1>4, <1>5, <1>6, <1>7, <1>8, <1>9 DEF Next

\* A worker asleep in Condvar::wait has nothing to take and no reason to leave
\* (server.rs:144): the queue's notify_all calls suffice.
THEOREM WakeupSafety == Spec => []NoLostWakeup
<1>1. Init => NoLostWakeup
  BY DEF Init, NoLostWakeup
<1> QED
  BY <1>1, Invariance, NextNoLostWakeup, PTL DEF Spec
-------------------------------------------------------------------------------
(* Every execution is handed out once. *)

\* No step hands out a job that was handed out before, or schedules one twice.
LEMMA NextHandedOutOnce == IInv /\ HandedOutOnce /\ [Next]_vars => HandedOutOnce'
<1> SUFFICES ASSUME IInv, HandedOutOnce, [Next]_vars PROVE HandedOutOnce'
  OBVIOUS
<1>1. /\ queue \in QueueRecords /\ queue.pending \in Seq(JobRecords)
      /\ pc \in [Workers -> Places] /\ job \in [Workers -> Jobs \cup {None}]
      /\ \A w \in Workers : pc[w] = "busy" <=> job[w] # None
  BY DEF IInv, TypeOK, QueueRecords
<1>2. ASSUME queue'.pending = queue.pending, queue'.scheduled = queue.scheduled,
             \A w \in Workers : Busy(w)' => Busy(w) /\ job'[w] = job[w],
             \A w \in Workers : job'[w] \in {job[w], None}
      PROVE  HandedOutOnce'
  <2>1. \A v, w \in Workers : v # w /\ Busy(v)' => job'[v] # job'[w]
    BY <1>1, <1>2 DEF HandedOutOnce, Busy
  <2> QED
    BY <1>2, <2>1 DEF HandedOutOnce
<1>3. ASSUME NEW j \in Jobs, Enqueue(j) PROVE HandedOutOnce'
  <2>1. \A w \in Workers : (Busy(w)' <=> Busy(w)) /\ job'[w] = job[w]
    BY <1>1, <1>3 DEF Enqueue, NotifyAll, Busy
  <2>2. CASE j.execution \in queue.scheduled
    BY <1>2, <1>3, <2>1, <2>2 DEF Enqueue, Enqueued
  <2>3. CASE j.execution \notin queue.scheduled
    <3>1. /\ queue'.pending = Append(queue.pending, j)
          /\ queue'.scheduled = queue.scheduled \cup {j.execution}
      BY <1>1, <1>3, <2>3, EnqueuedFields, JobsAssumption DEF Enqueue
    <3>2. \A k \in DOMAIN queue.pending : queue.pending[k] # j
      BY <2>3 DEF HandedOutOnce
    <3>3. \A w \in Workers : Busy(w) => job[w] # j
      BY <2>3 DEF HandedOutOnce
    <3>4. /\ DOMAIN queue'.pending = 1 .. Len(queue.pending) + 1
          /\ DOMAIN queue.pending = 1 .. Len(queue.pending)
          /\ \A k \in DOMAIN queue'.pending : queue'.pending[k] =
                IF k = Len(queue.pending) + 1 THEN j ELSE queue.pending[k]
          /\ Len(queue.pending) \in Nat
      BY <1>1, <3>1, JobsAssumption
    <3>5. \A k, m \in DOMAIN queue'.pending : k # m => queue'.pending[k] # queue'.pending[m]
      BY <3>2, <3>4 DEF HandedOutOnce
    <3>6. \A w \in Workers, k \in DOMAIN queue'.pending : Busy(w)' => queue'.pending[k] # job'[w]
      BY <2>1, <3>3, <3>4 DEF HandedOutOnce
    <3>7. \A k \in DOMAIN queue'.pending : queue'.pending[k].execution \in queue'.scheduled
      BY <3>1, <3>4 DEF HandedOutOnce
    <3> QED
      BY <2>1, <3>1, <3>5, <3>6, <3>7 DEF HandedOutOnce
  <2> QED
    BY <2>2, <2>3
<1>4. ASSUME NEW w \in Workers, NEW i \in DOMAIN queue.pending, Take(w, i)
      PROVE  HandedOutOnce'
  <2>1. /\ queue'.pending = RemoveAt(queue.pending, i)
        /\ queue'.scheduled = queue.scheduled
    BY <1>1, <1>4, TakenFields DEF Take
  <2>2. i \in 1 .. Len(queue.pending)
    BY <1>1
  <2>3. \A k \in DOMAIN queue'.pending :
           \E m \in DOMAIN queue.pending \ {i} : queue'.pending[k] = queue.pending[m]
    BY <1>1, <2>1, <2>2, RemoveAtRest
  <2>4. \A k, m \in DOMAIN queue'.pending : k # m => queue'.pending[k] # queue'.pending[m]
    <3>1. \A k, m \in DOMAIN queue.pending : k # m => queue.pending[k] # queue.pending[m]
      BY DEF HandedOutOnce
    <3> QED
      BY <1>1, <2>1, <2>2, <3>1, RemoveAtRest
  <2>5. /\ job' = [job EXCEPT ![w] = queue.pending[i]]
        /\ \A v \in Workers : Busy(v)' <=> Busy(v) \/ v = w
        /\ ~Busy(w) /\ job[w] = None /\ queue.pending[i] # None
    BY <1>1, <1>4, JobsAssumption DEF Take, Busy, IInv, TypeOK
  <2>6. \A v \in Workers, k \in DOMAIN queue'.pending : Busy(v)' => queue'.pending[k] # job'[v]
    <3> SUFFICES ASSUME NEW v \in Workers, NEW k \in DOMAIN queue'.pending, Busy(v)'
                 PROVE  queue'.pending[k] # job'[v]
      OBVIOUS
    <3>1. PICK m \in DOMAIN queue.pending \ {i} : queue'.pending[k] = queue.pending[m]
      BY <2>3
    <3>2. CASE v = w
      BY <1>1, <2>5, <3>1, <3>2 DEF HandedOutOnce
    <3>3. CASE v # w
      BY <1>1, <2>5, <3>1, <3>3 DEF HandedOutOnce
    <3> QED
      BY <3>2, <3>3
  <2>7. \A u, v \in Workers : u # v /\ Busy(u)' => job'[u] # job'[v]
    <3> SUFFICES ASSUME NEW u \in Workers, NEW v \in Workers, u # v, Busy(u)'
                 PROVE  job'[u] # job'[v]
      OBVIOUS
    <3>1. CASE u = w
      <4>1. job'[u] = queue.pending[i] /\ job'[v] = job[v]
        BY <1>1, <2>5, <3>1
      <4>2. CASE Busy(v)
        BY <4>1, <4>2 DEF HandedOutOnce
      <4>3. CASE ~Busy(v)
        BY <1>1, <2>5, <4>1, <4>3 DEF Busy
      <4> QED
        BY <4>2, <4>3
    <3>2. CASE v = w
      <4>1. job'[u] = job[u] /\ job'[v] = queue.pending[i] /\ Busy(u)
        BY <1>1, <2>5, <3>2
      <4> QED
        BY <4>1 DEF HandedOutOnce
    <3>3. CASE u # w /\ v # w
      BY <1>1, <2>5, <3>3 DEF HandedOutOnce
    <3> QED
      BY <3>1, <3>2, <3>3
  <2>8. \A v \in Workers : Busy(v)' => job'[v].execution \in queue'.scheduled
    BY <1>1, <2>1, <2>5 DEF HandedOutOnce
  <2>9. \A k \in DOMAIN queue'.pending : queue'.pending[k].execution \in queue'.scheduled
    BY <2>1, <2>3 DEF HandedOutOnce
  <2> QED
    BY <2>4, <2>6, <2>7, <2>8, <2>9 DEF HandedOutOnce
<1>5. ASSUME NEW w \in Workers, Exit(w) \/ Wait(w) \/ SpuriousWakeup(w)
      PROVE  HandedOutOnce'
  BY <1>1, <1>2, <1>5 DEF Exit, Wait, SpuriousWakeup, Busy
<1>6. ASSUME NEW w \in Workers, NEW release \in BOOLEAN, Busy(w),
             queue' = Completed(queue, job[w], release),
             NEW place \in Places \ {"busy"},
             pc' = [NotifyAll EXCEPT ![w] = place],
             job' = [job EXCEPT ![w] = None]
      PROVE  HandedOutOnce'
  <2>1. queue'.pending = queue.pending /\ queue'.scheduled = queue.scheduled
    <3>1. job[w] \in JobRecords /\ queue.active_groups[job[w].group] > 0
      BY <1>6, BusyIsCounted
    <3>2. /\ Completed(queue, job[w], release).pending = queue.pending
          /\ Completed(queue, job[w], release).scheduled = queue.scheduled
      BY <1>1, <3>1, CompletedFields
    <3> QED
      BY <1>6, <3>2
  <2>2. \A v \in Workers : /\ Busy(v)' => Busy(v) /\ job'[v] = job[v]
                           /\ job'[v] \in {job[v], None}
    BY <1>1, <1>6 DEF NotifyAll, Busy
  <2> QED
    BY <1>2, <2>1, <2>2
<1>7. ASSUME NEW w \in Workers, NEW release \in BOOLEAN, Complete(w, release)
      PROVE  HandedOutOnce'
  BY <1>6, <1>7 DEF Complete, Busy, Places
<1>8. ASSUME NEW w \in Workers, CompleteFailed(w) PROVE HandedOutOnce'
  BY <1>6, <1>8 DEF CompleteFailed, Busy, Places
<1>9. CASE Close
  <2>1. queue'.pending = queue.pending /\ queue'.scheduled = queue.scheduled
    BY <1>1, <1>9 DEF Close, Closed, QueueRecords
  <2>2. \A w \in Workers : (Busy(w)' => Busy(w)) /\ job'[w] = job[w]
    BY <1>1, <1>9 DEF Close, NotifyAll, Busy
  <2> QED
    BY <1>2, <2>1, <2>2
<1>10. CASE UNCHANGED vars
  BY <1>2, <1>10 DEF vars, Busy
<1> QED
  BY <1>3, <1>4, <1>5, <1>7, <1>8, <1>9, <1>10 DEF Next

\* No execution is run twice: the scheduled set outlives the job
\* (server.rs:110), so that snapshots of pending executions taken by several
\* threads at once cannot enqueue it again.
THEOREM AtMostOnce == Spec => []HandedOutOnce
<1>1. Init => HandedOutOnce
  BY DEF Init, EmptyQueue, HandedOutOnce, Busy
<1> QED
  BY <1>1, Invariance, NextHandedOutOnce, PTL DEF Spec
-------------------------------------------------------------------------------
(* The queue implements turns in order of arrival. *)

\* Induction, for a set of numbers
LEMMA Induction ==
    ASSUME NEW P, 0 \in P, \A n \in Nat : n \in P => n + 1 \in P
    PROVE  \A n \in Nat : n \in P
<1> DEFINE R == OpToRel(<, Nat)
           T == Nat \ P
<1>1. IsWellFoundedOn(R, Nat)
  BY NatLessThanWellFounded
<1>2. \A x, y \in Nat : y < x => <<y, x>> \in R
  BY DEF OpToRel
<1> HIDE DEF R
<1>3. ASSUME T # {} PROVE FALSE
  <2>1. PICK x \in T : \A y \in T : ~(<<y, x>> \in R)
    BY <1>1, <1>3, WFMin
  <2>2. x \in Nat /\ x # 0
    OBVIOUS
  <2>3. x - 1 \in Nat /\ x - 1 < x /\ (x - 1) + 1 = x
    BY <2>2
  <2>4. x - 1 \in P
    BY <1>2, <2>1, <2>2, <2>3
  <2> QED
    BY <2>1, <2>3, <2>4
<1> QED
  BY <1>3

\* f[n] are the groups that wait among the first n jobs.
WaitingUpTo(f, jobs, turn, s) ==
    /\ f \in [0 .. Len(jobs) -> Seq(Executions)]
    /\ f[0] = <<>>
    /\ \A n \in 1 .. Len(jobs) :
          f[n] = IF Waits(jobs, turn, s, n) THEN Append(f[n - 1], jobs[n].group) ELSE f[n - 1]
    /\ GroupsWaiting(jobs, turn, s) = f[Len(jobs)]

\* The waiting groups of a list are found job by job.
LEMMA WaitingRounds ==
    ASSUME NEW jobs \in Seq(JobRecords), NEW turn, NEW s
    PROVE  \E f : WaitingUpTo(f, jobs, turn, s)
<1> DEFINE Round(w, n) == IF Waits(jobs, turn, s, n) THEN Append(w, jobs[n].group) ELSE w
           Loop(g, n) == g = [i \in 0 .. n |-> IF i = 0 THEN <<>> ELSE Round(g[i - 1], i)]
           P == {n \in Nat : \E g : Loop(g, n)}
<1>0. Len(jobs) \in Nat
  OBVIOUS
<1>a. ASSUME NEW n \in 1 .. Len(jobs), NEW w \in Seq(Executions)
      PROVE  Round(w, n) \in Seq(Executions)
  <2>1. jobs[n] \in JobRecords
    OBVIOUS
  <2>2. jobs[n].group \in Executions
    BY <2>1 DEF JobRecords
  <2> QED
    BY <2>2
<1> HIDE DEF Round
<1>1. 0 \in P
  <2>1. Loop([i \in 0 .. 0 |-> <<>>], 0)
    OBVIOUS
  <2> QED
    BY <2>1
<1>2. ASSUME NEW n \in Nat, n \in P PROVE n + 1 \in P
  <2>1. PICK g : Loop(g, n)
    BY <1>2
  <2> DEFINE h == [i \in 0 .. (n + 1) |-> IF i = n + 1 THEN Round(g[n], n + 1) ELSE g[i]]
  <2>2. ASSUME NEW i \in 0 .. (n + 1)
        PROVE  h[i] = IF i = 0 THEN <<>> ELSE Round(h[i - 1], i)
    <3>1. CASE i = n + 1
      <4>1. h[n + 1] = Round(g[n], n + 1) /\ h[n] = g[n] /\ (n + 1) - 1 = n
        OBVIOUS
      <4> QED
        BY <3>1, <4>1
    <3>2. CASE i # n + 1
      <4>1. i \in 0 .. n /\ h[i] = g[i]
        BY <3>2
      <4>2. g[i] = IF i = 0 THEN <<>> ELSE Round(g[i - 1], i)
        BY <2>1, <4>1
      <4>3. i # 0 => h[i - 1] = g[i - 1]
        BY <3>2
      <4> QED
        BY <4>1, <4>2, <4>3
    <3> QED
      BY <3>1, <3>2
  <2>3. Loop(h, n + 1) /\ n + 1 \in Nat
    BY <2>2
  <2> HIDE DEF h
  <2>4. \E k : Loop(k, n + 1)
    BY <2>3
  <2> HIDE DEF Loop
  <2> QED
    BY <2>3, <2>4
<1>3. Len(jobs) \in P
  <2> HIDE DEF P
  <2> QED
    BY <1>0, <1>1, <1>2, Induction
<1> DEFINE f == CHOOSE g : Loop(g, Len(jobs))
<1>4. Loop(f, Len(jobs))
  BY <1>3
<1>5. GroupsWaiting(jobs, turn, s) = f[Len(jobs)]
  BY DEF GroupsWaiting, Round
<1> HIDE DEF f
<1>6. DOMAIN f = 0 .. Len(jobs) /\ f[0] = <<>>
  BY <1>0, <1>4
<1>7. \A n \in 1 .. Len(jobs) : f[n] = Round(f[n - 1], n)
  BY <1>0, <1>4
<1> DEFINE S == {n \in Nat : n <= Len(jobs) => f[n] \in Seq(Executions)}
<1>8. 0 \in S
  BY <1>6
<1>9. ASSUME NEW n \in Nat, n \in S PROVE n + 1 \in S
  <2>1. CASE n + 1 <= Len(jobs)
    <3>1. n + 1 \in 1 .. Len(jobs) /\ (n + 1) - 1 = n /\ f[n] \in Seq(Executions)
      BY <1>0, <1>9, <2>1
    <3>2. f[n + 1] = Round(f[n], n + 1)
      BY <1>7, <3>1
    <3> QED
      BY <1>a, <3>1, <3>2
  <2>2. CASE ~(n + 1 <= Len(jobs))
    BY <2>2
  <2> QED
    BY <2>1, <2>2
<1>10. \A n \in Nat : n \in S
  <2> HIDE DEF S
  <2> QED
    BY <1>8, <1>9, Induction
<1>11. f \in [0 .. Len(jobs) -> Seq(Executions)]
  <2>1. \A n \in 0 .. Len(jobs) : f[n] \in Seq(Executions)
    BY <1>0, <1>10
  <2>2. f = [i \in 0 .. Len(jobs) |-> f[i]]
    BY <1>4
  <2> QED
    BY <2>1, <2>2
<1> QED
  BY <1>5, <1>6, <1>7, <1>11 DEF Round, WaitingUpTo

\* A waiting group has a job where it begins to wait.
LEMMA WaitingHasJob ==
    ASSUME NEW jobs \in Seq(JobRecords), NEW turn, NEW s
    PROVE  /\ GroupsWaiting(jobs, turn, s) \in Seq(Executions)
           /\ \A i \in DOMAIN GroupsWaiting(jobs, turn, s) :
                 \E k \in 1 .. Len(jobs) : jobs[k].group = GroupsWaiting(jobs, turn, s)[i]
<1>1. PICK f : WaitingUpTo(f, jobs, turn, s)
  BY WaitingRounds
<1>0. Len(jobs) \in Nat
  OBVIOUS
<1> DEFINE From(w) == \A i \in DOMAIN w : \E k \in 1 .. Len(jobs) : jobs[k].group = w[i]
           S == {n \in Nat : n <= Len(jobs) => From(f[n])}
<1>2. 0 \in S
  BY <1>1 DEF WaitingUpTo
<1>3. ASSUME NEW n \in Nat, n \in S PROVE n + 1 \in S
  <2>1. CASE n + 1 <= Len(jobs)
    <3>0. /\ n + 1 \in 1 .. Len(jobs) /\ (n + 1) - 1 = n /\ n \in 0 .. Len(jobs)
          /\ jobs[n + 1] \in JobRecords
      BY <1>0, <2>1
    <3>b. From(f[n])
      BY <1>0, <1>3, <2>1
    <3>1. /\ n + 1 \in 1 .. Len(jobs) /\ (n + 1) - 1 = n /\ From(f[n])
          /\ f[n] \in Seq(Executions) /\ jobs[n + 1] \in JobRecords
      BY <1>1, <3>0, <3>b DEF WaitingUpTo
    <3>a. jobs[n + 1].group \in Executions
      BY <3>1 DEF JobRecords
    <3>2. f[n + 1] = IF Waits(jobs, turn, s, n + 1) THEN Append(f[n], jobs[n + 1].group)
                     ELSE f[n]
      BY <1>1, <3>1 DEF WaitingUpTo
    <3>3. From(Append(f[n], jobs[n + 1].group))
      <4> DEFINE a == Append(f[n], jobs[n + 1].group)
      <4>1. /\ DOMAIN a = 1 .. Len(f[n]) + 1 /\ Len(f[n]) \in Nat
            /\ DOMAIN f[n] = 1 .. Len(f[n])
            /\ \A i \in 1 .. Len(f[n]) : a[i] = f[n][i]
            /\ a[Len(f[n]) + 1] = jobs[n + 1].group
        BY <3>1, <3>a, AppendProperties
      <4> HIDE DEF a
      <4>2. ASSUME NEW i \in DOMAIN a
            PROVE  \E k \in 1 .. Len(jobs) : jobs[k].group = a[i]
        <5>1. CASE i = Len(f[n]) + 1
          BY <3>1, <4>1, <5>1
        <5>2. CASE i # Len(f[n]) + 1
          <6>1. i \in DOMAIN f[n] /\ a[i] = f[n][i]
            BY <4>1, <5>2
          <6> QED
            BY <3>1, <6>1
        <5> QED
          BY <5>1, <5>2
      <4> QED
        BY <4>2 DEF a
    <3> HIDE DEF From
    <3> QED
      BY <3>1, <3>2, <3>3
  <2>2. CASE ~(n + 1 <= Len(jobs))
    BY <2>2
  <2> QED
    BY <2>1, <2>2
<1>4. \A n \in Nat : n \in S
  <2> HIDE DEF S
  <2> QED
    BY <1>2, <1>3, Induction
<1>5. From(f[Len(jobs)])
  BY <1>0, <1>4
<1> QED
  BY <1>0, <1>1, <1>5 DEF WaitingUpTo

\* Who waits depends on where a wait begins only.
LEMMA SameWaiting ==
    ASSUME NEW jobs \in Seq(JobRecords), NEW more \in Seq(JobRecords), NEW turn, NEW then, NEW s,
           Len(jobs) = Len(more),
           \A n \in 1 .. Len(jobs) : /\ jobs[n].group = more[n].group
                                     /\ Waits(jobs, turn, s, n) <=> Waits(more, then, s, n)
    PROVE  GroupsWaiting(more, then, s) = GroupsWaiting(jobs, turn, s)
<1>1. PICK f : WaitingUpTo(f, jobs, turn, s)
  BY WaitingRounds
<1>2. PICK g : WaitingUpTo(g, more, then, s)
  BY WaitingRounds
<1>0. Len(jobs) \in Nat
  OBVIOUS
<1> DEFINE S == {n \in Nat : n <= Len(jobs) => f[n] = g[n]}
<1>3. 0 \in S
  BY <1>1, <1>2 DEF WaitingUpTo
<1>4. ASSUME NEW n \in Nat, n \in S PROVE n + 1 \in S
  <2>1. CASE n + 1 <= Len(jobs)
    <3>1. n + 1 \in 1 .. Len(jobs) /\ (n + 1) - 1 = n /\ f[n] = g[n]
      BY <1>0, <1>4, <2>1
    <3>2. f[n + 1] = IF Waits(jobs, turn, s, n + 1) THEN Append(f[n], jobs[n + 1].group)
                     ELSE f[n]
      BY <1>1, <3>1 DEF WaitingUpTo
    <3>3. g[n + 1] = IF Waits(more, then, s, n + 1) THEN Append(g[n], more[n + 1].group)
                     ELSE g[n]
      BY <1>2, <3>1 DEF WaitingUpTo
    <3> QED
      BY <3>1, <3>2, <3>3
  <2>2. CASE ~(n + 1 <= Len(jobs))
    BY <2>2
  <2> QED
    BY <2>1, <2>2
<1>5. \A n \in Nat : n \in S
  <2> HIDE DEF S
  <2> QED
    BY <1>3, <1>4, Induction
<1> QED
  BY <1>0, <1>1, <1>2, <1>5 DEF WaitingUpTo

\* A job at the end may make its group wait.
LEMMA AppendedWaits ==
    ASSUME NEW jobs \in Seq(JobRecords), NEW j \in JobRecords, NEW turn, NEW s
    PROVE  /\ Waits(Append(jobs, j), turn, s, Len(jobs) + 1) =>
                 GroupsWaiting(Append(jobs, j), turn, s) =
                    Append(GroupsWaiting(jobs, turn, s), j.group)
           /\ ~Waits(Append(jobs, j), turn, s, Len(jobs) + 1) =>
                 GroupsWaiting(Append(jobs, j), turn, s) = GroupsWaiting(jobs, turn, s)
<1> DEFINE more == Append(jobs, j)
<1>0. /\ more \in Seq(JobRecords) /\ Len(more) = Len(jobs) + 1 /\ Len(jobs) \in Nat
      /\ \A n \in 1 .. Len(jobs) : more[n] = jobs[n]
      /\ more[Len(jobs) + 1] = j
  BY AppendProperties
<1> HIDE DEF more
<1>1. PICK f : WaitingUpTo(f, jobs, turn, s)
  BY WaitingRounds
<1>2. PICK g : WaitingUpTo(g, more, turn, s)
  BY <1>0, WaitingRounds
<1>3. \A n \in 1 .. Len(jobs) : Waits(more, turn, s, n) <=> Waits(jobs, turn, s, n)
  BY <1>0 DEF Waits
<1> DEFINE S == {n \in Nat : n <= Len(jobs) => f[n] = g[n]}
<1>4. 0 \in S
  BY <1>1, <1>2 DEF WaitingUpTo
<1>5. ASSUME NEW n \in Nat, n \in S PROVE n + 1 \in S
  <2>1. CASE n + 1 <= Len(jobs)
    <3>1. /\ n + 1 \in 1 .. Len(jobs) /\ n + 1 \in 1 .. Len(more)
          /\ (n + 1) - 1 = n /\ f[n] = g[n]
      BY <1>0, <1>5, <2>1
    <3>2. f[n + 1] = IF Waits(jobs, turn, s, n + 1) THEN Append(f[n], jobs[n + 1].group)
                     ELSE f[n]
      BY <1>1, <3>1 DEF WaitingUpTo
    <3>3. g[n + 1] = IF Waits(more, turn, s, n + 1) THEN Append(g[n], more[n + 1].group)
                     ELSE g[n]
      BY <1>2, <3>1 DEF WaitingUpTo
    <3> QED
      BY <1>0, <1>3, <3>1, <3>2, <3>3
  <2>2. CASE ~(n + 1 <= Len(jobs))
    BY <2>2
  <2> QED
    BY <2>1, <2>2
<1>6. \A n \in Nat : n \in S
  <2> HIDE DEF S
  <2> QED
    BY <1>4, <1>5, Induction
<1>7. f[Len(jobs)] = g[Len(jobs)] /\ Len(more) \in 1 .. Len(more) /\ Len(more) - 1 = Len(jobs)
  BY <1>0, <1>6
<1>8. g[Len(more)] = IF Waits(more, turn, s, Len(more)) THEN Append(g[Len(jobs)], j.group)
                     ELSE g[Len(jobs)]
  BY <1>0, <1>2, <1>7 DEF WaitingUpTo
<1>9. f[Len(jobs)] = GroupsWaiting(jobs, turn, s) /\ g[Len(more)] = GroupsWaiting(more, turn, s)
  BY <1>1, <1>2 DEF WaitingUpTo
<1> QED
  BY <1>0, <1>7, <1>8, <1>9 DEF more

\* A job is taken that did not make its group wait; nobody else waits for it.
LEMMA TakenWaits ==
    ASSUME NEW jobs \in Seq(JobRecords), NEW i \in 1 .. Len(jobs), NEW turn, NEW then, NEW s,
           ~Waits(jobs, turn, s, i),
           \A n \in 1 .. Len(jobs) - 1 :
              Waits(RemoveAt(jobs, i), then, s, n) <=>
                 Waits(jobs, turn, s, IF n < i THEN n ELSE n + 1)
    PROVE  GroupsWaiting(RemoveAt(jobs, i), then, s) = GroupsWaiting(jobs, turn, s)
<1> DEFINE rest == RemoveAt(jobs, i)
           at(n) == IF n < i THEN n ELSE n + 1
<1>a. /\ rest \in Seq(JobRecords) /\ Len(rest) = Len(jobs) - 1
      /\ \A n \in 1 .. Len(jobs) - 1 : rest[n] = IF n < i THEN jobs[n] ELSE jobs[n + 1]
  BY RemoveAtElements
<1>b. \A n \in 1 .. Len(jobs) - 1 : Waits(rest, then, s, n) <=> Waits(jobs, turn, s, at(n))
  OBVIOUS
<1> HIDE DEF rest
<1>0. /\ rest \in Seq(JobRecords) /\ Len(rest) = Len(jobs) - 1
      /\ Len(jobs) \in Nat /\ Len(rest) \in Nat
      /\ \A n \in 1 .. Len(rest) : rest[n] = jobs[at(n)]
      /\ \A n \in 1 .. Len(rest) : Waits(rest, then, s, n) <=> Waits(jobs, turn, s, at(n))
  BY <1>a, <1>b
<1>1. PICK f : WaitingUpTo(f, jobs, turn, s)
  BY WaitingRounds
<1>2. PICK g : WaitingUpTo(g, rest, then, s)
  BY <1>0, WaitingRounds
<1> DEFINE S == {n \in Nat : n <= Len(rest) => /\ n < i => g[n] = f[n]
                                               /\ n + 1 >= i => g[n] = f[n + 1]}
<1>3. f[i] = f[i - 1]
  BY <1>1 DEF WaitingUpTo
<1>4. 0 \in S
  <2>1. g[0] = f[0]
    BY <1>1, <1>2 DEF WaitingUpTo
  <2>2. 1 >= i => i = 1
    OBVIOUS
  <2> QED
    BY <1>3, <2>1, <2>2
<1>5. ASSUME NEW n \in Nat, n \in S PROVE n + 1 \in S
  <2>1. CASE n + 1 <= Len(rest)
    <3>1. /\ n + 1 \in 1 .. Len(rest) /\ (n + 1) - 1 = n
          /\ n < i => g[n] = f[n]
          /\ n + 1 >= i => g[n] = f[n + 1]
          /\ at(n + 1) \in 1 .. Len(jobs)
      BY <1>0, <1>5, <2>1
    <3>2. g[n + 1] = IF Waits(rest, then, s, n + 1) THEN Append(g[n], rest[n + 1].group)
                     ELSE g[n]
      BY <1>2, <3>1 DEF WaitingUpTo
    <3>3. f[at(n + 1)] = IF Waits(jobs, turn, s, at(n + 1))
                         THEN Append(f[at(n + 1) - 1], jobs[at(n + 1)].group)
                         ELSE f[at(n + 1) - 1]
      BY <1>1, <3>1 DEF WaitingUpTo
    <3>4. g[n] = f[at(n + 1) - 1]
      BY <3>1
    <3>5. g[n + 1] = f[at(n + 1)]
      <4> HIDE DEF at
      <4> QED
        BY <1>0, <3>1, <3>2, <3>3, <3>4
    <3>6. n + 1 < i => g[n + 1] = f[n + 1]
      BY <3>5
    <3>7. n + 1 >= i => g[n + 1] = f[(n + 1) + 1]
      BY <3>5
    <3>8. (n + 1) + 1 = i => f[(n + 1) + 1] = f[n + 1]
      BY <1>3
    <3> QED
      BY <3>6, <3>7, <3>8
  <2>2. CASE ~(n + 1 <= Len(rest))
    BY <2>2
  <2> QED
    BY <2>1, <2>2
<1>6. \A n \in Nat : n \in S
  <2> HIDE DEF S
  <2> QED
    BY <1>4, <1>5, Induction
<1>7. g[Len(rest)] = f[Len(jobs)]
  <2>1. Len(rest) \in S /\ Len(rest) + 1 >= i /\ Len(rest) + 1 = Len(jobs)
    BY <1>0, <1>6
  <2> QED
    BY <1>0, <2>1
<1> QED
  BY <1>1, <1>2, <1>7 DEF WaitingUpTo, rest

\* The i-th job is where the first group of session s waits, and the groups
\* after it wait in rest, which lacks that job.
FirstWaits(jobs, rest, i, turn, then, s) ==
    /\ Waits(jobs, turn, s, i)
    /\ \A n \in 1 .. i - 1 : ~Waits(jobs, turn, s, n) /\ ~Waits(rest, then, s, n)
    /\ \A n \in i .. Len(jobs) - 1 : Waits(rest, then, s, n) <=> Waits(jobs, turn, s, n + 1)

\* The job that is taken begins the first group that waits.
LEMMA BegunWaits ==
    ASSUME NEW jobs \in Seq(JobRecords), NEW i \in 1 .. Len(jobs), NEW turn, NEW then, NEW s,
           FirstWaits(jobs, RemoveAt(jobs, i), i, turn, then, s)
    PROVE  /\ GroupsWaiting(jobs, turn, s) # <<>>
           /\ Head(GroupsWaiting(jobs, turn, s)) = jobs[i].group
           /\ Tail(GroupsWaiting(jobs, turn, s)) = GroupsWaiting(RemoveAt(jobs, i), then, s)
<1> DEFINE rest == RemoveAt(jobs, i)
<1>b. /\ rest \in Seq(JobRecords) /\ Len(rest) = Len(jobs) - 1
      /\ \A n \in 1 .. Len(jobs) - 1 : rest[n] = IF n < i THEN jobs[n] ELSE jobs[n + 1]
  BY RemoveAtElements
<1>c. /\ Waits(jobs, turn, s, i)
      /\ \A n \in 1 .. i - 1 : ~Waits(jobs, turn, s, n) /\ ~Waits(rest, then, s, n)
      /\ \A n \in i .. Len(jobs) - 1 : Waits(rest, then, s, n) <=> Waits(jobs, turn, s, n + 1)
  BY DEF FirstWaits
<1> HIDE DEF rest
<1>0. /\ rest \in Seq(JobRecords) /\ Len(rest) = Len(jobs) - 1
      /\ Len(jobs) \in Nat /\ Len(rest) \in Nat
      /\ \A n \in i .. Len(rest) : rest[n] = jobs[n + 1]
      /\ \A n \in 1 .. i - 1 : ~Waits(jobs, turn, s, n) /\ ~Waits(rest, then, s, n)
      /\ \A n \in i .. Len(rest) : Waits(rest, then, s, n) <=> Waits(jobs, turn, s, n + 1)
  BY <1>b, <1>c
<1>1. PICK f : WaitingUpTo(f, jobs, turn, s)
  BY WaitingRounds
<1>2. PICK g : WaitingUpTo(g, rest, then, s)
  BY <1>0, WaitingRounds
<1>a. \A n \in 1 .. Len(jobs) : jobs[n].group \in Executions
  <2>1. \A n \in 1 .. Len(jobs) : jobs[n] \in JobRecords
    OBVIOUS
  <2>2. \A j \in JobRecords : j.group \in Executions
    BY DEF JobRecords
  <2> QED
    BY <2>1, <2>2
<1> DEFINE Begun(w, v) == w # <<>> /\ Head(w) = jobs[i].group /\ Tail(w) = v
           S == {n \in Nat : n <= Len(rest) => /\ n < i => f[n] = <<>> /\ g[n] = <<>>
                                               /\ n + 1 >= i => Begun(f[n + 1], g[n])}
<1>3. f[i - 1] = <<>> => Begun(f[i], <<>>)
  <2>1. f[i] = Append(f[i - 1], jobs[i].group)
    BY <1>1, <1>c DEF WaitingUpTo
  <2>2. jobs[i].group \in Executions /\ <<>> \in Seq(Executions)
    BY <1>a
  <2>3. /\ Append(<<>>, jobs[i].group) # <<>>
        /\ Head(Append(<<>>, jobs[i].group)) = jobs[i].group
        /\ Tail(Append(<<>>, jobs[i].group)) = <<>>
    BY <2>2, HeadTailAppend, AppendProperties
  <2> QED
    BY <2>1, <2>3
<1> HIDE DEF Begun
<1>4. 0 \in S
  <2>1. g[0] = <<>> /\ f[0] = <<>>
    BY <1>1, <1>2 DEF WaitingUpTo
  <2>2. 1 >= i => i = 1
    OBVIOUS
  <2> QED
    BY <1>3, <2>1, <2>2
<1>5. ASSUME NEW n \in Nat, n \in S PROVE n + 1 \in S
  <2>1. CASE n + 1 <= Len(rest)
    <3>1. /\ n + 1 \in 1 .. Len(rest) /\ (n + 1) - 1 = n
          /\ n < i => f[n] = <<>> /\ g[n] = <<>>
          /\ n + 1 >= i => Begun(f[n + 1], g[n])
          /\ n + 1 \in 1 .. Len(jobs) /\ (n + 1) + 1 \in 1 .. Len(jobs)
          /\ ((n + 1) + 1) - 1 = n + 1
      BY <1>0, <1>5, <2>1
    <3>2. g[n + 1] = IF Waits(rest, then, s, n + 1) THEN Append(g[n], rest[n + 1].group)
                     ELSE g[n]
      BY <1>2, <3>1 DEF WaitingUpTo
    <3>3. f[n + 1] = IF Waits(jobs, turn, s, n + 1) THEN Append(f[n], jobs[n + 1].group)
                     ELSE f[n]
      BY <1>1, <3>1 DEF WaitingUpTo
    <3>4. f[(n + 1) + 1] = IF Waits(jobs, turn, s, (n + 1) + 1)
                           THEN Append(f[n + 1], jobs[(n + 1) + 1].group)
                           ELSE f[n + 1]
      BY <1>1, <3>1 DEF WaitingUpTo
    <3>5. n + 1 < i => f[n + 1] = <<>> /\ g[n + 1] = <<>>
      BY <1>0, <3>1, <3>2, <3>3
    <3>6. (n + 1) + 1 = i => Begun(f[(n + 1) + 1], g[n + 1])
      BY <1>3, <3>5
    <3>7. CASE n + 1 >= i
      <4>1. /\ rest[n + 1] = jobs[(n + 1) + 1]
            /\ Waits(rest, then, s, n + 1) <=> Waits(jobs, turn, s, (n + 1) + 1)
            /\ Begun(f[n + 1], g[n])
        BY <1>0, <3>1, <3>7
      <4> DEFINE x == jobs[(n + 1) + 1].group
      <4>2. f[n + 1] \in Seq(Executions) /\ g[n] \in Seq(Executions) /\ x \in Executions
        <5>1. n \in 0 .. Len(rest) /\ n + 1 \in 0 .. Len(jobs)
          BY <3>1
        <5> QED
          BY <1>1, <1>2, <1>a, <3>1, <5>1 DEF WaitingUpTo
      <4>3. Begun(Append(f[n + 1], x), Append(g[n], x))
        <5> HIDE DEF x
        <5>1. /\ Append(f[n + 1], x) # <<>>
              /\ Head(Append(f[n + 1], x)) = Head(f[n + 1])
              /\ Tail(Append(f[n + 1], x)) = Append(Tail(f[n + 1]), x)
          <6>1. f[n + 1] # <<>>
            BY <4>1 DEF Begun
          <6>2. Append(f[n + 1], x) # <<>>
            BY <4>2, AppendProperties
          <6>3. /\ Head(Append(f[n + 1], x)) = IF f[n + 1] = <<>> THEN x ELSE Head(f[n + 1])
                /\ Tail(Append(f[n + 1], x)) =
                      IF f[n + 1] = <<>> THEN <<>> ELSE Append(Tail(f[n + 1]), x)
            BY <4>2, HeadTailAppend
          <6> QED
            BY <6>1, <6>2, <6>3
        <5> QED
          BY <4>1, <5>1 DEF Begun
      <4>4. Begun(f[(n + 1) + 1], g[n + 1])
        BY <3>2, <3>4, <4>1, <4>3
      <4> QED
        BY <3>7, <4>4
    <3>8. CASE ~(n + 1 >= i)
      BY <3>5, <3>6, <3>8
    <3> QED
      BY <3>7, <3>8
  <2>2. CASE ~(n + 1 <= Len(rest))
    BY <2>2
  <2> QED
    BY <2>1, <2>2
<1>6. \A n \in Nat : n \in S
  <2> HIDE DEF S
  <2> QED
    BY <1>4, <1>5, Induction
<1>7. Begun(f[Len(jobs)], g[Len(rest)])
  <2>1. Len(rest) \in S /\ Len(rest) + 1 >= i /\ Len(rest) + 1 = Len(jobs)
    BY <1>0, <1>6
  <2> QED
    BY <1>0, <2>1
<1> QED
  BY <1>1, <1>2, <1>7 DEF WaitingUpTo, Begun, rest

\* Taking away a job leaves the others where they wait, unless it was of their group.
LEMMA RemovedWaits ==
    ASSUME NEW jobs \in Seq(JobRecords), NEW i \in 1 .. Len(jobs), NEW turn, NEW s,
           NEW n \in 1 .. Len(jobs) - 1, NEW m \in 1 .. Len(jobs),
           m = IF n < i THEN n ELSE n + 1,
           jobs[m].session = s /\ jobs[m].group # turn => jobs[i].group # jobs[m].group
    PROVE  Waits(RemoveAt(jobs, i), turn, s, n) <=> Waits(jobs, turn, s, m)
<1> DEFINE rest == RemoveAt(jobs, i)
<1>1. \A k \in 1 .. Len(jobs) - 1 : rest[k] = IF k < i THEN jobs[k] ELSE jobs[k + 1]
  BY RemoveAtElements
<1> HIDE DEF rest
<1>2. rest[n] = jobs[m] /\ Len(jobs) \in Nat
  BY <1>1
<1>3. ASSUME jobs[m].session = s, jobs[m].group # turn,
             \A k \in 1 .. n - 1 : rest[k].group # rest[n].group,
             NEW k \in 1 .. m - 1
      PROVE  jobs[k].group # jobs[m].group
  <2>1. CASE k = i
    BY <1>3, <2>1
  <2>2. CASE k < i
    <3>1. k \in 1 .. n - 1 /\ rest[k] = jobs[k]
      BY <1>1, <1>2, <2>2
    <3> QED
      BY <1>2, <1>3, <3>1
  <2>3. CASE k > i
    <3>1. k - 1 \in 1 .. n - 1 /\ rest[k - 1] = jobs[k]
      BY <1>1, <1>2, <2>3
    <3> QED
      BY <1>2, <1>3, <3>1
  <2> QED
    BY <2>1, <2>2, <2>3
<1>4. ASSUME \A k \in 1 .. m - 1 : jobs[k].group # jobs[m].group,
             NEW k \in 1 .. n - 1
      PROVE  rest[k].group # rest[n].group
  <2> DEFINE at == IF k < i THEN k ELSE k + 1
  <2>1. at \in 1 .. m - 1 /\ rest[k] = jobs[at]
    BY <1>1, <1>2
  <2> QED
    BY <1>2, <1>4, <2>1
<1> QED
  BY <1>2, <1>3, <1>4 DEF Waits, rest

Waiting == [s \in Sessions |-> WaitingGroups(s)]

\* Nobody's turn and nobody waiting: the queue starts empty.
LEMMA InitTurns == Init => Turns!Init
<1> SUFFICES ASSUME Init, NEW s \in Sessions PROVE WaitingGroups(s) = <<>>
  BY DEF Init, EmptyQueue, Turns!Init
<1>1. queue.pending = <<>> /\ <<>> \in Seq(JobRecords) /\ Len(<<>>) = 0
  BY DEF Init, EmptyQueue
<1>2. PICK f : WaitingUpTo(f, <<>>, queue.active_sessions[s], s)
  BY <1>1, WaitingRounds
<1> QED
  BY <1>1, <1>2 DEF WaitingUpTo, WaitingGroups

\* enqueue() asks for a turn, or adds to a group that has one or waits already.
LEMMA EnqueueTurns ==
    ASSUME IInv, NEW j \in Jobs, Enqueue(j)
    PROVE  Turns!Next \/ (queue'.active_sessions = queue.active_sessions /\ Waiting' = Waiting)
<1>1. /\ queue \in QueueRecords /\ j \in JobRecords
      /\ queue.pending \in Seq(JobRecords) /\ j.session \in Sessions /\ j.group \in Executions
  BY JobsAssumption DEF IInv, TypeOK, QueueRecords, JobRecords
<1>2. CASE j.execution \in queue.scheduled
  BY <1>2 DEF Enqueue, Enqueued, Waiting, WaitingGroups
<1>3. CASE j.execution \notin queue.scheduled
  <2> DEFINE more == Append(queue.pending, j)
             last == Len(queue.pending) + 1
             waits(s) == Waits(more, queue.active_sessions[s], s, last)
  <2>1. queue'.pending = more /\ queue'.active_sessions = queue.active_sessions
    BY <1>1, <1>3, EnqueuedFields DEF Enqueue
  <2>2. /\ more[last] = j /\ last \in Nat
        /\ \A k \in 1 .. last - 1 : more[k] = queue.pending[k]
    BY <1>1, AppendProperties
  <2>3. \A s \in Sessions : WaitingGroups(s)' =
            IF waits(s) THEN Append(WaitingGroups(s), j.group) ELSE WaitingGroups(s)
    <3> SUFFICES ASSUME NEW s \in Sessions
                 PROVE  WaitingGroups(s)' =
                           IF waits(s) THEN Append(WaitingGroups(s), j.group)
                           ELSE WaitingGroups(s)
      OBVIOUS
    <3>1. /\ WaitingGroups(s)' = GroupsWaiting(more, queue.active_sessions[s], s)
          /\ WaitingGroups(s) = GroupsWaiting(queue.pending, queue.active_sessions[s], s)
      BY <2>1, Zenon DEF WaitingGroups
    <3>2. CASE waits(s)
      BY <1>1, <3>1, <3>2, AppendedWaits
    <3>3. CASE ~waits(s)
      BY <1>1, <3>1, <3>3, AppendedWaits
    <3> QED
      BY <3>2, <3>3
  <2> HIDE DEF more, last
  <2>4. \A s \in Sessions : waits(s) => s = j.session
    BY <2>2 DEF Waits
  <2>5. CASE waits(j.session)
    <3> DEFINE s == j.session
    <3>1. j.group # queue.active_sessions[s]
      BY <2>2, <2>5 DEF Waits
    <3>2. \A k \in 1 .. Len(queue.pending) : queue.pending[k].group # j.group
      BY <2>2, <2>5, <1>1 DEF Waits, last
    <3>3. \A k \in DOMAIN WaitingGroups(s) : WaitingGroups(s)[k] # j.group
      BY <1>1, <3>2, WaitingHasJob DEF WaitingGroups
    <3>4. Waiting' = [Waiting EXCEPT ![s] = Append(@, j.group)]
      <4>1. Waiting' = [t \in Sessions |-> IF t = s THEN Append(WaitingGroups(t), j.group)
                                           ELSE WaitingGroups(t)]
        BY <2>3, <2>4, <2>5 DEF Waiting
      <4> QED
        BY <1>1, <4>1 DEF Waiting
    <3>5. Turns!Ask(s, j.group)
      BY <1>1, <2>1, <3>1, <3>3, <3>4 DEF Turns!Ask, Waiting
    <3> QED
      BY <1>1, <3>5 DEF Turns!Next
  <2>6. CASE ~waits(j.session)
    <3>1. \A s \in Sessions : WaitingGroups(s)' = WaitingGroups(s)
      BY <2>3, <2>4, <2>6
    <3> QED
      BY <2>1, <3>1 DEF Waiting
  <2> QED
    BY <2>5, <2>6
<1> QED
  BY <1>2, <1>3

\* next() goes on with the group whose turn it is, or begins the turn of the
\* first group that waits.
LEMMA TakeTurns ==
    ASSUME IInv, NEW w \in Workers, NEW i \in DOMAIN queue.pending, Take(w, i)
    PROVE  Turns!Next \/ (queue'.active_sessions = queue.active_sessions /\ Waiting' = Waiting)
<1> DEFINE jobs == queue.pending
           rest == RemoveAt(jobs, i)
           turn == queue.active_sessions
           s == jobs[i].session
           g == jobs[i].group
           at(n) == IF n < i THEN n ELSE n + 1
<1>1. /\ queue \in QueueRecords /\ jobs \in Seq(JobRecords) /\ i \in 1 .. Len(jobs)
      /\ Len(jobs) \in Nat
      /\ turn \in [Sessions -> Executions \cup {None}]
      /\ \A k \in 1 .. Len(jobs) : jobs[k] \in Jobs
  BY DEF IInv, TypeOK, QueueRecords
<1>2. /\ \A k \in 1 .. Len(jobs) : jobs[k].session \in Sessions /\ jobs[k].group \in Executions
      /\ \A k \in 1 .. Len(jobs) : jobs[k].group = g => jobs[k].session = s
      /\ None \notin Executions
  <2>1. \A j \in Jobs : j.session \in Sessions /\ j.group \in Executions
    BY JobsAssumption DEF JobRecords
  <2>2. \A j, k \in Jobs : j.group = k.group => j.session = k.session
    BY JobsAssumption
  <2> QED
    BY <1>1, <2>1, <2>2, JobsAssumption
<1>3. /\ queue'.pending = rest
      /\ queue'.active_sessions = [turn EXCEPT ![s] = IF @ = None THEN g ELSE @]
  BY <1>1, TakenFields DEF Take
<1>4. turn[s] \in {None, g} /\ \A k \in 1 .. i - 1 : turn[jobs[k].session] \notin {None, jobs[k].group}
  BY DEF Take, FirstEligible, Eligible
<1>5. \A n \in 1 .. Len(jobs) - 1 : at(n) \in 1 .. Len(jobs) /\ at(n) # i
  BY <1>1
<1>6. \A t \in Sessions : WaitingGroups(t) = GroupsWaiting(jobs, turn[t], t)
  BY DEF WaitingGroups
<1>7. \A t \in Sessions :
         WaitingGroups(t)' = GroupsWaiting(rest, queue'.active_sessions[t], t)
  BY <1>3, Zenon DEF WaitingGroups
<1> HIDE DEF jobs, rest, turn, s, g, at
<1>8. ASSUME NEW t \in Sessions, queue'.active_sessions[t] = turn[t], t # s \/ turn[t] = g
      PROVE  WaitingGroups(t)' = WaitingGroups(t)
  <2>1. ~Waits(jobs, turn[t], t, i)
    BY <1>8 DEF Waits, s, g
  <2>2. ASSUME NEW n \in 1 .. Len(jobs) - 1
        PROVE  Waits(rest, turn[t], t, n) <=> Waits(jobs, turn[t], t, at(n))
    <3>1. jobs[at(n)].session = t /\ jobs[at(n)].group # turn[t] => g # jobs[at(n)].group
      BY <1>2, <1>5, <1>8
    <3> QED
      BY <1>1, <1>5, <3>1, RemovedWaits DEF rest, at, g
  <2>3. GroupsWaiting(rest, turn[t], t) = GroupsWaiting(jobs, turn[t], t)
    BY <1>1, <2>1, <2>2, TakenWaits DEF rest, at
  <2> QED
    BY <1>6, <1>7, <1>8, <2>3
<1>9. CASE turn[s] = g
  <2>1. queue'.active_sessions = turn
    BY <1>1, <1>2, <1>3, <1>9
  <2>2. \A t \in Sessions : WaitingGroups(t)' = WaitingGroups(t)
    BY <1>8, <1>9, <2>1
  <2> QED
    BY <2>1, <2>2 DEF Waiting, turn
<1>10. CASE turn[s] = None
  <2>0. s \in Sessions /\ g \in Executions
    BY <1>1, <1>2 DEF s, g
  <2>1. queue'.active_sessions = [turn EXCEPT ![s] = g]
    BY <1>3, <1>10
  <2>2. \A t \in Sessions \ {s} : WaitingGroups(t)' = WaitingGroups(t)
    BY <1>1, <1>8, <2>1
  <2>3. \A n \in 1 .. i - 1 : jobs[n].session # s
    BY <1>4, <1>10
  <2>4. Waits(jobs, None, s, i)
    <3>1. \A k \in 1 .. i - 1 : jobs[k].group # g
      BY <1>1, <1>2, <2>3
    <3> QED
      BY <1>2, <2>0, <3>1 DEF Waits, s, g
  <2>5. ASSUME NEW n \in 1 .. i - 1
        PROVE  ~Waits(jobs, None, s, n) /\ ~Waits(rest, g, s, n)
    <3>0. n \in 1 .. Len(jobs) - 1 /\ n < i
      BY <1>1
    <3>1. rest[n] = jobs[n]
      BY <1>1, <3>0, RemoveAtElements DEF rest
    <3> QED
      BY <2>3, <3>1 DEF Waits
  <2>6. ASSUME NEW n \in i .. Len(jobs) - 1
        PROVE  Waits(rest, g, s, n) <=> Waits(jobs, None, s, n + 1)
    <3>1. /\ n \in 1 .. Len(jobs) - 1 /\ n + 1 \in 1 .. Len(jobs) /\ i \in 1 .. (n + 1) - 1
          /\ n + 1 = IF n < i THEN n ELSE n + 1
      BY <1>1
    <3>2. Waits(rest, g, s, n) <=> Waits(jobs, g, s, n + 1)
      BY <1>1, <3>1, RemovedWaits DEF rest, g
    <3>3. jobs[n + 1].group # None
      BY <1>2, <3>1
    <3>4. Waits(jobs, g, s, n + 1) <=> Waits(jobs, None, s, n + 1)
      BY <3>1, <3>3 DEF Waits, g
    <3> QED
      BY <3>2, <3>4
  <2>7. /\ GroupsWaiting(jobs, None, s) # <<>>
        /\ Head(GroupsWaiting(jobs, None, s)) = g
        /\ Tail(GroupsWaiting(jobs, None, s)) = GroupsWaiting(rest, g, s)
    <3>1. FirstWaits(jobs, rest, i, None, g, s)
      BY <2>4, <2>5, <2>6 DEF FirstWaits
    <3> QED
      BY <1>1, <3>1, BegunWaits DEF rest, g
  <2>a. PICK c \in Sessions : c = s
    BY <2>0
  <2>8. /\ WaitingGroups(c) # <<>> /\ Head(WaitingGroups(c)) = g
        /\ WaitingGroups(c)' = Tail(WaitingGroups(c))
    <3>1. queue'.active_sessions[c] = g /\ turn[c] = None
      BY <1>1, <1>10, <2>1, <2>a
    <3>2. WaitingGroups(c) = GroupsWaiting(jobs, None, s)
      BY <1>6, <2>a, <3>1
    <3>3. WaitingGroups(c)' = GroupsWaiting(rest, g, s)
      BY <1>7, <2>a, <3>1
    <3> QED
      BY <2>7, <3>2, <3>3
  <2>9. Waiting' = [Waiting EXCEPT ![c] = Tail(@)]
    <3>1. \A t \in Sessions \ {c} : WaitingGroups(t)' = WaitingGroups(t)
      BY <2>2, <2>a
    <3>2. Waiting' = [t \in Sessions |-> IF t = c THEN Tail(WaitingGroups(t)) ELSE WaitingGroups(t)]
      BY <2>8, <3>1 DEF Waiting
    <3> QED
      BY <3>2 DEF Waiting
  <2>10. Turns!Begin(c)
    BY <1>10, <2>1, <2>8, <2>9, <2>a DEF Turns!Begin, Waiting, turn
  <2> QED
    BY <2>10 DEF Turns!Next
<1> QED
  BY <1>4, <1>9, <1>10

\* complete() ends the turn of a group that has nothing pending, or changes
\* nothing that sessions see.
LEMMA CompleteTurns ==
    ASSUME IInv, NEW w \in Workers, NEW release \in BOOLEAN, Busy(w),
           queue' = Completed(queue, job[w], release)
    PROVE  Turns!Next \/ (queue'.active_sessions = queue.active_sessions /\ Waiting' = Waiting)
<1> DEFINE j == job[w]
<1>1. /\ j \in JobRecords /\ queue.active_groups[j.group] > 0
      /\ j.session \in Sessions /\ j.group \in Executions
  BY BusyIsCounted DEF JobRecords
<1>2. /\ queue \in QueueRecords /\ queue.pending \in Seq(JobRecords)
      /\ queue.active_sessions \in [Sessions -> Executions \cup {None}]
  BY DEF IInv, TypeOK, QueueRecords
<1>3. /\ queue'.pending = queue.pending
      /\ \/ queue'.active_sessions = queue.active_sessions
         \/ /\ queue.active_sessions[j.session] = j.group
            /\ queue'.active_sessions = [queue.active_sessions EXCEPT ![j.session] = None]
  BY <1>1, <1>2, CompletedFields
<1> HIDE DEF j
<1>4. CASE queue'.active_sessions = queue.active_sessions
  BY <1>3, <1>4 DEF Waiting, WaitingGroups
<1>5. CASE queue'.active_sessions # queue.active_sessions
  <2>1. /\ queue.active_sessions[j.session] = j.group
        /\ queue'.active_sessions = [queue.active_sessions EXCEPT ![j.session] = None]
    BY <1>3, <1>5
  <2>2. \A k \in DOMAIN queue.pending : queue.pending[k].group # j.group
    BY <1>1, <1>2, <1>5, ReleasedIsDone DEF j
  <2>3. \A k \in 1 .. Len(queue.pending) : queue.pending[k].group \in Executions
    <3>1. \A k \in 1 .. Len(queue.pending) : queue.pending[k] \in JobRecords
      BY <1>2
    <3>2. \A e \in JobRecords : e.group \in Executions
      BY DEF JobRecords
    <3> QED
      BY <3>1, <3>2
  <2>4. ASSUME NEW s \in Sessions PROVE WaitingGroups(s)' = WaitingGroups(s)
    <3>1. \A n \in 1 .. Len(queue.pending) :
             Waits(queue.pending, queue.active_sessions[s], s, n) <=>
                Waits(queue.pending, queue'.active_sessions[s], s, n)
      <4>1. CASE s = j.session
        <5>1. queue'.active_sessions[s] = None /\ queue.active_sessions[s] = j.group
          BY <1>1, <1>2, <2>1, <4>1
        <5>2. \A n \in 1 .. Len(queue.pending) : queue.pending[n].group \notin {None, j.group}
          BY <1>2, <2>2, <2>3, JobsAssumption
        <5> QED
          BY <5>1, <5>2 DEF Waits
      <4>2. CASE s # j.session
        BY <1>1, <1>2, <2>1, <4>2
      <4> QED
        BY <4>1, <4>2
    <3>2. GroupsWaiting(queue.pending, queue'.active_sessions[s], s) =
             GroupsWaiting(queue.pending, queue.active_sessions[s], s)
      BY <1>2, <3>1, SameWaiting
    <3> QED
      BY <1>3, <3>2 DEF WaitingGroups
  <2>5. Waiting' = Waiting
    BY <2>4 DEF Waiting
  <2>6. queue.active_sessions[j.session] # None
    BY <1>1, <2>1, JobsAssumption
  <2>7. Turns!End(j.session)
    BY <2>1, <2>5, <2>6 DEF Turns!End, Waiting
  <2> QED
    BY <1>1, <2>7 DEF Turns!Next
<1> QED
  BY <1>4, <1>5

\* The queue implements turns: the groups of a session take turns one at a
\* time and in the order in which their first jobs arrived, whatever else is
\* pending, and sessions do not wait for each other (ExecutionQueue, server.rs:62).
THEOREM Refinement == Spec => ImplementsSessionTurns
<1>1. IInv /\ [Next]_vars => [Turns!Next]_<<queue.active_sessions, Waiting>>
  <2> SUFFICES ASSUME IInv, [Next]_vars
               PROVE  \/ Turns!Next
                      \/ queue'.active_sessions = queue.active_sessions /\ Waiting' = Waiting
    OBVIOUS
  <2>1. ASSUME NEW j \in Jobs, Enqueue(j)
        PROVE  \/ Turns!Next
               \/ queue'.active_sessions = queue.active_sessions /\ Waiting' = Waiting
    BY <2>1, EnqueueTurns
  <2>2. ASSUME NEW w \in Workers, NEW i \in DOMAIN queue.pending, Take(w, i)
        PROVE  \/ Turns!Next
               \/ queue'.active_sessions = queue.active_sessions /\ Waiting' = Waiting
    BY <2>2, TakeTurns
  <2>3. ASSUME NEW w \in Workers, NEW release \in BOOLEAN,
               Complete(w, release) \/ CompleteFailed(w)
        PROVE  \/ Turns!Next
               \/ queue'.active_sessions = queue.active_sessions /\ Waiting' = Waiting
    <3>1. CASE Complete(w, release)
      BY <3>1, CompleteTurns DEF Complete, Busy
    <3>2. CASE CompleteFailed(w)
      BY <3>2, CompleteTurns DEF CompleteFailed, Busy
    <3> QED
      BY <2>3, <3>1, <3>2
  <2>4. ASSUME queue' = queue
        PROVE  queue'.active_sessions = queue.active_sessions /\ Waiting' = Waiting
    BY <2>4 DEF Waiting, WaitingGroups
  <2>5. CASE \E w \in Workers : Exit(w) \/ Wait(w) \/ SpuriousWakeup(w)
    BY <2>4, <2>5 DEF Exit, Wait, SpuriousWakeup
  <2>6. CASE Close
    <3>1. /\ queue'.pending = queue.pending
          /\ queue'.active_sessions = queue.active_sessions
      BY <2>6 DEF Close, Closed, IInv, TypeOK, QueueRecords
    <3> QED
      BY <3>1 DEF Waiting, WaitingGroups
  <2>7. CASE UNCHANGED vars
    BY <2>4, <2>7 DEF vars
  <2> QED
    BY <2>1, <2>2, <2>3, <2>5, <2>6, <2>7 DEF Next
<1> QED
  BY <1>1, InitTurns, Invariance, PTL DEF Spec, ImplementsSessionTurns, Turns!Spec, Waiting
===============================================================================

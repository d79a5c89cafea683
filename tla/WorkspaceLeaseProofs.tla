------------------------- MODULE WorkspaceLeaseProofs -------------------------
(***************************************************************************)
(* Proofs about the workspace lease manager, for every set of executions   *)
(* and of workspaces.                                                      *)
(***************************************************************************)
EXTENDS WorkspaceLease, TLAPS

\* The inductive invariant: the table is exactly the leases in force, a
\* writer excludes readers in the table, and no waiter sleeps on a request
\* the table would grant.
TableExclusion ==
    \A w \in Workspaces : writer[w] # None => readers[w] = {}

IInv == TypeOK /\ TableIsHolders /\ TableExclusion /\ NoLostWakeup

\* The initial states satisfy the inductive invariant.
LEMMA InitIInv == Init => IInv
BY NoneAssumption
   DEF Init, IInv, TypeOK, TableIsHolders, TableExclusion, NoLostWakeup, Holds,
       Places, Requests, Modes

\* A step keeps the types and the tie between a thread and its request.
LEMMA NextTypeOK == TypeOK /\ [Next]_vars => TypeOK'
<1> SUFFICES ASSUME TypeOK, [Next]_vars PROVE TypeOK'
    OBVIOUS
<1> USE NoneAssumption DEF TypeOK, Places, Requests, Modes
<1>1. ASSUME NEW e \in Executions, NEW r \in Requests, Call(e, r) PROVE TypeOK'
    BY <1>1 DEF Call
<1>2. ASSUME NEW e \in Executions, Acquire(e) PROVE TypeOK'
    BY <1>2 DEF Acquire
<1>3. ASSUME NEW e \in Executions, Wait(e) PROVE TypeOK'
    BY <1>3 DEF Wait
<1>4. ASSUME NEW e \in Executions, Release(e) PROVE TypeOK'
    BY <1>4 DEF Release, NotifyAll
<1>5. ASSUME NEW e \in Executions, SpuriousWakeup(e) PROVE TypeOK'
    BY <1>5 DEF SpuriousWakeup
<1>6. CASE UNCHANGED vars
    BY <1>6 DEF vars
<1> QED
    BY <1>1, <1>2, <1>3, <1>4, <1>5, <1>6 DEF Next

\* Every step keeps the inductive invariant.
LEMMA NextIInv == IInv /\ [Next]_vars => IInv'
<1> SUFFICES ASSUME IInv, [Next]_vars PROVE IInv'
    OBVIOUS
<1>t. TypeOK'
    BY NextTypeOK DEF IInv
<1> USE NoneAssumption DEF IInv, TypeOK, Requests, Modes
<1>1. ASSUME NEW e \in Executions, NEW r \in Requests, Call(e, r) PROVE IInv'
    <2>1. TableIsHolders' /\ TableExclusion'
        BY <1>1 DEF Call, TableIsHolders, TableExclusion, Holds
    <2>2. NoLostWakeup'
        BY <1>1 DEF Call, NoLostWakeup, Permits
    <2> QED BY <1>t, <2>1, <2>2
<1>2. ASSUME NEW e \in Executions, Acquire(e) PROVE IInv'
    <2>1. TableIsHolders'
        BY <1>2 DEF Acquire, TableIsHolders, Holds, Permits
    <2>2. TableExclusion'
        BY <1>2 DEF Acquire, TableExclusion, Permits
    <2>3. NoLostWakeup'
        BY <1>2 DEF Acquire, NoLostWakeup, Permits
    <2> QED BY <1>t, <2>1, <2>2, <2>3
<1>3. ASSUME NEW e \in Executions, Wait(e) PROVE IInv'
    <2>1. TableIsHolders' /\ TableExclusion'
        BY <1>3 DEF Wait, TableIsHolders, TableExclusion, Holds
    <2>2. NoLostWakeup'
        BY <1>3 DEF Wait, NoLostWakeup, Permits
    <2> QED BY <1>t, <2>1, <2>2
<1>4. ASSUME NEW e \in Executions, Release(e) PROVE IInv'
    <2>1. TableIsHolders'
        BY <1>4 DEF Release, NotifyAll, TableIsHolders, Holds
    <2>2. TableExclusion'
        BY <1>4 DEF Release, TableExclusion
    <2>3. NoLostWakeup'
        BY <1>4 DEF Release, NotifyAll, NoLostWakeup
    <2> QED BY <1>t, <2>1, <2>2, <2>3
<1>5. ASSUME NEW e \in Executions, SpuriousWakeup(e) PROVE IInv'
    <2>1. TableIsHolders' /\ TableExclusion'
        BY <1>5 DEF SpuriousWakeup, TableIsHolders, TableExclusion, Holds
    <2>2. NoLostWakeup'
        BY <1>5 DEF SpuriousWakeup, NoLostWakeup, Permits
    <2> QED BY <1>t, <2>1, <2>2
<1>6. CASE UNCHANGED vars
    BY <1>6 DEF vars, TableIsHolders, TableExclusion, NoLostWakeup, Holds, Permits
<1> QED
    BY <1>1, <1>2, <1>3, <1>4, <1>5, <1>6 DEF Next

\* The inductive invariant holds in every reachable state.
THEOREM Invariance == Spec => []IInv
BY InitIInv, NextIInv, PTL DEF Spec

\* The variables keep their types, and a thread has a request exactly once it
\* has called acquire.
THEOREM TypeCorrect == Spec => []TypeOK
<1>1. IInv => TypeOK
    BY DEF IInv
<1> QED BY <1>1, Invariance, PTL

\* The table of holders excludes, and it is the table of those who hold.
LEMMA ExclusionFromIInv == IInv => LeaseExclusion
<1> SUFFICES ASSUME IInv,
                    NEW e \in Executions, NEW f \in Executions,
                    NEW w \in Workspaces, NEW m \in Modes, NEW n \in Modes,
                    e # f, Holds(e, w, m), Holds(f, w, n)
             PROVE  m = "Read"
    BY DEF LeaseExclusion
<1> SUFFICES ASSUME m = "Write" PROVE FALSE
    BY DEF Modes
<1>1. writer[w] = e /\ writer[w] # None
    BY NoneAssumption DEF IInv, TableIsHolders
<1>2. readers[w] = {}
    BY <1>1 DEF IInv, TableExclusion
<1>3. CASE n = "Read"
    BY <1>2, <1>3 DEF IInv, TableIsHolders
<1>4. CASE n = "Write"
    BY <1>1, <1>4 DEF IInv, TableIsHolders
<1> QED BY <1>3, <1>4 DEF Modes

\* Leases in force on one workspace are all reads or a single write, however
\* many workers contend (workspace_lease.rs permits, acquire and release).
THEOREM Exclusion == Spec => []LeaseExclusion
BY ExclusionFromIInv, Invariance, PTL

\* Condvar::wait never sleeps on a request that the table permits.
THEOREM WakeupSafety == Spec => []NoLostWakeup
<1>1. IInv => NoLostWakeup
    BY DEF IInv
<1> QED BY <1>1, Invariance, PTL

\* The executions that hold a lease on some workspace are among the holders.
LEMMA GrantedHolds ==
    ASSUME IInv, NEW w \in Workspaces, NEW g \in Granted[w]
    PROVE  /\ g.execution \in Executions
           /\ Holds(g.execution, w, g.mode)
           /\ g = [execution |-> g.execution, mode |-> g.mode]
BY NoneAssumption DEF IInv, TypeOK, TableIsHolders, Granted

\* The lease table under its mutex implements a readers-writer lock: granting
\* a lease, returning one, or a step the lock does not see.
THEOREM Refinement == Spec => ImplementsReadersWriter
<1>1. Init => Lock!Init
    BY DEF Init, Lock!Init, Granted
<1>2. IInv /\ [Next]_vars => [Lock!Next]_Granted
    <2> SUFFICES ASSUME IInv, [Next]_vars PROVE [Lock!Next]_Granted
        OBVIOUS
    <2> USE NoneAssumption DEF Lock!Modes, Modes
    <2>1. ASSUME NEW e \in Executions, Acquire(e) PROVE Lock!Next
        <3> DEFINE r == request[e]
        <3>1. r \in Requests
            BY <2>1 DEF Acquire, IInv, TypeOK
        <3>2. r.workspace \in Workspaces /\ r.mode \in Modes
            BY <3>1 DEF Requests
        <3>3. Lock!Compatible(r.workspace, r.mode)
            BY <2>1, <3>2 DEF Acquire, Permits, Lock!Compatible, Granted
        <3>4. \A v \in Workspaces : \A g \in Granted[v] : g.execution # e
            BY <2>1, GrantedHolds DEF Acquire, Holds
        <3>5. Granted' = [Granted EXCEPT ![r.workspace] =
                            @ \cup {[execution |-> e, mode |-> r.mode]}]
            <4>1. \A w \in Workspaces : w # r.workspace => Granted'[w] = Granted[w]
                BY <2>1, <3>2 DEF Acquire, Granted, IInv, TypeOK
            <4>2. Granted'[r.workspace] =
                    Granted[r.workspace] \cup {[execution |-> e, mode |-> r.mode]}
                <5>1. CASE r.mode = "Read"
                    <6>1. readers'[r.workspace] = readers[r.workspace] \cup {e}
                        BY <2>1, <3>2, <5>1 DEF Acquire, IInv, TypeOK
                    <6>2. writer'[r.workspace] = writer[r.workspace]
                        BY <2>1, <5>1 DEF Acquire
                    <6> QED BY <3>2, <5>1, <6>1, <6>2 DEF Granted
                <5>2. CASE r.mode = "Write"
                    <6>1. writer[r.workspace] = None /\ writer'[r.workspace] = e
                        BY <2>1, <3>2, <5>2 DEF Acquire, Permits, IInv, TypeOK
                    <6>2. readers'[r.workspace] = readers[r.workspace]
                        BY <2>1, <5>2 DEF Acquire
                    <6> QED BY <3>2, <5>2, <6>1, <6>2 DEF Granted
                <5> QED BY <3>2, <5>1, <5>2
            <4> QED BY <3>2, <4>1, <4>2 DEF Granted
        <3> QED BY <3>2, <3>3, <3>4, <3>5 DEF Lock!Next, Lock!Give
    <2>2. ASSUME NEW e \in Executions, Release(e) PROVE Lock!Next
        <3> DEFINE r == request[e]
                   g == [execution |-> e, mode |-> r.mode]
        <3>1. r \in Requests
            BY <2>2 DEF Release, IInv, TypeOK
        <3>2. r.workspace \in Workspaces /\ r.mode \in Modes
            BY <3>1 DEF Requests
        <3>3. Holds(e, r.workspace, r.mode)
            BY <2>2, <3>1 DEF Release, Holds, Requests
        <3>4. g \in Granted[r.workspace]
            BY <3>2, <3>3 DEF IInv, TableIsHolders, Granted
        <3>5. Granted' = [Granted EXCEPT ![r.workspace] = @ \ {g}]
            <4>1. \A a, m, n : [execution |-> a, mode |-> m] = [execution |-> e, mode |-> n]
                                <=> a = e /\ m = n
                BY ZenonT(20)
            <4>2. \A w \in Workspaces : w # r.workspace => Granted'[w] = Granted[w]
                BY <2>2, <3>2 DEF Release, Granted, IInv, TypeOK
            <4>3. Granted'[r.workspace] = Granted[r.workspace] \ {g}
                <5>1. CASE r.mode = "Read"
                    <6>1. readers'[r.workspace] = readers[r.workspace] \ {e}
                        BY <2>2, <3>2, <5>1 DEF Release, IInv, TypeOK
                    <6>2. writer'[r.workspace] = writer[r.workspace]
                        BY <2>2, <5>1 DEF Release
                    <6> QED BY <3>2, <4>1, <5>1, <6>1, <6>2, SMTT(30) DEF Granted
                <5>2. CASE r.mode = "Write"
                    <6>1. writer[r.workspace] = e /\ writer'[r.workspace] = None
                        BY <2>2, <3>2, <3>3, <5>2 DEF Release, IInv, TypeOK, TableIsHolders
                    <6>2. readers'[r.workspace] = readers[r.workspace]
                        BY <2>2, <5>2 DEF Release
                    <6> QED BY <3>2, <4>1, <5>2, <6>1, <6>2, SMTT(30) DEF Granted
                <5> QED BY <3>2, <5>1, <5>2
            <4> HIDE DEF g
            <4> QED BY <3>2, <4>2, <4>3 DEF Granted
        <3> QED BY <3>2, <3>4, <3>5 DEF Lock!Next, Lock!Return
    <2>3. CASE UNCHANGED <<readers, writer>>
        BY <2>3 DEF Granted
    <2> QED
        BY <2>1, <2>2, <2>3 DEF Next, Call, Wait, SpuriousWakeup, vars
<1> QED
    BY <1>1, <1>2, Invariance, PTL DEF Spec, ImplementsReadersWriter, Lock!Spec
===============================================================================

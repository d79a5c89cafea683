---------------------------- MODULE AcpSessionProofs ----------------------------
(***************************************************************************)
(* Proofs about AcpSession, for any set of executions: types, one turn at  *)
(* a time on a backend session, and, for executions that have backend      *)
(* sessions of their own, that nobody else's cancellation reaches a turn.  *)
(***************************************************************************)
EXTENDS AcpSession, TLAPS

\* TypeOK up to scopes, and what a worker's place says of scopes and states.
Types ==
    /\ persistent \in BOOLEAN
    /\ thread \in [Handles -> {"none", "alive", "dead"}]
    /\ tools \in [Handles -> Executions \cup {None}]
    /\ requested \subseteq Handles
    /\ signal \in [Handles -> Executions \cup {None}]
    /\ pc \in [Executions -> Places]
    /\ state \in [Executions -> States]
    /\ given \in [Executions -> Executions \cup {None}]
    /\ prompted \subseteq Executions /\ inbox \subseteq Executions
    /\ told \subseteq Executions /\ early \subseteq told
    /\ result \in [Executions -> {"none", "ok", "error"}]
    /\ reader \in [pc : {"idle", "copied", "cancelling"},
                  active : SUBSET Executions, targets : SUBSET Executions]
    /\ asked \subseteq Executions
    /\ scopes \subseteq Executions

Stages ==
    \A e \in Executions :
        /\ e \in scopes <=> pc[e] \notin {"new", "opened", "ended"}
        /\ pc[e] \in {"new", "opened", "scoped"} => state[e] \in {"Pending", "Cancelled"}
        /\ pc[e] \in {"begun", "armed", "sent", "forwarding", "prompting", "answered", "returned"}
              => state[e] # "Pending"
        /\ pc[e] \in {"finished", "ended"} => state[e] \notin {"Pending", "Running"}

\* A turn is armed on a backend session exactly while the session keeps its signal.
ArmedIsSignal ==
    \A e \in Executions :
        pc[e] \in {"armed", "sent", "forwarding", "prompting", "answered"} <=> signal[HandleOf(e)] = e

IInv == Types /\ Stages /\ ArmedIsSignal
-------------------------------------------------------------------------------
\* Every execution has a backend session.
LEMMA HandleType == \A e \in Executions : HandleOf(e) \in Handles
BY DEF HandleOf, Handles

\* The initial states satisfy the inductive invariant.
LEMMA InitIInv == Init => IInv
<1> SUFFICES ASSUME Init PROVE IInv
    OBVIOUS
<1> USE AcpAssumption, HandleType DEF Init
<1>1. Types
      BY DEF Types, Places, States
<1>2. Stages /\ ArmedIsSignal
      BY DEF Stages, ArmedIsSignal
<1>. QED BY <1>1, <1>2 DEF IInv

\* Every step keeps the types.
LEMMA NextTypes == Types /\ [Next]_vars => Types'
<1> SUFFICES ASSUME Types, [Next]_vars PROVE Types'
    OBVIOUS
<1> USE HandleType DEF Types, Places, States, Goes, sessionVars, turnVars, runtimeVars, readerVars
<1>1. ASSUME NEW e \in Executions, SkipCancelled(e) PROVE Types'
      BY <1>1 DEF SkipCancelled
<1>2. ASSUME NEW e \in Executions, Open(e) PROVE Types'
      BY <1>2 DEF Open
<1>3. ASSUME NEW e \in Executions, OpenFails(e) PROVE Types'
      BY <1>3 DEF OpenFails
<1>4. ASSUME NEW e \in Executions, InstallScope(e) PROVE Types'
      BY <1>4 DEF InstallScope
<1>5. ASSUME NEW e \in Executions, Begin(e) PROVE Types'
      BY <1>5 DEF Begin
<1>6. ASSUME NEW e \in Executions, Arm(e) PROVE Types'
      BY <1>6 DEF Arm, Returns
<1>7. ASSUME NEW e \in Executions, Send(e) PROVE Types'
      BY <1>7 DEF Send, Returns
<1>8. ASSUME NEW e \in Executions, Disarm(e) PROVE Types'
      BY <1>8 DEF Disarm
<1>9. ASSUME NEW e \in Executions, Finish(e) PROVE Types'
      BY <1>9 DEF Finish
<1>10. ASSUME NEW e \in Executions, DropScope(e) PROVE Types'
      BY <1>10 DEF DropScope
<1>11. ASSUME NEW e \in Executions, SetUp(e) \/ Prompt(e) PROVE Types'
      BY <1>11 DEF SetUp, Prompt, Done, Returns
<1>12. ASSUME NEW e \in Executions, ForwardCancel(e) PROVE Types'
      BY <1>12 DEF ForwardCancel
<1>13. ASSUME NEW e \in Executions, Answer(e) PROVE Types'
      BY <1>13 DEF Answer, Done, Returns
<1>14. CASE CopyScopes
      BY <1>14 DEF CopyScopes
<1>15. ASSUME NEW C, CancelInRuntime(C) PROVE Types'
      BY <1>15 DEF CancelInRuntime, AfterCancel
<1>16. ASSUME NEW e \in Executions, RequestCancellation(e) PROVE Types'
      BY <1>16 DEF RequestCancellation
<1>17. CASE CancelDone
      BY <1>17 DEF CancelDone
<1>18. CASE UNCHANGED vars
      BY <1>18 DEF vars
<1>. QED
     BY <1>1, <1>2, <1>3, <1>4, <1>5, <1>6, <1>7, <1>8, <1>9,
        <1>10, <1>11, <1>12, <1>13, <1>14, <1>15, <1>16, <1>17, <1>18
     DEF Next, WorkerStep, ReaderStep

\* Every step keeps scopes and workers' places in agreement.
LEMMA NextStages == Types /\ Stages /\ [Next]_vars => Stages'
<1> SUFFICES ASSUME Types, Stages, [Next]_vars PROVE Stages'
    OBVIOUS
<1> USE DEF Types, Places, States, Stages, Goes, sessionVars, turnVars, runtimeVars, readerVars
<1>1. ASSUME NEW e \in Executions, SkipCancelled(e) PROVE Stages'
      BY <1>1 DEF SkipCancelled
<1>2. ASSUME NEW e \in Executions, Open(e) PROVE Stages'
      BY <1>2 DEF Open
<1>3. ASSUME NEW e \in Executions, OpenFails(e) PROVE Stages'
      BY <1>3 DEF OpenFails
<1>4. ASSUME NEW e \in Executions, InstallScope(e) PROVE Stages'
      BY <1>4 DEF InstallScope
<1>5. ASSUME NEW e \in Executions, Begin(e) PROVE Stages'
      BY <1>5 DEF Begin
<1>6. ASSUME NEW e \in Executions, Arm(e) PROVE Stages'
      BY <1>6 DEF Arm, Returns
<1>7. ASSUME NEW e \in Executions, Send(e) PROVE Stages'
      BY <1>7 DEF Send, Returns
<1>8. ASSUME NEW e \in Executions, Disarm(e) PROVE Stages'
      BY <1>8 DEF Disarm
<1>9. ASSUME NEW e \in Executions, Finish(e) PROVE Stages'
      BY <1>9 DEF Finish
<1>10. ASSUME NEW e \in Executions, DropScope(e) PROVE Stages'
      BY <1>10 DEF DropScope
<1>11. ASSUME NEW e \in Executions, SetUp(e) \/ Prompt(e) PROVE Stages'
      BY <1>11 DEF SetUp, Prompt, Done, Returns
<1>12. ASSUME NEW e \in Executions, ForwardCancel(e) PROVE Stages'
      BY <1>12 DEF ForwardCancel
<1>13. ASSUME NEW e \in Executions, Answer(e) PROVE Stages'
      BY <1>13 DEF Answer, Done, Returns
<1>14. CASE CopyScopes
      BY <1>14 DEF CopyScopes
<1>15. ASSUME NEW C, CancelInRuntime(C) PROVE Stages'
      BY <1>15 DEF CancelInRuntime, AfterCancel
<1>16. ASSUME NEW e \in Executions, RequestCancellation(e) PROVE Stages'
      BY <1>16 DEF RequestCancellation
<1>17. CASE CancelDone
      BY <1>17 DEF CancelDone
<1>18. CASE UNCHANGED vars
      BY <1>18 DEF vars
<1>. QED
     BY <1>1, <1>2, <1>3, <1>4, <1>5, <1>6, <1>7, <1>8, <1>9,
        <1>10, <1>11, <1>12, <1>13, <1>14, <1>15, <1>16, <1>17, <1>18
     DEF Next, WorkerStep, ReaderStep

\* Every step keeps the armed turn of a session that of one execution.
LEMMA NextArmed == Types /\ ArmedIsSignal /\ [Next]_vars => ArmedIsSignal'
<1> SUFFICES ASSUME Types, ArmedIsSignal, [Next]_vars PROVE ArmedIsSignal'
    OBVIOUS
<1> USE AcpAssumption, HandleType DEF Types, Places, ArmedIsSignal, HandleOf, Goes, sessionVars, turnVars, runtimeVars, readerVars
<1>1. ASSUME NEW e \in Executions, SkipCancelled(e) PROVE ArmedIsSignal'
      BY <1>1 DEF SkipCancelled
<1>2. ASSUME NEW e \in Executions, Open(e) PROVE ArmedIsSignal'
      BY <1>2 DEF Open
<1>3. ASSUME NEW e \in Executions, OpenFails(e) PROVE ArmedIsSignal'
      BY <1>3 DEF OpenFails
<1>4. ASSUME NEW e \in Executions, InstallScope(e) PROVE ArmedIsSignal'
      BY <1>4 DEF InstallScope
<1>5. ASSUME NEW e \in Executions, Begin(e) PROVE ArmedIsSignal'
      BY <1>5 DEF Begin
<1>6. ASSUME NEW e \in Executions, Arm(e) PROVE ArmedIsSignal'
      BY <1>6 DEF Arm, Returns
<1>7. ASSUME NEW e \in Executions, Send(e) PROVE ArmedIsSignal'
      BY <1>7 DEF Send, Returns
<1>8. ASSUME NEW e \in Executions, Disarm(e) PROVE ArmedIsSignal'
      BY <1>8 DEF Disarm
<1>9. ASSUME NEW e \in Executions, Finish(e) PROVE ArmedIsSignal'
      BY <1>9 DEF Finish
<1>10. ASSUME NEW e \in Executions, DropScope(e) PROVE ArmedIsSignal'
      BY <1>10 DEF DropScope
<1>11. ASSUME NEW e \in Executions, SetUp(e) \/ Prompt(e) PROVE ArmedIsSignal'
      BY <1>11 DEF SetUp, Prompt, Done, Returns
<1>12. ASSUME NEW e \in Executions, ForwardCancel(e) PROVE ArmedIsSignal'
      BY <1>12 DEF ForwardCancel
<1>13. ASSUME NEW e \in Executions, Answer(e) PROVE ArmedIsSignal'
      BY <1>13 DEF Answer, Done, Returns
<1>14. CASE CopyScopes
      BY <1>14 DEF CopyScopes
<1>15. ASSUME NEW C, CancelInRuntime(C) PROVE ArmedIsSignal'
      BY <1>15 DEF CancelInRuntime, AfterCancel
<1>16. ASSUME NEW e \in Executions, RequestCancellation(e) PROVE ArmedIsSignal'
      BY <1>16 DEF RequestCancellation
<1>17. CASE CancelDone
      BY <1>17 DEF CancelDone
<1>18. CASE UNCHANGED vars
      BY <1>18 DEF vars
<1>. QED
     BY <1>1, <1>2, <1>3, <1>4, <1>5, <1>6, <1>7, <1>8, <1>9,
        <1>10, <1>11, <1>12, <1>13, <1>14, <1>15, <1>16, <1>17, <1>18
     DEF Next, WorkerStep, ReaderStep

\* IInv is an invariant of the specification, for any set of executions.
THEOREM Invariance == Spec => []IInv
<1>1. IInv /\ [Next]_vars => IInv'
      BY NextTypes, NextStages, NextArmed DEF IInv
<1>. QED BY InitIInv, <1>1, PTL DEF Spec

\* Types are kept: the live scopes are exactly those of the workers that have
\* installed one and not dropped it, and no worker ends before its execution.
THEOREM TypeCorrect == Spec => []TypeOK
<1>1. IInv => TypeOK
      BY DEF IInv, Types, Stages, TypeOK
<1>. QED BY Invariance, <1>1, PTL

\* There is one prompt at a time on a backend session, shared or not
\* (arm_cancellation and disarm_cancellation).
THEOREM TurnsAreSerial == Spec => []OneTurnAtATime
<1>1. IInv => OneTurnAtATime
      BY DEF IInv, ArmedIsSignal, OneTurnAtATime
<1>. QED BY Invariance, <1>1, PTL
-------------------------------------------------------------------------------
(* Executions with backend sessions of their own. *)

\* Whatever has the mark of a cancellation belongs to a cancelled execution:
\* the reader's targets, what is remembered on a session, what is signalled,
\* what the agent was told, and a turn that returned without its prompt.
OwnMarks ==
    /\ \A e \in reader.targets : state[e] = "Cancelled"
    /\ \A e \in Executions :
          /\ signal[e] \in {None, e}
          /\ e \in requested => state[e] = "Cancelled"
          /\ e \in inbox => state[e] = "Cancelled"
          /\ e \in told => e \in inbox
          /\ pc[e] = "prompting" => e \in prompted
          /\ result[e] = "ok" => e \in prompted \/ state[e] = "Cancelled"
          /\ state[e] = "Completed" => e \in prompted

OwnInv == ~persistent => OwnMarks

\* No step changes how backend sessions are used.
LEMMA PersistentFixed == [Next]_vars => persistent' = persistent
BY DEF Next, WorkerStep, ReaderStep, vars, sessionVars, SkipCancelled, Open, OpenFails,
       InstallScope, Begin, Arm, Send, Disarm, Finish, DropScope, SetUp, Prompt, Done, ForwardCancel,
       Answer, CopyScopes, CancelInRuntime, RequestCancellation, CancelDone

\* Without sharing, a backend session is named by its one execution.
LEMMA OwnHandle == ~persistent => \A e \in Executions : e \in Handles /\ HandleOf(e) = e
BY DEF Handles, HandleOf

\* Initially no cancellation is under way on any session.
LEMMA InitOwn == Init => OwnInv
BY OwnHandle DEF Init, OwnInv, OwnMarks

\* Without sharing, every step keeps cancellations with their own execution.
LEMMA NextOwn == Types /\ OwnInv /\ [Next]_vars => OwnInv'
<1> SUFFICES ASSUME Types, ~persistent, OwnMarks, [Next]_vars PROVE OwnMarks'
    BY PersistentFixed DEF OwnInv
<1> USE AcpAssumption, OwnHandle DEF Types, Places, States, OwnMarks, Goes, sessionVars, turnVars, runtimeVars, readerVars
<1>1. ASSUME NEW e \in Executions, SkipCancelled(e) PROVE OwnMarks'
      BY <1>1 DEF SkipCancelled
<1>2. ASSUME NEW e \in Executions, Open(e) PROVE OwnMarks'
      BY <1>2 DEF Open
<1>3. ASSUME NEW e \in Executions, OpenFails(e) PROVE OwnMarks'
      BY <1>3 DEF OpenFails
<1>4. ASSUME NEW e \in Executions, InstallScope(e) PROVE OwnMarks'
      BY <1>4 DEF InstallScope
<1>5. ASSUME NEW e \in Executions, Begin(e) PROVE OwnMarks'
      BY <1>5 DEF Begin
<1>6. ASSUME NEW e \in Executions, Arm(e) PROVE OwnMarks'
      BY <1>6 DEF Arm, Returns
<1>7. ASSUME NEW e \in Executions, Send(e) PROVE OwnMarks'
      BY <1>7 DEF Send, Returns
<1>8. ASSUME NEW e \in Executions, Disarm(e) PROVE OwnMarks'
      BY <1>8 DEF Disarm
<1>9. ASSUME NEW e \in Executions, Finish(e) PROVE OwnMarks'
      BY <1>9 DEF Finish
<1>10. ASSUME NEW e \in Executions, DropScope(e) PROVE OwnMarks'
      BY <1>10 DEF DropScope
<1>11. ASSUME NEW e \in Executions, SetUp(e) \/ Prompt(e) PROVE OwnMarks'
      BY <1>11 DEF SetUp, Prompt, Done, Returns
<1>12. ASSUME NEW e \in Executions, ForwardCancel(e) PROVE OwnMarks'
      BY <1>12 DEF ForwardCancel
<1>13. ASSUME NEW e \in Executions, Answer(e) PROVE OwnMarks'
      BY <1>13 DEF Answer, Done, Returns
<1>14. CASE CopyScopes
      BY <1>14 DEF CopyScopes
<1>15. ASSUME NEW C, CancelInRuntime(C) PROVE OwnMarks'
      BY <1>15 DEF CancelInRuntime, AfterCancel
<1>16. ASSUME NEW e \in Executions, RequestCancellation(e) PROVE OwnMarks'
      BY <1>16 DEF RequestCancellation
<1>17. CASE CancelDone
      BY <1>17 DEF CancelDone
<1>18. CASE UNCHANGED vars
      BY <1>18 DEF vars
<1>. QED
     BY <1>1, <1>2, <1>3, <1>4, <1>5, <1>6, <1>7, <1>8, <1>9,
        <1>10, <1>11, <1>12, <1>13, <1>14, <1>15, <1>16, <1>17, <1>18
     DEF Next, WorkerStep, ReaderStep

\* With a backend session of its own, the agent of an execution is told to cancel
\* only if that execution was cancelled, and an execution is Completed only if its
\* prompt was sent.
THEOREM CancelsOwnTurn == Spec => []CancelsOnlyItsOwn
<1>1. IInv /\ OwnInv /\ [Next]_vars => OwnInv'
      BY NextOwn DEF IInv
<1>2. OwnInv => CancelsOnlyItsOwn
      BY DEF OwnInv, OwnMarks, CancelsOnlyItsOwn, CompletedWasPrompted, OnlyCancelledAreTold
<1>. QED BY Invariance, InitOwn, <1>1, <1>2, PTL DEF Spec
===============================================================================

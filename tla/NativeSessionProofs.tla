-------------------------- MODULE NativeSessionProofs --------------------------
(***************************************************************************)
(* Proofs about NativeSession, for any number of executions and workers,   *)
(* any tools and any limit: turns on a backend session are apart and use   *)
(* their own tools, a turn that was cut does not pass for an answer, and   *)
(* the persistent session's conversation is in order.                      *)
(***************************************************************************)
EXTENDS NativeSession, TLAPS

Places ==
    {"new", "opened", "scoped", "begun", "activated", "cleared", "round", "streaming",
     "calling", "over", "released", "returned", "finished", "ended"}

States == {"Pending", "Running", "Completed", "Failed", "Cancelled"}

Types ==
    /\ setting \in [mode : {"own", "turns", "siblings"}, limited : BOOLEAN]
    /\ active \subseteq Handles /\ cancelled \subseteq Handles
    /\ scopes \subseteq Executions
    /\ tools \in [Handles -> Executions \cup {None}]
    /\ history \in [Handles -> Seq(Executions)]
    /\ pc \in [Executions -> Places]
    /\ state \in [Executions -> States]
    /\ given \in [Executions -> Executions \cup {None}]
    /\ copy \in [Executions -> Seq(Executions)]
    /\ rounds \in [Executions -> Nat]
    /\ answered \subseteq Executions
    /\ called \in [Executions -> Tools \cup {None}]
    /\ result \in [Executions -> {"none", "ok", "error"}]
    /\ reader \in [pc : {"idle", "copied", "cancelling"},
                   active : SUBSET Executions, targets : SUBSET Executions]

\* A session is active while it has a turn.
ActiveInTurn == \A e \in Executions : InTurn(e) => HandleOf(e) \in active

Apart == ActiveInTurn /\ TurnsAreApart

\* On a session of its own a flag is set only for an execution that was cancelled,
\* so that a turn returns success either with an answer or when it was cancelled.
FlagsAreTrue ==
    setting.mode = "own" =>
        /\ \A e \in Executions : e \in cancelled \cup reader.targets => state[e] = "Cancelled"
        /\ \A e \in Executions : result[e] = "ok" => e \in answered \/ state[e] = "Cancelled"

\* What execute returns is known once the turn is over.
ResultAtTheEnd ==
    \A e \in Executions :
        result[e] # "none" => pc[e] \in {"over", "released", "returned", "finished", "ended"}

\* Turns follow one another, and one that is running has a copy of the whole
\* conversation, with its own message at the end.
InSequence ==
    setting.mode = "turns" =>
        /\ \A e, f \in Executions : f < e /\ pc[e] # "new" => pc[f] = "ended"
        /\ \A e \in Executions :
              pc[e] \in {"round", "streaming", "calling", "over", "released"} =>
                  copy[e] = Append(history[Persistent], e)
-------------------------------------------------------------------------------
\* Every execution has a backend session.
LEMMA HandleType == \A e \in Executions : HandleOf(e) \in Handles
BY DEF HandleOf, Handles

\* Every step keeps the types.
LEMMA NextTypes == Types /\ [Next]_vars => Types'
<1> SUFFICES ASSUME Types, [Next]_vars PROVE Types'
    OBVIOUS
<1> USE HandleType DEF Types, Places, States, Goes, Returns, sessionVars, turnVars
<1>1. ASSUME NEW e \in Executions, SkipCancelled(e) PROVE Types'
      BY <1>1 DEF SkipCancelled
<1>2. ASSUME NEW e \in Executions, Open(e) PROVE Types'
      BY <1>2 DEF Open
<1>3. ASSUME NEW e \in Executions, OpenFails(e) PROVE Types'
      BY <1>3 DEF OpenFails
<1>4. ASSUME NEW e \in Executions, InstallScope(e) PROVE Types'
      BY <1>4 DEF InstallScope
<1>5. ASSUME NEW e \in Executions, Begin(e) PROVE Types'
      <2>1. CASE state[e] = "Pending"
            BY <1>5, <2>1 DEF Begin
      <2>2. CASE state[e] # "Pending"
            BY <1>5, <2>2 DEF Begin
      <2>. QED BY <1>5, <2>1, <2>2 DEF Begin
<1>6. ASSUME NEW e \in Executions, Activate(e) PROVE Types'
      <2>1. active' \subseteq Handles
            BY <1>6 DEF Activate
      <2>2. pc' \in [Executions -> Places]
            <3>1. \E p \in {"returned", "activated"} : pc' = [pc EXCEPT ![e] = p]
                  BY <1>6 DEF Activate
            <3>. QED BY <3>1
      <2>3. result' \in [Executions -> {"none", "ok", "error"}]
            BY <1>6 DEF Activate
      <2>. QED BY <1>6, <2>1, <2>2, <2>3 DEF Activate
<1>7. ASSUME NEW e \in Executions, ClearFlag(e) PROVE Types'
      BY <1>7 DEF ClearFlag
<1>8. ASSUME NEW e \in Executions, ReadSession(e) PROVE Types'
      <2>1. CASE Goes(e, "round") /\ UNCHANGED result
            BY <1>8, <2>1 DEF ReadSession
      <2>2. CASE Returns(e, "error")
            BY <1>8, <2>2 DEF ReadSession
      <2>. QED BY <1>8, <2>1, <2>2 DEF ReadSession
<1>9. ASSUME NEW e \in Executions, Round(e) PROVE Types'
      <2>1. rounds' \in [Executions -> Nat]
            <3>1. rounds' = rounds \/ rounds' = [rounds EXCEPT ![e] = @ + 1]
                  BY <1>9 DEF Round
            <3>2. rounds \in [Executions -> Nat]
                  OBVIOUS
            <3>3. rounds[e] + 1 \in Nat
                  BY <3>2
            <3>. QED BY <3>1, <3>2, <3>3
      <2>2. pc' \in [Executions -> Places]
            <3>1. \E p \in {"streaming", "over"} : pc' = [pc EXCEPT ![e] = p]
                  BY <1>9 DEF Round
            <3>. QED BY <3>1
      <2>3. result' \in [Executions -> {"none", "ok", "error"}]
            BY <1>9 DEF Round
      <2>. QED BY <1>9, <2>1, <2>2, <2>3 DEF Round
<1>10. ASSUME NEW e \in Executions, Release(e) PROVE Types'
      BY <1>10 DEF Release
<1>11. ASSUME NEW e \in Executions, Store(e) PROVE Types'
      BY <1>11 DEF Store
<1>12. ASSUME NEW e \in Executions, Finish(e) PROVE Types'
      BY <1>12 DEF Finish
<1>13. ASSUME NEW e \in Executions, DropScope(e) PROVE Types'
      BY <1>13 DEF DropScope
<1>14. ASSUME NEW e \in Executions, CutShort(e) PROVE Types'
      BY <1>14 DEF CutShort
<1>15. ASSUME NEW e \in Executions, StreamFails(e) PROVE Types'
      BY <1>15 DEF StreamFails
<1>16. ASSUME NEW e \in Executions, StreamEnds(e) PROVE Types'
      <2>1. CASE Goes(e, "calling") /\ UNCHANGED <<answered, result>>
            BY <1>16, <2>1 DEF StreamEnds
      <2>2. CASE answered' = answered \cup {e} /\ Returns(e, "ok")
            BY <1>16, <2>2 DEF StreamEnds
      <2>. QED BY <1>16, <2>1, <2>2 DEF StreamEnds
<1>17. ASSUME NEW e \in Executions, ChunkRefused(e) PROVE Types'
      BY <1>17 DEF ChunkRefused
<1>18. ASSUME NEW e \in Executions, NEW t \in Tools, Dispatch(e, t) PROVE Types'
      <2>1. CASE Goes(e, "calling") /\ UNCHANGED result
            BY <1>18, <2>1 DEF Dispatch
      <2>2. CASE Goes(e, "round") /\ UNCHANGED result
            BY <1>18, <2>2 DEF Dispatch
      <2>3. CASE Returns(e, "error")
            BY <1>18, <2>3 DEF Dispatch
      <2>. QED BY <1>18, <2>1, <2>2, <2>3 DEF Dispatch
<1>19. CASE CopyScopes
      BY <1>19 DEF CopyScopes
<1>20. ASSUME NEW C, CancelInRuntime(C) PROVE Types'
      BY <1>20 DEF CancelInRuntime, AfterCancel
<1>21. ASSUME NEW e \in Executions, SetFlag(e) PROVE Types'
      BY <1>21 DEF SetFlag
<1>22. CASE CancelDone
      BY <1>22 DEF CancelDone
<1>23. CASE UNCHANGED vars
      BY <1>23 DEF vars
<1>. QED
     BY <1>1, <1>2, <1>3, <1>4, <1>5, <1>6, <1>7, <1>8, <1>9,
        <1>10, <1>11, <1>12, <1>13, <1>14, <1>15, <1>16, <1>17, <1>18,
        <1>19, <1>20, <1>21, <1>22, <1>23
     DEF Next, WorkerStep, ProviderStep, ReaderStep

\* The types hold in every state.
THEOREM TypeCorrect == Spec => []Types
<1>1. Init => Types
      BY DEF Init, Types, Places, States
<1>. QED BY <1>1, NextTypes, PTL DEF Spec
-------------------------------------------------------------------------------
\* Every step keeps turns apart: a turn starts only on a session that is not
\* active, and the host invokes only what it has provisioned.
LEMMA NextApart == Types /\ Apart /\ [Next]_vars => Apart'
<1> SUFFICES ASSUME Types, Apart, [Next]_vars PROVE Apart'
    OBVIOUS
<1> USE HandleType DEF Apart, ActiveInTurn, TurnsAreApart, InTurn, HandleOf, Shared, Types, Goes, Returns,
        Accepts, sessionVars, turnVars
<1>1. ASSUME NEW e \in Executions, SkipCancelled(e) PROVE Apart'
      BY <1>1 DEF SkipCancelled
<1>2. ASSUME NEW e \in Executions, Open(e) PROVE Apart'
      BY <1>2 DEF Open
<1>3. ASSUME NEW e \in Executions, OpenFails(e) PROVE Apart'
      BY <1>3 DEF OpenFails
<1>4. ASSUME NEW e \in Executions, InstallScope(e) PROVE Apart'
      BY <1>4 DEF InstallScope
<1>5. ASSUME NEW e \in Executions, Begin(e) PROVE Apart'
      <2>1. CASE state[e] = "Pending"
            BY <1>5, <2>1 DEF Begin
      <2>2. CASE state[e] # "Pending"
            BY <1>5, <2>2 DEF Begin
      <2>. QED BY <1>5, <2>1, <2>2 DEF Begin
<1>6. ASSUME NEW e \in Executions, Activate(e) PROVE Apart'
      <2>1. CASE HandleOf(e) \in active
            <3>1. UNCHANGED <<active, called, setting>> /\ pc' = [pc EXCEPT ![e] = "returned"]
                  BY <1>6, <2>1 DEF Activate
            <3>. QED BY <3>1
      <2>2. CASE HandleOf(e) \notin active
            BY <1>6, <2>2 DEF Activate
      <2>. QED BY <1>6, <2>1, <2>2 DEF Activate
<1>7. ASSUME NEW e \in Executions, ClearFlag(e) PROVE Apart'
      BY <1>7 DEF ClearFlag
<1>8. ASSUME NEW e \in Executions, ReadSession(e) PROVE Apart'
      <2>1. CASE Goes(e, "round") /\ UNCHANGED result
            BY <1>8, <2>1 DEF ReadSession
      <2>2. CASE Returns(e, "error")
            BY <1>8, <2>2 DEF ReadSession
      <2>. QED BY <1>8, <2>1, <2>2 DEF ReadSession
<1>9. ASSUME NEW e \in Executions, Round(e) PROVE Apart'
      <2>1. CASE Returns(e, "error")
            BY <1>9, <2>1 DEF Round
      <2>2. CASE Returns(e, "ok")
            BY <1>9, <2>2 DEF Round
      <2>3. CASE Goes(e, "streaming") /\ UNCHANGED result
            BY <1>9, <2>3 DEF Round
      <2>. QED BY <1>9, <2>1, <2>2, <2>3 DEF Round
<1>10. ASSUME NEW e \in Executions, Release(e) PROVE Apart'
      BY <1>10 DEF Release
<1>11. ASSUME NEW e \in Executions, Store(e) PROVE Apart'
      BY <1>11 DEF Store
<1>12. ASSUME NEW e \in Executions, Finish(e) PROVE Apart'
      BY <1>12 DEF Finish
<1>13. ASSUME NEW e \in Executions, DropScope(e) PROVE Apart'
      BY <1>13 DEF DropScope
<1>14. ASSUME NEW e \in Executions, CutShort(e) PROVE Apart'
      BY <1>14 DEF CutShort
<1>15. ASSUME NEW e \in Executions, StreamFails(e) PROVE Apart'
      BY <1>15 DEF StreamFails
<1>16. ASSUME NEW e \in Executions, StreamEnds(e) PROVE Apart'
      <2>1. CASE Goes(e, "calling") /\ UNCHANGED <<answered, result>>
            BY <1>16, <2>1 DEF StreamEnds
      <2>2. CASE answered' = answered \cup {e} /\ Returns(e, "ok")
            BY <1>16, <2>2 DEF StreamEnds
      <2>. QED BY <1>16, <2>1, <2>2 DEF StreamEnds
<1>17. ASSUME NEW e \in Executions, ChunkRefused(e) PROVE Apart'
      BY <1>17 DEF ChunkRefused
<1>18. ASSUME NEW e \in Executions, NEW t \in Tools, Dispatch(e, t) PROVE Apart'
      <2>1. CASE Goes(e, "calling") /\ UNCHANGED result
            BY <1>18, <2>1 DEF Dispatch
      <2>2. CASE Goes(e, "round") /\ UNCHANGED result
            BY <1>18, <2>2 DEF Dispatch
      <2>3. CASE Returns(e, "error")
            BY <1>18, <2>3 DEF Dispatch
      <2>. QED BY <1>18, <2>1, <2>2, <2>3 DEF Dispatch
<1>19. CASE CopyScopes
      BY <1>19 DEF CopyScopes
<1>20. ASSUME NEW C, CancelInRuntime(C) PROVE Apart'
      BY <1>20 DEF CancelInRuntime, AfterCancel
<1>21. ASSUME NEW e \in Executions, SetFlag(e) PROVE Apart'
      BY <1>21 DEF SetFlag
<1>22. CASE CancelDone
      BY <1>22 DEF CancelDone
<1>23. CASE UNCHANGED vars
      BY <1>23 DEF vars
<1>. QED
     BY <1>1, <1>2, <1>3, <1>4, <1>5, <1>6, <1>7, <1>8, <1>9,
        <1>10, <1>11, <1>12, <1>13, <1>14, <1>15, <1>16, <1>17, <1>18,
        <1>19, <1>20, <1>21, <1>22, <1>23
     DEF Next, WorkerStep, ProviderStep, ReaderStep

\* "one turn at a time": whatever executions share a native session, at most one
\* of them is between the setting and the clearing of `active`
\* (phenix-backend-native/src/lib.rs:520-536), and it invokes only tools of its own
\* execution, although others replace the session's.
THEOREM Separation == Spec => []TurnsAreApart
<1>1. Init => Apart
      BY DEF Init, Apart, ActiveInTurn, TurnsAreApart, InTurn
<1>2. Apart => TurnsAreApart
      BY DEF Apart
<1>. QED BY <1>1, <1>2, NextApart, TypeCorrect, PTL DEF Spec
-------------------------------------------------------------------------------
\* Every step keeps flags true: a flag is set for an execution that is Cancelled,
\* which is final, and only a set flag or an answer makes a turn return success.
LEMMA NextFlags == Types /\ FlagsAreTrue /\ [Next]_vars => FlagsAreTrue'
<1> SUFFICES ASSUME Types, FlagsAreTrue, [Next]_vars PROVE FlagsAreTrue'
    OBVIOUS
<1> USE HandleType DEF FlagsAreTrue, HandleOf, Shared, Types, States, Goes, Returns, sessionVars, turnVars
<1>1. ASSUME NEW e \in Executions, SkipCancelled(e) PROVE FlagsAreTrue'
      BY <1>1 DEF SkipCancelled
<1>2. ASSUME NEW e \in Executions, Open(e) PROVE FlagsAreTrue'
      BY <1>2 DEF Open
<1>3. ASSUME NEW e \in Executions, OpenFails(e) PROVE FlagsAreTrue'
      BY <1>3 DEF OpenFails
<1>4. ASSUME NEW e \in Executions, InstallScope(e) PROVE FlagsAreTrue'
      BY <1>4 DEF InstallScope
<1>5. ASSUME NEW e \in Executions, Begin(e) PROVE FlagsAreTrue'
      BY <1>5 DEF Begin
<1>6. ASSUME NEW e \in Executions, Activate(e) PROVE FlagsAreTrue'
      BY <1>6 DEF Activate
<1>7. ASSUME NEW e \in Executions, ClearFlag(e) PROVE FlagsAreTrue'
      BY <1>7 DEF ClearFlag
<1>8. ASSUME NEW e \in Executions, ReadSession(e) PROVE FlagsAreTrue'
      BY <1>8 DEF ReadSession
<1>9. ASSUME NEW e \in Executions, Round(e) PROVE FlagsAreTrue'
      BY <1>9 DEF Round
<1>10. ASSUME NEW e \in Executions, Release(e) PROVE FlagsAreTrue'
      BY <1>10 DEF Release
<1>11. ASSUME NEW e \in Executions, Store(e) PROVE FlagsAreTrue'
      BY <1>11 DEF Store
<1>12. ASSUME NEW e \in Executions, Finish(e) PROVE FlagsAreTrue'
      BY <1>12 DEF Finish
<1>13. ASSUME NEW e \in Executions, DropScope(e) PROVE FlagsAreTrue'
      BY <1>13 DEF DropScope
<1>14. ASSUME NEW e \in Executions, CutShort(e) PROVE FlagsAreTrue'
      BY <1>14 DEF CutShort
<1>15. ASSUME NEW e \in Executions, StreamFails(e) PROVE FlagsAreTrue'
      BY <1>15 DEF StreamFails
<1>16. ASSUME NEW e \in Executions, StreamEnds(e) PROVE FlagsAreTrue'
      BY <1>16 DEF StreamEnds
<1>17. ASSUME NEW e \in Executions, ChunkRefused(e) PROVE FlagsAreTrue'
      BY <1>17 DEF ChunkRefused
<1>18. ASSUME NEW e \in Executions, NEW t \in Tools, Dispatch(e, t) PROVE FlagsAreTrue'
      BY <1>18 DEF Dispatch
<1>19. CASE CopyScopes
      BY <1>19 DEF CopyScopes
<1>20. ASSUME NEW C, CancelInRuntime(C) PROVE FlagsAreTrue'
      BY <1>20 DEF CancelInRuntime, AfterCancel
<1>21. ASSUME NEW e \in Executions, SetFlag(e) PROVE FlagsAreTrue'
      BY <1>21 DEF SetFlag
<1>22. CASE CancelDone
      BY <1>22 DEF CancelDone
<1>23. CASE UNCHANGED vars
      BY <1>23 DEF vars
<1>. QED
     BY <1>1, <1>2, <1>3, <1>4, <1>5, <1>6, <1>7, <1>8, <1>9,
        <1>10, <1>11, <1>12, <1>13, <1>14, <1>15, <1>16, <1>17, <1>18,
        <1>19, <1>20, <1>21, <1>22, <1>23
     DEF Next, WorkerStep, ProviderStep, ReaderStep

\* Every step keeps completed executions answered.
LEMMA NextAnswered ==
    Types /\ FlagsAreTrue /\ CompletedWasAnswered /\ [Next]_vars => CompletedWasAnswered'
<1> SUFFICES ASSUME Types, FlagsAreTrue, CompletedWasAnswered, [Next]_vars
             PROVE  CompletedWasAnswered'
    OBVIOUS
<1> USE DEF CompletedWasAnswered, FlagsAreTrue, Types, States, Goes, Returns, sessionVars, turnVars
<1>1. ASSUME NEW e \in Executions, SkipCancelled(e) PROVE CompletedWasAnswered'
      BY <1>1 DEF SkipCancelled
<1>2. ASSUME NEW e \in Executions, Open(e) PROVE CompletedWasAnswered'
      BY <1>2 DEF Open
<1>3. ASSUME NEW e \in Executions, OpenFails(e) PROVE CompletedWasAnswered'
      BY <1>3 DEF OpenFails
<1>4. ASSUME NEW e \in Executions, InstallScope(e) PROVE CompletedWasAnswered'
      BY <1>4 DEF InstallScope
<1>5. ASSUME NEW e \in Executions, Begin(e) PROVE CompletedWasAnswered'
      BY <1>5 DEF Begin
<1>6. ASSUME NEW e \in Executions, Activate(e) PROVE CompletedWasAnswered'
      BY <1>6 DEF Activate
<1>7. ASSUME NEW e \in Executions, ClearFlag(e) PROVE CompletedWasAnswered'
      BY <1>7 DEF ClearFlag
<1>8. ASSUME NEW e \in Executions, ReadSession(e) PROVE CompletedWasAnswered'
      BY <1>8 DEF ReadSession
<1>9. ASSUME NEW e \in Executions, Round(e) PROVE CompletedWasAnswered'
      BY <1>9 DEF Round
<1>10. ASSUME NEW e \in Executions, Release(e) PROVE CompletedWasAnswered'
      BY <1>10 DEF Release
<1>11. ASSUME NEW e \in Executions, Store(e) PROVE CompletedWasAnswered'
      BY <1>11 DEF Store
<1>12. ASSUME NEW e \in Executions, Finish(e) PROVE CompletedWasAnswered'
      BY <1>12 DEF Finish
<1>13. ASSUME NEW e \in Executions, DropScope(e) PROVE CompletedWasAnswered'
      BY <1>13 DEF DropScope
<1>14. ASSUME NEW e \in Executions, CutShort(e) PROVE CompletedWasAnswered'
      BY <1>14 DEF CutShort
<1>15. ASSUME NEW e \in Executions, StreamFails(e) PROVE CompletedWasAnswered'
      BY <1>15 DEF StreamFails
<1>16. ASSUME NEW e \in Executions, StreamEnds(e) PROVE CompletedWasAnswered'
      BY <1>16 DEF StreamEnds
<1>17. ASSUME NEW e \in Executions, ChunkRefused(e) PROVE CompletedWasAnswered'
      BY <1>17 DEF ChunkRefused
<1>18. ASSUME NEW e \in Executions, NEW t \in Tools, Dispatch(e, t) PROVE CompletedWasAnswered'
      BY <1>18 DEF Dispatch
<1>19. CASE CopyScopes
      BY <1>19 DEF CopyScopes
<1>20. ASSUME NEW C, CancelInRuntime(C) PROVE CompletedWasAnswered'
      BY <1>20 DEF CancelInRuntime, AfterCancel
<1>21. ASSUME NEW e \in Executions, SetFlag(e) PROVE CompletedWasAnswered'
      BY <1>21 DEF SetFlag
<1>22. CASE CancelDone
      BY <1>22 DEF CancelDone
<1>23. CASE UNCHANGED vars
      BY <1>23 DEF vars
<1>. QED
     BY <1>1, <1>2, <1>3, <1>4, <1>5, <1>6, <1>7, <1>8, <1>9,
        <1>10, <1>11, <1>12, <1>13, <1>14, <1>15, <1>16, <1>17, <1>18,
        <1>19, <1>20, <1>21, <1>22, <1>23
     DEF Next, WorkerStep, ProviderStep, ReaderStep

\* A turn that was cut returns success too (phenix-backend-native/src/lib.rs:580);
\* on a session of its own that never makes finish_model_execution report an
\* execution Completed whose model did not answer to the end.
THEOREM NoCutTurnCompletes == Spec => []CompletedWasAnswered
<1>1. Init => FlagsAreTrue /\ CompletedWasAnswered
      BY DEF Init, FlagsAreTrue, CompletedWasAnswered
<1>. QED BY <1>1, NextFlags, NextAnswered, TypeCorrect, PTL DEF Spec
-------------------------------------------------------------------------------
(* The conversation: what a step does to it, by the phases of a turn. *)

Settled == {"returned", "finished", "ended"}

Starts(e) ==
    /\ MayStart(e)
    /\ \E p \in {"opened", "ended"} : Goes(e, p)
    /\ UNCHANGED <<history, copy, result>>

\* On the way to its turn, from which an execution that is not Pending, and one
\* whose session is active, go straight to the end.
Approaches(e) ==
    /\ pc[e] \in {"opened", "scoped", "begun", "activated"}
    /\ \/ \E p \in {"scoped", "begun", "activated", "cleared", "finished"} :
             Goes(e, p) /\ UNCHANGED result
       \/ Goes(e, "returned") /\ result' = [result EXCEPT ![e] = "error"]
    /\ UNCHANGED <<history, copy>>

Reads(e) ==
    /\ pc[e] = "cleared"
    /\ copy' = [copy EXCEPT ![e] = Append(history[HandleOf(e)], e)]
    /\ (Goes(e, "round") /\ UNCHANGED result) \/ Returns(e, "error")
    /\ UNCHANGED history

Answers(e) ==
    /\ \/ /\ pc[e] \in {"round", "streaming", "calling"}
          /\ \/ \E p \in {"round", "streaming", "calling"} : Goes(e, p) /\ UNCHANGED result
             \/ \E r \in {"ok", "error"} : Returns(e, r)
       \/ pc[e] = "over" /\ Goes(e, "released") /\ UNCHANGED result
    /\ UNCHANGED <<history, copy>>

Leaves(e) ==
    /\ pc[e] \in {"returned", "finished"}
    /\ \E p \in {"finished", "ended"} : Goes(e, p)
    /\ UNCHANGED <<history, copy, result>>

\* Every step is of one of these phases, or has nothing to do with conversations.
LEMMA Phases ==
    ASSUME Types, [Next]_vars
    PROVE  /\ UNCHANGED setting
           /\ \/ UNCHANGED <<pc, history, copy, result>>
              \/ \E e \in Executions :
                    \/ Starts(e) \/ Approaches(e) \/ Reads(e) \/ Answers(e) \/ Store(e) \/ Leaves(e)
<1> DEFINE Phase(e) == Starts(e) \/ Approaches(e) \/ Reads(e) \/ Answers(e) \/ Store(e) \/ Leaves(e)
           Goal == /\ UNCHANGED setting
                   /\ UNCHANGED <<pc, history, copy, result>> \/ \E e \in Executions : Phase(e)
<1> USE DEF sessionVars, turnVars, Goes, Returns
<1>1. ASSUME NEW e \in Executions, SkipCancelled(e) \/ Open(e) \/ OpenFails(e) PROVE Goal
      BY <1>1 DEF SkipCancelled, Open, OpenFails, Starts
<1>2. ASSUME NEW e \in Executions, InstallScope(e) \/ Begin(e) \/ Activate(e) \/ ClearFlag(e) PROVE Goal
      BY <1>2 DEF InstallScope, Begin, Activate, ClearFlag, Approaches
<1>3. ASSUME NEW e \in Executions, ReadSession(e) PROVE Goal
      BY <1>3 DEF ReadSession, Reads
<1>4. ASSUME NEW e \in Executions, Round(e) PROVE Goal
      BY <1>4 DEF Round, Answers, Types
<1>5. ASSUME NEW e \in Executions, CutShort(e) \/ StreamFails(e) \/ StreamEnds(e) \/ ChunkRefused(e)
      PROVE  Goal
      BY <1>5 DEF CutShort, StreamFails, StreamEnds, ChunkRefused, Answers, Types
<1>6. ASSUME NEW e \in Executions, NEW t \in Tools, Dispatch(e, t) PROVE Goal
      BY <1>6 DEF Dispatch, Answers, Types
<1>7. ASSUME NEW e \in Executions, Release(e) PROVE Goal
      BY <1>7 DEF Release, Answers, Types
<1>8. ASSUME NEW e \in Executions, Store(e) PROVE Goal
      BY <1>8 DEF Store
<1>9. ASSUME NEW e \in Executions, Finish(e) \/ DropScope(e) PROVE Goal
      BY <1>9 DEF Finish, DropScope, Leaves
<1>10. ASSUME CopyScopes \/ CancelDone \/ UNCHANGED vars PROVE Goal
       BY <1>10 DEF CopyScopes, CancelDone, vars
<1>11. ASSUME NEW C, CancelInRuntime(C) PROVE Goal
       BY <1>11 DEF CancelInRuntime
<1>12. ASSUME NEW e \in Executions, SetFlag(e) PROVE Goal
       BY <1>12 DEF SetFlag
<1> HIDE DEF Goal
<1>13. Goal
       BY <1>1, <1>2, <1>3, <1>4, <1>5, <1>6, <1>7, <1>8, <1>9, <1>10, <1>11, <1>12
       DEF Next, WorkerStep, ProviderStep, ReaderStep
<1>. QED BY <1>13 DEF Goal

\* A result is there only once the turn is over, whatever the step.
LEMMA NextResult == Types /\ ResultAtTheEnd /\ [Next]_vars => ResultAtTheEnd'
<1> SUFFICES ASSUME Types, ResultAtTheEnd, [Next]_vars PROVE ResultAtTheEnd'
    OBVIOUS
<1> USE DEF ResultAtTheEnd, Types, Goes, Returns
<1>1. CASE UNCHANGED <<pc, history, copy, result>>
      BY <1>1
<1>2. ASSUME NEW e \in Executions, Starts(e) PROVE ResultAtTheEnd'
      BY <1>2 DEF Starts, MayStart
<1>3. ASSUME NEW e \in Executions, Approaches(e) PROVE ResultAtTheEnd'
      BY <1>3 DEF Approaches
<1>4. ASSUME NEW e \in Executions, Reads(e) PROVE ResultAtTheEnd'
      BY <1>4 DEF Reads
<1>5. ASSUME NEW e \in Executions, Answers(e) PROVE ResultAtTheEnd'
      BY <1>5 DEF Answers, Places
<1>6. ASSUME NEW e \in Executions, Store(e) PROVE ResultAtTheEnd'
      BY <1>6 DEF Store
<1>7. ASSUME NEW e \in Executions, Leaves(e) PROVE ResultAtTheEnd'
      BY <1>7 DEF Leaves
<1>. QED BY <1>1, <1>2, <1>3, <1>4, <1>5, <1>6, <1>7, Phases

\* Every step keeps the sequence of turns, and a running turn's copy of the
\* conversation: nobody else is there to change the conversation meanwhile.
LEMMA NextInSequence == Types /\ InSequence /\ [Next]_vars => InSequence'
<1> SUFFICES ASSUME Types, InSequence, [Next]_vars, setting.mode = "turns" PROVE InSequence'
    BY Phases DEF InSequence
<1> DEFINE Order == \A e, f \in Executions : f < e /\ pc[e] # "new" => pc[f] = "ended"
           Running == {"round", "streaming", "calling", "over", "released"}
           Copies == \A e \in Executions :
                        pc[e] \in Running => copy[e] = Append(history[Persistent], e)
<1>1. Order /\ Copies
      BY DEF InSequence
<1>2. \A e \in Executions : HandleOf(e) = Persistent
      BY DEF HandleOf, Shared
<1>3. Persistent \in Handles
      BY DEF Handles
<1>4. pc \in [Executions -> Places] /\ copy \in [Executions -> Seq(Executions)]
         /\ history \in [Handles -> Seq(Executions)]
      BY DEF Types
<1>5. \A e, f \in Executions : e # f => e < f \/ f < e
      BY NativeAssumption DEF Executions
<1>6. ASSUME NEW e \in Executions, NEW p, Goes(e, p), pc[e] \notin {"new", "ended"} PROVE Order'
      BY <1>1, <1>4, <1>6 DEF Goes
<1>7. ASSUME NEW e \in Executions, pc[e] \notin {"new", "ended"}
      PROVE  \A f \in Executions \ {e} : pc[f] \notin Running
      BY <1>1, <1>5, <1>7
<1>8. Order' /\ Copies' => InSequence'
      BY DEF InSequence
<1> HIDE DEF Order
<1> USE <1>4 DEF Goes, Returns
<1>9. CASE UNCHANGED <<pc, history, copy, result>>
      BY <1>1, <1>8, <1>9 DEF Order
<1>10. ASSUME NEW e \in Executions, Starts(e) PROVE InSequence'
       <2>1. pc[e] = "new" /\ \A f \in Executions : f < e => pc[f] = "ended"
             BY <1>10, NativeAssumption DEF Starts, MayStart, Executions
       <2>2. Order'
             BY <1>1, <1>10, <2>1 DEF Order, Starts
       <2>3. Copies'
             BY <1>1, <1>10 DEF Starts
       <2>. QED BY <1>8, <2>2, <2>3
<1>11. ASSUME NEW e \in Executions, Approaches(e) PROVE InSequence'
       <2>1. Order'
             BY <1>6, <1>11 DEF Approaches
       <2>2. Copies'
             BY <1>1, <1>11 DEF Approaches
       <2>. QED BY <1>8, <2>1, <2>2
<1>12. ASSUME NEW e \in Executions, Reads(e) PROVE InSequence'
       <2>1. Order'
             BY <1>6, <1>12 DEF Reads
       <2>2. copy'[e] = Append(history'[Persistent], e)
             BY <1>2, <1>12 DEF Reads
       <2>3. \A f \in Executions \ {e} : pc'[f] \notin Running
             BY <1>7, <1>12 DEF Reads
       <2>. QED BY <1>8, <2>1, <2>2, <2>3
<1>13. ASSUME NEW e \in Executions, Answers(e) PROVE InSequence'
       <2>1. Order'
             BY <1>6, <1>13 DEF Answers
       <2>2. Copies'
             BY <1>1, <1>13 DEF Answers
       <2>. QED BY <1>8, <2>1, <2>2
<1>14. ASSUME NEW e \in Executions, Store(e) PROVE InSequence'
       <2>1. Order'
             BY <1>6, <1>14 DEF Store
       <2>2. \A f \in Executions : pc'[f] \notin Running
             BY <1>7, <1>14 DEF Store
       <2>. QED BY <1>8, <2>1, <2>2
<1>15. ASSUME NEW e \in Executions, Leaves(e) PROVE InSequence'
       <2>1. Order'
             BY <1>6, <1>15 DEF Leaves
       <2>2. Copies'
             BY <1>1, <1>15 DEF Leaves
       <2>. QED BY <1>8, <2>1, <2>2
<1>. QED BY <1>9, <1>10, <1>11, <1>12, <1>13, <1>14, <1>15, Phases

\* Every step keeps the conversation in order.
LEMMA NextConversation ==
    Types /\ ResultAtTheEnd /\ InSequence /\ ConversationInOrder /\ [Next]_vars
        => ConversationInOrder'
<1> SUFFICES ASSUME Types, ResultAtTheEnd, InSequence, ConversationInOrder, [Next]_vars,
                    setting.mode = "turns"
             PROVE  ConversationInOrder'
    BY Phases DEF ConversationInOrder
<1> DEFINE turns == history[Persistent]
           Rising == \A i, j \in 1..Len(turns) : i < j => turns[i] < turns[j]
           Said == {turns[i] : i \in 1..Len(turns)}
           Meant == {f \in Executions : result[f] = "ok" /\ pc[f] \in Settled}
<1>1. Rising /\ Said = Meant
      BY DEF ConversationInOrder, Settled
<1>2. Rising' /\ Said' = Meant' => ConversationInOrder'
      BY DEF ConversationInOrder, Settled
<1>3. pc \in [Executions -> Places] /\ result \in [Executions -> {"none", "ok", "error"}]
      BY DEF Types
<1>4. ASSUME UNCHANGED history, Meant' = Meant PROVE ConversationInOrder'
      BY <1>1, <1>2, <1>4
<1> HIDE DEF Rising, Said
<1> USE <1>3 DEF Goes, Returns
<1>5. CASE UNCHANGED <<pc, history, copy, result>>
      BY <1>4, <1>5
<1>6. ASSUME NEW e \in Executions, Starts(e) PROVE ConversationInOrder'
      <2>1. pc[e] = "new" /\ result[e] # "ok"
            BY <1>6 DEF Starts, MayStart, ResultAtTheEnd
      <2>. QED BY <1>4, <1>6, <2>1 DEF Starts, Settled
<1>7. ASSUME NEW e \in Executions, Approaches(e) PROVE ConversationInOrder'
      <2>1. result[e] # "ok" /\ result'[e] # "ok" /\ pc[e] \notin Settled
            BY <1>7 DEF Approaches, ResultAtTheEnd, Settled
      <2>2. \A f \in Executions \ {e} : pc'[f] = pc[f] /\ result'[f] = result[f]
            BY <1>7 DEF Approaches
      <2>3. Meant' = Meant
            BY <2>1, <2>2
      <2>. QED BY <1>4, <1>7, <2>3 DEF Approaches
<1>8. ASSUME NEW e \in Executions, Reads(e) PROVE ConversationInOrder'
      <2>1. pc[e] \notin Settled /\ pc'[e] \notin Settled
            BY <1>8 DEF Reads, Settled
      <2>2. \A f \in Executions \ {e} : pc'[f] = pc[f] /\ result'[f] = result[f]
            BY <1>8 DEF Reads
      <2>3. Meant' = Meant
            BY <2>1, <2>2
      <2>. QED BY <1>4, <1>8, <2>3 DEF Reads
<1>9. ASSUME NEW e \in Executions, Answers(e) PROVE ConversationInOrder'
      <2>1. pc[e] \notin Settled /\ pc'[e] \notin Settled
            BY <1>9 DEF Answers, Settled
      <2>2. \A f \in Executions \ {e} : pc'[f] = pc[f] /\ result'[f] = result[f]
            BY <1>9 DEF Answers
      <2>3. Meant' = Meant
            BY <2>1, <2>2
      <2>. QED BY <1>4, <1>9, <2>3 DEF Answers
<1>10. ASSUME NEW e \in Executions, Leaves(e) PROVE ConversationInOrder'
      <2>1. pc[e] \in Settled /\ pc'[e] \in Settled
            BY <1>10 DEF Leaves, Settled
      <2>2. \A f \in Executions \ {e} : pc'[f] = pc[f]
            BY <1>10 DEF Leaves
      <2>3. Meant' = Meant
            BY <1>10, <2>1, <2>2 DEF Leaves
      <2>. QED BY <1>4, <1>10, <2>3 DEF Leaves
<1>11. ASSUME NEW e \in Executions, Store(e), result[e] # "ok" PROVE ConversationInOrder'
      <2>1. Meant' = Meant
            BY <1>11 DEF Store
      <2>. QED BY <1>4, <1>11, <2>1 DEF Store
<1>12. ASSUME NEW e \in Executions, Store(e), result[e] = "ok" PROVE ConversationInOrder'
      <2>1. HandleOf(e) = Persistent /\ Persistent \in Handles
            BY DEF HandleOf, Shared, Handles
      <2>2. pc[e] = "released" /\ copy[e] = Append(turns, e)
            BY <1>12 DEF Store, InSequence
      <2>3. turns \in Seq(Executions) /\ turns' = Append(turns, e)
            BY <1>12, <2>1, <2>2 DEF Store, Types
      <2>4. \A f \in Meant : f < e
            <3> SUFFICES ASSUME NEW f \in Meant PROVE f < e
                OBVIOUS
            <3>1. f # e /\ pc[f] # "new"
                  BY <2>2 DEF Settled
            <3>2. ~(e < f)
                  BY <2>2, <3>1 DEF InSequence
            <3>. QED BY <3>1, <3>2, NativeAssumption DEF Executions
      <2>5. \A i \in 1..Len(turns) : turns[i] \in Meant
            BY <1>1 DEF Said
      <2>6. /\ Len(turns') = Len(turns) + 1 /\ Len(turns) \in Nat
            /\ \A i \in 1..Len(turns) : turns'[i] = turns[i]
            /\ turns'[Len(turns) + 1] = e
            BY <2>3
      <2> HIDE DEF turns, Meant
      <2>7. Rising'
            <3> SUFFICES ASSUME NEW i \in 1..Len(turns'), NEW j \in 1..Len(turns'), i < j
                         PROVE  turns'[i] < turns'[j]
                BY DEF Rising
            <3>1. CASE j = Len(turns) + 1
                  BY <2>4, <2>5, <2>6, <3>1
            <3>2. CASE j # Len(turns) + 1
                  BY <1>1, <2>6, <3>2 DEF Rising
            <3>. QED BY <3>1, <3>2
      <2>8. Said' = Said \cup {e}
            <3>1. \A x \in Said' : x \in Said \cup {e}
                  <4> SUFFICES ASSUME NEW i \in 1..Len(turns') PROVE turns'[i] \in Said \cup {e}
                      BY DEF Said
                  <4>1. CASE i = Len(turns) + 1
                        BY <2>6, <4>1
                  <4>2. CASE i # Len(turns) + 1
                        <5>1. i \in 1..Len(turns)
                              BY <2>6, <4>2
                        <5>. QED BY <2>6, <5>1 DEF Said
                  <4>. QED BY <4>1, <4>2
            <3>2. \A x \in Said : x \in Said'
                  <4> SUFFICES ASSUME NEW i \in 1..Len(turns) PROVE turns[i] \in Said'
                      BY DEF Said
                  <4>1. i \in 1..Len(turns') /\ turns'[i] = turns[i]
                        BY <2>6
                  <4>. QED BY <4>1 DEF Said
            <3>3. e \in Said'
                  <4>1. Len(turns) + 1 \in 1..Len(turns')
                        BY <2>6
                  <4>. QED BY <2>6, <4>1 DEF Said
            <3>. QED BY <3>1, <3>2, <3>3
      <2>9. Meant' = Meant \cup {e}
            BY <1>12 DEF Store, Meant, Settled
      <2>. QED BY <1>1, <1>2, <2>7, <2>8, <2>9
<1>. QED BY <1>5, <1>6, <1>7, <1>8, <1>9, <1>10, <1>11, <1>12, Phases

\* On the persistent session, which successive turns of a Phenix session use, the
\* conversation is exactly the turns that succeeded, in their order: storing it
\* after the session is free (phenix-backend-native/src/lib.rs:536) loses nothing,
\* because the queue keeps turns apart.
THEOREM OrderlyConversation == Spec => []ConversationInOrder
<1>1. Init => ResultAtTheEnd /\ InSequence /\ ConversationInOrder
      BY DEF Init, ResultAtTheEnd, InSequence, ConversationInOrder, Handles, Persistent
<1>. QED BY <1>1, NextResult, NextInSequence, NextConversation, TypeCorrect, PTL DEF Spec
===============================================================================

----------------------------- MODULE NativeSession -----------------------------
(***************************************************************************)
(* Turns on the native backend (phenix-backend-native, lib.rs, as the      *)
(* workers and the reader of server.rs use it): rounds of a provider's     *)
(* answer and of the tool calls it asks for, the conversation that a       *)
(* backend session keeps, and cancellation by a flag.                      *)
(*                                                                         *)
(* A routed execution opens a backend session of its own; executions with  *)
(* a fixed target share the persistent one of their Phenix session, as     *)
(* successive turns or as siblings of one orchestration.  Executions are   *)
(* numbered in the order in which the queue hands them out.                *)
(***************************************************************************)
EXTENDS Naturals, Sequences

CONSTANTS N,            \* turns of a Phenix session
          Workers,      \* how many run side by side, where they are not turns
          Tools,        \* what the model may call
          Provision,    \* Provision[e]: the tools e was provisioned with
          Limit,        \* PHENIX_MAX_TOOL_ROUNDS, where it is set
          None

ASSUME NativeAssumption == N \in Nat

Executions == 1..N

VARIABLES setting,    \* [mode, limited]: how sessions are used, whether rounds are limited
          active,     \* the backend sessions with a turn
          cancelled,  \* the backend sessions whose flag is set
          tools,      \* tools[h]: whose tools the session was opened with last
          history,    \* history[h]: the turns the session remembers
          pc,         \* pc[e]: where the worker of execution e is
          state,      \* state[e]: the execution's state in the runtime
          scopes,     \* active_scopes
          given,      \* given[e]: whose tools e's turn uses
          copy,       \* copy[e]: the conversation in e's turn, with it
          rounds,     \* rounds[e]: tool_rounds, where they are limited
          answered,   \* executions whose model answered to the end
          called,     \* called[e]: the tool that the last call of e's turn invoked
          result,     \* result[e]: what execute returned
          reader      \* the reader's cancellation in progress

sessionVars == <<setting, active, cancelled, tools, history>>
turnVars == <<given, copy, rounds, answered, called, result>>

vars == <<sessionVars, pc, state, scopes, turnVars, reader>>

Shared == setting.mode # "own"

Persistent == 0  \* the persistent backend session; others are named by their execution

Handles == Executions \cup {Persistent}

HandleOf(e) == IF Shared THEN Persistent ELSE e

Init ==
    /\ setting \in [mode : {"own", "turns", "siblings"}, limited : BOOLEAN]
    /\ active = {} /\ cancelled = {} /\ scopes = {}
    /\ tools = [h \in Handles |-> None]
    /\ history = [h \in Handles |-> <<>>]
    /\ pc = [e \in Executions |-> "new"]
    /\ state = [e \in Executions |-> "Pending"]
    /\ given = [e \in Executions |-> None]
    /\ copy = [e \in Executions |-> <<>>]
    /\ rounds = [e \in Executions |-> 0]
    /\ answered = {}
    /\ called = [e \in Executions |-> None]
    /\ result = [e \in Executions |-> "none"]
    /\ reader = [pc |-> "idle", active |-> {}, targets |-> {}]
-------------------------------------------------------------------------------
(* A worker: execute_model_execution around the backend session.  A turn     *)
(* follows the turns before it (the queue's SessionExclusive).               *)

Goes(e, place) == pc' = [pc EXCEPT ![e] = place]

Returns(e, outcome) ==
    /\ result' = [result EXCEPT ![e] = outcome]
    /\ Goes(e, "over")

\* The executions that there are
Members == IF setting.mode = "turns" THEN Executions ELSE 1..Workers

MayStart(e) ==
    /\ pc[e] = "new"
    /\ e \in Members
    /\ setting.mode = "turns" => \A f \in 1..(e - 1) : pc[f] = "ended"

\* execute_execution finds e cancelled before it opened a session.
SkipCancelled(e) ==
    /\ MayStart(e)
    /\ state[e] = "Cancelled"
    /\ Goes(e, "ended")
    /\ UNCHANGED <<sessionVars, state, scopes, turnVars, reader>>

\* open_session, or open_persistent_session: its tools are replaced, whoever
\* else is about to read them.
Open(e) ==
    /\ MayStart(e)
    /\ state[e] = "Pending"
    /\ tools' = [tools EXCEPT ![HandleOf(e)] = e]
    /\ Goes(e, "opened")
    /\ UNCHANGED <<setting, active, cancelled, history, state, scopes, turnVars, reader>>

\* validate_request refuses the model or the tools: fail_shared_execution.
OpenFails(e) ==
    /\ MayStart(e)
    /\ state[e] = "Pending"
    /\ state' = [state EXCEPT ![e] = "Failed"]
    /\ Goes(e, "ended")
    /\ UNCHANGED <<sessionVars, scopes, turnVars, reader>>

InstallScope(e) ==
    /\ pc[e] = "opened"
    /\ scopes' = scopes \cup {e}
    /\ Goes(e, "scoped")
    /\ UNCHANGED <<sessionVars, state, turnVars, reader>>

\* begin_execution
Begin(e) ==
    /\ pc[e] = "scoped"
    /\ IF state[e] = "Pending"
       THEN state' = [state EXCEPT ![e] = "Running"] /\ Goes(e, "begun")
       ELSE Goes(e, "finished") /\ UNCHANGED state
    /\ UNCHANGED <<sessionVars, scopes, turnVars, reader>>

\* finish_model_execution
Finish(e) ==
    /\ pc[e] = "returned"
    /\ state' = [state EXCEPT ![e] =
                    IF @ # "Running" THEN @
                    ELSE IF result[e] = "ok" THEN "Completed" ELSE "Failed"]
    /\ Goes(e, "finished")
    /\ UNCHANGED <<sessionVars, scopes, turnVars, reader>>

\* Drop of LiveExecutionLease
DropScope(e) ==
    /\ pc[e] = "finished"
    /\ scopes' = scopes \ {e}
    /\ Goes(e, "ended")
    /\ UNCHANGED <<sessionVars, state, turnVars, reader>>
-------------------------------------------------------------------------------
(* PhenixSession::execute *)

Activate(e) ==
    LET h == HandleOf(e) IN
    /\ pc[e] = "begun"
    /\ IF h \in active
       THEN /\ result' = [result EXCEPT ![e] = "error"]
            /\ Goes(e, "returned")
            /\ UNCHANGED active
       ELSE active' = active \cup {h} /\ Goes(e, "activated") /\ UNCHANGED result
    /\ UNCHANGED <<setting, cancelled, tools, history, state, scopes, reader,
                   given, copy, rounds, answered, called>>

ClearFlag(e) ==
    /\ pc[e] = "activated"
    /\ cancelled' = cancelled \ {HandleOf(e)}
    /\ Goes(e, "cleared")
    /\ UNCHANGED <<setting, active, tools, history, state, scopes, turnVars, reader>>

\* execute_turn reads the session; the provider may be unreachable.
ReadSession(e) ==
    LET h == HandleOf(e) IN
    /\ pc[e] = "cleared"
    /\ given' = [given EXCEPT ![e] = tools[h]]
    /\ copy' = [copy EXCEPT ![e] = Append(history[h], e)]
    /\ \/ Goes(e, "round") /\ UNCHANGED result
       \/ Returns(e, "error")
    /\ UNCHANGED <<sessionVars, state, scopes, rounds, answered, called, reader>>

\* Mutant: every round starts with the flag cleared.
RoundClearingFlag(e) ==
    /\ pc[e] = "round"
    /\ cancelled' = cancelled \ {HandleOf(e)}
    /\ \/ /\ setting.limited => rounds[e] < Limit
          /\ rounds' = [rounds EXCEPT ![e] = IF setting.limited THEN @ + 1 ELSE @]
          /\ Goes(e, "streaming") /\ UNCHANGED result
       \/ Returns(e, "error") /\ UNCHANGED rounds
    /\ UNCHANGED <<setting, active, tools, history, state, scopes, reader,
                   given, copy, answered, called>>

\* The start of a round: at the limit the turn fails, a cancelled one ends with
\* success, and the request to the provider succeeds or fails.
Round(e) ==
    LET counted == [rounds EXCEPT ![e] = IF setting.limited THEN @ + 1 ELSE @] IN
    /\ pc[e] = "round"
    /\ \/ /\ setting.limited /\ rounds[e] >= Limit
          /\ Returns(e, "error") /\ UNCHANGED rounds
       \/ /\ setting.limited => rounds[e] < Limit
          /\ rounds' = counted
          /\ \/ HandleOf(e) \in cancelled /\ Returns(e, "ok")
             \/ /\ HandleOf(e) \notin cancelled
                /\ (Goes(e, "streaming") /\ UNCHANGED result) \/ Returns(e, "error")
    /\ UNCHANGED <<sessionVars, state, scopes, reader, given, copy, answered, called>>

\* An event of the stream finds the flag set.
CutShort(e) ==
    /\ pc[e] = "streaming"
    /\ HandleOf(e) \in cancelled
    /\ Returns(e, "ok")
    /\ UNCHANGED <<sessionVars, state, scopes, reader, given, copy, rounds, answered, called>>

\* SharedRuntimeHost::emit refuses a chunk when e is terminal; one that it
\* accepts is an event of the journal, and nothing here.
ChunkRefused(e) ==
    /\ pc[e] = "streaming"
    /\ HandleOf(e) \notin cancelled
    /\ state[e] # "Running"
    /\ Returns(e, "error")
    /\ UNCHANGED <<sessionVars, state, scopes, reader, given, copy, rounds, answered, called>>

\* The stream, or the saving of a chunk, fails.
StreamFails(e) ==
    /\ pc[e] = "streaming"
    /\ HandleOf(e) \notin cancelled
    /\ Returns(e, "error")
    /\ UNCHANGED <<sessionVars, state, scopes, reader, given, copy, rounds, answered, called>>

\* The stream ends, with tool calls or with the answer.
StreamEnds(e) ==
    /\ pc[e] = "streaming"
    /\ HandleOf(e) \notin cancelled
    /\ \/ Goes(e, "calling") /\ UNCHANGED <<answered, result>>
       \/ answered' = answered \cup {e} /\ Returns(e, "ok")
    /\ UNCHANGED <<sessionVars, state, scopes, reader, given, copy, rounds, called>>

\* Mutant: the host invokes whatever the session offered.
AcceptsOffered(e, t) == state[e] = "Running"

\* SharedRuntimeHost::invoke_tool
Accepts(e, t) == state[e] = "Running" /\ t \in Provision[e]

\* dispatch_tool_call: a tool that the session does not offer and a call that
\* the host refuses are answered to the model; when the journal cannot be saved
\* the turn fails.  More calls of the reply follow, or the next round.
Dispatch(e, t) ==
    LET invoked == t \in Provision[given[e]] /\ Accepts(e, t) IN
    /\ pc[e] = "calling"
    /\ called' = [called EXCEPT ![e] = IF invoked THEN t ELSE None]
    /\ \/ \E place \in {"calling", "round"} : Goes(e, place) /\ UNCHANGED result
       \/ invoked /\ Returns(e, "error")
    /\ UNCHANGED <<sessionVars, state, scopes, reader, given, copy, rounds, answered>>

\* execute_turn has returned, its locals are gone, and the session is free before
\* its history is stored.
Release(e) ==
    /\ pc[e] = "over"
    /\ active' = active \ {HandleOf(e)}
    /\ given' = [given EXCEPT ![e] = None]
    /\ rounds' = [rounds EXCEPT ![e] = 0]
    /\ called' = [called EXCEPT ![e] = None]
    /\ Goes(e, "released")
    /\ UNCHANGED <<setting, cancelled, tools, history, state, scopes, copy, answered, result, reader>>

\* Mutant: the conversation is stored whatever came of the turn.
StoreAlways(e) ==
    /\ pc[e] = "released"
    /\ history' = [history EXCEPT ![HandleOf(e)] = copy[e]]
    /\ Goes(e, "returned")
    /\ UNCHANGED <<setting, active, cancelled, tools, state, scopes, turnVars, reader>>

Store(e) ==
    /\ pc[e] = "released"
    /\ history' = IF result[e] = "ok" THEN [history EXCEPT ![HandleOf(e)] = copy[e]] ELSE history
    /\ copy' = [copy EXCEPT ![e] = <<>>]
    /\ Goes(e, "returned")
    /\ UNCHANGED <<setting, active, cancelled, tools, state, scopes, reader,
                   given, rounds, answered, called, result>>
-------------------------------------------------------------------------------
(* The reader: cancel_execution of one execution, or of their parent. *)

CopyScopes ==
    /\ reader.pc = "idle"
    /\ reader' = [reader EXCEPT !.pc = "copied", !.active = scopes]
    /\ UNCHANGED <<sessionVars, pc, state, scopes, turnVars>>

AfterCancel(C) ==
    [e \in Executions |-> IF e \in C /\ state[e] \in {"Pending", "Running"} THEN "Cancelled"
                          ELSE state[e]]

\* Mutant: every scope that was copied is told, whatever its execution's state.
CancelInRuntimeTellingAll(C) ==
    /\ reader.pc = "copied"
    /\ state' = AfterCancel(C)
    /\ reader' = [pc |-> "cancelling", active |-> {}, targets |-> reader.active]
    /\ UNCHANGED <<sessionVars, pc, scopes, turnVars>>

CancelInRuntime(C) ==
    /\ reader.pc = "copied"
    /\ state' = AfterCancel(C)
    /\ reader' = [pc |-> "cancelling", active |-> {},
                  targets |-> {e \in reader.active : AfterCancel(C)[e] = "Cancelled"}]
    /\ UNCHANGED <<sessionVars, pc, scopes, turnVars>>

\* PhenixSession::cancel: the flag is set, whatever the session is doing.
SetFlag(e) ==
    /\ reader.pc = "cancelling"
    /\ e \in reader.targets
    /\ cancelled' = cancelled \cup {HandleOf(e)}
    /\ reader' = [reader EXCEPT !.targets = @ \ {e}]
    /\ UNCHANGED <<setting, active, tools, history, pc, state, scopes, turnVars>>

CancelDone ==
    /\ reader.pc = "cancelling"
    /\ reader.targets = {}
    /\ reader' = [reader EXCEPT !.pc = "idle"]
    /\ UNCHANGED <<sessionVars, pc, state, scopes, turnVars>>
-------------------------------------------------------------------------------
ProviderStep(e) == CutShort(e) \/ StreamFails(e) \/ StreamEnds(e)

WorkerStep(e) ==
    \/ SkipCancelled(e) \/ Open(e) \/ OpenFails(e) \/ InstallScope(e) \/ Begin(e)
    \/ Activate(e) \/ ClearFlag(e) \/ ReadSession(e) \/ Round(e)
    \/ Release(e) \/ Store(e) \/ Finish(e) \/ DropScope(e)

\* A reply has finitely many calls.
CallsEnd(e) == \E t \in Tools : Dispatch(e, t) /\ pc'[e] # "calling"

ReaderStep ==
    \/ \E C \in {{e} : e \in Members} \cup {Members} : CancelInRuntime(C)
    \/ \E e \in Executions : SetFlag(e)
    \/ CancelDone

Next ==
    \/ \E e \in Executions :
          \/ WorkerStep(e) \/ ProviderStep(e) \/ ChunkRefused(e)
          \/ \E t \in Tools : Dispatch(e, t)
    \/ CopyScopes
    \/ ReaderStep

\* Threads go on, tools return, and the provider's streams come to an end.
Fairness ==
    /\ WF_vars(ReaderStep)
    /\ \A e \in Executions : WF_vars(WorkerStep(e) \/ ProviderStep(e) \/ CallsEnd(e))

Spec == Init /\ [][Next]_vars /\ Fairness
-------------------------------------------------------------------------------
(* Properties. *)

InTurn(e) ==
    pc[e] \in {"activated", "cleared", "round", "streaming", "calling", "over"}

\* One turn at a time on a backend session, and it invokes only tools that its
\* own execution was provisioned with, although siblings replace the tools of
\* the session they share between its opening and its turn.
TurnsAreApart ==
    /\ \A e, f \in Executions :
          e # f /\ HandleOf(e) = HandleOf(f) /\ InTurn(e) => ~InTurn(f)
    /\ \A e \in Executions : called[e] # None => called[e] \in Provision[e]

\* A cut turn returns success, which must not pass for an answer: with a session
\* of its own, an execution is Completed only if its model answered to the end,
\* however its end and the cancellations of its siblings cross.
CompletedWasAnswered ==
    setting.mode = "own" =>
        \A e \in Executions : state[e] = "Completed" => e \in answered

\* The persistent session remembers, turn after turn, those that were answered or
\* cancelled, each once and in their order, and forgets those that failed.
ConversationInOrder ==
    LET turns == history[Persistent] IN
    setting.mode = "turns" =>
        /\ \A i, j \in 1..Len(turns) : i < j => turns[i] < turns[j]
        /\ {turns[i] : i \in 1..Len(turns)} =
              {e \in Executions : result[e] = "ok" /\ pc[e] \in {"returned", "finished", "ended"}}

\* A turn whose flag is set after it has cleared it comes to an end, also when
\* its model would go on calling tools; where rounds are limited, every turn does.
CancelledTurnEnds ==
    \A e \in Executions :
        InTurn(e) /\ (setting.limited \/ (pc[e] # "activated" /\ HandleOf(e) \in cancelled))
           ~> pc[e] = "ended"
===============================================================================

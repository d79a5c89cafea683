------------------------------- MODULE Frontend -------------------------------
(***************************************************************************)
(* How events and replies reach a frontend that comes and goes: the local  *)
(* service (local_service.rs) around the reader, the relay and the writer  *)
(* of serve_ndjson (server.rs), and the event sink of the runtime (lib.rs).*)
(*                                                                         *)
(*   runtime --sink--> relay --out--> writer --> socket --> frontend       *)
(*                      reader ---^                                        *)
(*                                                                         *)
(* An event is sent to the sink by the thread that records it, while it    *)
(* holds the runtime's mutex.  A frontend connects, asks for what it has   *)
(* not seen (Initialize with a cursor) or for something that records an    *)
(* event, and may go at any time, also in the middle of a line.            *)
(***************************************************************************)
EXTENDS Naturals, Sequences, SequencesExt

CONSTANTS EventBuffer, OutputBuffer, SocketBuffer,  \* capacities
          MaxConnections, MaxEvents,
          None

\* What a line to a frontend is: of whose request, and with which events
Messages ==
    [kind : {"Event", "Initialized", "Refused", "Done", "broken"},
     conn : Nat \cup {None}, events : SUBSET (1..MaxEvents)]

ASSUME FrontendAssumption ==
    /\ MaxEvents \in Nat
    /\ None \notin Nat /\ None \notin [message : Messages, to : Nat \cup {None}]

VARIABLES conn,      \* the connection that was accepted last
          link,      \* the connection: "none", "up", "eof" or "reset"
          active,    \* active_output: the connection that output goes to, or None
          wire,      \* what is in the socket for the frontend
          log,       \* how many events are recorded
          sending,   \* the event that the holder of the runtime's mutex sends, or None
          sink,      \* the events in the sink
          relay,     \* the event that the relay has in hand, or None
          out,       \* the messages in the output channel
          writer,    \* the message being written, and where its head went, or None
          input,     \* the lines in the input channel
          reader,    \* what the reader does: [at, request, reply]
          asked,     \* what the frontend has asked on this connection
          seen,      \* the events the frontend knows, over all its connections
          greeted,   \* what became of its Initialize: "no", "yes" or "refused"
          serving    \* the service is up

runtimeVars == <<log, sending, sink>>
outputVars == <<relay, out, writer>>
serviceVars == <<conn, link, active, serving>>
clientVars == <<asked, seen, greeted>>

vars == <<serviceVars, wire, runtimeVars, outputVars, input, reader, clientVars>>

Idle == [at |-> "idle", request |-> None, reply |-> None]

Init ==
    /\ conn = 0 /\ link = "none" /\ active = None /\ serving = TRUE
    /\ wire = <<>>
    /\ log = 0 /\ sending = None /\ sink = <<>>
    /\ relay = None /\ out = <<>> /\ writer = None
    /\ input = <<>> /\ reader = Idle
    /\ asked = {} /\ seen = {} /\ greeted = "no"
-------------------------------------------------------------------------------
(* The frontend. *)

\* The last event up to which it knows them all
Cursor == CHOOSE n \in 0..MaxEvents : 1..n \subseteq seen /\ n + 1 \notin seen

\* A request, one of a kind on a connection, Initialize first; serve_unix_socket
\* hands it on.
Ask(kind) ==
    /\ link = "up"
    /\ kind \notin asked
    /\ kind = "Submit" => "Initialize" \in asked
    /\ asked' = asked \cup {kind}
    /\ input' = Append(input, [kind |-> kind, conn |-> conn, cursor |-> Cursor])
    /\ UNCHANGED <<serviceVars, wire, runtimeVars, outputVars, reader, seen, greeted>>

\* It reads a line.  Replies are matched by the request's id, so those to other
\* connections' requests or to none, and broken lines, mean nothing to it.
Receive ==
    LET line == Head(wire)
        mine == line.kind \in {"Initialized", "Refused"} /\ line.conn = conn
    IN
    /\ link = "up"
    /\ wire # <<>>
    /\ wire' = Tail(wire)
    /\ seen' = IF line.kind = "Event" \/ mine THEN seen \cup line.events ELSE seen
    /\ greeted' = CASE mine /\ line.kind = "Initialized" -> "yes"
                    [] mine /\ line.kind = "Refused" -> "refused"
                    [] OTHER -> greeted
    /\ UNCHANGED <<serviceVars, runtimeVars, outputVars, input, reader, asked>>

\* It goes.  With unread output in the socket the other side's read is reset;
\* without, what it has sent of a line is read before the end of the input.
Close ==
    /\ link = "up"
    /\ wire' = <<>>
    /\ \/ wire # <<>> /\ link' = "reset" /\ UNCHANGED input
       \/ wire = <<>> /\ link' = "eof" /\ input' \in {input, Append(input, [kind |-> "part"])}
    /\ UNCHANGED <<conn, active, serving, runtimeVars, outputVars, reader, clientVars>>
-------------------------------------------------------------------------------
(* serve_unix_socket: one connection after another. *)

Accept ==
    /\ link = "none"
    /\ conn < MaxConnections
    /\ conn' = conn + 1
    /\ link' = "up"
    /\ active' = conn + 1
    /\ asked' = {} /\ greeted' = "no"
    /\ UNCHANGED <<serving, wire, runtimeVars, outputVars, input, reader, seen>>

\* read_line returns 0
HangUp ==
    /\ link = "eof"
    /\ link' = "none"
    /\ active' = None
    /\ UNCHANGED <<conn, serving, wire, runtimeVars, outputVars, input, reader, clientVars>>

\* read_line returns an error, which ends the service.
ReadFails ==
    /\ link = "reset"
    /\ serving' = FALSE
    /\ UNCHANGED <<conn, link, active, wire, runtimeVars, outputVars, input, reader, clientVars>>
-------------------------------------------------------------------------------
(* The runtime's event sink. *)

\* A worker records an event under the mutex.
Record ==
    /\ sending = None
    /\ log < MaxEvents
    /\ log' = log + 1
    /\ sending' = log + 1
    /\ UNCHANGED <<serviceVars, wire, sink, outputVars, input, reader, clientVars>>

\* The thread that has sent its event lets go of the mutex: the reader, when it
\* was recording, or a worker.
Unlock ==
    /\ sending' = None
    /\ reader' = IF reader.at = "recording" THEN [reader EXCEPT !.at = "responding"] ELSE reader

\* Mutant: an event that does not fit is dropped.
SendEventOrDrop ==
    /\ sending # None
    /\ sink' = IF Len(sink) < EventBuffer THEN Append(sink, sending) ELSE sink
    /\ Unlock
    /\ UNCHANGED <<serviceVars, wire, log, outputVars, input, clientVars>>

\* sink.send: the mutex is held while the sink is full.
SendEvent ==
    /\ sending # None
    /\ Len(sink) < EventBuffer
    /\ sink' = Append(sink, sending)
    /\ Unlock
    /\ UNCHANGED <<serviceVars, wire, log, outputVars, input, clientVars>>
-------------------------------------------------------------------------------
(* serve_ndjson: the relay, the writer and the reader. *)

\* Mutant: the relay takes the runtime's mutex too.
RelayTakeLocked ==
    /\ sending = None
    /\ relay = None
    /\ sink # <<>>
    /\ relay' = Head(sink)
    /\ sink' = Tail(sink)
    /\ UNCHANGED <<serviceVars, wire, log, sending, out, writer, input, reader, clientVars>>

RelayTake ==
    /\ relay = None
    /\ sink # <<>>
    /\ relay' = Head(sink)
    /\ sink' = Tail(sink)
    /\ UNCHANGED <<serviceVars, wire, log, sending, out, writer, input, reader, clientVars>>

RelaySend ==
    /\ relay # None
    /\ Len(out) < OutputBuffer
    /\ out' = Append(out, [kind |-> "Event", conn |-> None, events |-> {relay}])
    /\ relay' = None
    /\ UNCHANGED <<serviceVars, wire, runtimeVars, writer, input, reader, clientVars>>

\* SwitchingWriter::write of a first and of a last piece of a message, each to
\* the connection that is active by then.  A connection that is gone takes
\* nothing: the error is swallowed, and it is not active any more.
WriteHead ==
    /\ writer = None
    /\ out # <<>>
    /\ out' = Tail(out)
    /\ LET broken == active # None /\ link # "up" IN
       /\ active' = IF broken THEN None ELSE active
       /\ link' = IF broken /\ link = "reset" THEN "eof" ELSE link
       /\ writer' = [message |-> Head(out), to |-> active']
    /\ UNCHANGED <<conn, serving, wire, runtimeVars, relay, input, reader, clientVars>>

WriteTail ==
    /\ writer # None
    /\ \/ /\ active = None
          /\ UNCHANGED <<link, active, wire>>
       \/ /\ active # None /\ link = "up" /\ Len(wire) < SocketBuffer
          /\ wire' = Append(wire, IF writer.to = active THEN writer.message
                                  ELSE [kind |-> "broken", conn |-> None, events |-> {}])
          /\ UNCHANGED <<link, active>>
       \/ /\ active # None /\ link # "up"
          /\ active' = None
          /\ link' = "eof"
          /\ UNCHANGED wire
    /\ writer' = None
    /\ UNCHANGED <<conn, serving, runtimeVars, relay, out, input, reader, clientVars>>

\* The reader takes a line.  What a frontend left of a line is joined with the
\* next line, which is then invalid: the error has id 0, which is no request's.
TakeLine ==
    LET line == Head(input) IN
    /\ reader.at = "idle"
    /\ input # <<>>
    /\ \/ /\ line.kind # "part"
          /\ reader' = [at |-> "handling", request |-> line, reply |-> None]
          /\ input' = Tail(input)
       \/ /\ line.kind = "part" /\ Len(input) > 1
          /\ IF input[2].kind = "part"
             THEN input' = Tail(input) /\ UNCHANGED reader
             ELSE /\ input' = Tail(Tail(input))
                  /\ reader' = [at |-> "responding", request |-> None,
                                reply |-> [kind |-> "Refused", conn |-> None, events |-> {}]]
    /\ UNCHANGED <<serviceVars, wire, runtimeVars, outputVars, clientVars>>

\* Initialize: refresh_all_catalogs may fail; then events_since and the snapshot,
\* under the mutex.
HandleInitialize ==
    /\ reader.at = "handling"
    /\ reader.request.kind = "Initialize"
    /\ \E reply \in {[kind |-> "Initialized", conn |-> reader.request.conn,
                      events |-> (reader.request.cursor + 1)..log],
                     [kind |-> "Refused", conn |-> reader.request.conn, events |-> {}]} :
          /\ reply.kind = "Initialized" => sending = None
          /\ reader' = [at |-> "responding", request |-> None, reply |-> reply]
    /\ UNCHANGED <<serviceVars, wire, runtimeVars, outputVars, input, clientVars>>

\* A request, such as Submit, that records an event, or is refused
HandleCommand ==
    /\ reader.at = "handling"
    /\ reader.request.kind = "Submit"
    /\ sending = None
    /\ LET done == [kind |-> "Done", conn |-> reader.request.conn, events |-> {}] IN
       \/ /\ log < MaxEvents
          /\ log' = log + 1
          /\ sending' = log + 1
          /\ reader' = [at |-> "recording", request |-> None, reply |-> done]
       \/ /\ reader' = [at |-> "responding", request |-> None, reply |-> done]
          /\ UNCHANGED <<log, sending>>
    /\ UNCHANGED <<serviceVars, wire, sink, outputVars, input, clientVars>>

Respond ==
    /\ reader.at = "responding"
    /\ Len(out) < OutputBuffer
    /\ out' = Append(out, reader.reply)
    /\ reader' = Idle
    /\ UNCHANGED <<serviceVars, wire, runtimeVars, relay, writer, input, clientVars>>
-------------------------------------------------------------------------------
RelayStep == RelayTake \/ RelaySend

WriterStep == WriteHead \/ WriteTail

ReaderStep == TakeLine \/ HandleInitialize \/ HandleCommand \/ Respond

\* What comes after the end of the service is ConductorServer's matter.
Next ==
    /\ serving
    /\ \/ \E kind \in {"Initialize", "Submit"} : Ask(kind)
       \/ Receive \/ Close
       \/ Accept \/ HangUp \/ ReadFails
       \/ Record \/ SendEvent
       \/ RelayStep \/ WriterStep \/ ReaderStep

\* Threads go on, and a frontend that is connected reads.
Fairness ==
    /\ WF_vars(serving /\ Receive) /\ WF_vars(serving /\ SendEvent)
    /\ WF_vars(serving /\ RelayStep) /\ WF_vars(serving /\ WriterStep)
    /\ WF_vars(serving /\ ReaderStep)

Spec == Init /\ [][Next]_vars /\ Fairness
-------------------------------------------------------------------------------
(* Properties. *)

\* The events on their way to the connection that is active
OnTheirWay ==
    ({sending, relay} \ {None})
    \cup ToSet(sink)
    \cup (UNION {m.events : m \in {x \in ToSet(out) \cup ToSet(wire) : x.kind = "Event"}})
    \cup (IF writer # None /\ writer.message.kind = "Event" /\ writer.to = conn
          THEN writer.message.events ELSE {})

\* "snapshot + ordered events after sequence N" (spec/runtime-redesign-v1.md:501):
\* from the answer to its Initialize on, a frontend has every event that was
\* recorded or is being sent it: nothing falls between the reply, which the reader
\* makes, and the stream, which the relay does, although events were discarded
\* while nobody was connected.
NoGap ==
    greeted = "yes" /\ link = "up" => 1..log \subseteq seen \cup OnTheirWay

\* The Initialize of connection c is in the input, on a line of its own.
AsksOnItsOwn(c) ==
    \E i \in DOMAIN input :
        /\ input[i].kind = "Initialize" /\ input[i].conn = c
        /\ i > 1 => input[i - 1].kind # "part"

\* "reconnecting frontends recover the authoritative state and missed canonical
\* events with Initialize(cursor)" (local_service.rs:125): a frontend that stays
\* connected and reads, and whose Initialize is not joined to what an earlier one
\* left of a line, is told its answer, or that it is refused, and then catches up,
\* whatever else earlier frontends left behind in the service and however full its
\* buffers are.
CatchesUp ==
    \A c \in 1..MaxConnections :
        (conn = c /\ link = "up" /\ AsksOnItsOwn(c))
           ~> (\/ conn # c \/ link # "up"
               \/ greeted = "refused"
               \/ greeted = "yes" /\ seen = 1..log)
===============================================================================

---------------------------- MODULE FrontendProofs ----------------------------
(***************************************************************************)
(* Proofs about Frontend, for buffers of any size, any number of           *)
(* connections and any number of events: a frontend whose Initialize was   *)
(* answered misses no event.                                               *)
(***************************************************************************)
EXTENDS Frontend, WellFoundedInduction, TLAPS

Requests == [kind : {"Initialize", "Submit"}, conn : Nat, cursor : Nat]

Part == [kind |-> "part"]

Types ==
    /\ conn \in Nat /\ link \in {"none", "up", "eof", "reset"}
    /\ active \in Nat \cup {None}
    /\ wire \in Seq(Messages)
    /\ log \in 0..MaxEvents
    /\ sending \in (1..MaxEvents) \cup {None}
    /\ sink \in Seq(1..MaxEvents)
    /\ relay \in (1..MaxEvents) \cup {None}
    /\ out \in Seq(Messages)
    /\ writer \in [message : Messages, to : Nat \cup {None}] \cup {None}
    /\ input \in Seq(Requests \cup {Part})
    /\ reader \in [at : {"idle", "handling", "recording", "responding"},
                   request : Requests \cup {None}, reply : Messages \cup {None}]
    /\ reader.at = "handling" => reader.request \in Requests
    /\ reader.at \in {"recording", "responding"} => reader.reply \in Messages
    /\ seen \subseteq 1..MaxEvents
    /\ greeted \in {"no", "yes", "refused"}

\* Output goes to the connection there is.
ActiveIsUp == link = "up" => active = conn

\* The requests on their way, and the messages
Pending == (ToSet(input) \ {Part}) \cup (IF reader.at = "handling" THEN {reader.request} ELSE {})

Sent == ToSet(out) \cup ToSet(wire)
          \cup (IF writer # None THEN {writer.message} ELSE {})
          \cup (IF reader.at \in {"recording", "responding"} THEN {reader.reply} ELSE {})

\* What a request says that its frontend knows, it knows.
CursorsAreTrue ==
    \A q \in Pending : q.conn <= conn /\ (q.conn = conn => 1..q.cursor \subseteq seen)

\* Whatever the reply to an Initialize leaves out is known or follows it.
RepliesAreWhole ==
    \A m \in Sent :
        m.kind = "Initialized" =>
            /\ m.conn \in Nat /\ m.conn <= conn
            /\ m.conn = conn /\ link = "up" => 1..log \subseteq seen \cup m.events \cup OnTheirWay
-------------------------------------------------------------------------------
(* Sequences and their elements. *)

\* An element more
LEMMA ToSetAppend ==
    ASSUME NEW S, NEW s \in Seq(S), NEW x \in S
    PROVE  ToSet(Append(s, x)) = ToSet(s) \cup {x} /\ Append(s, x) \in Seq(S)
<1>1. /\ Append(s, x) \in Seq(S) /\ Len(Append(s, x)) = Len(s) + 1 /\ Len(s) \in Nat
      /\ \A i \in 1..Len(s) : Append(s, x)[i] = s[i]
      /\ Append(s, x)[Len(s) + 1] = x
      OBVIOUS
<1>2. DOMAIN Append(s, x) = 1..(Len(s) + 1) /\ DOMAIN s = 1..Len(s)
      OBVIOUS
<1>3. \A i \in 1..(Len(s) + 1) : i \in 1..Len(s) \/ i = Len(s) + 1
      BY <1>1
<1>4. (1..Len(s)) \cup {Len(s) + 1} \subseteq 1..(Len(s) + 1)
      BY <1>1
<1>. QED BY <1>1, <1>2, <1>3, <1>4 DEF ToSet

\* The first element and the others
LEMMA ToSetTail ==
    ASSUME NEW S, NEW s \in Seq(S), s # <<>>
    PROVE  ToSet(s) = {Head(s)} \cup ToSet(Tail(s)) /\ Head(s) \in S /\ Tail(s) \in Seq(S)
<1>1. /\ Len(s) \in Nat \ {0} /\ Tail(s) \in Seq(S) /\ Len(Tail(s)) = Len(s) - 1 /\ Head(s) = s[1]
      /\ \A i \in 1..(Len(s) - 1) : Tail(s)[i] = s[i + 1]
      OBVIOUS
<1>2. DOMAIN Tail(s) = 1..(Len(s) - 1) /\ DOMAIN s = 1..Len(s)
      OBVIOUS
<1>3. \A i \in 1..Len(s) : i = 1 \/ (i - 1 \in 1..(Len(s) - 1) /\ s[i] = Tail(s)[i - 1])
      BY <1>1
<1>4. \A i \in 1..(Len(s) - 1) : i + 1 \in 1..Len(s)
      BY <1>1
<1>5. \A x \in ToSet(s) : x \in {Head(s)} \cup ToSet(Tail(s))
      <2> SUFFICES ASSUME NEW i \in 1..Len(s) PROVE s[i] \in {Head(s)} \cup ToSet(Tail(s))
          BY <1>2 DEF ToSet
      <2>1. CASE i = 1
            BY <1>1, <2>1
      <2>2. CASE i # 1
            BY <1>2, <1>3, <2>2 DEF ToSet
      <2>. QED BY <2>1, <2>2
<1>6. \A x \in ToSet(Tail(s)) : x \in ToSet(s)
      BY <1>1, <1>2, <1>4 DEF ToSet
<1>7. Head(s) \in ToSet(s) /\ Head(s) \in S
      BY <1>1, <1>2 DEF ToSet
<1>. QED BY <1>1, <1>5, <1>6, <1>7

\* Two elements less
LEMMA TailTail ==
    ASSUME NEW S, NEW s \in Seq(S), Len(s) > 1
    PROVE  Tail(Tail(s)) \in Seq(S) /\ ToSet(Tail(Tail(s))) \subseteq ToSet(s)
<1>1. s # <<>> /\ Tail(s) \in Seq(S) /\ Len(Tail(s)) = Len(s) - 1
      OBVIOUS
<1>2. Tail(s) # <<>>
      <2>1. Len(<<>>) = 0 /\ Len(Tail(s)) # 0
            BY <1>1
      <2>. QED BY <2>1
<1>. QED BY <1>1, <1>2, ToSetTail

\* The elements are of the sequence's set.
LEMMA ToSetType ==
    ASSUME NEW S, NEW s \in Seq(S)
    PROVE  ToSet(s) \subseteq S
BY DEF ToSet

\* A set of natural numbers has a least element.
LEMMA LeastElement ==
    ASSUME NEW T, T \subseteq Nat, T # {}
    PROVE  \E x \in T : \A y \in T : x <= y
<1> DEFINE R == OpToRel(<, Nat)
<1>1. IsWellFoundedOn(R, Nat)
      BY NatLessThanWellFounded
<1>2. \A x, y \in Nat : y < x => <<y, x>> \in R
      BY DEF OpToRel
<1> HIDE DEF R
<1>3. PICK x \in T : \A y \in T : ~(<<y, x>> \in R)
      BY <1>1, WFMin
<1>4. \A y \in T : y \in Nat /\ x \in Nat /\ ~(y < x)
      BY <1>2, <1>3
<1>5. \A y \in T : x <= y
      BY <1>4
<1>. QED BY <1>5

\* A frontend's cursor is what it says: the events up to it are known.
LEMMA CursorKnows == Types => Cursor \in 0..MaxEvents /\ 1..Cursor \subseteq seen
<1> SUFFICES ASSUME Types PROVE Cursor \in 0..MaxEvents /\ 1..Cursor \subseteq seen
    OBVIOUS
<1> DEFINE T == {n \in Nat : n + 1 \notin seen}
<1>1. MaxEvents \in T
      BY FrontendAssumption DEF Types
<1>2. PICK x \in T : \A y \in T : x <= y
      BY <1>1, LeastElement
<1>3. x \in 0..MaxEvents /\ x + 1 \notin seen
      BY <1>1, <1>2, FrontendAssumption
<1>4. ASSUME NEW i \in 1..x PROVE i \in seen
      <2>1. i - 1 \in Nat /\ i - 1 < x /\ (i - 1) + 1 = i
            BY <1>3
      <2>2. i - 1 \notin T
            BY <1>2, <1>3, <2>1
      <2>. QED BY <2>1, <2>2
<1>5. \E n \in 0..MaxEvents : 1..n \subseteq seen /\ n + 1 \notin seen
      BY <1>3, <1>4
<1>. QED BY <1>5 DEF Cursor
-------------------------------------------------------------------------------
\* Every step keeps the types.
LEMMA NextTypes == Types /\ [Next]_vars => Types'
<1> SUFFICES ASSUME Types, [Next]_vars PROVE Types'
    OBVIOUS
<1> USE FrontendAssumption
<1> USE DEF serviceVars, runtimeVars, outputVars, clientVars
<1>1. ASSUME NEW kind \in {"Initialize", "Submit"}, Ask(kind) PROVE Types'
      <2>1. [kind |-> kind, conn |-> conn, cursor |-> Cursor] \in Requests
            BY CursorKnows DEF Types, Requests
      <2>2. input' \in Seq(Requests \cup {Part})
            BY <1>1, <2>1 DEF Types, Ask
      <2>. QED BY <1>1, <2>2 DEF Types, Ask
<1>2. CASE Receive
      <2>1. wire' \in Seq(Messages) /\ Head(wire) \in Messages
            BY <1>2, ToSetTail DEF Types, Receive
      <2>2. seen' \subseteq 1..MaxEvents
            BY <1>2, <2>1 DEF Types, Receive, Messages
      <2>3. greeted' \in {"no", "yes", "refused"}
            BY <1>2 DEF Types, Receive
      <2>. QED BY <1>2, <2>1, <2>2, <2>3 DEF Types, Receive
<1>3. CASE Close
      <2>1. input' \in Seq(Requests \cup {Part})
            <3>1. input' = input \/ input' = Append(input, Part)
                  BY <1>3 DEF Close, Part
            <3>2. input \in Seq(Requests \cup {Part}) /\ Part \in Requests \cup {Part}
                  BY DEF Types
            <3>. QED BY <3>1, <3>2, ToSetAppend
      <2>. QED BY <1>3, <2>1 DEF Types, Close
<1>4. CASE Accept \/ HangUp \/ ReadFails \/ Record
      <2>1. CASE Accept
            BY <2>1 DEF Types, Accept
      <2>2. CASE HangUp \/ ReadFails
            BY <2>2 DEF Types, HangUp, ReadFails
      <2>3. CASE Record
            <3>1. log' \in 0..MaxEvents /\ sending' \in 1..MaxEvents
                  BY <2>3 DEF Types, Record
            <3>. QED BY <2>3, <3>1 DEF Types, Record
      <2>. QED BY <1>4, <2>1, <2>2, <2>3
<1>5. CASE SendEvent
      <2>1. sink' \in Seq(1..MaxEvents)
            BY <1>5 DEF Types, SendEvent
      <2>2. /\ reader' \in [at : {"idle", "handling", "recording", "responding"},
                            request : Requests \cup {None}, reply : Messages \cup {None}]
            /\ reader'.at = "handling" => reader'.request \in Requests
            /\ reader'.at \in {"recording", "responding"} => reader'.reply \in Messages
            BY <1>5 DEF Types, SendEvent, Unlock
      <2>. QED BY <1>5, <2>1, <2>2 DEF Types, SendEvent, Unlock
<1>6. CASE RelayTake
      <2>1. sink' \in Seq(1..MaxEvents) /\ relay' \in 1..MaxEvents
            BY <1>6, ToSetTail DEF Types, RelayTake
      <2>. QED BY <1>6, <2>1 DEF Types, RelayTake
<1>7. CASE RelaySend
      <2>1. [kind |-> "Event", conn |-> None, events |-> {relay}] \in Messages
            BY <1>7 DEF Types, RelaySend, Messages
      <2>2. out' \in Seq(Messages)
            BY <1>7, <2>1 DEF Types, RelaySend
      <2>. QED BY <1>7, <2>2 DEF Types, RelaySend
<1>8. CASE WriteHead
      <2>1. out' \in Seq(Messages) /\ Head(out) \in Messages
            BY <1>8, ToSetTail DEF Types, WriteHead
      <2>2. active' \in Nat \cup {None} /\ link' \in {"none", "up", "eof", "reset"}
            BY <1>8 DEF Types, WriteHead
      <2>3. writer' \in [message : Messages, to : Nat \cup {None}]
            BY <1>8, <2>1, <2>2 DEF WriteHead
      <2>. QED BY <1>8, <2>1, <2>2, <2>3 DEF Types, WriteHead
<1>9. CASE WriteTail
      <2>1. [kind |-> "broken", conn |-> None, events |-> {}] \in Messages
            BY DEF Messages
      <2>2. wire' \in Seq(Messages)
            <3>1. writer.message \in Messages
                  BY <1>9 DEF Types, WriteTail
            <3>2. wire' = wire \/ \E m \in Messages : wire' = Append(wire, m)
                  BY <1>9, <2>1, <3>1 DEF WriteTail
            <3>3. wire \in Seq(Messages)
                  BY DEF Types
            <3>. QED BY <3>2, <3>3, ToSetAppend
      <2>3. active' \in Nat \cup {None} /\ link' \in {"none", "up", "eof", "reset"}
            BY <1>9 DEF Types, WriteTail
      <2>. QED BY <1>9, <2>2, <2>3 DEF Types, WriteTail
<1>10. CASE TakeLine
       <2>1. input' \in Seq(Requests \cup {Part})
             <3>1. input' = Tail(input) \/ (Len(input) > 1 /\ input' = Tail(Tail(input)))
                   BY <1>10 DEF TakeLine
             <3>2. input \in Seq(Requests \cup {Part}) /\ input # <<>>
                   BY <1>10 DEF Types, TakeLine
             <3>3. Tail(input) \in Seq(Requests \cup {Part})
                   BY <3>2, ToSetTail
             <3>4. Len(input) > 1 => Tail(Tail(input)) \in Seq(Requests \cup {Part})
                   BY <3>2, TailTail
             <3>. QED BY <3>1, <3>3, <3>4
       <2>2. CASE Head(input).kind # "part"
             <3>1. Head(input) \in Requests
                   BY <1>10, <2>2, ToSetTail DEF Types, TakeLine, Part
             <3>2. reader' = [at |-> "handling", request |-> Head(input), reply |-> None]
                   BY <1>10, <2>2 DEF TakeLine
             <3>. QED BY <1>10, <2>1, <3>1, <3>2 DEF Types, TakeLine
       <2>3. CASE Head(input).kind = "part"
             <3>1. reader' = reader \/
                      reader' = [at |-> "responding", request |-> None,
                                 reply |-> [kind |-> "Refused", conn |-> None, events |-> {}]]
                   BY <1>10, <2>3 DEF TakeLine
             <3>2. [kind |-> "Refused", conn |-> None, events |-> {}] \in Messages
                   BY DEF Messages
             <3>3. \/ reader' = reader
                   \/ \E reply \in Messages : reader' = [at |-> "responding", request |-> None, reply |-> reply]
                   BY <3>1, <3>2
             <3>. QED BY <1>10, <2>1, <3>3 DEF Types, TakeLine
       <2>. QED BY <2>2, <2>3
<1>11. CASE HandleInitialize
       <2>1. reader.request \in Requests
             BY <1>11 DEF Types, HandleInitialize
       <2>2. /\ [kind |-> "Initialized", conn |-> reader.request.conn,
                 events |-> (reader.request.cursor + 1)..log] \in Messages
             /\ [kind |-> "Refused", conn |-> reader.request.conn, events |-> {}] \in Messages
             BY <2>1 DEF Requests, Messages, Types
       <2>3. \E reply \in Messages : reader' = [at |-> "responding", request |-> None, reply |-> reply]
             BY <1>11, <2>2 DEF HandleInitialize
       <2>. QED BY <1>11, <2>3 DEF Types, HandleInitialize
<1>12. CASE HandleCommand
       <2>1. reader.request \in Requests
             BY <1>12 DEF Types, HandleCommand
       <2>2. [kind |-> "Done", conn |-> reader.request.conn, events |-> {}] \in Messages
             BY <2>1 DEF Requests, Messages
       <2>3. \E reply \in Messages, at \in {"recording", "responding"} :
                reader' = [at |-> at, request |-> None, reply |-> reply]
             BY <1>12, <2>2 DEF HandleCommand
       <2>4. log' \in 0..MaxEvents /\ sending' \in (1..MaxEvents) \cup {None}
             BY <1>12 DEF Types, HandleCommand
       <2>. QED BY <1>12, <2>3, <2>4 DEF Types, HandleCommand
<1>13. CASE Respond
       <2>1. out' \in Seq(Messages)
             BY <1>13 DEF Types, Respond
       <2>. QED BY <1>13, <2>1 DEF Types, Respond, Idle
<1>14. CASE UNCHANGED vars
       BY <1>14 DEF vars, Types
<1>. QED BY <1>1, <1>2, <1>3, <1>4, <1>5, <1>6, <1>7, <1>8, <1>9, <1>10, <1>11, <1>12, <1>13, <1>14
         DEF Next, RelayStep, WriterStep, ReaderStep

\* The types hold in every state.
THEOREM TypeCorrect == Spec => []Types
<1>1. Init => Types
      BY FrontendAssumption DEF Init, Types, Idle
<1>. QED BY <1>1, NextTypes, PTL DEF Spec
-------------------------------------------------------------------------------
\* Every step keeps output with the connection there is.
LEMMA NextActive == ActiveIsUp /\ [Next]_vars => ActiveIsUp'
<1> SUFFICES ASSUME ActiveIsUp, [Next]_vars PROVE ActiveIsUp'
    OBVIOUS
<1> USE DEF ActiveIsUp, serviceVars
<1>1. ASSUME NEW kind \in {"Initialize", "Submit"}, Ask(kind) PROVE ActiveIsUp'
      BY <1>1 DEF Ask
<1>2. CASE Receive \/ Close \/ Accept \/ HangUp \/ ReadFails \/ Record \/ SendEvent \/ RelayStep
      BY <1>2 DEF Receive, Close, Accept, HangUp, ReadFails, Record, SendEvent, RelayStep, RelayTake, RelaySend
<1>3. CASE WriterStep
      BY <1>3 DEF WriterStep, WriteHead, WriteTail
<1>4. CASE ReaderStep \/ UNCHANGED vars
      BY <1>4 DEF ReaderStep, TakeLine, HandleInitialize, HandleCommand, Respond, vars
<1>. QED BY <1>1, <1>2, <1>3, <1>4 DEF Next

\* A connection is up from its acceptance on, and the frontend forgets nothing.
LEMMA Connections ==
    ASSUME Types, [Next]_vars
    PROVE  /\ seen \subseteq seen'
           /\ \/ conn' = conn /\ (link' = "up" => link = "up")
              \/ conn' = conn + 1 /\ greeted' = "no"
<1> DEFINE Goal == /\ seen \subseteq seen'
                   /\ \/ conn' = conn /\ (link' = "up" => link = "up")
                      \/ conn' = conn + 1 /\ greeted' = "no"
<1> USE DEF serviceVars, clientVars
<1>1. ASSUME NEW kind \in {"Initialize", "Submit"}, Ask(kind) PROVE Goal
      BY <1>1 DEF Ask
<1>2. CASE Receive
      BY <1>2 DEF Receive
<1>3. CASE Close \/ Accept \/ HangUp \/ ReadFails \/ Record \/ SendEvent \/ RelayStep
      BY <1>3 DEF Close, Accept, HangUp, ReadFails, Record, SendEvent, RelayStep, RelayTake, RelaySend
<1>4. CASE WriterStep
      BY <1>4 DEF WriterStep, WriteHead, WriteTail
<1>5. CASE ReaderStep \/ UNCHANGED vars
      BY <1>5 DEF ReaderStep, TakeLine, HandleInitialize, HandleCommand, Respond, vars
<1>. QED BY <1>1, <1>2, <1>3, <1>4, <1>5 DEF Next

\* The events on their way, one by one
Travels(n) ==
    \/ n # None /\ (n = sending \/ n = relay)
    \/ n \in ToSet(sink)
    \/ \E m \in ToSet(out) \cup ToSet(wire) : m.kind = "Event" /\ n \in m.events
    \/ /\ writer # None /\ writer.message.kind = "Event" /\ writer.to = conn
       /\ n \in writer.message.events

\* OnTheirWay is the set of them.
LEMMA WayTravels == \A n : n \in OnTheirWay <=> Travels(n)
<1> SUFFICES ASSUME NEW n PROVE n \in OnTheirWay <=> Travels(n)
    OBVIOUS
<1> DEFINE A == {sending, relay} \ {None}
           B == UNION {m.events : m \in {x \in ToSet(out) \cup ToSet(wire) : x.kind = "Event"}}
           C == IF writer # None /\ writer.message.kind = "Event" /\ writer.to = conn
                THEN writer.message.events ELSE {}
<1>1. n \in A <=> n # None /\ (n = sending \/ n = relay)
      OBVIOUS
<1>2. n \in B <=> \E m \in ToSet(out) \cup ToSet(wire) : m.kind = "Event" /\ n \in m.events
      OBVIOUS
<1>3. n \in C <=> (/\ writer # None /\ writer.message.kind = "Event" /\ writer.to = conn
                   /\ n \in writer.message.events)
      OBVIOUS
<1>4. n \in OnTheirWay <=> n \in A \/ n \in ToSet(sink) \/ n \in B \/ n \in C
      BY DEF OnTheirWay
<1> HIDE DEF A, B, C
<1>. QED BY <1>1, <1>2, <1>3, <1>4 DEF Travels

\* The same of the next state
LEMMA WayTravelsNext == \A n : n \in OnTheirWay' <=> Travels(n)'
<1>1. (\A n : n \in OnTheirWay <=> Travels(n))'
      BY WayTravels, PTL
<1>. QED BY <1>1

\* On a connection that is up no event is lost on its way, from the thread that
\* records it to the frontend.
LEMMA Flow ==
    ASSUME Types, ActiveIsUp, [Next]_vars, link = "up", link' = "up", conn' = conn
    PROVE  /\ seen \cup OnTheirWay \subseteq seen' \cup OnTheirWay'
           /\ 1..log' \subseteq (1..log) \cup OnTheirWay'
<1> DEFINE Kept == \A n : Travels(n) => Travels(n)' \/ n \in seen'
           Grows == log' = log \/ (log' = log + 1 /\ sending' = log + 1)
           Goal == Kept /\ Grows
<1>c. seen \subseteq seen'
      BY Connections
<1>d. /\ wire \in Seq(Messages) /\ out \in Seq(Messages) /\ sink \in Seq(1..MaxEvents)
      /\ None \notin Nat /\ MaxEvents \in Nat /\ log \in Nat
      BY FrontendAssumption DEF Types
<1> USE DEF Travels, serviceVars, runtimeVars, outputVars, clientVars
<1>1. ASSUME NEW kind \in {"Initialize", "Submit"}, Ask(kind) PROVE Goal
      BY <1>1 DEF Ask
<1>2. ASSUME Receive PROVE Goal
      <2>1. ToSet(wire) = {Head(wire)} \cup ToSet(wire')
            BY <1>d, <1>2, ToSetTail DEF Receive
      <2>2. Head(wire).kind = "Event" => Head(wire).events \subseteq seen'
            BY <1>2 DEF Receive
      <2>3. UNCHANGED <<sending, relay, sink, out, writer, log>>
            BY <1>2 DEF Receive
      <2>. QED BY <2>1, <2>2, <2>3
<1>3. ASSUME HangUp \/ ReadFails \/ Close \/ Accept PROVE Goal
      BY <1>3, <1>d DEF HangUp, ReadFails, Close, Accept, Types
<1>4. ASSUME Record PROVE Goal
      <2>1. UNCHANGED <<relay, sink, out, wire, writer>> /\ sending = None
            BY <1>4 DEF Record
      <2>2. sending' = log + 1 /\ log' = log + 1
            BY <1>4 DEF Record
      <2>. QED BY <1>d, <2>1, <2>2
<1>5. ASSUME SendEvent PROVE Goal
      <2>1. sending # None /\ sink' = Append(sink, sending) /\ UNCHANGED <<relay, out, wire, writer, log>>
            BY <1>5 DEF SendEvent
      <2>2. ToSet(sink') = ToSet(sink) \cup {sending}
            BY <1>d, <2>1, ToSetAppend DEF Types
      <2>. QED BY <2>1, <2>2
<1>6. ASSUME RelayTake PROVE Goal
      <2>1. ToSet(sink) = {relay'} \cup ToSet(sink') /\ relay' \in 1..MaxEvents
            BY <1>d, <1>6, ToSetTail DEF RelayTake
      <2>2. relay' # None
            BY <1>d, <2>1
      <2>3. relay = None /\ UNCHANGED <<sending, out, wire, writer, log>>
            BY <1>6 DEF RelayTake
      <2>. QED BY <2>1, <2>2, <2>3
<1>7. ASSUME RelaySend PROVE Goal
      <2> DEFINE m == [kind |-> "Event", conn |-> None, events |-> {relay}]
      <2>1. m \in Messages /\ m.kind = "Event" /\ relay \in m.events
            BY <1>7 DEF RelaySend, Messages, Types
      <2>2. relay # None /\ out' = Append(out, m) /\ UNCHANGED <<sending, sink, wire, writer, log>>
            BY <1>7 DEF RelaySend
      <2>3. ToSet(out') = ToSet(out) \cup {m}
            BY <1>d, <2>1, <2>2, ToSetAppend
      <2> HIDE DEF m
      <2>. QED BY <2>1, <2>2, <2>3
<1>8. ASSUME WriteHead PROVE Goal
      <2>1. ToSet(out) = {Head(out)} \cup ToSet(out') /\ Head(out) \in Messages
            BY <1>d, <1>8, ToSetTail DEF WriteHead
      <2>2. writer = None /\ writer' = [message |-> Head(out), to |-> conn]
            BY <1>8 DEF WriteHead, ActiveIsUp
      <2>3. writer' # None
            BY <2>1, <2>2, FrontendAssumption DEF Types
      <2>4. UNCHANGED <<sending, relay, sink, wire, log>>
            BY <1>8 DEF WriteHead
      <2>. QED BY <2>1, <2>2, <2>3, <2>4
<1>9. ASSUME WriteTail PROVE Goal
      <2> DEFINE m == IF writer.to = active THEN writer.message
                      ELSE [kind |-> "broken", conn |-> None, events |-> {}]
      <2>1. active = conn /\ active # None
            BY <1>d DEF ActiveIsUp, Types
      <2>2. wire' = Append(wire, m) /\ writer # None /\ UNCHANGED <<sending, relay, sink, out, log>>
            BY <1>9, <2>1 DEF WriteTail
      <2>3. m \in Messages
            BY <2>2 DEF Types, Messages
      <2>6. writer.to = conn => m = writer.message
            BY <2>1
      <2> HIDE DEF m
      <2>4. ToSet(wire') = ToSet(wire) \cup {m}
            BY <1>d, <2>2, <2>3, ToSetAppend
      <2>. QED BY <2>2, <2>4, <2>6
<1>10. ASSUME TakeLine \/ HandleInitialize PROVE Goal
       BY <1>10 DEF TakeLine, HandleInitialize
<1>11. ASSUME HandleCommand PROVE Goal
       <2>1. UNCHANGED <<relay, sink, out, wire, writer>> /\ sending = None
             BY <1>11 DEF HandleCommand
       <2>2. (log' = log + 1 /\ sending' = log + 1) \/ UNCHANGED <<log, sending>>
             BY <1>11 DEF HandleCommand
       <2>. QED BY <1>d, <2>1, <2>2
<1>12. ASSUME Respond PROVE Goal
       <2>1. ToSet(out') = ToSet(out) \cup {reader.reply}
             BY <1>d, <1>12, ToSetAppend DEF Respond, Types
       <2>2. UNCHANGED <<sending, relay, sink, wire, writer, log>>
             BY <1>12 DEF Respond
       <2>. QED BY <2>1, <2>2
<1>13. ASSUME UNCHANGED vars PROVE Goal
       BY <1>13 DEF vars
<1> HIDE DEF Goal
<1>14. Goal
       BY <1>1, <1>2, <1>3, <1>4, <1>5, <1>6, <1>7, <1>8, <1>9, <1>10, <1>11, <1>12, <1>13
          DEF Next, RelayStep, WriterStep, ReaderStep
<1> HIDE DEF Travels
<1>15. \A n \in OnTheirWay : n \in seen' \cup OnTheirWay'
       BY <1>14, WayTravels, WayTravelsNext DEF Goal
<1>16. ASSUME NEW n \in 1..log' PROVE n \in (1..log) \cup OnTheirWay'
       <2>1. CASE log' = log
             BY <2>1
       <2>2. CASE log' = log + 1 /\ sending' = log + 1
             <3>1. n \in 1..log \/ n = sending'
                   BY <1>d, <2>2
             <3>2. sending' # None
                   BY <1>d, <2>2
             <3>3. n = sending' => Travels(n)'
                   BY <3>2 DEF Travels
             <3>. QED BY <3>1, <3>3, WayTravelsNext
       <2>. QED BY <1>14, <2>1, <2>2 DEF Goal
<1>. QED BY <1>c, <1>15, <1>16
-------------------------------------------------------------------------------
\* A request on its way is one.
LEMMA PendingType == Types => Pending \subseteq Requests
<1> SUFFICES ASSUME Types PROVE Pending \subseteq Requests
    OBVIOUS
<1>1. ToSet(input) \subseteq Requests \cup {Part}
      BY ToSetType DEF Types
<1>2. reader.at = "handling" => reader.request \in Requests
      BY DEF Types
<1>. QED BY <1>1, <1>2 DEF Pending

\* A request comes from the frontend that is connected, and says what it knows.
LEMMA PendingFrom ==
    ASSUME Types, [Next]_vars
    PROVE  \A q \in Pending' :
              \/ q \in Pending
              \/ q.conn = conn /\ q.cursor = Cursor /\ conn' = conn /\ seen' = seen
<1> DEFINE Goal == \A q \in Pending' :
                      \/ q \in Pending
                      \/ q.conn = conn /\ q.cursor = Cursor /\ conn' = conn /\ seen' = seen
<1>d. input \in Seq(Requests \cup {Part})
      BY DEF Types
<1> USE DEF serviceVars, runtimeVars, outputVars, clientVars
<1>1. ASSUME NEW kind \in {"Initialize", "Submit"}, Ask(kind) PROVE Goal
      <2> DEFINE q == [kind |-> kind, conn |-> conn, cursor |-> Cursor]
      <2>1. q \in Requests
            BY CursorKnows, FrontendAssumption DEF Types, Requests
      <2>2. q.conn = conn /\ q.cursor = Cursor
            OBVIOUS
      <2>3. input' = Append(input, q) /\ UNCHANGED <<reader, conn, seen>>
            BY <1>1 DEF Ask
      <2> HIDE DEF q
      <2>4. ToSet(input') = ToSet(input) \cup {q}
            BY <1>d, <2>1, <2>3, ToSetAppend
      <2>. QED BY <2>2, <2>3, <2>4 DEF Pending
<1>2. ASSUME Close PROVE Goal
      <2>1. UNCHANGED reader /\ (input' = input \/ input' = Append(input, Part))
            BY <1>2 DEF Close, Part
      <2>2. ToSet(input') \subseteq ToSet(input) \cup {Part}
            <3>1. CASE input' = input
                  BY <3>1
            <3>2. CASE input' = Append(input, Part)
                  <4>1. Part \in Requests \cup {Part}
                        OBVIOUS
                  <4>. QED BY <1>d, <3>2, <4>1, ToSetAppend
            <3>. QED BY <2>1, <3>1, <3>2
      <2>. QED BY <2>1, <2>2 DEF Pending
<1>3. ASSUME \/ Receive \/ Accept \/ HangUp \/ ReadFails \/ Record \/ RelayStep \/ WriterStep
             \/ UNCHANGED vars
      PROVE  Goal
      BY <1>3 DEF Receive, Accept, HangUp, ReadFails, Record, RelayStep, RelayTake, RelaySend,
                  WriterStep, WriteHead, WriteTail, Pending, vars
<1>4. ASSUME SendEvent PROVE Goal
      <2>1. UNCHANGED input /\ (reader' = reader \/ reader' = [reader EXCEPT !.at = "responding"])
            BY <1>4 DEF SendEvent, Unlock
      <2>2. reader'.at = "handling" => reader' = reader
            BY <2>1 DEF Types
      <2>. QED BY <2>1, <2>2 DEF Pending
<1>5. ASSUME TakeLine PROVE Goal
      <2>1. input # <<>> /\ reader.at = "idle"
            BY <1>5 DEF TakeLine
      <2>2. Head(input) \in ToSet(input) /\ ToSet(Tail(input)) \subseteq ToSet(input)
            BY <1>d, <2>1, ToSetTail
      <2>3. ToSet(input') \subseteq ToSet(input)
            <3>1. input' = Tail(input) \/ (Len(input) > 1 /\ input' = Tail(Tail(input)))
                  BY <1>5 DEF TakeLine
            <3>2. Len(input) > 1 => ToSet(Tail(Tail(input))) \subseteq ToSet(input)
                  BY <1>d, TailTail
            <3>. QED BY <2>2, <3>1, <3>2
      <2>4. reader'.at = "handling" => reader'.request = Head(input) /\ Head(input) # Part
            <3>1. \/ /\ reader' = [at |-> "handling", request |-> Head(input), reply |-> None]
                     /\ Head(input).kind # "part"
                  \/ reader' = reader \/ reader'.at = "responding"
                  BY <1>5 DEF TakeLine
            <3>. QED BY <2>1, <3>1 DEF Part
      <2>. QED BY <2>2, <2>3, <2>4 DEF Pending
<1>6. ASSUME HandleInitialize \/ HandleCommand \/ Respond PROVE Goal
      <2>1. UNCHANGED input /\ reader'.at # "handling"
            BY <1>6 DEF HandleInitialize, HandleCommand, Respond, Idle
      <2>. QED BY <2>1 DEF Pending
<1> HIDE DEF Goal
<1>7. Goal
      BY <1>1, <1>2, <1>3, <1>4, <1>5, <1>6 DEF Next, ReaderStep
<1>. QED BY <1>7 DEF Goal

\* Every step keeps the cursors true.
LEMMA NextCursors == Types /\ CursorsAreTrue /\ [Next]_vars => CursorsAreTrue'
<1> SUFFICES ASSUME Types, CursorsAreTrue, [Next]_vars PROVE CursorsAreTrue'
    OBVIOUS
<1> SUFFICES ASSUME NEW q \in Pending'
             PROVE  q.conn <= conn' /\ (q.conn = conn' => 1..q.cursor \subseteq seen')
    BY DEF CursorsAreTrue
<1>1. conn \in Nat /\ (conn' = conn \/ conn' = conn + 1) /\ seen \subseteq seen'
      BY Connections DEF Types
<1>2. CASE q \in Pending
      <2>1. q.conn \in Nat
            BY <1>2, PendingType DEF Requests
      <2>2. q.conn <= conn /\ (q.conn = conn => 1..q.cursor \subseteq seen)
            BY <1>2 DEF CursorsAreTrue
      <2>. QED BY <1>1, <2>1, <2>2
<1>3. CASE q.conn = conn /\ q.cursor = Cursor /\ conn' = conn /\ seen' = seen
      BY <1>1, <1>3, CursorKnows
<1>. QED BY <1>2, <1>3, PendingFrom
-------------------------------------------------------------------------------
\* Only the reader makes the reply to an Initialize, from the log as it is then.
LEMMA SentFrom ==
    ASSUME Types, [Next]_vars
    PROVE  \A m \in Sent' :
              m.kind = "Initialized" =>
                 \/ m \in Sent
                 \/ /\ HandleInitialize
                    /\ m.conn = reader.request.conn
                    /\ m.events = (reader.request.cursor + 1)..log
<1> DEFINE Goal == \A m \in Sent' :
                      m.kind = "Initialized" =>
                         \/ m \in Sent
                         \/ /\ HandleInitialize
                            /\ m.conn = reader.request.conn
                            /\ m.events = (reader.request.cursor + 1)..log
<1>d. /\ wire \in Seq(Messages) /\ out \in Seq(Messages) /\ None \notin Nat
      BY FrontendAssumption DEF Types
<1> USE DEF serviceVars, runtimeVars, outputVars, clientVars
<1>1. ASSUME NEW kind \in {"Initialize", "Submit"}, Ask(kind) PROVE Goal
      BY <1>1 DEF Ask, Sent
<1>2. ASSUME Receive PROVE Goal
      <2>1. ToSet(wire') \subseteq ToSet(wire) /\ UNCHANGED <<out, writer, reader>>
            BY <1>d, <1>2, ToSetTail DEF Receive
      <2>. QED BY <2>1 DEF Sent
<1>3. ASSUME Close PROVE Goal
      <2>1. ToSet(wire') = {}
            BY <1>3 DEF Close, ToSet
      <2>2. UNCHANGED <<out, writer, reader>>
            BY <1>3 DEF Close
      <2>. QED BY <2>1, <2>2 DEF Sent
<1>4. ASSUME Accept \/ HangUp \/ ReadFails \/ Record \/ RelayTake \/ UNCHANGED vars PROVE Goal
      BY <1>4 DEF Accept, HangUp, ReadFails, Record, RelayTake, vars, Sent
<1>5. ASSUME SendEvent PROVE Goal
      <2>1. UNCHANGED <<wire, out, writer>>
            BY <1>5 DEF SendEvent
      <2>2. reader' = reader \/ (reader.at = "recording" /\ reader'.reply = reader.reply)
            BY <1>5 DEF SendEvent, Unlock, Types
      <2>. QED BY <2>1, <2>2 DEF Sent
<1>6. ASSUME RelaySend PROVE Goal
      <2> DEFINE m == [kind |-> "Event", conn |-> None, events |-> {relay}]
      <2>1. m \in Messages /\ m.kind # "Initialized"
            BY <1>6 DEF RelaySend, Messages, Types
      <2>2. out' = Append(out, m) /\ UNCHANGED <<wire, writer, reader>>
            BY <1>6 DEF RelaySend
      <2> HIDE DEF m
      <2>3. ToSet(out') = ToSet(out) \cup {m}
            BY <1>d, <2>1, <2>2, ToSetAppend
      <2>. QED BY <2>1, <2>2, <2>3 DEF Sent
<1>7. ASSUME WriteHead PROVE Goal
      <2>1. ToSet(out) = {Head(out)} \cup ToSet(out')
            BY <1>d, <1>7, ToSetTail DEF WriteHead
      <2>2. writer'.message = Head(out) /\ UNCHANGED <<wire, reader>>
            BY <1>7 DEF WriteHead
      <2>. QED BY <2>1, <2>2 DEF Sent
<1>8. ASSUME WriteTail PROVE Goal
      <2>1. writer # None /\ writer' = None /\ UNCHANGED <<out, reader>> /\ writer.message \in Messages
            BY <1>8 DEF WriteTail, Types
      <2>2. \A m \in ToSet(wire') : m \in ToSet(wire) \/ m = writer.message \/ m.kind = "broken"
            <3> DEFINE b == [kind |-> "broken", conn |-> None, events |-> {}]
            <3>1. b \in Messages /\ b.kind = "broken"
                  BY DEF Messages
            <3>2. \/ wire' = wire \/ wire' = Append(wire, writer.message) \/ wire' = Append(wire, b)
                  BY <1>8 DEF WriteTail
            <3> HIDE DEF b
            <3>3. CASE wire' = wire
                  BY <3>3
            <3>4. CASE wire' = Append(wire, writer.message)
                  BY <1>d, <2>1, <3>4, ToSetAppend
            <3>5. CASE wire' = Append(wire, b)
                  BY <1>d, <3>1, <3>5, ToSetAppend
            <3>. QED BY <3>2, <3>3, <3>4, <3>5
      <2>. QED BY <2>1, <2>2 DEF Sent
<1>9. ASSUME TakeLine PROVE Goal
      <2>1. UNCHANGED <<wire, out, writer>>
            BY <1>9 DEF TakeLine
      <2>2. reader' = reader \/ reader'.at = "handling" \/ reader'.reply.kind = "Refused"
            BY <1>9 DEF TakeLine
      <2>. QED BY <2>1, <2>2 DEF Sent
<1>10. ASSUME HandleInitialize PROVE Goal
       <2>1. UNCHANGED <<wire, out, writer>>
             BY <1>10 DEF HandleInitialize
       <2>2. \/ reader'.reply = [kind |-> "Initialized", conn |-> reader.request.conn,
                                 events |-> (reader.request.cursor + 1)..log]
             \/ reader'.reply.kind = "Refused"
             BY <1>10 DEF HandleInitialize
       <2>. QED BY <1>10, <2>1, <2>2 DEF Sent
<1>11. ASSUME HandleCommand PROVE Goal
       <2>1. UNCHANGED <<wire, out, writer>> /\ reader'.reply.kind = "Done"
             BY <1>11 DEF HandleCommand
       <2>. QED BY <2>1 DEF Sent
<1>12. ASSUME Respond PROVE Goal
       <2>1. ToSet(out') = ToSet(out) \cup {reader.reply} /\ reader.at = "responding"
             BY <1>d, <1>12, ToSetAppend DEF Respond, Types
       <2>2. UNCHANGED <<wire, writer>> /\ reader'.at = "idle"
             BY <1>12 DEF Respond, Idle
       <2>. QED BY <2>1, <2>2 DEF Sent
<1> HIDE DEF Goal
<1>13. Goal
       BY <1>1, <1>2, <1>3, <1>4, <1>5, <1>6, <1>7, <1>8, <1>9, <1>10, <1>11, <1>12
          DEF Next, RelayStep, WriterStep, ReaderStep
<1>. QED BY <1>13 DEF Goal

\* Every step keeps the replies whole: events after a reply are on their way
\* behind it, events before it are in it or known.
LEMMA NextReplies ==
    Types /\ ActiveIsUp /\ CursorsAreTrue /\ RepliesAreWhole /\ [Next]_vars => RepliesAreWhole'
<1> SUFFICES ASSUME Types, ActiveIsUp, CursorsAreTrue, RepliesAreWhole, [Next]_vars,
                    NEW m \in Sent', m.kind = "Initialized"
             PROVE  /\ m.conn \in Nat /\ m.conn <= conn'
                    /\ m.conn = conn' /\ link' = "up" =>
                          1..log' \subseteq seen' \cup m.events \cup OnTheirWay'
    BY DEF RepliesAreWhole
<1>1. CASE m \in Sent
      <2>1. conn \in Nat /\ m.conn \in Nat /\ m.conn <= conn
            BY <1>1 DEF RepliesAreWhole, Types
      <2>2. m.conn <= conn'
            BY <2>1, Connections
      <2>3. ASSUME m.conn = conn', link' = "up"
            PROVE  1..log' \subseteq seen' \cup m.events \cup OnTheirWay'
            <3>1. conn' = conn /\ link = "up"
                  BY <2>1, <2>3, Connections
            <3>2. 1..log \subseteq seen \cup m.events \cup OnTheirWay
                  BY <1>1, <2>3, <3>1 DEF RepliesAreWhole
            <3>3. /\ seen \cup OnTheirWay \subseteq seen' \cup OnTheirWay'
                  /\ 1..log' \subseteq (1..log) \cup OnTheirWay'
                  BY <2>3, <3>1, Flow
            <3>. QED BY <3>2, <3>3
      <2>. QED BY <2>1, <2>2, <2>3
<1>2. ASSUME HandleInitialize, m.conn = reader.request.conn,
             m.events = (reader.request.cursor + 1)..log
      PROVE  /\ m.conn \in Nat /\ m.conn <= conn'
             /\ m.conn = conn' /\ link' = "up" =>
                   1..log' \subseteq seen' \cup m.events \cup OnTheirWay'
      <2>1. reader.request \in Pending /\ reader.request \in Requests
            BY <1>2 DEF HandleInitialize, Pending, Types
      <2>2. UNCHANGED <<conn, log, seen>>
            BY <1>2 DEF HandleInitialize, serviceVars, runtimeVars, clientVars
      <2>3. m.conn \in Nat /\ reader.request.cursor \in Nat /\ log \in Nat
            BY <1>2, <2>1, FrontendAssumption DEF Requests, Types
      <2>4. m.conn <= conn /\ (m.conn = conn => 1..reader.request.cursor \subseteq seen)
            BY <1>2, <2>1 DEF CursorsAreTrue
      <2>5. \A n \in 1..log : n \in 1..reader.request.cursor \/ n \in m.events
            BY <1>2, <2>3
      <2>. QED BY <2>2, <2>3, <2>4, <2>5
<1>. QED BY <1>1, <1>2, SentFrom

\* Every step keeps the frontend's stream without a gap.
LEMMA NextNoGap ==
    Types /\ ActiveIsUp /\ RepliesAreWhole /\ NoGap /\ [Next]_vars => NoGap'
<1> SUFFICES ASSUME Types, ActiveIsUp, RepliesAreWhole, NoGap, [Next]_vars,
                    greeted' = "yes", link' = "up"
             PROVE  1..log' \subseteq seen' \cup OnTheirWay'
    BY DEF NoGap
<1>1. conn' = conn /\ link = "up"
      BY Connections
<1>2. /\ seen \cup OnTheirWay \subseteq seen' \cup OnTheirWay'
      /\ 1..log' \subseteq (1..log) \cup OnTheirWay'
      BY <1>1, Flow
<1>3. CASE greeted = "yes"
      BY <1>1, <1>2, <1>3 DEF NoGap
<1>4. CASE greeted # "yes"
      <2>1. Receive
            <3> USE DEF clientVars
            <3>1. ASSUME NEW kind \in {"Initialize", "Submit"}, Ask(kind) PROVE FALSE
                  BY <1>4, <3>1 DEF Ask
            <3>2. CASE \/ Close \/ Accept \/ HangUp \/ ReadFails \/ Record \/ SendEvent
                       \/ RelayStep \/ WriterStep
                  BY <1>4, <3>2 DEF Close, Accept, HangUp, ReadFails, Record, SendEvent, RelayStep,
                                    RelayTake, RelaySend, WriterStep, WriteHead, WriteTail
            <3>3. CASE ReaderStep \/ UNCHANGED vars
                  BY <1>4, <3>3 DEF ReaderStep, TakeLine, HandleInitialize, HandleCommand, Respond, vars
            <3>. QED BY <3>1, <3>2, <3>3 DEF Next
      <2> DEFINE m == Head(wire)
      <2>2. m.kind = "Initialized" /\ m.conn = conn /\ seen' = seen \cup m.events
            BY <1>4, <2>1 DEF Receive
      <2>3. m \in ToSet(wire)
            BY <2>1, ToSetTail DEF Receive, Types
      <2> HIDE DEF m
      <2>4. m \in Sent
            BY <2>3 DEF Sent
      <2>5. 1..log \subseteq seen \cup m.events \cup OnTheirWay
            BY <1>1, <2>2, <2>4 DEF RepliesAreWhole
      <2>. QED BY <1>2, <2>2, <2>5
<1>. QED BY <1>3, <1>4

\* "snapshot + ordered events after sequence N": from the answer to its Initialize
\* on, a connected frontend has every event or is being sent it, however the
\* reader's replies (server.rs) interleave with the relay's events and however
\* connections come and go (local_service.rs).
THEOREM Gapless == Spec => []NoGap
<1> DEFINE IInv == Types /\ ActiveIsUp /\ CursorsAreTrue /\ RepliesAreWhole /\ NoGap
<1>1. Init => IInv
      <2> SUFFICES ASSUME Init PROVE IInv
          OBVIOUS
      <2>1. Types
            BY FrontendAssumption DEF Init, Types, Idle
      <2>2. ActiveIsUp /\ NoGap
            BY DEF Init, ActiveIsUp, NoGap
      <2>3. ToSet(<<>>) = {}
            BY DEF ToSet
      <2>4. Pending = {} /\ Sent = {}
            BY <2>3 DEF Init, Pending, Sent, Idle
      <2>. QED BY <2>1, <2>2, <2>4 DEF CursorsAreTrue, RepliesAreWhole
<1>2. IInv /\ [Next]_vars => IInv'
      BY NextTypes, NextActive, NextCursors, NextReplies, NextNoGap
<1>. QED BY <1>1, <1>2, PTL DEF Spec
====

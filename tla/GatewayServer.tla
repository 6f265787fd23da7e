---------------------------- MODULE GatewayServer ----------------------------
(***************************************************************************)
(* GatewayWebSocketServer of ha_gateway/protocol/websocket.py: clients     *)
(* that come and go, their requests, and the broadcasts of the one reader  *)
(* of Home Assistant's connection.  One event loop: an action is what runs *)
(* between two suspensions, but a broadcast, which takes a step for each   *)
(* client and lets nothing else run until a send suspends it.  KNX is off. *)
(*                                                                         *)
(* A send writes the message at once and suspends while the client's       *)
(* buffer is full.  A client's key in the tables is id(ws), which Python   *)
(* may give to a later connection once nothing refers to the earlier one.  *)
(*                                                                         *)
(* client_subscriptions is a dict, walked in the order of insertion while  *)
(* sends suspend: `order` are its slots, a removed one leaves a Hole until *)
(* an insertion finds the table used up and packs it.  A walk raises       *)
(* RuntimeError when the number of entries has changed since it began.     *)
(***************************************************************************)
EXTENDS Naturals, FiniteSets, SequencesExt

CONSTANTS
    Conns,       \* connections of clients
    Slow,        \* those whose client may stop reading
    Ids,         \* values of id(ws)
    Entities,    \* each one is the only entity of a grouped device
    Kinds,       \* the kinds of requests each connection's client makes
    MaxEvents,   \* bound: state changes read
    MaxRequests, \* bound: requests of one connection
    MaxPolls,    \* polls of set_state before its deadline
    Nobody, Hole, Star

Topics == Entities \union {Star}
Asks == {"states", "call", "poll", "options", "recall"}
AllKinds == {"subscribe", "unsubscribe", "subscribe_device", "unsubscribe_device",
             "local", "invalid", "get_state", "set_state", "call_service",
             "call_for_response", "call_select", "discover", "control_device"}

ASSUME NamesAssumption ==
    /\ Nobody \notin Conns /\ Hole \notin Ids /\ Star \notin Entities
    /\ Slow \subseteq Conns
    /\ Kinds \in [Conns -> SUBSET AllKinds]

ASSUME KeysAssumption == Ids # {}

ASSUME LimitsAssumption ==
    MaxEvents \in Nat /\ MaxRequests \in Nat /\ MaxPolls \in Nat

VARIABLES
    sock,     \* the connection, as the client sees it
    stalled,  \* clients that do not read: their buffer is full
    clients,  \* self.clients
    order,    \* slots of self.client_subscriptions
    wants,    \* its values
    devsubs,  \* self.device_subscriptions
    handler,  \* where each connection's _websocket_handler is
    known,    \* whether ha_ws._initial_states is filled
    reader,   \* the broadcast under way
    heard,    \* history: the changes sent to each connection
    wish      \* history: what each connection subscribed to

tables == <<clients, order, wants, devsubs>>
vars == <<sock, stalled, tables, handler, known, reader, heard, wish>>
-----------------------------------------------------------------------------
NewHandler == [pc |-> "off", id |-> CHOOSE i \in Ids : TRUE, kind |-> "none", topic |-> Star,
               ask |-> "none", polls |-> 0, answers |-> <<>>, effects |-> 0,
               used |-> 0, woken |-> FALSE]

Resting == [step |-> "idle", n |-> 0, e |-> Star, round |-> 0, size |-> 0, pos |-> 0, on |-> Nobody,
            woken |-> FALSE, owed |-> {}, aborted |-> FALSE]

Steps == {"idle", "entity", "device"}
Pcs == {"off", "initial", "greeting", "idle", "asking", "sending", "left"}

\* Nothing else runs between two suspensions of the reader.
Suspended == reader.step = "idle" \/ reader.on # Nobody

\* A connection whose handler runs.
Live(c) == handler[c].pc \notin {"off", "left"}

TypeOK ==
    /\ sock \in [Conns -> {"none", "open", "closed"}]
    /\ stalled \subseteq Conns
    /\ clients \in [Ids -> Conns \union {Nobody}]
    /\ order \in Seq(Ids \union {Hole})
    /\ wants \in [Ids -> SUBSET Topics]
    /\ devsubs \in [Entities -> Seq(Ids)]
    /\ handler \in [Conns -> [pc : Pcs, id : Ids, kind : AllKinds \union {"none"},
                              topic : Topics, ask : Asks \union {"none"}, polls : Nat,
                              answers : Seq({"success", "error"}), effects : Nat, used : Nat, woken : BOOLEAN]]
    /\ known \in BOOLEAN
    /\ reader \in [step : Steps, n : Nat, e : Topics, round : 0 .. 1, size : Nat, pos : Nat,
                   on : Conns \union {Nobody}, woken : BOOLEAN,
                   owed : SUBSET Conns, aborted : BOOLEAN]
    /\ heard \in [Conns -> Seq((1 .. MaxEvents) \X Entities \X {"entity", "device"})]
    /\ wish \in [Conns -> SUBSET (Topics \X {"entity", "device"})]

Init ==
    /\ sock = [c \in Conns |-> "none"] /\ stalled = {}
    /\ clients = [i \in Ids |-> Nobody]
    /\ order = <<>> /\ wants = [i \in Ids |-> {}]
    /\ devsubs = [e \in Entities |-> <<>>]
    /\ handler = [c \in Conns |-> NewHandler]
    /\ known \in BOOLEAN
    /\ reader = Resting
    /\ heard = [c \in Conns |-> <<>>] /\ wish = [c \in Conns |-> {}]
-----------------------------------------------------------------------------
(***************************************************************************)
(* The tables                                                              *)
(***************************************************************************)
Subscribers == {i \in Ids : \E k \in DOMAIN order : order[k] = i}

\* del self.client_subscriptions[id] leaves a hole.
Dropped(id) == [k \in DOMAIN order |-> IF order[k] = id THEN Hole ELSE order[k]]

\* The slots without the holes: what an insertion makes of a table that is used up.
Packings ==
    {p \in UNION {[1 .. n -> Subscribers] : n \in 0 .. Len(order)} :
        /\ \A i \in Subscribers : \E k \in DOMAIN p : p[k] = i
        /\ \A j, k \in DOMAIN p : j < k =>
              \E a, b \in DOMAIN order : a < b /\ order[a] = p[j] /\ order[b] = p[k]}

\* Both tables forget a client.
Forget(id) ==
    /\ clients' = [clients EXCEPT ![id] = Nobody]
    /\ order' = Dropped(id)
    /\ wants' = [wants EXCEPT ![id] = {}]
    /\ UNCHANGED devsubs

\* A send that finds the connection closed raises; _send_to_client catches it
\* and forgets the client.
Sendable(c) == sock[c] = "open"
-----------------------------------------------------------------------------
(***************************************************************************)
(* Clients                                                                 *)
(***************************************************************************)
FreeIds == Ids \ ({handler[c].id : c \in {d \in Conns : Live(d)}}
                  \union {handler[c].id : c \in {reader.on} \ {Nobody}})

\* The states are sent one after the other: the buffer may not take them all.
Greeted(c) == IF c \in Slow THEN {"greeting", "idle"} ELSE {"idle"}

Connect(c) ==
    /\ Suspended
    /\ handler[c].pc = "off"
    /\ \E i \in FreeIds :
        /\ clients' = [clients EXCEPT ![i] = c]
        /\ \E pc \in IF known THEN Greeted(c) ELSE {"initial"} :
              handler' = [handler EXCEPT ![c].pc = pc, ![c].id = i]
    /\ sock' = [sock EXCEPT ![c] = "open"]
    /\ UNCHANGED <<stalled, order, wants, devsubs, known, reader, heard, wish>>

Stall(c) ==
    /\ Suspended
    /\ c \in Slow /\ sock[c] = "open" /\ stalled' = stalled \union {c}
    /\ UNCHANGED <<sock, tables, handler, known, reader, heard, wish>>

\* Whoever waits for the buffer to drain is woken.
WakeWaiters(c) ==
    /\ handler' = [handler EXCEPT ![c].woken = @ \/ handler[c].pc = "sending"]
    /\ reader' = [reader EXCEPT !.woken = @ \/ reader.on = c]

Drain(c) ==
    /\ Suspended
    /\ c \in stalled /\ stalled' = stalled \ {c}
    /\ WakeWaiters(c)
    /\ UNCHANGED <<sock, tables, known, heard, wish>>

Close(c) ==
    /\ Suspended
    /\ sock[c] = "open" /\ sock' = [sock EXCEPT ![c] = "closed"]
    /\ stalled' = stalled \ {c}
    /\ WakeWaiters(c)
    /\ UNCHANGED <<tables, known, heard, wish>>
-----------------------------------------------------------------------------
(***************************************************************************)
(* A connection's handler                                                  *)
(***************************************************************************)
\* _send_initial_state, which catches what it meets.
FetchInitial(c) ==
    /\ Suspended
    /\ handler[c].pc = "initial"
    /\ \/ /\ known' \in {known, TRUE}
          /\ \E pc \in Greeted(c) : handler' = [handler EXCEPT ![c].pc = pc]
       \/ UNCHANGED known /\ handler' = [handler EXCEPT ![c].pc = "idle"]
    /\ UNCHANGED <<sock, stalled, tables, reader, heard, wish>>

\* The set-up of Home Assistant's connection asks for the states, too.
SetUp ==
    /\ Suspended
    /\ ~known /\ known' = TRUE
    /\ UNCHANGED <<sock, stalled, tables, handler, reader, heard, wish>>

Greet(c) ==
    /\ Suspended
    /\ handler[c].pc = "greeting" /\ c \notin stalled
    /\ handler' = [handler EXCEPT ![c].pc = "idle"]
    /\ UNCHANGED <<sock, stalled, tables, known, reader, heard, wish>>

\* What a handler does next: ask Home Assistant, answer its client, or both.
Then(answer, ask) == [answer |-> answer, ask |-> ask]
Done(answer) == Then(answer, "none")
Go(ask) == Then("none", ask)

\* The first thing a request leads to.  "local" are ping, list_devices,
\* get_device and the unsupported types; "invalid" lacks a parameter, or names a
\* device nobody knows.
Begin(kind) ==
    CASE kind = "get_state" -> Go("states")
      [] kind \in {"set_state", "call_service", "call_for_response",
                   "control_device"} -> Go("call")
      [] kind = "call_select" -> Go("options")
      [] kind = "discover" -> IF known THEN Done("success") ELSE Go("states")
      [] kind = "invalid" -> Done("error")
      [] OTHER -> Done("success")

\* A bug: the call is repeated without a response whatever the error was.
RecallsAlways(kind, ask, outcome) ==
    kind = "call_for_response" /\ ask = "call" /\ outcome \in {"unsupported", "error"}

Recalls(kind, ask, outcome) == outcome = "unsupported"

WithOption(found) == IF found THEN Go("call") ELSE Done("error")

\* The next thing, when Home Assistant's answer is there.  "other" is a state
\* list without the wanted state or option, "absent" one without the entity.
Proceed(kind, ask, polls, outcome) ==
    IF Recalls(kind, ask, outcome) THEN Go("recall")
    ELSE IF outcome = "error" THEN Done("error")
    ELSE IF ask = "options" THEN WithOption(outcome = "ok")
    ELSE IF kind = "get_state" THEN Done(IF outcome = "ok" THEN "success" ELSE "error")
    ELSE IF kind = "set_state" /\ ask = "call" THEN Go("poll")
    ELSE IF ask = "poll" /\ outcome # "ok" /\ polls < MaxPolls THEN Go("poll")
    ELSE IF ask = "poll" THEN Done(IF outcome = "absent" THEN "error" ELSE "success")
    ELSE Done("success")

\* _send_to_client in a handler: nothing when the client was forgotten.
Answer(c, answer) ==
    IF answer = "none" \/ clients[handler[c].id] # c THEN "skipped"
    ELSE IF Sendable(c) THEN "sent" ELSE "raised"

Sending(next, sent) == IF sent = "sent" THEN <<next.answer>> ELSE <<>>

Moved(c, next, effects, sent) ==
    [handler[c] EXCEPT
        !.pc = IF sent = "sent" /\ c \in stalled THEN "sending"
               ELSE IF next.ask # "none" THEN "asking" ELSE "idle",
        !.ask = next.ask,
        !.polls = IF next.ask = "poll" THEN @ + 1 ELSE @,
        !.answers = @ \o Sending(next, sent), !.effects = @ + effects]

\* list.remove
Removed(s, i) ==
    IF Contains(s, i) THEN RemoveAt(s, CHOOSE k \in 1 .. Len(s) : s[k] = i) ELSE s

\* Subscriptions change in the step that answers, before the send.
EnrolDevice(c, kind, t) ==
    LET i == handler[c].id IN
    /\ IF kind = "subscribe_device"
       THEN /\ devsubs' = [devsubs EXCEPT ![t] = IF Contains(@, i) THEN @ ELSE Append(@, i)]
            /\ wish' = [wish EXCEPT ![c] = @ \union {<<t, "device">>}]
       ELSE /\ devsubs' = [devsubs EXCEPT ![t] = Removed(@, i)]
            /\ UNCHANGED wish
    /\ UNCHANGED <<order, wants>>

Enrol(c, kind, t) ==
    LET i == handler[c].id IN
    CASE kind = "subscribe" ->
           /\ order' \in IF i \in Subscribers THEN {order}
                         ELSE {Append(o, i) : o \in Packings \union {order}}
           /\ wants' = [wants EXCEPT ![i] = @ \union {t}]
           /\ wish' = [wish EXCEPT ![c] = @ \union {<<t, "entity">>}]
           /\ UNCHANGED devsubs
      [] kind = "unsubscribe" ->
           /\ wants' = [wants EXCEPT ![i] = @ \ {t}]
           /\ UNCHANGED <<order, devsubs, wish>>
      [] kind \in {"subscribe_device", "unsubscribe_device"} -> EnrolDevice(c, kind, t)
      [] OTHER -> UNCHANGED <<order, wants, devsubs, wish>>

\* One request has changed the tables, or one answer has been handled; the send,
\* if there is one, may find the connection closed.
Subscribing == {"subscribe", "unsubscribe", "subscribe_device", "unsubscribe_device"}

Receive(c) ==
    /\ Suspended
    /\ handler[c].pc = "idle" /\ sock[c] # "none" /\ handler[c].used < MaxRequests
    /\ \E kind \in Kinds[c], t \in Topics :
        /\ t = Star => kind \notin {"subscribe_device", "unsubscribe_device"}
        /\ kind \notin Subscribing => t = Star
        /\ LET next == Begin(kind)
               sent == Answer(c, next.answer)
           IN  /\ handler' = [handler EXCEPT ![c] =
                       [Moved(c, next, 0, sent) EXCEPT
                           !.kind = kind, !.topic = t, !.used = @ + 1, !.effects = 0,
                           !.polls = 0, !.answers = Sending(next, sent)]]
               /\ IF sent = "raised" THEN Forget(handler[c].id) /\ UNCHANGED wish
                  ELSE Enrol(c, kind, t) /\ UNCHANGED clients
               /\ reader' = IF kind = "unsubscribe" \/ sent = "raised"
                            THEN [reader EXCEPT !.owed = @ \ {c}] ELSE reader
    /\ UNCHANGED <<sock, stalled, known, heard>>

\* Home Assistant may have done what it did not answer in time.
Outcomes(c) ==
    LET ran == {<<"ok", 1>>, <<"error", 0>>, <<"error", 1>>} IN
    IF handler[c].ask = "call" /\ handler[c].kind = "call_for_response"
    THEN ran \union {<<"unsupported", 0>>}
    ELSE IF handler[c].ask \in {"call", "recall"} THEN ran
    ELSE IF handler[c].ask = "options" THEN {<<"ok", 0>>, <<"other", 0>>}
    ELSE {<<"ok", 0>>, <<"other", 0>>, <<"absent", 0>>, <<"error", 0>>}

Answered(c) ==
    /\ Suspended
    /\ handler[c].pc = "asking"
    /\ \E o \in Outcomes(c) :
        LET next == Proceed(handler[c].kind, handler[c].ask, handler[c].polls, o[1])
            sent == Answer(c, next.answer)
        IN  /\ handler' = [handler EXCEPT ![c] = Moved(c, next, o[2], sent)]
            /\ known' = (known \/ (handler[c].kind = "discover" /\ o[1] = "ok"))
            /\ IF sent = "raised" THEN Forget(handler[c].id) ELSE UNCHANGED tables
            /\ reader' = IF sent = "raised" THEN [reader EXCEPT !.owed = @ \ {c}] ELSE reader
    /\ UNCHANGED <<sock, stalled, heard, wish>>

\* A bug: a send whose connection is lost is never woken.
SentOpen(c) ==
    /\ Suspended
    /\ handler[c].pc = "sending" /\ handler[c].woken /\ sock[c] = "open"
    /\ handler' = [handler EXCEPT ![c].pc = "idle", ![c].woken = FALSE]
    /\ UNCHANGED <<sock, stalled, tables, known, reader, heard, wish>>

\* The send of an answer returns when the buffer has drained; it may raise when
\* the connection was lost meanwhile.
Sent(c) ==
    /\ Suspended
    /\ handler[c].pc = "sending" /\ handler[c].woken
    /\ handler' = [handler EXCEPT ![c].pc = "idle", ![c].woken = FALSE]
    /\ \/ UNCHANGED <<tables, reader>>
       \/ /\ sock[c] = "closed" /\ clients[handler[c].id] = c
          /\ Forget(handler[c].id)
          /\ reader' = [reader EXCEPT !.owed = @ \ {c}]
    /\ UNCHANGED <<sock, stalled, known, heard, wish>>

\* A bug: the finally forgets the client but not its subscriptions.
LeaveSubscribed(c) ==
    /\ Suspended
    /\ handler[c].pc = "idle" /\ sock[c] = "closed"
    /\ clients' = [clients EXCEPT ![handler[c].id] = Nobody]
    /\ handler' = [handler EXCEPT ![c].pc = "left"]
    /\ reader' = [reader EXCEPT !.owed = @ \ {c}]
    /\ UNCHANGED <<sock, stalled, order, wants, devsubs, known, heard, wish>>

\* The end of the loop over messages, and its finally.
Leave(c) ==
    /\ Suspended
    /\ handler[c].pc = "idle" /\ sock[c] = "closed"
    /\ Forget(handler[c].id)
    /\ handler' = [handler EXCEPT ![c].pc = "left"]
    /\ reader' = [reader EXCEPT !.owed = @ \ {c}]
    /\ UNCHANGED <<sock, stalled, known, heard, wish>>
-----------------------------------------------------------------------------
(***************************************************************************)
(* The reader: broadcast_state_change and broadcast_device_state_change    *)
(***************************************************************************)
\* owed: those who are subscribed as the walk begins.  An event that leaves the
\* entity's value as it was is for the grouped device's subscribers only.
BroadcastEntity ==
    /\ reader.step = "idle" /\ reader.n < MaxEvents
    /\ \E e \in Entities :
        \/ reader' = [Resting EXCEPT
               !.step = "entity", !.n = reader.n + 1, !.e = e, !.size = Len(order),
               !.owed = {c \in Conns : \E i \in Subscribers :
                           clients[i] = c /\ wants[i] \cap {e, Star} # {}}]
        \/ reader' = [Resting EXCEPT
               !.step = "device", !.n = reader.n + 1, !.e = e, !.aborted = TRUE]
    /\ UNCHANGED <<sock, stalled, tables, handler, known, heard, wish>>

\* A bug: the walk begins again when the dict has changed.
StartsOver(aborted) ==
    /\ reader' = IF aborted THEN [reader EXCEPT !.pos = 0, !.size = Cardinality(Subscribers)]
                 ELSE [reader EXCEPT !.step = "device", !.pos = 0, !.on = Nobody]
    /\ UNCHANGED <<sock, stalled, tables, handler, known, heard, wish>>

\* The walk is over: the grouped device is next.
EndWalk(aborted) ==
    /\ reader' = [reader EXCEPT !.step = "device", !.pos = 0, !.aborted = aborted,
                                !.on = Nobody, !.woken = FALSE]
    /\ UNCHANGED <<sock, stalled, tables, handler, known, heard, wish>>

SizeChanged == Cardinality(Subscribers) # reader.size

\* Send this change to whoever has the id, suspended while he does not read.
SendChange(i, what) ==
    LET c == clients[i] IN
    \/ /\ c = Nobody
       /\ reader' = [reader EXCEPT !.pos = @ + 1]
       /\ UNCHANGED <<tables, heard>>
    \/ /\ c # Nobody /\ Sendable(c)
       /\ heard' = [heard EXCEPT ![c] = Append(@, <<reader.n, reader.e, what>>)]
       /\ reader' = [reader EXCEPT !.pos = @ + 1, !.on = IF c \in stalled THEN c ELSE Nobody]
       /\ UNCHANGED tables
    \/ /\ c # Nobody /\ ~Sendable(c)
       /\ Forget(i)
       /\ reader' = [reader EXCEPT !.pos = @ + 1, !.owed = @ \ {c}]
       /\ UNCHANGED heard

\* One slot of the dict.
VisitClient ==
    /\ reader.step = "entity" /\ reader.on = Nobody
    /\ ~SizeChanged /\ reader.pos < Len(order)
    /\ LET i == order[reader.pos + 1] IN
       IF i # Hole /\ wants[i] \cap {reader.e, Star} # {}
       THEN SendChange(i, "entity")
       ELSE reader' = [reader EXCEPT !.pos = @ + 1] /\ UNCHANGED <<tables, heard>>
    /\ UNCHANGED <<sock, stalled, handler, known, wish>>

EndEntity ==
    /\ reader.step = "entity" /\ reader.on = Nobody
    /\ \/ SizeChanged /\ EndWalk(TRUE)
       \/ ~SizeChanged /\ reader.pos >= Len(order) /\ EndWalk(FALSE)

\* The list of a device is walked by index, as it is at each step, and twice: the
\* state manager and the server have both registered the same callback.
VisitDevice ==
    /\ reader.step = "device" /\ reader.on = Nobody
    /\ reader.pos < Len(devsubs[reader.e])
    /\ SendChange(devsubs[reader.e][reader.pos + 1], "device")
    /\ UNCHANGED <<sock, stalled, handler, known, wish>>

Again(round) == round < 1

EndDevice ==
    /\ reader.step = "device" /\ reader.on = Nobody
    /\ reader.pos >= Len(devsubs[reader.e])
    /\ reader' = IF Again(reader.round) THEN [reader EXCEPT !.pos = 0, !.round = @ + 1]
                 ELSE [Resting EXCEPT !.n = reader.n]
    /\ UNCHANGED <<sock, stalled, tables, handler, known, heard, wish>>

\* A bug: what a send to a lost connection raises is not caught, which ends the
\* reader.
ResumeOpen ==
    /\ reader.on # Nobody /\ reader.woken /\ sock[reader.on] = "open"
    /\ reader' = [reader EXCEPT !.on = Nobody, !.woken = FALSE]
    /\ UNCHANGED <<sock, stalled, tables, handler, known, heard, wish>>

\* The suspended send returns, or raises because the connection was lost.
Resume ==
    /\ reader.on # Nobody /\ reader.woken
    /\ \/ /\ reader' = [reader EXCEPT !.on = Nobody, !.woken = FALSE]
          /\ UNCHANGED tables
       \/ LET c == reader.on IN
          /\ sock[c] = "closed" /\ clients[handler[c].id] = c
          /\ Forget(handler[c].id)
          /\ reader' = [reader EXCEPT !.on = Nobody, !.woken = FALSE, !.owed = @ \ {c}]
    /\ UNCHANGED <<sock, stalled, handler, known, heard, wish>>
-----------------------------------------------------------------------------
Reader == BroadcastEntity \/ VisitClient \/ EndEntity \/ VisitDevice \/ EndDevice \/ Resume

Handle(c) == FetchInitial(c) \/ Greet(c) \/ Answered(c) \/ Sent(c) \/ Leave(c)

Client(c) == Connect(c) \/ Receive(c) \/ Stall(c) \/ Drain(c) \/ Close(c)

Next == Reader \/ SetUp \/ \E c \in Conns : Handle(c) \/ Client(c)

Spec == Init /\ [][Next]_vars

\* The loop runs what can run, and Home Assistant's answer or its timeout comes.
\* Nobody makes a client read.
FairSpec == Spec /\ WF_vars(Reader) /\ \A c \in Conns : WF_vars(Handle(c))
-----------------------------------------------------------------------------
\* A client key belongs to a connection whose handler runs, so that nothing is
\* ever sent in the name of a client that has left, although keys are used again.
RegisteredAreLive ==
    /\ \A i \in Ids : clients[i] # Nobody => Live(clients[i]) /\ handler[clients[i]].id = i
    /\ \A i \in Ids : (i \in Subscribers \/ wants[i] # {}) => \E c \in Conns : Live(c) /\ handler[c].id = i
    /\ \A c, d \in Conns : Live(c) /\ Live(d) /\ handler[c].id = handler[d].id => c = d

\* What a connection is sent of an entity it has asked for itself; of a device,
\* itself or an earlier connection with the same key.
NoStrangers ==
    \A c \in Conns : \A h \in ToSet(heard[c]) :
        IF h[3] = "entity" THEN {<<h[2], "entity">>, <<Star, "entity">>} \cap wish[c] # {}
        ELSE \E d \in Conns : handler[d].id = handler[c].id /\ <<h[2], "device">> \in wish[d]

\* No client is told one change of an entity twice, although the walk goes on
\* over a dict that clients leave and join meanwhile.
NobodyHearsTwice ==
    \A c \in Conns : \A j, k \in DOMAIN heard[c] :
        heard[c][j] = heard[c][k] /\ heard[c][j][3] = "entity" => j = k

\* A request gets one answer, or none when the connection is gone, whatever
\* Home Assistant answers on the way.
OneAnswer ==
    \A c \in Conns :
        /\ Len(handler[c].answers) <= 1
        /\ handler[c].pc \in {"idle", "sending"} /\ handler[c].used > 0 /\ sock[c] = "open"
              => Len(handler[c].answers) = 1

Calling == {"set_state", "call_service", "call_for_response", "call_select", "control_device"}

\* Home Assistant runs a service at most once for a request, and has run it when
\* the answer says so.
CalledOnce ==
    \A c \in Conns :
        /\ handler[c].effects <= 1
        /\ handler[c].kind \in Calling /\ "success" \in ToSet(handler[c].answers)
              => handler[c].effects = 1

\* What holds of the answers and broadcasts between any two steps.
ServerSound == TypeOK /\ NoStrangers /\ NobodyHearsTwice /\ OneAnswer

\* If no client stops reading for ever, the reader gets through its broadcasts.
BroadcastEnds ==
    (\A c \in Conns : []<>(c \notin stalled)) => []<>(reader.step = "idle")

\* A client that is gone is out of the tables in the end.
ClosedLeaves ==
    \A c \in Conns : sock[c] = "closed" ~>
        handler[c].pc = "left" /\ \A i \in Ids : clients[i] # c
=============================================================================

---------------------------- MODULE HaConnection ----------------------------
(***************************************************************************)
(* The gateway's connection to Home Assistant: HomeAssistantWebSocket of   *)
(* ha_gateway/protocol/websocket.py, an asyncio program.                   *)
(*                                                                         *)
(* Its tasks are the start-up code and the reconnect task, which both run  *)
(* connect(); one reader (_process_messages) for each connection that was  *)
(* opened; one _post_auth_setup for each auth_ok; the callers of           *)
(* send_command; and disconnect().  One action is what a task does between *)
(* two suspensions.  A send does not suspend: the transport is assumed     *)
(* never to be paused, so that a frame leaves when send_json is called.    *)
(*                                                                         *)
(* Connections are numbered in the order they are opened.  A frame from    *)
(* Home Assistant is decided on when it is read: nobody can tell an answer *)
(* that is on its way from one that has not been given.  Events are left   *)
(* out, the state manager has them.                                        *)
(***************************************************************************)
EXTENDS Naturals, FiniteSets

CONSTANTS
    Calls,           \* callers of send_command, one command each
    Pings,           \* those of them that call ping()
    MaxSockets,      \* bound: connections that are opened
    MaxAttempts,     \* performance.max_reconnect_attempts
    MaxAuthTimeouts, \* bound: times the authentication takes longer than 10 s
    MaxId,           \* bound: ids of commands
    MayStop          \* TRUE: disconnect() may be called

Sockets == 1 .. MaxSockets

ASSUME CallsAssumption == Calls \cap Nat = {} /\ Pings \subseteq Calls

ASSUME BoundsAssumption ==
    /\ MaxSockets \in Nat \ {0} /\ MaxAttempts \in Nat \ {0}
    /\ MaxAuthTimeouts \in Nat /\ MaxId \in Nat /\ MayStop \in BOOLEAN

VARIABLES
    sock,        \* each connection: "new", "open" or "closed"
    ha,          \* what it expects: "greet", "judge", "ready" or "refused"
    asked,       \* commands Home Assistant has not answered, per connection
    lastOn,      \* the last id used on each connection
    misnumbered, \* connections on which an id was not higher than the last
    subscribed,  \* connections with a subscription to the state changes
    connected,   \* self.connected
    authOK,      \* self._auth_complete
    authEvent,   \* self._auth_event
    ws,          \* self.websocket, 0 before the first connection
    lastId,      \* self._message_id
    handlers,    \* self.message_handlers: <<id, task that waits for it>>
    statesKnown, \* self._initial_states is not empty
    boot,        \* where start-up is in connect()
    rc,          \* where the reconnect task is
    attempt,     \* its loop counter
    timeouts,    \* authentications that have timed out so far
    reader,      \* connection each reader waits for, 0 when it does not run
    task,        \* callers of send_command and set-ups after authentication
    down         \* where disconnect() is

wire == <<asked, lastOn, misnumbered, subscribed>>
network == <<sock, ha, wire>>
flags == <<connected, authOK, authEvent>>
connecting == <<boot, rc, attempt, timeouts>>
vars == <<network, flags, ws, lastId, handlers, statesKnown, connecting,
          reader, task, down>>
-----------------------------------------------------------------------------
\* A set-up is named after the connection whose auth_ok started it.
Tasks == Calls \union Sockets

\* "registry" stands for the two registry lists, fetched one after the other in
\* the same way.
Commands == {"command", "ping", "registry", "subscribe", "states"}

Task == [step : {"idle", "sending", "waiting", "ended"},
         what : Commands \union {"none"}, id : Nat, end : {"none", "ok", "failed"}]

Request == [id : Nat, what : Commands]

ConnectSteps == {"opening", "auth_wait", "woken"}
Running == {"sleep"} \union ConnectSteps

TypeOK ==
    /\ sock \in [Sockets -> {"new", "open", "closed"}]
    /\ ha \in [Sockets -> {"greet", "judge", "ready", "refused"}]
    /\ asked \in [Sockets -> SUBSET Request]
    /\ lastOn \in [Sockets -> Nat]
    /\ misnumbered \subseteq Sockets /\ subscribed \subseteq Sockets
    /\ connected \in BOOLEAN /\ authOK \in BOOLEAN /\ authEvent \in BOOLEAN
    /\ ws \in 0 .. MaxSockets
    /\ lastId \in Nat
    /\ handlers \subseteq Nat \X Tasks
    /\ statesKnown \in BOOLEAN
    /\ boot \in ConnectSteps \union {"up", "failed"}
    /\ rc \in Running \union {"none", "done", "gave_up"}
    /\ attempt \in 0 .. MaxAttempts
    /\ timeouts \in 0 .. MaxAuthTimeouts
    /\ reader \in [Sockets -> 0 .. MaxSockets]
    /\ task \in [Tasks -> Task]
    /\ down \in {"no", "closing", "cancelling", "closed"}

Init ==
    /\ sock = [s \in Sockets |-> "new"]
    /\ ha = [s \in Sockets |-> "greet"]
    /\ asked = [s \in Sockets |-> {}] /\ lastOn = [s \in Sockets |-> 0]
    /\ misnumbered = {} /\ subscribed = {}
    /\ connected = FALSE /\ authOK = FALSE /\ authEvent = FALSE
    /\ ws = 0 /\ lastId = 0 /\ handlers = {} /\ statesKnown = FALSE
    /\ boot = "opening" /\ rc = "none" /\ attempt = 0 /\ timeouts = 0
    /\ reader = [s \in Sockets |-> 0]
    /\ task = [t \in Tasks |->
                 [step |-> IF t \in Calls THEN "sending" ELSE "idle",
                  what |-> IF t \in Pings THEN "ping" ELSE IF t \in Calls THEN "command" ELSE "none",
                  id |-> 0, end |-> "none"]]
    /\ down = "no"
-----------------------------------------------------------------------------
(***************************************************************************)
(* send_command                                                            *)
(***************************************************************************)
\* A bug: a registry request that fails ends the set-up.
RegistryUnguarded(end) == end = "ok"

\* fetch_entity_registry and fetch_device_registry swallow every exception but
\* a cancellation.
RegistryGuarded(end) == end # "cancelled"

\* _post_auth_setup: what a set-up sends after `what' has ended.
NextCommand(t, what, end) ==
    CASE t \in Calls -> "none"
      [] t \in Sockets /\ what = "registry" /\ RegistryGuarded(end) -> "subscribe"
      [] t \in Sockets /\ what = "subscribe" /\ end = "ok" /\ ~statesKnown -> "states"
      [] OTHER -> "none"

\* When start-up fails the process ends.
Alive == boot # "failed"

\* The task goes on: with its next command, or it is over.
Resumed(t, end) ==
    LET next == NextCommand(t, task[t].what, end) IN
    IF next = "none"
    THEN [task[t] EXCEPT !.step = "ended", !.id = 0,
                         !.end = IF end = "ok" THEN "ok" ELSE "failed"]
    ELSE [task[t] EXCEPT !.step = "sending", !.what = next, !.id = 0]

\* No handler is left under this id.
Without(id) == {h \in handlers : h[1] # id}

\* A frame with an id leaves on the current connection.
Numbered(id) ==
    /\ lastOn' = [lastOn EXCEPT ![ws] = id]
    /\ misnumbered' = IF id > lastOn[ws] THEN misnumbered ELSE misnumbered \union {ws}

Refuse(t) ==
    /\ Alive /\ task[t].step = "sending" /\ ~(connected /\ authOK)
    /\ task' = [task EXCEPT ![t] = Resumed(t, "refused")]
    /\ UNCHANGED <<network, flags, ws, lastId, handlers, statesKnown, connecting,
                   reader, down>>

\* The connection has gone, the reader has not noticed: send_json raises.
SendFails(t) ==
    /\ Alive /\ task[t].step = "sending" /\ connected /\ authOK /\ sock[ws] = "closed"
    /\ lastId < MaxId /\ lastId' = lastId + 1
    /\ task' = [task EXCEPT ![t] = Resumed(t, "error")]
    /\ UNCHANGED <<network, flags, ws, handlers, statesKnown, connecting,
                   reader, down>>

Send(t) ==
    /\ Alive /\ task[t].step = "sending" /\ connected /\ authOK /\ sock[ws] = "open"
    /\ lastId < MaxId /\ lastId' = lastId + 1
    /\ handlers' = Without(lastId') \union {<<lastId', t>>}
    /\ Numbered(lastId')
    /\ asked' = [asked EXCEPT ![ws] = @ \union {[id |-> lastId', what |-> task[t].what]}]
    /\ subscribed' = IF task[t].what = "subscribe" THEN subscribed \union {ws} ELSE subscribed
    /\ task' = [task EXCEPT ![t] = [@ EXCEPT !.step = "waiting", !.id = lastId']]
    /\ UNCHANGED <<sock, ha, flags, ws, statesKnown, connecting, reader, down>>

\* A bug: only a call that is still in the table of handlers is timed.
TimedIfRegistered(t) == <<task[t].id, t>> \in handlers

Timed(t) == TRUE

\* No answer within 30 seconds.
Timeout(t) ==
    /\ Alive /\ task[t].step = "waiting" /\ Timed(t)
    /\ handlers' = Without(task[t].id)
    /\ task' = [task EXCEPT ![t] = Resumed(t, "timeout")]
    /\ UNCHANGED <<network, flags, ws, lastId, statesKnown, connecting,
                   reader, down>>

(***************************************************************************)
(* connect(), in start-up and in the reconnect task                        *)
(***************************************************************************)
AttemptsLeft(n) == n < MaxAttempts

\* The next attempt of the loop in _reconnect, or its end.
FailedAttempt ==
    /\ attempt' = attempt + 1
    /\ rc' = IF AttemptsLeft(attempt + 1) THEN "sleep" ELSE "gave_up"

OpenSocket ==
    /\ ws < MaxSockets
    /\ ws' = ws + 1
    /\ sock' = [sock EXCEPT ![ws'] = "open"]
    /\ reader' = [reader EXCEPT ![ws'] = ws']
    /\ connected' = TRUE
    /\ UNCHANGED <<ha, wire, authOK, authEvent, lastId, handlers,
                   statesKnown, timeouts, task, down>>

\* The event may still be set: then connect() does not wait for this connection.
AfterOpen == IF authEvent THEN "woken" ELSE "auth_wait"

BootOpen == boot = "opening" /\ OpenSocket /\ boot' = AfterOpen /\ UNCHANGED <<rc, attempt>>
ReconnectOpen ==
    /\ Alive /\ rc = "opening"
    /\ OpenSocket /\ rc' = AfterOpen /\ UNCHANGED <<boot, attempt>>


ConnectFails ==
    /\ connected' = FALSE
    /\ UNCHANGED <<network, authOK, authEvent, ws, lastId, handlers, statesKnown,
                   reader, task, down>>

BootFails ==
    /\ boot = "opening" /\ boot' = "failed"
    /\ ConnectFails /\ UNCHANGED <<rc, attempt, timeouts>>

ReconnectFails ==
    /\ Alive /\ rc = "opening" /\ FailedAttempt
    /\ ConnectFails /\ UNCHANGED <<boot, timeouts>>

\* _wait_for_auth gives up after 10 seconds.  The socket and its reader stay.
AuthTimeout ==
    /\ Alive /\ timeouts < MaxAuthTimeouts /\ timeouts' = timeouts + 1
    /\ \/ boot = "auth_wait" /\ boot' = "failed" /\ UNCHANGED <<rc, attempt>>
       \/ rc = "auth_wait" /\ FailedAttempt /\ UNCHANGED boot
    /\ ConnectFails

\* A connector that the event has woken returns from connect().
Woken ==
    /\ Alive
    /\ \/ boot = "woken" /\ boot' = "up" /\ UNCHANGED rc
       \/ rc = "woken" /\ rc' = "done" /\ UNCHANGED boot
    /\ UNCHANGED <<network, flags, ws, lastId, handlers, statesKnown, attempt, timeouts,
                   reader, task, down>>

\* A bug: with a new connection the ids start over.
StartOver == handlers' = {} /\ lastId' = 0

\* Those that wait are not told.
DropHandlers == handlers' = {} /\ UNCHANGED lastId

\* _reconnect after its sleep: the table of handlers is emptied, then connect().
Retry ==
    /\ Alive /\ rc = "sleep" /\ DropHandlers
    /\ rc' = IF connected THEN "done" ELSE "opening"
    /\ UNCHANGED <<network, flags, ws, statesKnown, boot, attempt, timeouts,
                   reader, task, down>>

(***************************************************************************)
(* _process_messages                                                       *)
(***************************************************************************)
\* Bugs: a flag survives the connection.
StaysConnected == UNCHANGED connected /\ authOK' = FALSE
StaysAuthenticated == connected' = FALSE /\ UNCHANGED authOK

ClearFlags == connected' = FALSE /\ authOK' = FALSE

ReaderEnds(r) == reader' = [reader EXCEPT ![r] = 0]

\* The end of a reader, whichever connection it was reading.  A reconnect task
\* that has not returned yet is not started again.
Teardown(r, reconnecting) ==
    /\ ReaderEnds(r)
    /\ ClearFlags /\ authEvent' = FALSE
    /\ IF reconnecting \in Running THEN rc' = reconnecting /\ UNCHANGED attempt
                                   ELSE rc' = "sleep" /\ attempt' = 0

\* A second receive() on a connection raises.
Busy(r) == \E q \in Sockets \ {r} : reader[q] = ws

\* A frame has been handled without an exception: on to receive() on what is
\* now the current connection, if the loop goes on.
LoopAgain(r, ok, event, reconnecting) ==
    IF ~connected \/ Busy(r) THEN Teardown(r, reconnecting)
    ELSE /\ reader' = [reader EXCEPT ![r] = ws]
         /\ authOK' = ok /\ authEvent' = event /\ rc' = reconnecting
         /\ UNCHANGED <<connected, attempt>>

\* The reader waits for a connection that is up, and Home Assistant is here in
\* the conversation on it.
Expects(r, stage) == Alive /\ reader[r] # 0 /\ sock[reader[r]] = "open" /\ ha[reader[r]] = stage

\* event.set(): a connector that waits goes on, whatever happens to the flag next.
Wake(step) == IF step = "auth_wait" THEN "woken" ELSE step

\* auth_required: the token goes out on the current connection.
ReadAuthRequired(r) ==
    /\ Expects(r, "greet")
    /\ IF sock[ws] = "open"
       THEN /\ ha' = [ha EXCEPT ![ws] = IF @ = "greet" THEN "judge" ELSE @]
            /\ LoopAgain(r, authOK, authEvent, rc)
       ELSE UNCHANGED ha /\ Teardown(r, rc)
    /\ UNCHANGED <<sock, wire, ws, lastId, handlers, statesKnown, boot, timeouts,
                   task, down>>

\* A bug: the id of the coalescing request is not used up.
SameId == UNCHANGED lastId

NewId == lastId' = lastId + 1

\* The flags, the coalescing request on the current connection, a set-up.
ReadAuthOk(r) ==
    /\ Expects(r, "judge")
    /\ ha' = [ha EXCEPT ![reader[r]] = "ready"]
    /\ boot' = Wake(boot)
    /\ LoopAgain(r, TRUE, TRUE, Wake(rc))
    /\ IF sock[ws] = "open"
       THEN NewId /\ Numbered(lastId + 1)
       ELSE UNCHANGED <<lastId, lastOn, misnumbered>>
    /\ task' = [task EXCEPT ![reader[r]] = [@ EXCEPT !.step = "sending", !.what = "registry"]]
    /\ UNCHANGED <<sock, asked, subscribed, ws, handlers, statesKnown, timeouts,
                   down>>

\* connect() returns as if authentication had succeeded.
ReadAuthInvalid(r) ==
    /\ Expects(r, "judge")
    /\ ha' = [ha EXCEPT ![reader[r]] = "refused"]
    /\ boot' = Wake(boot)
    /\ Teardown(r, Wake(rc))
    /\ UNCHANGED <<sock, wire, ws, lastId, handlers, statesKnown, timeouts,
                   task, down>>

\* Home Assistant answers m.  The answer to the coalescing request is left out:
\* nobody waits for it.
Answered(r, m) ==
    /\ Expects(r, "ready") /\ m \in asked[reader[r]]
    /\ asked' = [asked EXCEPT ![reader[r]] = @ \ {m}]
    /\ LoopAgain(r, authOK, authEvent, rc)
    /\ UNCHANGED <<sock, ha, lastOn, misnumbered, subscribed, ws, lastId, boot,
                   timeouts, down>>

\* _handle_result, _handle_error: the caller is looked up by the id.
ReadAnswer(r, m, end) ==
    LET mine == {t \in Tasks : <<m.id, t>> \in handlers /\ task[t].step = "waiting"} IN
    /\ m.what # "ping"
    /\ Answered(r, m)
    /\ handlers' = Without(m.id)
    /\ task' = [t \in Tasks |-> IF t \in mine THEN Resumed(t, end) ELSE task[t]]
    /\ statesKnown' = (statesKnown \/
                          (end = "ok" /\ \E t \in mine : task[t].what = "states"))

\* A pong is logged, no more.
ReadPong(r, m) ==
    /\ m.what = "ping"
    /\ Answered(r, m)
    /\ UNCHANGED <<handlers, task, statesKnown>>

\* CLOSED or CLOSING.
ReadClosed(r) ==
    /\ Alive /\ reader[r] # 0 /\ sock[reader[r]] = "closed"
    /\ Teardown(r, rc)
    /\ UNCHANGED <<sock, ha, wire, ws, lastId, handlers, statesKnown, boot, timeouts,
                   task, down>>

(***************************************************************************)
(* disconnect()                                                            *)
(***************************************************************************)
Disconnect ==
    /\ MayStop /\ boot = "up" /\ down = "no"
    /\ connected' = FALSE
    /\ rc' = IF rc \in Running THEN "done" ELSE rc
    /\ down' = "closing"
    /\ UNCHANGED <<network, authOK, authEvent, ws, lastId, handlers, statesKnown,
                   boot, attempt, timeouts, reader, task>>

\* Home Assistant forgets what belongs to the connection.
CloseEnd(s) ==
    /\ sock' = [sock EXCEPT ![s] = "closed"]
    /\ asked' = [asked EXCEPT ![s] = {}]
    /\ lastOn' = [lastOn EXCEPT ![s] = 0]
    /\ subscribed' = subscribed \ {s}

CloseSocket ==
    /\ down = "closing" /\ down' = "cancelling"
    /\ CloseEnd(ws)
    /\ UNCHANGED <<ha, misnumbered, flags, ws, lastId, handlers, statesKnown, connecting,
                   reader, task>>

\* Every future that is still registered is cancelled, and stays registered.
CancelAll ==
    /\ down = "cancelling" /\ down' = "closed"
    /\ task' = [t \in Tasks |->
                   IF task[t].step = "waiting" /\ <<task[t].id, t>> \in handlers
                   THEN Resumed(t, "cancelled") ELSE task[t]]
    /\ UNCHANGED <<network, flags, ws, lastId, handlers, statesKnown, connecting,
                   reader>>

\* The connection breaks, or Home Assistant closes it.
Lose(s) ==
    /\ Alive /\ sock[s] = "open" /\ (s = ws \/ \E r \in Sockets : reader[r] = s)
    /\ CloseEnd(s)
    /\ UNCHANGED <<ha, misnumbered, flags, ws, lastId, handlers, statesKnown, connecting,
                   reader, task, down>>
-----------------------------------------------------------------------------
Command(t) == Refuse(t) \/ SendFails(t) \/ Send(t) \/ Timeout(t)

Hear(r) == \/ ReadAuthRequired(r) \/ ReadAuthOk(r) \/ ReadAuthInvalid(r) \/ ReadClosed(r)

Converse(r) ==
    \E s \in Sockets : \E m \in asked[s] :
        ReadPong(r, m) \/ \E end \in {"ok", "error"} : ReadAnswer(r, m, end)

Connect == \/ BootOpen \/ BootFails \/ ReconnectOpen \/ ReconnectFails
           \/ AuthTimeout \/ Woken \/ Retry

Stop == Disconnect \/ CloseSocket \/ CancelAll

Next == \/ \E t \in Tasks : Command(t)
        \/ \E r \in Sockets : Hear(r) \/ Converse(r) \/ Lose(r)
        \/ Connect \/ Stop

Spec == Init /\ [][Next]_vars

\* The event loop runs every task that can run, and its timers fire.
FairSpec == /\ Spec
            /\ \A t \in Tasks : WF_vars(Command(t))
            /\ \A r \in Sockets : WF_vars(Hear(r))
            /\ WF_vars(Connect)
-----------------------------------------------------------------------------
\* Home Assistant's rule for the ids on a connection: each is higher than the one
\* before, whichever tasks send, across reconnections and the coalescing request
\* that goes out beside send_command.
IdsIncrease == misnumbered = {}

\* Every reader but one is what an authentication that timed out has left behind.
ReadersBounded == Cardinality({r \in Sockets : reader[r] # 0}) <= timeouts + 1

Waits(t) == task[t].step = "waiting"

\* An answer that is still to come finds one caller at most, and one that has sent
\* the very request: no id comes back, however the connections, the timeouts and
\* the table of handlers that a reconnection empties come and go.
AnswersGetBack ==
    /\ \A t, u \in Tasks : Waits(t) /\ Waits(u) /\ task[t].id = task[u].id => t = u
    /\ \A s \in Sockets : \A m \in asked[s] : \A t \in Tasks :
           Waits(t) /\ task[t].id = m.id => task[t].what = m.what

ConnectionSound == TypeOK /\ ReadersBounded /\ AnswersGetBack

\* As long as no authentication has timed out, nobody reads but the reader of the
\* current connection, and it does whenever the gateway takes itself to be
\* connected.
ReaderIsCurrent ==
    timeouts = 0 => /\ \A r \in Sockets : reader[r] # 0 => r = ws /\ reader[r] = ws
                    /\ connected => \E r \in Sockets : reader[r] = ws

\* As long as no authentication has timed out, Home Assistant gets commands
\* only on connections on which it has accepted the token.
CommandsAfterAuth == timeouts = 0 => \A s \in Sockets : lastOn[s] > 0 => ha[s] = "ready"

\* Every caller of send_command gets a result or an exception.
EveryCallEnds ==
    \A c \in Calls : task[c].step = "waiting" ~> (task[c].step = "ended" \/ boot = "failed")

\* A connection that stays up, and is not to be closed, is subscribed to the
\* state changes in the end, even when Home Assistant refuses or ignores the
\* registry requests before it.
StableIsSubscribed ==
    \A s \in Sockets : <>[](authOK /\ ws = s /\ down = "no") => <>(s \in subscribed)
-----------------------------------------------------------------------------
\* Before the first connection nothing is up, and nobody reads.
NothingBeforeFirst == ws = 0 => ~connected /\ \A r \in Sockets : reader[r] = 0

\* No connection has seen an id that the counter has not reached.
CounterAhead == \A s \in Sockets : lastOn[s] <= lastId

\* What IdsIncrease rests on.
IdsInv ==
    /\ ws \in 0 .. MaxSockets /\ lastId \in Nat
    /\ lastOn \in [Sockets -> Nat] /\ reader \in [Sockets -> 0 .. MaxSockets]
    /\ NothingBeforeFirst /\ CounterAhead /\ IdsIncrease

\* What ReaderIsCurrent and CommandsAfterAuth rest on: while a connection is being
\* sought there is no reader, and the flags are down.
Seeking == boot = "opening" \/ rc \in {"sleep", "opening"}

NobodyReadsWhileSeeking ==
    /\ Seeking => ~connected /\ ~authOK /\ \A r \in Sockets : reader[r] = 0
    /\ boot = "opening" => rc = "none" /\ ws = 0

OrderInv ==
    /\ IdsInv
    /\ sock \in [Sockets -> {"new", "open", "closed"}]
    /\ ha \in [Sockets -> {"greet", "judge", "ready", "refused"}]
    /\ timeouts \in Nat
    /\ timeouts = 0 => /\ NobodyReadsWhileSeeking
                       /\ authOK => ws \in Sockets /\ ha[ws] = "ready"
    /\ ReaderIsCurrent /\ CommandsAfterAuth

\* What AnswersGetBack rests on: what is waited for, or not answered yet, has an id
\* the counter has reached.
IdsApart ==
    /\ AnswersGetBack
    /\ \A t \in Tasks : Waits(t) => task[t].id <= lastId
    /\ \A s \in Sockets : \A m \in asked[s] : m.id <= lastId
    /\ \A t \in Tasks : task[t].step = "sending" => task[t].what # "none"

\* ... and the types: a reconnect task that runs has an attempt left.
CallersInv ==
    /\ IdsInv /\ TypeOK /\ IdsApart
    /\ rc \in Running => AttemptsLeft(attempt)
=============================================================================

------------------------------- MODULE KnxLink -------------------------------
(***************************************************************************)
(* KNXIntegration of ha_gateway/knx_integration.py, and the two callers of *)
(* it: the reader of Home Assistant's connection, which server.py makes    *)
(* queue a state and register the device twice for every event of one KNX  *)
(* compatible device, and the device discovery at start-up.                *)
(*                                                                         *)
(* An action is what a task does between two suspensions.  Sending may     *)
(* suspend.  The states are numbered in the order of the events.           *)
(***************************************************************************)
EXTENDS Naturals, Sequences

CONSTANTS
    BatchSize,   \* performance.batch_size
    Delay,       \* performance.batch_delay is not zero
    QueueSize,   \* maxsize of sync_queue
    PerEvent,    \* registrations made for an event: 2 in server.py
    MaxAttempts, \* attempts of connect_to_knx_gateway
    MaxEvents,   \* bound: events of the device
    MaxFaults    \* bound: lost connections and messages that are no JSON

ASSUME SizesAssumption ==
    /\ BatchSize \in Nat \ {0} /\ QueueSize \in Nat \ {0} /\ MaxAttempts \in Nat \ {0}
    /\ PerEvent \in Nat \ {0} /\ Delay \in BOOLEAN /\ MaxEvents \in Nat /\ MaxFaults \in Nat

VARIABLES
    link,      \* the connection to the KNX gateway is up
    asked,     \* registrations the KNX gateway has not answered
    wire,      \* messages on their way to the listener, and the end of the connection
    faults,
    connected, \* self.connected
    listener,  \* _listen_to_knx_gateway runs
    connector, \* connect_to_knx_gateway: who runs it, and its failed attempts
    queue,     \* sync_queue
    consumer,  \* _process_sync_queue
    pending,   \* pending_responses
    counter,   \* registrations made, for their ids
    mapped,    \* device_mappings has the device
    tasks,     \* where the reader and the discovery are
    event,     \* the event the reader has read last
    sent       \* history: the states sent to the KNX gateway

Tasks == {"reader", "discovery"}
gateway == <<link, asked, wire, faults>>
connection == <<connected, listener, connector>>
vars == <<gateway, connection, queue, consumer, pending, counter, mapped, tasks, event, sent>>
-----------------------------------------------------------------------------
Ids == 0 .. PerEvent * MaxEvents
Message == [what : {"assigned", "error", "garbage", "orderly", "broken"}, id : Ids]

\* left: registrations a task still has to make.
Task == [pc : {"idle", "putting", "registering", "sending", "waiting"},
         left : 0 .. PerEvent, id : Ids]

TypeOK ==
    /\ link \in BOOLEAN /\ connected \in BOOLEAN /\ listener \in BOOLEAN /\ mapped \in BOOLEAN
    /\ asked \subseteq Ids /\ pending \subseteq Ids
    /\ wire \in Seq(Message)
    /\ faults \in 0 .. MaxFaults
    /\ connector \in [pc : {"boot", "none", "sleeping", "trying"}, failed : 0 .. MaxAttempts]
    /\ queue \in Seq(1 .. MaxEvents) /\ Len(queue) <= QueueSize
    /\ consumer \in [pc : {"new", "waiting", "sending", "ended"},
                     batch : Seq(1 .. MaxEvents)]
    /\ counter \in 0 .. PerEvent * MaxEvents + 1
    /\ tasks \in [Tasks -> Task]
    /\ event \in 0 .. MaxEvents
    /\ sent \in Seq(1 .. MaxEvents)

Init ==
    /\ link = FALSE /\ asked = {} /\ wire = <<>> /\ faults = 0
    /\ connected = FALSE /\ listener = FALSE
    /\ connector = [pc |-> "boot", failed |-> 0]
    /\ queue = <<>> /\ consumer = [pc |-> "new", batch |-> <<>>]
    /\ pending = {} /\ counter = 0 /\ mapped = FALSE
    /\ tasks = [t \in Tasks |-> [pc |-> "idle", left |-> IF t = "discovery" THEN 1 ELSE 0, id |-> 0]]
    /\ event = 0 /\ sent = <<>>
-----------------------------------------------------------------------------
(***************************************************************************)
(* The KNX gateway and the network                                         *)
(***************************************************************************)
Reply(id) ==
    /\ link /\ id \in asked
    /\ asked' = asked \ {id}
    /\ \E what \in {"assigned", "error"} : wire' = Append(wire, [what |-> what, id |-> id])
    /\ UNCHANGED <<link, faults, connection, queue, consumer, pending, counter, mapped, tasks,
                   event, sent>>

Garble ==
    /\ link /\ faults < MaxFaults /\ faults' = faults + 1
    /\ wire' = Append(wire, [what |-> "garbage", id |-> 0])
    /\ UNCHANGED <<link, asked, connection, queue, consumer, pending, counter, mapped, tasks,
                   event, sent>>

\* Closed by the KNX gateway, or broken; what has arrived is still read.
Lose ==
    /\ link /\ faults < MaxFaults /\ faults' = faults + 1
    /\ link' = FALSE /\ asked' = {}
    /\ \E n \in 0 .. Len(wire), how \in {"orderly", "broken"} :
          wire' = Append(SubSeq(wire, 1, n), [what |-> how, id |-> 0])
    /\ UNCHANGED <<connection, queue, consumer, pending, counter, mapped, tasks, event, sent>>
-----------------------------------------------------------------------------
(***************************************************************************)
(* Connecting                                                              *)
(***************************************************************************)
\* initialize() goes on when the first attempts have ended.
AfterBoot(up) ==
    consumer' = IF connector.pc # "boot" THEN consumer
                ELSE [consumer EXCEPT !.pc = IF up THEN "waiting" ELSE "ended"]

\* A bug: connected is set before hello is sent, which may raise.
ConnectedFirst ==
    /\ connector.pc \in {"boot", "trying"}
    /\ connected' = TRUE /\ listener' \in BOOLEAN /\ link' = listener'
    /\ wire' = <<>>
    /\ connector' = [connector EXCEPT !.pc = "none"]
    /\ AfterBoot(TRUE)
    /\ UNCHANGED <<asked, faults, queue, pending, counter, mapped, tasks, event, sent>>

Connect ==
    /\ connector.pc \in {"boot", "trying"}
    /\ link' = TRUE /\ wire' = <<>>
    /\ connected' = TRUE /\ listener' = TRUE
    /\ connector' = [connector EXCEPT !.pc = "none"]
    /\ AfterBoot(TRUE)
    /\ UNCHANGED <<asked, faults, queue, pending, counter, mapped, tasks, event, sent>>

\* A timeout, a refusal, or a hello that is not sent.
FailToConnect ==
    /\ connector.pc \in {"boot", "trying"}
    /\ IF connector.failed + 1 < MaxAttempts
       THEN connector' = [connector EXCEPT !.failed = @ + 1] /\ UNCHANGED consumer
       ELSE /\ connector' = [pc |-> "none", failed |-> MaxAttempts]
            /\ AfterBoot(FALSE)
    /\ UNCHANGED <<gateway, connected, listener, queue, pending, counter, mapped, tasks, event,
                   sent>>

\* The sleep of _reconnect is over.
TryAgain ==
    /\ connector.pc = "sleeping"
    /\ connector' = [pc |-> "trying", failed |-> 0]
    /\ UNCHANGED <<gateway, connected, listener, queue, consumer, pending, counter, mapped,
                   tasks, event, sent>>
-----------------------------------------------------------------------------
(***************************************************************************)
(* The listener                                                            *)
(***************************************************************************)
\* A task whose registration has ended: its next one, or the end.
NextOne(task) ==
    IF task.left > 1 THEN [task EXCEPT !.pc = "registering", !.left = @ - 1]
    ELSE [task EXCEPT !.pc = "idle", !.left = 0]

\* A task that waits for this answer; one that has given up waits no more.
Waiter(t, id) == tasks[t].pc = "waiting" /\ tasks[t].id = id

Resolve(id) ==
    /\ pending' = pending \ {id}
    /\ tasks' = [t \in Tasks |-> IF id \in pending /\ Waiter(t, id)
                                 THEN NextOne(tasks[t]) ELSE tasks[t]]

Listen ==
    /\ listener /\ wire # <<>> /\ Head(wire).what \in {"assigned", "error"}
    /\ wire' = Tail(wire)
    /\ mapped' = (mapped \/ Head(wire).what = "assigned")
    /\ Resolve(Head(wire).id)
    /\ UNCHANGED <<link, asked, faults, connection, queue, consumer, counter, event, sent>>

\* A bug: the task to reconnect is made only when none has run yet.
OnceOnly == IF connector.failed = 0 THEN [pc |-> "sleeping", failed |-> 0] ELSE connector

Reconnecting == [pc |-> "sleeping", failed |-> 0]

\* Only a connection that broke is made again; one that was closed, or an
\* exception on the way, just ends the listener.
StopListening ==
    /\ listener /\ wire # <<>> /\ Head(wire).what \in {"garbage", "orderly", "broken"}
    /\ wire' = Tail(wire)
    /\ listener' = FALSE
    /\ IF Head(wire).what = "broken"
       THEN connected' = FALSE /\ connector' = Reconnecting
       ELSE UNCHANGED <<connected, connector>>
    /\ UNCHANGED <<link, asked, faults, queue, consumer, pending, counter, mapped, tasks, event,
                   sent>>
-----------------------------------------------------------------------------
(***************************************************************************)
(* request_knx_address                                                     *)
(***************************************************************************)
Goes(t, pc) == tasks' = [tasks EXCEPT ![t].pc = pc]

Done(t) == tasks' = [tasks EXCEPT ![t] = NextOne(tasks[t])]

NextId == counter + 1

\* The id is taken, the request is sent; the send may suspend, and then the
\* answer is not yet waited for.
Register(t) ==
    /\ tasks[t].pc = "registering"
    /\ IF ~connected
       THEN Done(t) /\ UNCHANGED <<asked, pending, counter>>
       ELSE /\ counter' = NextId
            /\ IF ~link
               THEN Done(t) /\ UNCHANGED <<asked, pending>>
               ELSE /\ asked' = asked \union {counter}
                    /\ \/ /\ tasks' = [tasks EXCEPT ![t].pc = "waiting", ![t].id = counter]
                          /\ pending' = pending \union {counter}
                       \/ /\ tasks' = [tasks EXCEPT ![t].pc = "sending", ![t].id = counter]
                          /\ UNCHANGED pending
    /\ UNCHANGED <<link, wire, faults, connection, queue, consumer, mapped, event, sent>>

Sending(t) ==
    /\ tasks[t].pc = "sending"
    /\ \/ Goes(t, "waiting") /\ pending' = pending \union {tasks[t].id}
       \/ ~link /\ Done(t) /\ UNCHANGED pending
    /\ UNCHANGED <<gateway, connection, queue, consumer, counter, mapped, event, sent>>

\* A bug: no timeout while the connection is up.
TimesOut(t) == ~link

MayTimeOut(t) == TRUE

\* The outer of the two timeouts leaves the entry in pending_responses.
GiveUp(t) ==
    /\ tasks[t].pc = "waiting" /\ MayTimeOut(t)
    /\ Done(t)
    /\ pending' \in {pending, pending \ {tasks[t].id}}
    /\ UNCHANGED <<gateway, connection, queue, consumer, counter, mapped, event, sent>>
-----------------------------------------------------------------------------
(***************************************************************************)
(* The callers                                                             *)
(***************************************************************************)
Discover ==
    /\ connector.pc # "boot" /\ tasks["discovery"] = [pc |-> "idle", left |-> 1, id |-> 0]
    /\ Goes("discovery", "registering")
    /\ UNCHANGED <<gateway, connection, queue, consumer, pending, counter, mapped, event, sent>>

\* _on_state_change, then _on_device_change.
ReadEvent ==
    /\ connector.pc # "boot" /\ event < MaxEvents /\ tasks["reader"].pc = "idle"
    /\ event' = event + 1
    /\ tasks' = [tasks EXCEPT !["reader"].left = PerEvent,
                              !["reader"].pc = IF mapped /\ connected THEN "putting"
                                               ELSE "registering"]
    /\ UNCHANGED <<gateway, connection, queue, consumer, pending, counter, mapped, sent>>

HasRoom == Len(queue) < QueueSize

\* await sync_queue.put: it waits for a free place.
Put ==
    /\ tasks["reader"].pc = "putting" /\ HasRoom
    /\ queue' = Append(queue, event)
    /\ Goes("reader", "registering")
    /\ UNCHANGED <<gateway, connection, consumer, pending, counter, mapped, event, sent>>
-----------------------------------------------------------------------------
(***************************************************************************)
(* _process_sync_queue                                                     *)
(***************************************************************************)
\* The head of the loop: what is left in the batch is lost with the connection.
Loop(batch) == [pc |-> IF connected THEN "waiting" ELSE "ended", batch |-> batch]

\* _send_sync_batch, with what is to be done after it.
Dispatch(batch) ==
    IF connected \/ Delay
    THEN [pc |-> "sending", batch |-> IF connected THEN batch ELSE <<>>]
    ELSE Loop(<<>>)

Take ==
    /\ consumer.pc = "waiting" /\ queue # <<>>
    /\ queue' = Tail(queue)
    /\ LET batch == Append(consumer.batch, Head(queue)) IN
       consumer' = IF Len(batch) >= BatchSize \/ Delay THEN Dispatch(batch) ELSE Loop(batch)
    /\ UNCHANGED <<gateway, connection, pending, counter, mapped, tasks, event, sent>>

\* A bug: only a full batch is sent.
KeepsBatch == Loop(consumer.batch)

Flush == IF consumer.batch = <<>> THEN Loop(<<>>) ELSE Dispatch(consumer.batch)

\* Nothing came for a second.
Tick ==
    /\ consumer.pc = "waiting" /\ queue = <<>>
    /\ consumer' = Flush
    /\ UNCHANGED <<gateway, connection, queue, pending, counter, mapped, tasks, event, sent>>

\* A bug: what is not sent is put back.
PutBack == IF Len(queue) < QueueSize THEN Append(queue, Head(consumer.batch)) ELSE queue

Unsent == queue

\* One message of the batch; one that cannot be sent is lost.
SendOne ==
    /\ consumer.pc = "sending" /\ consumer.batch # <<>>
    /\ consumer' = [consumer EXCEPT !.batch = Tail(@)]
    /\ IF link THEN sent' = Append(sent, Head(consumer.batch)) /\ UNCHANGED queue
       ELSE queue' = Unsent /\ UNCHANGED sent
    /\ UNCHANGED <<gateway, connection, pending, counter, mapped, tasks, event>>

\* All are sent, and the delay after a batch is over.
BatchDone ==
    /\ consumer.pc = "sending" /\ consumer.batch = <<>>
    /\ consumer' = Loop(<<>>)
    /\ UNCHANGED <<gateway, connection, queue, pending, counter, mapped, tasks, event, sent>>
-----------------------------------------------------------------------------
Consumer == Take \/ Tick \/ SendOne \/ BatchDone

Requesting(t) == Register(t) \/ Sending(t) \/ GiveUp(t)

Connecting == Connect \/ FailToConnect \/ TryAgain

Next ==
    \/ \E id \in Ids : Reply(id)
    \/ Garble \/ Lose
    \/ Connecting \/ Listen \/ StopListening
    \/ \E t \in Tasks : Requesting(t)
    \/ Discover \/ ReadEvent \/ Put
    \/ Consumer

Spec == Init /\ [][Next]_vars

\* The event loop runs what can run, and timers fire.
FairSpec ==
    /\ Spec
    /\ WF_vars(Connecting) /\ WF_vars(Listen \/ StopListening)
    /\ \A t \in Tasks : WF_vars(Requesting(t))
    /\ WF_vars(Put) /\ WF_vars(Consumer)
-----------------------------------------------------------------------------
\* The KNX gateway is sent the states of the device in the order of the events,
\* each at most once, whatever connections are lost in between.
SentInOrder == \A j, k \in 1 .. Len(sent) : j < k => sent[j] < sent[k]

\* While the gateway takes itself to be connected somebody listens to the KNX
\* gateway, unless the listener has met a closed connection or a wrong message.
ConnectedIsHeard == connected /\ ~listener => faults > 0

\* A connection that broke is being made again unless all attempts have failed.
NotForgotten == ~connected => connector.pc # "none" \/ connector.failed = MaxAttempts

\* Two registrations that are under way have different ids, so that an answer
\* wakes the task that asked; an answer that came too late finds nobody.
OwnAnswers ==
    \A s, t \in Tasks : Waiter(s, tasks[s].id) /\ Waiter(t, tasks[t].id)
                        /\ tasks[s].id = tasks[t].id => s = t

\* What holds of the connection between any two steps.
LinkSound == TypeOK /\ ConnectedIsHeard /\ OwnAnswers

\* As long as the consumer of the queue has not ended, the reader of Home
\* Assistant's connection comes back from KNX.
ReaderReturns ==
    []<>(consumer.pc # "ended") => (tasks["reader"].pc # "idle" ~> tasks["reader"].pc = "idle")

\* Without a fault every state that was accepted reaches the KNX gateway.
AcceptedIsSent ==
    \A n \in 1 .. MaxEvents :
        (\E k \in 1 .. Len(queue) : queue[k] = n)
            ~> (faults > 0 \/ \E k \in 1 .. Len(sent) : sent[k] = n)
=============================================================================

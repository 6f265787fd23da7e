------------------------------ MODULE StateSync ------------------------------
(***************************************************************************)
(* How the gateway's copies of the home's states follow Home Assistant:    *)
(* StateManager of ha_gateway/state_manager.py with the update_state of    *)
(* ha_gateway/device_manager.py, fed by the state_changed events and the   *)
(* get_states answers that the one reader of HaConnection takes off the    *)
(* connection, in the order Home Assistant sent them.                      *)
(*                                                                         *)
(* An answer only makes the task that waits for it ready: the reader may   *)
(* go on to the next frame before the task runs.  Tasks run in the order   *)
(* they became ready.                                                      *)
(*                                                                         *)
(* The states of an entity are numbered, 0 is no state at all.  Its value, *)
(* "on" or "off", is the number's parity; two numbers of one parity differ *)
(* in the attributes only.                                                 *)
(***************************************************************************)
EXTENDS Naturals, Sequences

CONSTANTS
    Entities,
    Hidden,     \* those of a filtered domain: their events are ignored
    Stamps,     \* those whose value looks like a point in time
    Asked,      \* entities get_state is called for, once each
    MaxState,   \* bound: states of an entity
    MaxFaults,  \* bound: lost connections and late answers
    MaxWire     \* bound: frames on their way

Askers == {"setup", "start", "sync"} \union Asked

ASSUME EntitiesAssumption ==
    /\ Hidden \subseteq Entities /\ Stamps \subseteq Entities /\ Asked \subseteq Entities
    /\ Entities \cap {"setup", "start", "sync"} = {}

ASSUME BoundsAssumption == MaxState \in Nat \ {0} /\ MaxFaults \in Nat /\ MaxWire \in Nat

VARIABLES
    home,       \* Home Assistant's states
    link,       \* the connection: "down", "up" or "subscribed"
    requests,   \* askers whose get_states Home Assistant has not answered
    wire,       \* frames on their way to the reader
    faults,     \* lost connections and late answers so far
    step,       \* where each asker is
    ready,      \* tasks whose answer has been read, in order
    initial,    \* ha_ws._initial_states
    cache,      \* StateManager.state_cache
    device,     \* DeviceManager.devices
    registered, \* DeviceManager has the callback that tells the clients
    shown       \* history: the state the clients were told last

outside == <<home, link, requests, wire, faults>>
copies == <<initial, cache, device, registered, shown>>
vars == <<outside, step, ready, copies>>
-----------------------------------------------------------------------------
State == 0 .. MaxState
States == [Entities -> State]
Nothing == [e \in Entities |-> 0]

Event == [what : {"event"}, entity : Entities, old : State, new : State]
Answer == [what : {"states", "late"}, to : Askers, states : States]

Value(s) == IF s = 0 THEN "none" ELSE IF s % 2 = 0 THEN "on" ELSE "off"

\* "start": _initial_sync, "sync": _periodic_sync, "setup": _post_auth_setup.
TypeOK ==
    /\ home \in States
    /\ link \in {"down", "up", "subscribed"}
    /\ requests \subseteq Askers
    /\ wire \in Seq(Event \union Answer)
    /\ faults \in 0 .. MaxFaults
    /\ step \in [Askers -> {"new", "asleep", "asking", "answered", "ended"}]
    /\ ready \in Seq([who : Askers, states : States])
    /\ initial \in States /\ cache \in States /\ device \in States /\ shown \in States
    /\ registered \in BOOLEAN

\* connect() has just returned.
Init ==
    /\ home = [e \in Entities |-> 1]
    /\ link = "up" /\ requests = {} /\ wire = <<>> /\ faults = 0
    /\ step = [t \in Askers |-> "new"]
    /\ ready = <<>>
    /\ initial = Nothing /\ cache = Nothing /\ device = Nothing /\ shown = Nothing
    /\ registered = FALSE
-----------------------------------------------------------------------------
(***************************************************************************)
(* Home Assistant and the connection                                       *)
(***************************************************************************)
\* Another value, or other attributes.
Change(e) ==
    \E n \in {1, 2} :
        /\ home[e] + n <= MaxState
        /\ home' = [home EXCEPT ![e] = @ + n]
        /\ \/ link # "subscribed" /\ UNCHANGED wire
           \/ /\ link = "subscribed" /\ Len(wire) < MaxWire
              /\ wire' = Append(wire, [what |-> "event", entity |-> e,
                                       old |-> home[e], new |-> home[e] + n])
        /\ UNCHANGED <<link, requests, faults, step, ready, copies>>

AnswerRequest(t) ==
    /\ t \in requests /\ Len(wire) < MaxWire
    /\ requests' = requests \ {t}
    /\ wire' = Append(wire, [what |-> "states", to |-> t, states |-> home])
    /\ UNCHANGED <<home, link, faults, step, ready, copies>>

Subscribe ==
    /\ link = "up" /\ link' = "subscribed"
    /\ UNCHANGED <<home, requests, wire, faults, step, ready, copies>>

\* The frames that have arrived are still read.
Lose ==
    /\ link # "down" /\ faults < MaxFaults
    /\ link' = "down" /\ faults' = faults + 1
    /\ requests' = {}
    /\ \E n \in 0 .. Len(wire) : wire' = SubSeq(wire, 1, n)
    /\ UNCHANGED <<home, step, ready, copies>>

\* Each connection has a set-up of its own.  The one before it finds its request
\* lost, or goes on with states that spare the new one the asking.
Reconnect ==
    /\ link = "down" /\ wire = <<>>
    /\ link' = "up"
    /\ step' = [step EXCEPT !["setup"] = IF @ = "answered" THEN @ ELSE "new"]
    /\ UNCHANGED <<home, requests, wire, faults, ready, copies>>
-----------------------------------------------------------------------------
(***************************************************************************)
(* get_states, as every asker calls it                                     *)
(***************************************************************************)
\* A bug: the loop of _periodic_sync is left when a sync fails.
SyncOnce(t) == "ended"

\* What a task does when its get_states has failed: _periodic_sync sleeps again.
AfterFailure(t) == IF t = "sync" THEN "asleep" ELSE "ended"

Ask(t) ==
    /\ IF link = "down"
       THEN /\ step' = [step EXCEPT ![t] = AfterFailure(t)]
            /\ UNCHANGED requests
       ELSE /\ step' = [step EXCEPT ![t] = "asking"]
            /\ requests' = requests \union {t}
    /\ UNCHANGED <<home, link, wire, faults, ready, copies>>

IsFor(f, t) == f.what = "states" /\ f.to = t
OnItsWay(t) == t \in requests \/ \E i \in DOMAIN wire : IsFor(wire[i], t)

\* Nothing within 30 seconds: the answer is lost, or late and nobody's.
Timeout(t) ==
    /\ step[t] = "asking"
    /\ IF OnItsWay(t) THEN faults < MaxFaults /\ faults' = faults + 1 ELSE UNCHANGED faults
    /\ requests' = requests \ {t}
    /\ wire' = [i \in 1 .. Len(wire) |->
                  IF IsFor(wire[i], t) THEN [wire[i] EXCEPT !.what = "late"] ELSE wire[i]]
    /\ step' = [step EXCEPT ![t] = AfterFailure(t)]
    /\ UNCHANGED <<home, link, ready, copies>>

ReadAnswer ==
    LET f == Head(wire) IN
    /\ wire # <<>> /\ f.what # "event"
    /\ wire' = Tail(wire)
    /\ IF f.what = "states"
       THEN /\ ready' = Append(ready, [who |-> f.to, states |-> f.states])
            /\ step' = [step EXCEPT ![f.to] = "answered"]
       ELSE UNCHANGED <<ready, step>>
    /\ UNCHANGED <<home, link, requests, faults, copies>>

(***************************************************************************)
(* DeviceManager.update_state                                              *)
(***************************************************************************)
\* A bug: the callbacks are registered before the initial sync.
ListensAtOnce == TRUE

Listening == registered

\* A bug: the new state is compared with the cache.
CacheBefore(e) == cache[e]

Before(e) == device[e]

\* The first state of a device is stored before it is compared: it tells nobody.
Tells(e, s) == Listening /\ device[e] # 0 /\ Value(Before(e)) # Value(s)

\* The states in `new' reach the device manager, one by one without a suspension.
Updated(new) ==
    /\ device' = new
    /\ shown' = [e \in Entities |-> IF Tells(e, new[e]) THEN new[e] ELSE shown[e]]

(***************************************************************************)
(* StateManager                                                            *)
(***************************************************************************)
\* start(): from here on the reader hands over events; half a second of sleep.
Start ==
    /\ step["start"] = "new"
    /\ step' = [step EXCEPT !["start"] = "asleep"]
    /\ UNCHANGED <<outside, ready, copies>>

\* _handle_state_changed: filtered domains, and points in time that have not
\* moved, go no further.
Ignored(f) ==
    \/ step["start"] = "new"
    \/ f.entity \in Hidden
    \/ f.entity \in Stamps /\ Value(f.old) = Value(f.new)

ReadEvent ==
    LET f == Head(wire) IN
    /\ wire # <<>> /\ f.what = "event"
    /\ wire' = Tail(wire)
    /\ IF Ignored(f)
       THEN UNCHANGED <<cache, device, shown>>
       ELSE /\ cache' = [cache EXCEPT ![f.entity] = f.new]
            /\ Updated([device EXCEPT ![f.entity] = f.new])
    /\ UNCHANGED <<home, link, requests, faults, step, ready, initial, registered>>

\* _initial_sync with these states, from whenever they are.
Load(states) ==
    /\ initial' = states /\ cache' = states
    /\ Updated(states)
    /\ UNCHANGED registered

LoadInitial ==
    /\ step["start"] = "asleep" /\ initial # Nothing
    /\ Load(initial)
    /\ step' = [step EXCEPT !["start"] = "ended"]
    /\ UNCHANGED <<outside, ready>>

StartAsks == step["start"] = "asleep" /\ initial = Nothing /\ Ask("start")

\* start() has returned, whatever became of the sync: the server goes on to
\* register its callback, and the periodic sync sleeps for the first time.
Register ==
    /\ step["start"] = "ended" /\ ~registered
    /\ registered' = TRUE
    /\ step' = [step EXCEPT !["sync"] = "asleep"]
    /\ UNCHANGED <<outside, ready, initial, cache, device, shown>>

SyncAsks == step["sync"] = "asleep" /\ Ask("sync")

SetupAsks ==
    /\ step["setup"] = "new" /\ link = "subscribed"
    /\ IF initial = Nothing THEN Ask("setup")
       ELSE /\ step' = [step EXCEPT !["setup"] = "ended"]
            /\ UNCHANGED <<outside, ready, copies>>

\* get_state
Get(e) ==
    /\ step[e] = "new"
    /\ IF cache[e] = 0 THEN Ask(e)
       ELSE /\ step' = [step EXCEPT ![e] = "ended"]
            /\ UNCHANGED <<outside, ready, copies>>

\* The next task that is ready has its states.
Resume ==
    LET t == Head(ready).who
        states == Head(ready).states
    IN
    /\ ready # <<>> /\ ready' = Tail(ready)
    /\ step' = [step EXCEPT ![t] = IF t = "sync" THEN "asleep" ELSE "ended"]
    /\ CASE t = "setup" -> initial' = states /\ UNCHANGED <<cache, device, registered, shown>>
         [] t = "start" -> Load(states)
         [] t = "sync"  -> cache' = states /\ UNCHANGED <<initial, device, registered, shown>>
         [] OTHER       -> /\ cache' = [cache EXCEPT ![t] = states[t]]
                           /\ UNCHANGED <<initial, device, registered, shown>>
    /\ UNCHANGED outside
-----------------------------------------------------------------------------
Reader == ReadEvent \/ ReadAnswer

Timers == Start \/ LoadInitial \/ StartAsks \/ Register \/ SyncAsks \/ SetupAsks

Next ==
    \/ \E e \in Entities : Change(e)
    \/ \E e \in Asked : Get(e)
    \/ \E t \in Askers : AnswerRequest(t) \/ Timeout(t)
    \/ Subscribe \/ Lose \/ Reconnect
    \/ Reader \/ Timers \/ Resume

Spec == Init /\ [][Next]_vars

\* The event loop runs the reader and the tasks that are ready, and the timers
\* fire.  Home Assistant answers what it has received, if not always in time.
FairSpec ==
    /\ Spec
    /\ WF_vars(Reader) /\ WF_vars(Resume)
    /\ WF_vars(Start \/ LoadInitial \/ StartAsks \/ Register)
    /\ WF_vars(SyncAsks) /\ WF_vars(SetupAsks)
    /\ WF_vars(Subscribe)
    /\ \A t \in Askers : WF_vars(AnswerRequest(t)) /\ WF_vars(Timeout(t))
-----------------------------------------------------------------------------
\* Clients are never told an older state of an entity after a newer one,
\* although the start-up and the syncs bring older states in.
ClientsInOrder == [][\A e \in Entities : shown'[e] >= shown[e]]_vars

\* Clients that have been told anything about an entity have been told the
\* value the device manager holds, whatever the syncs do to the cache.
ClientsSeeTheDevice ==
    \A e \in Entities : shown[e] # 0 => Value(shown[e]) = Value(device[e])

\* If the connection stays, the cache becomes and stays what the home is: for
\* missed, ignored and overtaken events the periodic sync makes up.
CacheConverges ==
    \A e \in Entities : <>[](link = "subscribed") => <>[](cache[e] = home[e])

-----------------------------------------------------------------------------
(***************************************************************************)
(* The inductive invariant behind ClientsInOrder and ClientsSeeTheDevice.  *)
(***************************************************************************)
\* The initial sync is over when the callback is registered; nobody has been
\* told anything before.
LoadedBeforeListening ==
    /\ registered => step["start"] = "ended"
    /\ ~registered => shown = Nothing

\* It has one request, which is with Home Assistant, on the wire or answered.
StartAsksOnce ==
    /\ "start" \in requests =>
          step["start"] = "asking" /\ \A i \in 1 .. Len(wire) : ~IsFor(wire[i], "start")
    /\ \A i \in 1 .. Len(wire) : IsFor(wire[i], "start") =>
          step["start"] = "asking" /\ \A j \in 1 .. Len(wire) \ {i} : ~IsFor(wire[j], "start")
    /\ \A i \in 1 .. Len(ready) : ready[i].who = "start" =>
          step["start"] = "answered" /\ \A j \in 1 .. Len(ready) \ {i} : ready[j].who # "start"

\* The events on the wire are in the order of the changes, all of them after
\* what the clients have been told.
EventsInOrder ==
    /\ \A e \in Entities : shown[e] <= home[e]
    /\ \A i \in 1 .. Len(wire) : wire[i].what = "event" =>
          /\ shown[wire[i].entity] < wire[i].new /\ wire[i].new <= home[wire[i].entity]
          /\ \A j \in i + 1 .. Len(wire) :
                wire[j].what = "event" /\ wire[j].entity = wire[i].entity =>
                    wire[i].new < wire[j].new

SyncInv ==
    /\ TypeOK
    /\ LoadedBeforeListening /\ StartAsksOnce /\ EventsInOrder /\ ClientsSeeTheDevice
=============================================================================

------------------------- MODULE GatewayServer_proofs -------------------------
(***************************************************************************)
(* RegisteredAreLive, CalledOnce and ServerSound are invariants of         *)
(* GatewayServer for any number of connections, keys, entities, requests   *)
(* and changes.  RegisteredAreLive is inductive once the tables and the    *)
(* handlers have their shapes; on it rest three more invariants, each of   *)
(* its own part of the state: of answers and calls, of what was asked for, *)
(* and of the walk over a dict that changes meanwhile.                     *)
(***************************************************************************)
EXTENDS GatewayServer, FiniteSetTheorems, SequenceTheorems, TLAPS

Slot == Ids \union {Hole}

Place == [pc : Pcs, id : Ids, kind : AllKinds \union {"none"}, topic : Topics,
          ask : Asks \union {"none"}, polls : Nat, answers : Seq({"success", "error"}),
          effects : Nat, used : Nat, woken : BOOLEAN]

Plan == [answer : {"none", "success", "error"}, ask : Asks \union {"none"}]

Walk == [step : Steps, n : Nat, e : Topics, round : 0 .. 1, size : Nat, pos : Nat,
         on : Conns \union {Nobody}, woken : BOOLEAN, owed : SUBSET Conns, aborted : BOOLEAN]

\* The shapes of what RegisteredAreLive speaks about.
Shapes ==
    /\ clients \in [Ids -> Conns \union {Nobody}]
    /\ order \in Seq(Slot)
    /\ wants \in [Ids -> SUBSET Topics]
    /\ handler \in [Conns -> Place]
    /\ devsubs \in [Entities -> Seq(Ids)]
    /\ reader \in Walk
    /\ reader.step # "idle" => reader.e \in Entities

ServerInv == Shapes /\ RegisteredAreLive

\* Live(c)', for a connection named before the step.
LivesOn(c) == handler'[c].pc \notin {"off", "left"}

\* RegisteredAreLive', part by part.
LEMMA Registering ==
  ASSUME \A i \in Ids : clients'[i] # Nobody =>
             LivesOn(clients'[i]) /\ handler'[clients'[i]].id = i,
         \A i \in Ids : i \in Subscribers' \/ wants'[i] # {} =>
             \E c \in Conns : LivesOn(c) /\ handler'[c].id = i,
         \A c, d \in Conns : LivesOn(c) /\ LivesOn(d) /\ handler'[c].id = handler'[d].id => c = d
  PROVE  RegisteredAreLive'
BY DEF RegisteredAreLive, LivesOn, Live

\* A step that leaves the tables alone and moves handlers without ending one.
LEMMA Keeping ==
  ASSUME ServerInv, UNCHANGED <<clients, order, wants>>, handler' \in [Conns -> Place],
         \A c \in Conns : handler'[c].id = handler[c].id /\ (LivesOn(c) <=> Live(c))
  PROVE  RegisteredAreLive'
<1>1. Subscribers' = Subscribers
  BY DEF Subscribers
<1>2. \A i \in Ids : clients[i] # Nobody =>
        clients[i] \in Conns /\ Live(clients[i]) /\ handler[clients[i]].id = i
  BY DEF ServerInv, Shapes, RegisteredAreLive
<1>3. \A i \in Ids : i \in Subscribers \/ wants[i] # {} =>
        \E c \in Conns : Live(c) /\ handler[c].id = i
  BY DEF ServerInv, RegisteredAreLive
<1>4. \A c, d \in Conns : Live(c) /\ Live(d) /\ handler[c].id = handler[d].id => c = d
  BY DEF ServerInv, RegisteredAreLive
<1> QED BY <1>1, <1>2, <1>3, <1>4, Registering

\* What is left in the dict when a key is deleted.
LEMMA Dropping ==
  ASSUME Shapes, NEW id \in Ids
  PROVE  /\ Dropped(id) \in Seq(Slot)
         /\ \A i \in Ids : (\E k \in DOMAIN Dropped(id) : Dropped(id)[k] = i)
                <=> i # id /\ \E k \in DOMAIN order : order[k] = i
<1>1. order \in Seq(Slot) /\ Len(order) \in Nat /\ DOMAIN order = 1 .. Len(order)
      /\ \A k \in 1 .. Len(order) : order[k] \in Slot
  BY ElementOfSeq, LenProperties DEF Shapes
<1>2. Dropped(id) \in [1 .. Len(order) -> Slot]
  BY <1>1 DEF Dropped, Slot
<1>3. Dropped(id) \in Seq(Slot)
  BY <1>1, <1>2, SeqDef
<1>4. \A i \in Ids : i # Hole
  BY NamesAssumption
<1> QED BY <1>1, <1>3, <1>4 DEF Dropped

\* A client is forgotten, by its own handler or by the reader: whoever lives
\* beside it has another key.
LEMMA Forgetting ==
  ASSUME ServerInv, NEW c \in Conns, Forget(handler[c].id),
         Live(c) \/ clients[handler[c].id] = c,
         handler' \in [Conns -> Place],
         \A d \in Conns : handler'[d].id = handler[d].id /\ (LivesOn(d) => Live(d)),
         \A d \in Conns \ {c} : Live(d) => LivesOn(d)
  PROVE  /\ RegisteredAreLive'
         /\ clients' \in [Ids -> Conns \union {Nobody}]
         /\ order' \in Seq(Slot)
         /\ wants' \in [Ids -> SUBSET Topics]
         /\ devsubs' = devsubs
<1> DEFINE id == handler[c].id
<1>1. id \in Ids /\ Live(c)
  <2>1. id \in Ids
    BY DEF ServerInv, Shapes, Place
  <2>2. c # Nobody
    BY NamesAssumption
  <2> QED BY <2>1, <2>2 DEF ServerInv, RegisteredAreLive
<1>2. /\ clients' = [clients EXCEPT ![id] = Nobody]
      /\ order' = Dropped(id) /\ devsubs' = devsubs
      /\ wants' = [wants EXCEPT ![id] = {}]
  BY DEF Forget
<1>3. order' \in Seq(Slot) /\ \A i \in Ids : i \in Subscribers' <=> i # id /\ i \in Subscribers
  BY <1>1, <1>2, Dropping DEF ServerInv, Subscribers
<1>4. /\ clients' \in [Ids -> Conns \union {Nobody}]
      /\ wants' \in [Ids -> SUBSET Topics]
  BY <1>2 DEF ServerInv, Shapes
<1>5. /\ clients'[id] = Nobody /\ wants'[id] = {}
      /\ \A i \in Ids \ {id} : clients'[i] = clients[i] /\ wants'[i] = wants[i]
  BY <1>1, <1>2 DEF ServerInv, Shapes
<1>6. ASSUME NEW i \in Ids, clients'[i] # Nobody
      PROVE  clients'[i] \in Conns /\ LivesOn(clients'[i]) /\ handler'[clients'[i]].id = i
  <2>1. i # id /\ clients'[i] = clients[i]
    BY <1>5, <1>6
  <2>2. clients[i] \in Conns /\ Live(clients[i]) /\ handler[clients[i]].id = i
    BY <1>6, <2>1 DEF ServerInv, Shapes, RegisteredAreLive
  <2>3. clients[i] # c
    BY <2>1, <2>2
  <2> QED BY <2>1, <2>2, <2>3
<1>7. ASSUME NEW i \in Ids, i \in Subscribers' \/ wants'[i] # {}
      PROVE  \E d \in Conns : LivesOn(d) /\ handler'[d].id = i
  <2>1. i # id /\ (i \in Subscribers \/ wants[i] # {})
    BY <1>3, <1>5, <1>7
  <2>2. PICK d \in Conns : Live(d) /\ handler[d].id = i
    BY <2>1 DEF ServerInv, RegisteredAreLive
  <2> QED BY <2>1, <2>2
<1>8. \A d, e \in Conns : LivesOn(d) /\ LivesOn(e) /\ handler'[d].id = handler'[e].id => d = e
  BY DEF ServerInv, RegisteredAreLive
<1>9. RegisteredAreLive'
  BY <1>6, <1>7, <1>8, Registering
<1> QED BY <1>2, <1>3, <1>4, <1>9

\* What Begin and Proceed plan.
LEMMA Plans ==
  /\ \A kind \in AllKinds : Begin(kind) \in Plan
  /\ \A kind, ask, polls, outcome : Proceed(kind, ask, polls, outcome) \in Plan
<1>1. /\ \A answer \in {"success", "error"} : Done(answer) \in Plan
      /\ \A ask \in Asks : Go(ask) \in Plan
  BY DEF Done, Go, Then, Plan
<1>2. \A kind \in AllKinds : Begin(kind) \in Plan
  BY <1>1 DEF Begin, Asks
<1>3. \A found : WithOption(found) \in Plan
  BY <1>1 DEF WithOption, Asks
<1>4. ASSUME NEW kind, NEW ask, NEW polls, NEW outcome
      PROVE  Proceed(kind, ask, polls, outcome) \in Plan
  BY <1>1, <1>3 DEF Proceed, Asks
<1> QED BY <1>2, <1>4

\* A handler that plans goes on living under its key.
LEMMA Moving ==
  ASSUME Shapes, NEW c \in Conns, NEW next \in Plan, NEW effects \in {0, 1}, NEW sent,
         sent = "sent" => next.answer # "none"
  PROVE  /\ Sending(next, sent) \in Seq({"success", "error"})
         /\ Moved(c, next, effects, sent) \in Place
         /\ Moved(c, next, effects, sent).id = handler[c].id
         /\ Moved(c, next, effects, sent).pc \in {"sending", "asking", "idle"}
<1>1. handler[c] \in Place
  BY DEF Shapes
<1>2. Sending(next, sent) \in Seq({"success", "error"})
  <2>1. sent = "sent" => next.answer \in {"success", "error"}
    BY DEF Plan
  <2>2. CASE sent = "sent"
    BY <2>1, <2>2 DEF Sending
  <2>3. CASE sent # "sent"
    BY <2>3, EmptySeq DEF Sending
  <2> QED BY <2>2, <2>3
<1>3. handler[c].answers \o Sending(next, sent) \in Seq({"success", "error"})
  BY <1>1, <1>2, ConcatProperties DEF Place
<1>4. next.ask \in Asks \union {"none"} /\ handler[c].polls \in Nat /\ handler[c].effects \in Nat
  BY <1>1 DEF Plan, Place
<1> DEFINE pc == IF sent = "sent" /\ c \in stalled THEN "sending"
                 ELSE IF next.ask # "none" THEN "asking" ELSE "idle"
           polls == IF next.ask = "poll" THEN handler[c].polls + 1 ELSE handler[c].polls
           answers == handler[c].answers \o Sending(next, sent)
           ran == handler[c].effects + effects
<1>5. pc \in {"sending", "asking", "idle"} /\ polls \in Nat /\ ran \in Nat
  BY <1>4
<1>6. Moved(c, next, effects, sent) =
        [handler[c] EXCEPT !.pc = pc, !.ask = next.ask, !.polls = polls,
                           !.answers = answers, !.effects = ran]
  BY DEF Moved
<1> HIDE DEF pc, polls, answers, ran
<1>7. answers \in Seq({"success", "error"})
  BY <1>3 DEF answers
<1>8. Moved(c, next, effects, sent) \in Place
  BY <1>1, <1>4, <1>5, <1>6, <1>7 DEF Place, Pcs
<1>9. Moved(c, next, effects, sent).id = handler[c].id /\ Moved(c, next, effects, sent).pc = pc
  BY <1>1, <1>6 DEF Place
<1> QED BY <1>2, <1>5, <1>8, <1>9

-----------------------------------------------------------------------------
LEMMA InitShapes == Init => ServerInv
<1> SUFFICES ASSUME Init PROVE ServerInv
  OBVIOUS
<1>1. NewHandler \in Place
  <2>1. NewHandler.id \in Ids
    BY KeysAssumption DEF NewHandler
  <2>2. <<>> \in Seq({"success", "error"})
    BY EmptySeq
  <2> QED BY <2>1, <2>2 DEF NewHandler, Place, Pcs, Topics
<1>2. Resting \in Walk
  BY DEF Resting, Walk, Steps, Topics
<1>3. Shapes
  BY <1>1, <1>2, EmptySeq DEF Init, Shapes, Resting
<1>4. Subscribers = {}
  BY EmptySeq DEF Init, Subscribers
<1>5. RegisteredAreLive
  BY <1>4 DEF Init, RegisteredAreLive, Live, NewHandler
<1> QED BY <1>3, <1>5 DEF ServerInv

-----------------------------------------------------------------------------
\* Nothing changes but the reader.
LEMMA Reading ==
  ASSUME ServerInv, UNCHANGED <<tables, handler>>, reader' \in Walk,
         reader'.step # "idle" => reader'.e \in Entities
  PROVE  ServerInv'
<1>1. handler' \in [Conns -> Place]
      /\ \A c \in Conns : handler'[c].id = handler[c].id /\ (LivesOn(c) <=> Live(c))
  BY DEF ServerInv, Shapes, LivesOn, Live
<1>2. RegisteredAreLive'
  BY <1>1, Keeping DEF tables
<1> QED BY <1>1, <1>2 DEF ServerInv, Shapes, tables

\* One handler goes on under its key, and the tables stay.
LEMMA Going ==
  ASSUME ServerInv, NEW c \in Conns, Live(c), UNCHANGED tables,
         NEW place \in Place, handler' = [handler EXCEPT ![c] = place],
         place.id = handler[c].id, place.pc \notin {"off", "left"},
         reader' \in Walk, reader'.step # "idle" => reader'.e \in Entities
  PROVE  ServerInv'
<1>1. handler \in [Conns -> Place]
  BY DEF ServerInv, Shapes
<1>2. handler' \in [Conns -> Place]
      /\ \A d \in Conns : handler'[d].id = handler[d].id /\ (LivesOn(d) <=> Live(d))
  BY <1>1 DEF LivesOn, Live
<1>3. RegisteredAreLive'
  BY <1>2, Keeping DEF tables
<1> QED BY <1>2, <1>3 DEF ServerInv, Shapes, tables

\* A reader at rest.
LEMMA Rest == Resting \in Walk /\ Resting.step = "idle"
BY DEF Resting, Walk, Steps, Topics

LEMMA BroadcastEntityStep == ServerInv /\ BroadcastEntity => ServerInv'
<1> SUFFICES ASSUME ServerInv, BroadcastEntity PROVE ServerInv'
  OBVIOUS
<1>1. UNCHANGED <<tables, handler>>
  BY DEF BroadcastEntity
<1>2. Len(order) \in Nat /\ reader.n + 1 \in Nat
  BY LenProperties DEF ServerInv, Shapes, Walk
<1>3. PICK e \in Entities :
        \/ reader' = [Resting EXCEPT
               !.step = "entity", !.n = reader.n + 1, !.e = e, !.size = Len(order),
               !.owed = {c \in Conns : \E i \in Subscribers :
                           clients[i] = c /\ wants[i] \cap {e, Star} # {}}]
        \/ reader' = [Resting EXCEPT
               !.step = "device", !.n = reader.n + 1, !.e = e, !.aborted = TRUE]
  BY DEF BroadcastEntity
<1>4. reader' \in Walk /\ reader'.e = e
  <2> DEFINE owed == {c \in Conns : \E i \in Subscribers :
                                  clients[i] = c /\ wants[i] \cap {e, Star} # {}}
             n == reader.n + 1
             size == Len(order)
  <2>1. owed \in SUBSET Conns /\ n \in Nat /\ size \in Nat
    BY <1>2
  <2>2. \/ reader' = [Resting EXCEPT !.step = "entity", !.n = n, !.e = e, !.size = size, !.owed = owed]
        \/ reader' = [Resting EXCEPT !.step = "device", !.n = n, !.e = e, !.aborted = TRUE]
    BY <1>3
  <2> HIDE DEF owed, n, size
  <2> QED BY <2>1, <2>2, Rest DEF Walk, Steps, Topics
<1> QED BY <1>1, <1>4, Reading

LEMMA EndEntityStep == ServerInv /\ EndEntity => ServerInv'
<1> SUFFICES ASSUME ServerInv, EndEntity PROVE ServerInv'
  OBVIOUS
<1>1. PICK aborted \in BOOLEAN : EndWalk(aborted)
  BY DEF EndEntity
<1>2. reader \in Walk /\ reader.e \in Entities
  BY DEF ServerInv, Shapes, EndEntity
<1>3. reader' \in Walk /\ reader'.e = reader.e
  BY <1>1, <1>2 DEF EndWalk, Walk, Steps
<1> QED BY <1>1, <1>2, <1>3, Reading DEF EndWalk

LEMMA EndDeviceStep == ServerInv /\ EndDevice => ServerInv'
<1> SUFFICES ASSUME ServerInv, EndDevice PROVE ServerInv'
  OBVIOUS
<1>1. reader \in Walk /\ reader.e \in Entities
  BY DEF ServerInv, Shapes, EndDevice
<1>2. CASE Again(reader.round)
  <2>1. reader' = [reader EXCEPT !.pos = 0, !.round = reader.round + 1]
    BY <1>2 DEF EndDevice
  <2>2. reader.round + 1 \in 0 .. 1
    BY <1>1, <1>2 DEF Again, Walk
  <2>3. reader' \in Walk /\ reader'.e = reader.e
    BY <1>1, <2>1, <2>2 DEF Walk
  <2> QED BY <1>1, <2>3, Reading DEF EndDevice
<1>3. CASE ~Again(reader.round)
  <2>1. reader' = [Resting EXCEPT !.n = reader.n]
    BY <1>3 DEF EndDevice
  <2>2. reader' \in Walk /\ reader'.step = "idle"
    BY <1>1, <2>1, Rest DEF Walk
  <2> QED BY <2>2, Reading DEF EndDevice
<1> QED BY <1>2, <1>3

\* What the walks have in common: a send that may find the client gone.
LEMMA SendChangeStep ==
  ASSUME ServerInv, NEW i \in Ids, NEW what, SendChange(i, what), UNCHANGED handler,
         reader.step # "idle"
  PROVE  ServerInv'
<1> DEFINE c == clients[i]
<1>1. reader \in Walk /\ reader.e \in Entities /\ c \in Conns \union {Nobody}
  BY DEF ServerInv, Shapes
<1>2. CASE UNCHANGED tables
  <2>1. PICK pos \in Nat, on \in Conns \union {Nobody} :
          \/ reader' = [reader EXCEPT !.pos = pos]
          \/ reader' = [reader EXCEPT !.pos = pos, !.on = on]
          \/ reader' = [reader EXCEPT !.pos = pos, !.owed = reader.owed \ {c}]
    <3>1. reader.pos + 1 \in Nat /\ (IF c \in stalled THEN c ELSE Nobody) \in Conns \union {Nobody}
      BY <1>1 DEF Walk
    <3> QED BY <3>1 DEF SendChange
  <2>2. reader' \in Walk /\ reader'.e = reader.e
    BY <1>1, <2>1 DEF Walk
  <2> QED BY <1>1, <1>2, <2>2, Reading
<1>3. CASE c # Nobody /\ Forget(i) /\ reader' = [reader EXCEPT !.pos = @ + 1, !.owed = @ \ {c}]
  <2>1. c \in Conns /\ handler[c].id = i /\ clients[i] = c
    BY <1>1, <1>3 DEF ServerInv, RegisteredAreLive
  <2>2. handler' \in [Conns -> Place]
        /\ \A d \in Conns : handler'[d].id = handler[d].id /\ (LivesOn(d) <=> Live(d))
    BY DEF ServerInv, Shapes, LivesOn, Live
  <2>3. reader' \in Walk /\ reader'.e = reader.e
    <3>1. PICK pos \in Nat, owed \in SUBSET Conns : reader' = [reader EXCEPT !.pos = pos, !.owed = owed]
      <4>1. reader.pos + 1 \in Nat /\ reader.owed \ {c} \in SUBSET Conns
        BY <1>1 DEF Walk
      <4> QED BY <1>3, <4>1
    <3> QED BY <1>1, <3>1 DEF Walk
  <2> HIDE DEF c
  <2>4. Forget(handler[c].id)
    BY <1>3, <2>1
  <2>5. /\ RegisteredAreLive'
        /\ clients' \in [Ids -> Conns \union {Nobody}]
        /\ order' \in Seq(Slot)
        /\ wants' \in [Ids -> SUBSET Topics]
        /\ devsubs' = devsubs
    BY <2>1, <2>2, <2>4, Forgetting
  <2> QED BY <1>1, <2>2, <2>3, <2>5 DEF ServerInv, Shapes
<1> QED BY <1>2, <1>3 DEF SendChange

LEMMA VisitClientStep == ServerInv /\ VisitClient => ServerInv'
<1> SUFFICES ASSUME ServerInv, VisitClient PROVE ServerInv'
  OBVIOUS
<1> DEFINE i == order[reader.pos + 1]
<1>1. i \in Slot
  <2>1. order \in Seq(Slot) /\ Len(order) \in Nat /\ reader.pos \in Nat
    BY LenProperties DEF ServerInv, Shapes, Walk
  <2>2. reader.pos + 1 \in 1 .. Len(order)
    BY <2>1 DEF VisitClient
  <2> QED BY <2>1, <2>2, ElementOfSeq
<1>2. UNCHANGED handler /\ reader.step = "entity"
  BY DEF VisitClient
<1>3. CASE i # Hole /\ SendChange(i, "entity")
  BY <1>1, <1>2, <1>3, SendChangeStep DEF Slot
<1>4. CASE reader' = [reader EXCEPT !.pos = reader.pos + 1] /\ UNCHANGED <<tables, heard>>
  <2>1. reader \in Walk /\ reader.e \in Entities
    BY <1>2 DEF ServerInv, Shapes
  <2>2. reader' \in Walk /\ reader'.e = reader.e
    BY <1>4, <2>1 DEF Walk
  <2> QED BY <1>2, <1>4, <2>1, <2>2, Reading
<1> QED BY <1>3, <1>4 DEF VisitClient

LEMMA VisitDeviceStep == ServerInv /\ VisitDevice => ServerInv'
<1> SUFFICES ASSUME ServerInv, VisitDevice PROVE ServerInv'
  OBVIOUS
<1> DEFINE list == devsubs[reader.e]
<1>1. list \in Seq(Ids) /\ Len(list) \in Nat /\ reader.pos \in Nat
  <2>1. reader.e \in Entities /\ reader.pos \in Nat
    BY DEF ServerInv, Shapes, VisitDevice, Walk
  <2>2. list \in Seq(Ids)
    BY <2>1 DEF ServerInv, Shapes
  <2> QED BY <2>1, <2>2, LenProperties
<1>2. reader.pos + 1 \in 1 .. Len(list)
  BY <1>1 DEF VisitDevice
<1>3. list[reader.pos + 1] \in Ids
  BY <1>1, <1>2, ElementOfSeq
<1>4. SendChange(list[reader.pos + 1], "device") /\ UNCHANGED handler /\ reader.step # "idle"
  BY DEF VisitDevice
<1> HIDE DEF list
<1> QED BY <1>3, <1>4, SendChangeStep

\* A handler goes on while the client it serves is forgotten.
LEMMA Failing ==
  ASSUME ServerInv, NEW c \in Conns, Live(c), Forget(handler[c].id),
         NEW place \in Place, handler' = [handler EXCEPT ![c] = place],
         place.id = handler[c].id, place.pc # "off",
         reader' \in Walk, reader'.step # "idle" => reader'.e \in Entities
  PROVE  ServerInv'
<1>1. handler \in [Conns -> Place]
  BY DEF ServerInv, Shapes
<1>2. /\ handler' \in [Conns -> Place]
      /\ \A d \in Conns : handler'[d].id = handler[d].id /\ (LivesOn(d) => Live(d))
      /\ \A d \in Conns \ {c} : Live(d) => LivesOn(d)
  BY <1>1 DEF LivesOn, Live
<1>3. /\ RegisteredAreLive'
      /\ clients' \in [Ids -> Conns \union {Nobody}]
      /\ order' \in Seq(Slot)
      /\ wants' \in [Ids -> SUBSET Topics]
      /\ devsubs' = devsubs
  BY <1>2, Forgetting
<1> QED BY <1>2, <1>3 DEF ServerInv, Shapes

\* Whoever is owed a change or waits for a drain: the walk stays where it is.
LEMMA Crossing ==
  ASSUME ServerInv, NEW owed \in SUBSET Conns, NEW woken \in BOOLEAN, NEW on \in Conns \union {Nobody},
         \/ reader' = reader
         \/ reader' = [reader EXCEPT !.owed = owed]
         \/ reader' = [reader EXCEPT !.woken = woken]
         \/ reader' = [reader EXCEPT !.on = on, !.woken = woken]
         \/ reader' = [reader EXCEPT !.on = on, !.woken = woken, !.owed = owed]
  PROVE  reader' \in Walk /\ (reader'.step # "idle" => reader'.e \in Entities)
<1>1. reader \in Walk /\ (reader.step # "idle" => reader.e \in Entities)
  BY DEF ServerInv, Shapes
<1> QED BY <1>1 DEF Walk

LEMMA OwedLess ==
  ASSUME ServerInv, NEW c, \/ reader' = reader
                          \/ reader' = [reader EXCEPT !.owed = @ \ {c}]
  PROVE  reader' \in Walk /\ (reader'.step # "idle" => reader'.e \in Entities)
<1> DEFINE owed == reader.owed \ {c}
<1>1. owed \in SUBSET Conns
  BY DEF ServerInv, Shapes, Walk
<1>2. reader' = reader \/ reader' = [reader EXCEPT !.owed = owed]
  OBVIOUS
<1> HIDE DEF owed
<1>3. TRUE \in BOOLEAN /\ Nobody \in Conns \union {Nobody}
  OBVIOUS
<1> QED BY <1>1, <1>2, <1>3, Crossing

LEMMA ResumeStep == ServerInv /\ Resume => ServerInv'
<1> SUFFICES ASSUME ServerInv, Resume PROVE ServerInv'
  OBVIOUS
<1> DEFINE c == reader.on
<1>1. c \in Conns /\ UNCHANGED handler
  BY DEF ServerInv, Shapes, Walk, Resume
<1>2. CASE UNCHANGED tables /\ reader' = [reader EXCEPT !.on = Nobody, !.woken = FALSE]
  <2>1. reader' \in Walk /\ (reader'.step # "idle" => reader'.e \in Entities)
    BY <1>2, Crossing
  <2> QED BY <1>1, <1>2, <2>1, Reading
<1>3. CASE /\ clients[handler[c].id] = c /\ Forget(handler[c].id)
           /\ reader' = [reader EXCEPT !.on = Nobody, !.woken = FALSE, !.owed = reader.owed \ {c}]
  <2> DEFINE owed == reader.owed \ {c}
  <2>1. owed \in SUBSET Conns
    BY DEF ServerInv, Shapes, Walk
  <2>2. reader' = [reader EXCEPT !.on = Nobody, !.woken = FALSE, !.owed = owed]
    BY <1>3
  <2> HIDE DEF owed
  <2>3. reader' \in Walk /\ (reader'.step # "idle" => reader'.e \in Entities)
    BY <2>1, <2>2, Crossing
  <2>4. handler' \in [Conns -> Place]
        /\ \A d \in Conns : handler'[d].id = handler[d].id /\ (LivesOn(d) <=> Live(d))
    BY <1>1 DEF ServerInv, Shapes, LivesOn, Live
  <2> HIDE DEF c
  <2>5. /\ RegisteredAreLive'
        /\ clients' \in [Ids -> Conns \union {Nobody}]
        /\ order' \in Seq(Slot)
        /\ wants' \in [Ids -> SUBSET Topics]
        /\ devsubs' = devsubs
    BY <1>1, <1>3, <2>4, Forgetting
  <2> QED BY <2>3, <2>4, <2>5 DEF ServerInv, Shapes
<1> QED BY <1>2, <1>3 DEF Resume

\* The buffer has drained, or the connection is gone.
LEMMA WakeStep ==
  ASSUME ServerInv, NEW c \in Conns, WakeWaiters(c), UNCHANGED tables
  PROVE  ServerInv'
<1>1. handler \in [Conns -> Place] /\ reader.woken \in BOOLEAN
  BY DEF ServerInv, Shapes, Walk
<1>2. PICK woken \in BOOLEAN : handler' = [handler EXCEPT ![c].woken = woken]
  <2>1. (handler[c].woken \/ handler[c].pc = "sending") \in BOOLEAN
    OBVIOUS
  <2> QED BY <2>1 DEF WakeWaiters
<1>3. PICK wake \in BOOLEAN : reader' = [reader EXCEPT !.woken = wake]
  <2>1. (reader.woken \/ reader.on = c) \in BOOLEAN
    OBVIOUS
  <2> QED BY <2>1 DEF WakeWaiters
<1>4. reader' \in Walk /\ (reader'.step # "idle" => reader'.e \in Entities)
  BY <1>3, Crossing
<1>5. handler' \in [Conns -> Place]
      /\ \A d \in Conns : handler'[d].id = handler[d].id /\ handler'[d].pc = handler[d].pc
  BY <1>1, <1>2 DEF Place
<1>6. RegisteredAreLive'
  BY <1>5, Keeping DEF tables, LivesOn, Live
<1> QED BY <1>4, <1>5, <1>6 DEF ServerInv, Shapes, tables

\* The steps of a handler that neither ask nor answer.
LEMMA PlainSteps ==
  ASSUME ServerInv, NEW c \in Conns, FetchInitial(c) \/ Greet(c) \/ Sent(c) \/ Leave(c)
  PROVE  ServerInv'
<1>1. handler \in [Conns -> Place] /\ handler[c] \in Place
  BY DEF ServerInv, Shapes
<1>2. ASSUME NEW pc \in Pcs, NEW woken \in BOOLEAN
      PROVE  /\ [handler[c] EXCEPT !.pc = pc] \in Place
             /\ [handler[c] EXCEPT !.pc = pc].id = handler[c].id
             /\ [handler[c] EXCEPT !.pc = pc].pc = pc
             /\ [handler[c] EXCEPT !.pc = pc, !.woken = woken] \in Place
             /\ [handler[c] EXCEPT !.pc = pc, !.woken = woken].id = handler[c].id
             /\ [handler[c] EXCEPT !.pc = pc, !.woken = woken].pc = pc
  BY <1>1 DEF Place
<1>3. CASE FetchInitial(c) \/ Greet(c)
  <2>1. PICK pc \in {"greeting", "idle"} : handler' = [handler EXCEPT ![c].pc = pc]
    BY <1>3 DEF FetchInitial, Greet, Greeted
  <2>2. handler' = [handler EXCEPT ![c] = [handler[c] EXCEPT !.pc = pc]]
    BY <2>1
  <2>3. Live(c) /\ UNCHANGED <<tables, reader>>
    BY <1>3 DEF FetchInitial, Greet, Live
  <2>4. reader' \in Walk /\ (reader'.step # "idle" => reader'.e \in Entities)
    BY <2>3, OwedLess
  <2>5. pc \in Pcs /\ pc \notin {"off", "left"}
    BY DEF Pcs
  <2> QED BY <1>2, <2>2, <2>3, <2>4, <2>5, Going
<1>4. CASE Sent(c)
  <2>1. Live(c) /\ handler' = [handler EXCEPT ![c] = [handler[c] EXCEPT !.pc = "idle", !.woken = FALSE]]
    BY <1>4 DEF Sent, Live
  <2>2. reader' \in Walk /\ (reader'.step # "idle" => reader'.e \in Entities)
    BY <1>4, OwedLess DEF Sent
  <2>3. "idle" \in Pcs
    BY DEF Pcs
  <2>4. CASE UNCHANGED tables
    BY <1>2, <2>1, <2>2, <2>3, <2>4, Going
  <2>5. CASE Forget(handler[c].id)
    BY <1>2, <2>1, <2>2, <2>3, <2>5, Failing
  <2> QED BY <1>4, <2>4, <2>5 DEF Sent
<1>5. CASE Leave(c)
  <2>1. Live(c) /\ handler' = [handler EXCEPT ![c] = [handler[c] EXCEPT !.pc = "left"]]
        /\ Forget(handler[c].id)
    BY <1>5 DEF Leave, Live
  <2>2. reader' \in Walk /\ (reader'.step # "idle" => reader'.e \in Entities)
    BY <1>5, OwedLess DEF Leave
  <2>3. "left" \in Pcs
    BY DEF Pcs
  <2> QED BY <1>2, <2>1, <2>2, <2>3, Failing
<1> QED BY <1>3, <1>4, <1>5

LEMMA AnsweredStep ==
  ASSUME ServerInv, NEW c \in Conns, Answered(c)
  PROVE  ServerInv'
<1>1. Live(c)
  BY DEF Answered, Live
<1>2. PICK o \in Outcomes(c) :
        LET next == Proceed(handler[c].kind, handler[c].ask, handler[c].polls, o[1])
            sent == Answer(c, next.answer)
        IN  /\ handler' = [handler EXCEPT ![c] = Moved(c, next, o[2], sent)]
            /\ IF sent = "raised" THEN Forget(handler[c].id) ELSE UNCHANGED tables
            /\ reader' = IF sent = "raised" THEN [reader EXCEPT !.owed = @ \ {c}] ELSE reader
  BY DEF Answered
<1> DEFINE next == Proceed(handler[c].kind, handler[c].ask, handler[c].polls, o[1])
           sent == Answer(c, next.answer)
<1>3. next \in Plan
  BY Plans
<1>4. o[2] \in {0, 1}
  BY DEF Outcomes
<1>5. sent = "sent" => next.answer # "none"
  BY DEF Answer
<1>6. Moved(c, next, o[2], sent) \in Place
      /\ Moved(c, next, o[2], sent).id = handler[c].id
      /\ Moved(c, next, o[2], sent).pc \in {"sending", "asking", "idle"}
  <2> HIDE DEF next, sent
  <2> QED BY <1>3, <1>4, <1>5, Moving DEF ServerInv
<1>7. reader' \in Walk /\ (reader'.step # "idle" => reader'.e \in Entities)
  BY <1>2, OwedLess
<1>8. CASE sent = "raised"
  <2>1. Forget(handler[c].id) /\ handler' = [handler EXCEPT ![c] = Moved(c, next, o[2], sent)]
    BY <1>2, <1>8
  <2> HIDE DEF next, sent
  <2> QED BY <1>1, <1>6, <1>7, <2>1, Failing
<1>9. CASE sent # "raised"
  <2>1. UNCHANGED tables /\ handler' = [handler EXCEPT ![c] = Moved(c, next, o[2], sent)]
    BY <1>2, <1>9
  <2> HIDE DEF next, sent
  <2> QED BY <1>1, <1>6, <1>7, <2>1, Going
<1> QED BY <1>8, <1>9

\* What is left of a list.
LEMMA Removing ==
  ASSUME NEW S, NEW s \in Seq(S), NEW i
  PROVE  Removed(s, i) \in Seq(S)
<1>1. Len(s) \in Nat /\ \A k \in 1 .. Len(s) : s[k] \in S
  BY ElementOfSeq, LenProperties
<1>2. CASE Contains(s, i)
  <2> DEFINE k == CHOOSE k \in 1 .. Len(s) : s[k] = i
  <2>1. k \in 1 .. Len(s)
    BY <1>2 DEF Contains
  <2> HIDE DEF k
  <2>2. /\ 1 \in Int /\ k - 1 \in Int /\ k + 1 \in Int /\ Len(s) \in Int
        /\ \A j \in 1 .. k - 1 : s[j] \in S
        /\ \A j \in k + 1 .. Len(s) : s[j] \in S
    BY <1>1, <2>1
  <2>3. SubSeq(s, 1, k - 1) \in Seq(S) /\ SubSeq(s, k + 1, Len(s)) \in Seq(S)
    BY <2>2, SubSeqProperties
  <2>4. RemoveAt(s, k) \in Seq(S)
    BY <2>3, ConcatProperties DEF RemoveAt
  <2> QED BY <1>2, <2>4 DEF Removed, k
<1>3. CASE ~Contains(s, i)
  BY <1>3 DEF Removed
<1> QED BY <1>2, <1>3

\* What a subscription does to the tables concerns its own key.
LEMMA Enrolling ==
  ASSUME ServerInv, NEW c \in Conns, NEW kind, NEW t \in Topics, Enrol(c, kind, t),
         t = Star => kind \notin {"subscribe_device", "unsubscribe_device"}
  PROVE  /\ order' \in Seq(Slot) /\ wants' \in [Ids -> SUBSET Topics]
         /\ devsubs' \in [Entities -> Seq(Ids)]
         /\ \A j \in Ids : j \in Subscribers' \/ wants'[j] # {} =>
               j = handler[c].id \/ j \in Subscribers \/ wants[j] # {}
<1> DEFINE i == handler[c].id
<1>1. /\ i \in Ids /\ i \in Slot /\ order \in Seq(Slot) /\ Len(order) \in Nat
      /\ DOMAIN order = 1 .. Len(order)
      /\ wants \in [Ids -> SUBSET Topics] /\ devsubs \in [Entities -> Seq(Ids)]
  BY LenProperties DEF ServerInv, Shapes, Place, Slot
<1>2. Subscribers \subseteq Ids
  BY DEF Subscribers
<1>3. CASE kind = "subscribe"
  <2>1. /\ order' \in IF i \in Subscribers THEN {order}
                       ELSE {Append(o, i) : o \in Packings \union {order}}
        /\ wants' = [wants EXCEPT ![i] = wants[i] \union {t}] /\ devsubs' = devsubs
    BY <1>3 DEF Enrol
  <2>2. wants' \in [Ids -> SUBSET Topics] /\ \A j \in Ids \ {i} : wants'[j] = wants[j]
    BY <1>1, <2>1
  <2>3. CASE order' = order
    BY <1>1, <2>1, <2>2, <2>3 DEF Subscribers
  <2>4. ASSUME NEW o \in Packings \union {order}, order' = Append(o, i)
        PROVE  /\ order' \in Seq(Slot)
               /\ \A j \in Subscribers' : j = i \/ j \in Subscribers
    <3>1. o \in Seq(Slot) /\ \A k \in 1 .. Len(o) : o[k] \in Ids => o[k] \in Subscribers
      <4>1. CASE o = order
        BY <1>1, <4>1 DEF Subscribers
      <4>2. CASE o \in Packings
        <5>1. PICK n \in 0 .. Len(order) : o \in [1 .. n -> Subscribers]
          BY <4>2 DEF Packings
        <5>2. n \in Nat /\ o \in [1 .. n -> Slot]
          BY <1>1, <1>2, <5>1 DEF Slot
        <5>3. o \in Seq(Slot) /\ Len(o) = n
          BY <5>2, SeqDef, LenProperties
        <5> QED BY <5>1, <5>3
      <4> QED BY <4>1, <4>2
    <3>2. order' \in Seq(Slot) /\ Len(order') = Len(o) + 1 /\ DOMAIN order' = 1 .. Len(order')
          /\ order'[Len(o) + 1] = i /\ Len(o) \in Nat
          /\ \A k \in 1 .. Len(o) : order'[k] = o[k]
      BY <1>1, <2>4, <3>1, AppendProperties, LenProperties
    <3> QED BY <3>1, <3>2 DEF Subscribers
  <2>5. order' = order \/ \E o \in Packings \union {order} : order' = Append(o, i)
    BY <2>1
  <2> QED BY <1>1, <2>1, <2>2, <2>3, <2>4, <2>5
<1>4. CASE kind = "unsubscribe"
  <2>1. order' = order /\ devsubs' = devsubs /\ wants' = [wants EXCEPT ![i] = wants[i] \ {t}]
    BY <1>4 DEF Enrol
  <2>2. wants' \in [Ids -> SUBSET Topics] /\ \A j \in Ids \ {i} : wants'[j] = wants[j]
    BY <1>1, <2>1
  <2> QED BY <1>1, <2>1, <2>2 DEF Subscribers
<1>5. CASE kind \in {"subscribe_device", "unsubscribe_device"}
  <2>1. EnrolDevice(c, kind, t) /\ t \in Entities
    BY <1>5 DEF Enrol, Topics
  <2>2. devsubs[t] \in Seq(Ids)
    BY <1>1, <2>1
  <2>3. PICK list \in Seq(Ids) : devsubs' = [devsubs EXCEPT ![t] = list]
    <3>1. CASE kind = "subscribe_device"
      <4>1. devsubs' = [devsubs EXCEPT ![t] = IF Contains(devsubs[t], i) THEN devsubs[t]
                                              ELSE Append(devsubs[t], i)]
        BY <2>1, <3>1 DEF EnrolDevice
      <4>2. Append(devsubs[t], i) \in Seq(Ids)
        BY <1>1, <2>2, AppendProperties
      <4> QED BY <2>2, <4>1, <4>2
    <3>2. CASE kind # "subscribe_device"
      <4>1. devsubs' = [devsubs EXCEPT ![t] = Removed(devsubs[t], i)]
        BY <2>1, <3>2 DEF EnrolDevice
      <4>2. Removed(devsubs[t], i) \in Seq(Ids)
        BY <2>2, Removing
      <4> QED BY <4>1, <4>2
    <3> QED BY <3>1, <3>2
  <2>4. devsubs' \in [Entities -> Seq(Ids)] /\ UNCHANGED <<order, wants>>
    BY <1>1, <2>1, <2>3 DEF EnrolDevice
  <2> QED BY <1>1, <2>4 DEF Subscribers
<1>6. CASE kind \notin {"subscribe", "unsubscribe", "subscribe_device", "unsubscribe_device"}
  <2>1. UNCHANGED <<order, wants, devsubs>>
    BY <1>6 DEF Enrol
  <2> QED BY <1>1, <2>1 DEF Subscribers
<1> QED BY <1>3, <1>4, <1>5, <1>6

LEMMA ReceiveStep ==
  ASSUME ServerInv, NEW c \in Conns, Receive(c)
  PROVE  ServerInv'
<1>1. Live(c) /\ handler[c] \in Place /\ handler \in [Conns -> Place] /\ handler[c].id \in Ids
  BY DEF ServerInv, Shapes, Receive, Live, Place
<1>2. PICK kind \in Kinds[c], t \in Topics :
        /\ t = Star => kind \notin {"subscribe_device", "unsubscribe_device"}
        /\ LET next == Begin(kind)
               sent == Answer(c, next.answer)
           IN  /\ handler' = [handler EXCEPT ![c] =
                       [Moved(c, next, 0, sent) EXCEPT
                           !.kind = kind, !.topic = t, !.used = @ + 1, !.effects = 0,
                           !.polls = 0, !.answers = Sending(next, sent)]]
               /\ IF sent = "raised" THEN Forget(handler[c].id) /\ UNCHANGED wish
                  ELSE Enrol(c, kind, t) /\ UNCHANGED clients
               /\ reader' = IF kind = "unsubscribe" \/ sent = "raised"
                            THEN [reader EXCEPT !.owed = @ \ {c}] ELSE reader
  BY DEF Receive
<1>3. kind \in AllKinds
  BY NamesAssumption
<1> DEFINE next == Begin(kind)
           sent == Answer(c, next.answer)
           moved == Moved(c, next, 0, sent)
           used == moved.used + 1
           answers == Sending(next, sent)
           place == [moved EXCEPT !.kind = kind, !.topic = t, !.used = used, !.effects = 0,
                                  !.polls = 0, !.answers = answers]
<1>4. handler' = [handler EXCEPT ![c] = place]
  BY <1>2
<1>5. reader' \in Walk /\ (reader'.step # "idle" => reader'.e \in Entities)
  BY <1>2, OwedLess
<1>6. sent = "raised" => Forget(handler[c].id)
  BY <1>2
<1>7. sent # "raised" => Enrol(c, kind, t) /\ UNCHANGED clients
  BY <1>2
<1>8. next \in Plan /\ (sent = "sent" => next.answer # "none")
  BY <1>3, Plans DEF Answer
<1> HIDE DEF next, sent
<1>9. /\ moved \in Place /\ moved.id = handler[c].id
      /\ moved.pc \in {"sending", "asking", "idle"}
      /\ answers \in Seq({"success", "error"})
  BY <1>8, Moving DEF ServerInv
<1> HIDE DEF moved, answers
<1>10. used \in Nat
  BY <1>9 DEF Place
<1> HIDE DEF used
<1>11. place \in Place /\ place.id = handler[c].id /\ place.pc \notin {"off", "left"}
  BY <1>3, <1>9, <1>10 DEF Place
<1> HIDE DEF place
<1>12. CASE sent = "raised"
  BY <1>1, <1>4, <1>5, <1>6, <1>11, <1>12, Failing
<1>13. CASE sent # "raised"
  <2>1. Enrol(c, kind, t) /\ clients' = clients
    BY <1>7, <1>13
  <2>2. /\ order' \in Seq(Slot) /\ wants' \in [Ids -> SUBSET Topics]
        /\ devsubs' \in [Entities -> Seq(Ids)]
        /\ \A j \in Ids : j \in Subscribers' \/ wants'[j] # {} =>
              j = handler[c].id \/ j \in Subscribers \/ wants[j] # {}
    BY <1>2, <2>1, Enrolling
  <2>3. handler' \in [Conns -> Place]
        /\ \A d \in Conns : handler'[d].id = handler[d].id /\ (LivesOn(d) <=> Live(d))
    BY <1>1, <1>4, <1>11 DEF LivesOn, Live
  <2>4. \A j \in Ids : clients'[j] # Nobody =>
          LivesOn(clients'[j]) /\ handler'[clients'[j]].id = j
    <3>1. \A j \in Ids : clients[j] # Nobody =>
            clients[j] \in Conns /\ Live(clients[j]) /\ handler[clients[j]].id = j
      BY DEF ServerInv, Shapes, RegisteredAreLive
    <3> QED BY <2>1, <2>3, <3>1
  <2>5. ASSUME NEW j \in Ids, j \in Subscribers' \/ wants'[j] # {}
        PROVE  \E d \in Conns : LivesOn(d) /\ handler'[d].id = j
    <3>1. CASE j = handler[c].id
      BY <1>1, <2>3, <3>1
    <3>2. CASE j \in Subscribers \/ wants[j] # {}
      <4>1. PICK d \in Conns : Live(d) /\ handler[d].id = j
        BY <3>2 DEF ServerInv, RegisteredAreLive
      <4> QED BY <2>3, <4>1
    <3> QED BY <2>2, <2>5, <3>1, <3>2
  <2>6. \A d, e \in Conns : LivesOn(d) /\ LivesOn(e) /\ handler'[d].id = handler'[e].id => d = e
    BY <2>3 DEF ServerInv, RegisteredAreLive
  <2>7. RegisteredAreLive'
    BY <2>4, <2>5, <2>6, Registering
  <2> QED BY <1>5, <2>1, <2>2, <2>3, <2>7 DEF ServerInv, Shapes
<1> QED BY <1>12, <1>13

\* A new connection takes a key that no handler and no suspended send holds.
LEMMA ConnectStep ==
  ASSUME ServerInv, NEW c \in Conns, Connect(c)
  PROVE  ServerInv'
<1>1. PICK i \in FreeIds, pc \in {"initial", "greeting", "idle"} :
        /\ clients' = [clients EXCEPT ![i] = c]
        /\ handler' = [handler EXCEPT ![c].pc = pc, ![c].id = i]
  BY DEF Connect, Greeted
<1>2. /\ i \in Ids /\ \A d \in Conns : Live(d) => handler[d].id # i
      /\ ~Live(c) /\ UNCHANGED <<order, wants, devsubs, reader>>
  BY <1>1 DEF FreeIds, Connect, Live
<1>3. /\ handler \in [Conns -> Place] /\ handler[c] \in Place
      /\ clients \in [Ids -> Conns \union {Nobody}]
  BY DEF ServerInv, Shapes
<1>4. /\ handler' \in [Conns -> Place]
      /\ handler'[c].id = i /\ LivesOn(c)
      /\ \A d \in Conns \ {c} : handler'[d] = handler[d] /\ (LivesOn(d) <=> Live(d))
  <2>1. [handler[c] EXCEPT !.pc = pc, !.id = i] \in Place
        /\ [handler[c] EXCEPT !.pc = pc, !.id = i].id = i
        /\ [handler[c] EXCEPT !.pc = pc, !.id = i].pc = pc
    BY <1>2, <1>3 DEF Place, Pcs
  <2>2. handler' = [handler EXCEPT ![c] = [handler[c] EXCEPT !.pc = pc, !.id = i]]
    BY <1>1
  <2> QED BY <1>3, <2>1, <2>2 DEF LivesOn, Live
<1>5. clients' \in [Ids -> Conns \union {Nobody}] /\ clients'[i] = c
      /\ \A j \in Ids \ {i} : clients'[j] = clients[j]
  BY <1>1, <1>2, <1>3
<1>6. ASSUME NEW j \in Ids, clients'[j] # Nobody
      PROVE  LivesOn(clients'[j]) /\ handler'[clients'[j]].id = j
  <2>1. CASE j = i
    BY <1>4, <1>5, <2>1
  <2>2. CASE j # i
    <3>1. clients'[j] = clients[j] /\ clients[j] \in Conns /\ Live(clients[j])
          /\ handler[clients[j]].id = j
      BY <1>3, <1>5, <1>6, <2>2 DEF ServerInv, RegisteredAreLive
    <3>2. clients[j] # c
      BY <1>2, <3>1
    <3> QED BY <1>4, <3>1, <3>2
  <2> QED BY <2>1, <2>2
<1>7. ASSUME NEW j \in Ids, j \in Subscribers' \/ wants'[j] # {}
      PROVE  \E d \in Conns : LivesOn(d) /\ handler'[d].id = j
  <2>1. j \in Subscribers \/ wants[j] # {}
    BY <1>2, <1>7 DEF Subscribers
  <2>2. PICK d \in Conns : Live(d) /\ handler[d].id = j
    BY <2>1 DEF ServerInv, RegisteredAreLive
  <2>3. d # c
    BY <1>2, <2>2
  <2> QED BY <1>4, <2>2, <2>3
<1>8. \A d, e \in Conns : LivesOn(d) /\ LivesOn(e) /\ handler'[d].id = handler'[e].id => d = e
  <2>1. \A d, e \in Conns \ {c} : Live(d) /\ Live(e) /\ handler[d].id = handler[e].id => d = e
    BY DEF ServerInv, RegisteredAreLive
  <2>2. \A d \in Conns \ {c} : LivesOn(d) => handler'[d].id # i
    BY <1>2, <1>4
  <2> QED BY <1>4, <2>1, <2>2
<1>9. RegisteredAreLive'
  BY <1>6, <1>7, <1>8, Registering
<1> QED BY <1>2, <1>4, <1>5, <1>9 DEF ServerInv, Shapes

LEMMA ServerStep == ServerInv /\ [Next]_vars => ServerInv'
<1> SUFFICES ASSUME ServerInv, [Next]_vars PROVE ServerInv'
  OBVIOUS
<1>1. CASE UNCHANGED vars
  BY <1>1 DEF vars, tables, ServerInv, Shapes, RegisteredAreLive, Subscribers, Live
<1>2. CASE Reader
  BY <1>2, BroadcastEntityStep, VisitClientStep, EndEntityStep, VisitDeviceStep,
     EndDeviceStep, ResumeStep DEF Reader
<1>3. ASSUME UNCHANGED <<tables, handler, reader>>
      PROVE  ServerInv'
  BY <1>3, Reading DEF ServerInv, Shapes
<1>4. CASE SetUp
  BY <1>3, <1>4 DEF SetUp
<1>5. ASSUME NEW c \in Conns, Handle(c)
      PROVE  ServerInv'
  BY <1>5, PlainSteps, AnsweredStep DEF Handle
<1>6. ASSUME NEW c \in Conns, Client(c)
      PROVE  ServerInv'
  <2>1. CASE Connect(c)
    BY <2>1, ConnectStep
  <2>2. CASE Receive(c)
    BY <2>2, ReceiveStep
  <2>3. CASE Stall(c)
    BY <1>3, <2>3 DEF Stall
  <2>4. CASE Drain(c) \/ Close(c)
    BY <2>4, WakeStep DEF Drain, Close
  <2> QED BY <1>6, <2>1, <2>2, <2>3, <2>4 DEF Client
<1> QED BY <1>1, <1>2, <1>4, <1>5, <1>6 DEF Next

\* The keys in the gateway's tables are those of connections whose handlers run
\* (websocket.py, _websocket_handler and _send_to_client), for any number of
\* clients that come, go and are forgotten by a failed send meanwhile.
THEOREM ServerSafety == Spec => []RegisteredAreLive
<1>1. Spec => []ServerInv
  BY InitShapes, ServerStep, PTL DEF Spec
<1>2. ServerInv => RegisteredAreLive
  BY DEF ServerInv
<1> QED BY <1>1, <1>2, PTL
-----------------------------------------------------------------------------
(***************************************************************************)
(* Answers and calls                                                       *)
(***************************************************************************)
\* What a handler that waits for Home Assistant has had it do so far.
Waits(h) ==
    /\ h.answers = <<>>
    /\ h.ask \in Asks
    /\ h.ask \in {"call", "recall", "options"} => h.effects = 0
    /\ h.ask = "poll" => h.kind = "set_state" /\ h.effects = 1
    /\ h.ask = "states" => h.kind \notin Calling /\ h.effects = 0

\* What a handler has answered and had done, wherever it is.
Replies(h) ==
    /\ h.pc \in {"off", "initial", "greeting"} => h.used = 0
    /\ h.pc = "asking" => Waits(h)
    /\ Len(h.answers) <= 1
    /\ h.effects <= 1
    /\ h.kind \in Calling /\ "success" \in ToSet(h.answers) => h.effects = 1

Answers(h) == h.pc \in {"idle", "sending"} /\ h.used > 0 => Len(h.answers) = 1

\* As long as its client is connected, a handler is not forgotten and does answer.
RepliesInv ==
    \A c \in Conns :
        /\ Replies(handler[c])
        /\ sock[c] = "open" => Answers(handler[c])
        /\ Live(c) /\ sock[c] = "open" => clients[handler[c].id] = c

\* The parts of the invariant after a step.
LEMMA Replying ==
  ASSUME \A c \in Conns : Replies(handler'[c]),
         \A c \in Conns : sock'[c] = "open" => Answers(handler'[c]),
         \A c \in Conns : LivesOn(c) /\ sock'[c] = "open" => clients'[handler'[c].id] = c
  PROVE  RepliesInv'
BY DEF RepliesInv, LivesOn, Live, Replies, Answers, Waits

\* A client whose connection is closed is forgotten; the handlers stay where they are.
LEMMA RepliesForgetting ==
  ASSUME RepliesInv, ServerInv, UNCHANGED <<handler, sock>>, NEW i \in Ids,
         clients' = [clients EXCEPT ![i] = Nobody],
         clients[i] # Nobody => sock[clients[i]] # "open"
  PROVE  RepliesInv'
<1>1. \A c \in Conns : c # Nobody /\ handler[c].id \in Ids
  BY NamesAssumption DEF ServerInv, Shapes, Place
<1>2. clients \in [Ids -> Conns \union {Nobody}]
  BY DEF ServerInv, Shapes
<1>3. ASSUME NEW c \in Conns, LivesOn(c), sock'[c] = "open"
      PROVE  clients'[handler'[c].id] = c
  <2>1. clients[handler[c].id] = c
    BY <1>3 DEF RepliesInv, LivesOn, Live
  <2>2. handler[c].id # i
    BY <1>1, <1>3, <2>1
  <2> QED BY <1>1, <1>2, <2>1, <2>2
<1> QED BY <1>3, Replying DEF RepliesInv

\* One handler moves, under its key; its client is forgotten at most when the
\* connection is closed.
LEMMA RepliesMoving ==
  ASSUME RepliesInv, ServerInv, NEW c \in Conns, NEW place \in Place,
         handler' = [handler EXCEPT ![c] = place], place.id = handler[c].id,
         Replies(place), sock'[c] = "open" => Answers(place) /\ clients' = clients,
         place.pc \in {"off", "left"} \/ Live(c),
         \/ clients' = clients
         \/ Live(c) /\ clients' = [clients EXCEPT ![handler[c].id] = Nobody],
         \A d \in Conns : sock'[d] = "open" => sock[d] = "open"
  PROVE  RepliesInv'
<1>1. /\ handler \in [Conns -> Place] /\ handler[c].id \in Ids
      /\ clients \in [Ids -> Conns \union {Nobody}]
      /\ \A d \in Conns : handler[d].id \in Ids
  BY DEF ServerInv, Shapes, Place
<1>2. handler'[c] = place /\ \A d \in Conns \ {c} : handler'[d] = handler[d]
  BY <1>1
<1>3. ASSUME NEW d \in Conns
      PROVE  /\ Replies(handler'[d])
             /\ sock'[d] = "open" => Answers(handler'[d])
             /\ LivesOn(d) /\ sock'[d] = "open" => clients'[handler'[d].id] = d
  <2>1. CASE d = c
    <3>1. Replies(handler'[d]) /\ (sock'[d] = "open" => Answers(handler'[d]))
      BY <1>2, <2>1
    <3>2. LivesOn(d) => Live(c)
      BY <1>2, <2>1 DEF LivesOn
    <3>3. Live(c) /\ sock[c] = "open" => clients[handler[c].id] = c
      BY DEF RepliesInv
    <3> QED BY <1>2, <2>1, <3>1, <3>2, <3>3
  <2>2. CASE d # c
    <3>1. /\ handler'[d] = handler[d]
          /\ Replies(handler[d]) /\ (sock'[d] = "open" => Answers(handler[d]))
      BY <1>2, <2>2 DEF RepliesInv
    <3>2. ASSUME LivesOn(d), sock'[d] = "open"
          PROVE  clients'[handler'[d].id] = d
      <4>1. Live(d) /\ clients[handler[d].id] = d
        BY <3>1, <3>2 DEF RepliesInv, LivesOn, Live
      <4>2. Live(c) => handler[d].id # handler[c].id
        BY <2>2, <4>1 DEF ServerInv, RegisteredAreLive
      <4> QED BY <1>1, <3>1, <4>1, <4>2
    <3> QED BY <3>1, <3>2
  <2> QED BY <2>1, <2>2
<1> QED BY <1>3, Replying

\* What Moved makes of a handler.
LEMMA MovedIs ==
  ASSUME Shapes, NEW c \in Conns, NEW next, NEW effects, NEW sent
  PROVE  /\ Moved(c, next, effects, sent).ask = next.ask
         /\ Moved(c, next, effects, sent).answers = handler[c].answers \o Sending(next, sent)
         /\ Moved(c, next, effects, sent).effects = handler[c].effects + effects
         /\ Moved(c, next, effects, sent).kind = handler[c].kind
         /\ Moved(c, next, effects, sent).used = handler[c].used
         /\ Moved(c, next, effects, sent).pc =
                IF sent = "sent" /\ c \in stalled THEN "sending"
                ELSE IF next.ask # "none" THEN "asking" ELSE "idle"
BY DEF Moved, Shapes, Place

\* A request asks Home Assistant or answers, and answers a call only later.
LEMMA Beginning ==
  ASSUME NEW kind \in AllKinds
  PROVE  LET next == Begin(kind) IN
         /\ next.ask # "none" => next.answer = "none"
         /\ next.ask = "none" => next.answer \in {"success", "error"}
         /\ next.ask \in {"none", "states", "call", "options"}
         /\ next.ask = "states" => kind \notin Calling
         /\ next.answer = "success" => kind \notin Calling
BY DEF Begin, Go, Done, Then, Calling, AllKinds

\* What Home Assistant has done by the time of an outcome, the next thing tells.
Tells(kind, next, ran) ==
    /\ next.ask # "none" => next.answer = "none"
    /\ next.ask = "none" => next.answer \in {"success", "error"}
    /\ next.ask \in {"none", "call", "recall", "poll"}
    /\ next.ask \in {"call", "recall"} => ran = 0
    /\ next.ask = "poll" => kind = "set_state" /\ ran = 1
    /\ next.answer = "success" /\ kind \in Calling => ran = 1
    /\ ran \in {0, 1}

LEMMA TellingOf ==
  ASSUME NEW kind, NEW ask, NEW polls, NEW outcome, NEW ran,
         \/ ask \in {"call", "recall"} /\ outcome = "ok" /\ ran = 1
         \/ ask \in {"call", "recall"} /\ outcome = "error" /\ ran \in {0, 1}
         \/ ask \in {"call", "recall"} /\ outcome = "unsupported" /\ ran = 0
         \/ ask = "options" /\ outcome \in {"ok", "other"} /\ ran = 0
         \/ ask = "poll" /\ kind = "set_state" /\ outcome # "unsupported" /\ ran = 1
         \/ ask = "states" /\ kind \notin Calling /\ outcome # "unsupported" /\ ran = 0
  PROVE  Tells(kind, Proceed(kind, ask, polls, outcome), ran)
<1>1. /\ \A answer : Done(answer).answer = answer /\ Done(answer).ask = "none"
      /\ \A a : Go(a).answer = "none" /\ Go(a).ask = a
  BY DEF Done, Go, Then
<1>2. /\ ran \in {0, 1} => Tells(kind, Done("error"), ran)
      /\ ran = 1 \/ (ran = 0 /\ kind \notin Calling) => Tells(kind, Done("success"), ran)
      /\ ran = 0 => Tells(kind, Go("call"), ran) /\ Tells(kind, Go("recall"), ran)
      /\ ran = 1 /\ kind = "set_state" => Tells(kind, Go("poll"), ran)
  BY <1>1 DEF Tells
<1> DEFINE next == Proceed(kind, ask, polls, outcome)
           more == polls < MaxPolls
<1>3. next = IF Recalls(kind, ask, outcome) THEN Go("recall")
             ELSE IF outcome = "error" THEN Done("error")
             ELSE IF ask = "options" THEN WithOption(outcome = "ok")
             ELSE IF kind = "get_state" THEN Done(IF outcome = "ok" THEN "success" ELSE "error")
             ELSE IF kind = "set_state" /\ ask = "call" THEN Go("poll")
             ELSE IF ask = "poll" /\ outcome # "ok" /\ more THEN Go("poll")
             ELSE IF ask = "poll" THEN Done(IF outcome = "absent" THEN "error" ELSE "success")
             ELSE Done("success")
  BY DEF Proceed
<1>4. more \in BOOLEAN
  OBVIOUS
<1> HIDE DEF next, more
<1>5. CASE ask \in {"call", "recall"}
  <2>1. CASE outcome = "ok" /\ ran = 1
    <3>1. (next = Go("poll") /\ kind = "set_state") \/ next = Done("success")
      BY <1>3, <1>5, <2>1 DEF Recalls
    <3> QED BY <1>2, <2>1, <3>1 DEF next
  <2>2. CASE outcome = "error" /\ ran \in {0, 1}
    <3>1. next = Done("error")
      BY <1>3, <2>2 DEF Recalls
    <3> QED BY <1>2, <2>2, <3>1 DEF next
  <2>3. CASE outcome = "unsupported" /\ ran = 0
    <3>1. next = Go("recall")
      BY <1>3, <2>3 DEF Recalls
    <3> QED BY <1>2, <2>3, <3>1 DEF next
  <2> QED BY <1>5, <2>1, <2>2, <2>3
<1>6. CASE ask = "options"
  <2>1. outcome \in {"ok", "other"} /\ ran = 0
    BY <1>6
  <2>2. next = WithOption(outcome = "ok")
    BY <1>3, <1>6, <2>1 DEF Recalls
  <2>3. next \in {Go("call"), Done("error")}
    BY <2>2 DEF WithOption
  <2> QED BY <1>2, <2>1, <2>3 DEF next
<1>7. CASE ask = "poll"
  <2>1. kind = "set_state" /\ outcome # "unsupported" /\ ran = 1
    BY <1>7
  <2>2. next \in {Done("error"), Go("poll"), Done("success")}
    BY <1>3, <1>7, <2>1 DEF Recalls
  <2> QED BY <1>2, <2>1, <2>2 DEF next
<1>8. CASE ask = "states"
  <2>1. kind \notin Calling /\ outcome # "unsupported" /\ ran = 0
    BY <1>8
  <2>2. next \in {Done("error"), Done("success")}
    BY <1>3, <1>8, <2>1 DEF Recalls, Calling
  <2> QED BY <1>2, <2>1, <2>2 DEF next
<1> QED BY <1>5, <1>6, <1>7, <1>8

LEMMA Telling ==
  ASSUME NEW c \in Conns, handler[c] \in Place, Waits(handler[c]), NEW o \in Outcomes(c)
  PROVE  Tells(handler[c].kind,
               Proceed(handler[c].kind, handler[c].ask, handler[c].polls, o[1]),
               handler[c].effects + o[2])
<1> DEFINE kind == handler[c].kind
           ask == handler[c].ask
           ran == handler[c].effects + o[2]
<1>1. ask \in Asks
  BY DEF Waits
<1>2. CASE ask \in {"call", "recall"}
  <2>1. handler[c].effects = 0
    BY <1>2 DEF Waits
  <2>2. \/ o[1] = "ok" /\ ran = 1
        \/ o[1] = "error" /\ ran \in {0, 1}
        \/ o[1] = "unsupported" /\ ran = 0
    BY <1>2, <2>1 DEF Outcomes
  <2> HIDE DEF ran, ask
  <2>3. Tells(kind, Proceed(kind, ask, handler[c].polls, o[1]), ran)
    BY <1>2, <2>2, TellingOf
  <2> QED BY <2>3 DEF ran, ask
<1>3. CASE ask = "options"
  <2>1. ran = 0 /\ o[1] \in {"ok", "other"}
    BY <1>3 DEF Waits, Outcomes
  <2> QED BY <1>3, <2>1, TellingOf
<1>4. CASE ask = "poll"
  <2>1. ran = 1 /\ kind = "set_state" /\ o[1] # "unsupported"
    BY <1>4 DEF Waits, Outcomes
  <2> QED BY <1>4, <2>1, TellingOf
<1>5. CASE ask = "states"
  <2>1. ran = 0 /\ kind \notin Calling /\ o[1] # "unsupported"
    BY <1>5 DEF Waits, Outcomes
  <2> QED BY <1>5, <2>1, TellingOf
<1> QED BY <1>1, <1>2, <1>3, <1>4, <1>5 DEF Asks

\* The answer a handler makes, and why it makes none.
LEMMA SendingIs ==
  ASSUME NEW next \in Plan, NEW sent, sent = "sent" => next.answer # "none"
  PROVE  /\ sent = "sent" => /\ Len(Sending(next, sent)) = 1
                             /\ ToSet(Sending(next, sent)) = {next.answer}
         /\ sent # "sent" => /\ Sending(next, sent) = <<>>
                             /\ ToSet(Sending(next, sent)) = {}
         /\ Len(Sending(next, sent)) <= 1
         /\ ToSet(Sending(next, sent)) \subseteq {next.answer}
         /\ <<>> \o Sending(next, sent) = Sending(next, sent)
<1>1. CASE sent = "sent"
  <2>1. Sending(next, sent) = <<next.answer>>
    BY <1>1 DEF Sending
  <2>2. next.answer \in {"success", "error"}
    BY <1>1 DEF Plan
  <2> HIDE DEF Sending
  <2>3. <<next.answer>> \in Seq({"success", "error"}) /\ Len(<<next.answer>>) = 1
        /\ ToSet(<<next.answer>>) = {next.answer}
    BY <2>2 DEF ToSet
  <2>4. <<>> \o <<next.answer>> = <<next.answer>>
    BY <2>3, ConcatEmptySeq
  <2>5. Len(<<next.answer>>) <= 1
    BY <2>3
  <2> QED BY <1>1, <2>1, <2>3, <2>4, <2>5
<1>2. CASE sent # "sent"
  <2>1. Sending(next, sent) = <<>>
    BY <1>2 DEF Sending
  <2>2. <<>> \in Seq({"success", "error"}) /\ Len(<<>>) = 0 /\ ToSet(<<>>) = {}
    BY EmptySeq DEF ToSet
  <2>3. <<>> \o <<>> = <<>>
    BY <2>2, ConcatEmptySeq
  <2> QED BY <1>2, <2>1, <2>2, <2>3
<1> QED BY <1>1, <1>2

\* What has not answered yet answers at most once, and says so when a call was made.
LEMMA AnsweredReplies ==
  ASSUME ServerInv, RepliesInv, NEW c \in Conns, Answered(c)
  PROVE  RepliesInv'
<1>1. handler[c] \in Place /\ Live(c) /\ handler[c].pc = "asking" /\ sock' = sock
  BY DEF Answered, Live, ServerInv, Shapes
<1>2. Waits(handler[c]) /\ handler[c].answers = <<>>
  BY <1>1 DEF RepliesInv, Replies, Waits
<1>3. PICK o \in Outcomes(c) :
        LET next == Proceed(handler[c].kind, handler[c].ask, handler[c].polls, o[1])
            sent == Answer(c, next.answer)
        IN  /\ handler' = [handler EXCEPT ![c] = Moved(c, next, o[2], sent)]
            /\ IF sent = "raised" THEN Forget(handler[c].id) ELSE UNCHANGED tables
  BY DEF Answered
<1> DEFINE next == Proceed(handler[c].kind, handler[c].ask, handler[c].polls, o[1])
           sent == Answer(c, next.answer)
           place == Moved(c, next, o[2], sent)
           ran == handler[c].effects + o[2]
<1>4. next \in Plan /\ o[2] \in {0, 1} /\ (sent = "sent" => next.answer # "none")
  BY Plans DEF Outcomes, Answer
<1>5. Tells(handler[c].kind, next, ran)
  BY <1>1, <1>2, Telling
<1>6. /\ sent = "raised" => sock[c] # "open"
      /\ sock[c] = "open" /\ next.answer # "none" => sent = "sent"
  <2>1. Live(c) /\ sock[c] = "open" => clients[handler[c].id] = c
    BY DEF RepliesInv
  <2>2. next.answer = "none" => sent = "skipped"
    BY DEF Answer
  <2> QED BY <1>1, <2>1, <2>2 DEF Answer, Sendable
<1>7. handler' = [handler EXCEPT ![c] = place]
      /\ (IF sent = "raised" THEN Forget(handler[c].id) ELSE UNCHANGED tables)
  BY <1>3
<1> HIDE DEF next, sent
<1>8. place \in Place /\ place.id = handler[c].id /\ place.pc \in {"sending", "asking", "idle"}
  BY <1>4, Moving DEF ServerInv
<1>9. /\ place.ask = next.ask /\ place.effects = ran /\ place.kind = handler[c].kind
      /\ place.answers = Sending(next, sent)
      /\ place.pc = IF sent = "sent" /\ c \in stalled THEN "sending"
                    ELSE IF next.ask # "none" THEN "asking" ELSE "idle"
  <2>1. Shapes
    BY DEF ServerInv
  <2>2. /\ place.ask = next.ask /\ place.effects = ran /\ place.kind = handler[c].kind
        /\ place.pc = IF sent = "sent" /\ c \in stalled THEN "sending"
                      ELSE IF next.ask # "none" THEN "asking" ELSE "idle"
    BY <2>1, MovedIs
  <2>3. place.answers = handler[c].answers \o Sending(next, sent)
    BY <2>1, MovedIs
  <2>4. <<>> \o Sending(next, sent) = Sending(next, sent)
    BY <1>4, SendingIs
  <2>5. handler[c].answers \o Sending(next, sent) = Sending(next, sent)
    BY <1>2, <2>4
  <2> HIDE DEF place
  <2> QED BY <2>2, <2>3, <2>5
<1> HIDE DEF place, ran
<1>10. /\ Len(place.answers) <= 1
       /\ "success" \in ToSet(place.answers) => next.answer = "success"
       /\ sent = "sent" => Len(place.answers) = 1
       /\ sent # "sent" => place.answers = <<>>
  BY <1>4, <1>9, SendingIs
<1>11. Replies(place)
  <2>1. place.pc = "asking" => next.ask # "none" /\ sent # "sent"
    BY <1>4, <1>5, <1>9 DEF Tells
  <2>2. place.pc = "asking" => Waits(place)
    BY <1>5, <1>9, <1>10, <2>1 DEF Waits, Tells, Asks
  <2>3. place.effects <= 1
    <3>1. place.effects \in {0, 1}
      BY <1>5, <1>9 DEF Tells
    <3> QED BY <3>1
  <2>4. Len(place.answers) <= 1
    BY <1>10
  <2> QED BY <1>5, <1>8, <1>9, <1>10, <2>2, <2>3, <2>4 DEF Replies, Tells
<1>12. sock[c] = "open" => Answers(place) /\ clients' = clients
  <2>1. sock[c] = "open" /\ place.pc \in {"idle", "sending"} => Len(place.answers) = 1
    BY <1>5, <1>6, <1>9, <1>10 DEF Tells
  <2>2. sock[c] = "open" => clients' = clients
    BY <1>6, <1>7 DEF tables
  <2> QED BY <2>1, <2>2 DEF Answers
<1>13. clients' = clients \/ clients' = [clients EXCEPT ![handler[c].id] = Nobody]
  BY <1>7 DEF Forget, tables
<1> QED BY <1>1, <1>7, <1>8, <1>11, <1>12, <1>13, RepliesMoving

LEMMA ReceiveReplies ==
  ASSUME ServerInv, RepliesInv, NEW c \in Conns, Receive(c)
  PROVE  RepliesInv'
<1>1. handler[c] \in Place /\ Live(c) /\ handler[c].pc = "idle" /\ sock' = sock
  BY DEF Receive, Live, ServerInv, Shapes
<1>2. PICK kind \in Kinds[c], t \in Topics :
        LET next == Begin(kind)
            sent == Answer(c, next.answer)
        IN  /\ handler' = [handler EXCEPT ![c] =
                    [Moved(c, next, 0, sent) EXCEPT
                        !.kind = kind, !.topic = t, !.used = @ + 1, !.effects = 0,
                        !.polls = 0, !.answers = Sending(next, sent)]]
            /\ IF sent = "raised" THEN Forget(handler[c].id) ELSE UNCHANGED clients
  BY DEF Receive
<1>3. kind \in AllKinds
  BY NamesAssumption
<1> DEFINE next == Begin(kind)
           sent == Answer(c, next.answer)
           moved == Moved(c, next, 0, sent)
           used == moved.used + 1
           answers == Sending(next, sent)
           place == [moved EXCEPT !.kind = kind, !.topic = t, !.used = used, !.effects = 0,
                                  !.polls = 0, !.answers = answers]
<1>4. /\ handler' = [handler EXCEPT ![c] = place]
      /\ IF sent = "raised" THEN Forget(handler[c].id) ELSE UNCHANGED clients
  BY <1>2
<1>5. next \in Plan /\ (sent = "sent" => next.answer # "none")
  BY <1>3, Plans DEF Answer
<1>6. /\ sent = "raised" => sock[c] # "open"
      /\ sock[c] = "open" /\ next.answer # "none" => sent = "sent"
  <2>1. Live(c) /\ sock[c] = "open" => clients[handler[c].id] = c
    BY DEF RepliesInv
  <2>2. next.answer = "none" => sent = "skipped"
    BY DEF Answer
  <2> QED BY <1>1, <2>1, <2>2 DEF Answer, Sendable
<1>7. /\ next.ask # "none" => next.answer = "none"
      /\ next.ask = "none" => next.answer \in {"success", "error"}
      /\ next.ask \in {"none", "states", "call", "options"}
      /\ next.ask = "states" => kind \notin Calling
      /\ next.answer = "success" => kind \notin Calling
  BY <1>3, Beginning
<1> HIDE DEF next, sent
<1>8. moved \in Place /\ moved.id = handler[c].id /\ answers \in Seq({"success", "error"})
  BY <1>5, Moving DEF ServerInv
<1>9. /\ moved.ask = next.ask
      /\ moved.pc = IF sent = "sent" /\ c \in stalled THEN "sending"
                    ELSE IF next.ask # "none" THEN "asking" ELSE "idle"
  BY MovedIs DEF ServerInv
<1>10. /\ Len(answers) <= 1
       /\ "success" \in ToSet(answers) => next.answer = "success"
       /\ sent = "sent" => Len(answers) = 1
       /\ sent # "sent" => answers = <<>>
  BY <1>5, SendingIs
<1> HIDE DEF moved, answers
<1>11. used \in Nat
  BY <1>8 DEF Place
<1> HIDE DEF used
<1>12. /\ place \in Place /\ place.id = handler[c].id /\ place.pc = moved.pc /\ place.ask = next.ask
       /\ place.kind = kind /\ place.effects = 0 /\ place.answers = answers
  BY <1>3, <1>8, <1>9, <1>11 DEF Place
<1> HIDE DEF place
<1>13. Replies(place)
  <2>1. place.pc = "asking" => next.ask # "none" /\ sent # "sent"
    BY <1>5, <1>7, <1>9, <1>12
  <2>2. place.pc = "asking" => Waits(place)
    BY <1>7, <1>10, <1>12, <2>1 DEF Waits, Asks
  <2>3. place.pc \notin {"off", "initial", "greeting"}
    BY <1>9, <1>12
  <2>4. Len(place.answers) <= 1 /\ place.effects <= 1
    <3>1. Len(place.answers) <= 1
      BY <1>10, <1>12
    <3>2. place.effects = 0
      BY <1>12
    <3> QED BY <3>1, <3>2
  <2>5. "success" \in ToSet(place.answers) => place.kind \notin Calling
    BY <1>7, <1>10, <1>12
  <2> QED BY <2>2, <2>3, <2>4, <2>5 DEF Replies
<1>14. sock[c] = "open" => Answers(place) /\ clients' = clients
  <2>1. sock[c] = "open" /\ place.pc \in {"idle", "sending"} => Len(place.answers) = 1
    BY <1>6, <1>7, <1>9, <1>10, <1>12
  <2>2. sock[c] = "open" => clients' = clients
    BY <1>4, <1>6
  <2> QED BY <2>1, <2>2 DEF Answers
<1>15. clients' = clients \/ clients' = [clients EXCEPT ![handler[c].id] = Nobody]
  BY <1>4 DEF Forget
<1> QED BY <1>1, <1>4, <1>12, <1>13, <1>14, <1>15, RepliesMoving

\* A handler that only goes on, is woken or leaves has answered what it had.
LEMMA PlainReplies ==
  ASSUME ServerInv, RepliesInv, NEW c \in Conns,
         FetchInitial(c) \/ Greet(c) \/ Sent(c) \/ Leave(c) \/ Drain(c) \/ Close(c)
  PROVE  RepliesInv'
<1>1. handler \in [Conns -> Place] /\ handler[c] \in Place
  BY DEF ServerInv, Shapes
<1>2. PICK pc \in Pcs, woken \in BOOLEAN :
        /\ handler' = [handler EXCEPT ![c] = [handler[c] EXCEPT !.pc = pc, !.woken = woken]]
        /\ \/ pc = handler[c].pc
           \/ handler[c].pc \in {"initial", "greeting"} /\ pc \in {"greeting", "idle"}
           \/ handler[c].pc = "sending" /\ pc = "idle"
           \/ sock[c] = "closed" /\ handler[c].pc = "idle" /\ pc = "left"
        /\ \/ clients' = clients
           \/ /\ Live(c) /\ sock[c] = "closed"
              /\ clients' = [clients EXCEPT ![handler[c].id] = Nobody]
  <2>1. CASE FetchInitial(c) \/ Greet(c)
    <3>1. PICK pc \in {"greeting", "idle"} : handler' = [handler EXCEPT ![c].pc = pc]
      BY <2>1 DEF FetchInitial, Greet, Greeted
    <3>2. handler' = [handler EXCEPT ![c] = [handler[c] EXCEPT !.pc = pc, !.woken = handler[c].woken]]
      BY <1>1, <3>1 DEF Place
    <3>3. pc \in Pcs /\ handler[c].woken \in BOOLEAN /\ clients' = clients
          /\ handler[c].pc \in {"initial", "greeting"}
      BY <1>1, <2>1 DEF Pcs, Place, FetchInitial, Greet, tables
    <3> QED BY <3>2, <3>3
  <2>2. CASE Sent(c)
    <3>1. handler' = [handler EXCEPT ![c] = [handler[c] EXCEPT !.pc = "idle", !.woken = FALSE]]
          /\ handler[c].pc = "sending" /\ Live(c)
      BY <2>2 DEF Sent, Live
    <3>2. clients' = clients \/ (sock[c] = "closed" /\ clients' = [clients EXCEPT ![handler[c].id] = Nobody])
      BY <2>2 DEF Sent, Forget, tables
    <3> QED BY <3>1, <3>2 DEF Pcs
  <2>3. CASE Leave(c)
    <3>1. handler' = [handler EXCEPT ![c] = [handler[c] EXCEPT !.pc = "left", !.woken = handler[c].woken]]
          /\ handler[c].pc = "idle" /\ sock[c] = "closed" /\ Live(c)
      BY <1>1, <2>3 DEF Leave, Live, Place
    <3>2. clients' = [clients EXCEPT ![handler[c].id] = Nobody] /\ handler[c].woken \in BOOLEAN
      BY <1>1, <2>3 DEF Leave, Forget, Place
    <3> QED BY <3>1, <3>2 DEF Pcs
  <2>4. CASE Drain(c) \/ Close(c)
    <3> DEFINE woken == handler[c].woken \/ handler[c].pc = "sending"
    <3>1. woken \in BOOLEAN /\ handler[c].pc \in Pcs
      BY <1>1 DEF Place
    <3>2. handler' = [handler EXCEPT ![c] = [handler[c] EXCEPT !.woken = woken]] /\ clients' = clients
      BY <2>4 DEF Drain, Close, WakeWaiters, tables
    <3> HIDE DEF woken
    <3>3. handler' = [handler EXCEPT ![c] = [handler[c] EXCEPT !.pc = handler[c].pc, !.woken = woken]]
      BY <1>1, <3>2 DEF Place
    <3> QED BY <3>1, <3>2, <3>3
  <2> QED BY <2>1, <2>2, <2>3, <2>4
<1> DEFINE place == [handler[c] EXCEPT !.pc = pc, !.woken = woken]
<1>3. /\ place \in Place /\ place.id = handler[c].id /\ place.pc = pc
      /\ place.answers = handler[c].answers /\ place.effects = handler[c].effects
      /\ place.used = handler[c].used /\ place.kind = handler[c].kind /\ place.ask = handler[c].ask
  BY <1>1 DEF Place
<1>4. handler' = [handler EXCEPT ![c] = place]
  BY <1>2
<1> HIDE DEF place
<1>5. \A d \in Conns : sock'[d] = "open" => sock[d] = "open"
  <2>1. CASE Close(c)
    <3>1. sock' = [sock EXCEPT ![c] = "closed"]
      BY <2>1 DEF Close
    <3> QED BY <3>1
  <2>2. CASE ~Close(c)
    BY <2>2 DEF FetchInitial, Greet, Sent, Leave, Drain
  <2> QED BY <2>1, <2>2
<1>6. Replies(handler[c]) /\ (sock[c] = "open" => Answers(handler[c]))
  BY DEF RepliesInv
<1>7. Replies(place)
  BY <1>2, <1>3, <1>6 DEF Replies, Waits
<1>8. sock'[c] = "open" => Answers(place) /\ clients' = clients
  <2>1. sock'[c] = "open" => sock[c] = "open" /\ sock[c] # "closed"
    BY <1>5
  <2> QED BY <1>2, <1>3, <1>6, <2>1 DEF Answers, Replies
<1>9. place.pc \in {"off", "left"} \/ Live(c)
  BY <1>2, <1>3 DEF Live
<1> QED BY <1>2, <1>3, <1>4, <1>5, <1>7, <1>8, <1>9, RepliesMoving

LEMMA ConnectReplies ==
  ASSUME ServerInv, RepliesInv, NEW c \in Conns, Connect(c)
  PROVE  RepliesInv'
<1>1. PICK i \in FreeIds, pc \in {"initial", "greeting", "idle"} :
        /\ clients' = [clients EXCEPT ![i] = c]
        /\ handler' = [handler EXCEPT ![c].pc = pc, ![c].id = i]
  BY DEF Connect, Greeted
<1>2. /\ i \in Ids /\ handler[c].pc = "off" /\ sock' = [sock EXCEPT ![c] = "open"]
      /\ \A d \in Conns : Live(d) => handler[d].id # i
  BY <1>1 DEF FreeIds, Connect
<1>3. /\ handler \in [Conns -> Place] /\ handler[c] \in Place
      /\ clients \in [Ids -> Conns \union {Nobody}]
      /\ \A d \in Conns : handler[d].id \in Ids
  BY DEF ServerInv, Shapes, Place
<1> DEFINE place == [handler[c] EXCEPT !.pc = pc, !.id = i]
<1>4. handler' = [handler EXCEPT ![c] = place]
  BY <1>1
<1>5. /\ place.id = i /\ place.pc = pc
      /\ place.answers = handler[c].answers /\ place.effects = handler[c].effects
      /\ place.used = handler[c].used /\ place.kind = handler[c].kind
  BY <1>2, <1>3 DEF Place
<1> HIDE DEF place
<1>6. handler'[c] = place /\ \A d \in Conns \ {c} : handler'[d] = handler[d]
  BY <1>3, <1>4
<1>7. Replies(place) /\ Answers(place)
  <2>1. Replies(handler[c]) /\ handler[c].used = 0
    BY <1>2 DEF RepliesInv, Replies
  <2> QED BY <1>5, <2>1 DEF Replies, Answers
<1>8. ASSUME NEW d \in Conns
      PROVE  /\ Replies(handler'[d])
             /\ sock'[d] = "open" => Answers(handler'[d])
             /\ LivesOn(d) /\ sock'[d] = "open" => clients'[handler'[d].id] = d
  <2>1. CASE d = c
    BY <1>1, <1>2, <1>3, <1>5, <1>6, <1>7, <2>1
  <2>2. CASE d # c
    <3>1. sock'[d] = "open" => sock[d] = "open"
      BY <1>2, <2>2
    <3>2. Replies(handler'[d]) /\ (sock'[d] = "open" => Answers(handler'[d]))
      BY <1>6, <2>2, <3>1 DEF RepliesInv
    <3>3. ASSUME LivesOn(d), sock'[d] = "open"
          PROVE  clients'[handler'[d].id] = d
      <4>1. Live(d) /\ clients[handler[d].id] = d
        BY <1>6, <2>2, <3>1, <3>3 DEF RepliesInv, LivesOn, Live
      <4>2. handler[d].id # i
        BY <1>2, <4>1
      <4> QED BY <1>1, <1>2, <1>3, <1>6, <2>2, <4>1, <4>2
    <3> QED BY <3>2, <3>3
  <2> QED BY <2>1, <2>2
<1> QED BY <1>8, Replying

\* The reader forgets clients whose connections are closed.
LEMMA ReaderReplies ==
  ASSUME ServerInv, RepliesInv, Reader
  PROVE  RepliesInv'
<1>1. UNCHANGED <<handler, sock>>
  BY DEF Reader, BroadcastEntity, VisitClient, EndEntity, EndWalk, VisitDevice, EndDevice, Resume
<1>2. ASSUME NEW i \in Ids, NEW what, SendChange(i, what)
      PROVE  RepliesInv'
  <2>1. CASE clients' = clients
    BY <1>1, <2>1, Replying DEF RepliesInv, LivesOn, Live
  <2>2. CASE clients[i] # Nobody /\ ~Sendable(clients[i]) /\ Forget(i)
    BY <1>1, <2>2, RepliesForgetting DEF Forget, Sendable
  <2> QED BY <1>2, <2>1, <2>2 DEF SendChange, tables
<1>3. CASE UNCHANGED clients
  BY <1>1, <1>3, Replying DEF RepliesInv, LivesOn, Live
<1>4. CASE VisitClient
  <2> DEFINE i == order[reader.pos + 1]
  <2>1. order \in Seq(Slot) /\ Len(order) \in Nat /\ reader.pos \in Nat
    BY LenProperties DEF ServerInv, Shapes, Walk
  <2>2. reader.pos + 1 \in 1 .. Len(order)
    BY <1>4, <2>1 DEF VisitClient
  <2>3. i \in Slot
    BY <2>1, <2>2, ElementOfSeq
  <2>4. UNCHANGED clients \/ (i # Hole /\ SendChange(i, "entity"))
    BY <1>4 DEF VisitClient, tables
  <2> HIDE DEF i
  <2> QED BY <1>2, <1>3, <2>3, <2>4 DEF Slot
<1>5. CASE VisitDevice
  <2> DEFINE list == devsubs[reader.e]
  <2>1. reader.e \in Entities /\ reader.pos \in Nat
    BY <1>5 DEF ServerInv, Shapes, VisitDevice, Walk
  <2>2. list \in Seq(Ids)
    BY <2>1 DEF ServerInv, Shapes
  <2>3. reader.pos + 1 \in 1 .. Len(list)
    BY <1>5, <2>1, <2>2, LenProperties DEF VisitDevice
  <2>4. list[reader.pos + 1] \in Ids
    BY <2>2, <2>3, ElementOfSeq
  <2>5. SendChange(list[reader.pos + 1], "device")
    BY <1>5 DEF VisitDevice
  <2> HIDE DEF list
  <2> QED BY <1>2, <2>4, <2>5
<1>6. CASE Resume
  <2> DEFINE c == reader.on
  <2>1. c \in Conns /\ handler[c].id \in Ids
    BY <1>6 DEF Resume, ServerInv, Shapes, Walk, Place
  <2>2. UNCHANGED clients \/ (sock[c] = "closed" /\ clients[handler[c].id] = c /\ Forget(handler[c].id))
    BY <1>6 DEF Resume, tables
  <2>3. CASE sock[c] = "closed" /\ clients[handler[c].id] = c /\ Forget(handler[c].id)
    BY <1>1, <2>1, <2>3, RepliesForgetting DEF Forget
  <2> QED BY <1>3, <2>2, <2>3
<1>7. BroadcastEntity \/ EndEntity \/ EndDevice => UNCHANGED clients
  BY DEF BroadcastEntity, EndEntity, EndWalk, EndDevice, tables
<1> QED BY <1>3, <1>4, <1>5, <1>6, <1>7 DEF Reader

LEMMA RepliesStep == ServerInv /\ RepliesInv /\ [Next]_vars => RepliesInv'
<1> SUFFICES ASSUME ServerInv, RepliesInv, [Next]_vars PROVE RepliesInv'
  OBVIOUS
<1>1. ASSUME UNCHANGED <<clients, handler, sock>> PROVE RepliesInv'
  BY <1>1, Replying DEF RepliesInv, LivesOn, Live
<1>2. CASE UNCHANGED vars
  BY <1>1, <1>2 DEF vars, tables
<1>3. CASE Reader
  BY <1>3, ReaderReplies
<1>4. CASE SetUp
  BY <1>1, <1>4 DEF SetUp, tables
<1>5. ASSUME NEW c \in Conns, Handle(c) PROVE RepliesInv'
  BY <1>5, PlainReplies, AnsweredReplies DEF Handle
<1>6. ASSUME NEW c \in Conns, Client(c) PROVE RepliesInv'
  <2>1. CASE Stall(c)
    BY <1>1, <2>1 DEF Stall, tables
  <2> QED BY <1>6, <2>1, ConnectReplies, ReceiveReplies, PlainReplies DEF Client
<1> QED BY <1>2, <1>3, <1>4, <1>5, <1>6 DEF Next

LEMMA InitReplies == Init => RepliesInv
<1> SUFFICES ASSUME Init PROVE RepliesInv
  OBVIOUS
<1>1. ToSet(<<>>) = {} /\ Len(<<>>) = 0
  BY EmptySeq DEF ToSet
<1>2. NewHandler.answers = <<>> /\ NewHandler.pc = "off" /\ NewHandler.used = 0
      /\ NewHandler.effects = 0
  BY DEF NewHandler
<1>3. Replies(NewHandler) /\ Answers(NewHandler)
  BY <1>1, <1>2 DEF Replies, Answers
<1> QED BY <1>2, <1>3 DEF Init, RepliesInv, Live

\* Home Assistant runs a service at most once for a request, and has run it when
\* the answer says so, whatever it answers on the way (websocket.py,
\* call_service_with_response and what the handlers of requests do with it).
THEOREM CallsAreMadeOnce == Spec => []CalledOnce
<1>1. Spec => [](ServerInv /\ RepliesInv)
  BY InitShapes, ServerStep, InitReplies, RepliesStep, PTL DEF Spec
<1>2. RepliesInv => CalledOnce
  BY DEF RepliesInv, Replies, CalledOnce
<1> QED BY <1>1, <1>2, PTL
-----------------------------------------------------------------------------
(***************************************************************************)
(* What was asked for                                                      *)
(***************************************************************************)
Changes == (1 .. MaxEvents) \X Entities \X {"entity", "device"}

\* A change of what c has asked for.
Wished(c, h) ==
    IF h[3] = "entity" THEN {<<h[2], "entity">>, <<Star, "entity">>} \cap wish[c] # {}
    ELSE \E d \in Conns : handler[d].id = handler[c].id /\ <<h[2], "device">> \in wish[d]

\* Sockets, buffers and the number of changes read.
PlainInv ==
    /\ sock \in [Conns -> {"none", "open", "closed"}]
    /\ stalled \subseteq Conns
    /\ known \in BOOLEAN
    /\ reader.n <= MaxEvents
    /\ reader.step # "idle" => reader.n > 0

\* What the tables hold, somebody with that key has wished for.
WishesInv ==
    /\ wish \in [Conns -> SUBSET (Topics \X {"entity", "device"})]
    /\ heard \in [Conns -> Seq(Changes)]
    /\ \A c \in Conns : handler[c].pc = "off" => wish[c] = {} /\ heard[c] = <<>>
    /\ \A c \in Conns : Live(c) => \A t \in wants[handler[c].id] : <<t, "entity">> \in wish[c]
    /\ \A e \in Entities : \A k \in 1 .. Len(devsubs[e]) :
          \E d \in Conns : handler[d].id = devsubs[e][k] /\ <<e, "device">> \in wish[d]
    /\ \A c \in Conns : \A k \in 1 .. Len(heard[c]) : Wished(c, heard[c][k])

\* Wished(c, h)', for a change named before the step.
WishedOn(c, h) ==
    IF h[3] = "entity" THEN {<<h[2], "entity">>, <<Star, "entity">>} \cap wish'[c] # {}
    ELSE \E d \in Conns : handler'[d].id = handler'[c].id /\ <<h[2], "device">> \in wish'[d]

\* The reader goes from one walk to the next in three steps of its own only.
LEMMA ReaderStays ==
  ASSUME ServerInv, [Next]_vars, ~BroadcastEntity, ~EndEntity, ~EndDevice
  PROVE  /\ reader'.step = reader.step /\ reader'.n = reader.n /\ reader'.e = reader.e
         /\ reader'.pos = reader.pos \/ VisitClient \/ VisitDevice
<1>1. reader \in Walk
  BY DEF ServerInv, Shapes
<1> SUFFICES ASSUME NEW owed, NEW woken, NEW on, NEW pos,
                    \/ reader' = reader
                    \/ reader' = [reader EXCEPT !.owed = owed]
                    \/ reader' = [reader EXCEPT !.woken = woken]
                    \/ reader' = [reader EXCEPT !.on = on, !.woken = woken]
                    \/ reader' = [reader EXCEPT !.on = on, !.woken = woken, !.owed = owed]
                    \/ /\ VisitClient \/ VisitDevice
                       /\ \/ reader' = [reader EXCEPT !.pos = pos]
                          \/ reader' = [reader EXCEPT !.pos = pos, !.on = on]
                          \/ reader' = [reader EXCEPT !.pos = pos, !.owed = owed]
             PROVE  /\ reader'.step = reader.step /\ reader'.n = reader.n /\ reader'.e = reader.e
                    /\ reader'.pos = reader.pos \/ VisitClient \/ VisitDevice
  <2>1. CASE UNCHANGED vars
    BY <2>1 DEF vars
  <2>2. CASE VisitClient \/ VisitDevice
    <3>1. ASSUME NEW i, NEW what, SendChange(i, what)
          PROVE  \/ reader' = [reader EXCEPT !.pos = reader.pos + 1]
                 \/ reader' = [reader EXCEPT !.pos = reader.pos + 1,
                                             !.on = IF clients[i] \in stalled THEN clients[i] ELSE Nobody]
                 \/ reader' = [reader EXCEPT !.pos = reader.pos + 1, !.owed = reader.owed \ {clients[i]}]
      BY <3>1 DEF SendChange
    <3>2. \/ \E i, what : SendChange(i, what)
          \/ reader' = [reader EXCEPT !.pos = reader.pos + 1]
      BY <2>2 DEF VisitClient, VisitDevice
    <3> QED BY <2>2, <3>1, <3>2
  <2>3. CASE Resume
    <3>1. \/ reader' = [reader EXCEPT !.on = Nobody, !.woken = FALSE]
          \/ reader' = [reader EXCEPT !.on = Nobody, !.woken = FALSE, !.owed = reader.owed \ {reader.on}]
      BY <2>3 DEF Resume
    <3> QED BY <3>1
  <2>4. CASE SetUp
    BY <2>4 DEF SetUp
  <2>5. ASSUME NEW c \in Conns, Handle(c) \/ Client(c)
        PROVE  reader' = reader \/ reader' = [reader EXCEPT !.owed = reader.owed \ {c}]
               \/ reader' = [reader EXCEPT !.woken = (reader.woken \/ reader.on = c)]
    <3>1. CASE FetchInitial(c) \/ Greet(c) \/ Connect(c) \/ Stall(c)
      BY <3>1 DEF FetchInitial, Greet, Connect, Stall
    <3>2. CASE Answered(c)
      BY <3>2 DEF Answered
    <3>3. CASE Sent(c) \/ Leave(c)
      BY <3>3 DEF Sent, Leave
    <3>4. CASE Receive(c)
      BY <3>4 DEF Receive
    <3>5. CASE Drain(c) \/ Close(c)
      BY <3>5 DEF Drain, Close, WakeWaiters
    <3> QED BY <2>5, <3>1, <3>2, <3>3, <3>4, <3>5 DEF Handle, Client
  <2> QED BY <2>1, <2>2, <2>3, <2>4, <2>5 DEF Next, Reader
<1> QED BY <1>1 DEF Walk

LEMMA PlainStep == ServerInv /\ PlainInv /\ [Next]_vars => PlainInv'
<1> SUFFICES ASSUME ServerInv, PlainInv, [Next]_vars PROVE PlainInv'
  OBVIOUS
<1>1. sock' \in [Conns -> {"none", "open", "closed"}] /\ stalled' \subseteq Conns /\ known' \in BOOLEAN
  <2>1. CASE UNCHANGED vars
    BY <2>1 DEF vars, PlainInv
  <2>2. CASE Reader
    <3>1. UNCHANGED <<sock, stalled, known>>
      BY <2>2 DEF Reader, BroadcastEntity, VisitClient, EndEntity, EndWalk, VisitDevice,
                  EndDevice, Resume
    <3> QED BY <3>1 DEF PlainInv
  <2>3. CASE SetUp
    BY <2>3 DEF SetUp, PlainInv
  <2>4. ASSUME NEW c \in Conns, Handle(c)
        PROVE  UNCHANGED <<sock, stalled>> /\ known' \in BOOLEAN
    BY <2>4 DEF Handle, FetchInitial, Greet, Answered, Sent, Leave, PlainInv
  <2>5. ASSUME NEW c \in Conns, Client(c)
        PROVE  /\ UNCHANGED known
               /\ sock' = sock \/ sock' = [sock EXCEPT ![c] = "open"]
                  \/ sock' = [sock EXCEPT ![c] = "closed"]
               /\ stalled' = stalled \/ stalled' = stalled \union {c} \/ stalled' = stalled \ {c}
    BY <2>5 DEF Client, Connect, Receive, Stall, Drain, Close
  <2> QED BY <2>1, <2>2, <2>3, <2>4, <2>5 DEF Next, PlainInv
<1>2. reader'.n <= MaxEvents /\ (reader'.step # "idle" => reader'.n > 0)
  <2>1. reader \in Walk /\ MaxEvents \in Nat /\ reader.n \in Nat
    BY LimitsAssumption DEF ServerInv, Shapes, Walk
  <2>2. CASE BroadcastEntity
    <3>1. reader'.n = reader.n + 1 /\ reader.n < MaxEvents
      BY <2>2 DEF BroadcastEntity, Resting
    <3> QED BY <2>1, <3>1
  <2>3. CASE EndEntity
    <3>1. reader'.n = reader.n /\ reader.step # "idle"
      BY <2>1, <2>3 DEF EndEntity, EndWalk, Walk
    <3> QED BY <3>1 DEF PlainInv
  <2>4. CASE EndDevice
    <3>1. reader'.n = reader.n /\ (reader'.step = "idle" \/ reader.step # "idle")
      BY <2>1, <2>4 DEF EndDevice, Walk, Resting
    <3> QED BY <3>1 DEF PlainInv
  <2> QED BY <2>2, <2>3, <2>4, ReaderStays DEF PlainInv
<1> QED BY <1>1, <1>2 DEF PlainInv

\* What was wished for stays so: a key changes hands only before its first wish.
LEMMA WishesLast ==
  ASSUME WishesInv, \A c \in Conns : handler'[c].id = handler[c].id \/ handler[c].pc = "off",
         \A c \in Conns : wish[c] \subseteq wish'[c]
  PROVE  /\ \A d \in Conns : \A x : x \in wish[d] => x \in wish'[d] /\ handler'[d].id = handler[d].id
         /\ \A c \in Conns : \A h : handler'[c].id = handler[c].id /\ Wished(c, h) => WishedOn(c, h)
<1>1. \A d \in Conns : \A x : x \in wish[d] => x \in wish'[d] /\ handler'[d].id = handler[d].id
  BY DEF WishesInv
<1>2. ASSUME NEW c \in Conns, NEW h, handler'[c].id = handler[c].id, Wished(c, h)
      PROVE  WishedOn(c, h)
  <2>1. CASE h[3] = "entity"
    BY <1>2, <2>1 DEF Wished, WishedOn
  <2>2. CASE h[3] # "entity"
    BY <1>1, <1>2, <2>2 DEF Wished, WishedOn
  <2> QED BY <2>1, <2>2
<1> QED BY <1>1, <1>2

LEMMA Wishing ==
  ASSUME wish' \in [Conns -> SUBSET (Topics \X {"entity", "device"})],
         heard' \in [Conns -> Seq(Changes)],
         \A c \in Conns : handler'[c].pc = "off" => wish'[c] = {} /\ heard'[c] = <<>>,
         \A c \in Conns : LivesOn(c) => \A t \in wants'[handler'[c].id] : <<t, "entity">> \in wish'[c],
         \A e \in Entities : \A k \in 1 .. Len(devsubs'[e]) :
             \E d \in Conns : handler'[d].id = devsubs'[e][k] /\ <<e, "device">> \in wish'[d],
         \A c \in Conns : \A k \in 1 .. Len(heard'[c]) : WishedOn(c, heard'[c][k])
  PROVE  WishesInv'
BY DEF WishesInv, LivesOn, Live, Wished, WishedOn, Changes

\* Nobody wishes or is told anything: handlers move, clients are forgotten.
LEMMA WishesPassing ==
  ASSUME WishesInv, ServerInv, UNCHANGED <<wish, heard, devsubs>>,
         \A i \in Ids : wants'[i] \subseteq wants[i],
         \A c \in Conns : /\ handler'[c].id = handler[c].id
                          /\ LivesOn(c) => Live(c)
                          /\ handler'[c].pc = "off" => handler[c].pc = "off"
  PROVE  WishesInv'
<1>1. \A c \in Conns : handler[c].id \in Ids
  BY DEF ServerInv, Shapes, Place
<1>2. \A c \in Conns : LivesOn(c) => \A t \in wants'[handler'[c].id] : <<t, "entity">> \in wish'[c]
  BY <1>1 DEF WishesInv
<1>3. \A c \in Conns : \A h : Wished(c, h) => WishedOn(c, h)
  BY WishesLast
<1> QED BY <1>2, <1>3, Wishing DEF WishesInv

LEMMA ForgettingWants ==
  ASSUME ServerInv, NEW i \in Ids, Forget(i)
  PROVE  devsubs' = devsubs /\ \A j \in Ids : wants'[j] \subseteq wants[j]
<1>1. wants \in [Ids -> SUBSET Topics]
  BY DEF ServerInv, Shapes
<1>2. wants' = [wants EXCEPT ![i] = {}] /\ devsubs' = devsubs
  BY DEF Forget
<1> QED BY <1>1, <1>2

\* A key is taken by a connection that has wished and heard nothing.
LEMMA ConnectWishes ==
  ASSUME ServerInv, WishesInv, NEW c \in Conns, Connect(c)
  PROVE  WishesInv'
<1>1. PICK i \in FreeIds, pc \in {"initial", "greeting", "idle"} :
        handler' = [handler EXCEPT ![c].pc = pc, ![c].id = i]
  BY DEF Connect, Greeted
<1>2. /\ i \in Ids /\ handler[c].pc = "off" /\ UNCHANGED <<wants, devsubs, heard, wish>>
      /\ \A d \in Conns : Live(d) => handler[d].id # i
  BY <1>1 DEF FreeIds, Connect
<1>3. /\ handler \in [Conns -> Place] /\ handler[c] \in Place
      /\ \A d \in Conns : handler[d].id \in Ids
  BY DEF ServerInv, Shapes, Place
<1>4. /\ handler'[c].id = i /\ handler'[c].pc = pc
      /\ \A d \in Conns \ {c} : handler'[d] = handler[d]
  <2>1. handler' = [handler EXCEPT ![c] = [handler[c] EXCEPT !.pc = pc, !.id = i]]
    BY <1>1
  <2>2. [handler[c] EXCEPT !.pc = pc, !.id = i].id = i /\ [handler[c] EXCEPT !.pc = pc, !.id = i].pc = pc
    BY <1>3 DEF Place
  <2> QED BY <1>3, <2>1, <2>2
<1>5. wish[c] = {} /\ heard[c] = <<>> /\ Len(heard[c]) = 0
  BY <1>2, EmptySeq DEF WishesInv
<1>6. /\ \A d \in Conns : \A x : x \in wish[d] => x \in wish'[d] /\ handler'[d].id = handler[d].id
      /\ \A d \in Conns : \A h : handler'[d].id = handler[d].id /\ Wished(d, h) => WishedOn(d, h)
  BY <1>2, <1>4, WishesLast
<1>7. wants[i] = {}
  BY <1>2 DEF ServerInv, RegisteredAreLive
<1>8. \A d \in Conns : LivesOn(d) => \A t \in wants'[handler'[d].id] : <<t, "entity">> \in wish'[d]
  BY <1>2, <1>4, <1>7 DEF WishesInv, LivesOn, Live
<1>9. \A d \in Conns : \A k \in 1 .. Len(heard'[d]) : WishedOn(d, heard'[d][k])
  BY <1>2, <1>4, <1>5, <1>6 DEF WishesInv
<1>10. \A e \in Entities : \A k \in 1 .. Len(devsubs'[e]) :
          \E d \in Conns : handler'[d].id = devsubs'[e][k] /\ <<e, "device">> \in wish'[d]
  BY <1>2, <1>6 DEF WishesInv
<1>11. \A d \in Conns : handler'[d].pc = "off" => wish'[d] = {} /\ heard'[d] = <<>>
  BY <1>2, <1>4 DEF WishesInv
<1> QED BY <1>2, <1>8, <1>9, <1>10, <1>11, Wishing DEF WishesInv

\* A removal adds nothing.
LEMMA RemovedFrom ==
  ASSUME NEW s \in Seq(Ids), NEW i
  PROVE  /\ Removed(s, i) \in Seq(Ids)
         /\ \A k \in 1 .. Len(Removed(s, i)) : \E j \in 1 .. Len(s) : Removed(s, i)[k] = s[j]
<1> DEFINE S == {s[j] : j \in 1 .. Len(s)}
<1>1. s \in Seq(S)
  <2>1. Len(s) \in Nat /\ s \in [1 .. Len(s) -> S]
    BY LenProperties
  <2> QED BY <2>1, SeqDef
<1>2. Removed(s, i) \in Seq(S)
  BY <1>1, Removing
<1>3. \A k \in 1 .. Len(Removed(s, i)) : Removed(s, i)[k] \in S
  BY <1>2, ElementOfSeq
<1> QED BY <1>3, Removing

\* A subscription is entered for the key of who wishes it.
LEMMA EnrolWishes ==
  ASSUME ServerInv, WishesInv, NEW c \in Conns, NEW kind, NEW t \in Topics,
         Live(c), Enrol(c, kind, t), t = Star => kind \notin {"subscribe_device", "unsubscribe_device"},
         UNCHANGED heard,
         \A d \in Conns : handler'[d].id = handler[d].id /\ (d # c => handler'[d] = handler[d]),
         handler'[c].pc # "off"
  PROVE  WishesInv'
<1> DEFINE i == handler[c].id
<1>1. /\ i \in Ids /\ wants \in [Ids -> SUBSET Topics] /\ devsubs \in [Entities -> Seq(Ids)]
      /\ wish \in [Conns -> SUBSET (Topics \X {"entity", "device"})]
      /\ \A d \in Conns : handler[d].id \in Ids
  BY DEF ServerInv, Shapes, Place, WishesInv
<1>2. \A d \in Conns \ {c} : Live(d) => handler[d].id # i
  BY DEF ServerInv, RegisteredAreLive
<1>3. /\ wish' \in [Conns -> SUBSET (Topics \X {"entity", "device"})]
      /\ \A d \in Conns : wish[d] \subseteq wish'[d] /\ (d # c => wish'[d] = wish[d])
      /\ \A d \in Conns : LivesOn(d) => \A u \in wants'[handler'[d].id] : <<u, "entity">> \in wish'[d]
      /\ \A e \in Entities : \A k \in 1 .. Len(devsubs'[e]) :
            \/ \E j \in 1 .. Len(devsubs[e]) : devsubs'[e][k] = devsubs[e][j]
            \/ devsubs'[e][k] = i /\ <<e, "device">> \in wish'[c]
  <2>0. \A d \in Conns : \A u \in wants[handler[d].id] : Live(d) => <<u, "entity">> \in wish[d]
    BY DEF WishesInv
  <2>9. \A d \in Conns : LivesOn(d) => Live(d)
    BY DEF LivesOn, Live
  <2>1. CASE kind = "subscribe"
    <3>1. /\ wants' = [wants EXCEPT ![i] = wants[i] \union {t}] /\ devsubs' = devsubs
          /\ wish' = [wish EXCEPT ![c] = wish[c] \union {<<t, "entity">>}]
      BY <2>1 DEF Enrol
    <3>2. wish[c] \union {<<t, "entity">>} \in SUBSET (Topics \X {"entity", "device"})
      BY <1>1
    <3>3. /\ wish' \in [Conns -> SUBSET (Topics \X {"entity", "device"})]
          /\ wish'[c] = wish[c] \union {<<t, "entity">>}
          /\ \A d \in Conns : d # c => wish'[d] = wish[d]
      BY <1>1, <3>1, <3>2
    <3>4. wants'[i] = wants[i] \union {t} /\ \A j \in Ids \ {i} : wants'[j] = wants[j]
      BY <1>1, <3>1
    <3>5. \A d \in Conns : LivesOn(d) => \A u \in wants'[handler'[d].id] : <<u, "entity">> \in wish'[d]
      BY <1>1, <1>2, <2>0, <2>9, <3>3, <3>4
    <3> QED BY <3>1, <3>3, <3>5
  <2>2. CASE kind = "unsubscribe"
    <3>1. wants' = [wants EXCEPT ![i] = wants[i] \ {t}] /\ devsubs' = devsubs /\ wish' = wish
      BY <2>2 DEF Enrol
    <3>2. \A j \in Ids : wants'[j] \subseteq wants[j]
      BY <1>1, <3>1
    <3> QED BY <1>1, <2>0, <2>9, <3>1, <3>2
  <2>3. CASE kind \in {"subscribe_device", "unsubscribe_device"}
    <3>1. EnrolDevice(c, kind, t) /\ t \in Entities /\ wants' = wants
      BY <2>3 DEF Enrol, EnrolDevice, Topics
    <3>2. devsubs[t] \in Seq(Ids)
      BY <1>1, <3>1
    <3>3. CASE kind = "subscribe_device"
      <4>1. /\ devsubs' = [devsubs EXCEPT ![t] = IF Contains(devsubs[t], i) THEN devsubs[t]
                                                 ELSE Append(devsubs[t], i)]
            /\ wish' = [wish EXCEPT ![c] = wish[c] \union {<<t, "device">>}]
        BY <3>1, <3>3 DEF EnrolDevice
      <4>2. wish[c] \union {<<t, "device">>} \in SUBSET (Topics \X {"entity", "device"})
        BY <1>1
      <4>3. /\ wish' \in [Conns -> SUBSET (Topics \X {"entity", "device"})]
            /\ wish'[c] = wish[c] \union {<<t, "device">>}
            /\ \A d \in Conns : d # c => wish'[d] = wish[d]
        BY <1>1, <4>1, <4>2
      <4>4. /\ Append(devsubs[t], i) \in Seq(Ids)
            /\ Len(devsubs[t]) \in Nat
            /\ Len(Append(devsubs[t], i)) = Len(devsubs[t]) + 1
            /\ \A k \in 1 .. Len(devsubs[t]) : Append(devsubs[t], i)[k] = devsubs[t][k]
            /\ Append(devsubs[t], i)[Len(devsubs[t]) + 1] = i
        BY <1>1, <3>2, AppendProperties, LenProperties
      <4>5. \A e \in Entities \ {t} : devsubs'[e] = devsubs[e]
        BY <1>1, <4>1
      <4>6. devsubs'[t] = devsubs[t] \/ devsubs'[t] = Append(devsubs[t], i)
        BY <1>1, <3>1, <4>1
      <4>7. \A k \in 1 .. Len(devsubs'[t]) :
              \/ \E j \in 1 .. Len(devsubs[t]) : devsubs'[t][k] = devsubs[t][j]
              \/ devsubs'[t][k] = i
        BY <4>4, <4>6
      <4> QED BY <2>0, <2>9, <3>1, <4>3, <4>5, <4>7
    <3>4. CASE kind # "subscribe_device"
      <4>1. devsubs' = [devsubs EXCEPT ![t] = Removed(devsubs[t], i)] /\ wish' = wish
        BY <3>1, <3>4 DEF EnrolDevice
      <4>2. \A e \in Entities \ {t} : devsubs'[e] = devsubs[e]
        BY <1>1, <4>1
      <4>3. devsubs'[t] = Removed(devsubs[t], i)
        BY <1>1, <3>1, <4>1
      <4>4. \A k \in 1 .. Len(devsubs'[t]) : \E j \in 1 .. Len(devsubs[t]) : devsubs'[t][k] = devsubs[t][j]
        BY <3>2, <4>3, RemovedFrom
      <4>5. \A e \in Entities : \A k \in 1 .. Len(devsubs'[e]) :
              \E j \in 1 .. Len(devsubs[e]) : devsubs'[e][k] = devsubs[e][j]
        BY <4>2, <4>4
      <4> QED BY <1>1, <2>0, <2>9, <3>1, <4>1, <4>5
    <3> QED BY <3>3, <3>4
  <2>4. CASE kind \notin {"subscribe", "unsubscribe", "subscribe_device", "unsubscribe_device"}
    <3>1. UNCHANGED <<wants, devsubs, wish>>
      BY <2>4 DEF Enrol
    <3> QED BY <1>1, <2>0, <2>9, <3>1
  <2> QED BY <2>1, <2>2, <2>3, <2>4
<1>4. /\ \A d \in Conns : \A x : x \in wish[d] => x \in wish'[d] /\ handler'[d].id = handler[d].id
      /\ \A d \in Conns : \A h : handler'[d].id = handler[d].id /\ Wished(d, h) => WishedOn(d, h)
  BY <1>3, WishesLast
<1>5. \A e \in Entities : \A k \in 1 .. Len(devsubs'[e]) :
         \E d \in Conns : handler'[d].id = devsubs'[e][k] /\ <<e, "device">> \in wish'[d]
  <2>1. ASSUME NEW e \in Entities, NEW k \in 1 .. Len(devsubs'[e])
        PROVE  \E d \in Conns : handler'[d].id = devsubs'[e][k] /\ <<e, "device">> \in wish'[d]
    <3>1. CASE devsubs'[e][k] = i /\ <<e, "device">> \in wish'[c]
      BY <3>1
    <3>2. CASE \E j \in 1 .. Len(devsubs[e]) : devsubs'[e][k] = devsubs[e][j]
      <4>1. PICK j \in 1 .. Len(devsubs[e]) : devsubs'[e][k] = devsubs[e][j]
        BY <3>2
      <4>2. PICK d \in Conns : handler[d].id = devsubs[e][j] /\ <<e, "device">> \in wish[d]
        BY DEF WishesInv
      <4> QED BY <1>4, <4>1, <4>2
    <3> QED BY <1>3, <3>1, <3>2
  <2> QED BY <2>1
<1>6. \A d \in Conns : \A k \in 1 .. Len(heard'[d]) : WishedOn(d, heard'[d][k])
  <2>1. \A d \in Conns : \A k \in 1 .. Len(heard[d]) : Wished(d, heard[d][k])
    BY DEF WishesInv
  <2> QED BY <1>4, <2>1
<1>7. \A d \in Conns : handler'[d].pc = "off" => wish'[d] = {} /\ heard'[d] = <<>>
  <2>1. \A d \in Conns : handler[d].pc = "off" => wish[d] = {} /\ heard[d] = <<>>
    BY DEF WishesInv
  <2>2. \A d \in Conns : handler'[d].pc = "off" => d # c /\ handler'[d] = handler[d] /\ wish'[d] = wish[d]
    BY <1>3
  <2> QED BY <2>1, <2>2
<1> QED BY <1>3, <1>5, <1>6, <1>7, Wishing DEF WishesInv

\* What a request does beside its answer: a subscription, or a client forgotten.
LEMMA ReceiveMoves ==
  ASSUME ServerInv, NEW c \in Conns, Receive(c)
  PROVE  /\ UNCHANGED heard /\ Live(c) /\ handler[c].id \in Ids
         /\ \A d \in Conns : handler'[d].id = handler[d].id /\ (d # c => handler'[d] = handler[d])
         /\ handler'[c].pc # "off"
         /\ \A d \in Conns : /\ LivesOn(d) => Live(d)
                             /\ handler'[d].pc = "off" => handler[d].pc = "off"
         /\ \/ Forget(handler[c].id) /\ UNCHANGED wish
            \/ /\ UNCHANGED clients
               /\ \E kind \in AllKinds, t \in Topics :
                     /\ t = Star => kind \notin {"subscribe_device", "unsubscribe_device"}
                     /\ Enrol(c, kind, t)
<1>1. Live(c) /\ handler[c] \in Place /\ handler \in [Conns -> Place] /\ handler[c].id \in Ids
      /\ UNCHANGED heard
  BY DEF ServerInv, Shapes, Receive, Live, Place
<1>2. PICK kind \in Kinds[c], t \in Topics :
        /\ t = Star => kind \notin {"subscribe_device", "unsubscribe_device"}
        /\ LET next == Begin(kind)
               sent == Answer(c, next.answer)
           IN  /\ handler' = [handler EXCEPT ![c] =
                       [Moved(c, next, 0, sent) EXCEPT
                           !.kind = kind, !.topic = t, !.used = @ + 1, !.effects = 0,
                           !.polls = 0, !.answers = Sending(next, sent)]]
               /\ IF sent = "raised" THEN Forget(handler[c].id) /\ UNCHANGED wish
                  ELSE Enrol(c, kind, t) /\ UNCHANGED clients
  BY DEF Receive
<1>3. kind \in AllKinds
  BY NamesAssumption
<1> DEFINE next == Begin(kind)
           sent == Answer(c, next.answer)
           moved == Moved(c, next, 0, sent)
           used == moved.used + 1
           answers == Sending(next, sent)
           place == [moved EXCEPT !.kind = kind, !.topic = t, !.used = used, !.effects = 0,
                                  !.polls = 0, !.answers = answers]
<1>4. /\ handler' = [handler EXCEPT ![c] = place]
      /\ IF sent = "raised" THEN Forget(handler[c].id) /\ UNCHANGED wish
        ELSE Enrol(c, kind, t) /\ UNCHANGED clients
  BY <1>2
<1>5. next \in Plan /\ (sent = "sent" => next.answer # "none")
  BY <1>3, Plans DEF Answer
<1> HIDE DEF next, sent
<1>6. moved \in Place /\ moved.id = handler[c].id /\ moved.pc \in {"sending", "asking", "idle"}
  BY <1>5, Moving DEF ServerInv
<1> HIDE DEF moved, answers, used
<1>7. place.id = handler[c].id /\ place.pc = moved.pc
  BY <1>6 DEF Place
<1> HIDE DEF place
<1>8. /\ handler'[c] = place
      /\ \A d \in Conns : handler'[d].id = handler[d].id /\ (d # c => handler'[d] = handler[d])
      /\ \A d \in Conns : /\ LivesOn(d) => Live(d)
                          /\ handler'[d].pc = "off" => handler[d].pc = "off"
  BY <1>1, <1>4, <1>6, <1>7 DEF LivesOn, Live
<1>9. handler'[c].pc # "off"
  BY <1>6, <1>7, <1>8
<1> QED BY <1>1, <1>2, <1>3, <1>4, <1>8, <1>9

LEMMA ReceiveWishes ==
  ASSUME ServerInv, WishesInv, NEW c \in Conns, Receive(c)
  PROVE  WishesInv'
<1>1. CASE Forget(handler[c].id) /\ UNCHANGED wish
  <2>1. devsubs' = devsubs /\ \A j \in Ids : wants'[j] \subseteq wants[j]
    BY <1>1, ReceiveMoves, ForgettingWants
  <2> QED BY <1>1, <2>1, ReceiveMoves, WishesPassing
<1>2. ASSUME NEW kind \in AllKinds, NEW t \in Topics, Enrol(c, kind, t),
             t = Star => kind \notin {"subscribe_device", "unsubscribe_device"}
      PROVE  WishesInv'
  BY <1>2, ReceiveMoves, EnrolWishes
<1> QED BY <1>1, <1>2, ReceiveMoves

\* What is sent to the client with a key, that client or its predecessor wished for.
LEMMA SendChangeWishes ==
  ASSUME ServerInv, PlainInv, WishesInv, NEW i \in Ids, NEW what \in {"entity", "device"},
         SendChange(i, what), UNCHANGED <<handler, wish>>, reader.step # "idle",
         clients[i] # Nobody => Wished(clients[i], <<reader.n, reader.e, what>>)
  PROVE  WishesInv'
<1> DEFINE c == clients[i]
           change == <<reader.n, reader.e, what>>
<1>1. CASE UNCHANGED <<tables, heard>>
  BY <1>1, WishesPassing DEF tables, LivesOn, Live
<1>2. CASE UNCHANGED heard /\ Forget(i)
  BY <1>2, ForgettingWants, WishesPassing DEF LivesOn, Live
<1>3. CASE c # Nobody /\ heard' = [heard EXCEPT ![c] = Append(heard[c], change)] /\ UNCHANGED tables
  <2>1. c \in Conns /\ handler[c].pc # "off"
    BY <1>3 DEF ServerInv, Shapes, RegisteredAreLive, Live
  <2>2. change \in Changes
    <3>1. reader.n \in Nat /\ reader.n > 0 /\ reader.n <= MaxEvents /\ MaxEvents \in Nat
          /\ reader.e \in Entities
      BY LimitsAssumption DEF ServerInv, Shapes, Walk, PlainInv
    <3>2. reader.n \in 1 .. MaxEvents
      BY <3>1
    <3> QED BY <3>1, <3>2 DEF Changes
  <2>3. Wished(c, change)
    BY <1>3
  <2> HIDE DEF c, change
  <2>4. heard \in [Conns -> Seq(Changes)] /\ heard[c] \in Seq(Changes)
    BY <2>1 DEF WishesInv
  <2>5. /\ Append(heard[c], change) \in Seq(Changes)
        /\ Len(heard[c]) \in Nat
        /\ Len(Append(heard[c], change)) = Len(heard[c]) + 1
        /\ \A k \in 1 .. Len(heard[c]) : Append(heard[c], change)[k] = heard[c][k]
        /\ Append(heard[c], change)[Len(heard[c]) + 1] = change
    BY <2>2, <2>4, AppendProperties, LenProperties
  <2>6. /\ heard' \in [Conns -> Seq(Changes)] /\ heard'[c] = Append(heard[c], change)
        /\ \A d \in Conns \ {c} : heard'[d] = heard[d]
    BY <1>3, <2>1, <2>4, <2>5
  <2>7. \A d \in Conns : \A h : Wished(d, h) => WishedOn(d, h)
    BY WishesLast
  <2>8. \A d \in Conns : \A k \in 1 .. Len(heard'[d]) : WishedOn(d, heard'[d][k])
    <3>1. \A k \in 1 .. Len(heard'[c]) : heard'[c][k] = change \/ \E j \in 1 .. Len(heard[c]) : heard'[c][k] = heard[c][j]
      BY <2>5, <2>6
    <3>2. \A k \in 1 .. Len(heard'[c]) : WishedOn(c, heard'[c][k])
      BY <2>1, <2>3, <2>7, <3>1 DEF WishesInv
    <3>3. \A d \in Conns : \A k \in 1 .. Len(heard[d]) : Wished(d, heard[d][k])
      BY DEF WishesInv
    <3>4. \A d \in Conns \ {c} : \A k \in 1 .. Len(heard'[d]) : WishedOn(d, heard'[d][k])
      BY <2>6, <2>7, <3>3
    <3> QED BY <3>2, <3>4
  <2>9. \A d \in Conns : handler'[d].pc = "off" => wish'[d] = {} /\ heard'[d] = <<>>
    BY <2>1, <2>6 DEF WishesInv
  <2>10. \A d \in Conns : LivesOn(d) => \A t \in wants'[handler'[d].id] : <<t, "entity">> \in wish'[d]
    BY <1>3 DEF WishesInv, tables, LivesOn, Live
  <2>11. \A e \in Entities : \A k \in 1 .. Len(devsubs'[e]) :
            \E d \in Conns : handler'[d].id = devsubs'[e][k] /\ <<e, "device">> \in wish'[d]
    BY <1>3 DEF WishesInv, tables
  <2>12. wish' \in [Conns -> SUBSET (Topics \X {"entity", "device"})]
    BY DEF WishesInv
  <2> QED BY <2>6, <2>8, <2>9, <2>10, <2>11, <2>12, Wishing
<1> QED BY <1>1, <1>2, <1>3 DEF SendChange

LEMMA ReaderWishes ==
  ASSUME ServerInv, PlainInv, WishesInv, Reader
  PROVE  WishesInv'
<1>1. UNCHANGED <<handler, wish>>
  BY DEF Reader, BroadcastEntity, VisitClient, EndEntity, EndWalk, VisitDevice, EndDevice, Resume
<1>2. CASE UNCHANGED <<tables, heard>>
  BY <1>1, <1>2, WishesPassing DEF tables, LivesOn, Live
<1>3. CASE VisitClient
  <2> DEFINE i == order[reader.pos + 1]
  <2>1. order \in Seq(Slot) /\ Len(order) \in Nat /\ reader.pos \in Nat
    BY LenProperties DEF ServerInv, Shapes, Walk
  <2>2. reader.pos + 1 \in 1 .. Len(order)
    BY <1>3, <2>1 DEF VisitClient
  <2>3. i \in Slot
    BY <2>1, <2>2, ElementOfSeq
  <2>4. UNCHANGED <<tables, heard>>
        \/ (i # Hole /\ wants[i] \cap {reader.e, Star} # {} /\ SendChange(i, "entity"))
    BY <1>3 DEF VisitClient
  <2>5. reader.step # "idle"
    BY <1>3 DEF VisitClient
  <2> HIDE DEF i
  <2>6. CASE i \in Ids /\ wants[i] \cap {reader.e, Star} # {} /\ SendChange(i, "entity")
    <3>1. ASSUME clients[i] # Nobody
          PROVE  Wished(clients[i], <<reader.n, reader.e, "entity">>)
      <4>1. clients[i] \in Conns /\ Live(clients[i]) /\ handler[clients[i]].id = i
        BY <2>6, <3>1 DEF ServerInv, Shapes, RegisteredAreLive
      <4>2. PICK t \in wants[i] : t \in {reader.e, Star}
        BY <2>6
      <4>3. <<t, "entity">> \in wish[clients[i]]
        BY <4>1, <4>2 DEF WishesInv
      <4>4. {<<reader.e, "entity">>, <<Star, "entity">>} \cap wish[clients[i]] # {}
        BY <4>2, <4>3
      <4> QED BY <4>4 DEF Wished
    <3> QED BY <1>1, <2>5, <2>6, <3>1, SendChangeWishes
  <2> QED BY <1>2, <2>3, <2>4, <2>6 DEF Slot
<1>4. CASE VisitDevice
  <2> DEFINE list == devsubs[reader.e]
             i == list[reader.pos + 1]
  <2>1. reader.e \in Entities /\ reader.pos \in Nat /\ reader.step # "idle"
    BY <1>4 DEF ServerInv, Shapes, VisitDevice, Walk
  <2>2. list \in Seq(Ids)
    BY <2>1 DEF ServerInv, Shapes
  <2>3. reader.pos + 1 \in 1 .. Len(list)
    BY <1>4, <2>1, <2>2, LenProperties DEF VisitDevice
  <2>4. i \in Ids
    BY <2>2, <2>3, ElementOfSeq
  <2>5. SendChange(i, "device")
    BY <1>4 DEF VisitDevice
  <2>6. \E d \in Conns : handler[d].id = i /\ <<reader.e, "device">> \in wish[d]
    BY <2>1, <2>3 DEF WishesInv
  <2> HIDE DEF i
  <2>7. ASSUME clients[i] # Nobody
        PROVE  Wished(clients[i], <<reader.n, reader.e, "device">>)
    <3>1. handler[clients[i]].id = i
      BY <2>4, <2>7 DEF ServerInv, RegisteredAreLive
    <3> QED BY <2>6, <3>1 DEF Wished
  <2> QED BY <1>1, <2>1, <2>4, <2>5, <2>7, SendChangeWishes
<1>5. CASE Resume
  <2> DEFINE c == reader.on
  <2>1. c \in Conns /\ handler[c].id \in Ids
    BY <1>5 DEF Resume, ServerInv, Shapes, Walk, Place
  <2>2. UNCHANGED heard /\ (UNCHANGED tables \/ Forget(handler[c].id))
    BY <1>5 DEF Resume
  <2>3. CASE Forget(handler[c].id)
    BY <1>1, <2>1, <2>2, <2>3, ForgettingWants, WishesPassing DEF LivesOn, Live
  <2> QED BY <1>2, <2>2, <2>3
<1>6. BroadcastEntity \/ EndEntity \/ EndDevice => UNCHANGED <<tables, heard>>
  BY DEF BroadcastEntity, EndEntity, EndWalk, EndDevice
<1> QED BY <1>2, <1>3, <1>4, <1>5, <1>6 DEF Reader

\* A handler goes on, answers or leaves, under its key.
LEMMA HandlerMoves ==
  ASSUME ServerInv, NEW c \in Conns, Handle(c) \/ Drain(c) \/ Close(c)
  PROVE  /\ UNCHANGED <<heard, wish>> /\ handler[c].id \in Ids
         /\ UNCHANGED tables \/ Forget(handler[c].id)
         /\ \A d \in Conns : /\ handler'[d].id = handler[d].id
                             /\ LivesOn(d) => Live(d)
                             /\ handler'[d].pc = "off" => handler[d].pc = "off"
<1>1. UNCHANGED <<heard, wish>> /\ (UNCHANGED tables \/ Forget(handler[c].id))
  BY DEF Handle, FetchInitial, Greet, Answered, Sent, Leave, Drain, Close
<1>2. /\ \A d \in Conns \ {c} : handler'[d] = handler[d]
      /\ handler'[c].id = handler[c].id
      /\ handler'[c].pc = handler[c].pc \/ (handler[c].pc \notin {"off", "left"} /\ handler'[c].pc # "off")
  <2>1. handler \in [Conns -> Place] /\ handler[c] \in Place
    BY DEF ServerInv, Shapes
  <2>2. CASE FetchInitial(c) \/ Greet(c) \/ Sent(c) \/ Leave(c)
    <3>1. PICK pc \in {"greeting", "idle", "left"} :
            \/ handler' = [handler EXCEPT ![c].pc = pc]
            \/ handler' = [handler EXCEPT ![c].pc = pc, ![c].woken = FALSE]
      BY <2>2 DEF FetchInitial, Greet, Greeted, Sent, Leave
    <3>2. handler[c].pc \notin {"off", "left"}
      BY <2>2 DEF FetchInitial, Greet, Sent, Leave
    <3>3. /\ \A d \in Conns \ {c} : handler'[d] = handler[d]
          /\ handler'[c].id = handler[c].id /\ handler'[c].pc = pc
      BY <2>1, <3>1 DEF Place
    <3> QED BY <3>2, <3>3
  <2>3. CASE Drain(c) \/ Close(c)
    <3> DEFINE woken == handler[c].woken \/ handler[c].pc = "sending"
    <3>1. handler' = [handler EXCEPT ![c].woken = woken]
      BY <2>3 DEF Drain, Close, WakeWaiters
    <3> HIDE DEF woken
    <3> QED BY <2>1, <3>1 DEF Place
  <2>4. CASE Answered(c)
    <3>1. PICK o \in Outcomes(c) :
            LET next == Proceed(handler[c].kind, handler[c].ask, handler[c].polls, o[1])
                sent == Answer(c, next.answer)
            IN  handler' = [handler EXCEPT ![c] = Moved(c, next, o[2], sent)]
      BY <2>4 DEF Answered
    <3> DEFINE next == Proceed(handler[c].kind, handler[c].ask, handler[c].polls, o[1])
               sent == Answer(c, next.answer)
               place == Moved(c, next, o[2], sent)
    <3>2. next \in Plan /\ o[2] \in {0, 1} /\ (sent = "sent" => next.answer # "none")
      BY Plans DEF Outcomes, Answer
    <3>3. handler' = [handler EXCEPT ![c] = place]
      BY <3>1
    <3> HIDE DEF next, sent
    <3>4. place.id = handler[c].id /\ place.pc \in {"sending", "asking", "idle"}
      BY <3>2, Moving DEF ServerInv
    <3>5. handler[c].pc = "asking"
      BY <2>4 DEF Answered
    <3> HIDE DEF place
    <3>6. handler'[c] = place /\ \A d \in Conns \ {c} : handler'[d] = handler[d]
      BY <2>1, <3>3
    <3> QED BY <3>4, <3>5, <3>6
  <2> QED BY <2>2, <2>3, <2>4 DEF Handle
<1>3. handler[c].id \in Ids
  BY DEF ServerInv, Shapes, Place
<1> QED BY <1>1, <1>2, <1>3 DEF LivesOn, Live

LEMMA HandlerWishes ==
  ASSUME ServerInv, WishesInv, NEW c \in Conns, Handle(c) \/ Drain(c) \/ Close(c)
  PROVE  WishesInv'
<1>1. devsubs' = devsubs /\ \A j \in Ids : wants'[j] \subseteq wants[j]
  <2>1. CASE UNCHANGED tables
    BY <2>1 DEF tables
  <2> QED BY <2>1, HandlerMoves, ForgettingWants
<1> QED BY <1>1, HandlerMoves, WishesPassing

LEMMA WishesStep == ServerInv /\ PlainInv /\ WishesInv /\ [Next]_vars => WishesInv'
<1> SUFFICES ASSUME ServerInv, PlainInv, WishesInv, [Next]_vars PROVE WishesInv'
  OBVIOUS
<1>1. ASSUME UNCHANGED <<wants, devsubs, handler, heard, wish>> PROVE WishesInv'
  BY <1>1, WishesPassing DEF LivesOn, Live
<1>2. CASE UNCHANGED vars
  BY <1>1, <1>2 DEF vars, tables
<1>3. CASE Reader
  BY <1>3, ReaderWishes
<1>4. CASE SetUp
  BY <1>1, <1>4 DEF SetUp, tables
<1>5. ASSUME NEW c \in Conns, Handle(c) PROVE WishesInv'
  BY <1>5, HandlerWishes
<1>6. ASSUME NEW c \in Conns, Client(c) PROVE WishesInv'
  <2>1. CASE Stall(c)
    BY <1>1, <2>1 DEF Stall, tables
  <2> QED BY <1>6, <2>1, ConnectWishes, ReceiveWishes, HandlerWishes DEF Client
<1> QED BY <1>2, <1>3, <1>4, <1>5, <1>6 DEF Next
-----------------------------------------------------------------------------
(***************************************************************************)
(* The walk over the dict                                                  *)
(***************************************************************************)
\* The change of the walk under way.
Told(c) == \E k \in 1 .. Len(heard[c]) : heard[c][k][1] = reader.n /\ heard[c][k][3] = "entity"

Passed(i) == \E k \in 1 .. Len(order) : order[k] = i /\ k <= reader.pos

\* The walk has passed the one slot of every client it has told the change.
WalkInv ==
    /\ \A j, k \in 1 .. Len(order) : order[j] = order[k] /\ order[j] # Hole => j = k
    /\ \A c \in Conns : \A k \in 1 .. Len(heard[c]) : heard[c][k][1] <= reader.n
    /\ reader.step = "entity" =>
          \A c \in Conns : clients[handler[c].id] = c /\ Told(c) => Passed(handler[c].id)
    /\ \A c \in Conns : \A j, k \in 1 .. Len(heard[c]) :
          heard[c][j] = heard[c][k] /\ heard[c][j][3] = "entity" => j = k

\* Passed(i)', for a key named before the step.
Keeps(i) == \A k \in 1 .. Len(order) : order[k] = i => \E j \in 1 .. Len(order') : order'[j] = i /\ j <= k

Single == \A j, k \in 1 .. Len(order') : order'[j] = order'[k] /\ order'[j] # Hole => j = k

LEMMA OrderIs ==
  ASSUME ServerInv
  PROVE  /\ order \in Seq(Slot) /\ Len(order) \in Nat /\ DOMAIN order = 1 .. Len(order)
         /\ \A k \in 1 .. Len(order) : order[k] \in Slot
         /\ reader \in Walk /\ reader.pos \in Nat /\ reader.n \in Nat
         /\ \A i \in Ids : i # Hole
         /\ \A c \in Conns : handler[c].id \in Ids
BY LenProperties, ElementOfSeq, NamesAssumption DEF ServerInv, Shapes, Walk, Place

\* A table that is packed loses no client and moves none to a later slot.
LEMMA Packing ==
  ASSUME ServerInv, WalkInv, NEW p \in Packings
  PROVE  /\ p \in Seq(Slot) /\ Len(p) \in Nat
         /\ \A j \in 1 .. Len(p) : p[j] \in Subscribers
         /\ \A j, k \in 1 .. Len(p) : p[j] = p[k] => j = k
         /\ \A k \in 1 .. Len(order) : order[k] \in Ids => \E j \in 1 .. Len(p) : p[j] = order[k] /\ j <= k
<1>1. PICK n \in 0 .. Len(order) : p \in [1 .. n -> Subscribers]
  BY DEF Packings
<1>2. n \in Nat /\ Subscribers \subseteq Ids /\ Ids \subseteq Slot
  BY OrderIs, <1>1 DEF Subscribers, Slot
<1>3. p \in [1 .. n -> Slot]
  BY <1>1, <1>2
<1>4. p \in Seq(Slot) /\ Len(p) = n /\ DOMAIN p = 1 .. n
  BY <1>2, <1>3, SeqDef, LenProperties
<1>5. \A j \in 1 .. Len(p) : p[j] \in Subscribers
  BY <1>1, <1>4
<1>6. ASSUME NEW j \in 1 .. Len(p), NEW k \in 1 .. Len(p), j < k
      PROVE  \E a, b \in 1 .. Len(order) : a < b /\ order[a] = p[j] /\ order[b] = p[k]
  <2>1. \A a, b \in DOMAIN p : a < b =>
           \E x, y \in DOMAIN order : x < y /\ order[x] = p[a] /\ order[y] = p[b]
    BY DEF Packings
  <2> QED BY <1>4, <1>6, <2>1, OrderIs
<1>7. \A a, b \in 1 .. Len(order) : order[a] = order[b] /\ order[a] # Hole => a = b
  BY DEF WalkInv
<1>8. ASSUME NEW j \in 1 .. Len(p), NEW k \in 1 .. Len(p), j < k, p[j] = p[k]
      PROVE  FALSE
  <2>1. PICK a, b \in 1 .. Len(order) : a < b /\ order[a] = p[j] /\ order[b] = p[k]
    BY <1>6, <1>8
  <2>2. order[a] # Hole
    BY <1>2, <1>5, <2>1, OrderIs
  <2>3. a = b
    BY <1>7, <1>8, <2>1, <2>2
  <2> QED BY <2>1, <2>3
<1>9. \A j, k \in 1 .. Len(p) : p[j] = p[k] => j = k
  <2>1. \A j, k \in 1 .. Len(p) : j < k \/ k < j \/ j = k
    BY <1>2, <1>4
  <2> QED BY <1>8, <2>1
<1>10. ASSUME NEW k \in 1 .. Len(order), order[k] \in Ids
       PROVE  \E j \in 1 .. Len(p) : p[j] = order[k] /\ j <= k
  <2>1. order[k] \in Subscribers
    BY <1>10, OrderIs DEF Subscribers
  <2>2. PICK j \in 1 .. Len(p) : p[j] = order[k]
    BY <1>4, <2>1 DEF Packings
  <2> DEFINE f == [m \in 1 .. j |-> IF m = j THEN k
                                    ELSE CHOOSE a \in 1 .. Len(order) : a < k /\ order[a] = p[m]]
  <2>3. j \in Nat /\ k \in Nat /\ Len(order) \in Nat /\ Len(p) \in Nat
    BY <1>2, <1>4, OrderIs
  <2>4. ASSUME NEW m \in 1 .. j, m # j
        PROVE  \E a \in 1 .. Len(order) : a < k /\ order[a] = p[m]
    <3>1. m \in 1 .. Len(p) /\ m < j
      BY <2>3, <2>4
    <3>2. PICK a, b \in 1 .. Len(order) : a < b /\ order[a] = p[m] /\ order[b] = p[j]
      BY <1>6, <3>1
    <3>3. b = k
      BY <1>7, <1>10, <2>2, <3>2, OrderIs
    <3> QED BY <3>2, <3>3
  <2>5. \A m \in 1 .. j : f[m] \in 1 .. k /\ order[f[m]] = p[m]
    <3>1. ASSUME NEW m \in 1 .. j PROVE f[m] \in 1 .. k /\ order[f[m]] = p[m]
      <4>1. CASE m = j
        BY <2>2, <2>3, <4>1
      <4>2. CASE m # j
        <5> DEFINE x == CHOOSE a \in 1 .. Len(order) : a < k /\ order[a] = p[m]
        <5>1. x \in 1 .. Len(order) /\ x < k /\ order[x] = p[m]
          BY <2>4, <4>2
        <5>2. f[m] = x
          BY <4>2
        <5> HIDE DEF x, f
        <5> QED BY <2>3, <5>1, <5>2
      <4> QED BY <4>1, <4>2
    <3> QED BY <3>1
  <2>6. f \in Injection(1 .. j, 1 .. k)
    <3>1. f \in [1 .. j -> 1 .. k]
      BY <2>5
    <3>2. DOMAIN f = 1 .. j
      OBVIOUS
    <3> HIDE DEF f
    <3>3. \A a, b \in 1 .. j : f[a] = f[b] => a = b
      <4>1. \A a \in 1 .. j : a \in 1 .. Len(p)
        BY <2>3
      <4> QED BY <1>9, <2>5, <4>1
    <3> QED BY <3>1, <3>2, <3>3 DEF Injection, IsInjective
  <2> HIDE DEF f
  <2>7. /\ IsFiniteSet(1 .. k) /\ Cardinality(1 .. k) = k /\ Cardinality(1 .. j) = j
    <3>1. 1 \in Int /\ j \in Int /\ k \in Int
      BY <2>3
    <3>2. /\ IsFiniteSet(1 .. k) /\ Cardinality(1 .. k) = (IF 1 > k THEN 0 ELSE k - 1 + 1)
          /\ Cardinality(1 .. j) = (IF 1 > j THEN 0 ELSE j - 1 + 1)
      BY <3>1, FS_Interval
    <3>3. 1 <= j /\ 1 <= k
      OBVIOUS
    <3> QED BY <2>3, <3>2, <3>3
  <2>8. Cardinality(1 .. j) <= Cardinality(1 .. k)
    BY <2>6, <2>7, FS_Injection
  <2> QED BY <2>2, <2>7, <2>8
<1> QED BY <1>2, <1>4, <1>5, <1>9, <1>10

\* A client that is forgotten leaves a hole; the other slots stay.
LEMMA ForgettingOrder ==
  ASSUME ServerInv, WalkInv, NEW i \in Ids, Forget(i)
  PROVE  /\ Single
         /\ \A c \in Conns : clients'[handler[c].id] = c =>
               clients[handler[c].id] = c /\ Keeps(handler[c].id)
<1>1. /\ clients' = [clients EXCEPT ![i] = Nobody]
      /\ order' = [k \in 1 .. Len(order) |-> IF order[k] = i THEN Hole ELSE order[k]]
  BY OrderIs DEF Forget, Dropped
<1>2. Len(order') = Len(order)
  BY <1>1, OrderIs, LenProperties
<1>3. \A k \in 1 .. Len(order) : order'[k] = IF order[k] = i THEN Hole ELSE order[k]
  BY <1>1
<1>4. Single
  BY <1>2, <1>3 DEF Single, WalkInv
<1>5. clients \in [Ids -> Conns \union {Nobody}] /\ \A c \in Conns : c # Nobody
  BY NamesAssumption DEF ServerInv, Shapes
<1>6. ASSUME NEW c \in Conns, clients'[handler[c].id] = c
      PROVE  clients[handler[c].id] = c /\ Keeps(handler[c].id)
  <2>1. handler[c].id # i /\ handler[c].id \in Ids
    BY <1>1, <1>5, <1>6, OrderIs
  <2>2. clients[handler[c].id] = c
    BY <1>1, <1>5, <1>6, <2>1
  <2>3. \A k \in 1 .. Len(order) : k <= k
    BY OrderIs
  <2>4. Keeps(handler[c].id)
    BY <1>2, <1>3, <2>1, <2>3 DEF Keeps
  <2> QED BY <2>2, <2>4
<1> QED BY <1>4, <1>6

\* A client that subscribes gets a slot behind the others.
LEMMA EnrollingOrder ==
  ASSUME ServerInv, WalkInv, NEW c \in Conns, NEW kind, NEW t \in Topics, Enrol(c, kind, t)
  PROVE  Single /\ \A i \in Ids : Keeps(i)
<1> DEFINE i == handler[c].id
<1>1. CASE order' = order
  <2>1. \A k \in 1 .. Len(order) : k <= k
    BY OrderIs
  <2> QED BY <1>1, <2>1 DEF Single, Keeps, WalkInv
<1>2. ASSUME NEW o \in Packings \union {order}, i \notin Subscribers, order' = Append(o, i)
      PROVE  Single /\ \A j \in Ids : Keeps(j)
  <2>1. /\ o \in Seq(Slot) /\ Len(o) \in Nat
        /\ \A j \in 1 .. Len(o) : o[j] # i
        /\ \A j, k \in 1 .. Len(o) : o[j] = o[k] /\ o[j] # Hole => j = k
        /\ \A k \in 1 .. Len(order) : order[k] \in Ids => \E j \in 1 .. Len(o) : o[j] = order[k] /\ j <= k
    <3>1. CASE o = order
      <4>1. \A k \in 1 .. Len(order) : k <= k
        BY OrderIs
      <4> QED BY <1>2, <3>1, <4>1, OrderIs DEF WalkInv, Subscribers
    <3>2. CASE o \in Packings
      BY <1>2, <3>2, Packing
    <3> QED BY <3>1, <3>2
  <2>2. i \in Slot /\ i # Hole
    BY OrderIs DEF Slot
  <2>3. /\ Len(order') = Len(o) + 1 /\ order'[Len(o) + 1] = i
        /\ \A k \in 1 .. Len(o) : order'[k] = o[k]
    BY <1>2, <2>1, <2>2, AppendProperties
  <2> HIDE DEF i
  <2>4. Single
    <3>1. \A k \in 1 .. Len(order') : k \in 1 .. Len(o) \/ k = Len(o) + 1
      BY <2>1, <2>3
    <3>2. \A k \in 1 .. Len(o) : order'[k] # i
      BY <2>1, <2>3
    <3>3. ASSUME NEW j \in 1 .. Len(order'), NEW k \in 1 .. Len(order'),
                 order'[j] = order'[k], order'[j] # Hole
          PROVE  j = k
      <4>1. CASE j \in 1 .. Len(o) /\ k \in 1 .. Len(o)
        BY <2>1, <2>3, <3>3, <4>1
      <4>2. CASE j = Len(o) + 1 /\ k = Len(o) + 1
        BY <4>2
      <4>3. CASE j = Len(o) + 1 /\ k \in 1 .. Len(o)
        BY <2>3, <3>2, <3>3, <4>3
      <4>4. CASE j \in 1 .. Len(o) /\ k = Len(o) + 1
        BY <2>3, <3>2, <3>3, <4>4
      <4> QED BY <3>1, <4>1, <4>2, <4>3, <4>4
    <3> QED BY <3>3 DEF Single
  <2>5. ASSUME NEW j \in Ids, NEW k \in 1 .. Len(order), order[k] = j
        PROVE  \E m \in 1 .. Len(order') : order'[m] = j /\ m <= k
    <3>1. PICK m \in 1 .. Len(o) : o[m] = order[k] /\ m <= k
      BY <2>1, <2>5
    <3>2. m \in 1 .. Len(order')
      BY <2>1, <2>3
    <3> QED BY <2>3, <2>5, <3>1, <3>2
  <2> QED BY <2>4, <2>5 DEF Keeps
<1>3. order' = order \/ (i \notin Subscribers /\ \E o \in Packings \union {order} : order' = Append(o, i))
  <2>1. CASE kind = "subscribe"
    <3>1. order' \in IF i \in Subscribers THEN {order} ELSE {Append(o, i) : o \in Packings \union {order}}
      BY <2>1 DEF Enrol
    <3> QED BY <3>1
  <2>2. CASE kind = "unsubscribe"
    BY <2>2 DEF Enrol
  <2>3. CASE kind \in {"subscribe_device", "unsubscribe_device"}
    BY <2>3 DEF Enrol, EnrolDevice
  <2>4. CASE kind \notin {"subscribe", "unsubscribe", "subscribe_device", "unsubscribe_device"}
    BY <2>4 DEF Enrol
  <2> QED BY <2>1, <2>2, <2>3, <2>4
<1> QED BY <1>1, <1>2, <1>3

LEMMA HeardIs ==
  ASSUME WishesInv, NEW c \in Conns
  PROVE  /\ heard[c] \in Seq(Changes) /\ Len(heard[c]) \in Nat
         /\ \A k \in 1 .. Len(heard[c]) : heard[c][k] \in Changes /\ heard[c][k][1] \in Nat
<1>1. heard[c] \in Seq(Changes)
  BY DEF WishesInv
<1>2. \A k \in 1 .. Len(heard[c]) : heard[c][k] \in Changes
  BY <1>1, ElementOfSeq
<1>3. \A h \in Changes : h[1] \in Nat
  BY DEF Changes
<1> QED BY <1>1, <1>2, <1>3, LenProperties

\* Told(c)', for a connection named before the step.
TellsOn(c) ==
    \E k \in 1 .. Len(heard'[c]) : heard'[c][k][1] = reader'.n /\ heard'[c][k][3] = "entity"

PassedOn(i) == \E k \in 1 .. Len(order') : order'[k] = i /\ k <= reader'.pos

LEMMA Walking ==
  ASSUME Single,
         \A c \in Conns : \A k \in 1 .. Len(heard'[c]) : heard'[c][k][1] <= reader'.n,
         reader'.step = "entity" =>
             \A c \in Conns : clients'[handler'[c].id] = c /\ TellsOn(c) => PassedOn(handler'[c].id),
         \A c \in Conns : \A j, k \in 1 .. Len(heard'[c]) :
             heard'[c][j] = heard'[c][k] /\ heard'[c][j][3] = "entity" => j = k
  PROVE  WalkInv'
BY DEF WalkInv, Single, TellsOn, Told, PassedOn, Passed

\* Nobody is told anything, and a walk that goes on has not gone back.
LEMMA WalkPassing ==
  ASSUME ServerInv, WishesInv, WalkInv, Single, UNCHANGED heard,
         reader'.n \in Nat, reader'.pos \in Nat, reader.n <= reader'.n,
         reader'.step = "entity" =>
             \/ reader'.n > reader.n
             \/ reader.step = "entity" /\ reader'.n = reader.n /\ reader.pos <= reader'.pos,
         \A c \in Conns : clients'[handler'[c].id] = c =>
             \/ heard[c] = <<>>
             \/ /\ handler'[c].id = handler[c].id /\ clients[handler[c].id] = c
                /\ Keeps(handler[c].id)
  PROVE  WalkInv'
<1>1. /\ reader.n \in Nat /\ reader'.n \in Nat /\ reader.pos \in Nat /\ reader'.pos \in Nat
      /\ Len(order) \in Nat
  BY OrderIs
<1>2. \A c \in Conns : \A k \in 1 .. Len(heard[c]) : heard[c][k][1] <= reader.n
  BY DEF WalkInv
<1>3. \A c \in Conns : \A k \in 1 .. Len(heard'[c]) : heard'[c][k][1] <= reader'.n
  <2>1. \A a, b, d \in Nat : a <= b /\ b <= d => a <= d
    OBVIOUS
  <2> QED BY <1>1, <1>2, <2>1, HeardIs
<1>4. ASSUME NEW c \in Conns, reader'.step = "entity", clients'[handler'[c].id] = c, TellsOn(c)
      PROVE  PassedOn(handler'[c].id)
  <2>1. PICK k \in 1 .. Len(heard[c]) : heard[c][k][1] = reader'.n /\ heard[c][k][3] = "entity"
    BY <1>4 DEF TellsOn
  <2>2. reader'.n <= reader.n
    BY <1>2, <2>1
  <2>3. reader.step = "entity" /\ reader'.n = reader.n /\ reader.pos <= reader'.pos
    BY <1>1, <1>4, <2>2
  <2>4. heard[c] # <<>>
    BY <2>1, EmptySeq
  <2>5. handler'[c].id = handler[c].id /\ clients[handler[c].id] = c /\ Keeps(handler[c].id)
    BY <1>4, <2>4
  <2>6. Passed(handler[c].id)
    BY <2>1, <2>3, <2>5 DEF WalkInv, Told
  <2>7. PICK m \in 1 .. Len(order) : order[m] = handler[c].id /\ m <= reader.pos
    BY <2>6 DEF Passed
  <2>8. PICK j \in 1 .. Len(order') : order'[j] = handler[c].id /\ j <= m
    BY <2>5, <2>7 DEF Keeps
  <2>9. j <= reader'.pos
    BY <1>1, <2>3, <2>7, <2>8
  <2> QED BY <2>5, <2>8, <2>9 DEF PassedOn
<1> QED BY <1>3, <1>4, Walking DEF WalkInv

\* A table that stays has the slots it had.
LEMMA StayingOrder ==
  ASSUME ServerInv, WalkInv, UNCHANGED order
  PROVE  Single /\ \A i : Keeps(i)
<1>1. \A k \in 1 .. Len(order) : k <= k
  BY OrderIs
<1> QED BY <1>1 DEF Single, Keeps, WalkInv

\* The walk tells a client whose slot is the next one, and so for the first time.
LEMMA SendChangeWalk ==
  ASSUME ServerInv, WishesInv, WalkInv, NEW i \in Ids, NEW what \in {"entity", "device"},
         SendChange(i, what), UNCHANGED handler, reader.step = what,
         what = "entity" => reader.pos + 1 \in 1 .. Len(order) /\ order[reader.pos + 1] = i
  PROVE  WalkInv'
<1> DEFINE c == clients[i]
           change == <<reader.n, reader.e, what>>
<1>1. /\ reader \in Walk /\ reader.n \in Nat /\ reader.pos \in Nat /\ Len(order) \in Nat
      /\ reader'.n = reader.n /\ reader'.step = reader.step /\ reader'.pos = reader.pos + 1
  <2>1. reader \in Walk /\ reader.n \in Nat /\ reader.pos \in Nat /\ Len(order) \in Nat
    BY OrderIs
  <2> DEFINE pos == reader.pos + 1
             on == IF c \in stalled THEN c ELSE Nobody
             owed == reader.owed \ {c}
  <2>2. \/ reader' = [reader EXCEPT !.pos = pos]
        \/ reader' = [reader EXCEPT !.pos = pos, !.on = on]
        \/ reader' = [reader EXCEPT !.pos = pos, !.owed = owed]
    BY DEF SendChange
  <2>3. reader'.pos = pos /\ reader'.n = reader.n /\ reader'.step = reader.step
    <3> HIDE DEF pos, on, owed
    <3> QED BY <2>1, <2>2 DEF Walk
  <2> QED BY <2>1, <2>3
<1>2. reader'.n \in Nat /\ reader'.pos \in Nat /\ reader.n <= reader'.n /\ reader.pos <= reader'.pos
  BY <1>1
<1>3. CASE UNCHANGED <<tables, heard>>
  BY <1>1, <1>2, <1>3, StayingOrder, WalkPassing DEF tables
<1>4. CASE UNCHANGED heard /\ Forget(i)
  BY <1>1, <1>2, <1>4, ForgettingOrder, WalkPassing
<1>5. CASE c # Nobody /\ heard' = [heard EXCEPT ![c] = Append(heard[c], change)] /\ UNCHANGED tables
  <2>1. c \in Conns /\ handler[c].id = i /\ clients[i] = c
    BY <1>5 DEF ServerInv, Shapes, RegisteredAreLive
  <2>2. \A d \in Conns : clients[handler[d].id] = d /\ handler[d].id = i => d = c
    BY <2>1
  <2>3. change[1] = reader.n /\ change[3] = what
    OBVIOUS
  <2> HIDE DEF c, change
  <2>4. heard \in [Conns -> Seq(Changes)] /\ heard[c] \in Seq(Changes)
    BY <2>1 DEF WishesInv
  <2> DEFINE S == Changes \union {change}
  <2>5. heard[c] \in Seq(S) /\ Len(heard[c]) \in Nat /\ change \in S
    <3>1. Len(heard[c]) \in Nat /\ heard[c] \in [1 .. Len(heard[c]) -> Changes]
      BY <2>4, LenProperties
    <3>2. heard[c] \in [1 .. Len(heard[c]) -> S]
      BY <3>1
    <3> QED BY <3>1, <3>2, SeqDef
  <2>6. /\ Len(Append(heard[c], change)) = Len(heard[c]) + 1
        /\ \A k \in 1 .. Len(heard[c]) : Append(heard[c], change)[k] = heard[c][k]
        /\ Append(heard[c], change)[Len(heard[c]) + 1] = change
    <3> HIDE DEF S
    <3> QED BY <2>5, AppendProperties
  <2>7. /\ heard'[c] = Append(heard[c], change)
        /\ \A d \in Conns \ {c} : heard'[d] = heard[d]
    BY <1>5, <2>1, <2>4
  <2>8. \A k \in 1 .. Len(heard'[c]) : k \in 1 .. Len(heard[c]) \/ k = Len(heard[c]) + 1
    BY <2>5, <2>6, <2>7
  <2>9. \A k \in 1 .. Len(heard[c]) : heard'[c][k] = heard[c][k]
    BY <2>6, <2>7
  <2>10. heard'[c][Len(heard[c]) + 1] = change
    BY <2>6, <2>7
  <2>11. ASSUME what = "entity", Told(c)
         PROVE  FALSE
    <3>1. Passed(i)
      BY <2>1, <2>11 DEF WalkInv
    <3>2. PICK k \in 1 .. Len(order) : order[k] = i /\ k <= reader.pos
      BY <3>1 DEF Passed
    <3>3. i # Hole
      BY OrderIs
    <3>4. k = reader.pos + 1
      BY <2>11, <3>2, <3>3 DEF WalkInv
    <3> QED BY <1>1, <3>2, <3>4
  <2>12. \A d \in Conns : \A k \in 1 .. Len(heard'[d]) : heard'[d][k][1] <= reader'.n
    <3>1. \A k \in 1 .. Len(heard'[c]) : heard'[c][k][1] <= reader'.n
      BY <1>1, <2>1, <2>3, <2>8, <2>9, <2>10 DEF WalkInv
    <3> QED BY <1>1, <2>7, <3>1 DEF WalkInv
  <2>13. \A d \in Conns : \A j, k \in 1 .. Len(heard'[d]) :
            heard'[d][j] = heard'[d][k] /\ heard'[d][j][3] = "entity" => j = k
    <3>1. ASSUME NEW j \in 1 .. Len(heard'[c]), NEW k \in 1 .. Len(heard'[c]),
                 heard'[c][j] = heard'[c][k], heard'[c][j][3] = "entity"
          PROVE  j = k
      <4>1. CASE j \in 1 .. Len(heard[c]) /\ k \in 1 .. Len(heard[c])
        BY <2>1, <2>9, <3>1, <4>1 DEF WalkInv
      <4>2. CASE j = Len(heard[c]) + 1 /\ k = Len(heard[c]) + 1
        BY <4>2
      <4>3. CASE j = Len(heard[c]) + 1 /\ k \in 1 .. Len(heard[c])
        <5>1. heard[c][k] = change /\ what = "entity"
          BY <2>3, <2>9, <2>10, <3>1, <4>3
        <5> QED BY <2>3, <2>11, <4>3, <5>1 DEF Told
      <4>4. CASE j \in 1 .. Len(heard[c]) /\ k = Len(heard[c]) + 1
        <5>1. heard[c][j] = change /\ what = "entity"
          BY <2>3, <2>9, <2>10, <3>1, <4>4
        <5> QED BY <2>3, <2>11, <4>4, <5>1 DEF Told
      <4> QED BY <2>8, <4>1, <4>2, <4>3, <4>4
    <3>2. \A d \in Conns : \A j, k \in 1 .. Len(heard[d]) :
             heard[d][j] = heard[d][k] /\ heard[d][j][3] = "entity" => j = k
      BY DEF WalkInv
    <3>3. \A d \in Conns \ {c} : \A j, k \in 1 .. Len(heard'[d]) :
             heard'[d][j] = heard'[d][k] /\ heard'[d][j][3] = "entity" => j = k
      BY <2>7, <3>2
    <3> QED BY <3>1, <3>3
  <2>14. Single
    BY <1>5, StayingOrder DEF tables
  <2>15. ASSUME reader'.step = "entity", NEW d \in Conns, clients'[handler'[d].id] = d, TellsOn(d)
         PROVE  PassedOn(handler'[d].id)
    <3>1. handler'[d].id = handler[d].id /\ clients[handler[d].id] = d /\ order' = order
      BY <1>5, <2>15 DEF tables
    <3>2. CASE d = c
      <4>1. handler'[d].id = order'[reader.pos + 1] /\ reader.pos + 1 \in 1 .. Len(order')
        BY <1>1, <2>1, <2>15, <3>1, <3>2
      <4>2. reader.pos + 1 <= reader'.pos
        BY <1>1
      <4> QED BY <4>1, <4>2 DEF PassedOn
    <3>3. CASE d # c
      <4>1. Told(d) /\ reader.step = "entity"
        BY <1>1, <2>7, <2>15, <3>3 DEF TellsOn, Told
      <4>2. Passed(handler[d].id)
        BY <3>1, <4>1 DEF WalkInv
      <4>3. PICK k \in 1 .. Len(order) : order[k] = handler[d].id /\ k <= reader.pos
        BY <4>2 DEF Passed
      <4>4. k <= reader'.pos
        BY <1>1, <4>3
      <4> QED BY <3>1, <4>3, <4>4 DEF PassedOn
    <3> QED BY <3>2, <3>3
  <2> QED BY <2>12, <2>13, <2>14, <2>15, Walking
<1> QED BY <1>3, <1>4, <1>5 DEF SendChange

LEMMA ReaderWalk ==
  ASSUME ServerInv, WishesInv, WalkInv, Reader, ServerInv'
  PROVE  WalkInv'
<1>1. UNCHANGED handler /\ reader \in Walk /\ reader.n \in Nat /\ reader.pos \in Nat /\ reader.n <= reader.n
      /\ reader.pos <= reader.pos
  <2>1. UNCHANGED handler
    BY DEF Reader, BroadcastEntity, VisitClient, EndEntity, EndWalk, VisitDevice, EndDevice, Resume
  <2> QED BY <2>1, OrderIs
<1>2. reader'.n \in Nat /\ reader'.pos \in Nat
  BY DEF ServerInv, Shapes, Walk
<1>3. ASSUME UNCHANGED <<tables, heard>>, reader.n <= reader'.n,
             reader'.step = "entity" =>
                 \/ reader'.n > reader.n
                 \/ reader.step = "entity" /\ reader'.n = reader.n /\ reader.pos <= reader'.pos
      PROVE  WalkInv'
  BY <1>1, <1>2, <1>3, StayingOrder, WalkPassing DEF tables
<1>4. CASE BroadcastEntity
  <2>1. UNCHANGED <<tables, heard>>
    BY <1>4 DEF BroadcastEntity
  <2>2. reader'.n = reader.n + 1
    BY <1>4 DEF BroadcastEntity, Resting
  <2>3. reader.n <= reader'.n /\ reader'.n > reader.n
    BY <1>1, <2>2
  <2> QED BY <1>3, <2>1, <2>3
<1>5. CASE EndEntity
  <2>1. UNCHANGED <<tables, heard>> /\ reader'.n = reader.n /\ reader'.step = "device"
    BY <1>1, <1>5 DEF EndEntity, EndWalk, Walk
  <2> QED BY <1>1, <1>3, <2>1
<1>6. CASE EndDevice
  <2>1. UNCHANGED <<tables, heard>>
    BY <1>6 DEF EndDevice
  <2>2. reader'.n = reader.n /\ reader'.step # "entity"
    BY <1>1, <1>6 DEF EndDevice, Resting, Walk
  <2> QED BY <1>1, <1>3, <2>1, <2>2
<1>7. CASE VisitClient
  <2> DEFINE i == order[reader.pos + 1]
  <2>1. reader.pos + 1 \in 1 .. Len(order) /\ reader.step = "entity"
    BY <1>1, <1>7, OrderIs DEF VisitClient
  <2>2. i \in Slot
    BY <2>1, OrderIs
  <2>3. \/ i # Hole /\ SendChange(i, "entity")
        \/ reader' = [reader EXCEPT !.pos = reader.pos + 1] /\ UNCHANGED <<tables, heard>>
    BY <1>7 DEF VisitClient
  <2>4. CASE i # Hole /\ SendChange(i, "entity")
    <3>1. i \in Ids
      BY <2>2, <2>4 DEF Slot
    <3>2. order[reader.pos + 1] = i
      OBVIOUS
    <3> HIDE DEF i
    <3> QED BY <1>1, <2>1, <2>4, <3>1, <3>2, SendChangeWalk
  <2>5. CASE reader' = [reader EXCEPT !.pos = reader.pos + 1] /\ UNCHANGED <<tables, heard>>
    <3>1. reader'.n = reader.n /\ reader'.pos = reader.pos + 1 /\ reader'.step = reader.step
      BY <1>1, <2>5 DEF Walk
    <3>2. reader.n <= reader'.n /\ reader.pos <= reader'.pos
      BY <1>1, <3>1
    <3> QED BY <1>3, <2>1, <2>5, <3>1, <3>2
  <2> QED BY <2>3, <2>4, <2>5
<1>8. CASE VisitDevice
  <2> DEFINE list == devsubs[reader.e]
  <2>1. reader.e \in Entities /\ reader.step = "device"
    BY <1>8 DEF ServerInv, Shapes, VisitDevice
  <2>2. list \in Seq(Ids)
    BY <2>1 DEF ServerInv, Shapes
  <2>3. reader.pos + 1 \in 1 .. Len(list)
    BY <1>1, <1>8, <2>2, LenProperties DEF VisitDevice
  <2>4. list[reader.pos + 1] \in Ids
    BY <2>2, <2>3, ElementOfSeq
  <2>5. SendChange(list[reader.pos + 1], "device")
    BY <1>8 DEF VisitDevice
  <2> HIDE DEF list
  <2> QED BY <1>1, <2>1, <2>4, <2>5, SendChangeWalk
<1>9. CASE Resume
  <2> DEFINE c == reader.on
             owed == reader.owed \ {c}
  <2>1. c \in Conns /\ handler[c].id \in Ids
    BY <1>9, OrderIs DEF Resume, ServerInv, Shapes, Walk
  <2>2. \/ reader' = [reader EXCEPT !.on = Nobody, !.woken = FALSE]
        \/ reader' = [reader EXCEPT !.on = Nobody, !.woken = FALSE, !.owed = owed]
    BY <1>9 DEF Resume
  <2>3. UNCHANGED heard /\ (UNCHANGED tables \/ Forget(handler[c].id))
    BY <1>9 DEF Resume
  <2> HIDE DEF owed
  <2>4. reader'.n = reader.n /\ reader'.pos = reader.pos /\ reader'.step = reader.step
    BY <1>1, <2>2 DEF Walk
  <2>5. CASE Forget(handler[c].id)
    <3> HIDE DEF c
    <3>1. /\ Single
          /\ \A d \in Conns : clients'[handler[d].id] = d =>
                clients[handler[d].id] = d /\ Keeps(handler[d].id)
      BY <2>1, <2>5, ForgettingOrder
    <3> QED BY <1>1, <1>2, <2>3, <2>4, <3>1, WalkPassing
  <2> QED BY <1>1, <1>3, <2>3, <2>4, <2>5
<1> QED BY <1>4, <1>5, <1>6, <1>7, <1>8, <1>9 DEF Reader

LEMMA ConnectWalk ==
  ASSUME ServerInv, WishesInv, WalkInv, NEW c \in Conns, Connect(c)
  PROVE  WalkInv'
<1>1. PICK i \in FreeIds, pc \in {"initial", "greeting", "idle"} :
        /\ clients' = [clients EXCEPT ![i] = c]
        /\ handler' = [handler EXCEPT ![c].pc = pc, ![c].id = i]
  BY DEF Connect, Greeted
<1>2. i \in Ids /\ handler[c].pc = "off" /\ UNCHANGED <<order, heard, reader>>
  BY <1>1 DEF FreeIds, Connect
<1>3. heard[c] = <<>>
  BY <1>2 DEF WishesInv
<1>4. ASSUME NEW d \in Conns, clients'[handler'[d].id] = d
      PROVE  \/ heard[d] = <<>>
             \/ handler'[d].id = handler[d].id /\ clients[handler[d].id] = d
  <2>1. CASE d # c
    <3>1. handler'[d] = handler[d]
      BY <1>1, <2>1 DEF ServerInv, Shapes
    <3>2. handler[d].id \in Ids /\ clients \in [Ids -> Conns \union {Nobody}]
      BY OrderIs DEF ServerInv, Shapes
    <3> QED BY <1>1, <1>4, <2>1, <3>1, <3>2
  <2> QED BY <1>3, <2>1
<1>5. /\ reader'.n \in Nat /\ reader'.pos \in Nat /\ reader.n <= reader'.n /\ reader.pos <= reader'.pos
      /\ reader'.n = reader.n /\ reader'.step = reader.step
  BY <1>2, OrderIs
<1> QED BY <1>2, <1>4, <1>5, StayingOrder, WalkPassing

LEMMA WalkStep == ServerInv /\ WishesInv /\ WalkInv /\ [Next]_vars => WalkInv'
<1> SUFFICES ASSUME ServerInv, WishesInv, WalkInv, [Next]_vars PROVE WalkInv'
  OBVIOUS
<1>1. CASE Reader
  BY <1>1, ServerStep, ReaderWalk
<1>2. ASSUME ~Reader
      PROVE  /\ reader'.n \in Nat /\ reader'.pos \in Nat /\ reader.n <= reader'.n
             /\ reader'.n = reader.n /\ reader'.step = reader.step /\ reader.pos <= reader'.pos
  <2>1. reader'.n = reader.n /\ reader'.step = reader.step /\ reader'.pos = reader.pos
    BY <1>2, ReaderStays DEF Reader
  <2> QED BY <2>1, OrderIs
<1>3. ASSUME ~Reader, UNCHANGED <<order, clients, heard>>,
             \A c \in Conns : handler'[c].id = handler[c].id
      PROVE  WalkInv'
  BY <1>2, <1>3, StayingOrder, WalkPassing
<1>4. ASSUME ~Reader, NEW c \in Conns, Forget(handler[c].id), UNCHANGED heard,
             \A d \in Conns : handler'[d].id = handler[d].id
      PROVE  WalkInv'
  <2>1. /\ Single
        /\ \A d \in Conns : clients'[handler[d].id] = d =>
              clients[handler[d].id] = d /\ Keeps(handler[d].id)
    BY <1>4, OrderIs, ForgettingOrder
  <2> QED BY <1>2, <1>4, <2>1, WalkPassing
<1>5. CASE UNCHANGED vars
  <2>1. /\ reader'.n \in Nat /\ reader'.pos \in Nat /\ reader.n <= reader'.n
        /\ reader'.n = reader.n /\ reader'.step = reader.step /\ reader.pos <= reader'.pos
    BY <1>5, OrderIs DEF vars
  <2>2. UNCHANGED <<order, clients, heard, handler>>
    BY <1>5 DEF vars, tables
  <2> QED BY <2>1, <2>2, StayingOrder, WalkPassing
<1>6. CASE ~Reader /\ SetUp
  BY <1>3, <1>6 DEF SetUp, tables
<1>7. ASSUME ~Reader, NEW c \in Conns, Handle(c) \/ Drain(c) \/ Close(c) PROVE WalkInv'
  <2>1. CASE UNCHANGED tables
    BY <1>3, <1>7, <2>1, HandlerMoves DEF tables
  <2> QED BY <1>4, <1>7, <2>1, HandlerMoves
<1>8. ASSUME ~Reader, NEW c \in Conns, Receive(c) PROVE WalkInv'
  <2>1. CASE Forget(handler[c].id)
    BY <1>4, <1>8, <2>1, ReceiveMoves
  <2>2. ASSUME NEW kind \in AllKinds, NEW t \in Topics, Enrol(c, kind, t), UNCHANGED clients
        PROVE  WalkInv'
    <3>1. Single /\ \A i \in Ids : Keeps(i)
      BY <2>2, EnrollingOrder
    <3>2. \A d \in Conns : clients'[handler'[d].id] = d =>
             handler'[d].id = handler[d].id /\ clients[handler[d].id] = d /\ Keeps(handler[d].id)
      BY <1>8, <2>2, <3>1, ReceiveMoves, OrderIs
    <3>3. UNCHANGED heard
      BY <1>8, ReceiveMoves
    <3> QED BY <1>2, <1>8, <3>1, <3>2, <3>3, WalkPassing
  <2> QED BY <1>8, <2>1, <2>2, ReceiveMoves
<1>9. ASSUME ~Reader, NEW c \in Conns, Client(c) PROVE WalkInv'
  <2>1. CASE Stall(c)
    BY <1>3, <1>9, <2>1 DEF Stall, tables
  <2> QED BY <1>7, <1>8, <1>9, <2>1, ConnectWalk DEF Client
<1> QED BY <1>1, <1>5, <1>6, <1>7, <1>9 DEF Next
-----------------------------------------------------------------------------
LEMMA InitRest == Init => PlainInv /\ WishesInv /\ WalkInv
<1> SUFFICES ASSUME Init PROVE PlainInv /\ WishesInv /\ WalkInv
  OBVIOUS
<1>1. \A e \in Entities : devsubs[e] = <<>>
  BY DEF Init
<1>2. \A c \in Conns : heard[c] = <<>> /\ handler[c].pc = "off" /\ wish[c] = {}
  BY DEF Init, NewHandler
<1>3. order = <<>> /\ Len(<<>>) = 0 /\ 1 .. 0 = {}
  BY EmptySeq DEF Init
<1>4. PlainInv
  BY LimitsAssumption DEF Init, PlainInv, Resting
<1>5. WishesInv
  <2>1. heard \in [Conns -> Seq(Changes)] /\ wish \in [Conns -> SUBSET (Topics \X {"entity", "device"})]
    BY EmptySeq DEF Init
  <2> QED BY <1>1, <1>2, <1>3, <2>1 DEF WishesInv, Live
<1>6. WalkInv
  BY <1>2, <1>3 DEF WalkInv, Told, Init, Resting
<1> QED BY <1>4, <1>5, <1>6

\* Between any two steps no client has heard what it never asked for, or heard one
\* change of an entity twice, and every request of a connected client has had its
\* one answer (websocket.py, broadcast_state_change, broadcast_device_state_change
\* and the handlers of requests), while clients come, go, are forgotten and have
\* their keys used again, and the dict is packed, in the middle of a walk.
THEOREM ServerIsSound == Spec => []ServerSound
<1>1. Spec => [](ServerInv /\ RepliesInv /\ PlainInv /\ WishesInv /\ WalkInv)
  BY InitShapes, ServerStep, InitReplies, RepliesStep, InitRest, PlainStep, WishesStep,
     WalkStep, PTL DEF Spec
<1>2. ASSUME ServerInv, RepliesInv, PlainInv, WishesInv, WalkInv
      PROVE  ServerSound
  <2>1. TypeOK
    BY <1>2 DEF TypeOK, ServerInv, Shapes, Slot, Place, Walk, PlainInv, WishesInv, Changes
  <2>2. \A c \in Conns : DOMAIN heard[c] = 1 .. Len(heard[c])
    BY <1>2, HeardIs, LenProperties
  <2>3. NoStrangers
    BY <1>2, <2>2 DEF NoStrangers, WishesInv, Wished, ToSet
  <2>4. NobodyHearsTwice
    BY <1>2, <2>2 DEF NobodyHearsTwice, WalkInv
  <2>5. OneAnswer
    BY <1>2 DEF OneAnswer, RepliesInv, Replies, Answers
  <2> QED BY <2>1, <2>3, <2>4, <2>5 DEF ServerSound
<1> QED BY <1>1, <1>2, PTL
=============================================================================

--------------------------- MODULE StateSync_proofs ---------------------------
(***************************************************************************)
(* SyncInv is an invariant of StateSync, and with it ClientsSeeTheDevice   *)
(* and ClientsInOrder hold for any set of entities, any number of changes, *)
(* lost connections and late answers, and any length of the wire.          *)
(***************************************************************************)
EXTENDS StateSync, SequenceTheorems, TLAPS

Frame == Event \union Answer
Result == [who : Askers, states : States]

\* Types of what SyncInv speaks about, in the form the steps below need them.
LEMMA Types ==
  ASSUME SyncInv
  PROVE  /\ wire \in Seq(Frame) /\ Len(wire) \in Nat
         /\ \A i \in 1 .. Len(wire) : wire[i] \in Frame
         /\ ready \in Seq(Result) /\ Len(ready) \in Nat
         /\ \A i \in 1 .. Len(ready) : ready[i] \in Result
         /\ home \in States /\ shown \in States /\ device \in States /\ cache \in States
         /\ initial \in States /\ State \subseteq Nat /\ MaxState \in Nat
         /\ "start" \in Askers /\ "sync" \in Askers /\ "setup" \in Askers
<1>1. wire \in Seq(Frame) /\ ready \in Seq(Result)
  BY DEF SyncInv, TypeOK, Frame, Result
<1>2. Len(wire) \in Nat /\ \A i \in 1 .. Len(wire) : wire[i] \in Frame
  BY <1>1, ElementOfSeq, LenProperties
<1>3. Len(ready) \in Nat /\ \A i \in 1 .. Len(ready) : ready[i] \in Result
  BY <1>1, ElementOfSeq, LenProperties
<1>4. MaxState \in Nat /\ State \subseteq Nat
  BY BoundsAssumption DEF State
<1> QED BY <1>1, <1>2, <1>3, <1>4 DEF SyncInv, TypeOK, Askers

\* An event on the wire names an entity, and its states are numbers.
LEMMA EventFields ==
  ASSUME NEW f \in Frame, f.what = "event"
  PROVE  f \in Event /\ f.entity \in Entities /\ f.new \in State /\ f.old \in State
BY DEF Frame, Event, Answer

\* What is not an event names its asker.
LEMMA AnswerFields ==
  ASSUME NEW f \in Frame, f.what # "event"
  PROVE  f \in Answer /\ f.to \in Askers /\ f.states \in States
BY DEF Frame, Event, Answer

\* The initial state satisfies the invariant.
LEMMA SyncInit == Init => SyncInv
<1> SUFFICES ASSUME Init PROVE SyncInv
  OBVIOUS
<1>1. 0 \in State /\ 1 \in State /\ State \subseteq Nat
  BY BoundsAssumption DEF State
<1>2. wire = <<>> /\ ready = <<>> /\ Len(wire) = 0 /\ Len(ready) = 0
  BY EmptySeq DEF Init
<1>3. TypeOK
  <2>1. wire \in Seq(Event \union Answer) /\ ready \in Seq([who : Askers, states : States])
    BY <1>2, EmptySeq
  <2>2. home \in States /\ initial \in States /\ cache \in States /\ device \in States
        /\ shown \in States
    BY <1>1 DEF Init, Nothing, States
  <2>3. step \in [Askers -> {"new", "asleep", "asking", "answered", "ended"}]
    BY DEF Init
  <2>4. faults \in 0 .. MaxFaults
    BY BoundsAssumption DEF Init
  <2> QED BY <2>1, <2>2, <2>3, <2>4 DEF Init, TypeOK
<1>4. LoadedBeforeListening /\ StartAsksOnce
  BY <1>2 DEF Init, LoadedBeforeListening, StartAsksOnce
<1>5. EventsInOrder /\ ClientsSeeTheDevice
  BY <1>1, <1>2 DEF Init, EventsInOrder, ClientsSeeTheDevice, Nothing
<1> QED BY <1>3, <1>4, <1>5 DEF SyncInv

\* A change of the home sends an event after all others.
LEMMA KeepChange ==
  ASSUME SyncInv, NEW e \in Entities, Change(e)
  PROVE  SyncInv'
<1>1. PICK n \in {1, 2} :
        /\ home[e] + n <= MaxState
        /\ home' = [home EXCEPT ![e] = @ + n]
        /\ \/ link # "subscribed" /\ UNCHANGED wire
           \/ /\ link = "subscribed" /\ Len(wire) < MaxWire
              /\ wire' = Append(wire, [what |-> "event", entity |-> e,
                                       old |-> home[e], new |-> home[e] + n])
        /\ UNCHANGED <<link, requests, faults, step, ready, copies>>
  BY DEF Change
<1>2. UNCHANGED <<link, requests, faults, step, ready, initial, cache, device, registered, shown>>
  BY <1>1 DEF copies
<1>3. home[e] \in State /\ home[e] + n \in State /\ home[e] < home[e] + n /\ home \in States
      /\ home' = [home EXCEPT ![e] = home[e] + n]
  BY <1>1, Types, BoundsAssumption DEF State, States
<1>4. home' \in States /\ (\A x \in Entities : home'[x] = IF x = e THEN home[e] + n ELSE home[x])
  BY <1>3 DEF States
<1>5. \A x \in Entities : home[x] \in Nat /\ home'[x] \in Nat /\ shown[x] \in Nat
                             /\ home[x] <= home'[x]
  BY <1>3, <1>4, Types DEF States
<1>6. LoadedBeforeListening' /\ ClientsSeeTheDevice'
  BY <1>2 DEF SyncInv, LoadedBeforeListening, ClientsSeeTheDevice
<1>7. \A x \in Entities : shown'[x] <= home'[x]
  BY <1>2, <1>5 DEF SyncInv, EventsInOrder
<1>8. CASE UNCHANGED wire
  <2>1. TypeOK'
    BY <1>2, <1>4, <1>8 DEF SyncInv, TypeOK
  <2>2. StartAsksOnce'
    BY <1>2, <1>8 DEF SyncInv, StartAsksOnce, IsFor
  <2>3. \A i \in 1 .. Len(wire) : wire[i].what = "event" =>
            wire[i].entity \in Entities /\ wire[i].new \in Nat
    BY Types, EventFields
  <2>4. EventsInOrder'
    BY <1>2, <1>5, <1>7, <1>8, <2>3 DEF SyncInv, EventsInOrder
  <2> QED BY <1>6, <2>1, <2>2, <2>4 DEF SyncInv
<1>9. CASE wire' = Append(wire, [what |-> "event", entity |-> e,
                                 old |-> home[e], new |-> home[e] + n])
  <2> DEFINE f == [what |-> "event", entity |-> e, old |-> home[e], new |-> home[e] + n]
  <2>1. f \in Frame
    BY <1>3 DEF Frame, Event
  <2>2. /\ wire' \in Seq(Frame) /\ Len(wire') = Len(wire) + 1 /\ wire'[Len(wire) + 1] = f
        /\ \A i \in 1 .. Len(wire) : wire'[i] = wire[i]
        /\ Len(wire) \in Nat
    BY <1>9, <2>1, Types, AppendProperties
  <2>3. \A i \in 1 .. Len(wire') : i = Len(wire) + 1 \/ i \in 1 .. Len(wire)
    BY <2>2
  <2>4. TypeOK'
    BY <1>2, <1>4, <2>2 DEF SyncInv, TypeOK, Frame
  <2>5. f.what = "event" /\ f.entity = e /\ f.new = home[e] + n
    OBVIOUS
  <2> HIDE DEF f
  <2>6. \A i \in 1 .. Len(wire') : IsFor(wire'[i], "start") =>
            i \in 1 .. Len(wire) /\ IsFor(wire[i], "start")
    BY <2>2, <2>3, <2>5 DEF IsFor
  <2>7. StartAsksOnce'
    <3>1. ("start" \in requests => step["start"] = "asking"
              /\ \A i \in 1 .. Len(wire) : ~IsFor(wire[i], "start"))'
      BY <1>2, <2>6 DEF SyncInv, StartAsksOnce, IsFor
    <3>2. (\A i \in 1 .. Len(wire) : IsFor(wire[i], "start") =>
              step["start"] = "asking" /\ \A j \in 1 .. Len(wire) \ {i} : ~IsFor(wire[j], "start"))'
      BY <1>2, <2>6 DEF SyncInv, StartAsksOnce, IsFor
    <3>3. (\A i \in 1 .. Len(ready) : ready[i].who = "start" =>
              step["start"] = "answered" /\ \A j \in 1 .. Len(ready) \ {i} : ready[j].who # "start")'
      BY <1>2 DEF SyncInv, StartAsksOnce
    <3> QED BY <3>1, <3>2, <3>3 DEF StartAsksOnce
  <2>8. \A i \in 1 .. Len(wire) : wire[i].what = "event" =>
            wire[i].entity \in Entities /\ wire[i].new \in Nat
    BY Types, EventFields
  <2>9. EventsInOrder'
    <3>1. SUFFICES ASSUME NEW i \in 1 .. Len(wire'), wire'[i].what = "event"
                   PROVE  /\ shown[wire'[i].entity] < wire'[i].new
                          /\ wire'[i].new <= home'[wire'[i].entity]
                          /\ \A j \in i + 1 .. Len(wire') :
                                wire'[j].what = "event" /\ wire'[j].entity = wire'[i].entity =>
                                    wire'[i].new < wire'[j].new
      BY <1>2, <1>7 DEF EventsInOrder
    <3>2. CASE i = Len(wire) + 1
      <4>1. shown[e] < home[e] + n
        BY <1>3, <1>5 DEF SyncInv, EventsInOrder
      <4>2. i + 1 .. Len(wire') = {}
        BY <2>2, <3>2
      <4> QED BY <1>4, <1>5, <2>2, <2>5, <3>2, <4>1, <4>2
    <3>3. CASE i \in 1 .. Len(wire)
      <4>1. /\ wire'[i] = wire[i] /\ wire[i].what = "event"
            /\ shown[wire[i].entity] < wire[i].new /\ wire[i].new <= home[wire[i].entity]
            /\ \A j \in i + 1 .. Len(wire) :
                  wire[j].what = "event" /\ wire[j].entity = wire[i].entity =>
                      wire[i].new < wire[j].new
        BY <2>2, <3>1, <3>3 DEF SyncInv, EventsInOrder
      <4>2. wire[i].new <= home'[wire[i].entity]
        BY <1>5, <2>8, <3>3, <4>1
      <4>3. ASSUME NEW j \in i + 1 .. Len(wire'),
                   wire'[j].what = "event", wire'[j].entity = wire'[i].entity
            PROVE  wire'[i].new < wire'[j].new
        <5>1. CASE j \in 1 .. Len(wire)
          <6>1. j \in i + 1 .. Len(wire)
            BY <3>3, <5>1, <2>2
          <6> QED BY <2>2, <4>1, <4>3, <5>1, <6>1
        <5>2. CASE j = Len(wire) + 1
          <6>1. wire[i].entity = e /\ wire'[j].new = home[e] + n
            BY <2>2, <2>5, <4>1, <4>3, <5>2
          <6>2. wire[i].new <= home[e] /\ wire[i].new \in Nat
            BY <2>8, <3>3, <4>1, <6>1
          <6> QED BY <1>3, <1>5, <4>1, <6>1, <6>2
        <5>3. j \in 1 .. Len(wire')
          BY <2>2, <3>3
        <5> QED BY <2>3, <5>1, <5>2, <5>3
      <4> QED BY <4>1, <4>2, <4>3
    <3> QED BY <2>3, <3>2, <3>3
  <2> QED BY <1>6, <2>4, <2>7, <2>9 DEF SyncInv
<1> QED BY <1>1, <1>8, <1>9

\* What Head and Tail do to the indices.
LEMMA TailOf ==
  ASSUME NEW S, NEW s \in Seq(S), s # <<>>
  PROVE  /\ Head(s) = s[1] /\ Head(s) \in S /\ Tail(s) \in Seq(S)
         /\ Len(s) \in Nat \ {0} /\ Len(Tail(s)) = Len(s) - 1
         /\ \A i \in 1 .. Len(Tail(s)) : i + 1 \in 1 .. Len(s) /\ Tail(s)[i] = s[i + 1]
<1>1. /\ Len(s) \in Nat /\ Len(s) # 0 /\ Head(s) = s[1] /\ Head(s) \in S
      /\ Tail(s) \in Seq(S) /\ Len(Tail(s)) = Len(s) - 1
      /\ \A i \in 1 .. Len(Tail(s)) : Tail(s)[i] = s[i + 1]
  BY HeadTailProperties, LenProperties, EmptySeq
<1> QED BY <1>1

\* Order among the events survives when frames leave the front of the wire, are
\* cut off its end, or become frames that are no events.
LEMMA SameEvents ==
  ASSUME SyncInv, home' = home, shown' = shown, NEW d \in {0, 1}, Len(wire') \in Nat,
         \A i \in 1 .. Len(wire') : wire'[i].what = "event" =>
             i + d \in 1 .. Len(wire) /\ wire'[i] = wire[i + d]
  PROVE  EventsInOrder'
<1>1. SUFFICES ASSUME NEW i \in 1 .. Len(wire'), wire'[i].what = "event"
               PROVE  /\ shown[wire'[i].entity] < wire'[i].new
                      /\ wire'[i].new <= home[wire'[i].entity]
                      /\ \A j \in i + 1 .. Len(wire') :
                            wire'[j].what = "event" /\ wire'[j].entity = wire'[i].entity =>
                                wire'[i].new < wire'[j].new
  BY DEF SyncInv, EventsInOrder
<1>2. i + d \in 1 .. Len(wire) /\ wire'[i] = wire[i + d]
  BY <1>1
<1>3. /\ shown[wire[i + d].entity] < wire[i + d].new
      /\ wire[i + d].new <= home[wire[i + d].entity]
      /\ \A j \in (i + d) + 1 .. Len(wire) :
            wire[j].what = "event" /\ wire[j].entity = wire[i + d].entity =>
                wire[i + d].new < wire[j].new
  BY <1>1, <1>2 DEF SyncInv, EventsInOrder
<1>4. ASSUME NEW j \in i + 1 .. Len(wire'),
             wire'[j].what = "event", wire'[j].entity = wire'[i].entity
      PROVE  wire'[i].new < wire'[j].new
  <2>1. j \in 1 .. Len(wire')
    BY <1>1
  <2>2. j + d \in 1 .. Len(wire) /\ wire'[j] = wire[j + d]
    BY <1>4, <2>1
  <2>3. j + d \in (i + d) + 1 .. Len(wire)
    BY <2>2, Types
  <2> QED BY <1>2, <1>3, <1>4, <2>2, <2>3
<1> QED BY <1>2, <1>3, <1>4

\* Home Assistant's answer is put at the end of the wire.
LEMMA KeepAnswerRequest ==
  ASSUME SyncInv, NEW t \in Askers, AnswerRequest(t)
  PROVE  SyncInv'
<1> DEFINE f == [what |-> "states", to |-> t, states |-> home]
<1>1. /\ t \in requests /\ requests' = requests \ {t} /\ wire' = Append(wire, f)
      /\ UNCHANGED <<home, link, faults, step, ready, initial, cache, device, registered, shown>>
  BY DEF AnswerRequest, copies
<1>2. f \in Frame /\ f.what = "states" /\ f.to = t
  BY Types DEF Frame, Answer
<1> HIDE DEF f
<1>3. /\ wire' \in Seq(Frame) /\ Len(wire') = Len(wire) + 1 /\ wire'[Len(wire) + 1] = f
      /\ \A i \in 1 .. Len(wire) : wire'[i] = wire[i]
      /\ Len(wire) \in Nat
  BY <1>1, <1>2, Types, AppendProperties
<1>4. \A i \in 1 .. Len(wire') : i = Len(wire) + 1 \/ i \in 1 .. Len(wire)
  BY <1>3
<1>5. TypeOK'
  BY <1>1, <1>3 DEF SyncInv, TypeOK, Frame
<1>6. LoadedBeforeListening' /\ ClientsSeeTheDevice'
  BY <1>1 DEF SyncInv, LoadedBeforeListening, ClientsSeeTheDevice
<1>7. \A i \in 1 .. Len(wire') : wire'[i].what = "event" =>
          i + 0 \in 1 .. Len(wire) /\ wire'[i] = wire[i + 0]
  BY <1>2, <1>3, <1>4
<1>8. EventsInOrder'
  BY <1>1, <1>3, <1>7, SameEvents
<1>9. \A i \in 1 .. Len(wire) : IsFor(wire'[i], "start") = IsFor(wire[i], "start")
  BY <1>3 DEF IsFor
<1>10. IsFor(wire'[Len(wire) + 1], "start") = (t = "start")
  BY <1>2, <1>3 DEF IsFor
<1>11. StartAsksOnce'
  <2>1. ASSUME "start" \in requests'
        PROVE  step["start"] = "asking" /\ \A i \in 1 .. Len(wire') : ~IsFor(wire'[i], "start")
    BY <1>1, <1>4, <1>9, <1>10, <2>1 DEF SyncInv, StartAsksOnce
  <2>2. ASSUME NEW i \in 1 .. Len(wire'), IsFor(wire'[i], "start")
        PROVE  step["start"] = "asking"
               /\ \A j \in 1 .. Len(wire') \ {i} : ~IsFor(wire'[j], "start")
    <3>1. CASE t = "start"
      BY <1>1, <1>4, <1>9, <1>10, <2>2, <3>1 DEF SyncInv, StartAsksOnce
    <3>2. CASE t # "start"
      BY <1>1, <1>4, <1>9, <1>10, <2>2, <3>2 DEF SyncInv, StartAsksOnce
    <3> QED BY <3>1, <3>2
  <2>3. \A i \in 1 .. Len(ready') : ready'[i].who = "start" =>
            step["start"] = "answered" /\ \A j \in 1 .. Len(ready') \ {i} : ready'[j].who # "start"
    BY <1>1 DEF SyncInv, StartAsksOnce
  <2> QED BY <1>1, <2>1, <2>2, <2>3 DEF StartAsksOnce
<1> QED BY <1>5, <1>6, <1>8, <1>11 DEF SyncInv

\* A connection that is lost takes requests and frames with it.
LEMMA KeepLose ==
  ASSUME SyncInv, Lose
  PROVE  SyncInv'
<1>1. PICK n \in 0 .. Len(wire) : wire' = SubSeq(wire, 1, n)
  BY DEF Lose
<1>2. /\ link' = "down" /\ faults < MaxFaults /\ faults' = faults + 1 /\ requests' = {}
      /\ UNCHANGED <<home, step, ready, initial, cache, device, registered, shown>>
  BY DEF Lose, copies
<1>3. /\ wire' \in Seq(Frame) /\ Len(wire') = n /\ n \in Nat
      /\ \A i \in 1 .. Len(wire') : i \in 1 .. Len(wire) /\ wire'[i] = wire[i]
  <2>1. Len(wire) \in Nat /\ n \in Nat /\ n <= Len(wire)
    BY Types
  <2>2. \A i \in 1 .. n : i \in 1 .. Len(wire) /\ wire[i] \in Frame
    BY <2>1, Types
  <2> QED BY <1>1, <2>1, <2>2, SubSeqProperties
<1>4. TypeOK'
  <2>1. faults' \in 0 .. MaxFaults
    BY <1>2, BoundsAssumption DEF SyncInv, TypeOK
  <2> QED BY <1>2, <1>3, <2>1 DEF SyncInv, TypeOK, Frame
<1>5. LoadedBeforeListening' /\ ClientsSeeTheDevice'
  BY <1>2 DEF SyncInv, LoadedBeforeListening, ClientsSeeTheDevice
<1>6. \A i \in 1 .. Len(wire') : wire'[i].what = "event" =>
          i + 0 \in 1 .. Len(wire) /\ wire'[i] = wire[i + 0]
  BY <1>3
<1>7. EventsInOrder'
  BY <1>2, <1>3, <1>6, SameEvents
<1>8. StartAsksOnce'
  BY <1>2, <1>3 DEF SyncInv, StartAsksOnce, IsFor
<1> QED BY <1>4, <1>5, <1>7, <1>8 DEF SyncInv

\* A timeout makes the answer that is on its way nobody's.
LEMMA KeepTimeout ==
  ASSUME SyncInv, NEW t \in Askers, Timeout(t)
  PROVE  SyncInv'
<1>1. /\ step[t] = "asking" /\ requests' = requests \ {t}
      /\ wire' = [i \in 1 .. Len(wire) |->
                    IF IsFor(wire[i], t) THEN [wire[i] EXCEPT !.what = "late"] ELSE wire[i]]
      /\ step' = [step EXCEPT ![t] = AfterFailure(t)]
      /\ UNCHANGED <<home, link, ready, initial, cache, device, registered, shown>>
  BY DEF Timeout, copies
<1>2. faults' \in 0 .. MaxFaults
  BY BoundsAssumption DEF Timeout, SyncInv, TypeOK
<1>3. Len(wire) \in Nat /\ \A i \in 1 .. Len(wire) : wire[i] \in Frame
  BY Types
<1>4. ASSUME NEW i \in 1 .. Len(wire)
      PROVE  /\ wire'[i] \in Frame
             /\ wire'[i].what = "event" => wire'[i] = wire[i]
             /\ IsFor(wire'[i], "start") => IsFor(wire[i], "start") /\ t # "start"
  <2>1. CASE IsFor(wire[i], t)
    <3>1. wire[i].what = "states" /\ wire[i] \in Answer
      BY <1>3, <2>1, AnswerFields DEF IsFor
    <3>2. wire'[i] = [wire[i] EXCEPT !.what = "late"]
      BY <1>1, <2>1
    <3>3. wire'[i] \in Answer /\ wire'[i].what = "late"
      BY <3>1, <3>2 DEF Answer
    <3> QED BY <3>3 DEF Frame, IsFor
  <2>2. CASE ~IsFor(wire[i], t)
    BY <1>1, <1>3, <2>2
  <2> QED BY <2>1, <2>2
<1>5. wire' \in Seq(Frame) /\ Len(wire') = Len(wire)
  <2>1. wire' \in [1 .. Len(wire) -> Frame]
    BY <1>1, <1>4
  <2>2. wire' \in Seq(Frame)
    BY <1>3, <2>1, SeqDef
  <2>3. DOMAIN wire' = 1 .. Len(wire)
    BY <2>1
  <2> QED BY <1>3, <2>2, <2>3, LenProperties
<1>6. AfterFailure(t) \in {"asleep", "ended"}
      /\ step' \in [Askers -> {"new", "asleep", "asking", "answered", "ended"}]
      /\ \A x \in Askers : step'[x] = IF x = t THEN AfterFailure(t) ELSE step[x]
  BY <1>1 DEF AfterFailure, SyncInv, TypeOK
<1>7. TypeOK'
  BY <1>1, <1>2, <1>5, <1>6 DEF SyncInv, TypeOK, Frame
<1>8. LoadedBeforeListening' /\ ClientsSeeTheDevice'
  <2>1. step["start"] = "ended" => step'["start"] = "ended"
    BY <1>1, <1>6, Types
  <2> QED BY <1>1, <2>1 DEF SyncInv, LoadedBeforeListening, ClientsSeeTheDevice
<1>9. EventsInOrder'
  <2>1. \A i \in 1 .. Len(wire') : wire'[i].what = "event" =>
            i + 0 \in 1 .. Len(wire) /\ wire'[i] = wire[i + 0]
    BY <1>3, <1>4, <1>5
  <2> QED BY <1>1, <1>3, <1>5, <2>1, SameEvents
<1>10. StartAsksOnce'
  <2>1. CASE t = "start"
    <3>1. \A i \in 1 .. Len(wire') : ~IsFor(wire'[i], "start")
      BY <1>4, <1>5, <2>1
    <3>2. \A i \in 1 .. Len(ready) : ready[i].who # "start"
      BY <1>1, <2>1 DEF SyncInv, StartAsksOnce
    <3> QED BY <1>1, <2>1, <3>1, <3>2 DEF StartAsksOnce
  <2>2. CASE t # "start"
    <3>1. step'["start"] = step["start"]
      BY <1>6, <2>2, Types
    <3> QED BY <1>1, <1>4, <1>5, <3>1 DEF SyncInv, StartAsksOnce
  <2> QED BY <2>1, <2>2
<1> QED BY <1>7, <1>8, <1>9, <1>10 DEF SyncInv

\* The reader passes an answer on to the task that waits for it.
LEMMA KeepReadAnswer ==
  ASSUME SyncInv, ReadAnswer
  PROVE  SyncInv'
<1> DEFINE f == Head(wire)
<1>1. /\ wire # <<>> /\ f.what # "event" /\ wire' = Tail(wire)
      /\ IF f.what = "states"
         THEN /\ ready' = Append(ready, [who |-> f.to, states |-> f.states])
              /\ step' = [step EXCEPT ![f.to] = "answered"]
         ELSE UNCHANGED <<ready, step>>
      /\ UNCHANGED <<home, link, requests, faults, initial, cache, device, registered, shown>>
  BY DEF ReadAnswer, copies
<1>2. /\ f = wire[1] /\ f \in Frame /\ wire' \in Seq(Frame)
      /\ Len(wire) \in Nat \ {0} /\ Len(wire') = Len(wire) - 1
      /\ \A i \in 1 .. Len(wire') : i + 1 \in 1 .. Len(wire) /\ wire'[i] = wire[i + 1]
  BY <1>1, Types, TailOf
<1>3. f.to \in Askers /\ f.states \in States
  BY <1>1, <1>2, AnswerFields
<1> HIDE DEF f
<1>4. ClientsSeeTheDevice'
  BY <1>1 DEF SyncInv, ClientsSeeTheDevice
<1>5. EventsInOrder'
  BY <1>1, <1>2, SameEvents
<1>6. CASE f.what = "states"
  <2> DEFINE r == [who |-> f.to, states |-> f.states]
  <2>1. r \in Result /\ r.who = f.to
    BY <1>3 DEF Result
  <2> HIDE DEF r
  <2>2. ready' = Append(ready, r) /\ step' = [step EXCEPT ![f.to] = "answered"]
    BY <1>1, <1>6 DEF r
  <2>3. /\ ready' \in Seq(Result) /\ Len(ready') = Len(ready) + 1 /\ ready'[Len(ready) + 1] = r
        /\ \A i \in 1 .. Len(ready) : ready'[i] = ready[i]
        /\ Len(ready) \in Nat
    BY <2>1, <2>2, Types, AppendProperties
  <2>4. \A i \in 1 .. Len(ready') : i = Len(ready) + 1 \/ i \in 1 .. Len(ready)
    BY <2>3
  <2>5. step' \in [Askers -> {"new", "asleep", "asking", "answered", "ended"}]
        /\ \A x \in Askers : step'[x] = IF x = f.to THEN "answered" ELSE step[x]
    BY <2>2 DEF SyncInv, TypeOK
  <2>6. TypeOK'
    BY <1>1, <1>2, <2>3, <2>5 DEF SyncInv, TypeOK, Frame, Result
  <2>7. IsFor(wire[1], f.to) /\ 1 \in 1 .. Len(wire)
    BY <1>2, <1>6 DEF IsFor
  <2>8. CASE f.to = "start"
    <3>1. step["start"] = "asking" /\ \A j \in 1 .. Len(wire) \ {1} : ~IsFor(wire[j], "start")
      BY <2>7, <2>8 DEF SyncInv, StartAsksOnce
    <3>2. "start" \notin requests
      BY <2>7, <2>8 DEF SyncInv, StartAsksOnce
    <3>3. \A i \in 1 .. Len(ready) : ready[i].who # "start"
      BY <3>1 DEF SyncInv, StartAsksOnce
    <3>4. \A i \in 1 .. Len(wire') : ~IsFor(wire'[i], "start")
      BY <1>2, <3>1
    <3>5. StartAsksOnce'
      BY <1>1, <2>1, <2>3, <2>4, <2>5, <2>8, <3>2, <3>3, <3>4, Types DEF StartAsksOnce
    <3>6. LoadedBeforeListening'
      BY <1>1, <3>1 DEF SyncInv, LoadedBeforeListening
    <3> QED BY <1>4, <1>5, <2>6, <3>5, <3>6 DEF SyncInv
  <2>9. CASE f.to # "start"
    <3>1. step'["start"] = step["start"]
      BY <2>5, <2>9, Types
    <3>2. ASSUME NEW i \in 1 .. Len(ready'), ready'[i].who = "start"
          PROVE  i \in 1 .. Len(ready) /\ ready[i].who = "start"
      BY <2>1, <2>3, <2>4, <2>9, <3>2
    <3>3. ("start" \in requests => step["start"] = "asking"
              /\ \A i \in 1 .. Len(wire) : ~IsFor(wire[i], "start"))'
      BY <1>1, <1>2, <3>1 DEF SyncInv, StartAsksOnce
    <3>4. (\A i \in 1 .. Len(wire) : IsFor(wire[i], "start") =>
              step["start"] = "asking" /\ \A j \in 1 .. Len(wire) \ {i} : ~IsFor(wire[j], "start"))'
      <4>1. SUFFICES ASSUME NEW i \in 1 .. Len(wire'), IsFor(wire'[i], "start")
                     PROVE  step["start"] = "asking"
                            /\ \A j \in 1 .. Len(wire') \ {i} : ~IsFor(wire'[j], "start")
        BY <3>1
      <4>2. i + 1 \in 1 .. Len(wire) /\ IsFor(wire[i + 1], "start")
        BY <1>2, <4>1
      <4>3. step["start"] = "asking"
            /\ \A j \in 1 .. Len(wire) \ {i + 1} : ~IsFor(wire[j], "start")
        BY <4>2 DEF SyncInv, StartAsksOnce
      <4>4. \A j \in 1 .. Len(wire') \ {i} : j + 1 \in 1 .. Len(wire) \ {i + 1}
        BY <1>2, <4>1
      <4> QED BY <1>2, <4>3, <4>4
    <3>5. (\A i \in 1 .. Len(ready) : ready[i].who = "start" =>
              step["start"] = "answered" /\ \A j \in 1 .. Len(ready) \ {i} : ready[j].who # "start")'
      BY <3>1, <3>2 DEF SyncInv, StartAsksOnce
    <3>6. StartAsksOnce'
      BY <3>3, <3>4, <3>5 DEF StartAsksOnce
    <3>7. LoadedBeforeListening'
      BY <1>1, <3>1 DEF SyncInv, LoadedBeforeListening
    <3> QED BY <1>4, <1>5, <2>6, <3>6, <3>7 DEF SyncInv
  <2> QED BY <2>8, <2>9
<1>7. CASE f.what # "states"
  <2>1. UNCHANGED <<ready, step>>
    BY <1>1, <1>7
  <2>2. TypeOK'
    BY <1>1, <1>2, <2>1 DEF SyncInv, TypeOK, Frame
  <2>3. LoadedBeforeListening'
    BY <1>1, <2>1 DEF SyncInv, LoadedBeforeListening
  <2>4. ("start" \in requests => step["start"] = "asking"
            /\ \A i \in 1 .. Len(wire) : ~IsFor(wire[i], "start"))'
    BY <1>1, <1>2, <2>1 DEF SyncInv, StartAsksOnce
  <2>5. (\A i \in 1 .. Len(wire) : IsFor(wire[i], "start") =>
            step["start"] = "asking" /\ \A j \in 1 .. Len(wire) \ {i} : ~IsFor(wire[j], "start"))'
    <3>1. SUFFICES ASSUME NEW i \in 1 .. Len(wire'), IsFor(wire'[i], "start")
                   PROVE  step["start"] = "asking"
                          /\ \A j \in 1 .. Len(wire') \ {i} : ~IsFor(wire'[j], "start")
      BY <2>1
    <3>2. i + 1 \in 1 .. Len(wire) /\ IsFor(wire[i + 1], "start")
      BY <1>2, <3>1
    <3>3. step["start"] = "asking"
          /\ \A j \in 1 .. Len(wire) \ {i + 1} : ~IsFor(wire[j], "start")
      BY <3>2 DEF SyncInv, StartAsksOnce
    <3>4. \A j \in 1 .. Len(wire') \ {i} : j + 1 \in 1 .. Len(wire) \ {i + 1}
      BY <1>2, <3>1
    <3> QED BY <1>2, <3>3, <3>4
  <2>6. StartAsksOnce'
    BY <2>1, <2>4, <2>5 DEF SyncInv, StartAsksOnce
  <2> QED BY <1>4, <1>5, <2>2, <2>3, <2>6 DEF SyncInv
<1> QED BY <1>6, <1>7

\* Steps that change nothing but where a task is, its request, the link, and
\* perhaps whether the server listens.
LEMMA KeepStep ==
  ASSUME SyncInv,
         UNCHANGED <<home, wire, faults, ready, initial, cache, device, shown>>,
         link' \in {"down", "up", "subscribed"}, requests' \subseteq Askers,
         registered' \in BOOLEAN, registered => registered',
         step' \in [Askers -> {"new", "asleep", "asking", "answered", "ended"}],
         registered' => step'["start"] = "ended",
         \/ step'["start"] = step["start"]
            /\ ("start" \in requests' => "start" \in requests)
         \/ step["start"] \in {"new", "asleep"}
            /\ ("start" \in requests' => step'["start"] = "asking")
  PROVE  SyncInv'
<1>1. TypeOK'
  BY DEF SyncInv, TypeOK
<1>2. LoadedBeforeListening'
  BY DEF SyncInv, LoadedBeforeListening
<1>3. StartAsksOnce'
  BY DEF SyncInv, StartAsksOnce, IsFor
<1>4. EventsInOrder' /\ ClientsSeeTheDevice'
  BY DEF SyncInv, EventsInOrder, ClientsSeeTheDevice
<1> QED BY <1>1, <1>2, <1>3, <1>4 DEF SyncInv

\* Asking, or failing to because there is no connection.
LEMMA KeepAsk ==
  ASSUME SyncInv, NEW t \in Askers, Ask(t),
         t = "start" => step["start"] = "asleep"
  PROVE  SyncInv'
<1>1. /\ \/ step' = [step EXCEPT ![t] = AfterFailure(t)] /\ requests' = requests
         \/ step' = [step EXCEPT ![t] = "asking"] /\ requests' = requests \union {t}
      /\ UNCHANGED <<home, link, wire, faults, ready, initial, cache, device, registered, shown>>
  BY DEF Ask, copies
<1>2. AfterFailure(t) \in {"asleep", "ended"}
  BY DEF AfterFailure
<1>3. /\ step' \in [Askers -> {"new", "asleep", "asking", "answered", "ended"}]
      /\ requests' \subseteq Askers
      /\ "start" \in Askers
      /\ t # "start" => step'["start"] = step["start"]
      /\ t = "start" => step'["start"] = "asking" \/ requests' = requests
  BY <1>1, <1>2, Types DEF SyncInv, TypeOK
<1>4. step["start"] = "asleep" => ~registered /\ "start" \notin requests
  BY DEF SyncInv, LoadedBeforeListening, StartAsksOnce
<1>5. registered => step["start"] = "ended"
  BY DEF SyncInv, LoadedBeforeListening
<1>6. link' \in {"down", "up", "subscribed"} /\ registered' \in BOOLEAN
  BY <1>1 DEF SyncInv, TypeOK
<1>7. CASE t = "start"
  BY <1>1, <1>3, <1>4, <1>5, <1>6, <1>7, KeepStep
<1>8. CASE t # "start"
  <2>1. "start" \in requests' => "start" \in requests
    BY <1>1, <1>8
  <2> QED BY <1>1, <1>3, <1>5, <1>6, <1>8, <2>1, KeepStep
<1> QED BY <1>7, <1>8

\* The asker that ends or starts anew without asking is not the initial sync.
LEMMA KeepPlace ==
  ASSUME SyncInv, NEW t \in Askers, t # "start",
         NEW p \in {"new", "asleep", "answered", "ended"},
         step' = [step EXCEPT ![t] = p], link' \in {"down", "up", "subscribed"},
         UNCHANGED <<home, requests, wire, faults, ready, copies>>
  PROVE  SyncInv'
<1>1. /\ step' \in [Askers -> {"new", "asleep", "asking", "answered", "ended"}]
      /\ step'["start"] = step["start"] /\ requests \subseteq Askers /\ registered \in BOOLEAN
  BY Types DEF SyncInv, TypeOK
<1>2. registered => step["start"] = "ended"
  BY DEF SyncInv, LoadedBeforeListening
<1> QED BY <1>1, <1>2, KeepStep DEF copies

\* The steps that read and load nothing.
LEMMA KeepQuiet ==
  ASSUME SyncInv,
         \/ Subscribe \/ Reconnect \/ Start \/ StartAsks \/ Register \/ SyncAsks \/ SetupAsks
         \/ \E e \in Asked : Get(e)
  PROVE  SyncInv'
<1> USE Types
<1>1. /\ step \in [Askers -> {"new", "asleep", "asking", "answered", "ended"}]
      /\ link \in {"down", "up", "subscribed"} /\ requests \subseteq Askers
      /\ registered \in BOOLEAN
      /\ registered => step["start"] = "ended"
  BY DEF SyncInv, TypeOK, LoadedBeforeListening
<1>2. CASE Subscribe
  BY <1>1, <1>2, KeepStep DEF Subscribe, copies
<1>3. CASE Reconnect
  <2>1. PICK p \in {"new", "answered"} : step' = [step EXCEPT !["setup"] = p]
    BY <1>3 DEF Reconnect
  <2>2. link' = "up" /\ UNCHANGED <<home, requests, wire, faults, ready, copies>>
    BY <1>3 DEF Reconnect
  <2> QED BY <2>1, <2>2, KeepPlace
<1>4. CASE Start
  <2>1. /\ step' \in [Askers -> {"new", "asleep", "asking", "answered", "ended"}]
        /\ ~registered /\ step["start"] = "new" /\ "start" \notin requests
    BY <1>1, <1>4 DEF Start, SyncInv, StartAsksOnce
  <2>2. UNCHANGED <<home, link, requests, wire, faults, ready, initial, cache, device,
                    registered, shown>>
    BY <1>4 DEF Start, outside, copies
  <2> QED BY <1>1, <2>1, <2>2, KeepStep
<1>5. CASE StartAsks
  BY <1>5, KeepAsk DEF StartAsks
<1>6. CASE Register
  <2>1. /\ step["start"] = "ended" /\ registered' = TRUE
        /\ step' = [step EXCEPT !["sync"] = "asleep"]
        /\ UNCHANGED <<home, link, requests, wire, faults, ready, initial, cache, device, shown>>
    BY <1>6 DEF Register, outside
  <2>2. step' \in [Askers -> {"new", "asleep", "asking", "answered", "ended"}]
        /\ step'["start"] = step["start"]
    BY <1>1, <2>1
  <2> QED BY <1>1, <2>1, <2>2, KeepStep
<1>7. CASE SyncAsks
  BY <1>7, KeepAsk DEF SyncAsks
<1>8. CASE SetupAsks
  <2>1. CASE initial = Nothing
    BY <1>8, <2>1, KeepAsk DEF SetupAsks
  <2>2. CASE initial # Nothing
    <3>1. step' = [step EXCEPT !["setup"] = "ended"] /\ link' = link
          /\ UNCHANGED <<home, requests, wire, faults, ready, copies>>
      BY <1>8, <2>2 DEF SetupAsks, outside
    <3> QED BY <1>1, <3>1, KeepPlace
  <2> QED BY <2>1, <2>2
<1>9. CASE \E e \in Asked : Get(e)
  <2>1. PICK e \in Asked : Get(e)
    BY <1>9
  <2>2. e \in Askers /\ e # "start"
    BY EntitiesAssumption DEF Askers
  <2>3. CASE cache[e] = 0
    BY <2>1, <2>2, <2>3, KeepAsk DEF Get
  <2>4. CASE cache[e] # 0
    <3>1. step' = [step EXCEPT ![e] = "ended"] /\ link' = link
          /\ UNCHANGED <<home, requests, wire, faults, ready, copies>>
      BY <2>1, <2>4 DEF Get, outside
    <3> QED BY <1>1, <2>2, <3>1, KeepPlace
  <2> QED BY <2>3, <2>4
<1> QED BY <1>2, <1>3, <1>4, <1>5, <1>6, <1>7, <1>8, <1>9

\* Before the server listens, loading states tells nobody.
LEMMA LoadTellsNobody ==
  ASSUME SyncInv, ~registered, NEW states \in States, Load(states)
  PROVE  /\ initial' = states /\ cache' = states /\ device' = states
         /\ shown' = shown /\ registered' = registered /\ shown = Nothing
<1>1. shown' = [e \in Entities |-> shown[e]]
  BY DEF Load, Updated, Tells, Listening
<1>2. shown' = shown
  BY <1>1, Types DEF States
<1> QED BY <1>2 DEF Load, Updated, SyncInv, LoadedBeforeListening

\* The initial sync from the states the set-up has fetched.
LEMMA KeepLoadInitial ==
  ASSUME SyncInv, LoadInitial
  PROVE  SyncInv'
<1>1. /\ step["start"] = "asleep" /\ Load(initial)
      /\ step' = [step EXCEPT !["start"] = "ended"]
      /\ UNCHANGED <<home, link, requests, wire, faults, ready>>
  BY DEF LoadInitial, outside
<1>2. ~registered /\ "start" \notin requests
  BY <1>1 DEF SyncInv, LoadedBeforeListening, StartAsksOnce
<1>3. /\ initial' = initial /\ cache' = initial /\ device' = initial
      /\ shown' = shown /\ registered' = registered /\ shown = Nothing
  BY <1>1, <1>2, Types, LoadTellsNobody
<1>4. TypeOK'
  BY <1>1, <1>3, Types DEF SyncInv, TypeOK
<1>5. LoadedBeforeListening' /\ ClientsSeeTheDevice'
  BY <1>2, <1>3 DEF LoadedBeforeListening, ClientsSeeTheDevice, Nothing
<1>6. StartAsksOnce'
  BY <1>1, <1>2 DEF SyncInv, StartAsksOnce, IsFor
<1>7. EventsInOrder'
  BY <1>1, <1>3 DEF SyncInv, EventsInOrder
<1> QED BY <1>4, <1>5, <1>6, <1>7 DEF SyncInv

\* The next task goes on with the states it asked for.
LEMMA KeepResume ==
  ASSUME SyncInv, Resume
  PROVE  SyncInv'
<1> DEFINE t == Head(ready).who
           states == Head(ready).states
<1>1. /\ ready # <<>> /\ ready' = Tail(ready)
      /\ step' = [step EXCEPT ![t] = IF t = "sync" THEN "asleep" ELSE "ended"]
      /\ CASE t = "setup" -> initial' = states /\ UNCHANGED <<cache, device, registered, shown>>
           [] t = "start" -> Load(states)
           [] t = "sync"  -> cache' = states /\ UNCHANGED <<initial, device, registered, shown>>
           [] OTHER       -> /\ cache' = [cache EXCEPT ![t] = states[t]]
                             /\ UNCHANGED <<initial, device, registered, shown>>
      /\ UNCHANGED <<home, link, requests, wire, faults>>
  BY DEF Resume, outside
<1>2. /\ Head(ready) = ready[1] /\ Head(ready) \in Result /\ ready' \in Seq(Result)
      /\ Len(ready) \in Nat \ {0} /\ Len(ready') = Len(ready) - 1
      /\ \A i \in 1 .. Len(ready') : i + 1 \in 1 .. Len(ready) /\ ready'[i] = ready[i + 1]
  BY <1>1, Types, TailOf
<1>3. t \in Askers /\ states \in States /\ t = ready[1].who /\ 1 \in 1 .. Len(ready)
  BY <1>2 DEF Result
<1> HIDE DEF t, states
<1>4. /\ step' \in [Askers -> {"new", "asleep", "asking", "answered", "ended"}]
      /\ step'[t] = IF t = "sync" THEN "asleep" ELSE "ended"
      /\ \A x \in Askers : x # t => step'[x] = step[x]
  BY <1>1, <1>3 DEF SyncInv, TypeOK
<1>5. CASE t = "start"
  <2>1. /\ step["start"] = "answered"
        /\ \A j \in 1 .. Len(ready) \ {1} : ready[j].who # "start"
    BY <1>3, <1>5 DEF SyncInv, StartAsksOnce
  <2>2. ~registered
    BY <2>1 DEF SyncInv, LoadedBeforeListening
  <2>3. Load(states)
    BY <1>1, <1>5
  <2>4. /\ initial' = states /\ cache' = states /\ device' = states
        /\ shown' = shown /\ registered' = registered /\ shown = Nothing
    BY <1>3, <2>2, <2>3, LoadTellsNobody
  <2>5. TypeOK'
    BY <1>1, <1>2, <1>3, <1>4, <2>4 DEF SyncInv, TypeOK, Result
  <2>6. LoadedBeforeListening' /\ ClientsSeeTheDevice'
    BY <2>2, <2>4 DEF LoadedBeforeListening, ClientsSeeTheDevice, Nothing
  <2>7. \A i \in 1 .. Len(ready') : ready'[i].who # "start"
    BY <1>2, <2>1
  <2>8. "start" \notin requests /\ \A i \in 1 .. Len(wire) : ~IsFor(wire[i], "start")
    BY <2>1 DEF SyncInv, StartAsksOnce
  <2>9. StartAsksOnce'
    BY <1>1, <2>7, <2>8 DEF StartAsksOnce, IsFor
  <2>10. EventsInOrder'
    BY <1>1, <2>4 DEF SyncInv, EventsInOrder
  <2> QED BY <2>5, <2>6, <2>9, <2>10 DEF SyncInv
<1>6. CASE t # "start"
  <2>1. step'["start"] = step["start"]
    BY <1>4, <1>6, Types
  <2>2. UNCHANGED <<device, registered, shown>> /\ initial' \in States /\ cache' \in States
    <3>1. CASE t \in {"setup", "sync"}
      BY <1>1, <1>3, <3>1, Types
    <3>2. CASE t \notin {"setup", "sync"}
      <4>1. t \in Entities
        BY <1>3, <1>6, <3>2, EntitiesAssumption DEF Askers
      <4>2. cache' = [cache EXCEPT ![t] = states[t]]
            /\ UNCHANGED <<initial, device, registered, shown>>
        BY <1>1, <1>6, <3>2
      <4>3. states[t] \in State
        BY <1>3, <4>1 DEF States
      <4> QED BY <4>2, <4>3, Types DEF States
    <3> QED BY <3>1, <3>2
  <2>3. TypeOK'
    BY <1>1, <1>2, <1>4, <2>2 DEF SyncInv, TypeOK, Result
  <2>4. LoadedBeforeListening' /\ ClientsSeeTheDevice'
    BY <2>1, <2>2 DEF SyncInv, LoadedBeforeListening, ClientsSeeTheDevice
  <2>5. (\A i \in 1 .. Len(ready) : ready[i].who = "start" =>
            step["start"] = "answered" /\ \A j \in 1 .. Len(ready) \ {i} : ready[j].who # "start")'
    <3>1. SUFFICES ASSUME NEW i \in 1 .. Len(ready'), ready'[i].who = "start"
                   PROVE  step["start"] = "answered"
                          /\ \A j \in 1 .. Len(ready') \ {i} : ready'[j].who # "start"
      BY <2>1
    <3>2. i + 1 \in 1 .. Len(ready) /\ ready[i + 1].who = "start"
      BY <1>2, <3>1
    <3>3. step["start"] = "answered"
          /\ \A j \in 1 .. Len(ready) \ {i + 1} : ready[j].who # "start"
      BY <3>2 DEF SyncInv, StartAsksOnce
    <3>4. \A j \in 1 .. Len(ready') \ {i} : j + 1 \in 1 .. Len(ready) \ {i + 1}
      BY <1>2, <3>1
    <3> QED BY <1>2, <3>3, <3>4
  <2>6. StartAsksOnce'
    BY <1>1, <2>1, <2>5 DEF SyncInv, StartAsksOnce, IsFor
  <2>7. EventsInOrder'
    BY <1>1, <2>2 DEF SyncInv, EventsInOrder
  <2> QED BY <2>3, <2>4, <2>6, <2>7 DEF SyncInv
<1> QED BY <1>5, <1>6

\* An event that is handed over is newer than what the clients were told, and
\* so are the events of its entity behind it.
LEMMA KeepReadEvent ==
  ASSUME SyncInv, ReadEvent
  PROVE  SyncInv' /\ \A e \in Entities : shown'[e] >= shown[e]
<1> DEFINE f == Head(wire)
<1>1. /\ wire # <<>> /\ f.what = "event" /\ wire' = Tail(wire)
      /\ IF Ignored(f)
         THEN UNCHANGED <<cache, device, shown>>
         ELSE /\ cache' = [cache EXCEPT ![f.entity] = f.new]
              /\ Updated([device EXCEPT ![f.entity] = f.new])
      /\ UNCHANGED <<home, link, requests, faults, step, ready, initial, registered>>
  BY DEF ReadEvent
<1>2. /\ f = wire[1] /\ f \in Frame /\ wire' \in Seq(Frame)
      /\ Len(wire) \in Nat \ {0} /\ Len(wire') = Len(wire) - 1
      /\ \A i \in 1 .. Len(wire') : i + 1 \in 1 .. Len(wire) /\ wire'[i] = wire[i + 1]
  BY <1>1, Types, TailOf
<1>3. f.entity \in Entities /\ f.new \in State /\ f.new \in Nat /\ 1 \in 1 .. Len(wire)
  BY <1>1, <1>2, EventFields, Types
<1> HIDE DEF f
<1>4. /\ shown[f.entity] < f.new /\ f.new <= home[f.entity]
      /\ \A j \in 2 .. Len(wire) : wire[j].what = "event" /\ wire[j].entity = f.entity =>
             f.new < wire[j].new
  <2>1. 1 + 1 = 2
    OBVIOUS
  <2> QED BY <1>1, <1>2, <1>3, <2>1 DEF SyncInv, EventsInOrder
<1>5. StartAsksOnce'
  <2>1. ("start" \in requests => step["start"] = "asking"
            /\ \A i \in 1 .. Len(wire) : ~IsFor(wire[i], "start"))'
    BY <1>1, <1>2 DEF SyncInv, StartAsksOnce, IsFor
  <2>2. (\A i \in 1 .. Len(wire) : IsFor(wire[i], "start") =>
            step["start"] = "asking" /\ \A j \in 1 .. Len(wire) \ {i} : ~IsFor(wire[j], "start"))'
    <3>1. SUFFICES ASSUME NEW i \in 1 .. Len(wire'), IsFor(wire'[i], "start")
                   PROVE  step["start"] = "asking"
                          /\ \A j \in 1 .. Len(wire') \ {i} : ~IsFor(wire'[j], "start")
      BY <1>1
    <3>2. i + 1 \in 1 .. Len(wire) /\ IsFor(wire[i + 1], "start")
      BY <1>2, <3>1
    <3>3. step["start"] = "asking"
          /\ \A j \in 1 .. Len(wire) \ {i + 1} : ~IsFor(wire[j], "start")
      BY <3>2 DEF SyncInv, StartAsksOnce
    <3>4. \A j \in 1 .. Len(wire') \ {i} : j + 1 \in 1 .. Len(wire) \ {i + 1}
      BY <1>2, <3>1
    <3> QED BY <1>2, <3>3, <3>4
  <2> QED BY <1>1, <2>1, <2>2 DEF SyncInv, StartAsksOnce
<1>6. \A x \in Entities : shown[x] \in Nat /\ shown[x] <= home[x] /\ home[x] \in Nat
                          /\ device[x] \in Nat
  BY Types DEF SyncInv, EventsInOrder, States
<1>7. CASE Ignored(f)
  <2>1. UNCHANGED <<cache, device, shown>>
    BY <1>1, <1>7
  <2>2. TypeOK' /\ LoadedBeforeListening' /\ ClientsSeeTheDevice'
    BY <1>1, <1>2, <2>1 DEF SyncInv, TypeOK, LoadedBeforeListening, ClientsSeeTheDevice, Frame
  <2>3. EventsInOrder'
    BY <1>1, <1>2, <2>1, SameEvents
  <2> QED BY <1>5, <1>6, <2>1, <2>2, <2>3 DEF SyncInv
<1>8. CASE ~Ignored(f)
  <2> DEFINE new == [device EXCEPT ![f.entity] = f.new]
  <2>1. /\ cache' = [cache EXCEPT ![f.entity] = f.new] /\ device' = new
        /\ shown' = [x \in Entities |-> IF Tells(x, new[x]) THEN new[x] ELSE shown[x]]
    BY <1>1, <1>8 DEF Updated
  <2>2. /\ new \in States /\ new[f.entity] = f.new
        /\ \A x \in Entities \ {f.entity} : new[x] = device[x]
    BY <1>3, Types DEF States
  <2> HIDE DEF new
  <2>3. \A x \in Entities \ {f.entity} : shown'[x] = shown[x]
    BY <2>1, <2>2 DEF Tells, Before
  <2>4. shown'[f.entity] = IF Tells(f.entity, f.new) THEN f.new ELSE shown[f.entity]
    BY <1>3, <2>1, <2>2
  <2>5. \A x \in Entities : shown'[x] >= shown[x] /\ shown'[x] <= home[x] /\ shown'[x] \in Nat
    BY <1>3, <1>4, <1>6, <2>3, <2>4
  <2>6. shown' \in States /\ cache' \in States /\ device' \in States
    <3>1. \A x \in Entities : shown'[x] \in State
      BY <1>3, <2>3, <2>4, Types DEF States
    <3> QED BY <1>3, <2>1, <2>2, <3>1, Types DEF States
  <2>7. TypeOK'
    BY <1>1, <1>2, <2>6 DEF SyncInv, TypeOK, Frame
  <2>8. LoadedBeforeListening'
    <3>1. ~registered => shown' = shown
      <4>1. SUFFICES ASSUME ~registered PROVE shown' = shown
        OBVIOUS
      <4>2. shown' = [x \in Entities |-> shown[x]]
        BY <2>1, <4>1 DEF Tells, Listening
      <4> QED BY <4>2, Types DEF States
    <3> QED BY <1>1, <3>1 DEF SyncInv, LoadedBeforeListening
  <2>9. ClientsSeeTheDevice'
    <3>1. SUFFICES ASSUME NEW x \in Entities, shown'[x] # 0
                   PROVE  Value(shown'[x]) = Value(device'[x])
      BY DEF ClientsSeeTheDevice
    <3>2. shown[x] # 0 => Value(shown[x]) = Value(device[x])
      BY DEF SyncInv, ClientsSeeTheDevice
    <3>3. CASE x # f.entity
      BY <2>1, <2>2, <2>3, <3>1, <3>2, <3>3
    <3>4. CASE x = f.entity /\ Tells(x, f.new)
      BY <2>1, <2>2, <2>4, <3>4
    <3>5. CASE x = f.entity /\ ~Tells(x, f.new)
      <4>1. shown'[x] = shown[x] /\ shown[x] # 0 /\ device'[x] = f.new
        BY <2>1, <2>2, <2>4, <3>1, <3>5
      <4>2. registered
        BY <4>1 DEF SyncInv, LoadedBeforeListening, Nothing
      <4>3. device[x] # 0
        <5>1. Value(shown[x]) # "none"
          BY <4>1 DEF Value
        <5> QED BY <3>2, <4>1, <5>1 DEF Value
      <4>4. Value(device[x]) = Value(f.new)
        BY <3>5, <4>2, <4>3 DEF Tells, Listening, Before
      <4> QED BY <3>2, <4>1, <4>4
    <3> QED BY <3>3, <3>4, <3>5
  <2>10. EventsInOrder'
    <3>1. SUFFICES ASSUME NEW i \in 1 .. Len(wire'), wire'[i].what = "event"
                   PROVE  /\ shown'[wire'[i].entity] < wire'[i].new
                          /\ wire'[i].new <= home[wire'[i].entity]
                          /\ \A j \in i + 1 .. Len(wire') :
                                wire'[j].what = "event" /\ wire'[j].entity = wire'[i].entity =>
                                    wire'[i].new < wire'[j].new
      BY <1>1, <2>5 DEF EventsInOrder
    <3>2. i + 1 \in 2 .. Len(wire) /\ i + 1 \in 1 .. Len(wire) /\ wire'[i] = wire[i + 1]
      BY <1>2, <3>1
    <3>3. /\ shown[wire[i + 1].entity] < wire[i + 1].new
          /\ wire[i + 1].new <= home[wire[i + 1].entity]
          /\ \A j \in (i + 1) + 1 .. Len(wire) :
                wire[j].what = "event" /\ wire[j].entity = wire[i + 1].entity =>
                    wire[i + 1].new < wire[j].new
      BY <3>1, <3>2 DEF SyncInv, EventsInOrder
    <3>4. wire[i + 1].entity \in Entities /\ wire[i + 1].new \in Nat
      BY <3>1, <3>2, EventFields, Types
    <3>5. shown'[wire[i + 1].entity] < wire[i + 1].new
      <4>1. CASE wire[i + 1].entity = f.entity
        BY <1>3, <1>4, <2>4, <3>1, <3>2, <3>3, <4>1
      <4>2. CASE wire[i + 1].entity # f.entity
        BY <2>3, <3>3, <3>4, <4>2
      <4> QED BY <4>1, <4>2
    <3>6. ASSUME NEW j \in i + 1 .. Len(wire'),
                 wire'[j].what = "event", wire'[j].entity = wire'[i].entity
          PROVE  wire'[i].new < wire'[j].new
      <4>1. j \in 1 .. Len(wire') /\ wire'[j] = wire[j + 1] /\ j + 1 \in (i + 1) + 1 .. Len(wire)
        BY <1>2, <3>1
      <4> QED BY <3>2, <3>3, <3>6, <4>1
    <3> QED BY <3>2, <3>3, <3>5, <3>6
  <2> QED BY <1>5, <2>5, <2>7, <2>8, <2>9, <2>10 DEF SyncInv
<1> QED BY <1>7, <1>8

\* Nobody but the reader, and no sync, changes what the clients have been told.
LEMMA OnlyEventsTell ==
  ASSUME SyncInv, [Next]_vars, ~ReadEvent
  PROVE  shown' = shown
<1>1. CASE UNCHANGED vars
  BY <1>1 DEF vars, copies
<1>2. CASE LoadInitial
  <2>1. step["start"] = "asleep" /\ Load(initial)
    BY <1>2 DEF LoadInitial
  <2>2. ~registered
    BY <2>1 DEF SyncInv, LoadedBeforeListening
  <2> QED BY <2>1, <2>2, Types, LoadTellsNobody
<1>3. CASE Resume
  <2>1. ready # <<>> /\ Head(ready) = ready[1] /\ Head(ready) \in Result /\ 1 \in 1 .. Len(ready)
    <3>1. ready # <<>>
      BY <1>3 DEF Resume
    <3> QED BY <3>1, Types, TailOf
  <2>2. CASE Head(ready).who = "start"
    <3>1. Load(Head(ready).states) /\ Head(ready).states \in States
      BY <1>3, <2>1, <2>2 DEF Resume, Result
    <3>2. ~registered
      BY <2>1, <2>2 DEF SyncInv, StartAsksOnce, LoadedBeforeListening
    <3> QED BY <3>1, <3>2, LoadTellsNobody
  <2>3. CASE Head(ready).who # "start"
    BY <1>3, <2>3 DEF Resume
  <2> QED BY <2>2, <2>3
<1>4. CASE \E e \in Entities : Change(e)
  BY <1>4 DEF Change, copies
<1>5. CASE \E e \in Asked : Get(e)
  BY <1>5 DEF Get, Ask, copies
<1>6. CASE \E t \in Askers : AnswerRequest(t) \/ Timeout(t)
  BY <1>6 DEF AnswerRequest, Timeout, copies
<1>7. CASE Subscribe \/ Lose \/ Reconnect \/ ReadAnswer
  BY <1>7 DEF Subscribe, Lose, Reconnect, ReadAnswer, copies
<1>8. CASE Start \/ StartAsks \/ Register \/ SyncAsks \/ SetupAsks
  BY <1>8 DEF Start, StartAsks, Register, SyncAsks, SetupAsks, Ask, copies
<1> QED BY <1>1, <1>2, <1>3, <1>4, <1>5, <1>6, <1>7, <1>8 DEF Next, Reader, Timers

\* Every step preserves the invariant.
LEMMA SyncNext == SyncInv /\ [Next]_vars => SyncInv'
<1> SUFFICES ASSUME SyncInv, [Next]_vars PROVE SyncInv'
  OBVIOUS
<1>1. CASE UNCHANGED vars
  BY <1>1 DEF vars, outside, copies, SyncInv, TypeOK, LoadedBeforeListening, StartAsksOnce,
              EventsInOrder, ClientsSeeTheDevice, IsFor
<1>2. CASE \E e \in Entities : Change(e)
  BY <1>2, KeepChange
<1>3. CASE \E t \in Askers : AnswerRequest(t) \/ Timeout(t)
  BY <1>3, KeepAnswerRequest, KeepTimeout
<1>4. CASE Lose
  BY <1>4, KeepLose
<1>5. CASE ReadEvent \/ ReadAnswer
  BY <1>5, KeepReadEvent, KeepReadAnswer
<1>6. CASE LoadInitial \/ Resume
  BY <1>6, KeepLoadInitial, KeepResume
<1>7. CASE \/ Subscribe \/ Reconnect \/ Start \/ StartAsks \/ Register \/ SyncAsks \/ SetupAsks
           \/ \E e \in Asked : Get(e)
  BY <1>7, KeepQuiet
<1> QED BY <1>1, <1>2, <1>3, <1>4, <1>5, <1>6, <1>7 DEF Next, Reader, Timers

\* The invariant of the state copies, for any set of entities and any bounds.
THEOREM SyncInvariant == Spec => []SyncInv
<1> QED BY SyncInit, SyncNext, PTL DEF Spec

\* What a client has been told of an entity is the value the device manager
\* holds: the notification of _on_device_change is never overtaken by a sync.
THEOREM ClientsSeeDevices == Spec => []ClientsSeeTheDevice
<1>1. SyncInv => ClientsSeeTheDevice
  BY DEF SyncInv
<1> QED BY <1>1, SyncInvariant, PTL

\* Clients are told the states of an entity in the order they came about,
\* although snapshots of any age are loaded at any time.
THEOREM ClientsToldInOrder == Spec => ClientsInOrder
<1>1. SyncInv /\ [Next]_vars => [\A e \in Entities : shown'[e] >= shown[e]]_vars
  <2> SUFFICES ASSUME SyncInv, [Next]_vars PROVE \A e \in Entities : shown'[e] >= shown[e]
    OBVIOUS
  <2>1. CASE ReadEvent
    BY <2>1, KeepReadEvent
  <2>2. CASE ~ReadEvent
    <3>1. shown' = shown
      BY <2>2, OnlyEventsTell
    <3> QED BY <3>1, Types DEF States
  <2> QED BY <2>1, <2>2
<1> QED BY <1>1, SyncInvariant, PTL DEF Spec, ClientsInOrder
=============================================================================

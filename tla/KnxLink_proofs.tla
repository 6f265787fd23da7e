---------------------------- MODULE KnxLink_proofs ----------------------------
(***************************************************************************)
(* SentInOrder, LinkSound and NotForgotten are invariants of KnxLink for   *)
(* any batch and queue size, any number of registrations per event, of     *)
(* events, attempts and faults, and with or without a delay.               *)
(***************************************************************************)
EXTENDS KnxLink, SequenceTheorems, TLAPS

-----------------------------------------------------------------------------
(***************************************************************************)
(* States on their way: sent before batched before queued.                 *)
(***************************************************************************)
Rising(s) == \A j, k \in 1 .. Len(s) : j < k => s[j] < s[k]

Before(s, r) == \A j \in 1 .. Len(s), k \in 1 .. Len(r) : s[j] < r[k]

Under(s, n) == \A k \in 1 .. Len(s) : s[k] < n

InOrder(s, b, q, n) ==
    /\ Rising(s) /\ Rising(b) /\ Rising(q)
    /\ Before(s, b) /\ Before(s, q) /\ Before(b, q)
    /\ Under(s, n) /\ Under(b, n) /\ Under(q, n)

\* Sequences of states, in the form the steps below need them.
LEMMA Elements ==
  ASSUME NEW N \in SUBSET Nat, NEW s \in Seq(N)
  PROVE  Len(s) \in Nat /\ \A k \in 1 .. Len(s) : s[k] \in Nat
<1>1. Len(s) \in Nat
  BY LenProperties
<1>2. \A k \in 1 .. Len(s) : s[k] \in N
  BY ElementOfSeq
<1> QED BY <1>1, <1>2

\* What is left behind the first state.
LEMMA Behind ==
  ASSUME NEW N \in SUBSET Nat, NEW s \in Seq(N), s # <<>>
  PROVE  /\ Tail(s) \in Seq(N) /\ Head(s) \in N /\ Head(s) = s[1]
         /\ Len(s) \in Nat /\ Len(s) >= 1 /\ Len(Tail(s)) = Len(s) - 1
         /\ \A k \in 1 .. Len(Tail(s)) : Tail(s)[k] = s[k + 1] /\ k + 1 \in 1 .. Len(s)
<1>1. Len(s) \in Nat /\ Len(s) >= 1
  BY EmptySeq
<1>2. Tail(s) \in Seq(N) /\ Head(s) \in N /\ Len(Tail(s)) = Len(s) - 1
      /\ \A k \in 1 .. Len(Tail(s)) : Tail(s)[k] = s[k + 1]
  BY HeadTailProperties
<1>3. Head(s) = s[1]
  OBVIOUS
<1> QED BY <1>1, <1>2, <1>3

\* A batch that is dropped.
LEMMA DroppedBatch ==
  ASSUME NEW s, NEW b, NEW q, NEW n, InOrder(s, b, q, n)
  PROVE  InOrder(s, <<>>, q, n)
BY EmptySeq DEF InOrder, Rising, Before, Under

\* The first of the queue goes to the end of the batch.
LEMMA TakenFromQueue ==
  ASSUME NEW N \in SUBSET Nat, NEW s \in Seq(N), NEW b \in Seq(N), NEW q \in Seq(N), NEW n \in Nat,
         InOrder(s, b, q, n), q # <<>>
  PROVE  InOrder(s, Append(b, Head(q)), Tail(q), n)
<1> DEFINE c == Append(b, Head(q))
<1>1. /\ Tail(q) \in Seq(N) /\ Head(q) \in N /\ Head(q) = q[1]
      /\ Len(q) \in Nat /\ Len(q) >= 1 /\ Len(Tail(q)) = Len(q) - 1
      /\ \A k \in 1 .. Len(Tail(q)) : Tail(q)[k] = q[k + 1] /\ k + 1 \in 1 .. Len(q)
  BY Behind
<1>2. Len(c) = Len(b) + 1 /\ (\A k \in 1 .. Len(b) : c[k] = b[k]) /\ c[Len(b) + 1] = q[1]
  BY <1>1, AppendProperties
<1>3. Len(s) \in Nat /\ Len(b) \in Nat
  BY Elements
<1>4. \A k \in 1 .. Len(c) : k \in 1 .. Len(b) \/ k = Len(b) + 1
  BY <1>2, <1>3
<1>5. 1 \in 1 .. Len(q)
  BY <1>1
<1> HIDE DEF c
<1>6. Rising(c) /\ Rising(Tail(q))
  BY <1>1, <1>2, <1>3, <1>4, <1>5 DEF InOrder, Rising, Before
<1>7. Before(s, c) /\ Before(s, Tail(q))
  BY <1>1, <1>2, <1>3, <1>4, <1>5 DEF InOrder, Before
<1>8. Before(c, Tail(q))
  BY <1>1, <1>2, <1>3, <1>4, <1>5 DEF InOrder, Rising, Before
<1>9. Under(c, n) /\ Under(Tail(q), n)
  BY <1>1, <1>2, <1>3, <1>4, <1>5 DEF InOrder, Under
<1> QED BY <1>6, <1>7, <1>8, <1>9 DEF InOrder, c

\* The first of the batch is lost.
LEMMA LostFromBatch ==
  ASSUME NEW N \in SUBSET Nat, NEW s, NEW b \in Seq(N), NEW q, NEW n,
         InOrder(s, b, q, n), b # <<>>
  PROVE  InOrder(s, Tail(b), q, n)
<1>1. /\ Len(b) \in Nat /\ Len(Tail(b)) = Len(b) - 1
      /\ \A k \in 1 .. Len(Tail(b)) : Tail(b)[k] = b[k + 1] /\ k + 1 \in 1 .. Len(b)
  BY Behind
<1> QED BY <1>1 DEF InOrder, Rising, Before, Under

\* The first of the batch is sent.
LEMMA SentFromBatch ==
  ASSUME NEW N \in SUBSET Nat, NEW s \in Seq(N), NEW b \in Seq(N), NEW q \in Seq(N), NEW n \in Nat,
         InOrder(s, b, q, n), b # <<>>
  PROVE  InOrder(Append(s, Head(b)), Tail(b), q, n)
<1> DEFINE c == Append(s, Head(b))
<1>1. /\ Tail(b) \in Seq(N) /\ Head(b) \in N /\ Head(b) = b[1]
      /\ Len(b) \in Nat /\ Len(b) >= 1 /\ Len(Tail(b)) = Len(b) - 1
      /\ \A k \in 1 .. Len(Tail(b)) : Tail(b)[k] = b[k + 1] /\ k + 1 \in 1 .. Len(b)
  BY Behind
<1>2. Len(c) = Len(s) + 1 /\ (\A k \in 1 .. Len(s) : c[k] = s[k]) /\ c[Len(s) + 1] = b[1]
  BY <1>1, AppendProperties
<1>3. Len(s) \in Nat /\ Len(q) \in Nat
  BY Elements
<1>4. \A k \in 1 .. Len(c) : k \in 1 .. Len(s) \/ k = Len(s) + 1
  BY <1>2, <1>3
<1>5. 1 \in 1 .. Len(b)
  BY <1>1
<1> HIDE DEF c
<1>6. Rising(c)
  BY <1>1, <1>2, <1>3, <1>4, <1>5 DEF InOrder, Rising, Before
<1>10. Rising(Tail(b))
  BY <1>1 DEF InOrder, Rising
<1>7. Before(c, q) /\ Before(Tail(b), q)
  BY <1>1, <1>2, <1>3, <1>4, <1>5 DEF InOrder, Before
<1>8. Before(c, Tail(b))
  BY <1>1, <1>2, <1>3, <1>4, <1>5 DEF InOrder, Rising, Before
<1>9. Under(c, n) /\ Under(Tail(b), n)
  BY <1>1, <1>2, <1>3, <1>4, <1>5 DEF InOrder, Under
<1> QED BY <1>6, <1>10, <1>7, <1>8, <1>9 DEF InOrder, c

\* A new state, later than all others, is queued.
LEMMA PutIntoQueue ==
  ASSUME NEW N \in SUBSET Nat, NEW s \in Seq(N), NEW b \in Seq(N), NEW q \in Seq(N), NEW n \in N,
         InOrder(s, b, q, n)
  PROVE  InOrder(s, b, Append(q, n), n + 1)
<1> DEFINE c == Append(q, n)
<1>1. Len(s) \in Nat /\ Len(b) \in Nat /\ Len(q) \in Nat /\ n \in Nat
  BY Elements
<1>2. Len(c) = Len(q) + 1 /\ (\A k \in 1 .. Len(q) : c[k] = q[k]) /\ c[Len(q) + 1] = n
  BY AppendProperties
<1>3. \A k \in 1 .. Len(c) : k \in 1 .. Len(q) \/ k = Len(q) + 1
  BY <1>1, <1>2
<1>4. /\ \A k \in 1 .. Len(s) : s[k] \in Nat
      /\ \A k \in 1 .. Len(b) : b[k] \in Nat
      /\ \A k \in 1 .. Len(q) : q[k] \in Nat
  BY Elements
<1> HIDE DEF c
<1>5. Rising(c)
  BY <1>1, <1>2, <1>3, <1>4 DEF InOrder, Rising, Under
<1>6. Before(s, c) /\ Before(b, c)
  BY <1>1, <1>2, <1>3, <1>4 DEF InOrder, Before, Under
<1>7. Under(s, n + 1) /\ Under(b, n + 1)
  BY <1>1, <1>4 DEF InOrder, Under
<1>8. Under(c, n + 1)
  BY <1>1, <1>2, <1>3, <1>4 DEF InOrder, Under
<1> QED BY <1>5, <1>6, <1>7, <1>8 DEF InOrder, c

\* What is below a bound is below a higher one.
LEMMA HigherBound ==
  ASSUME NEW N \in SUBSET Nat, NEW s \in Seq(N), NEW b \in Seq(N), NEW q \in Seq(N),
         NEW n \in Nat, NEW m \in Nat, n <= m, InOrder(s, b, q, n)
  PROVE  InOrder(s, b, q, m)
<1>1. /\ \A k \in 1 .. Len(s) : s[k] \in Nat
      /\ \A k \in 1 .. Len(b) : b[k] \in Nat
      /\ \A k \in 1 .. Len(q) : q[k] \in Nat
  BY Elements
<1>2. Under(s, m) /\ Under(b, m) /\ Under(q, m)
  BY <1>1 DEF InOrder, Under
<1> QED BY <1>2 DEF InOrder
-----------------------------------------------------------------------------
(***************************************************************************)
(* The invariant, in three parts that share few variables.                 *)
(***************************************************************************)
States == 1 .. MaxEvents
Broken == {"garbage", "orderly", "broken"}

\* A task's request is with the KNX gateway, or on its way there.
Flying(k) == k.pc \in {"sending", "waiting"}

\* Registrations that a task will still ask an id for.
Owes(k) == IF Flying(k) THEN k.left - 1 ELSE k.left

TaskTypes ==
    /\ asked \subseteq Ids /\ pending \subseteq Ids /\ counter \in Nat
    /\ tasks \in [Tasks -> Task]
    /\ event \in 0 .. MaxEvents

\* Ids are given once, and never more than the events have paid for.
TaskInv ==
    /\ TaskTypes
    /\ \A t \in Tasks : /\ tasks[t].pc # "idle" => tasks[t].left >= 1
                        /\ Flying(tasks[t]) => tasks[t].id < counter
    /\ tasks["reader"].pc = "idle" => tasks["reader"].left = 0
    /\ tasks["reader"].pc # "idle" => event >= 1
    /\ \A s, t \in Tasks :
          Flying(tasks[s]) /\ Flying(tasks[t]) /\ tasks[s].id = tasks[t].id => s = t
    /\ counter + Owes(tasks["reader"]) + Owes(tasks["discovery"]) <= PerEvent * event + 1

WireInv ==
    /\ link \in BOOLEAN /\ connected \in BOOLEAN /\ listener \in BOOLEAN
    /\ wire \in Seq(Message)
    /\ faults \in 0 .. MaxFaults
    /\ connector \in [pc : {"boot", "none", "sleeping", "trying"}, failed : 0 .. MaxAttempts]
    /\ \A k \in 1 .. Len(wire) : wire[k].what \in Broken => faults > 0
    /\ ConnectedIsHeard
    /\ NotForgotten

\* The state being put is later than all others.
Bound == IF tasks["reader"].pc = "putting" THEN event ELSE event + 1

FlowInv ==
    /\ queue \in Seq(States) /\ Len(queue) <= QueueSize
    /\ consumer \in [pc : {"new", "waiting", "sending", "ended"}, batch : Seq(States)]
    /\ sent \in Seq(States)
    /\ InOrder(sent, consumer.batch, queue, Bound)

LinkInv == mapped \in BOOLEAN /\ TaskInv /\ WireInv /\ FlowInv

LEMMA Sizes ==
  /\ PerEvent \in Nat /\ PerEvent >= 1 /\ MaxEvents \in Nat /\ MaxFaults \in Nat
  /\ MaxAttempts \in Nat /\ MaxAttempts >= 1 /\ QueueSize \in Nat /\ QueueSize >= 1
  /\ BatchSize \in Nat /\ Delay \in BOOLEAN
BY SizesAssumption

\* What the events pay for.
LEMMA Numbers ==
  \A n \in 0 .. MaxEvents : /\ PerEvent * n \in Nat
                            /\ PerEvent * n <= PerEvent * MaxEvents
                            /\ PerEvent * (n + 1) = PerEvent * n + PerEvent
<1>1. PerEvent \in Nat /\ MaxEvents \in Nat
  BY Sizes
<1>2. ASSUME NEW n \in 0 .. MaxEvents
      PROVE  /\ PerEvent * n \in Nat
             /\ PerEvent * n <= PerEvent * MaxEvents
             /\ PerEvent * (n + 1) = PerEvent * n + PerEvent
  <2>1. n \in Nat /\ MaxEvents - n \in Nat
    BY <1>1
  <2>2. PerEvent * n \in Nat /\ PerEvent * (MaxEvents - n) \in Nat
    BY <1>1, <2>1
  <2>3. PerEvent * MaxEvents = PerEvent * n + PerEvent * (MaxEvents - n)
    BY <1>1, <2>1
  <2>4. PerEvent * (n + 1) = PerEvent * n + PerEvent
    BY <1>1, <2>1
  <2> QED BY <2>2, <2>3, <2>4
<1> QED BY <1>1, <1>2

\* The initial state.
LEMMA LinkInit == Init => LinkInv
<1> SUFFICES ASSUME Init PROVE LinkInv
  OBVIOUS
<1>1. TaskInv
  <2>1. 0 \in Ids /\ PerEvent * event = 0 /\ event = 0 /\ counter = 0
    BY Sizes DEF Init, Ids
  <2>2. \A t \in Tasks : tasks[t] = [pc |-> "idle", left |-> IF t = "discovery" THEN 1 ELSE 0,
                                     id |-> 0]
    BY DEF Init
  <2>3. "reader" \in Tasks /\ "discovery" \in Tasks
    BY DEF Tasks
  <2>4. tasks \in [Tasks -> Task]
    <3>1. [pc |-> "idle", left |-> 0, id |-> 0] \in Task
          /\ [pc |-> "idle", left |-> 1, id |-> 0] \in Task
      BY <2>1, Sizes DEF Task
    <3> QED BY <3>1 DEF Init
  <2>5. /\ tasks["reader"].pc = "idle" /\ tasks["reader"].left = 0
        /\ tasks["discovery"].pc = "idle" /\ tasks["discovery"].left = 1
        /\ \A t \in Tasks : tasks[t].pc = "idle"
    <3>1. tasks["reader"] = [pc |-> "idle", left |-> 0, id |-> 0]
          /\ tasks["discovery"] = [pc |-> "idle", left |-> 1, id |-> 0]
      BY <2>2, <2>3
    <3>2. \A t \in Tasks : t = "reader" \/ t = "discovery"
      BY DEF Tasks
    <3> QED BY <3>1, <3>2
  <2>8. \A t \in Tasks : ~(tasks[t].pc # "idle")
    BY <2>5
  <2>6. \A t \in Tasks : ~Flying(tasks[t])
    BY <2>5 DEF Flying
  <2>7. Owes(tasks["reader"]) = 0 /\ Owes(tasks["discovery"]) = 1
    BY <2>3, <2>5, <2>6 DEF Owes
  <2>9. asked = {} /\ pending = {} /\ event \in 0 .. MaxEvents
    BY Sizes DEF Init
  <2>10. TaskTypes
    BY <2>1, <2>4, <2>9 DEF TaskTypes
  <2>11. counter + Owes(tasks["reader"]) + Owes(tasks["discovery"]) <= PerEvent * event + 1
    BY <2>1, <2>7
  <2> QED BY <2>5, <2>6, <2>8, <2>10, <2>11 DEF TaskInv
<1>2. WireInv
  <2>1. wire \in Seq(Message) /\ Len(wire) = 0
    BY EmptySeq DEF Init
  <2>2. connector \in [pc : {"boot", "none", "sleeping", "trying"}, failed : 0 .. MaxAttempts]
        /\ connector.pc # "none"
    BY Sizes DEF Init
  <2>3. faults \in 0 .. MaxFaults /\ connected = FALSE /\ link = FALSE /\ listener = FALSE
    BY Sizes DEF Init
  <2>4. ConnectedIsHeard /\ NotForgotten
    BY <2>2, <2>3 DEF ConnectedIsHeard, NotForgotten
  <2>5. \A k \in 1 .. Len(wire) : wire[k].what \in Broken => faults > 0
    BY <2>1
  <2>6. link \in BOOLEAN /\ connected \in BOOLEAN /\ listener \in BOOLEAN
    BY <2>3
  <2> QED BY <2>1, <2>2, <2>3, <2>4, <2>5, <2>6 DEF WireInv
<1>3. FlowInv
  <2>1. <<>> \in Seq(States) /\ Len(<<>>) = 0
    BY EmptySeq
  <2>2. InOrder(<<>>, <<>>, <<>>, Bound)
    BY <2>1 DEF InOrder, Rising, Before, Under
  <2> QED BY <2>1, <2>2, Sizes DEF Init, FlowInv
<1> QED BY <1>1, <1>2, <1>3 DEF LinkInv, Init

-----------------------------------------------------------------------------
(***************************************************************************)
(* Steps that touch only a part.                                           *)
(***************************************************************************)
LEMMA SameWire ==
  ASSUME WireInv, UNCHANGED <<link, wire, faults, connected, listener, connector>>
  PROVE  WireInv'
BY DEF WireInv, ConnectedIsHeard, NotForgotten

LEMMA SameTasks ==
  ASSUME TaskInv, UNCHANGED <<counter, tasks, event>>,
         asked' \subseteq Ids, pending' \subseteq Ids
  PROVE  TaskInv'
BY DEF TaskInv, TaskTypes

LEMMA Places ==
  ASSUME TaskInv
  PROVE  /\ "reader" \in Tasks /\ "discovery" \in Tasks
         /\ counter \in Nat /\ event \in Nat /\ event <= MaxEvents /\ PerEvent * event \in Nat
         /\ \A t \in Tasks : /\ tasks[t] \in Task /\ tasks[t].left \in Nat
                             /\ tasks[t].left <= PerEvent /\ tasks[t].id \in Ids
                             /\ Owes(tasks[t]) \in Nat
         /\ \A t \in Tasks : t = "reader" \/ t = "discovery"
<1>1. "reader" \in Tasks /\ "discovery" \in Tasks /\ \A t \in Tasks : t = "reader" \/ t = "discovery"
  BY DEF Tasks
<1>2. counter \in Nat /\ event \in Nat /\ event <= MaxEvents /\ PerEvent * event \in Nat
  BY Numbers, Sizes DEF TaskInv, TaskTypes
<1>3. ASSUME NEW t \in Tasks
      PROVE  tasks[t] \in Task /\ tasks[t].left \in Nat /\ tasks[t].left <= PerEvent
             /\ tasks[t].id \in Ids /\ Owes(tasks[t]) \in Nat
  <2>1. tasks[t] \in Task
    BY DEF TaskInv, TaskTypes
  <2>2. tasks[t].left \in Nat /\ tasks[t].left <= PerEvent /\ tasks[t].id \in Ids
    BY <2>1, Sizes DEF Task
  <2>3. Flying(tasks[t]) => tasks[t].left >= 1
    BY DEF TaskInv, Flying
  <2> QED BY <2>1, <2>2, <2>3 DEF Owes
<1> QED BY <1>1, <1>2, <1>3

\* An id still to be given is one of Ids.
LEMMA IdsSuffice ==
  ASSUME TaskInv
  PROVE  /\ counter <= PerEvent * MaxEvents + 1
         /\ \A t \in Tasks : Owes(tasks[t]) >= 1 => counter \in Ids
<1>1. PerEvent * event <= PerEvent * MaxEvents /\ PerEvent * MaxEvents \in Nat
  BY Numbers, Places, Sizes
<1>2. counter + Owes(tasks["reader"]) + Owes(tasks["discovery"]) <= PerEvent * event + 1
  BY DEF TaskInv
<1> QED BY <1>1, <1>2, Places DEF Ids

\* A step of one task.
LEMMA OneTask ==
  ASSUME TaskInv, NEW t \in Tasks, NEW k \in Task, tasks' = [tasks EXCEPT ![t] = k],
         event' = event, asked' \subseteq Ids, pending' \subseteq Ids,
         counter' \in Nat, counter <= counter',
         counter' + Owes(k) <= counter + Owes(tasks[t]),
         k.pc # "idle" => k.left >= 1,
         t = "reader" /\ k.pc = "idle" => k.left = 0,
         t = "reader" /\ k.pc # "idle" => event >= 1,
         Flying(k) => /\ k.id < counter'
                      /\ k.id = counter \/ (Flying(tasks[t]) /\ k.id = tasks[t].id)
  PROVE  TaskInv'
<1>1. \A u \in Tasks : tasks'[u] = IF u = t THEN k ELSE tasks[u]
  BY DEF TaskInv, TaskTypes
<1>2. TaskTypes'
  BY DEF TaskInv, TaskTypes
<1>3. \A u \in Tasks : /\ tasks'[u].pc # "idle" => tasks'[u].left >= 1
                       /\ Flying(tasks'[u]) => tasks'[u].id < counter'
  <2>1. TAKE u \in Tasks
  <2>2. CASE u = t
    BY <1>1, <2>2
  <2>3. CASE u # t
    <3>1. tasks'[u] = tasks[u] /\ tasks[u].id \in Int
      BY <1>1, <2>3, Places, Sizes DEF Ids
    <3>2. /\ tasks[u].pc # "idle" => tasks[u].left >= 1
          /\ Flying(tasks[u]) => tasks[u].id < counter
      BY DEF TaskInv
    <3> QED BY <3>1, <3>2, Places
  <2> QED BY <2>2, <2>3
<1>4. /\ tasks'["reader"].pc = "idle" => tasks'["reader"].left = 0
      /\ tasks'["reader"].pc # "idle" => event >= 1
  BY <1>1, Places DEF TaskInv
<1>5. \A u, v \in Tasks :
        Flying(tasks'[u]) /\ Flying(tasks'[v]) /\ tasks'[u].id = tasks'[v].id => u = v
  <2>1. \A u \in Tasks : Flying(tasks[u]) => tasks[u].id # counter
    BY Places DEF TaskInv
  <2>2. \A u, v \in Tasks :
           Flying(tasks[u]) /\ Flying(tasks[v]) /\ tasks[u].id = tasks[v].id => u = v
    BY DEF TaskInv
  <2> QED BY <1>1, <2>1, <2>2
<1>6. counter' + Owes(tasks'["reader"]) + Owes(tasks'["discovery"]) <= PerEvent * event + 1
  <2>1. counter + Owes(tasks["reader"]) + Owes(tasks["discovery"]) <= PerEvent * event + 1
    BY DEF TaskInv
  <2>2. Owes(k) \in Int
    BY Sizes DEF Owes, Task
  <2> QED BY <1>1, <2>1, <2>2, Places
<1> QED BY <1>2, <1>3, <1>4, <1>5, <1>6 DEF TaskInv

\* What a task is when its registration has ended.
LEMMA Ended ==
  ASSUME TaskInv, NEW t \in Tasks, tasks[t].pc # "idle"
  PROVE  /\ NextOne(tasks[t]) \in Task
         /\ NextOne(tasks[t]).pc \in {"idle", "registering"}
         /\ NextOne(tasks[t]).pc # "idle" => NextOne(tasks[t]).left >= 1
         /\ NextOne(tasks[t]).pc = "idle" => NextOne(tasks[t]).left = 0
         /\ ~Flying(NextOne(tasks[t]))
         /\ Owes(NextOne(tasks[t])) = tasks[t].left - 1
<1> DEFINE k == tasks[t]
<1>1. k \in Task /\ k.left \in Nat /\ k.left >= 1 /\ k.left <= PerEvent /\ k.id \in Ids
  BY Places DEF TaskInv
<1>2. NextOne(k) = IF k.left > 1 THEN [k EXCEPT !.pc = "registering", !.left = k.left - 1]
                   ELSE [k EXCEPT !.pc = "idle", !.left = 0]
  BY DEF NextOne
<1> DEFINE m == NextOne(k)
<1>3. CASE k.left > 1
  <2>1. m = [k EXCEPT !.pc = "registering", !.left = k.left - 1]
    BY <1>2, <1>3
  <2>2. k.left - 1 \in 0 .. PerEvent
    BY <1>1, <1>3, Sizes
  <2>3. m \in Task /\ m.pc = "registering" /\ m.left = k.left - 1
    BY <1>1, <2>1, <2>2 DEF Task
  <2> HIDE DEF k, m
  <2>4. m.left >= 1 /\ ~Flying(m) /\ Owes(m) = k.left - 1
    BY <1>1, <1>3, <2>3 DEF Flying, Owes
  <2> QED BY <2>3, <2>4 DEF k, m
<1>4. CASE ~(k.left > 1)
  <2>1. m = [k EXCEPT !.pc = "idle", !.left = 0] /\ k.left = 1
    BY <1>1, <1>2, <1>4
  <2>2. 0 \in 0 .. PerEvent
    BY Sizes
  <2>3. m \in Task /\ m.pc = "idle" /\ m.left = 0
    BY <1>1, <2>1, <2>2 DEF Task
  <2> HIDE DEF k, m
  <2>4. ~Flying(m) /\ Owes(m) = k.left - 1
    BY <1>1, <2>1, <2>3 DEF Flying, Owes
  <2> QED BY <2>3, <2>4 DEF k, m
<1> QED BY <1>3, <1>4

\* The registration of one task ends.
LEMMA OneEnds ==
  ASSUME TaskInv, NEW t \in Tasks, tasks[t].pc # "idle", Done(t), event' = event,
         asked' \subseteq Ids, pending' \subseteq Ids,
         counter' = counter \/ (counter' = counter + 1 /\ ~Flying(tasks[t]))
  PROVE  TaskInv'
<1> DEFINE k == NextOne(tasks[t])
<1>1. /\ k \in Task /\ k.pc \in {"idle", "registering"} /\ ~Flying(k)
      /\ k.pc # "idle" => k.left >= 1
      /\ k.pc = "idle" => k.left = 0
      /\ Owes(k) = tasks[t].left - 1
  BY Ended
<1>2. tasks' = [tasks EXCEPT ![t] = k]
  BY DEF Done
<1>3. Owes(tasks[t]) = IF Flying(tasks[t]) THEN tasks[t].left - 1 ELSE tasks[t].left
  BY DEF Owes
<1>4. counter' \in Nat /\ counter <= counter' /\ counter' + Owes(k) <= counter + Owes(tasks[t])
  BY <1>1, <1>3, Places
<1>5. t = "reader" => event >= 1
  BY DEF TaskInv
<1> HIDE DEF k
<1> QED BY <1>1, <1>2, <1>4, <1>5, OneTask

\* What changes neither the states on their way nor makes the reader put one.
LEMMA SameFlow ==
  ASSUME FlowInv, TaskInv, UNCHANGED <<queue, sent, event>>,
         consumer' \in [pc : {"new", "waiting", "sending", "ended"}, batch : Seq(States)],
         consumer'.batch = consumer.batch,
         tasks'["reader"].pc = "putting" => tasks["reader"].pc = "putting"
  PROVE  FlowInv'
<1>1. Bound \in Nat /\ Bound' \in Nat /\ Bound <= Bound'
  BY Places DEF Bound
<1>2. States \in SUBSET Nat /\ consumer.batch \in Seq(States)
  BY DEF FlowInv, States
<1>3. InOrder(sent, consumer.batch, queue, Bound')
  BY <1>1, <1>2, HigherBound DEF FlowInv
<1>4. InOrder(sent', consumer'.batch, queue', Bound')
  BY <1>3
<1> QED BY <1>4 DEF FlowInv

LEMMA StillFlow ==
  ASSUME FlowInv, TaskInv, UNCHANGED <<queue, sent, event, consumer>>,
         tasks'["reader"].pc = "putting" => tasks["reader"].pc = "putting"
  PROVE  FlowInv'
<1>1. consumer' \in [pc : {"new", "waiting", "sending", "ended"}, batch : Seq(States)]
      /\ consumer'.batch = consumer.batch
  BY DEF FlowInv
<1> QED BY <1>1, SameFlow

\* Only after a fault is there anything on the wire that ends the listener.
Explained(w, f) ==
    w \in Seq(Message) /\ \A k \in 1 .. Len(w) : w[k].what \in Broken => f > 0

LEMMA ExplainedParts ==
  ASSUME NEW w, NEW f \in Nat, Explained(w, f)
  PROVE  /\ \A n \in 0 .. Len(w) : Explained(SubSeq(w, 1, n), f)
         /\ w # <<>> => Explained(Tail(w), f) /\ Head(w) \in Message
                        /\ (Head(w).what \in Broken => f > 0)
<1>1. w \in Seq(Message) /\ Len(w) \in Nat /\ \A k \in 1 .. Len(w) : w[k] \in Message
  BY LenProperties, ElementOfSeq DEF Explained
<1>2. ASSUME NEW n \in 0 .. Len(w)
      PROVE  Explained(SubSeq(w, 1, n), f)
  <2>1. \A i \in 1 .. n : w[i] \in Message /\ i \in 1 .. Len(w)
    BY <1>1
  <2>2. SubSeq(w, 1, n) \in Seq(Message)
    BY <1>1, <2>1, SubSeqProperties
  <2>3. Len(SubSeq(w, 1, n)) = IF 1 <= n THEN n - 1 + 1 ELSE 0
    BY <1>1, <2>1, SubSeqProperties
  <2>4. \A i \in 1 .. n - 1 + 1 : SubSeq(w, 1, n)[i] = w[1 + i - 1]
    BY <1>1, <2>1, SubSeqProperties
  <2>5. \A i \in 1 .. Len(SubSeq(w, 1, n)) : SubSeq(w, 1, n)[i] = w[i] /\ i \in 1 .. n
    BY <1>1, <2>3, <2>4
  <2> QED BY <2>1, <2>2, <2>5 DEF Explained
<1>3. ASSUME w # <<>>
      PROVE  Explained(Tail(w), f) /\ Head(w) \in Message /\ (Head(w).what \in Broken => f > 0)
  <2>1. Tail(w) \in Seq(Message) /\ Head(w) \in Message /\ Len(Tail(w)) = Len(w) - 1
        /\ \A i \in 1 .. Len(Tail(w)) : Tail(w)[i] = w[i + 1]
    BY <1>1, <1>3, HeadTailProperties
  <2>2. Len(w) >= 1 /\ Head(w) = w[1]
    BY <1>1, <1>3, EmptySeq
  <2>3. \A i \in 1 .. Len(Tail(w)) : i + 1 \in 1 .. Len(w)
    BY <1>1, <2>1
  <2>4. 1 \in 1 .. Len(w)
    BY <1>1, <2>2
  <2> QED BY <2>1, <2>2, <2>3, <2>4 DEF Explained
<1> QED BY <1>2, <1>3

LEMMA ExplainedAppend ==
  ASSUME NEW w, NEW f \in Nat, NEW g \in Nat, Explained(w, f), f <= g,
         NEW m \in Message, m.what \in Broken => g > 0
  PROVE  Explained(Append(w, m), g)
<1>1. w \in Seq(Message) /\ Len(w) \in Nat
  BY LenProperties DEF Explained
<1> DEFINE v == Append(w, m)
<1>2. v \in Seq(Message) /\ Len(v) = Len(w) + 1
      /\ (\A i \in 1 .. Len(w) : v[i] = w[i]) /\ v[Len(w) + 1] = m
  BY <1>1, AppendProperties
<1>3. \A i \in 1 .. Len(v) : i \in 1 .. Len(w) \/ i = Len(w) + 1
  BY <1>1, <1>2
<1> HIDE DEF v
<1>4. Explained(v, g)
  BY <1>2, <1>3 DEF Explained
<1> QED BY <1>4 DEF v

\* WireInv, read the other way.
LEMMA WireParts ==
  WireInv <=> /\ link \in BOOLEAN /\ connected \in BOOLEAN /\ listener \in BOOLEAN
              /\ Explained(wire, faults)
              /\ faults \in 0 .. MaxFaults
              /\ connector \in [pc : {"boot", "none", "sleeping", "trying"},
                                failed : 0 .. MaxAttempts]
              /\ ConnectedIsHeard /\ NotForgotten
BY DEF WireInv, Explained

-----------------------------------------------------------------------------
(***************************************************************************)
(* The KNX gateway, the network, and connecting                            *)
(***************************************************************************)
LEMMA KeepReply ==
  ASSUME LinkInv, NEW id \in Ids, Reply(id)
  PROVE  LinkInv'
<1>1. TaskInv'
  <2>1. asked' \subseteq Ids /\ pending' \subseteq Ids
    BY DEF LinkInv, TaskInv, TaskTypes, Reply
  <2> QED BY <2>1, SameTasks DEF LinkInv, Reply
<1>2. PICK what \in {"assigned", "error"} : wire' = Append(wire, [what |-> what, id |-> id])
  BY DEF Reply
<1>3. [what |-> what, id |-> id] \in Message /\ what \notin Broken
  BY DEF Message, Broken
<1>4. faults \in Nat /\ Explained(wire, faults)
  BY WireParts DEF LinkInv
<1>5. Explained(wire', faults)
  BY <1>2, <1>3, <1>4, ExplainedAppend
<1>6. WireInv'
  BY <1>5, WireParts DEF LinkInv, Reply, connection, Explained, WireInv, ConnectedIsHeard,
                         NotForgotten
<1>7. FlowInv'
  BY StillFlow DEF LinkInv, Reply
<1> QED BY <1>1, <1>6, <1>7 DEF LinkInv, Reply

LEMMA KeepGarble ==
  ASSUME LinkInv, Garble
  PROVE  LinkInv'
<1> DEFINE m == [what |-> "garbage", id |-> 0]
<1>1. TaskInv'
  BY SameTasks DEF LinkInv, TaskInv, TaskTypes, Garble
<1>2. m \in Message
  BY Sizes, Numbers DEF Message, Ids
<1>3. faults \in Nat /\ Explained(wire, faults) /\ faults' = faults + 1 /\ wire' = Append(wire, m)
      /\ faults < MaxFaults
  BY WireParts DEF LinkInv, Garble
<1> HIDE DEF m
<1>4. Explained(wire', faults')
  BY <1>2, <1>3, ExplainedAppend
<1>5. WireInv'
  BY <1>3, <1>4, WireParts, Sizes DEF LinkInv, Garble, connection, Explained, WireInv,
                                      ConnectedIsHeard, NotForgotten
<1>6. FlowInv'
  BY StillFlow DEF LinkInv, Garble
<1> QED BY <1>1, <1>5, <1>6 DEF LinkInv, Garble

LEMMA KeepLose ==
  ASSUME LinkInv, Lose
  PROVE  LinkInv'
<1>1. TaskInv'
  <2>1. asked' \subseteq Ids /\ pending' \subseteq Ids
    BY DEF LinkInv, TaskInv, TaskTypes, Lose
  <2> QED BY <2>1, SameTasks DEF LinkInv, Lose
<1>2. PICK n \in 0 .. Len(wire), how \in {"orderly", "broken"} :
        wire' = Append(SubSeq(wire, 1, n), [what |-> how, id |-> 0])
  BY DEF Lose
<1> DEFINE m == [what |-> how, id |-> 0]
<1>3. m \in Message
  BY Sizes, Numbers DEF Message, Ids
<1>4. faults \in Nat /\ Explained(wire, faults) /\ faults' = faults + 1 /\ faults < MaxFaults
      /\ link' = FALSE
  BY WireParts DEF LinkInv, Lose
<1>5. Explained(SubSeq(wire, 1, n), faults)
  BY <1>4, ExplainedParts
<1>6. Explained(wire', faults')
  <2>1. wire' = Append(SubSeq(wire, 1, n), m)
    BY <1>2
  <2> HIDE DEF m
  <2> QED BY <1>3, <1>4, <1>5, <2>1, ExplainedAppend
<1>7. WireInv'
  <2>1. UNCHANGED <<connected, listener, connector>>
    BY DEF Lose, connection
  <2>2. ConnectedIsHeard'
    BY <1>4, <2>1 DEF ConnectedIsHeard
  <2>3. NotForgotten'
    BY <2>1 DEF LinkInv, WireInv, NotForgotten
  <2>4. faults' \in 0 .. MaxFaults
    BY <1>4, Sizes
  <2> QED BY <1>4, <1>6, <2>1, <2>2, <2>3, <2>4 DEF LinkInv, WireInv, Explained
<1>8. FlowInv'
  BY StillFlow DEF LinkInv, Lose
<1> QED BY <1>1, <1>7, <1>8 DEF LinkInv, Lose

\* initialize() goes on: the batch stays as it is.
LEMMA Booted ==
  ASSUME FlowInv, NEW up, AfterBoot(up)
  PROVE  /\ consumer' \in [pc : {"new", "waiting", "sending", "ended"}, batch : Seq(States)]
         /\ consumer'.batch = consumer.batch
BY DEF FlowInv, AfterBoot

LEMMA KeepConnect ==
  ASSUME LinkInv, Connect
  PROVE  LinkInv'
<1>1. TaskInv'
  BY SameTasks DEF LinkInv, TaskInv, TaskTypes, Connect
<1>2. wire' \in Seq(Message) /\ Len(wire') = 0
  BY EmptySeq DEF Connect
<1>3. connector' \in [pc : {"boot", "none", "sleeping", "trying"}, failed : 0 .. MaxAttempts]
  <2>1. connector \in [pc : {"boot", "none", "sleeping", "trying"}, failed : 0 .. MaxAttempts]
    BY DEF LinkInv, WireInv
  <2>2. connector' = [connector EXCEPT !.pc = "none"]
    BY DEF Connect
  <2> QED BY <2>1, <2>2
<1>4. WireInv'
  <2>1. \A k \in 1 .. Len(wire') : wire'[k].what \in Broken => faults' > 0
    BY <1>2
  <2> QED BY <1>2, <1>3, <2>1 DEF LinkInv, WireInv, Connect, ConnectedIsHeard, NotForgotten
<1>5. FlowInv'
  <2>1. /\ consumer' \in [pc : {"new", "waiting", "sending", "ended"}, batch : Seq(States)]
        /\ consumer'.batch = consumer.batch
    BY Booted DEF LinkInv, Connect
  <2> QED BY <2>1, SameFlow DEF LinkInv, Connect
<1> QED BY <1>1, <1>4, <1>5 DEF LinkInv, Connect

LEMMA KeepFailToConnect ==
  ASSUME LinkInv, FailToConnect
  PROVE  LinkInv'
<1>1. TaskInv'
  BY SameTasks DEF LinkInv, TaskInv, TaskTypes, FailToConnect, gateway
<1>2. connector' \in [pc : {"boot", "none", "sleeping", "trying"}, failed : 0 .. MaxAttempts]
      /\ (connector'.pc # "none" \/ connector'.failed = MaxAttempts)
  <2>1. connector \in [pc : {"boot", "none", "sleeping", "trying"}, failed : 0 .. MaxAttempts]
        /\ connector.pc \in {"boot", "trying"}
    BY DEF LinkInv, WireInv, FailToConnect
  <2>2. CASE connector.failed + 1 < MaxAttempts
    <3>1. connector' = [connector EXCEPT !.failed = connector.failed + 1]
      BY <2>2 DEF FailToConnect
    <3>2. connector.failed + 1 \in 0 .. MaxAttempts
      BY <2>1, <2>2, Sizes
    <3> QED BY <2>1, <3>1, <3>2
  <2>3. CASE ~(connector.failed + 1 < MaxAttempts)
    <3>1. connector' = [pc |-> "none", failed |-> MaxAttempts]
      BY <2>3 DEF FailToConnect
    <3> QED BY <3>1, Sizes
  <2> QED BY <2>2, <2>3
<1>3. WireInv'
  BY <1>2 DEF LinkInv, WireInv, FailToConnect, gateway, ConnectedIsHeard, NotForgotten
<1>4. consumer' \in [pc : {"new", "waiting", "sending", "ended"}, batch : Seq(States)]
      /\ consumer'.batch = consumer.batch
  BY Booted DEF LinkInv, FlowInv, FailToConnect
<1>5. FlowInv'
  BY <1>4, SameFlow DEF LinkInv, FailToConnect
<1> QED BY <1>1, <1>3, <1>5 DEF LinkInv, FailToConnect

LEMMA KeepTryAgain ==
  ASSUME LinkInv, TryAgain
  PROVE  LinkInv'
<1>1. TaskInv'
  BY SameTasks DEF LinkInv, TaskInv, TaskTypes, TryAgain, gateway
<1>2. connector' \in [pc : {"boot", "none", "sleeping", "trying"}, failed : 0 .. MaxAttempts]
      /\ connector'.pc # "none"
  BY Sizes DEF TryAgain
<1>3. WireInv'
  BY <1>2 DEF LinkInv, WireInv, TryAgain, gateway, ConnectedIsHeard, NotForgotten
<1>4. FlowInv'
  BY StillFlow DEF LinkInv, TryAgain
<1> QED BY <1>1, <1>3, <1>4 DEF LinkInv, TryAgain

-----------------------------------------------------------------------------
(***************************************************************************)
(* The listener                                                            *)
(***************************************************************************)
\* Tasks whose registration ends, any number of them at once.
LEMMA SomeEnd ==
  ASSUME TaskInv, NEW S \in SUBSET Tasks, \A t \in S : Flying(tasks[t]),
         tasks' = [t \in Tasks |-> IF t \in S THEN NextOne(tasks[t]) ELSE tasks[t]],
         UNCHANGED <<counter, event>>, asked' \subseteq Ids, pending' \subseteq Ids
  PROVE  TaskInv'
<1>1. \A t \in Tasks : tasks'[t] = IF t \in S THEN NextOne(tasks[t]) ELSE tasks[t]
  OBVIOUS
<1>2. ASSUME NEW t \in S
      PROVE  /\ NextOne(tasks[t]) \in Task
             /\ NextOne(tasks[t]).pc # "idle" => NextOne(tasks[t]).left >= 1
             /\ NextOne(tasks[t]).pc = "idle" => NextOne(tasks[t]).left = 0
             /\ ~Flying(NextOne(tasks[t]))
             /\ Owes(NextOne(tasks[t])) = Owes(tasks[t])
             /\ tasks[t].pc # "idle"
  <2>1. t \in Tasks /\ Flying(tasks[t]) /\ tasks[t].pc # "idle"
    BY DEF Flying
  <2> QED BY <2>1, Ended DEF Owes
<1>3. TaskTypes'
  BY <1>1, <1>2 DEF TaskInv, TaskTypes
<1>4. \A t \in Tasks : /\ tasks'[t].pc # "idle" => tasks'[t].left >= 1
                       /\ Flying(tasks'[t]) => Flying(tasks[t]) /\ tasks'[t] = tasks[t]
                                               /\ tasks'[t].id < counter
                       /\ Owes(tasks'[t]) = Owes(tasks[t])
  BY <1>1, <1>2 DEF TaskInv
<1>5. /\ tasks'["reader"].pc = "idle" => tasks'["reader"].left = 0
      /\ tasks'["reader"].pc # "idle" => event >= 1
  BY <1>1, <1>2, Places DEF TaskInv
<1>6. \A u, v \in Tasks :
        Flying(tasks'[u]) /\ Flying(tasks'[v]) /\ tasks'[u].id = tasks'[v].id => u = v
  BY <1>4 DEF TaskInv
<1>7. counter' + Owes(tasks'["reader"]) + Owes(tasks'["discovery"]) <= PerEvent * event' + 1
  BY <1>4, Places DEF TaskInv
<1> QED BY <1>3, <1>4, <1>5, <1>6, <1>7 DEF TaskInv

LEMMA KeepListen ==
  ASSUME LinkInv, Listen
  PROVE  LinkInv'
<1> DEFINE id == Head(wire).id
           S == {t \in Tasks : id \in pending /\ Waiter(t, id)}
<1>1. TaskInv'
  <2>1. \A t \in S : Flying(tasks[t])
    BY DEF Waiter, Flying
  <2>2. tasks' = [t \in Tasks |-> IF t \in S THEN NextOne(tasks[t]) ELSE tasks[t]]
    BY DEF Listen, Resolve
  <2>3. asked' \subseteq Ids /\ pending' \subseteq Ids /\ UNCHANGED <<counter, event>>
    BY DEF LinkInv, TaskInv, TaskTypes, Listen, Resolve
  <2>4. S \in SUBSET Tasks
    OBVIOUS
  <2> HIDE DEF S
  <2> QED BY <2>1, <2>2, <2>3, <2>4, SomeEnd DEF LinkInv
<1>2. faults \in Nat /\ Explained(wire, faults) /\ wire # <<>> /\ wire' = Tail(wire)
  BY WireParts DEF LinkInv, Listen
<1>3. Explained(wire', faults)
  BY <1>2, ExplainedParts
<1>4. WireInv'
  BY <1>3, WireParts DEF LinkInv, Listen, connection, Explained, WireInv, ConnectedIsHeard,
                         NotForgotten
<1>5. tasks'["reader"].pc = "putting" => tasks["reader"].pc = "putting"
  <2>1. "reader" \in S => tasks["reader"].pc # "idle"
    BY DEF Waiter
  <2>2. tasks'["reader"] = IF "reader" \in S THEN NextOne(tasks["reader"]) ELSE tasks["reader"]
    BY Places DEF LinkInv, Listen, Resolve
  <2>3. "reader" \in S => NextOne(tasks["reader"]).pc \in {"idle", "registering"}
    BY <2>1, Ended, Places DEF LinkInv
  <2> HIDE DEF S
  <2> QED BY <2>2, <2>3
<1>6. FlowInv'
  BY <1>5, StillFlow DEF LinkInv, Listen
<1>7. mapped' \in BOOLEAN
  BY DEF LinkInv, Listen
<1> QED BY <1>1, <1>4, <1>6, <1>7 DEF LinkInv

LEMMA KeepStopListening ==
  ASSUME LinkInv, StopListening
  PROVE  LinkInv'
<1>1. TaskInv'
  BY SameTasks DEF LinkInv, TaskInv, TaskTypes, StopListening
<1>2. faults \in Nat /\ Explained(wire, faults) /\ wire # <<>> /\ wire' = Tail(wire)
      /\ Head(wire).what \in Broken
  BY WireParts DEF LinkInv, StopListening, Broken
<1>3. Explained(wire', faults) /\ faults > 0
  BY <1>2, ExplainedParts
<1>4. connector' \in [pc : {"boot", "none", "sleeping", "trying"}, failed : 0 .. MaxAttempts]
      /\ connected' \in BOOLEAN
      /\ (~connected' => connector'.pc # "none" \/ connector'.failed = MaxAttempts)
  <2>1. CASE Head(wire).what = "broken"
    <3>1. connector' = [pc |-> "sleeping", failed |-> 0] /\ connected' = FALSE
      BY <2>1 DEF StopListening, Reconnecting
    <3>2. connector' \in [pc : {"boot", "none", "sleeping", "trying"}, failed : 0 .. MaxAttempts]
          /\ connector'.pc # "none"
      BY <3>1, Sizes
    <3>3. connected' \in BOOLEAN
      BY <3>1
    <3> QED BY <3>2, <3>3
  <2>2. CASE Head(wire).what # "broken"
    <3>1. UNCHANGED <<connected, connector>>
      BY <2>2 DEF StopListening
    <3> QED BY <3>1 DEF LinkInv, WireInv, NotForgotten
  <2> QED BY <2>1, <2>2
<1>5. WireInv'
  <2>1. ConnectedIsHeard'
    BY <1>3 DEF StopListening, ConnectedIsHeard
  <2>2. NotForgotten'
    BY <1>4 DEF NotForgotten
  <2>3. UNCHANGED <<link, faults>> /\ listener' = FALSE
    BY DEF StopListening
  <2> QED BY <1>3, <1>4, <2>1, <2>2, <2>3 DEF LinkInv, WireInv, Explained
<1>6. FlowInv'
  BY StillFlow DEF LinkInv, StopListening
<1> QED BY <1>1, <1>5, <1>6 DEF LinkInv, StopListening

-----------------------------------------------------------------------------
(***************************************************************************)
(* request_knx_address and its callers                                     *)
(***************************************************************************)
\* The reader, when one task has moved and does not put.
LEMMA NotPutting ==
  ASSUME TaskInv, NEW t \in Tasks, NEW k, tasks' = [tasks EXCEPT ![t] = k], k.pc # "putting"
  PROVE  tasks'["reader"].pc = "putting" => tasks["reader"].pc = "putting"
BY Places DEF TaskInv, TaskTypes

LEMMA KeepRegister ==
  ASSUME LinkInv, NEW t \in Tasks, Register(t)
  PROVE  LinkInv'
<1>1. tasks[t].pc = "registering" /\ tasks[t].pc # "idle" /\ ~Flying(tasks[t]) /\ event' = event
  BY DEF Register, Flying
<1>2. asked \subseteq Ids /\ pending \subseteq Ids /\ TaskInv /\ FlowInv /\ counter \in Nat
  BY DEF LinkInv, TaskInv, TaskTypes
<1>3. UNCHANGED <<link, wire, faults, connected, listener, connector, queue, consumer, mapped,
                  event, sent>>
  BY DEF Register, connection
<1>4. tasks[t].left >= 1 /\ Owes(tasks[t]) = tasks[t].left /\ Owes(tasks[t]) >= 1
  BY <1>1, <1>2 DEF TaskInv, Owes
<1>5. counter \in Ids
  BY <1>2, <1>4, IdsSuffice
<1>6. CASE Done(t) /\ UNCHANGED <<asked, pending>> /\ counter' \in {counter, counter + 1}
  <2>1. TaskInv'
    BY <1>1, <1>2, <1>6, OneEnds
  <2>2. NextOne(tasks[t]).pc # "putting"
    BY <1>1, <1>2, Ended
  <2>3. FlowInv'
    BY <1>2, <1>3, <1>6, <2>2, NotPutting, StillFlow DEF Done
  <2> QED BY <1>3, <2>1, <2>3, SameWire DEF LinkInv
<1>7. CASE /\ counter' = counter + 1 /\ asked' = asked \union {counter}
           /\ pending' \subseteq pending \union {counter}
           /\ \E pc \in {"waiting", "sending"} :
                 tasks' = [tasks EXCEPT ![t].pc = pc, ![t].id = counter]
  <2>1. PICK pc \in {"waiting", "sending"} :
           tasks' = [tasks EXCEPT ![t].pc = pc, ![t].id = counter]
    BY <1>7
  <2> DEFINE k == [tasks[t] EXCEPT !.pc = pc, !.id = counter]
  <2>2. tasks' = [tasks EXCEPT ![t] = k]
    BY <1>2, <2>1 DEF TaskInv, TaskTypes
  <2>3. k \in Task /\ k.pc = pc /\ k.id = counter /\ k.left = tasks[t].left
    BY <1>2, <1>5, Places DEF Task
  <2> HIDE DEF k
  <2>4. k.pc # "idle" /\ k.pc # "putting" /\ Flying(k) /\ Owes(k) = tasks[t].left - 1
    BY <2>3 DEF Flying, Owes
  <2>5. t = "reader" => event >= 1
    BY <1>1, <1>2 DEF TaskInv
  <2>6. asked' \subseteq Ids /\ pending' \subseteq Ids
    BY <1>2, <1>5, <1>7
  <2>7. counter' \in Nat /\ counter <= counter' /\ counter < counter'
        /\ counter' + Owes(k) <= counter + Owes(tasks[t])
    BY <1>2, <1>4, <1>7, <2>4, Places
  <2>8. TaskInv'
    BY <1>2, <1>3, <1>4, <2>2, <2>3, <2>4, <2>5, <2>6, <2>7, OneTask
  <2>9. FlowInv'
    BY <1>2, <1>3, <2>2, <2>4, NotPutting, StillFlow
  <2> QED BY <1>3, <2>8, <2>9, SameWire DEF LinkInv
<1>8. \/ Done(t) /\ UNCHANGED <<asked, pending>> /\ counter' \in {counter, counter + 1}
      \/ /\ counter' = counter + 1 /\ asked' = asked \union {counter}
         /\ pending' \subseteq pending \union {counter}
         /\ \E pc \in {"waiting", "sending"} :
               tasks' = [tasks EXCEPT ![t].pc = pc, ![t].id = counter]
  BY DEF Register, NextId
<1> QED BY <1>6, <1>7, <1>8

\* A step of one task that only changes where it is.
LEMMA Going ==
  ASSUME TaskInv, NEW t \in Tasks, NEW pc \in {"registering", "waiting"}, Goes(t, pc),
         tasks[t].left >= 1, t = "reader" => event >= 1, pc = "waiting" <=> Flying(tasks[t]),
         UNCHANGED <<counter, event>>, asked' \subseteq Ids, pending' \subseteq Ids
  PROVE  /\ TaskInv'
         /\ tasks'["reader"].pc = "putting" => tasks["reader"].pc = "putting"
<1> DEFINE k == [tasks[t] EXCEPT !.pc = pc]
<1>1. tasks' = [tasks EXCEPT ![t] = k]
  BY DEF Goes
<1>2. k \in Task /\ k.pc = pc /\ k.id = tasks[t].id /\ k.left = tasks[t].left
  BY Places DEF Task
<1> HIDE DEF k
<1>3. k.pc # "idle" /\ k.pc # "putting" /\ k.left >= 1 /\ (Flying(k) <=> pc = "waiting")
      /\ (Flying(k) => Owes(k) = k.left - 1) /\ (~Flying(k) => Owes(k) = k.left)
  BY <1>2 DEF Flying, Owes
<1>4. Flying(tasks[t]) => tasks[t].id < counter
  BY DEF TaskInv
<1>5. Owes(k) = Owes(tasks[t])
  BY <1>2, <1>3 DEF Owes
<1>6. counter' \in Nat /\ counter <= counter' /\ counter' + Owes(k) <= counter + Owes(tasks[t])
  BY <1>5, Places
<1>7. TaskInv'
  BY <1>1, <1>2, <1>3, <1>4, <1>6, OneTask
<1> QED BY <1>1, <1>3, <1>7, NotPutting

LEMMA KeepSending ==
  ASSUME LinkInv, NEW t \in Tasks, Sending(t)
  PROVE  LinkInv'
<1>1. tasks[t].pc = "sending" /\ tasks[t].pc # "idle" /\ Flying(tasks[t])
  BY DEF Sending, Flying
<1>2. asked \subseteq Ids /\ pending \subseteq Ids /\ TaskInv /\ FlowInv
      /\ tasks[t].left >= 1 /\ tasks[t].id \in Ids /\ (t = "reader" => event >= 1)
  BY <1>1, Places DEF LinkInv, TaskInv, TaskTypes
<1>3. UNCHANGED <<link, asked, wire, faults, connected, listener, connector, queue, consumer,
                  counter, mapped, event, sent>>
  BY DEF Sending, gateway, connection
<1>4. CASE Goes(t, "waiting") /\ pending' = pending \union {tasks[t].id}
  <2>1. pending' \subseteq Ids /\ asked' \subseteq Ids
    BY <1>2, <1>3, <1>4
  <2>2. TaskInv' /\ (tasks'["reader"].pc = "putting" => tasks["reader"].pc = "putting")
    BY <1>1, <1>2, <1>3, <1>4, <2>1, Going
  <2>3. FlowInv'
    BY <1>2, <1>3, <2>2, StillFlow
  <2> QED BY <1>3, <2>2, <2>3, SameWire DEF LinkInv
<1>5. CASE Done(t) /\ UNCHANGED pending
  <2>1. TaskInv'
    BY <1>1, <1>2, <1>3, <1>5, OneEnds
  <2>2. NextOne(tasks[t]).pc # "putting"
    BY <1>1, <1>2, Ended
  <2>3. FlowInv'
    BY <1>2, <1>3, <1>5, <2>2, NotPutting, StillFlow DEF Done
  <2> QED BY <1>3, <2>1, <2>3, SameWire DEF LinkInv
<1> QED BY <1>4, <1>5 DEF Sending

LEMMA KeepGiveUp ==
  ASSUME LinkInv, NEW t \in Tasks, GiveUp(t)
  PROVE  LinkInv'
<1>1. tasks[t].pc # "idle" /\ Done(t) /\ pending' \subseteq pending
  BY DEF GiveUp
<1>2. asked \subseteq Ids /\ pending \subseteq Ids /\ TaskInv /\ FlowInv
  BY DEF LinkInv, TaskInv, TaskTypes
<1>3. UNCHANGED <<link, asked, wire, faults, connected, listener, connector, queue, consumer,
                  counter, mapped, event, sent>>
  BY DEF GiveUp, gateway, connection
<1>4. asked' \subseteq Ids /\ pending' \subseteq Ids
  BY <1>1, <1>2, <1>3
<1>5. TaskInv'
  BY <1>1, <1>2, <1>3, <1>4, OneEnds
<1>6. NextOne(tasks[t]).pc # "putting"
  BY <1>1, <1>2, Ended
<1>7. FlowInv'
  BY <1>1, <1>2, <1>3, <1>6, NotPutting, StillFlow DEF Done
<1> QED BY <1>3, <1>5, <1>7, SameWire DEF LinkInv

LEMMA KeepDiscover ==
  ASSUME LinkInv, Discover
  PROVE  LinkInv'
<1>1. tasks["discovery"].pc = "idle" /\ tasks["discovery"].left = 1
      /\ ~Flying(tasks["discovery"])
  BY DEF Discover, Flying
<1>2. asked \subseteq Ids /\ pending \subseteq Ids /\ TaskInv /\ FlowInv
  BY DEF LinkInv, TaskInv, TaskTypes
<1>3. UNCHANGED <<link, asked, pending, wire, faults, connected, listener, connector, queue,
                  consumer, counter, mapped, event, sent>>
  BY DEF Discover, gateway, connection
<1>4. TaskInv' /\ (tasks'["reader"].pc = "putting" => tasks["reader"].pc = "putting")
  <2>1. Goes("discovery", "registering") /\ "discovery" \in Tasks
    BY <1>2, Places DEF Discover
  <2> QED BY <1>1, <1>2, <1>3, <2>1, Going
<1>5. FlowInv'
  BY <1>2, <1>3, <1>4, StillFlow
<1> QED BY <1>3, <1>4, <1>5, SameWire DEF LinkInv

\* The new event pays for the registrations it asks for.
LEMMA KeepReadEvent ==
  ASSUME LinkInv, ReadEvent
  PROVE  LinkInv'
<1>1. tasks["reader"].pc = "idle" /\ event < MaxEvents /\ event' = event + 1
      /\ UNCHANGED <<link, asked, pending, wire, faults, connected, listener, connector, queue,
                     consumer, counter, mapped, sent>>
  BY DEF ReadEvent, gateway, connection
<1>2. TaskInv /\ FlowInv /\ tasks["reader"].left = 0 /\ event \in Nat /\ event' \in 1 .. MaxEvents
  BY <1>1, Places, Sizes DEF LinkInv, TaskInv
<1>3. PICK pc \in {"putting", "registering"} :
        tasks' = [tasks EXCEPT !["reader"].left = PerEvent, !["reader"].pc = pc]
  BY DEF ReadEvent
<1> DEFINE k == [tasks["reader"] EXCEPT !.left = PerEvent, !.pc = pc]
<1>4. tasks' = [tasks EXCEPT !["reader"] = k]
  BY <1>2, <1>3 DEF TaskInv, TaskTypes
<1>5. k \in Task /\ k.pc = pc /\ k.left = PerEvent
  <2>1. PerEvent \in 0 .. PerEvent /\ tasks["reader"] \in Task
    BY <1>2, Places, Sizes
  <2> QED BY <2>1 DEF Task
<1> HIDE DEF k
<1>6. ~Flying(k) /\ Owes(k) = PerEvent /\ k.pc # "idle" /\ ~Flying(tasks["reader"])
      /\ Owes(tasks["reader"]) = 0
  BY <1>1, <1>2, <1>5 DEF Flying, Owes
<1>7. \A t \in Tasks : tasks'[t] = IF t = "reader" THEN k ELSE tasks[t]
  BY <1>2, <1>4 DEF TaskInv, TaskTypes
<1>8. TaskInv'
  <2>1. TaskTypes'
    <3>1. tasks \in [Tasks -> Task] /\ asked \subseteq Ids /\ pending \subseteq Ids
          /\ counter \in Nat
      BY <1>2 DEF TaskInv, TaskTypes
    <3>2. tasks' \in [Tasks -> Task]
      BY <1>4, <1>5, <3>1
    <3>3. event' \in 0 .. MaxEvents
      BY <1>2, Sizes
    <3> QED BY <1>1, <3>1, <3>2, <3>3 DEF TaskTypes
  <2>2. \A t \in Tasks : /\ tasks'[t].pc # "idle" => tasks'[t].left >= 1
                         /\ Flying(tasks'[t]) => t # "reader" /\ tasks'[t].id < counter'
    BY <1>1, <1>2, <1>5, <1>6, <1>7, Sizes DEF TaskInv
  <2>3. /\ tasks'["reader"].pc = "idle" => tasks'["reader"].left = 0
        /\ tasks'["reader"].pc # "idle" => event' >= 1
    BY <1>2, <1>6, <1>7, Places
  <2>4. \A u, v \in Tasks :
          Flying(tasks'[u]) /\ Flying(tasks'[v]) /\ tasks'[u].id = tasks'[v].id => u = v
    BY <1>2, <1>7, <2>2 DEF TaskInv
  <2>5. counter' + Owes(tasks'["reader"]) + Owes(tasks'["discovery"]) <= PerEvent * event' + 1
    <3>1. counter + 0 + Owes(tasks["discovery"]) <= PerEvent * event + 1
      BY <1>2, <1>6 DEF TaskInv
    <3>2. PerEvent * event' = PerEvent * event + PerEvent /\ PerEvent * event \in Nat
      BY <1>1, <1>2, Numbers, Sizes
    <3>3. tasks'["reader"] = k /\ tasks'["discovery"] = tasks["discovery"]
          /\ Owes(tasks["discovery"]) \in Nat /\ counter \in Nat
      BY <1>2, <1>7, Places
    <3> QED BY <1>1, <1>6, <3>1, <3>2, <3>3, Sizes
  <2> QED BY <2>1, <2>2, <2>3, <2>4, <2>5 DEF TaskInv
<1>9. FlowInv'
  <2>1. Bound = event + 1 /\ Bound' \in {event + 1, event + 2}
    BY <1>1, <1>2 DEF Bound
  <2>2. Bound \in Nat /\ Bound' \in Nat /\ Bound <= Bound'
    BY <1>2, <2>1
  <2>3. States \in SUBSET Nat /\ consumer.batch \in Seq(States) /\ sent \in Seq(States)
        /\ queue \in Seq(States) /\ InOrder(sent, consumer.batch, queue, Bound)
    BY <1>2 DEF FlowInv, States
  <2>4. InOrder(sent, consumer.batch, queue, Bound')
    BY <2>2, <2>3, HigherBound
  <2>5. InOrder(sent', consumer'.batch, queue', Bound')
    BY <1>1, <2>4
  <2> QED BY <1>1, <1>2, <2>5 DEF FlowInv
<1> QED BY <1>1, <1>8, <1>9, SameWire DEF LinkInv

LEMMA KeepPut ==
  ASSUME LinkInv, Put
  PROVE  LinkInv'
<1>1. tasks["reader"].pc = "putting" /\ Len(queue) < QueueSize /\ queue' = Append(queue, event)
      /\ Goes("reader", "registering") /\ ~Flying(tasks["reader"])
  BY DEF Put, HasRoom, Flying
<1>2. UNCHANGED <<link, asked, pending, wire, faults, connected, listener, connector, consumer,
                  counter, mapped, event, sent>>
  BY DEF Put, gateway, connection
<1>3. TaskInv /\ FlowInv /\ asked \subseteq Ids /\ pending \subseteq Ids /\ event >= 1
      /\ tasks["reader"].left >= 1 /\ event \in Nat /\ event <= MaxEvents
  BY <1>1, Places DEF LinkInv, TaskInv, TaskTypes
<1>4. TaskInv'
  BY <1>1, <1>2, <1>3, Going, Places
<1>5. tasks'["reader"].pc = "registering"
  BY <1>1, <1>3, Places DEF Goes, TaskInv, TaskTypes, Task
<1>6. Bound = event /\ Bound' = event + 1
  BY <1>1, <1>2, <1>5 DEF Bound
<1>7. States \in SUBSET Nat /\ consumer.batch \in Seq(States) /\ sent \in Seq(States)
      /\ queue \in Seq(States) /\ InOrder(sent, consumer.batch, queue, event) /\ event \in States
  BY <1>3, <1>6, Sizes DEF FlowInv, States
<1>8. InOrder(sent, consumer.batch, Append(queue, event), event + 1)
  BY <1>3, <1>7, PutIntoQueue
<1>9. InOrder(sent', consumer'.batch, queue', Bound')
  BY <1>1, <1>2, <1>6, <1>8
<1>10. queue' \in Seq(States) /\ Len(queue') <= QueueSize
  <2>1. Len(queue) \in Nat /\ Len(queue') = Len(queue) + 1 /\ queue' \in Seq(States)
    BY <1>1, <1>7, LenProperties, AppendProperties
  <2> QED BY <1>1, <2>1, Sizes
<1>11. FlowInv'
  BY <1>2, <1>9, <1>10 DEF LinkInv, FlowInv
<1> QED BY <1>2, <1>4, <1>11, SameWire DEF LinkInv

-----------------------------------------------------------------------------
(***************************************************************************)
(* _process_sync_queue                                                     *)
(***************************************************************************)
\* A step of the consumer: it leaves everybody else alone.
LEMMA Consuming ==
  ASSUME LinkInv, UNCHANGED <<gateway, connection, pending, counter, mapped, tasks, event>>,
         NEW b \in Seq(States), NEW pc \in {"waiting", "sending", "ended"},
         consumer' = [pc |-> pc, batch |-> b],
         sent' \in Seq(States), queue' \in Seq(States), Len(queue') <= QueueSize,
         InOrder(sent', b, queue', Bound)
  PROVE  LinkInv'
<1>1. TaskInv'
  BY SameTasks DEF LinkInv, TaskInv, TaskTypes, gateway
<1>2. WireInv'
  BY SameWire DEF LinkInv, gateway, connection
<1>3. Bound' = Bound /\ consumer'.batch = b
  BY DEF Bound
<1>4. FlowInv'
  BY <1>3 DEF FlowInv
<1> QED BY <1>1, <1>2, <1>4 DEF LinkInv

\* What is on its way, and that the consumer may drop its batch.
LEMMA OnTheWay ==
  ASSUME LinkInv
  PROVE  /\ States \in SUBSET Nat /\ Bound \in Nat
         /\ consumer.batch \in Seq(States) /\ sent \in Seq(States) /\ queue \in Seq(States)
         /\ Len(queue) \in Nat /\ Len(queue) <= QueueSize
         /\ InOrder(sent, consumer.batch, queue, Bound)
         /\ <<>> \in Seq(States) /\ InOrder(sent, <<>>, queue, Bound)
<1>1. States \in SUBSET Nat /\ consumer.batch \in Seq(States) /\ sent \in Seq(States)
      /\ queue \in Seq(States) /\ InOrder(sent, consumer.batch, queue, Bound)
      /\ Len(queue) <= QueueSize
  BY DEF LinkInv, FlowInv, States
<1>2. Bound \in Nat
  BY Places DEF LinkInv, Bound
<1>3. <<>> \in Seq(States) /\ Len(queue) \in Nat
  BY <1>1, EmptySeq, LenProperties
<1> QED BY <1>1, <1>2, <1>3, DroppedBatch

\* Where the consumer goes on: with the batch it has, or with none.
LEMMA GoesOn ==
  ASSUME NEW b \in Seq(States)
  PROVE  /\ \E pc \in {"waiting", "ended"} : Loop(b) = [pc |-> pc, batch |-> b]
         /\ \E pc \in {"waiting", "sending", "ended"}, c \in {b, <<>>} :
               Dispatch(b) = [pc |-> pc, batch |-> c]
BY DEF Loop, Dispatch

LEMMA KeepTake ==
  ASSUME LinkInv, Take
  PROVE  LinkInv'
<1> DEFINE b == Append(consumer.batch, Head(queue))
<1>1. queue # <<>> /\ queue' = Tail(queue) /\ consumer' \in {Dispatch(b), Loop(b)} /\ sent' = sent
      /\ UNCHANGED <<gateway, connection, pending, counter, mapped, tasks, event>>
  BY DEF Take
<1>2. Tail(queue) \in Seq(States) /\ Head(queue) \in States /\ Len(Tail(queue)) = Len(queue) - 1
  BY <1>1, OnTheWay, HeadTailProperties
<1>3. b \in Seq(States)
  BY <1>2, OnTheWay, AppendProperties
<1>4. InOrder(sent, b, Tail(queue), Bound) /\ InOrder(sent, <<>>, Tail(queue), Bound)
  BY <1>1, OnTheWay, TakenFromQueue, DroppedBatch
<1>5. Len(Tail(queue)) <= QueueSize
  BY <1>2, OnTheWay, Sizes
<1> HIDE DEF b
<1>6. PICK pc \in {"waiting", "sending", "ended"}, c \in {b, <<>>} :
        consumer' = [pc |-> pc, batch |-> c]
  BY <1>1, <1>3, GoesOn
<1>7. c \in Seq(States) /\ InOrder(sent, c, Tail(queue), Bound)
  BY <1>3, <1>4, OnTheWay
<1>8. sent' \in Seq(States) /\ queue' \in Seq(States) /\ Len(queue') <= QueueSize
      /\ InOrder(sent', c, queue', Bound)
  BY <1>1, <1>2, <1>5, <1>7, OnTheWay
<1> QED BY <1>1, <1>6, <1>7, <1>8, Consuming

LEMMA KeepTick ==
  ASSUME LinkInv, Tick
  PROVE  LinkInv'
<1>1. consumer' \in {Loop(<<>>), Dispatch(consumer.batch)} /\ UNCHANGED <<queue, sent>>
      /\ UNCHANGED <<gateway, connection, pending, counter, mapped, tasks, event>>
  BY DEF Tick, Flush
<1>2. PICK pc \in {"waiting", "sending", "ended"}, c \in {consumer.batch, <<>>} :
        consumer' = [pc |-> pc, batch |-> c]
  BY <1>1, GoesOn, OnTheWay
<1>3. c \in Seq(States) /\ InOrder(sent, c, queue, Bound)
  BY OnTheWay
<1>4. sent' \in Seq(States) /\ queue' \in Seq(States) /\ Len(queue') <= QueueSize
      /\ InOrder(sent', c, queue', Bound)
  BY <1>1, <1>3, OnTheWay
<1> QED BY <1>1, <1>2, <1>3, <1>4, Consuming

LEMMA KeepSendOne ==
  ASSUME LinkInv, SendOne
  PROVE  LinkInv'
<1> DEFINE b == Tail(consumer.batch)
<1>1. consumer.pc = "sending" /\ consumer.batch # <<>> /\ queue' = queue
      /\ sent' \in {sent, Append(sent, Head(consumer.batch))}
      /\ consumer' = [consumer EXCEPT !.batch = b]
      /\ UNCHANGED <<gateway, connection, pending, counter, mapped, tasks, event>>
  BY DEF SendOne, Unsent
<1>2. b \in Seq(States) /\ Head(consumer.batch) \in States
  BY <1>1, OnTheWay, HeadTailProperties
<1>3. Append(sent, Head(consumer.batch)) \in Seq(States)
  BY <1>2, OnTheWay, AppendProperties
<1>4. InOrder(sent, b, queue, Bound)
  BY <1>1, OnTheWay, LostFromBatch
<1>5. InOrder(Append(sent, Head(consumer.batch)), b, queue, Bound)
  BY <1>1, OnTheWay, SentFromBatch
<1> HIDE DEF b
<1>6. consumer' = [pc |-> "sending", batch |-> b]
  BY <1>1 DEF LinkInv, FlowInv
<1>7. sent' \in Seq(States) /\ queue' \in Seq(States) /\ Len(queue') <= QueueSize
      /\ InOrder(sent', b, queue', Bound)
  BY <1>1, <1>3, <1>4, <1>5, OnTheWay
<1> QED BY <1>1, <1>2, <1>6, <1>7, Consuming

LEMMA KeepBatchDone ==
  ASSUME LinkInv, BatchDone
  PROVE  LinkInv'
<1>1. consumer' = Loop(<<>>) /\ UNCHANGED <<queue, sent>>
      /\ UNCHANGED <<gateway, connection, pending, counter, mapped, tasks, event>>
  BY DEF BatchDone
<1>2. PICK pc \in {"waiting", "ended"} : consumer' = [pc |-> pc, batch |-> <<>>]
  BY <1>1, GoesOn, OnTheWay
<1>3. sent' \in Seq(States) /\ queue' \in Seq(States) /\ Len(queue') <= QueueSize
      /\ InOrder(sent', <<>>, queue', Bound)
  BY <1>1, OnTheWay
<1> QED BY <1>1, <1>2, <1>3, Consuming, OnTheWay

-----------------------------------------------------------------------------
(***************************************************************************)
(* The theorems                                                            *)
(***************************************************************************)
\* Every step keeps the invariant.
LEMMA LinkStep == LinkInv /\ [Next]_vars => LinkInv'
<1> SUFFICES ASSUME LinkInv, [Next]_vars PROVE LinkInv'
  OBVIOUS
<1>1. CASE UNCHANGED vars
  <2>1. TaskInv'
    BY <1>1, SameTasks DEF LinkInv, TaskInv, TaskTypes, vars, gateway
  <2>2. WireInv'
    BY <1>1, SameWire DEF LinkInv, vars, gateway, connection
  <2>3. FlowInv'
    BY <1>1, StillFlow DEF LinkInv, vars
  <2> QED BY <1>1, <2>1, <2>2, <2>3 DEF LinkInv, vars
<1>2. CASE \E id \in Ids : Reply(id)
  BY <1>2, KeepReply
<1>3. CASE Garble \/ Lose
  BY <1>3, KeepGarble, KeepLose
<1>4. CASE Connecting
  BY <1>4, KeepConnect, KeepFailToConnect, KeepTryAgain DEF Connecting
<1>5. CASE Listen \/ StopListening
  BY <1>5, KeepListen, KeepStopListening
<1>6. CASE \E t \in Tasks : Requesting(t)
  BY <1>6, KeepRegister, KeepSending, KeepGiveUp DEF Requesting
<1>7. CASE Discover \/ ReadEvent \/ Put
  BY <1>7, KeepDiscover, KeepReadEvent, KeepPut
<1>8. CASE Consumer
  BY <1>8, KeepTake, KeepTick, KeepSendOne, KeepBatchDone DEF Consumer
<1> QED BY <1>1, <1>2, <1>3, <1>4, <1>5, <1>6, <1>7, <1>8 DEF Next

\* What the invariant says about the runs' properties.
LEMMA LinkMeans == LinkInv => LinkSound /\ SentInOrder /\ NotForgotten
<1> SUFFICES ASSUME LinkInv PROVE LinkSound /\ SentInOrder /\ NotForgotten
  OBVIOUS
<1>1. counter \in 0 .. PerEvent * MaxEvents + 1
  <2>1. PerEvent * MaxEvents \in Nat
    BY Numbers, Sizes
  <2> QED BY <2>1, IdsSuffice, Places DEF LinkInv
<1>2. TypeOK
  BY <1>1 DEF LinkInv, TaskInv, TaskTypes, WireInv, FlowInv, TypeOK, States
<1>3. OwnAnswers
  BY DEF LinkInv, TaskInv, OwnAnswers, Waiter, Flying
<1>4. SentInOrder
  BY DEF LinkInv, FlowInv, InOrder, Rising, SentInOrder
<1> QED BY <1>2, <1>3, <1>4 DEF LinkInv, WireInv, LinkSound

\* LinkInv is an invariant.
THEOREM LinkInvariant == Spec => []LinkInv
<1> QED BY LinkInit, LinkStep, PTL DEF Spec

\* LinkSound: the gateway's idea of its connection has a listener unless a
\* fault ended it, and an answer wakes the task that asked for it.
THEOREM LinkIsSound == Spec => []LinkSound
<1> QED BY LinkInvariant, LinkMeans, PTL

\* SentInOrder: the states of a device go out in the order of their events,
\* whatever is lost, and never twice.
THEOREM StatesAreSentInOrder == Spec => []SentInOrder
<1> QED BY LinkInvariant, LinkMeans, PTL

\* NotForgotten: a connection that broke is being made again, unless every
\* attempt failed.
THEOREM BrokenIsNotForgotten == Spec => []NotForgotten
<1> QED BY LinkInvariant, LinkMeans, PTL
=============================================================================

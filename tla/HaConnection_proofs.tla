------------------------- MODULE HaConnection_proofs -------------------------
(***************************************************************************)
(* Proofs about HaConnection.                                              *)
(***************************************************************************)
EXTENDS HaConnection, FiniteSetTheorems, TLAPS

\* Sending a frame under the next id keeps the ids in order.
LEMMA NumberedNext ==
    ASSUME IdsInv, ws # 0, Numbered(lastId + 1), lastId' = lastId + 1
    PROVE  lastOn' \in [Sockets -> Nat] /\ CounterAhead' /\ IdsIncrease' /\ lastId' \in Nat
<1>1. ws \in Sockets
  BY BoundsAssumption DEF IdsInv, Sockets
<1>2. lastOn[ws] \in Nat /\ lastOn[ws] <= lastId
  BY <1>1 DEF IdsInv, CounterAhead
<1>3. lastId + 1 \in Nat /\ lastId + 1 > lastOn[ws]
  BY <1>2 DEF IdsInv
<1>4. IdsIncrease'
  BY <1>3 DEF IdsInv, IdsIncrease, Numbered
<1>5. lastOn' \in [Sockets -> Nat]
  BY <1>3 DEF IdsInv, Numbered
<1>6. ASSUME NEW s \in Sockets PROVE lastOn'[s] <= lastId'
  <2>1. lastOn[s] \in Nat /\ lastOn[s] <= lastId
    BY DEF IdsInv, CounterAhead
  <2>2. lastOn'[s] = IF s = ws THEN lastId + 1 ELSE lastOn[s]
    BY DEF Numbered, IdsInv
  <2> QED BY <2>1, <2>2 DEF IdsInv
<1> QED BY <1>3, <1>4, <1>5, <1>6 DEF CounterAhead

\* A reader that goes on or ends leaves at most a reader of the current connection.
LEMMA LoopKeeps ==
    ASSUME IdsInv, NEW r \in Sockets, reader[r] # 0, UNCHANGED ws,
           NEW ok, NEW event, NEW step,
           LoopAgain(r, ok, event, step) \/ Teardown(r, step)
    PROVE  /\ ws \in Sockets
           /\ reader' \in [Sockets -> 0 .. MaxSockets] /\ NothingBeforeFirst'
<1>1. ws \in Sockets
  BY BoundsAssumption DEF IdsInv, NothingBeforeFirst, Sockets
<1>2. 0 \in 0 .. MaxSockets /\ ws \in 0 .. MaxSockets /\ ws # 0
  BY <1>1, BoundsAssumption DEF Sockets
<1>3. reader' \in [Sockets -> 0 .. MaxSockets]
  BY <1>2 DEF IdsInv, LoopAgain, Teardown, ReaderEnds
<1>4. NothingBeforeFirst'
  BY <1>2 DEF NothingBeforeFirst
<1> QED BY <1>1, <1>3, <1>4

\* A connection that is closed forgets its last id.
LEMMA CloseKeeps ==
    ASSUME IdsInv, NEW s, CloseEnd(s), UNCHANGED <<ws, lastId, misnumbered, connected, reader>>
    PROVE  IdsInv'
<1>1. lastOn' \in [Sockets -> Nat]
  BY DEF CloseEnd, IdsInv
<1>2. ASSUME NEW q \in Sockets PROVE lastOn'[q] <= lastId'
  <2>1. lastOn'[q] = IF q = s THEN 0 ELSE lastOn[q]
    BY DEF CloseEnd, IdsInv
  <2>2. lastOn[q] <= lastId
    BY DEF IdsInv, CounterAhead
  <2> QED BY <2>1, <2>2 DEF IdsInv
<1> QED BY <1>1, <1>2 DEF IdsInv, NothingBeforeFirst, CounterAhead, IdsIncrease

\* The ids stay in order in every step: whoever sends, and whatever is sent.
LEMMA IdsStep ==
    ASSUME IdsInv, [Next]_vars
    PROVE  IdsInv'
<1> USE DEF network, wire, flags, connecting
<1>1. CASE UNCHANGED vars
  BY <1>1 DEF IdsInv, NothingBeforeFirst, CounterAhead, IdsIncrease, vars
<1>2. CASE \E t \in Tasks : Command(t)
  <2> PICK t \in Tasks : Command(t)
    BY <1>2
  <2>1. CASE Refuse(t) \/ Timeout(t)
    BY <2>1 DEF Refuse, Timeout, IdsInv, NothingBeforeFirst, CounterAhead, IdsIncrease
  <2>2. CASE SendFails(t)
    <3>1. lastId' \in Nat /\ UNCHANGED <<ws, connected, reader, lastOn, misnumbered>>
      BY <2>2 DEF SendFails, IdsInv
    <3>2. CounterAhead'
      <4> SUFFICES ASSUME NEW s \in Sockets PROVE lastOn'[s] <= lastId'
        BY DEF CounterAhead
      <4>1. lastOn[s] \in Nat /\ lastOn[s] <= lastId
        BY DEF IdsInv, CounterAhead
      <4> QED BY <3>1, <4>1, <2>2 DEF SendFails, IdsInv
    <3> QED BY <3>1, <3>2 DEF IdsInv, NothingBeforeFirst, IdsIncrease
  <2>3. CASE Send(t)
    <3>1. ws # 0
      BY <2>3 DEF Send, IdsInv, NothingBeforeFirst
    <3>2. lastId' = lastId + 1 /\ Numbered(lastId + 1)
      BY <2>3 DEF Send
    <3>3. UNCHANGED <<ws, connected, reader>>
      BY <2>3 DEF Send
    <3> QED BY <3>1, <3>2, <3>3, NumberedNext DEF IdsInv, NothingBeforeFirst
  <2> QED BY <2>1, <2>2, <2>3 DEF Command
<1>3. CASE \E r \in Sockets : Hear(r) \/ Converse(r) \/ Lose(r)
  <2> PICK r \in Sockets : Hear(r) \/ Converse(r) \/ Lose(r)
    BY <1>3
  <2>1. CASE ReadAuthRequired(r)
    <3>1. reader[r] # 0 /\ UNCHANGED <<ws, lastId, lastOn, misnumbered>>
      BY <2>1 DEF ReadAuthRequired, Expects
    <3>2. LoopAgain(r, authOK, authEvent, rc) \/ Teardown(r, rc)
      BY <2>1 DEF ReadAuthRequired
    <3> QED BY <3>1, <3>2, LoopKeeps DEF IdsInv, CounterAhead, IdsIncrease
  <2>2. CASE ReadAuthOk(r)
    <3>1. reader[r] # 0 /\ UNCHANGED ws /\ LoopAgain(r, TRUE, TRUE, Wake(rc))
      BY <2>2 DEF ReadAuthOk, Expects
    <3>2. reader' \in [Sockets -> 0 .. MaxSockets] /\ NothingBeforeFirst' /\ ws \in Sockets
      BY <3>1, LoopKeeps
    <3>3. ws # 0
      BY <3>2, BoundsAssumption DEF Sockets
    <3>4. CASE sock[ws] = "open"
      <4>1. lastId' = lastId + 1 /\ Numbered(lastId + 1)
        BY <2>2, <3>4 DEF ReadAuthOk, NewId
      <4> QED BY <3>1, <3>2, <3>3, <4>1, NumberedNext DEF IdsInv
    <3>5. CASE sock[ws] # "open"
      <4>1. UNCHANGED <<lastId, lastOn, misnumbered>>
        BY <2>2, <3>5 DEF ReadAuthOk
      <4> QED BY <3>1, <3>2, <4>1 DEF IdsInv, CounterAhead, IdsIncrease
    <3> QED BY <3>4, <3>5
  <2>3. CASE ReadAuthInvalid(r)
    <3>1. reader[r] # 0 /\ UNCHANGED <<ws, lastId, lastOn, misnumbered>> /\ Teardown(r, Wake(rc))
      BY <2>3 DEF ReadAuthInvalid, Expects
    <3> QED BY <3>1, LoopKeeps DEF IdsInv, CounterAhead, IdsIncrease
  <2>4. CASE ReadClosed(r)
    <3>1. reader[r] # 0 /\ UNCHANGED <<ws, lastId, lastOn, misnumbered>> /\ Teardown(r, rc)
      BY <2>4 DEF ReadClosed
    <3> QED BY <3>1, LoopKeeps DEF IdsInv, CounterAhead, IdsIncrease
  <2>5. CASE Converse(r)
    <3>1. PICK m : Answered(r, m)
      BY <2>5 DEF Converse, ReadAnswer, ReadPong
    <3>2. /\ reader[r] # 0 /\ UNCHANGED <<ws, lastId, lastOn, misnumbered>>
          /\ LoopAgain(r, authOK, authEvent, rc)
      BY <3>1 DEF Answered, Expects
    <3> QED BY <3>2, LoopKeeps DEF IdsInv, CounterAhead, IdsIncrease
  <2>6. CASE Lose(r)
    <3>1. UNCHANGED <<ws, lastId, misnumbered, connected, reader>> /\ CloseEnd(r)
      BY <2>6 DEF Lose
    <3> QED BY <3>1, CloseKeeps
  <2> QED BY <2>1, <2>2, <2>3, <2>4, <2>5, <2>6 DEF Hear
<1>4. CASE Connect
  <2>1. CASE BootOpen \/ ReconnectOpen
    <3>1. OpenSocket
      BY <2>1 DEF BootOpen, ReconnectOpen
    <3>2. ws' \in Sockets /\ ws' \in 0 .. MaxSockets /\ ws' # 0
      BY <3>1, BoundsAssumption DEF OpenSocket, IdsInv, Sockets
    <3>3. UNCHANGED <<lastId, lastOn, misnumbered>>
      BY <3>1 DEF OpenSocket
    <3>4. reader' \in [Sockets -> 0 .. MaxSockets]
      BY <3>1, <3>2 DEF OpenSocket, IdsInv
    <3> QED BY <3>2, <3>3, <3>4 DEF IdsInv, NothingBeforeFirst, CounterAhead, IdsIncrease
  <2>2. CASE BootFails \/ ReconnectFails \/ AuthTimeout
    <3>1. ConnectFails
      BY <2>2 DEF BootFails, ReconnectFails, AuthTimeout
    <3> QED BY <3>1 DEF ConnectFails, IdsInv, NothingBeforeFirst, CounterAhead, IdsIncrease
  <2>3. CASE Woken \/ Retry
    BY <2>3 DEF Woken, Retry, DropHandlers, IdsInv, NothingBeforeFirst, CounterAhead, IdsIncrease
  <2> QED BY <1>4, <2>1, <2>2, <2>3 DEF Connect
<1>5. CASE Stop
  <2>1. CASE Disconnect \/ CancelAll
    BY <2>1 DEF Disconnect, CancelAll, IdsInv, NothingBeforeFirst, CounterAhead, IdsIncrease
  <2>2. CASE CloseSocket
    <3>1. UNCHANGED <<ws, lastId, misnumbered, connected, reader>> /\ CloseEnd(ws)
      BY <2>2 DEF CloseSocket
    <3> QED BY <3>1, CloseKeeps
  <2> QED BY <1>5, <2>1, <2>2 DEF Stop
<1> QED BY <1>1, <1>2, <1>3, <1>4, <1>5 DEF Next

\* However many connections, callers and reconnections: no connection ever carries
\* an id that is not higher than the one before (IdsInv contains IdsIncrease).
THEOREM IdsInOrder == Spec => []IdsInv
<1>1. Init => IdsInv
  BY BoundsAssumption DEF Init, IdsInv, NothingBeforeFirst, CounterAhead, IdsIncrease
<1>2. IdsInv /\ [Next]_vars => IdsInv'
  BY IdsStep
<1> QED BY <1>1, <1>2, PTL DEF Spec

\* The rule of Home Assistant for ids, by itself.
THEOREM IdsNeverRepeat == Spec => []IdsIncrease
<1>1. IdsInv => IdsIncrease
  BY DEF IdsInv
<1> QED BY <1>1, IdsInOrder, PTL

-----------------------------------------------------------------------------
(***************************************************************************)
(* The order of things while no authentication times out.                  *)
(***************************************************************************)
\* The part of OrderInv that depends on the absence of timeouts.
Orderly ==
    /\ NobodyReadsWhileSeeking
    /\ authOK => ws \in Sockets /\ ha[ws] = "ready"
    /\ \A r \in Sockets : reader[r] # 0 => r = ws /\ reader[r] = ws
    /\ connected => \E r \in Sockets : reader[r] = ws
    /\ \A s \in Sockets : lastOn[s] > 0 => ha[s] = "ready"

\* OrderInv taken apart.
LEMMA OrderIsOrderly ==
    OrderInv <=> /\ IdsInv
                 /\ sock \in [Sockets -> {"new", "open", "closed"}]
                 /\ ha \in [Sockets -> {"greet", "judge", "ready", "refused"}]
                 /\ timeouts \in Nat
                 /\ timeouts = 0 => Orderly
  BY DEF OrderInv, Orderly, ReaderIsCurrent, CommandsAfterAuth

\* The end of the reader leaves nobody reading and the flags down.
LEMMA TeardownOrderly ==
    ASSUME OrderInv, Orderly, NEW r \in Sockets, reader[r] # 0, NEW step,
           Teardown(r, step), step \in {rc, Wake(rc)},
           boot' \in {boot, Wake(boot)}, UNCHANGED ws,
           \A s \in Sockets : lastOn'[s] > 0 => ha'[s] = "ready"
    PROVE  Orderly'
<1>1. r = ws /\ reader \in [Sockets -> 0 .. MaxSockets]
  BY DEF Orderly, OrderInv, IdsInv
<1>2. \A q \in Sockets : reader'[q] = 0
  BY <1>1 DEF Teardown, ReaderEnds, Orderly
<1>3. ~connected' /\ ~authOK'
  BY DEF Teardown, ReaderEnds, ClearFlags
<1>4. boot # "opening" /\ boot' # "opening"
  BY DEF Orderly, NobodyReadsWhileSeeking, Seeking, Wake
<1> QED BY <1>2, <1>3, <1>4 DEF Orderly, NobodyReadsWhileSeeking

\* A reader that has handled a frame reads on, or it has ended.
LEMMA LoopOrderly ==
    ASSUME OrderInv, Orderly, NEW r \in Sockets, reader[r] # 0, NEW ok, NEW event, NEW step,
           LoopAgain(r, ok, event, step), step \in {rc, Wake(rc)},
           boot' \in {boot, Wake(boot)}, UNCHANGED ws,
           ok => ha'[ws] = "ready",
           \A s \in Sockets : lastOn'[s] > 0 => ha'[s] = "ready"
    PROVE  Orderly'
<1>1. CASE ~connected \/ Busy(r)
  BY <1>1, TeardownOrderly DEF LoopAgain
<1>2. CASE connected /\ ~Busy(r)
  <2>1. /\ reader' = [reader EXCEPT ![r] = ws] /\ authOK' = ok /\ rc' = step
        /\ UNCHANGED connected
    BY <1>2 DEF LoopAgain
  <2>2. r = ws /\ reader[r] = ws /\ reader \in [Sockets -> 0 .. MaxSockets]
    BY DEF Orderly, OrderInv, IdsInv
  <2>3. reader' = reader
    BY <2>1, <2>2
  <2>4. ~Seeking
    BY <1>2 DEF Orderly, NobodyReadsWhileSeeking
  <2>5. ~Seeking' /\ boot' # "opening"
    BY <2>1, <2>4 DEF Seeking, Wake
  <2>6. authOK' => ws' \in Sockets /\ ha'[ws'] = "ready"
    BY <2>1, <2>2
  <2> QED BY <2>1, <2>2, <2>3, <2>5, <2>6 DEF Orderly, NobodyReadsWhileSeeking
<1> QED BY <1>1, <1>2

\* No step of a caller of send_command disturbs the order.
LEMMA CommandOrderly ==
    ASSUME OrderInv, Orderly, NEW t \in Tasks, Command(t)
    PROVE  Orderly'
<1> USE DEF network, wire, flags, connecting
<1>1. CASE Refuse(t) \/ SendFails(t) \/ Timeout(t)
  BY <1>1 DEF Refuse, SendFails, Timeout, Orderly, NobodyReadsWhileSeeking, Seeking
<1>2. CASE Send(t)
  <2>1. ws \in Sockets /\ ha[ws] = "ready"
    BY <1>2 DEF Send, Orderly
  <2>2. \A s \in Sockets : lastOn'[s] > 0 => ha'[s] = "ready"
    <3>1. lastOn \in [Sockets -> Nat] /\ lastOn' = [lastOn EXCEPT ![ws] = lastId'] /\ ha' = ha
      BY <1>2 DEF Send, Numbered, OrderInv, IdsInv
    <3> QED BY <2>1, <3>1 DEF Orderly
  <2>3. UNCHANGED <<ha, boot, rc, connected, authOK, ws, reader>>
    BY <1>2 DEF Send
  <2> QED BY <2>2, <2>3 DEF Orderly, NobodyReadsWhileSeeking, Seeking
<1> QED BY <1>1, <1>2 DEF Command

\* No frame disturbs the order.
LEMMA HearOrderly ==
    ASSUME OrderInv, Orderly, NEW r \in Sockets, Hear(r) \/ Converse(r)
    PROVE  Orderly'
<1> USE DEF network, wire, flags, connecting
<1>a. ha \in [Sockets -> {"greet", "judge", "ready", "refused"}] /\ lastOn \in [Sockets -> Nat]
  BY DEF OrderInv, IdsInv
<1>b. \A s \in Sockets : lastOn[s] > 0 => ha[s] = "ready"
  BY DEF Orderly
<1>c. reader[r] # 0 => reader[r] = ws /\ r = ws
  BY DEF Orderly
<1>d. ASSUME NEW stage PROVE Expects(r, stage) => reader[r] # 0 /\ ha[ws] = stage
  BY <1>c DEF Expects
<1>1. CASE ReadAuthRequired(r)
  <2>1. reader[r] # 0 /\ ha[ws] = "greet" /\ UNCHANGED <<ws, lastOn, boot>>
    BY <1>1, <1>d DEF ReadAuthRequired
  <2>2. ~authOK
    BY <2>1 DEF Orderly
  <2>3. LoopAgain(r, authOK, authEvent, rc) \/ Teardown(r, rc)
    BY <1>1 DEF ReadAuthRequired
  <2>4. ha' = ha \/ ha' = [ha EXCEPT ![ws] = IF @ = "greet" THEN "judge" ELSE @]
    BY <1>1 DEF ReadAuthRequired
  <2>5. \A s \in Sockets : lastOn'[s] > 0 => ha'[s] = "ready"
    BY <2>1, <2>4, <1>a, <1>b
  <2> QED BY <2>1, <2>2, <2>3, <2>5, LoopOrderly, TeardownOrderly
<1>2. CASE ReadAuthOk(r)
  <2>1. /\ reader[r] # 0 /\ boot' = Wake(boot) /\ UNCHANGED ws
        /\ LoopAgain(r, TRUE, TRUE, Wake(rc))
    BY <1>2, <1>d DEF ReadAuthOk
  <2>2. ws \in Sockets /\ ha' = [ha EXCEPT ![ws] = "ready"]
    BY <1>2, <1>c, <2>1 DEF ReadAuthOk
  <2>3. ha'[ws] = "ready"
    BY <2>2, <1>a
  <2>4. lastOn' = lastOn \/ lastOn' = [lastOn EXCEPT ![ws] = lastId + 1]
    BY <1>2 DEF ReadAuthOk, Numbered
  <2>5. \A s \in Sockets : lastOn'[s] > 0 => ha'[s] = "ready"
    BY <2>2, <2>4, <1>a, <1>b
  <2> QED BY <2>1, <2>3, <2>5, LoopOrderly
<1>3. CASE ReadAuthInvalid(r)
  <2>1. /\ reader[r] # 0 /\ ha[ws] = "judge" /\ boot' = Wake(boot) /\ UNCHANGED <<ws, lastOn>>
        /\ Teardown(r, Wake(rc)) /\ ha' = [ha EXCEPT ![reader[r]] = "refused"]
    BY <1>3, <1>d DEF ReadAuthInvalid
  <2>2. \A s \in Sockets : lastOn'[s] > 0 => ha'[s] = "ready"
    BY <2>1, <1>a, <1>b, <1>c
  <2> QED BY <2>1, <2>2, TeardownOrderly
<1>4. CASE ReadClosed(r)
  <2>1. reader[r] # 0 /\ UNCHANGED <<ws, lastOn, ha, boot>> /\ Teardown(r, rc)
    BY <1>4 DEF ReadClosed
  <2> QED BY <2>1, <1>b, TeardownOrderly
<1>5. CASE Converse(r)
  <2>1. PICK m : Answered(r, m)
    BY <1>5 DEF Converse, ReadAnswer, ReadPong
  <2>2. /\ reader[r] # 0 /\ ha[ws] = "ready" /\ UNCHANGED <<ws, lastOn, ha, boot>>
        /\ LoopAgain(r, authOK, authEvent, rc)
    BY <2>1, <1>d DEF Answered
  <2> QED BY <2>2, <1>b, LoopOrderly
<1> QED BY <1>1, <1>2, <1>3, <1>4, <1>5 DEF Hear

\* Connecting keeps the order as long as no authentication times out.
LEMMA ConnectOrderly ==
    ASSUME OrderInv, Orderly, Connect, timeouts' = timeouts
    PROVE  Orderly'
<1> USE DEF network, wire, flags, connecting
<1>1. CASE BootOpen \/ ReconnectOpen
  <2>1. OpenSocket /\ Seeking /\ ~Seeking' /\ boot' # "opening"
    BY <1>1 DEF BootOpen, ReconnectOpen, Seeking, AfterOpen, Orderly, NobodyReadsWhileSeeking
  <2>2. ~authOK /\ \A r \in Sockets : reader[r] = 0
    BY <2>1 DEF Orderly, NobodyReadsWhileSeeking
  <2>3. ws' \in Sockets
    BY <2>1, BoundsAssumption DEF OpenSocket, OrderInv, IdsInv, Sockets
  <2>4. reader' = [reader EXCEPT ![ws'] = ws'] /\ reader \in [Sockets -> 0 .. MaxSockets]
    BY <2>1 DEF OpenSocket, OrderInv, IdsInv
  <2>5. /\ \A r \in Sockets : reader'[r] # 0 => r = ws' /\ reader'[r] = ws'
        /\ \E r \in Sockets : reader'[r] = ws'
    BY <2>2, <2>3, <2>4
  <2>6. UNCHANGED <<authOK, ha, lastOn>>
    BY <2>1 DEF OpenSocket
  <2> QED BY <2>1, <2>2, <2>5, <2>6 DEF Orderly, NobodyReadsWhileSeeking
<1>2. CASE BootFails
  <2>1. boot = "opening" /\ boot' = "failed" /\ ConnectFails /\ UNCHANGED rc
    BY <1>2 DEF BootFails
  <2> QED BY <2>1 DEF ConnectFails, Orderly, NobodyReadsWhileSeeking, Seeking
<1>3. CASE ReconnectFails
  <2>1. rc = "opening" /\ ConnectFails /\ UNCHANGED boot
    BY <1>3 DEF ReconnectFails
  <2>2. boot # "opening"
    BY <2>1 DEF Orderly, NobodyReadsWhileSeeking
  <2> QED BY <2>1, <2>2 DEF ConnectFails, Orderly, NobodyReadsWhileSeeking, Seeking
<1>4. CASE AuthTimeout
  BY <1>4 DEF AuthTimeout, OrderInv
<1>5. CASE Woken
  BY <1>5 DEF Woken, Orderly, NobodyReadsWhileSeeking, Seeking
<1>6. CASE Retry
  BY <1>6 DEF Retry, DropHandlers, Orderly, NobodyReadsWhileSeeking, Seeking
<1> QED BY <1>1, <1>2, <1>3, <1>4, <1>5, <1>6 DEF Connect

\* Neither does disconnect() disturb it, nor a connection that breaks.
LEMMA StopOrderly ==
    ASSUME OrderInv, Orderly, Stop \/ \E s \in Sockets : Lose(s)
    PROVE  Orderly'
<1> USE DEF network, wire, flags, connecting
<1>1. CASE Disconnect
  BY <1>1 DEF Disconnect, Running, ConnectSteps, Orderly, NobodyReadsWhileSeeking, Seeking
<1>2. CASE CancelAll
  BY <1>2 DEF CancelAll, Orderly, NobodyReadsWhileSeeking, Seeking
<1>3. ASSUME NEW s, CloseEnd(s), UNCHANGED <<ha, boot, rc, connected, authOK, ws, reader>>
      PROVE  Orderly'
  <2>1. lastOn' = [lastOn EXCEPT ![s] = 0] /\ lastOn \in [Sockets -> Nat]
    BY <1>3 DEF CloseEnd, OrderInv, IdsInv
  <2>2. \A q \in Sockets : lastOn'[q] > 0 => ha'[q] = "ready"
    BY <1>3, <2>1 DEF Orderly
  <2> QED BY <1>3, <2>2 DEF Orderly, NobodyReadsWhileSeeking, Seeking
<1>4. CASE CloseSocket
  BY <1>4, <1>3 DEF CloseSocket
<1>5. CASE \E s \in Sockets : Lose(s)
  BY <1>5, <1>3 DEF Lose
<1> QED BY <1>1, <1>2, <1>4, <1>5 DEF Stop

\* OrderInv is inductive.
LEMMA OrderStep ==
    ASSUME OrderInv, [Next]_vars
    PROVE  OrderInv'
<1> USE DEF network, wire, flags, connecting
<1>1. IdsInv'
  BY IdsStep DEF OrderInv
<1>2. timeouts' \in Nat /\ (timeouts' = 0 => timeouts = 0)
  <2>1. timeouts' = timeouts \/ timeouts' = timeouts + 1
    BY DEF Next, vars, Command, Refuse, SendFails, Send, Timeout, Hear, Converse, Lose,
           ReadAuthRequired, ReadAuthOk, ReadAuthInvalid, ReadClosed, ReadAnswer, ReadPong,
           Answered, Connect, BootOpen, ReconnectOpen, OpenSocket, BootFails, ReconnectFails,
           AuthTimeout, Woken, Retry, DropHandlers, Stop, Disconnect, CloseSocket, CancelAll
  <2> QED BY <2>1 DEF OrderInv
<1>3. sock' \in [Sockets -> {"new", "open", "closed"}]
  <2>1. \/ sock' = sock
        \/ \E s : sock' = [sock EXCEPT ![s] = "open"] \/ sock' = [sock EXCEPT ![s] = "closed"]
    BY DEF Next, vars, Command, Refuse, SendFails, Send, Timeout, Hear, Converse, Lose,
           ReadAuthRequired, ReadAuthOk, ReadAuthInvalid, ReadClosed, ReadAnswer, ReadPong,
           Answered, Connect, BootOpen, ReconnectOpen, OpenSocket, BootFails, ReconnectFails,
           AuthTimeout, ConnectFails, Woken, Retry, DropHandlers, Stop, Disconnect, CloseSocket, CancelAll,
           CloseEnd
  <2> QED BY <2>1 DEF OrderInv
<1>4. ha' \in [Sockets -> {"greet", "judge", "ready", "refused"}]
  <2>1. \/ ha' = ha
        \/ \E s : \/ ha' = [ha EXCEPT ![s] = "ready"] \/ ha' = [ha EXCEPT ![s] = "refused"]
                  \/ ha' = [ha EXCEPT ![s] = IF @ = "greet" THEN "judge" ELSE @]
    BY DEF Next, vars, Command, Refuse, SendFails, Send, Timeout, Hear, Converse, Lose,
           ReadAuthRequired, ReadAuthOk, ReadAuthInvalid, ReadClosed, ReadAnswer, ReadPong,
           Answered, Connect, BootOpen, ReconnectOpen, OpenSocket, BootFails, ReconnectFails,
           AuthTimeout, ConnectFails, Woken, Retry, DropHandlers, Stop, Disconnect, CloseSocket, CancelAll
  <2> QED BY <2>1 DEF OrderInv
<1>5. ASSUME timeouts' = 0 PROVE Orderly'
  <2>1. Orderly /\ timeouts' = timeouts
    BY <1>2, <1>5, OrderIsOrderly
  <2>2. CASE UNCHANGED vars
    BY <2>1, <2>2 DEF vars, Orderly, NobodyReadsWhileSeeking, Seeking
  <2>3. CASE Next
    BY <2>1, <2>3, CommandOrderly, HearOrderly, ConnectOrderly, StopOrderly DEF Next
  <2> QED BY <2>2, <2>3
<1>6. OrderInv' <=> /\ IdsInv'
                    /\ sock' \in [Sockets -> {"new", "open", "closed"}]
                    /\ ha' \in [Sockets -> {"greet", "judge", "ready", "refused"}]
                    /\ timeouts' \in Nat
                    /\ timeouts' = 0 => Orderly'
  BY DEF OrderInv, Orderly, ReaderIsCurrent, CommandsAfterAuth
<1> QED BY <1>1, <1>2, <1>3, <1>4, <1>5, <1>6

\* The order of readers, flags and connections, for any number of connections,
\* attempts and callers, disconnect() included.
THEOREM OrderInvariant == Spec => []OrderInv
<1>1. Init => OrderInv
  BY BoundsAssumption DEF Init, OrderInv, IdsInv, NothingBeforeFirst, CounterAhead, IdsIncrease,
     NobodyReadsWhileSeeking, ReaderIsCurrent, CommandsAfterAuth
<1>2. OrderInv /\ [Next]_vars => OrderInv'
  BY OrderStep
<1> QED BY <1>1, <1>2, PTL DEF Spec

\* As long as no authentication times out: one reader, of the current connection,
\* whenever the gateway takes itself to be connected.
THEOREM TheReaderIsCurrent == Spec => []ReaderIsCurrent
<1>1. OrderInv => ReaderIsCurrent
  BY DEF OrderInv
<1> QED BY <1>1, OrderInvariant, PTL

\* ... and no command goes out on a connection that has not been authenticated.
THEOREM AuthComesFirst == Spec => []CommandsAfterAuth
<1>1. OrderInv => CommandsAfterAuth
  BY DEF OrderInv
<1> QED BY <1>1, OrderInvariant, PTL

-----------------------------------------------------------------------------
(***************************************************************************)
(* How many read at once, timeouts of the authentication included.  While  *)
(* a connection is being sought the reader of the last one has ended, or   *)
(* a timeout pays for it: so there is room for the one that will be        *)
(* started.                                                                *)
(***************************************************************************)
Reading == {r \in Sockets : reader[r] # 0}

Room == timeouts + IF Seeking THEN 0 ELSE 1

ReadersInv ==
    /\ IdsInv /\ timeouts \in Nat
    /\ boot = "opening" => rc = "none" /\ ws = 0
    /\ Cardinality(Reading) <= Room

LEMMA ReadingFinite ==
    /\ IsFiniteSet(Sockets)
    /\ IsFiniteSet(Reading) /\ Cardinality(Reading) \in Nat
    /\ IsFiniteSet(Reading') /\ Cardinality(Reading') \in Nat
<1>1. IsFiniteSet(Sockets)
  BY BoundsAssumption, FS_Interval DEF Sockets
<1>2. Reading \in SUBSET Sockets /\ Reading' \in SUBSET Sockets
  BY DEF Reading
<1> QED BY <1>1, <1>2, FS_Subset, FS_CardinalityType

LEMMA RoomIs ==
    /\ timeouts \in Nat => Room = timeouts \/ Room = timeouts + 1
    /\ timeouts \in Nat /\ Seeking => Room = timeouts
    /\ timeouts' \in Nat => Room' = timeouts' \/ Room' = timeouts' + 1
    /\ timeouts' \in Nat /\ ~Seeking' => Room' = timeouts' + 1
<1>1. CASE Seeking
  BY <1>1 DEF Room
<1>2. CASE ~Seeking
  BY <1>2 DEF Room
<1>3. CASE Seeking'
  BY <1>3 DEF Room
<1>4. CASE ~Seeking'
  BY <1>4 DEF Room
<1> QED BY <1>1, <1>2, <1>3, <1>4

\* Nobody starts to read, and nobody takes up the search.
LEMMA SameReaders ==
    ASSUME ReadersInv, IdsInv', UNCHANGED <<reader, boot, rc, ws, timeouts>>
    PROVE  ReadersInv'
BY DEF ReadersInv, Reading, Room, Seeking

\* A reader ends; a connection may be sought from now on.
LEMMA FewerReaders ==
    ASSUME ReadersInv, IdsInv', NEW r \in Sockets, reader[r] # 0, NEW step,
           Teardown(r, step), step \in {rc, Wake(rc)},
           boot' \in {boot, Wake(boot)}, UNCHANGED <<ws, timeouts>>
    PROVE  ReadersInv'
<1>1. reader' = [reader EXCEPT ![r] = 0] /\ reader \in [Sockets -> 0 .. MaxSockets]
  BY DEF Teardown, ReaderEnds, ReadersInv, IdsInv
<1>2. Reading' = Reading \ {r} /\ r \in Reading
  BY <1>1 DEF Reading
<1>3. Cardinality(Reading') = Cardinality(Reading) - 1
  <2>1. Cardinality(Reading \ {r}) = Cardinality(Reading) - 1
    BY <1>2, FS_RemoveElement, ReadingFinite
  <2> QED BY <1>2, <2>1
<1>4. Cardinality(Reading) <= timeouts + 1 /\ timeouts \in Nat
  BY RoomIs, ReadingFinite DEF ReadersInv
<1>5. boot # "opening" /\ boot' # "opening"
  BY DEF ReadersInv, IdsInv, NothingBeforeFirst, Wake
<1>6. Cardinality(Reading') <= timeouts
  BY <1>3, <1>4, ReadingFinite
<1>7. Room' = timeouts \/ Room' = timeouts + 1
  BY <1>4, RoomIs
<1>8. Cardinality(Reading') <= Room'
  BY <1>4, <1>6, <1>7, ReadingFinite
<1> QED BY <1>4, <1>5, <1>8 DEF ReadersInv

\* A reader reads on, on the connection that is now the current one, or it ends.
LEMMA ReadersGoOn ==
    ASSUME ReadersInv, IdsInv', NEW r \in Sockets, reader[r] # 0, NEW ok, NEW event, NEW step,
           LoopAgain(r, ok, event, step), step \in {rc, Wake(rc)},
           boot' \in {boot, Wake(boot)}, UNCHANGED <<ws, timeouts>>
    PROVE  ReadersInv'
<1>1. CASE ~connected \/ Busy(r)
  BY <1>1, FewerReaders DEF LoopAgain
<1>2. CASE connected /\ ~Busy(r)
  <2>1. reader' = [reader EXCEPT ![r] = ws] /\ rc' = step
    BY <1>2 DEF LoopAgain
  <2>2. ws # 0 /\ reader \in [Sockets -> 0 .. MaxSockets]
    BY <1>2 DEF ReadersInv, IdsInv, NothingBeforeFirst
  <2>3. Reading' = Reading
    BY <2>1, <2>2 DEF Reading
  <2>4. boot # "opening" /\ boot' # "opening"
    BY <2>2 DEF ReadersInv, Wake
  <2>5. Seeking' = Seeking
    BY <2>1, <2>4 DEF Seeking, Wake
  <2> QED BY <2>3, <2>4, <2>5 DEF ReadersInv, Room
<1> QED BY <1>1, <1>2

\* A connection is opened: the room there was is taken.
LEMMA MoreReaders ==
    ASSUME ReadersInv, IdsInv', BootOpen \/ ReconnectOpen
    PROVE  ReadersInv'
<1> USE DEF connecting
<1>1. OpenSocket /\ Seeking /\ UNCHANGED timeouts
  BY DEF BootOpen, ReconnectOpen, OpenSocket, Seeking
<1>2. ~Seeking' /\ boot' # "opening"
  BY DEF BootOpen, ReconnectOpen, Seeking, AfterOpen, ReadersInv
<1>3. ws' \in Sockets /\ ws' # 0 /\ reader \in [Sockets -> 0 .. MaxSockets]
  BY <1>1, BoundsAssumption DEF OpenSocket, ReadersInv, IdsInv, Sockets
<1>4. Reading' = Reading \union {ws'}
  BY <1>1, <1>3 DEF OpenSocket, Reading
<1>5. Cardinality(Reading') <= Cardinality(Reading) + 1
  BY <1>4, FS_AddElement, ReadingFinite
<1>6. Cardinality(Reading) <= timeouts /\ timeouts \in Nat
  BY <1>1, RoomIs DEF ReadersInv
<1>7. Room' = timeouts + 1
  BY <1>1, <1>2, <1>6, RoomIs
<1>8. Cardinality(Reading') <= Room'
  BY <1>5, <1>6, <1>7, ReadingFinite
<1> QED BY <1>1, <1>2, <1>6, <1>8 DEF ReadersInv

\* The other steps of connect(); a timeout pays for the reader it leaves behind.
LEMMA ConnectReaders ==
    ASSUME ReadersInv, IdsInv', Connect
    PROVE  ReadersInv'
<1> USE DEF network, connecting, flags
<1>1. CASE BootOpen \/ ReconnectOpen
  BY <1>1, MoreReaders
<1>2. CASE BootFails
  <2>1. boot = "opening" /\ boot' = "failed" /\ UNCHANGED <<rc, timeouts, reader, ws>>
    BY <1>2 DEF BootFails, ConnectFails
  <2>2. Reading' = Reading /\ ~Seeking' /\ Seeking
    BY <2>1 DEF Reading, Seeking, ReadersInv
  <2>3. timeouts \in Nat /\ Cardinality(Reading) <= timeouts /\ Room' = timeouts + 1
    BY <2>1, <2>2, RoomIs DEF ReadersInv
  <2>4. Cardinality(Reading') <= Room'
    BY <2>2, <2>3, ReadingFinite
  <2> QED BY <2>1, <2>3, <2>4 DEF ReadersInv
<1>3. CASE ReconnectFails
  <2>1. rc = "opening" /\ UNCHANGED <<boot, timeouts, reader, ws>>
    BY <1>3 DEF ReconnectFails, ConnectFails
  <2>2. boot # "opening" /\ Reading' = Reading /\ Seeking
    BY <2>1 DEF Reading, Seeking, ReadersInv
  <2>3. timeouts \in Nat /\ Cardinality(Reading) <= timeouts
        /\ (Room' = timeouts \/ Room' = timeouts + 1)
    BY <2>1, <2>2, RoomIs DEF ReadersInv
  <2>4. Cardinality(Reading') <= Room'
    BY <2>2, <2>3, ReadingFinite
  <2> QED BY <2>1, <2>2, <2>3, <2>4 DEF ReadersInv
<1>4. CASE AuthTimeout
  <2>1. timeouts' = timeouts + 1 /\ UNCHANGED <<reader, ws>> /\ boot # "opening" /\ boot' # "opening"
    BY <1>4 DEF AuthTimeout, ConnectFails, ReadersInv
  <2>2. timeouts \in Nat /\ Cardinality(Reading) <= timeouts + 1 /\ Reading' = Reading
    <3>1. timeouts \in Nat /\ Cardinality(Reading) <= Room /\ Reading' = Reading
      BY <2>1 DEF ReadersInv, Reading
    <3> QED BY <3>1, RoomIs, ReadingFinite
  <2>3. timeouts' \in Nat /\ (Room' = timeouts + 1 \/ Room' = timeouts + 1 + 1)
    BY <2>1, <2>2, RoomIs
  <2>4. Cardinality(Reading') <= Room'
    BY <2>2, <2>3, ReadingFinite
  <2> QED BY <2>1, <2>3, <2>4 DEF ReadersInv
<1>5. CASE Woken
  <2>1. UNCHANGED <<timeouts, reader, ws>> /\ boot' # "opening" /\ boot # "opening"
        /\ Seeking' = Seeking
    BY <1>5 DEF Woken, Seeking, ReadersInv
  <2> QED BY <2>1 DEF ReadersInv, Reading, Room
<1>6. CASE Retry
  <2>1. rc = "sleep" /\ UNCHANGED <<timeouts, reader, ws, boot>>
    BY <1>6 DEF Retry, DropHandlers
  <2>2. boot # "opening" /\ Reading' = Reading /\ Seeking
    BY <2>1 DEF ReadersInv, Reading, Seeking
  <2>3. timeouts \in Nat /\ Cardinality(Reading) <= timeouts
        /\ (Room' = timeouts \/ Room' = timeouts + 1)
    BY <2>1, <2>2, RoomIs DEF ReadersInv
  <2>4. Cardinality(Reading') <= Room'
    BY <2>2, <2>3, ReadingFinite
  <2> QED BY <2>1, <2>2, <2>3, <2>4 DEF ReadersInv
<1> QED BY <1>1, <1>2, <1>3, <1>4, <1>5, <1>6 DEF Connect

LEMMA ReadersStep ==
    ASSUME ReadersInv, [Next]_vars
    PROVE  ReadersInv'
<1> USE DEF network, wire, flags, connecting
<1>1. IdsInv'
  BY IdsStep DEF ReadersInv
<1>2. CASE UNCHANGED vars
  BY <1>1, <1>2, SameReaders DEF vars
<1>3. ASSUME NEW t, Command(t) PROVE ReadersInv'
  <2>1. UNCHANGED <<reader, boot, rc, ws, timeouts>>
    BY <1>3 DEF Command, Refuse, SendFails, Send, Timeout
  <2> QED BY <1>1, <2>1, SameReaders
<1>4. ASSUME NEW r \in Sockets, Hear(r) \/ Converse(r) PROVE ReadersInv'
  <2>1. /\ reader[r] # 0 /\ boot' \in {boot, Wake(boot)} /\ UNCHANGED <<ws, timeouts>>
        /\ \E step \in {rc, Wake(rc)} : \/ Teardown(r, step)
                                        \/ \E ok, event : LoopAgain(r, ok, event, step)
    BY <1>4 DEF Hear, Converse, ReadAuthRequired, ReadAuthOk, ReadAuthInvalid, ReadClosed,
                ReadAnswer, ReadPong, Answered, Expects
  <2> QED BY <1>1, <2>1, FewerReaders, ReadersGoOn
<1>5. ASSUME NEW s, Lose(s) PROVE ReadersInv'
  <2>1. UNCHANGED <<reader, boot, rc, ws, timeouts>>
    BY <1>5 DEF Lose
  <2> QED BY <1>1, <2>1, SameReaders
<1>6. CASE Connect
  BY <1>1, <1>6, ConnectReaders
<1>7. CASE Stop
  <2>1. CASE CloseSocket \/ CancelAll
    <3>1. UNCHANGED <<reader, boot, rc, ws, timeouts>>
      BY <2>1 DEF CloseSocket, CancelAll
    <3> QED BY <1>1, <3>1, SameReaders
  <2>2. CASE Disconnect
    <3>1. UNCHANGED <<reader, boot, ws, timeouts>> /\ boot = "up"
          /\ (Seeking' => Seeking)
      BY <2>2 DEF Disconnect, Seeking, Running, ConnectSteps
    <3>2. timeouts \in Nat /\ Cardinality(Reading) <= Room /\ Reading' = Reading
      BY <3>1 DEF ReadersInv, Reading
    <3>3. Room' = Room \/ (Room' = timeouts + 1 /\ (Room = timeouts \/ Room = timeouts + 1))
      <4>1. CASE Seeking' <=> Seeking
        BY <3>1, <4>1 DEF Room
      <4>2. CASE ~Seeking'
        BY <3>1, <3>2, <4>2, RoomIs
      <4> QED BY <3>1, <4>1, <4>2
    <3>4. Cardinality(Reading') <= Room'
      BY <3>2, <3>3, ReadingFinite
    <3> QED BY <1>1, <3>1, <3>2, <3>4 DEF ReadersInv
  <2> QED BY <1>7, <2>1, <2>2 DEF Stop
<1> QED BY <1>2, <1>3, <1>4, <1>5, <1>6, <1>7 DEF Next

\* Readers of past connections are as many as authentications have timed out
\* (_process_messages of a connection that connect() gave up), for any number of
\* them and of connections.
THEOREM ReadersAreBounded == Spec => []ReadersBounded
<1>1. Init => ReadersInv
  <2> SUFFICES ASSUME Init PROVE ReadersInv
    OBVIOUS
  <2>1. IdsInv
    BY BoundsAssumption DEF Init, IdsInv, NothingBeforeFirst, CounterAhead, IdsIncrease
  <2>2. Reading = {}
    BY DEF Init, Reading
  <2>3. Cardinality(Reading) = 0 /\ Room = 0
    BY <2>2, FS_EmptySet DEF Init, Room, Seeking
  <2> QED BY <2>1, <2>3 DEF Init, ReadersInv
<1>2. ReadersInv /\ [Next]_vars => ReadersInv'
  BY ReadersStep
<1>3. ReadersInv => ReadersBounded
  <2>1. ReadersInv => timeouts \in Nat /\ (Room = timeouts \/ Room = timeouts + 1)
    BY RoomIs DEF ReadersInv
  <2> QED BY <2>1, ReadingFinite DEF ReadersInv, ReadersBounded, Reading
<1> QED BY <1>1, <1>2, <1>3, PTL DEF Spec
-----------------------------------------------------------------------------
(***************************************************************************)
(* Who is answered: an id is waited for by the task that sent it only.     *)
(***************************************************************************)
\* Where a task goes on: with a command of its own, or it is over.
LEMMA ResumedIs ==
    ASSUME TypeOK, NEW t \in Tasks, NEW end
    PROVE  /\ Resumed(t, end) \in Task
           /\ \/ Resumed(t, end).step = "ended"
              \/ Resumed(t, end).step = "sending" /\ Resumed(t, end).what # "none"
<1> DEFINE next == NextCommand(t, task[t].what, end)
<1>1. next \in {"none", "subscribe", "states"}
  BY DEF NextCommand
<1>2. task[t] \in Task
  BY DEF TypeOK
<1> HIDE DEF next
<1>3. Resumed(t, end) = IF next = "none"
                        THEN [task[t] EXCEPT !.step = "ended", !.id = 0,
                                             !.end = IF end = "ok" THEN "ok" ELSE "failed"]
                        ELSE [task[t] EXCEPT !.step = "sending", !.what = next, !.id = 0]
  BY DEF Resumed, next
<1> DEFINE outcome == IF end = "ok" THEN "ok" ELSE "failed"
<1>4. outcome \in {"none", "ok", "failed"}
  OBVIOUS
<1> HIDE DEF outcome
<1>5. CASE next = "none"
  <2>1. Resumed(t, end) = [task[t] EXCEPT !.step = "ended", !.id = 0, !.end = outcome]
    BY <1>3, <1>5 DEF outcome
  <2> DEFINE m == [task[t] EXCEPT !.step = "ended", !.id = 0, !.end = outcome]
  <2>2. m \in Task
    BY ONLY <1>2, <1>4 DEF Task
  <2>3. m.step = "ended"
    BY ONLY <1>2 DEF Task
  <2> QED BY <2>1, <2>2, <2>3
<1>6. CASE next # "none"
  <2>1. Resumed(t, end) = [task[t] EXCEPT !.step = "sending", !.what = next, !.id = 0]
    BY <1>3, <1>6
  <2>2. next \in Commands \union {"none"}
    BY <1>1 DEF Commands
  <2> DEFINE m == [task[t] EXCEPT !.step = "sending", !.what = next, !.id = 0]
  <2>3. m \in Task
    BY ONLY <1>2, <2>2 DEF Task
  <2>4. m.step = "sending" /\ m.what = next
    BY ONLY <1>2 DEF Task
  <2> QED BY <1>6, <2>1, <2>3, <2>4
<1> QED BY <1>5, <1>6

\* A step of one task.
LEMMA OneMoves ==
    ASSUME TypeOK, NEW t \in Tasks, NEW k \in Task, task' = [task EXCEPT ![t] = k]
    PROVE  /\ task' \in [Tasks -> Task] /\ task'[t] = k
           /\ \A u \in Tasks \ {t} : task'[u] = task[u]
BY DEF TypeOK

\* The steps of send_command keep the types.
LEMMA CommandTyped ==
    ASSUME CallersInv, NEW t \in Tasks, Command(t)
    PROVE  TypeOK'
<1> USE DEF network, wire, flags, connecting
<1> TypeOK /\ lastId \in Nat /\ handlers \subseteq Nat \X Tasks /\ task[t] \in Task
  BY DEF CallersInv, TypeOK
<1>1. CASE Refuse(t)
  <2>1. task' \in [Tasks -> Task]
    BY <1>1, ResumedIs, OneMoves DEF Refuse
  <2> QED BY <1>1, <2>1 DEF Refuse, TypeOK
<1>2. CASE SendFails(t)
  <2>1. task' \in [Tasks -> Task]
    BY <1>2, ResumedIs, OneMoves DEF SendFails
  <2> QED BY <1>2, <2>1 DEF SendFails, TypeOK
<1>3. CASE Timeout(t)
  <2>1. task' \in [Tasks -> Task]
    BY <1>3, ResumedIs, OneMoves DEF Timeout
  <2> QED BY <1>3, <2>1 DEF Timeout, TypeOK, Without
<1>4. CASE Send(t)
  <2>1. lastId' \in Nat
    BY <1>4 DEF Send
  <2>2. [id |-> lastId', what |-> task[t].what] \in Request
    BY <1>4, <2>1 DEF Send, CallersInv, IdsApart, Request, Task
  <2>3. [task[t] EXCEPT !.step = "waiting", !.id = lastId'] \in Task
    BY <2>1 DEF Task
  <2>4. task' \in [Tasks -> Task]
    BY <1>4, <2>3, OneMoves DEF Send
  <2>5. asked' \in [Sockets -> SUBSET Request]
    <3>1. asked \in [Sockets -> SUBSET Request]
      BY DEF TypeOK
    <3> QED BY <1>4, <2>2, <3>1 DEF Send
  <2>6. handlers' \subseteq Nat \X Tasks
    BY <1>4, <2>1 DEF Send, Without
  <2>7. lastOn' \in [Sockets -> Nat] /\ misnumbered' \subseteq Sockets /\ subscribed' \subseteq Sockets
    <3>1. ws \in Sockets
      BY <1>4, BoundsAssumption DEF Send, CallersInv, IdsInv, NothingBeforeFirst, Sockets
    <3> QED BY <1>4, <2>1, <3>1 DEF Send, Numbered, TypeOK
  <2>8. /\ sock' = sock /\ ha' = ha /\ connected' = connected /\ authOK' = authOK
        /\ authEvent' = authEvent /\ ws' = ws /\ statesKnown' = statesKnown /\ boot' = boot
        /\ rc' = rc /\ attempt' = attempt /\ timeouts' = timeouts /\ reader' = reader /\ down' = down
    BY <1>4 DEF Send
  <2> QED BY ONLY TypeOK, <2>1, <2>4, <2>5, <2>6, <2>7, <2>8 DEF TypeOK
<1> QED BY <1>1, <1>2, <1>3, <1>4 DEF Command

\* The end of a turn of the reader, and the steps of the reader.
LEMMA LoopTyped ==
    ASSUME CallersInv, NEW r \in Sockets, NEW ok \in BOOLEAN, NEW event \in BOOLEAN,
           NEW step \in {rc, Wake(rc)},
           LoopAgain(r, ok, event, step) \/ Teardown(r, step)
    PROVE  /\ connected' \in BOOLEAN /\ authOK' \in BOOLEAN /\ authEvent' \in BOOLEAN
           /\ rc' \in Running \union {"none", "done", "gave_up"}
           /\ attempt' \in 0 .. MaxAttempts
           /\ reader' \in [Sockets -> 0 .. MaxSockets]
           /\ rc' \in Running => AttemptsLeft(attempt')
<1>1. /\ connected \in BOOLEAN /\ rc \in Running \union {"none", "done", "gave_up"}
      /\ attempt \in 0 .. MaxAttempts /\ reader \in [Sockets -> 0 .. MaxSockets]
      /\ ws \in 0 .. MaxSockets /\ (rc \in Running => AttemptsLeft(attempt))
  BY DEF CallersInv, TypeOK
<1>2. /\ step \in Running \union {"none", "done", "gave_up"}
      /\ (step \in Running <=> rc \in Running)
  BY <1>1 DEF Wake, Running, ConnectSteps
<1>3. 0 \in 0 .. MaxAttempts /\ AttemptsLeft(0) /\ 0 \in 0 .. MaxSockets /\ "sleep" \in Running
  BY BoundsAssumption DEF AttemptsLeft, Running
<1>4. CASE Teardown(r, step)
  BY <1>1, <1>2, <1>3, <1>4 DEF Teardown, ReaderEnds, ClearFlags
<1>5. CASE LoopAgain(r, ok, event, step) /\ ~Teardown(r, step)
  BY <1>1, <1>2, <1>3, <1>5 DEF LoopAgain
<1> QED BY <1>4, <1>5

LEMMA HearTyped ==
    ASSUME CallersInv, NEW r \in Sockets, Hear(r) \/ Converse(r)
    PROVE  TypeOK' /\ (rc' \in Running => AttemptsLeft(attempt'))
<1> USE DEF network, wire, flags, connecting
<1> TypeOK
  BY DEF CallersInv
<1>0. authOK \in BOOLEAN /\ authEvent \in BOOLEAN /\ lastId \in Nat
  BY DEF TypeOK
<1> DEFINE Looped == 
      /\ connected' \in BOOLEAN /\ authOK' \in BOOLEAN /\ authEvent' \in BOOLEAN
      /\ rc' \in Running \union {"none", "done", "gave_up"}
      /\ attempt' \in 0 .. MaxAttempts
      /\ reader' \in [Sockets -> 0 .. MaxSockets]
      /\ rc' \in Running => AttemptsLeft(attempt')
<1>1. CASE ReadAuthRequired(r)
  <2>1. Looped
    BY <1>0, <1>1, LoopTyped DEF ReadAuthRequired
  <2>2. ha' \in [Sockets -> {"greet", "judge", "ready", "refused"}]
    BY <1>1 DEF ReadAuthRequired, TypeOK
  <2> QED BY <1>1, <2>1, <2>2 DEF ReadAuthRequired, TypeOK
<1>2. ASSUME ReadAuthOk(r) \/ ReadAuthInvalid(r)
      PROVE  /\ Looped
             /\ ha' \in [Sockets -> {"greet", "judge", "ready", "refused"}]
             /\ boot' \in ConnectSteps \union {"up", "failed"}
  <2>1. Looped
    BY <1>0, <1>2, LoopTyped DEF ReadAuthOk, ReadAuthInvalid
  <2>2. ha' \in [Sockets -> {"greet", "judge", "ready", "refused"}]
    BY <1>2 DEF ReadAuthOk, ReadAuthInvalid, TypeOK
  <2>3. boot' = Wake(boot)
    BY <1>2 DEF ReadAuthOk, ReadAuthInvalid
  <2>4. boot' \in ConnectSteps \union {"up", "failed"}
    BY <2>3 DEF TypeOK, Wake, ConnectSteps
  <2> QED BY <2>1, <2>2, <2>4
<1>3. CASE ReadAuthOk(r)
  <2>2. PICK k \in Task : task' = [task EXCEPT ![reader[r]] = k]
    <3>1. reader[r] \in Tasks
      BY <1>3, BoundsAssumption DEF ReadAuthOk, Expects, Tasks, Sockets, TypeOK
    <3>2. task[reader[r]] \in Task
      BY <3>1 DEF TypeOK
    <3>3. [task[reader[r]] EXCEPT !.step = "sending", !.what = "registry"] \in Task
      BY <3>2 DEF Task, Commands
    <3> QED BY <1>3, <3>3 DEF ReadAuthOk
  <2>3. task' \in [Tasks -> Task]
    BY <2>2 DEF TypeOK
  <2>4. lastId' \in Nat /\ lastOn' \in [Sockets -> Nat] /\ misnumbered' \subseteq Sockets
    <3>1. IdsInv'
      BY IdsStep DEF CallersInv, Next
    <3> QED BY <3>1 DEF IdsInv, IdsIncrease
  <2> QED BY <1>2, <1>3, <2>3, <2>4 DEF ReadAuthOk, TypeOK
<1>4. CASE ReadAuthInvalid(r)
  BY <1>2, <1>4 DEF ReadAuthInvalid, TypeOK
<1>5. CASE ReadClosed(r)
  <2>1. Looped
    BY <1>0, <1>5, LoopTyped DEF ReadClosed
  <2> QED BY <1>5, <2>1 DEF ReadClosed, TypeOK
<1>6. ASSUME NEW m, Answered(r, m)
      PROVE  /\ Looped /\ asked' \in [Sockets -> SUBSET Request]
             /\ UNCHANGED <<sock, ha, lastOn, misnumbered, subscribed, ws, lastId, boot, timeouts, down>>
  <2>1. Looped
    BY <1>0, <1>6, LoopTyped DEF Answered
  <2>2. asked \in [Sockets -> SUBSET Request]
    BY DEF TypeOK
  <2>3. asked' \in [Sockets -> SUBSET Request]
    BY <1>6, <2>2 DEF Answered
  <2> QED BY <1>6, <2>1, <2>3 DEF Answered
<1>7. ASSUME NEW m, ReadPong(r, m) PROVE TypeOK' /\ Looped
  BY <1>6, <1>7 DEF ReadPong, TypeOK
<1>8. ASSUME NEW m, NEW end, ReadAnswer(r, m, end) PROVE TypeOK' /\ Looped
  <2>1. task' \in [Tasks -> Task]
    <3>1. \A t \in Tasks : task[t] \in Task
      BY DEF TypeOK
    <3> QED BY <1>8, <3>1, ResumedIs DEF ReadAnswer
  <2>2. statesKnown' \in BOOLEAN
    BY <1>8 DEF ReadAnswer
  <2>3. handlers' \subseteq Nat \X Tasks
    BY <1>8 DEF ReadAnswer, Without, TypeOK
  <2> QED BY <1>6, <1>8, <2>1, <2>2, <2>3 DEF ReadAnswer, TypeOK
<1> QED BY <1>1, <1>2, <1>3, <1>4, <1>5, <1>7, <1>8 DEF Hear, Converse

\* The steps of connect(): a loop that goes on has an attempt left.
LEMMA ConnectTyped ==
    ASSUME CallersInv, Connect
    PROVE  TypeOK' /\ (rc' \in Running => AttemptsLeft(attempt'))
<1> USE DEF network, wire, flags, connecting
<1> TypeOK
  BY DEF CallersInv
<1>1. /\ boot \in ConnectSteps \union {"up", "failed"} /\ authEvent \in BOOLEAN
      /\ rc \in Running \union {"none", "done", "gave_up"} /\ attempt \in 0 .. MaxAttempts
      /\ ws \in 0 .. MaxSockets /\ timeouts \in 0 .. MaxAuthTimeouts
      /\ rc \in Running => AttemptsLeft(attempt)
  BY DEF TypeOK, CallersInv
<1>2. AfterOpen \in ConnectSteps
  BY DEF AfterOpen, ConnectSteps
<1>3. ASSUME OpenSocket
      PROVE  /\ ws' \in 0 .. MaxSockets /\ sock' \in [Sockets -> {"new", "open", "closed"}]
             /\ reader' \in [Sockets -> 0 .. MaxSockets] /\ connected' \in BOOLEAN
  <2>1. ws' \in 0 .. MaxSockets
    BY <1>1, <1>3, BoundsAssumption DEF OpenSocket
  <2> QED BY <1>3, <2>1 DEF OpenSocket, TypeOK
<1>4. ASSUME FailedAttempt, rc \in Running
      PROVE  /\ attempt' \in 0 .. MaxAttempts /\ rc' \in Running \union {"none", "done", "gave_up"}
             /\ rc' \in Running => AttemptsLeft(attempt')
  BY <1>1, <1>4, BoundsAssumption DEF FailedAttempt, AttemptsLeft, Running, ConnectSteps
<1>5. CASE BootOpen
  <2>1. boot' \in ConnectSteps \union {"up", "failed"}
    BY <1>2, <1>5 DEF BootOpen
  <2> QED BY <1>1, <1>3, <1>5, <2>1 DEF BootOpen, OpenSocket, TypeOK
<1>6. CASE ReconnectOpen
  <2>1. rc' \in Running /\ rc \in Running
    BY <1>2, <1>6 DEF ReconnectOpen, Running, ConnectSteps
  <2> QED BY <1>1, <1>3, <1>6, <2>1 DEF ReconnectOpen, OpenSocket, TypeOK
<1>7. CASE BootFails
  BY <1>1, <1>7 DEF BootFails, ConnectFails, TypeOK
<1>8. CASE ReconnectFails
  <2>1. rc \in Running
    BY <1>8 DEF ReconnectFails, Running, ConnectSteps
  <2> QED BY <1>4, <1>8, <2>1 DEF ReconnectFails, ConnectFails, TypeOK
<1>9. CASE AuthTimeout
  <2>1. timeouts' \in 0 .. MaxAuthTimeouts
    BY <1>1, <1>9, BoundsAssumption DEF AuthTimeout
  <2>2. CASE boot = "auth_wait" /\ boot' = "failed" /\ UNCHANGED <<rc, attempt>>
    BY <1>1, <1>9, <2>1, <2>2 DEF AuthTimeout, ConnectFails, TypeOK
  <2>3. CASE rc = "auth_wait" /\ FailedAttempt /\ UNCHANGED boot
    <3>1. rc \in Running
      BY <2>3 DEF Running, ConnectSteps
    <3> QED BY <1>4, <1>9, <2>1, <2>3, <3>1 DEF AuthTimeout, ConnectFails, TypeOK
  <2> QED BY <1>9, <2>2, <2>3 DEF AuthTimeout
<1>10. CASE Woken
  <2>1. /\ boot' \in ConnectSteps \union {"up", "failed"}
        /\ rc' \in Running \union {"none", "done", "gave_up"}
        /\ rc' \in Running => rc \in Running
    BY <1>1, <1>10 DEF Woken, Running, ConnectSteps
  <2> QED BY <1>1, <1>10, <2>1 DEF Woken, TypeOK
<1>11. CASE Retry
  <2>1. rc \in Running /\ rc' \in Running \union {"none", "done", "gave_up"}
    BY <1>11 DEF Retry, DropHandlers, Running, ConnectSteps
  <2> QED BY <1>1, <1>11, <2>1 DEF Retry, DropHandlers, TypeOK
<1> QED BY <1>5, <1>6, <1>7, <1>8, <1>9, <1>10, <1>11 DEF Connect

\* disconnect() takes its turn, or a connection breaks.
LEMMA StopTyped ==
    ASSUME CallersInv, Stop \/ \E s \in Sockets : Lose(s)
    PROVE  TypeOK' /\ (rc' \in Running => AttemptsLeft(attempt'))
<1> USE DEF network, wire, flags, connecting
<1> TypeOK
  BY DEF CallersInv
<1>1. rc \in Running => AttemptsLeft(attempt)
  BY DEF CallersInv
<1>2. ASSUME NEW s, CloseEnd(s)
      PROVE  /\ sock' \in [Sockets -> {"new", "open", "closed"}]
             /\ asked' \in [Sockets -> SUBSET Request] /\ lastOn' \in [Sockets -> Nat]
             /\ subscribed' \subseteq Sockets
  BY <1>2 DEF CloseEnd, TypeOK
<1>3. CASE Disconnect
  <2>1. rc' \in Running \union {"none", "done", "gave_up"} /\ rc' \notin Running
    BY <1>3 DEF Disconnect, Running, ConnectSteps, TypeOK
  <2> QED BY <1>3, <2>1 DEF Disconnect, TypeOK
<1>4. CASE CloseSocket
  BY <1>1, <1>2, <1>4 DEF CloseSocket, TypeOK
<1>5. CASE CancelAll
  <2>1. task' \in [Tasks -> Task]
    <3>1. \A t \in Tasks : task[t] \in Task
      BY DEF TypeOK
    <3> QED BY <1>5, <3>1, ResumedIs DEF CancelAll
  <2> QED BY <1>1, <1>5, <2>1 DEF CancelAll, TypeOK
<1>6. CASE \E s \in Sockets : Lose(s)
  BY <1>1, <1>2, <1>6 DEF Lose, TypeOK
<1> QED BY <1>3, <1>4, <1>5, <1>6 DEF Stop

\* A step that lets nobody begin to wait, and asks for nothing.
LEMMA NothingSent ==
    ASSUME CallersInv, lastId' \in Nat, lastId' >= lastId, TypeOK',
           \A t \in Tasks : /\ Waits(t)' => Waits(t) /\ task'[t] = task[t]
                            /\ task'[t].step = "sending" => task'[t].what # "none",
           \A s \in Sockets : asked'[s] \subseteq asked[s]
    PROVE  IdsApart'
<1>1. lastId \in Nat /\ (\A t \in Tasks : task[t].id \in Nat)
      /\ \A s \in Sockets : \A m \in asked[s] : m.id \in Nat
  BY DEF CallersInv, TypeOK, Task, Request
<1>2. AnswersGetBack'
  BY DEF CallersInv, IdsApart, AnswersGetBack, Waits
<1>3. ASSUME NEW t \in Tasks, Waits(t)' PROVE task'[t].id <= lastId'
  <2>1. task'[t].id \in Nat /\ task'[t].id <= lastId
    BY <1>1, <1>3 DEF CallersInv, IdsApart
  <2> QED BY <1>1, <2>1
<1>4. ASSUME NEW s \in Sockets, NEW m \in asked'[s] PROVE m.id <= lastId'
  <2>1. m.id \in Nat /\ m.id <= lastId
    BY <1>1 DEF CallersInv, IdsApart
  <2> QED BY <1>1, <2>1
<1> QED BY <1>2, <1>3, <1>4 DEF IdsApart

\* What is sent has an id of its own.
LEMMA SendApart ==
    ASSUME CallersInv, NEW t \in Tasks, Send(t), TypeOK'
    PROVE  IdsApart'
<1>1. lastId \in Nat /\ lastId' = lastId + 1
      /\ (\A u \in Tasks : task[u].id \in Nat)
      /\ \A s \in Sockets : \A m \in asked[s] : m.id \in Nat
  BY DEF CallersInv, TypeOK, Task, Request, Send
<1> DEFINE new == [id |-> lastId', what |-> task[t].what]
<1>2. /\ task'[t].step = "waiting" /\ task'[t].id = lastId' /\ task'[t].what = task[t].what
      /\ \A u \in Tasks \ {t} : task'[u] = task[u]
  BY DEF Send, CallersInv, TypeOK, Task
<1>3. \A s \in Sockets : asked'[s] \subseteq asked[s] \union {new}
  BY DEF Send, CallersInv, TypeOK
<1>4. \A u \in Tasks : Waits(u) => task[u].id <= lastId /\ task[u].id # lastId'
  BY <1>1 DEF CallersInv, IdsApart
<1>5. \A s \in Sockets : \A m \in asked[s] : m.id <= lastId /\ m.id # lastId'
  BY <1>1 DEF CallersInv, IdsApart
<1>6. ASSUME NEW u \in Tasks, NEW v \in Tasks, Waits(u)', Waits(v)', task'[u].id = task'[v].id
      PROVE  u = v
  <2>1. \A w \in Tasks \ {t} : Waits(w)' => Waits(w)
    BY <1>2 DEF Waits
  <2>2. CASE u = t \/ v = t
    BY <1>2, <1>4, <1>6, <2>1, <2>2
  <2>3. CASE u # t /\ v # t
    BY <1>2, <1>6, <2>1, <2>3 DEF CallersInv, IdsApart, AnswersGetBack
  <2> QED BY <2>2, <2>3
<1>7. ASSUME NEW s \in Sockets, NEW m \in asked'[s], NEW u \in Tasks, Waits(u)', task'[u].id = m.id
      PROVE  task'[u].what = m.what
  <2>1. new.id = lastId' /\ new.what = task[t].what
    OBVIOUS
  <2>2. m \in asked[s] \/ m = new
    BY <1>3
  <2> HIDE DEF new
  <2>3. CASE u = t
    BY <1>2, <1>5, <1>7, <2>1, <2>2, <2>3
  <2>4. CASE u # t
    <3>1. Waits(u) /\ task'[u] = task[u]
      BY <1>2, <1>7, <2>4 DEF Waits
    <3>2. m \in asked[s]
      BY <1>4, <1>7, <2>1, <2>2, <3>1
    <3> QED BY <1>7, <3>1, <3>2 DEF CallersInv, IdsApart, AnswersGetBack
  <2> QED BY <2>3, <2>4
<1>8. ASSUME NEW u \in Tasks, Waits(u)' PROVE task'[u].id <= lastId'
  <2>1. CASE u = t
    BY <1>1, <1>2, <2>1
  <2>2. CASE u # t
    <3>1. Waits(u) /\ task'[u] = task[u]
      BY <1>2, <1>8, <2>2 DEF Waits
    <3>2. task[u].id <= lastId /\ task[u].id \in Nat
      BY <1>1, <1>4, <3>1
    <3> QED BY <1>1, <3>1, <3>2
  <2> QED BY <2>1, <2>2
<1>9. ASSUME NEW s \in Sockets, NEW m \in asked'[s] PROVE m.id <= lastId'
  <2>1. m \in asked[s] \/ m.id = lastId'
    BY <1>3
  <2>2. CASE m \in asked[s]
    <3>1. m.id \in Nat /\ m.id <= lastId
      BY <1>1, <1>5, <2>2
    <3> QED BY <1>1, <3>1
  <2> QED BY <1>1, <2>1, <2>2
<1>10. \A u \in Tasks : task'[u].step = "sending" => task'[u].what # "none"
  BY <1>2 DEF CallersInv, IdsApart
<1>11. AnswersGetBack'
  BY <1>6, <1>7 DEF AnswersGetBack
<1> QED BY <1>8, <1>9, <1>10, <1>11 DEF IdsApart

\* CallersInv is inductive.
LEMMA CallersStep == CallersInv /\ [Next]_vars => CallersInv'
<1> USE DEF network, wire, flags, connecting
<1> SUFFICES ASSUME CallersInv, [Next]_vars PROVE CallersInv'
  OBVIOUS
<1>1. IdsInv'
  BY IdsStep DEF CallersInv
<1>2. TypeOK' /\ (rc' \in Running => AttemptsLeft(attempt'))
  <2>1. ASSUME NEW t \in Tasks, Command(t) PROVE UNCHANGED <<rc, attempt>>
    BY <2>1 DEF Command, Refuse, SendFails, Send, Timeout
  <2>2. CASE \E t \in Tasks : Command(t)
    BY <2>1, <2>2, CommandTyped DEF CallersInv
  <2>3. CASE UNCHANGED vars
    BY <2>3 DEF vars, CallersInv, TypeOK
  <2> QED BY <2>2, <2>3, HearTyped, ConnectTyped, StopTyped DEF Next
<1>3. lastId' \in Nat /\ lastId \in Nat /\ \A t \in Tasks : task[t] \in Task
  BY <1>1 DEF CallersInv, IdsInv, TypeOK
<1>4. ASSUME lastId' = lastId, asked' = asked, task' = task PROVE IdsApart'
  <2>1. \A t \in Tasks : task[t].step = "sending" => task[t].what # "none"
    BY DEF CallersInv, IdsApart
  <2> QED BY <1>2, <1>3, <1>4, <2>1, NothingSent DEF Waits
<1>5. ASSUME UNCHANGED vars PROVE IdsApart'
  BY <1>4, <1>5 DEF vars
<1>6. ASSUME Connect PROVE IdsApart'
  BY <1>4, <1>6 DEF Connect, BootOpen, ReconnectOpen, OpenSocket, BootFails, ReconnectFails,
                    ConnectFails, AuthTimeout, Woken, Retry, DropHandlers
<1>7. ASSUME NEW t \in Tasks, NEW end, task' = [task EXCEPT ![t] = Resumed(t, end)],
             lastId' >= lastId, asked' = asked
      PROVE  IdsApart'
  <2>1. Resumed(t, end).step # "waiting"
        /\ (Resumed(t, end).step = "sending" => Resumed(t, end).what # "none")
    BY ResumedIs DEF CallersInv
  <2>2. \A u \in Tasks : task'[u] = IF u = t THEN Resumed(t, end) ELSE task[u]
    BY <1>7 DEF CallersInv, TypeOK
  <2>3. \A u \in Tasks : task[u].step = "sending" => task[u].what # "none"
    BY DEF CallersInv, IdsApart
  <2> QED BY <1>2, <1>3, <1>7, <2>1, <2>2, <2>3, NothingSent DEF Waits
<1>8. ASSUME NEW t \in Tasks, Command(t) PROVE IdsApart'
  <2>1. CASE Refuse(t)
    <3>1. task' = [task EXCEPT ![t] = Resumed(t, "refused")] /\ lastId' = lastId /\ asked' = asked
      BY <2>1 DEF Refuse
    <3>2. lastId' >= lastId
      BY <1>3, <3>1
    <3> QED BY <1>7, <3>1, <3>2
  <2>2. CASE SendFails(t)
    <3>1. task' = [task EXCEPT ![t] = Resumed(t, "error")] /\ lastId' = lastId + 1 /\ asked' = asked
      BY <2>2 DEF SendFails
    <3>2. lastId' >= lastId
      BY <1>3, <3>1
    <3> QED BY <1>7, <3>1, <3>2
  <2>3. CASE Timeout(t)
    <3>1. task' = [task EXCEPT ![t] = Resumed(t, "timeout")] /\ lastId' = lastId /\ asked' = asked
      BY <2>3 DEF Timeout
    <3>2. lastId' >= lastId
      BY <1>3, <3>1
    <3> QED BY <1>7, <3>1, <3>2
  <2> QED BY <1>2, <1>8, <2>1, <2>2, <2>3, SendApart DEF Command
<1>9. ASSUME NEW T \in SUBSET Tasks, NEW end, lastId' = lastId,
             task' = [t \in Tasks |-> IF t \in T THEN Resumed(t, end) ELSE task[t]],
             \A s \in Sockets : asked'[s] \subseteq asked[s]
      PROVE  IdsApart'
  <2>1. \A t \in Tasks : /\ Resumed(t, end).step # "waiting"
                         /\ Resumed(t, end).step = "sending" => Resumed(t, end).what # "none"
    BY ResumedIs DEF CallersInv
  <2>2. \A t \in Tasks : task[t].step = "sending" => task[t].what # "none"
    BY DEF CallersInv, IdsApart
  <2> QED BY <1>2, <1>3, <1>9, <2>1, <2>2, NothingSent DEF Waits
<1>10. ASSUME NEW r \in Sockets, Converse(r) PROVE IdsApart'
  <2>1. PICK m :
             ReadPong(r, m) \/ \E end \in {"ok", "error"} : ReadAnswer(r, m, end)
    BY <1>10 DEF Converse
  <2>2. lastId' = lastId /\ \A q \in Sockets : asked'[q] \subseteq asked[q]
    <3>1. asked' = [asked EXCEPT ![reader[r]] = @ \ {m}] /\ lastId' = lastId
      BY <2>1 DEF ReadPong, ReadAnswer, Answered
    <3> QED BY <3>1 DEF CallersInv, TypeOK
  <2>3. CASE ReadPong(r, m)
    <3>1. task' = task
      BY <2>3 DEF ReadPong
    <3>2. \A t \in Tasks : task[t].step = "sending" => task[t].what # "none"
      BY DEF CallersInv, IdsApart
    <3> QED BY <1>2, <1>3, <2>2, <3>1, <3>2, NothingSent DEF Waits
  <2>4. ASSUME NEW end, ReadAnswer(r, m, end) PROVE IdsApart'
    <3> DEFINE mine == {t \in Tasks : <<m.id, t>> \in handlers /\ task[t].step = "waiting"}
    <3>1. task' = [t \in Tasks |-> IF t \in mine THEN Resumed(t, end) ELSE task[t]]
      BY <2>4 DEF ReadAnswer
    <3> QED BY <1>9, <2>2, <3>1
  <2> QED BY <2>1, <2>3, <2>4
<1>11. ASSUME NEW r \in Sockets, Hear(r) PROVE IdsApart'
  <2>1. CASE ReadAuthRequired(r) \/ ReadAuthInvalid(r) \/ ReadClosed(r)
    BY <1>4, <2>1 DEF ReadAuthRequired, ReadAuthInvalid, ReadClosed
  <2>2. CASE ReadAuthOk(r)
    <3>1. reader[r] \in Tasks /\ asked' = asked
      BY <2>2, BoundsAssumption DEF ReadAuthOk, Expects, Tasks, Sockets, CallersInv, TypeOK
    <3>2. /\ task'[reader[r]].step = "sending" /\ task'[reader[r]].what = "registry"
          /\ \A t \in Tasks \ {reader[r]} : task'[t] = task[t]
      BY <2>2, <3>1 DEF ReadAuthOk, CallersInv, TypeOK, Task
    <3>3. lastId' >= lastId
      BY <1>3, <2>2 DEF ReadAuthOk, NewId
    <3>4. \A t \in Tasks : task[t].step = "sending" => task[t].what # "none"
      BY DEF CallersInv, IdsApart
    <3> QED BY <1>2, <1>3, <3>1, <3>2, <3>3, <3>4, NothingSent DEF Waits
  <2> QED BY <1>11, <2>1, <2>2 DEF Hear
<1>12. ASSUME NEW s, CloseEnd(s), lastId' = lastId, task' = task PROVE IdsApart'
  <2>1. \A q \in Sockets : asked'[q] \subseteq asked[q]
    BY <1>12 DEF CloseEnd, CallersInv, TypeOK
  <2>2. \A t \in Tasks : task[t].step = "sending" => task[t].what # "none"
    BY DEF CallersInv, IdsApart
  <2> QED BY <1>2, <1>3, <1>12, <2>1, <2>2, NothingSent DEF Waits
<1>13. ASSUME Stop PROVE IdsApart'
  <2>1. CASE Disconnect
    BY <1>4, <2>1 DEF Disconnect
  <2>2. CASE CloseSocket
    BY <1>12, <2>2 DEF CloseSocket
  <2>3. CASE CancelAll
    <3> DEFINE T == {t \in Tasks : task[t].step = "waiting" /\ <<task[t].id, t>> \in handlers}
    <3>1. /\ task' = [t \in Tasks |-> IF t \in T THEN Resumed(t, "cancelled") ELSE task[t]]
          /\ lastId' = lastId /\ asked' = asked
      BY <2>3 DEF CancelAll
    <3> QED BY <1>9, <3>1
  <2> QED BY <1>13, <2>1, <2>2, <2>3 DEF Stop
<1>14. ASSUME NEW s, Lose(s) PROVE IdsApart'
  BY <1>12, <1>14 DEF Lose
<1>15. IdsApart'
  BY <1>5, <1>6, <1>8, <1>10, <1>11, <1>13, <1>14 DEF Next
<1> QED BY <1>1, <1>2, <1>15 DEF CallersInv

\* ConnectionSound: whatever connections come and go, whichever timeouts fire and
\* whenever the table of handlers is emptied, everything keeps its type, readers do
\* not pile up (_process_messages), and an answer that is still to come finds at
\* most one caller of send_command, which asked for just that.
THEOREM ConnectionIsSound == Spec => []ConnectionSound
<1>1. Init => CallersInv
  <2> SUFFICES ASSUME Init PROVE CallersInv
    OBVIOUS
  <2>1. IdsInv
    BY BoundsAssumption DEF Init, IdsInv, NothingBeforeFirst, CounterAhead, IdsIncrease
  <2>2. TypeOK
    <3>1. task \in [Tasks -> Task]
      BY DEF Init, Task, Commands
    <3>2. 0 \in 0 .. MaxAttempts /\ 0 \in 0 .. MaxAuthTimeouts /\ 0 \in 0 .. MaxSockets
      BY BoundsAssumption
    <3>3. "opening" \in ConnectSteps
      BY DEF ConnectSteps
    <3> QED BY <3>1, <3>2, <3>3 DEF Init, TypeOK
  <2>3. IdsApart
    BY DEF Init, IdsApart, AnswersGetBack, Waits
  <2>4. rc \notin Running
    BY DEF Init, Running, ConnectSteps
  <2> QED BY <2>1, <2>2, <2>3, <2>4 DEF CallersInv
<1>2. CallersInv => TypeOK /\ AnswersGetBack
  BY DEF CallersInv, IdsApart
<1> QED BY <1>1, <1>2, CallersStep, ReadersAreBounded, PTL DEF Spec, ConnectionSound
=============================================================================

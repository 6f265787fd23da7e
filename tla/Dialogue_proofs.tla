---------------------------- MODULE Dialogue_proofs ----------------------------
(***************************************************************************)
(* HistoryWhole, SessionRemembers, DialogueSound and DevicesSpokenOf are    *)
(* invariants of Dialogue for any number of requests, users, sentences,    *)
(* answers of the parsers and of the resolver, requests at once, entries   *)
(* kept and expiries.                                                      *)
(*                                                                         *)
(* What a session remembers needs that no stored session is taken for      *)
(* "Nothing": the theorems assume of it that it is no record with a        *)
(* session's fields.                                                       *)
(*                                                                         *)
(* The first part (DialogueInv) follows the turns and the history; the     *)
(* second (SpokenInv) what each request was understood to mean, from the   *)
(* words of its sentence through the router to its execution.              *)
(***************************************************************************)
EXTENDS Dialogue, FiniteSetTheorems, SequenceTheorems, TLAPS

Fields == {"kind", "user", "sentence", "heard", "read", "mem", "result", "rest", "seen", "after",
           "code"}

Parts == {"user", "device", "location", "streak", "turns"}

IsSession(m) == DOMAIN m = Parts /\ m.streak \in Nat /\ m.turns \in Nat

\* Once answered a request does not change what it was understood to mean.
Answered == {"entry", "write", "done"}

Afters == {"route", "merge", "low", "success"}

MineOf(read, user) == IF read = Nothing THEN Fresh(user) ELSE [read EXCEPT !.user = user]

\* What is said of one request: where it is, and its variables.
Sound(at, k) ==
    /\ DOMAIN k = Fields
    /\ at \in {"read", "adopt"} => k.after \in Afters
    /\ at \in {"low", "success"} => k.read = k.mem /\ IsSession(k.mem)
    /\ at = "adopt" => /\ k.mem = MineOf(k.read, k.user)
                       /\ k.read # Nothing => IsSession(k.read)
    /\ at = "write" => k.seen \in Seq(Requests)

Jobs ==
    /\ DOMAIN pc = Requests /\ DOMAIN job = Requests
    /\ \A r \in Requests : Sound(pc[r], job[r])

Turn == [req : Requests, low : BOOLEAN]

SessionInv ==
    /\ session # Nothing => IsSession(session)
    /\ turns \in Seq(Turn)
    /\ \A i \in 1 .. Len(turns) : ~turns[i].low => pc[turns[i].req] \in Answered
    /\ LastSuccess \in 0 .. Len(turns)
    /\ LastSuccess # 0 => ~turns[LastSuccess].low
    /\ SessionRemembers

HistoryInv ==
    /\ history \in Seq(Requests) /\ entries \in Seq(Requests)
    /\ HistoryWhole

DialogueInv == Jobs /\ SessionInv /\ HistoryInv

NothingIsNoSession == DOMAIN Nothing # Parts

LEMMA TurnTypes ==
  ASSUME SessionInv
  PROVE  /\ turns \in Seq(Turn) /\ Len(turns) \in Nat /\ DOMAIN turns = 1 .. Len(turns)
         /\ \A i \in 1 .. Len(turns) : turns[i] \in Turn /\ turns[i].req \in Requests
<1>1. turns \in Seq(Turn)
  BY DEF SessionInv
<1>2. Len(turns) \in Nat /\ DOMAIN turns = 1 .. Len(turns)
  BY <1>1, LenProperties
<1>3. \A i \in 1 .. Len(turns) : turns[i] \in Turn
  BY <1>1, ElementOfSeq
<1> QED BY <1>1, <1>2, <1>3 DEF Turn

\* The initial state.
LEMMA DialogueInit == Init => DialogueInv
<1> SUFFICES ASSUME Init PROVE DialogueInv
  OBVIOUS
<1>1. \A r \in Requests : pc[r] = "idle" /\ job[r] = Idle
  BY DEF Init
<1>2. DOMAIN Idle = Fields
  BY DEF Idle, Fields
<1>3. Jobs
  BY <1>1, <1>2 DEF Init, Jobs, Sound
<1>4. turns = <<>> /\ Len(turns) = 0 /\ turns \in Seq(Turn) /\ session = Nothing
  BY EmptySeq DEF Init
<1>5. Successes = {}
  BY <1>4 DEF Successes
<1>6. SessionInv
  BY <1>4, <1>5 DEF SessionInv, LastSuccess, SessionRemembers
<1>7. history = <<>> /\ entries = <<>> /\ Len(history) = 0 /\ history \in Seq(Requests)
  BY EmptySeq DEF Init
<1>8. HistoryInv
  <2>1. MaxHistory \in Nat /\ MaxHistory >= 1
    BY DialogueBounds
  <2>2. DOMAIN history = {}
    BY <1>7
  <2> QED BY <1>7, <2>1, <2>2 DEF HistoryInv, HistoryWhole
<1> QED BY <1>3, <1>6, <1>8 DEF DialogueInv

-----------------------------------------------------------------------------
(***************************************************************************)
(* Steps of one request                                                    *)
(***************************************************************************)
LEMMA OneMoves ==
  ASSUME Jobs, NEW r \in Requests, NEW step, NEW k, To(r, step, k), Sound(step, k)
  PROVE  /\ Jobs'
         /\ \A q \in Requests : /\ pc'[q] = IF q = r THEN step ELSE pc[q]
                                /\ job'[q] = IF q = r THEN k ELSE job[q]
<1>1. \A q \in Requests : /\ pc'[q] = IF q = r THEN step ELSE pc[q]
                          /\ job'[q] = IF q = r THEN k ELSE job[q]
  BY DEF Jobs, To
<1>2. DOMAIN pc' = Requests /\ DOMAIN job' = Requests
  BY DEF Jobs, To
<1> QED BY <1>1, <1>2 DEF Jobs

\* What the session remembers of the last success is still its slots.
LEMMA SameSession ==
  ASSUME SessionInv, UNCHANGED <<session, turns>>, "session" \in torn => "session" \in torn',
         \A q \in Requests : pc[q] \in Answered =>
             pc'[q] \in Answered /\ job'[q].result = job[q].result
  PROVE  SessionInv'
<1>1. Successes' = Successes
  BY DEF Successes
<1>2. LastSuccess' = LastSuccess
  BY <1>1 DEF LastSuccess
<1>3. turns \in Seq(Turn) /\ Len(turns) \in Nat /\ DOMAIN turns = 1 .. Len(turns)
      /\ \A i \in 1 .. Len(turns) : turns[i] \in Turn /\ turns[i].req \in Requests
  BY TurnTypes
<1>4. \A i \in 1 .. Len(turns) : ~turns[i].low =>
        /\ pc'[turns[i].req] \in Answered
        /\ job'[turns[i].req].result = job[turns[i].req].result
  BY <1>3 DEF SessionInv
<1>5. LastSuccess # 0 => LastSuccess \in 1 .. Len(turns) /\ ~turns[LastSuccess].low
  BY <1>3 DEF SessionInv
<1>6. SessionRemembers'
  <2>1. CASE LastSuccess = 0
    BY <1>2, <2>1 DEF SessionInv, SessionRemembers
  <2>2. CASE LastSuccess # 0
    <3>1. job'[turns[LastSuccess].req].result = job[turns[LastSuccess].req].result
      BY <1>4, <1>5, <2>2
    <3> QED BY <1>2, <2>2, <3>1 DEF SessionInv, SessionRemembers
  <2> QED BY <2>1, <2>2
<1> QED BY <1>2, <1>4, <1>6 DEF SessionInv

LEMMA SameHistory ==
  ASSUME HistoryInv, UNCHANGED <<history, entries>>,
         "history" \in torn => "history" \in torn'
  PROVE  HistoryInv'
BY DEF HistoryInv, HistoryWhole

\* A request goes on without touching the store.
LEMMA Quietly ==
  ASSUME DialogueInv, NEW r \in Requests, NEW step, NEW k, To(r, step, k), UNCHANGED store,
         DOMAIN k = Fields, step \notin {"low", "success", "adopt", "write"},
         step = "read" => k.after \in Afters, pc[r] \notin Answered
  PROVE  DialogueInv'
<1>1. Sound(step, k)
  BY DEF Sound
<1>2. Jobs' /\ \A q \in Requests : /\ pc'[q] = IF q = r THEN step ELSE pc[q]
                                   /\ job'[q] = IF q = r THEN k ELSE job[q]
  BY <1>1, OneMoves DEF DialogueInv
<1>3. SessionInv'
  BY <1>2, SameSession DEF DialogueInv, store
<1>4. HistoryInv'
  BY SameHistory DEF DialogueInv, store
<1> QED BY <1>2, <1>3, <1>4 DEF DialogueInv

-----------------------------------------------------------------------------
(***************************************************************************)
(* The session                                                             *)
(***************************************************************************)
LEMMA KeepGetSession ==
  ASSUME DialogueInv, NEW r \in Requests, GetSession(r)
  PROVE  DialogueInv'
<1> DEFINE mem == Mine(job[r].user)
           k == [job[r] EXCEPT !.mem = mem, !.read = session]
           step == IF mem = session THEN job[r].after ELSE "adopt"
<1>1. pc[r] = "read" /\ To(r, step, k) /\ UNCHANGED store
  BY DEF GetSession, At
<1>2. DOMAIN job[r] = Fields /\ job[r].after \in Afters
  BY <1>1 DEF DialogueInv, Jobs, Sound
<1>3. DOMAIN k = Fields /\ k.mem = mem /\ k.read = session /\ k.user = job[r].user
      /\ k.after = job[r].after
  BY <1>2 DEF Fields
<1>4. IsSession(mem) /\ mem = MineOf(session, job[r].user)
  <2>1. CASE session = Nothing
    BY <2>1 DEF Mine, MineOf, Fresh, IsSession, Parts
  <2>2. CASE session # Nothing
    <3>1. IsSession(session)
      BY <2>2 DEF DialogueInv, SessionInv
    <3> QED BY <2>2, <3>1 DEF Mine, MineOf, IsSession, Parts
  <2> QED BY <2>1, <2>2
<1>5. session # Nothing => IsSession(session)
  BY DEF DialogueInv, SessionInv
<1>6. step \in Afters \union {"adopt"} /\ (step # "adopt" => mem = session)
  BY <1>2 DEF Afters
<1>7. k.after \in Afters
  BY <1>2, <1>3
<1> HIDE DEF k, mem, step
<1>8. Sound(step, k)
  BY <1>3, <1>4, <1>5, <1>6, <1>7 DEF Sound, Afters
<1>9. Jobs' /\ \A q \in Requests : /\ pc'[q] = IF q = r THEN step ELSE pc[q]
                                   /\ job'[q] = IF q = r THEN k ELSE job[q]
  BY <1>1, <1>8, OneMoves DEF DialogueInv
<1>10. SessionInv'
  BY <1>1, <1>9, SameSession DEF DialogueInv, store, Answered
<1>11. HistoryInv'
  BY <1>1, SameHistory DEF DialogueInv, store
<1> QED BY <1>9, <1>10, <1>11 DEF DialogueInv

-----------------------------------------------------------------------------
(***************************************************************************)
(* Where the last success of a sequence of turns is                        *)
(***************************************************************************)
Highs(t) == {i \in DOMAIN t : ~t[i].low}

LastOf(t) == IF Highs(t) = {} THEN 0 ELSE Max(Highs(t))

LEMMA LastIsLast == LastSuccess = LastOf(turns) /\ LastSuccess' = LastOf(turns')
BY DEF LastSuccess, Successes, LastOf, Highs

LEMMA LastOfNone == LastOf(<<>>) = 0
<1>1. Highs(<<>>) = {}
  BY DEF Highs
<1> QED BY <1>1 DEF LastOf

LEMMA OneMore ==
  ASSUME NEW t \in Seq(Turn), NEW x \in Turn
  PROVE  /\ Len(t) \in Nat /\ DOMAIN t = 1 .. Len(t)
         /\ t \o <<x>> \in Seq(Turn) /\ Len(t \o <<x>>) = Len(t) + 1
         /\ DOMAIN (t \o <<x>>) = 1 .. Len(t) + 1
         /\ \A i \in 1 .. Len(t) : (t \o <<x>>)[i] = t[i]
         /\ (t \o <<x>>)[Len(t) + 1] = x
<1>1. Len(t) \in Nat /\ DOMAIN t = 1 .. Len(t)
  BY LenProperties
<1>2. <<x>> \in Seq(Turn) /\ Len(<<x>>) = 1 /\ <<x>>[1] = x
  OBVIOUS
<1>3. t \o <<x>> \in Seq(Turn) /\ Len(t \o <<x>>) = Len(t) + 1
      /\ \A i \in 1 .. Len(t) + 1 :
            (t \o <<x>>)[i] = IF i <= Len(t) THEN t[i] ELSE <<x>>[i - Len(t)]
  BY <1>2, ConcatProperties
<1>4. DOMAIN (t \o <<x>>) = 1 .. Len(t) + 1
  BY <1>3, LenProperties
<1>5. \A i \in 1 .. Len(t) : (t \o <<x>>)[i] = t[i]
  BY <1>1, <1>3
<1>6. (t \o <<x>>)[Len(t) + 1] = x
  BY <1>1, <1>2, <1>3
<1> QED BY <1>1, <1>3, <1>4, <1>5, <1>6

LEMMA LastOfMore ==
  ASSUME NEW t \in Seq(Turn), NEW x \in Turn
  PROVE  LastOf(t \o <<x>>) = IF x.low THEN LastOf(t) ELSE Len(t) + 1
<1> DEFINE u == t \o <<x>>
           n == Len(t)
<1>1. n \in Nat /\ DOMAIN t = 1 .. n /\ DOMAIN u = 1 .. n + 1
      /\ (\A i \in 1 .. n : u[i] = t[i]) /\ u[n + 1] = x
  BY OneMore
<1> HIDE DEF u, n
<1>2. CASE x.low
  <2>1. Highs(u) = Highs(t)
    BY <1>1, <1>2 DEF Highs
  <2> QED BY <1>2, <2>1 DEF LastOf, u, n
<1>3. CASE ~x.low
  <2>1. n + 1 \in Highs(u)
    BY <1>1, <1>3 DEF Highs
  <2>2. \A i \in Highs(u) : i \in Nat /\ i <= n + 1
    BY <1>1 DEF Highs
  <2>3. Max(Highs(u)) = n + 1
    BY <1>1, <2>1, <2>2 DEF Max
  <2>4. Highs(u) # {}
    BY <2>1
  <2> QED BY <1>3, <2>3, <2>4 DEF LastOf, u, n
<1> QED BY <1>2, <1>3

-----------------------------------------------------------------------------
(***************************************************************************)
(* The session is written                                                  *)
(***************************************************************************)
Kept == IF session = Nothing THEN <<>> ELSE turns

\* The turns that a write adds to.
LEMMA KeptTurns ==
  ASSUME SessionInv
  PROVE  /\ Kept \in Seq(Turn) /\ Len(Kept) \in Nat
         /\ \A i \in 1 .. Len(Kept) :
               Kept[i] \in Turn /\ Kept[i].req \in Requests
               /\ (~Kept[i].low => pc[Kept[i].req] \in Answered)
         /\ LastOf(Kept) \in 0 .. Len(Kept)
         /\ LastOf(Kept) # 0 => ~Kept[LastOf(Kept)].low
<1>1. CASE session = Nothing
  <2>1. Kept = <<>> /\ Len(Kept) = 0 /\ Kept \in Seq(Turn)
    BY <1>1, EmptySeq DEF Kept
  <2>2. LastOf(Kept) = 0
    BY <2>1, LastOfNone
  <2> QED BY <2>1, <2>2
<1>2. CASE session # Nothing
  <2>1. Kept = turns /\ LastOf(Kept) = LastSuccess
    BY <1>2, LastIsLast DEF Kept
  <2>2. /\ \A i \in 1 .. Len(turns) : ~turns[i].low => pc[turns[i].req] \in Answered
        /\ LastSuccess \in 0 .. Len(turns) /\ (LastSuccess # 0 => ~turns[LastSuccess].low)
    BY DEF SessionInv
  <2> QED BY <2>1, <2>2, TurnTypes
<1> QED BY <1>1, <1>2

\* What the session remembers, said of a state of it and of what its turns were.
SlotsOf(t, results) ==
    IF LastOf(t) = 0 THEN NoSlots ELSE results[t[LastOf(t)].req].result.slots

Remembered(m, t, results) ==
    /\ m.turns = Len(t)
    /\ m.streak = Len(t) - LastOf(t)
    /\ m.device = Slot(SlotsOf(t, results), "device_type")
    /\ m.location = Slot(SlotsOf(t, results), "location")

LEMMA RemembersMeans ==
  /\ SessionRemembers <=> ("session" \notin torn /\ session # Nothing
                              => Remembered(session, turns, job))
  /\ SessionRemembers' <=> ("session" \notin torn' /\ session' # Nothing
                              => Remembered(session', turns', job'))
BY LastIsLast DEF SessionRemembers, Remembered, SlotsOf

\* A state that was read and is still stored, or would be created.
LEMMA MineRemembers ==
  ASSUME SessionInv, "session" \notin torn, NEW user
  PROVE  Remembered(Mine(user), Kept, job) /\ IsSession(Mine(user))
<1>1. CASE session = Nothing
  <2>1. Kept = <<>> /\ Len(Kept) = 0 /\ LastOf(Kept) = 0
    BY <1>1, LastOfNone DEF Kept
  <2>2. Mine(user) = Fresh(user)
    BY <1>1 DEF Mine
  <2>3. Slot(NoSlots, "device_type") = None /\ Slot(NoSlots, "location") = None
    BY DEF Slot, NoSlots, Has
  <2> QED BY <2>1, <2>2, <2>3 DEF Remembered, SlotsOf, Fresh, IsSession, Parts
<1>2. CASE session # Nothing
  <2>1. IsSession(session) /\ Remembered(session, turns, job)
    BY <1>2, RemembersMeans DEF SessionInv
  <2>2. Kept = turns /\ Mine(user) = [session EXCEPT !.user = user]
    BY <1>2 DEF Kept, Mine
  <2> QED BY <2>1, <2>2 DEF Remembered, IsSession, Parts
<1> QED BY <1>1, <1>2

\* The answered requests but the one that moves keep what they were understood
\* to mean.
LEMMA OthersMeanTheSame ==
  ASSUME SessionInv, NEW r \in Requests, pc[r] \notin Answered,
         \A q \in Requests : q # r => pc'[q] = pc[q] /\ job'[q] = job[q]
  PROVE  /\ \A i \in 1 .. Len(Kept) : ~Kept[i].low =>
                /\ pc'[Kept[i].req] \in Answered
                /\ job'[Kept[i].req].result = job[Kept[i].req].result
         /\ \A m : Remembered(m, Kept, job) => Remembered(m, Kept, job')
<1>1. \A i \in 1 .. Len(Kept) : ~Kept[i].low =>
         /\ pc'[Kept[i].req] \in Answered
         /\ job'[Kept[i].req].result = job[Kept[i].req].result
  BY KeptTurns
<1>2. LastOf(Kept) # 0 =>
         job'[Kept[LastOf(Kept)].req].result = job[Kept[LastOf(Kept)].req].result
  BY <1>1, KeptTurns
<1>3. SlotsOf(Kept, job') = SlotsOf(Kept, job)
  BY <1>2 DEF SlotsOf
<1>4. \A m : Remembered(m, Kept, job) => Remembered(m, Kept, job')
  BY <1>3 DEF Remembered
<1> QED BY <1>1, <1>4

\* A turn more.
LEMMA TurnWritten ==
  ASSUME SessionInv, NEW r \in Requests, NEW mem, NEW x \in Turn, x.req = r,
         Write(r, mem, <<x>>), IsSession(mem),
         pc[r] \notin Answered, pc'[r] \in Answered,
         \A q \in Requests : q # r => pc'[q] = pc[q] /\ job'[q] = job[q],
         session = job[r].read /\ "session" \notin torn => Remembered(mem, Kept \o <<x>>, job')
  PROVE  SessionInv'
<1>1. turns' = Kept \o <<x>> /\ session' = mem
      /\ ("session" \notin torn' => "session" \notin torn /\ session = job[r].read)
  <2>1. turns' = Kept \o <<x>>
    <3>1. CASE session = Nothing
      <4>1. <<>> \o <<x>> = <<x>>
        OBVIOUS
      <4> QED BY <3>1, <4>1 DEF Write, Kept
    <3>2. CASE session # Nothing
      BY <3>2 DEF Write, Kept
    <3> QED BY <3>1, <3>2
  <2> QED BY <2>1 DEF Write
<1>2. /\ Kept \in Seq(Turn) /\ Len(Kept) \in Nat /\ turns' \in Seq(Turn)
      /\ Len(turns') = Len(Kept) + 1
      /\ \A i \in 1 .. Len(Kept) : turns'[i] = Kept[i]
      /\ turns'[Len(Kept) + 1] = x
  BY <1>1, KeptTurns, OneMore
<1>3. \A i \in 1 .. Len(turns') : ~turns'[i].low => pc'[turns'[i].req] \in Answered
  <2> SUFFICES ASSUME NEW i \in 1 .. Len(turns'), ~turns'[i].low
               PROVE  pc'[turns'[i].req] \in Answered
    OBVIOUS
  <2>1. CASE i = Len(Kept) + 1
    BY <1>2, <2>1
  <2>2. CASE i # Len(Kept) + 1
    <3>1. i \in 1 .. Len(Kept) /\ turns'[i] = Kept[i]
      BY <1>2, <2>2
    <3> QED BY <3>1, OthersMeanTheSame
  <2> QED BY <2>1, <2>2
<1>4. LastSuccess' = IF x.low THEN LastOf(Kept) ELSE Len(Kept) + 1
  BY <1>1, <1>2, LastOfMore, LastIsLast
<1>5. LastSuccess' \in 0 .. Len(turns') /\ (LastSuccess' # 0 => ~turns'[LastSuccess'].low)
  <2>1. CASE x.low
    <3>1. LastOf(Kept) \in 0 .. Len(Kept) /\ (LastOf(Kept) # 0 => ~Kept[LastOf(Kept)].low)
      BY KeptTurns
    <3>2. LastSuccess' = LastOf(Kept)
      BY <1>4, <2>1
    <3>3. LastOf(Kept) # 0 => turns'[LastOf(Kept)] = Kept[LastOf(Kept)]
      BY <1>2, <3>1
    <3> QED BY <1>2, <3>1, <3>2, <3>3
  <2>2. CASE ~x.low
    <3>1. LastSuccess' = Len(Kept) + 1
      BY <1>4, <2>2
    <3> QED BY <1>2, <2>2, <3>1
  <2> QED BY <2>1, <2>2
<1>6. SessionRemembers'
  BY <1>1, RemembersMeans
<1>7. IsSession(session')
  BY <1>1
<1> QED BY <1>2, <1>3, <1>5, <1>6, <1>7 DEF SessionInv

\* What is stored when the session that a turn has read is still there.
LEMMA StillThere ==
  ASSUME SessionInv, NothingIsNoSession, NEW r \in Requests, session = job[r].mem,
         IsSession(job[r].mem), "session" \notin torn
  PROVE  Kept = turns /\ Remembered(job[r].mem, Kept, job)
<1>1. session # Nothing
  BY DEF IsSession, NothingIsNoSession
<1> QED BY <1>1, RemembersMeans DEF Kept, SessionInv

LEMMA OverFields ==
  ASSUME NEW r, NEW code
  PROVE  /\ DOMAIN Over(r, code) = Fields
         /\ code = "OK" => Over(r, code).result = job[r].result
BY DEF Over, Idle, Fields

\* What a step of one request leaves of the others.
LEMMA OthersStay ==
  ASSUME Jobs, NEW r \in Requests, NEW step, NEW k, To(r, step, k), Sound(step, k)
  PROVE  /\ Jobs' /\ pc'[r] = step /\ job'[r] = k
         /\ \A q \in Requests : q # r => pc'[q] = pc[q] /\ job'[q] = job[q]
BY OneMoves

LEMMA KeepLow ==
  ASSUME DialogueInv, NothingIsNoSession, NEW r \in Requests, MarkLowConfidence(r)
  PROVE  DialogueInv'
<1> DEFINE old == job[r].mem
           mem == LowTurn(old)
           x == [req |-> r, low |-> TRUE]
           k == Over(r, Tells(mem))
           u == Kept \o <<x>>
<1>1. pc[r] = "low" /\ Write(r, mem, <<x>>) /\ To(r, "entry", k)
      /\ UNCHANGED <<history, expiries, entries>>
  BY DEF MarkLowConfidence, At, Answer
<1>2. job[r].read = old /\ IsSession(old)
  BY <1>1 DEF DialogueInv, Jobs, Sound
<1>3. /\ IsSession(mem) /\ mem.streak = old.streak + 1 /\ mem.turns = old.turns + 1
      /\ mem.device = old.device /\ mem.location = old.location
  BY <1>2 DEF LowTurn, IsSession, Parts
<1>4. x \in Turn /\ x.req = r /\ x.low
  BY DEF Turn
<1>5. DOMAIN k = Fields
  BY OverFields
<1> HIDE DEF old, mem, x, k, u
<1>6. Sound("entry", k)
  BY <1>5 DEF Sound
<1>7. Jobs' /\ pc'[r] = "entry" /\ \A q \in Requests : q # r => pc'[q] = pc[q] /\ job'[q] = job[q]
  BY <1>1, <1>6, OthersStay DEF DialogueInv
<1>8. pc[r] \notin Answered /\ pc'[r] \in Answered
  BY <1>1, <1>7 DEF Answered
<1>9. ASSUME session = job[r].read, "session" \notin torn
      PROVE  Remembered(mem, u, job')
  <2>1. Remembered(old, Kept, job)
    BY <1>2, <1>9, StillThere DEF DialogueInv, old
  <2>2. Remembered(old, Kept, job')
    BY <1>7, <1>8, <2>1, OthersMeanTheSame DEF DialogueInv
  <2>3. Kept \in Seq(Turn) /\ LastOf(Kept) \in 0 .. Len(Kept) /\ Len(Kept) \in Nat
    BY KeptTurns DEF DialogueInv
  <2>4. LastOf(u) = LastOf(Kept)
    BY <1>4, <2>3, LastOfMore DEF u
  <2>5. Len(u) = Len(Kept) + 1
        /\ (LastOf(Kept) # 0 => u[LastOf(Kept)] = Kept[LastOf(Kept)])
    BY <1>4, <2>3, OneMore DEF u
  <2>6. mem.turns = Len(Kept) + 1 /\ mem.streak = Len(Kept) + 1 - LastOf(Kept)
    BY <1>3, <2>2, <2>3 DEF Remembered
  <2>7. SlotsOf(u, job') = SlotsOf(Kept, job')
    BY <2>4, <2>5 DEF SlotsOf
  <2>8. mem.turns = Len(u)
        /\ mem.streak = Len(u) - LastOf(u)
    BY <2>3, <2>4, <2>5, <2>6
  <2>9. /\ mem.device = Slot(SlotsOf(u, job'), "device_type")
        /\ mem.location = Slot(SlotsOf(u, job'), "location")
    BY <1>3, <2>2, <2>7 DEF Remembered
  <2> QED BY <2>8, <2>9 DEF Remembered
<1>10. SessionInv'
  BY <1>1, <1>3, <1>4, <1>7, <1>8, <1>9, TurnWritten DEF DialogueInv, u
<1>11. HistoryInv'
  BY <1>1, SameHistory DEF DialogueInv, Write
<1> QED BY <1>7, <1>10, <1>11 DEF DialogueInv

LEMMA KeepSuccess ==
  ASSUME DialogueInv, NothingIsNoSession, NEW r \in Requests, MarkSuccessTurn(r)
  PROVE  DialogueInv'
<1> DEFINE old == job[r].mem
           slots == job[r].result.slots
           mem == SuccessTurn(old, slots)
           x == [req |-> r, low |-> FALSE]
           k == Over(r, "OK")
<1>1. pc[r] = "success" /\ Write(r, mem, <<x>>) /\ To(r, "entry", k)
      /\ UNCHANGED <<history, expiries, entries>>
  BY DEF MarkSuccessTurn, At, Answer
<1>2. job[r].read = old /\ IsSession(old)
  BY <1>1 DEF DialogueInv, Jobs, Sound
<1>3. /\ IsSession(mem) /\ mem.streak = 0 /\ mem.turns = old.turns + 1
      /\ mem.device = Slot(slots, "device_type") /\ mem.location = Slot(slots, "location")
  BY <1>2 DEF SuccessTurn, IsSession, Parts
<1>4. x \in Turn /\ x.req = r /\ ~x.low
  BY DEF Turn
<1>5. DOMAIN k = Fields /\ k.result = job[r].result
  BY OverFields
<1>6. k.result.slots = slots
  BY <1>5
<1> HIDE DEF old, mem, x, k, slots
<1>7. Sound("entry", k)
  BY <1>5 DEF Sound
<1>8. Jobs' /\ pc'[r] = "entry" /\ job'[r] = k
      /\ \A q \in Requests : q # r => pc'[q] = pc[q] /\ job'[q] = job[q]
  BY <1>1, <1>7, OthersStay DEF DialogueInv
<1>9. pc[r] \notin Answered /\ pc'[r] \in Answered
  BY <1>1, <1>8 DEF Answered
<1>10. ASSUME session = job[r].read, "session" \notin torn
       PROVE  Remembered(mem, Kept \o <<x>>, job')
  <2>1. Remembered(old, Kept, job)
    BY <1>2, <1>10, StillThere DEF DialogueInv, old
  <2>2. Kept \in Seq(Turn) /\ Len(Kept) \in Nat
    BY KeptTurns DEF DialogueInv
  <2>3. LastOf(Kept \o <<x>>) = Len(Kept) + 1
    BY <1>4, <2>2, LastOfMore
  <2>4. Len(Kept \o <<x>>) = Len(Kept) + 1 /\ (Kept \o <<x>>)[Len(Kept) + 1] = x
    BY <1>4, <2>2, OneMore
  <2>5. mem.turns = Len(Kept) + 1 /\ mem.streak = Len(Kept) + 1 - (Len(Kept) + 1)
        /\ Len(Kept) + 1 # 0
    BY <1>3, <2>1, <2>2 DEF Remembered
  <2>6. job'[x.req].result.slots = slots
    BY <1>4, <1>6, <1>8
  <2>7. SlotsOf(Kept \o <<x>>, job') = slots
    BY <2>3, <2>4, <2>5, <2>6 DEF SlotsOf
  <2> QED BY <1>3, <2>3, <2>4, <2>5, <2>7 DEF Remembered
<1>11. SessionInv'
  BY <1>1, <1>3, <1>4, <1>8, <1>9, <1>10, TurnWritten DEF DialogueInv
<1>12. HistoryInv'
  BY <1>1, SameHistory DEF DialogueInv, Write
<1> QED BY <1>8, <1>11, <1>12 DEF DialogueInv

LEMMA KeepAdopt ==
  ASSUME DialogueInv, NEW r \in Requests, Adopt(r)
  PROVE  DialogueInv'
<1> DEFINE mem == job[r].mem
           k == [job[r] EXCEPT !.read = mem]
           step == job[r].after
<1>1. pc[r] = "adopt" /\ Write(r, mem, <<>>) /\ To(r, step, k)
      /\ UNCHANGED <<history, expiries, entries>>
  BY DEF Adopt, At
<1>2. DOMAIN job[r] = Fields /\ step \in Afters /\ mem = MineOf(job[r].read, job[r].user)
      /\ (job[r].read # Nothing => IsSession(job[r].read))
  BY <1>1 DEF DialogueInv, Jobs, Sound
<1>3. DOMAIN k = Fields /\ k.read = mem /\ k.mem = mem
  BY <1>2 DEF Fields
<1>4. IsSession(mem)
  BY <1>2 DEF MineOf, Fresh, IsSession, Parts
<1> HIDE DEF k, step
<1>5. Sound(step, k)
  BY <1>2, <1>3, <1>4 DEF Sound, Afters
<1>6. Jobs' /\ pc'[r] = step
      /\ \A q \in Requests : q # r => pc'[q] = pc[q] /\ job'[q] = job[q]
  BY <1>1, <1>5, OthersStay DEF DialogueInv
<1>7. pc[r] \notin Answered
  BY <1>1 DEF Answered
<1>8. turns' = Kept /\ session' = mem
      /\ ("session" \notin torn' => "session" \notin torn /\ session = job[r].read)
  <2>1. Kept \in Seq(Turn)
    BY KeptTurns DEF DialogueInv
  <2>2. turns \o <<>> = turns
    BY ConcatEmptySeq DEF DialogueInv, SessionInv
  <2> QED BY <1>1, <2>2 DEF Write, Kept
<1>9. LastSuccess' = LastOf(Kept)
  BY <1>8, LastIsLast
<1>10. \A i \in 1 .. Len(turns') : ~turns'[i].low => pc'[turns'[i].req] \in Answered
  BY <1>6, <1>7, <1>8, OthersMeanTheSame DEF DialogueInv
<1>11. ASSUME "session" \notin torn'
       PROVE  Remembered(session', turns', job')
  <2>1. mem = Mine(job[r].user)
    BY <1>2, <1>8, <1>11 DEF Mine, MineOf
  <2>2. Remembered(mem, Kept, job)
    BY <1>8, <1>11, <2>1, MineRemembers DEF DialogueInv
  <2> QED BY <1>6, <1>7, <1>8, <2>2, OthersMeanTheSame DEF DialogueInv
<1>12. SessionRemembers'
  BY <1>11, RemembersMeans
<1>13. SessionInv'
  BY <1>4, <1>8, <1>9, <1>10, <1>12, KeptTurns DEF DialogueInv, SessionInv
<1>14. HistoryInv'
  BY <1>1, SameHistory DEF DialogueInv, Write
<1> QED BY <1>6, <1>13, <1>14 DEF DialogueInv

LEMMA KeepExpire ==
  ASSUME DialogueInv, Expire
  PROVE  DialogueInv'
<1>1. session' = Nothing /\ turns' = <<>> /\ UNCHANGED <<pc, job, history, entries, torn>>
  BY DEF Expire
<1>2. Jobs'
  BY <1>1 DEF DialogueInv, Jobs
<1>3. turns' \in Seq(Turn) /\ Len(turns') = 0 /\ LastSuccess' = 0
  BY <1>1, EmptySeq, LastOfNone, LastIsLast
<1>4. SessionRemembers'
  BY <1>1, RemembersMeans
<1>5. SessionInv'
  BY <1>1, <1>3, <1>4 DEF SessionInv
<1>6. HistoryInv'
  BY <1>1, SameHistory DEF DialogueInv
<1> QED BY <1>2, <1>5, <1>6 DEF DialogueInv

-----------------------------------------------------------------------------
(***************************************************************************)
(* The history                                                             *)
(***************************************************************************)
\* The last entries, as many as there is room for.
Whole(h, e, n) ==
    /\ Len(h) = IF Len(e) < n THEN Len(e) ELSE n
    /\ \A i \in 1 .. Len(h) : h[i] = e[Len(e) - Len(h) + i]

LEMMA NewestIsWhole ==
  ASSUME NEW h \in Seq(Requests), NEW e \in Seq(Requests), NEW r \in Requests,
         NEW n \in Nat \ {0}, Whole(h, e, n)
  PROVE  Whole(Newest(Append(h, r), n), Append(e, r), n)
<1> DEFINE a == Append(h, r)
           b == Append(e, r)
<1>1. Len(h) \in Nat /\ Len(e) \in Nat
  BY LenProperties
<1>2. a \in Seq(Requests) /\ Len(a) = Len(h) + 1 /\ a[Len(h) + 1] = r
      /\ \A i \in 1 .. Len(h) : a[i] = h[i]
  BY AppendProperties
<1>3. Len(b) = Len(e) + 1 /\ b[Len(e) + 1] = r /\ \A i \in 1 .. Len(e) : b[i] = e[i]
  BY AppendProperties
<1>4. Len(h) <= Len(e) /\ Len(h) <= n /\ (Len(h) < n => Len(h) = Len(e))
  BY <1>1 DEF Whole
<1>5. \A i \in 1 .. Len(h) + 1 : a[i] = b[Len(e) - Len(h) + i]
  <2> SUFFICES ASSUME NEW i \in 1 .. Len(h) + 1 PROVE a[i] = b[Len(e) - Len(h) + i]
    OBVIOUS
  <2>1. CASE i = Len(h) + 1
    <3>1. Len(e) - Len(h) + i = Len(e) + 1
      BY <1>1, <2>1
    <3> QED BY <1>2, <1>3, <2>1, <3>1
  <2>2. CASE i # Len(h) + 1
    <3>1. i \in 1 .. Len(h)
      BY <1>1, <2>2
    <3>2. Len(e) - Len(h) + i \in 1 .. Len(e)
      BY <1>1, <1>4, <3>1
    <3> QED BY <1>2, <1>3, <3>1, <3>2 DEF Whole
  <2> QED BY <2>1, <2>2
<1> HIDE DEF a, b
<1>6. CASE Len(h) < n
  <2>1. Newest(a, n) = a
    BY <1>1, <1>2, <1>6 DEF Newest
  <2>2. Len(a) = IF Len(b) < n THEN Len(b) ELSE n
    BY <1>1, <1>2, <1>3, <1>4, <1>6
  <2>3. \A i \in 1 .. Len(a) : a[i] = b[Len(b) - Len(a) + i]
    BY <1>1, <1>2, <1>3, <1>5
  <2> QED BY <2>1, <2>2, <2>3 DEF Whole, a, b
<1>7. CASE Len(h) = n
  <2>1. Newest(a, n) = SubSeq(a, 2, Len(h) + 1)
    BY <1>1, <1>2, <1>7 DEF Newest
  <2>2. /\ Len(SubSeq(a, 2, Len(h) + 1)) = Len(h)
        /\ \A i \in 1 .. Len(h) : SubSeq(a, 2, Len(h) + 1)[i] = a[i + 1]
    <3>1. /\ Len(SubSeq(a, 2, Len(h) + 1)) = Len(h) + 1 - 2 + 1
          /\ \A i \in 1 .. Len(h) + 1 - 2 + 1 : SubSeq(a, 2, Len(h) + 1)[i] = a[2 + i - 1]
      BY <1>1, <1>2, <1>7, SubSeqProperties
    <3>2. Len(h) + 1 - 2 + 1 = Len(h) /\ \A i \in 1 .. Len(h) : 2 + i - 1 = i + 1
      BY <1>1
    <3> QED BY <3>1, <3>2
  <2>3. Len(h) = IF Len(b) < n THEN Len(b) ELSE n
    BY <1>1, <1>3, <1>4, <1>7
  <2>4. \A i \in 1 .. Len(h) : a[i + 1] = b[Len(b) - Len(h) + i]
    <3> SUFFICES ASSUME NEW i \in 1 .. Len(h) PROVE a[i + 1] = b[Len(b) - Len(h) + i]
      OBVIOUS
    <3>1. i + 1 \in 1 .. Len(h) + 1 /\ Len(e) - Len(h) + (i + 1) = Len(b) - Len(h) + i
      BY <1>1, <1>3
    <3> QED BY <1>5, <3>1
  <2> QED BY <2>1, <2>2, <2>3, <2>4 DEF Whole, a, b
<1> QED BY <1>1, <1>4, <1>6, <1>7

LEMMA NewestIsSeq ==
  ASSUME NEW h \in Seq(Requests), NEW n \in Nat \ {0}
  PROVE  Newest(h, n) \in Seq(Requests)
<1>1. Len(h) \in Nat
  BY LenProperties
<1>2. CASE Len(h) > n
  <2>1. Len(h) - n + 1 \in 1 .. Len(h) + 1 /\ Len(h) \in Len(h) - n .. Len(h)
    BY <1>1, <1>2
  <2>2. SubSeq(h, Len(h) - n + 1, Len(h)) \in Seq(Requests)
    BY <1>1, <2>1, SubSeqProperties
  <2> QED BY <1>2, <2>2 DEF Newest
<1>3. CASE ~(Len(h) > n)
  BY <1>3 DEF Newest
<1> QED BY <1>2, <1>3

LEMMA WholeMeans ==
  /\ HistoryInv => /\ history \in Seq(Requests) /\ entries \in Seq(Requests)
                   /\ "history" \notin torn => Whole(history, entries, MaxHistory)
  /\ /\ history' \in Seq(Requests) /\ entries' \in Seq(Requests)
     /\ "history" \notin torn' => Whole(history', entries', MaxHistory)
     => HistoryInv'
<1>1. ASSUME HistoryInv
      PROVE  /\ history \in Seq(Requests) /\ entries \in Seq(Requests)
             /\ "history" \notin torn => Whole(history, entries, MaxHistory)
  <2>1. DOMAIN history = 1 .. Len(history)
    BY <1>1, LenProperties DEF HistoryInv
  <2> QED BY <1>1, <2>1 DEF HistoryInv, HistoryWhole, Whole
<1>2. ASSUME history' \in Seq(Requests), entries' \in Seq(Requests),
             "history" \notin torn' => Whole(history', entries', MaxHistory)
      PROVE  HistoryInv'
  <2>1. DOMAIN history' = 1 .. Len(history')
    BY <1>2, LenProperties
  <2> QED BY <1>2, <2>1 DEF HistoryInv, HistoryWhole, Whole
<1> QED BY <1>1, <1>2

\* An answered request that goes on.
LEMMA KeepReadHistory ==
  ASSUME DialogueInv, NEW r \in Requests, ReadHistory(r)
  PROVE  DialogueInv'
<1> DEFINE k == [job[r] EXCEPT !.seen = history]
<1>1. pc[r] = "entry" /\ To(r, "write", k) /\ UNCHANGED store
  BY DEF ReadHistory, At
<1>2. DOMAIN job[r] = Fields
  BY DEF DialogueInv, Jobs, Sound
<1>3. DOMAIN k = Fields /\ k.seen = history /\ k.result = job[r].result
  BY <1>2 DEF Fields
<1>4. history \in Seq(Requests)
  BY DEF DialogueInv, HistoryInv
<1> HIDE DEF k
<1>5. Sound("write", k)
  BY <1>3, <1>4 DEF Sound
<1>6. Jobs' /\ \A q \in Requests : /\ pc'[q] = IF q = r THEN "write" ELSE pc[q]
                                   /\ job'[q] = IF q = r THEN k ELSE job[q]
  BY <1>1, <1>5, OneMoves DEF DialogueInv
<1>7. \A q \in Requests : pc[q] \in Answered =>
         pc'[q] \in Answered /\ job'[q].result = job[q].result
  BY <1>3, <1>6 DEF Answered
<1>8. SessionInv'
  BY <1>1, <1>7, SameSession DEF DialogueInv, store
<1>9. HistoryInv'
  BY <1>1, SameHistory DEF DialogueInv, store
<1> QED BY <1>6, <1>8, <1>9 DEF DialogueInv

LEMMA KeepWriteHistory ==
  ASSUME DialogueInv, NEW r \in Requests, WriteHistory(r)
  PROVE  DialogueInv'
<1> DEFINE k == [job[r] EXCEPT !.seen = <<>>]
<1>1. pc[r] = "write" /\ To(r, "done", k)
  BY DEF WriteHistory, At
<1>2. DOMAIN job[r] = Fields /\ job[r].seen \in Seq(Requests)
  BY <1>1 DEF DialogueInv, Jobs, Sound
<1>3. DOMAIN k = Fields /\ k.result = job[r].result
  BY <1>2 DEF Fields
<1> HIDE DEF k
<1>4. Sound("done", k)
  BY <1>3 DEF Sound
<1>5. Jobs' /\ \A q \in Requests : /\ pc'[q] = IF q = r THEN "done" ELSE pc[q]
                                   /\ job'[q] = IF q = r THEN k ELSE job[q]
  BY <1>1, <1>4, OneMoves DEF DialogueInv
<1>6. \A q \in Requests : pc[q] \in Answered =>
         pc'[q] \in Answered /\ job'[q].result = job[q].result
  BY <1>3, <1>5 DEF Answered
<1>7. /\ history' = Newest(Append(job[r].seen, r), MaxHistory) /\ entries' = Append(entries, r)
      /\ UNCHANGED <<session, turns>>
      /\ "session" \notin torn' <=> "session" \notin torn
      /\ "history" \notin torn' => "history" \notin torn /\ history = job[r].seen
  BY DEF WriteHistory
<1>8. SessionInv'
  BY <1>6, <1>7, SameSession DEF DialogueInv
<1>9. Append(job[r].seen, r) \in Seq(Requests) /\ entries \in Seq(Requests)
      /\ Append(entries, r) \in Seq(Requests) /\ MaxHistory \in Nat \ {0}
  BY <1>2, AppendProperties, DialogueBounds DEF DialogueInv, HistoryInv
<1>10. history' \in Seq(Requests) /\ entries' \in Seq(Requests)
  BY <1>7, <1>9, NewestIsSeq
<1>11. ASSUME "history" \notin torn'
       PROVE  Whole(history', entries', MaxHistory)
  <2>1. Whole(history, entries, MaxHistory) /\ history \in Seq(Requests)
    BY <1>7, <1>11, WholeMeans DEF DialogueInv
  <2> QED BY <1>7, <1>9, <1>11, <2>1, NewestIsWhole
<1>12. HistoryInv'
  BY <1>10, <1>11, WholeMeans
<1> QED BY <1>5, <1>8, <1>12 DEF DialogueInv

LEMMA KeepDelete ==
  ASSUME DialogueInv, NEW r \in Requests, DeleteHistory(r)
  PROVE  DialogueInv'
<1>1. pc[r] = "idle" /\ To(r, "done", Idle) /\ history' = <<>> /\ entries' = <<>>
      /\ UNCHANGED <<session, turns, torn>>
  BY DEF DeleteHistory, At
<1>2. DOMAIN Idle = Fields
  BY DEF Idle, Fields
<1>3. Sound("done", Idle)
  BY <1>2 DEF Sound
<1>4. Jobs' /\ \A q \in Requests : /\ pc'[q] = IF q = r THEN "done" ELSE pc[q]
                                   /\ job'[q] = IF q = r THEN Idle ELSE job[q]
  BY <1>1, <1>3, OneMoves DEF DialogueInv
<1>5. \A q \in Requests : pc[q] \in Answered =>
         pc'[q] \in Answered /\ job'[q].result = job[q].result
  BY <1>1, <1>4 DEF Answered
<1>6. SessionInv'
  BY <1>1, <1>5, SameSession DEF DialogueInv
<1>7. history' \in Seq(Requests) /\ entries' \in Seq(Requests)
      /\ Len(history') = 0 /\ Len(entries') = 0
  BY <1>1, EmptySeq
<1>8. Whole(history', entries', MaxHistory)
  BY <1>7, DialogueBounds DEF Whole
<1>9. HistoryInv'
  BY <1>7, <1>8, WholeMeans
<1> QED BY <1>4, <1>6, <1>9 DEF DialogueInv

-----------------------------------------------------------------------------
(***************************************************************************)
(* Every other action is one request's, and touches nothing stored.        *)
(***************************************************************************)
Quiet(r) ==
    /\ UNCHANGED store /\ pc[r] \notin Answered
    /\ \E step, k :
          /\ To(r, step, k)
          /\ DOMAIN job[r] = Fields => DOMAIN k = Fields
          /\ step \notin {"low", "success", "adopt", "write"}
          /\ step = "read" => k.after \in Afters

LEMMA KeepQuiet ==
  ASSUME DialogueInv, NEW r \in Requests, Quiet(r)
  PROVE  DialogueInv'
<1>1. DOMAIN job[r] = Fields
  BY DEF DialogueInv, Jobs, Sound
<1> QED BY <1>1, Quietly DEF Quiet

LEMMA ReadThenIsQuiet ==
  ASSUME NEW r, NEW after \in Afters, NEW k, DOMAIN job[r] = Fields => DOMAIN k = Fields,
         ReadThen(r, after, k), UNCHANGED store, pc[r] \notin Answered,
         "after" \in DOMAIN k
  PROVE  Quiet(r)
<1> DEFINE new == [k EXCEPT !.after = after]
<1>1. DOMAIN new = DOMAIN k /\ new.after = after /\ To(r, "read", new)
  BY DEF ReadThen
<1> HIDE DEF new
<1> QED BY <1>1 DEF Quiet

LEMMA AnswerIsQuiet ==
  ASSUME NEW r, NEW code, NEW step \in {"entry", "done"}, To(r, step, Over(r, code)),
         UNCHANGED store, pc[r] \notin Answered
  PROVE  Quiet(r)
BY OverFields DEF Quiet

\* A request that goes on with what it has, or with one variable changed.
LEMMA GoingOnIsQuiet ==
  ASSUME NEW r, NEW k, DOMAIN k = DOMAIN job[r],
         NEW step \in {"clear", "unclear", "execute", "multi"}, To(r, step, k),
         UNCHANGED store, pc[r] \notin Answered
  PROVE  Quiet(r)
BY DEF Quiet

LEMMA ReceiveIsQuiet ==
  ASSUME NEW r, NEW user, NEW kind, NEW s, Receive(r, user, kind, s)
  PROVE  Quiet(r)
<1> DEFINE k == [Idle EXCEPT !.kind = kind, !.user = user, !.sentence = s]
<1>1. DOMAIN k = Fields /\ "after" \in DOMAIN k
  BY DEF Idle, Fields
<1>2. ReadThen(r, "route", k) /\ UNCHANGED store /\ pc[r] = "idle"
  BY DEF Receive, At
<1> HIDE DEF k
<1> QED BY <1>1, <1>2, ReadThenIsQuiet DEF Afters, Answered

LEMMA RouteIsQuiet ==
  ASSUME NEW r, NEW answer, RouteSentence(r, answer), DOMAIN job[r] = Fields
  PROVE  Quiet(r)
<1> DEFINE routed == Route(job[r].sentence, OfDecision(job[r].sentence), Parsed(r, answer))
           k == [job[r] EXCEPT !.heard = answer, !.result = routed]
<1>1. ReadThen(r, "merge", k) /\ UNCHANGED store /\ pc[r] = "route"
  BY DEF RouteSentence, At
<1>2. DOMAIN k = Fields /\ "after" \in DOMAIN k
  BY DEF Fields
<1> HIDE DEF k, routed
<1> QED BY <1>1, <1>2, ReadThenIsQuiet DEF Afters, Answered

LEMMA MergeIsQuiet ==
  ASSUME NEW r, Merge(r)
  PROVE  Quiet(r)
<1> DEFINE routed == job[r].result
           result == [routed.result EXCEPT !.slots = InheritSlots(@, job[r].mem)]
           k == [job[r] EXCEPT !.result = result]
<1>1. UNCHANGED store /\ pc[r] = "merge"
      /\ IF job[r].kind = "parse" THEN To(r, "done", Over(r, "other"))
         ELSE To(r, IF routed.clarify THEN "unclear" ELSE "clear", k)
  BY DEF Merge, At
<1>2. DOMAIN k = DOMAIN job[r]
  OBVIOUS
<1> HIDE DEF k, routed
<1>3. CASE job[r].kind = "parse"
  BY <1>1, <1>3, AnswerIsQuiet DEF Answered
<1>4. CASE job[r].kind # "parse"
  <2>1. PICK step \in {"clear", "unclear"} : To(r, step, k)
    BY <1>1, <1>4
  <2> QED BY <1>1, <1>2, <2>1, GoingOnIsQuiet DEF Answered
<1> QED BY <1>3, <1>4

LEMMA UnderstoodIsQuiet ==
  ASSUME NEW r, DOMAIN job[r] = Fields, NEW c,
         Clarify(r) \/ Chat(r) \/ ResolveEntity(r, c) \/ NoEntity(r)
  PROVE  Quiet(r)
<1>0. "after" \in DOMAIN job[r]
  BY DEF Fields
<1>1. CASE Clarify(r)
  <2>1. ReadThen(r, "low", job[r]) /\ UNCHANGED store /\ pc[r] = "unclear"
    BY <1>1 DEF Clarify, At
  <2> QED BY <1>0, <2>1, ReadThenIsQuiet DEF Afters, Answered
<1>2. CASE Chat(r)
  <2>1. To(r, "entry", Over(r, "other")) /\ UNCHANGED store /\ pc[r] = "clear"
    BY <1>2 DEF Chat, At, Answer
  <2> QED BY <2>1, AnswerIsQuiet DEF Answered
<1>3. CASE ResolveEntity(r, c)
  <2>1. UNCHANGED store /\ pc[r] \notin Answered
    BY <1>3 DEF ResolveEntity, At, Answered
  <2>2. To(r, "entry", Over(r, "other")) \/ To(r, "execute", job[r])
    BY <1>3 DEF ResolveEntity, Answer
  <2>3. CASE To(r, "entry", Over(r, "other"))
    BY <2>1, <2>3, AnswerIsQuiet
  <2>4. CASE To(r, "execute", job[r])
    BY <2>1, <2>4, GoingOnIsQuiet
  <2> QED BY <2>2, <2>3, <2>4
<1>4. CASE NoEntity(r)
  <2>1. To(r, "execute", job[r]) /\ UNCHANGED store /\ pc[r] = "clear"
    BY <1>4 DEF NoEntity, At
  <2> QED BY <2>1, GoingOnIsQuiet DEF Answered
<1> QED BY <1>1, <1>2, <1>3, <1>4

LEMMA CarriedOutIsQuiet ==
  ASSUME NEW r, DOMAIN job[r] = Fields, Execute(r) \/ StartMulti(r) \/ SubCommand(r) \/ EndMulti(r)
  PROVE  Quiet(r)
<1>0. "after" \in DOMAIN job[r]
  BY DEF Fields
<1>1. CASE Execute(r)
  <2>1. UNCHANGED store /\ pc[r] = "execute"
        /\ \/ To(r, "entry", Over(r, "other"))
           \/ To(r, "done", Over(r, "other"))
           \/ ReadThen(r, "success", job[r])
    BY <1>1 DEF Execute, At, Answer
  <2>2. pc[r] \notin Answered
    BY <2>1 DEF Answered
  <2>3. ASSUME ReadThen(r, "success", job[r]) PROVE Quiet(r)
    BY <1>0, <2>1, <2>2, <2>3, ReadThenIsQuiet DEF Afters
  <2> QED BY <2>1, <2>2, <2>3, AnswerIsQuiet
<1>2. CASE StartMulti(r)
  <2> DEFINE k == [job[r] EXCEPT !.rest = job[r].result.multi]
  <2>1. To(r, "multi", k) /\ UNCHANGED store /\ pc[r] = "clear"
    BY <1>2 DEF StartMulti, At
  <2>2. DOMAIN k = DOMAIN job[r]
    OBVIOUS
  <2> HIDE DEF k
  <2> QED BY <2>1, <2>2, GoingOnIsQuiet DEF Answered
<1>3. CASE SubCommand(r)
  <2> DEFINE k == [job[r] EXCEPT !.rest = Tail(@)]
  <2>1. UNCHANGED store /\ pc[r] \notin Answered
    BY <1>3 DEF SubCommand, At, Answered
  <2>2. To(r, "multi", k) \/ To(r, "done", Over(r, "other"))
    BY <1>3 DEF SubCommand
  <2>3. DOMAIN k = DOMAIN job[r]
    OBVIOUS
  <2> HIDE DEF k
  <2>4. CASE To(r, "multi", k)
    BY <2>1, <2>3, <2>4, GoingOnIsQuiet
  <2>5. CASE To(r, "done", Over(r, "other"))
    BY <2>1, <2>5, AnswerIsQuiet
  <2> QED BY <2>2, <2>4, <2>5
<1>4. CASE EndMulti(r)
  <2>1. To(r, "entry", Over(r, "other")) /\ UNCHANGED store /\ pc[r] = "multi"
    BY <1>4 DEF EndMulti, At, Answer
  <2> QED BY <2>1, AnswerIsQuiet DEF Answered
<1> QED BY <1>1, <1>2, <1>3, <1>4

-----------------------------------------------------------------------------
LEMMA DialogueStep ==
  ASSUME NothingIsNoSession, DialogueInv, [Next]_vars
  PROVE  DialogueInv'
<1>0. \A r \in Requests : DOMAIN job[r] = Fields
  BY DEF DialogueInv, Jobs, Sound
<1>1. CASE UNCHANGED vars
  <2>1. Jobs'
    BY <1>1 DEF DialogueInv, Jobs, vars
  <2>2. SessionInv'
    BY <1>1, SameSession DEF DialogueInv, vars
  <2>3. HistoryInv'
    BY <1>1, SameHistory DEF DialogueInv, vars
  <2> QED BY <2>1, <2>2, <2>3 DEF DialogueInv
<1>2. ASSUME NEW r \in Requests, Quiet(r) PROVE DialogueInv'
  BY <1>2, KeepQuiet
<1>3. ASSUME NEW r \in Requests, NEW u \in Users,
             \/ \E s \in Sentences : Receive(r, u, "command", s)
             \/ \E s \in Tried : Receive(r, u, "parse", s)
      PROVE  DialogueInv'
  BY <1>2, <1>3, ReceiveIsQuiet
<1>4. ASSUME NEW r \in Requests, NEW a, RouteSentence(r, a) PROVE DialogueInv'
  BY <1>0, <1>2, <1>4, RouteIsQuiet
<1>5. ASSUME NEW r \in Requests, NEW c,
             Clarify(r) \/ Chat(r) \/ ResolveEntity(r, c) \/ NoEntity(r)
      PROVE  DialogueInv'
  BY <1>0, <1>2, <1>5, UnderstoodIsQuiet
<1>6. ASSUME NEW r \in Requests, Merge(r) PROVE DialogueInv'
  BY <1>2, <1>6, MergeIsQuiet
<1>7. ASSUME NEW r \in Requests, Execute(r) \/ StartMulti(r) \/ SubCommand(r) \/ EndMulti(r)
      PROVE  DialogueInv'
  BY <1>0, <1>2, <1>7, CarriedOutIsQuiet
<1>8. ASSUME NEW r \in Requests,
             \/ DeleteHistory(r) \/ GetSession(r) \/ Adopt(r)
             \/ MarkLowConfidence(r) \/ MarkSuccessTurn(r)
             \/ ReadHistory(r) \/ WriteHistory(r)
      PROVE  DialogueInv'
  BY <1>8, KeepDelete, KeepGetSession, KeepAdopt, KeepLow, KeepSuccess, KeepReadHistory,
     KeepWriteHistory
<1>9. ASSUME Next PROVE DialogueInv'
  BY <1>3, <1>4, <1>5, <1>6, <1>7, <1>8, <1>9, KeepExpire DEF Next
<1> QED BY <1>1, <1>9

\* The invariant of the whole module (post_api_v1_command with dst_service.py and
\* the session history).
THEOREM DialogueInvariant == ASSUME NothingIsNoSession PROVE Spec => []DialogueInv
<1>1. DialogueInv /\ [Next]_vars => DialogueInv'
  BY DialogueStep
<1> QED BY <1>1, DialogueInit, PTL DEF Spec

\* What the session remembers (mark_low_confidence and mark_success_turn of
\* dst_service.py): its turns, the streak since the last success, and that very
\* success's device and place, as long as no two requests changed it at once.
THEOREM SessionIsRemembered == ASSUME NothingIsNoSession PROVE Spec => []SessionRemembers
<1>1. DialogueInv => SessionRemembers
  BY DEF DialogueInv, SessionInv
<1> QED BY <1>1, DialogueInvariant, PTL

\* The history keeps the newest turns (append_history of redis_backend.py), as
\* long as no two requests changed it at once.
THEOREM HistoryIsWhole == ASSUME NothingIsNoSession PROVE Spec => []HistoryWhole
<1>1. DialogueInv => HistoryWhole
  BY DEF DialogueInv, HistoryInv
<1> QED BY <1>1, DialogueInvariant, PTL

-----------------------------------------------------------------------------
(***************************************************************************)
(* Devices and places                                                      *)
(***************************************************************************)
Device(slots) == Slot(slots, "device_type")
Place(slots) == Slot(slots, "location")

\* A canonical device stays what it is.
Canonical(d) == CanonicalDevice(d) = d

IsResult(result) == DOMAIN result = {"intent", "sub", "slots", "conf", "multi"}

-----------------------------------------------------------------------------
(***************************************************************************)
(* Slots                                                                   *)
(***************************************************************************)
LEMMA SlotOfJoin ==
  ASSUME NEW f, NEW g, NEW k
  PROVE  Slot(f ++ g, k) = IF Has(f, k) THEN Slot(f, k) ELSE Slot(g, k)
BY DEF Slot, Has, ++

LEMMA SlotOfOne ==
  ASSUME NEW j, NEW v, NEW k
  PROVE  Slot(One(j, v), k) = IF k = j THEN v ELSE None
BY DEF Slot, Has, One

LEMMA SlotOfDefault ==
  ASSUME NEW slots, NEW j, NEW v, NEW k
  PROVE  Slot(Default(slots, j, v), k) = IF Has(slots, k) \/ k # j THEN Slot(slots, k) ELSE v
<1>1. ~Has(slots, k) => Slot(slots, k) = None
  BY DEF Slot
<1> QED BY <1>1, SlotOfJoin, SlotOfOne DEF Default

LEMMA SlotOfPresent ==
  ASSUME NEW r, NEW k
  PROVE  Slot(Present(r), k) = Slot(r, k)
BY DEF Slot, Has, Present, Restrict

LEMMA SlotOfWithout ==
  ASSUME NEW slots, NEW ks, NEW k
  PROVE  Slot(Without(slots, ks), k) = IF k \in ks THEN None ELSE Slot(slots, k)
BY DEF Slot, Has, Without, Restrict

LEMMA SlotOfUnit ==
  ASSUME NEW slots, NEW unit, NEW k, k # "value_unit"
  PROVE  Slot(UnitIfValue(slots, unit), k) = Slot(slots, k)
BY SlotOfDefault DEF UnitIfValue

\* The slots of a command, and of what the others lend.
LEMMA Extracted ==
  ASSUME NEW cmd
  PROVE  /\ Device(ExtractSlots(cmd)) \in {None, cmd.device}
         /\ Place(ExtractSlots(cmd)) = cmd.location
<1> DEFINE scene == cmd.intent = "scene_activate"
           r == [location    |-> cmd.location,
                 device_type |-> IF scene THEN None ELSE cmd.device,
                 scene_name  |-> IF scene THEN cmd.device ELSE None,
                 attribute   |-> cmd.parameter,
                 value       |-> cmd.value,
                 value_unit  |-> cmd.unit]
<1>1. ExtractSlots(cmd) = Present(r)
  BY DEF ExtractSlots
<1>2. Slot(r, "device_type") \in {None, cmd.device} /\ Slot(r, "location") = cmd.location
  BY DEF Slot, Has
<1> HIDE DEF r
<1> QED BY <1>1, <1>2, SlotOfPresent DEF Device, Place

LEMMA LeastOf ==
  ASSUME NEW S \in SUBSET Nat, S # {}
  PROVE  (CHOOSE i \in S : \A j \in S : i <= j) \in S
<1>1. PICK i \in S : \A j \in S : ~(<<j, i>> \in OpToRel(<, Nat))
  BY NatLessThanWellFounded, WFMin
<1>2. \A j \in S : ~(j < i)
  BY <1>1 DEF OpToRel
<1>3. \A j \in S : i <= j
  BY <1>2
<1> QED BY <1>3

LEMMA SlotsLent ==
  ASSUME NEW commands, NEW n \in Nat, DOMAIN commands = 1 .. n, NEW j, NEW k
  PROVE  /\ k # j => Slot(Lent(commands, j), k) = None
         /\ \/ Slot(Lent(commands, k), k) = None
            \/ \E i \in DOMAIN commands :
                  Slot(Lent(commands, k), k) = Slot(ExtractSlots(commands[i]), k)
<1> DEFINE with(l) == {i \in DOMAIN commands : Has(ExtractSlots(commands[i]), l)}
           first(l) == CHOOSE i \in with(l) : \A m \in with(l) : i <= m
<1>1. \A l : Lent(commands, l) = IF with(l) = {} THEN NoSlots
                                 ELSE One(l, ExtractSlots(commands[first(l)])[l])
  BY DEF Lent
<1>2. \A l : Slot(NoSlots, l) = None
  BY DEF Slot, Has, NoSlots
<1>3. \A l : with(l) # {} => first(l) \in with(l)
  <2>1. \A l : with(l) \in SUBSET Nat
    OBVIOUS
  <2> HIDE DEF with
  <2> QED BY <2>1, LeastOf
<1>4. k # j => Slot(Lent(commands, j), k) = None
  <2> HIDE DEF with, first
  <2> QED BY <1>1, <1>2, SlotOfOne
<1>5. CASE with(k) = {}
  BY <1>1, <1>2, <1>4, <1>5
<1>6. CASE with(k) # {}
  <2>1. PICK i : i = first(k) /\ i \in DOMAIN commands /\ Has(ExtractSlots(commands[i]), k)
    BY <1>3, <1>6
  <2>2. Lent(commands, k) = One(k, ExtractSlots(commands[i])[k])
    BY <1>1, <1>6, <2>1
  <2>3. Slot(Lent(commands, k), k) = ExtractSlots(commands[i])[k]
    BY <2>2, SlotOfOne
  <2>4. Slot(ExtractSlots(commands[i]), k) = ExtractSlots(commands[i])[k]
    BY <2>1 DEF Slot
  <2> QED BY <1>4, <2>1, <2>3, <2>4
<1> QED BY <1>5, <1>6

-----------------------------------------------------------------------------
(***************************************************************************)
(* What the parsers make of a sentence                                     *)
(***************************************************************************)
LEMMA CanonicalNames ==
  CanonicalSubIntents = {"power_on", "power_off", "set_temperature", "adjust_brightness",
                         "query_status", "activate_scene", "backup", "unlock", "chitchat",
                         "clarify_needed", "unknown"}
BY DEF CanonicalSubIntents, SubIntentAliases

LEMMA ResultFields ==
  ASSUME NEW intent, NEW sub, NEW slots, NEW conf
  PROVE  LET r == Result(intent, sub, slots, conf) IN
         IsResult(r) /\ r.intent = intent /\ r.sub = sub /\ r.slots = slots
BY DEF Result, IsResult

\* The devices and the places the rule engine has heard.
CommandDevices(s) == {s.commands[i].device : i \in DOMAIN s.commands}
CommandPlaces(s) == {s.commands[i].location : i \in DOMAIN s.commands}

IsSentence(s) == s.commands \in Seq(Range(s.commands))

LEMMA Decided ==
  ASSUME NEW s, IsSentence(s)
  PROVE  LET r == OfDecision(s) IN
         /\ IsResult(r) /\ r.sub \in CanonicalSubIntents
         /\ Device(r.slots) \in {None} \union CommandDevices(s)
         /\ Place(r.slots) \in {None} \union CommandPlaces(s)
<1> DEFINE r == OfDecision(s)
           commands == s.commands
           n == Len(commands)
           first == OfCommand(commands[1])
           lent == Lent(commands, "location") ++ Lent(commands, "device_type")
                       ++ Lent(commands, "scene_name")
           slots == IF n > 1 THEN first.slots ++ lent ELSE first.slots
<1>1. n \in Nat /\ DOMAIN commands = 1 .. n
  BY LenProperties DEF IsSentence
<1>2. CASE commands = <<>>
  <2>1. r = Result("SCENE", "activate_scene", NoSlots, s.overall)
        \/ r = Result("CHITCHAT", "unknown", NoSlots, s.overall)
    BY <1>2 DEF OfDecision
  <2>2. IsResult(r) /\ r.sub \in {"activate_scene", "unknown"} /\ r.slots = NoSlots
    BY <2>1, ResultFields
  <2>3. \A k : Slot(NoSlots, k) = None
    BY DEF Slot, Has, NoSlots
  <2> QED BY <2>2, <2>3, CanonicalNames DEF Device, Place
<1>3. CASE commands # <<>>
  <2>1. 1 \in DOMAIN commands
    <3>1. n # 0
      BY <1>3, EmptySeq DEF IsSentence
    <3> QED BY <1>1, <3>1
  <2>2. IsResult(first) /\ first.sub = InferSubIntent(commands[1])
        /\ first.slots = ExtractSlots(commands[1])
    BY ResultFields DEF OfCommand
  <2>3. first.sub \in CanonicalSubIntents
    BY <2>2, CanonicalNames DEF InferSubIntent
  <2>4. r = [first EXCEPT !.slots = IF n > 1 THEN @ ++ lent ELSE @,
                          !.conf = IF @ < s.overall THEN s.overall ELSE @,
                          !.multi = IF n > 1
                                    THEN [i \in DOMAIN commands |-> OfCommand(commands[i])]
                                    ELSE <<>>]
    BY <1>3 DEF OfDecision
  <2>5. IsResult(r) /\ r.sub = first.sub /\ r.slots = slots
    <3> HIDE DEF first, lent, r, commands, n
    <3> QED BY <2>2, <2>4 DEF IsResult
  <2>6. Device(lent) \in {None} \union CommandDevices(s)
    <3>1. Slot(Lent(commands, "location"), "device_type") = None
          /\ Slot(Lent(commands, "scene_name"), "device_type") = None
      BY <1>1, SlotsLent
    <3>2. \/ Slot(Lent(commands, "device_type"), "device_type") = None
          \/ \E i \in DOMAIN commands : Slot(Lent(commands, "device_type"), "device_type")
                                            = Slot(ExtractSlots(commands[i]), "device_type")
      BY <1>1, SlotsLent
    <3>3. \A i \in DOMAIN commands : Slot(ExtractSlots(commands[i]), "device_type")
                                         \in {None} \union CommandDevices(s)
      BY Extracted DEF CommandDevices, Device
    <3>4. Slot(Lent(commands, "device_type"), "device_type") \in {None} \union CommandDevices(s)
      BY <3>2, <3>3
    <3> QED BY <3>1, <3>4, SlotOfJoin DEF Device
  <2>7. Place(lent) \in {None} \union CommandPlaces(s)
    <3>1. Slot(Lent(commands, "device_type"), "location") = None
          /\ Slot(Lent(commands, "scene_name"), "location") = None
      BY <1>1, SlotsLent
    <3>2. \/ Slot(Lent(commands, "location"), "location") = None
          \/ \E i \in DOMAIN commands : Slot(Lent(commands, "location"), "location")
                                            = Slot(ExtractSlots(commands[i]), "location")
      BY <1>1, SlotsLent
    <3>3. \A i \in DOMAIN commands : Slot(ExtractSlots(commands[i]), "location")
                                         \in {None} \union CommandPlaces(s)
      BY Extracted DEF CommandPlaces, Place
    <3>4. Slot(Lent(commands, "location"), "location") \in {None} \union CommandPlaces(s)
      BY <3>2, <3>3
    <3> QED BY <3>1, <3>4, SlotOfJoin DEF Place
  <2>8. Device(first.slots) \in {None} \union CommandDevices(s)
        /\ Place(first.slots) \in {None} \union CommandPlaces(s)
    BY <2>1, <2>2, Extracted DEF CommandDevices, CommandPlaces
  <2> HIDE DEF first, lent, r
  <2>9. Device(slots) \in {Device(first.slots), Device(lent)}
        /\ Place(slots) \in {Place(first.slots), Place(lent)}
    <3>1. \A f, g : Device(f ++ g) \in {Device(f), Device(g)} /\ Place(f ++ g) \in {Place(f), Place(g)}
      BY SlotOfJoin DEF Device, Place
    <3>2. CASE n > 1
      BY <3>1, <3>2
    <3>3. CASE ~(n > 1)
      BY <3>3
    <3> QED BY <3>2, <3>3
  <2> QED BY <2>3, <2>5, <2>6, <2>7, <2>8, <2>9 DEF r
<1> QED BY <1>2, <1>3

LEMMA Predicted ==
  ASSUME NEW s, NEW ctx
  PROVE  LET r == Predict(s, ctx) IN
         /\ IsResult(r) /\ r.sub \in CanonicalSubIntents
         /\ \/ Device(r.slots) \in {None, s.device, ctx.device}
            \/ r.sub = "unlock" /\ Device(r.slots) = "lock"
         /\ Place(r.slots) \in {s.location, ctx.location}
<1> DEFINE r == Predict(s, ctx)
           slots == LocalSlots(s, ctx)
           all == [location    |-> IF s.location # None THEN s.location ELSE ctx.location,
                   device_type |-> IF s.device # None THEN s.device
                                   ELSE IF "it" \in s.words THEN ctx.device ELSE None,
                   value       |-> IF s.number THEN "number" ELSE None,
                   value_unit  |-> IF s.number THEN s.unit ELSE None]
<1>1. Device(slots) \in {None, s.device, ctx.device} /\ Place(slots) \in {s.location, ctx.location}
  <2>1. slots = Present(all)
    BY DEF LocalSlots
  <2>2. Slot(all, "device_type") \in {None, s.device, ctx.device}
        /\ Slot(all, "location") \in {s.location, ctx.location}
    BY DEF Slot, Has
  <2> HIDE DEF all, slots
  <2> QED BY <2>1, <2>2, SlotOfPresent DEF Device, Place
<1>2. PICK intent, sub, mine, conf :
         /\ r = Result(intent, sub, mine, conf)
         /\ sub \in CanonicalSubIntents
         /\ \/ mine = slots
            \/ mine = slots ++ One("attribute", "brightness")
            \/ mine = slots ++ One("attribute", "temperature")
            \/ sub = "unlock" /\ mine = Default(slots, "device_type", "lock")
  <2> HIDE DEF slots
  <2> QED BY CanonicalNames DEF Predict, slots
<1> HIDE DEF slots, r
<1>3. IsResult(r) /\ r.sub = sub /\ r.slots = mine
  BY <1>2, ResultFields
<1>4. (Device(mine) = Device(slots)) \/ (sub = "unlock" /\ Device(mine) = "lock")
  <2>1. \A j, v : j # "device_type" => Device(slots ++ One(j, v)) = Device(slots)
    <3>1. ~Has(slots, "device_type") => Slot(slots, "device_type") = None
      BY DEF Slot
    <3> QED BY <3>1, SlotOfJoin, SlotOfOne DEF Device
  <2>2. Device(Default(slots, "device_type", "lock")) \in {Device(slots), "lock"}
    BY SlotOfDefault DEF Device
  <2> QED BY <1>2, <2>1, <2>2
<1>5. Place(mine) = Place(slots)
  <2>1. \A j, v : j # "location" => Place(slots ++ One(j, v)) = Place(slots)
    <3>1. ~Has(slots, "location") => Slot(slots, "location") = None
      BY DEF Slot
    <3> QED BY <3>1, SlotOfJoin, SlotOfOne DEF Place
  <2>2. Place(Default(slots, "device_type", "lock")) = Place(slots)
    BY SlotOfDefault DEF Place
  <2> QED BY <1>2, <2>1, <2>2
<1> QED BY <1>1, <1>2, <1>3, <1>4, <1>5 DEF r

LEMMA OfPayloadFields ==
  ASSUME NEW p
  PROVE  LET r == OfPayload(p) IN
         /\ IsResult(r) /\ r.slots = p.slots
         /\ r.sub \in CanonicalSubIntents \union {p.sub, p.action}
<1>1. InferFromPayload(p) \in CanonicalSubIntents \union {p.action}
  BY CanonicalNames DEF InferFromPayload
<1>2. PICK intent, sub, conf : OfPayload(p) = Result(intent, sub, p.slots, conf)
                               /\ sub \in CanonicalSubIntents \union {p.sub, p.action}
  BY <1>1, CanonicalNames DEF OfPayload
<1> QED BY <1>2, ResultFields

-----------------------------------------------------------------------------
(***************************************************************************)
(* What the canonicalizer keeps                                            *)
(***************************************************************************)
LEMMA NameStays ==
  ASSUME NEW w \in CanonicalSubIntents
  PROVE  CanonicalSubIntent(w) = w
<1>1. \A c \in CanonicalSubIntents : w \notin SubIntentAliases[c]
  BY CanonicalNames DEF SubIntentAliases, None
<1> QED BY <1>1 DEF CanonicalSubIntent

LEMMA CanonicalDevices ==
  /\ \A w : Canonical(CanonicalDevice(w))
  /\ Canonical(None) /\ Canonical("ac") /\ Canonical("lamp") /\ Canonical("lock")
  /\ Canonical("switch") /\ CanonicalDevice(None) = None /\ CanonicalDevice("lock") = "lock"
<1>1. DOMAIN DeviceWords = {"lamp", "ac", "lock", "plug", "switch"}
      /\ DeviceWords["lamp"] = {"lamp", "light"} /\ DeviceWords["ac"] = {"ac", "climate"}
      /\ DeviceWords["lock"] = {"lock"} /\ DeviceWords["plug"] = {"plug", "socket"}
      /\ DeviceWords["switch"] = {"switch"}
  BY DEF DeviceWords
<1>2. ASSUME NEW d \in DOMAIN DeviceWords PROVE CanonicalDevice(d) = d
  <2>1. \A c \in DOMAIN DeviceWords : d \in DeviceWords[c] <=> c = d
    BY <1>1
  <2>2. (CHOOSE c \in DOMAIN DeviceWords : d \in DeviceWords[c]) = d
    BY <2>1
  <2> QED BY <2>1, <2>2 DEF CanonicalDevice
<1>3. CanonicalDevice(None) = None
  <2>1. \A c \in DOMAIN DeviceWords : None \notin DeviceWords[c]
    BY <1>1 DEF None
  <2> QED BY <2>1 DEF CanonicalDevice
<1>4. ASSUME NEW w PROVE CanonicalDevice(CanonicalDevice(w)) = CanonicalDevice(w)
  <2>1. CASE \E d \in DOMAIN DeviceWords : w \in DeviceWords[d]
    <3>1. CanonicalDevice(w) \in DOMAIN DeviceWords
      BY <2>1 DEF CanonicalDevice
    <3> QED BY <3>1, <1>2
  <2>2. CASE ~(\E d \in DOMAIN DeviceWords : w \in DeviceWords[d]) /\ w \in DeviceStopwords
    <3>1. CanonicalDevice(w) = None
      BY <2>2 DEF CanonicalDevice
    <3> QED BY <3>1, <1>3
  <2>3. CASE ~(\E d \in DOMAIN DeviceWords : w \in DeviceWords[d]) /\ w \notin DeviceStopwords
    <3>1. CanonicalDevice(w) = w
      BY <2>3 DEF CanonicalDevice
    <3> QED BY <3>1
  <2> QED BY <2>1, <2>2, <2>3
<1> QED BY <1>1, <1>2, <1>3, <1>4 DEF Canonical

LEMMA DefaultsKeep ==
  ASSUME NEW sub, NEW slots
  PROVE  Device(DefaultsOf(sub, slots)) = Device(slots) /\ Place(DefaultsOf(sub, slots)) = Place(slots)
<1>1. ASSUME NEW k \in {"device_type", "location"} PROVE Slot(DefaultsOf(sub, slots), k) = Slot(slots, k)
  <2>1. \A v : Slot(Default(slots, "attribute", v), k) = Slot(slots, k)
    BY SlotOfDefault
  <2>2. \A m, unit : Slot(UnitIfValue(m, unit), k) = Slot(m, k)
    BY SlotOfUnit
  <2>3. \/ DefaultsOf(sub, slots) = UnitIfValue(Default(slots, "attribute", "temperature"), "degree")
        \/ DefaultsOf(sub, slots) = UnitIfValue(Default(slots, "attribute", "brightness"), "%")
        \/ DefaultsOf(sub, slots) = Default(slots, "attribute", "brightness")
        \/ DefaultsOf(sub, slots) = slots
    BY DEF DefaultsOf
  <2> QED BY <2>1, <2>2, <2>3
<1> QED BY <1>1 DEF Device, Place

LEMMA Normalized ==
  ASSUME NEW slots, NEW sub
  PROVE  LET m == NormalizeSlots(slots, sub) IN
         Device(m) = CanonicalDevice(Device(slots)) /\ Place(m) = Place(slots)
<1> DEFINE said == Slot(slots, "device_type")
           known == IF said = None THEN None ELSE CanonicalDevice(said)
           extra == [device_type |-> known,
                     original |-> IF known \in {None, said} THEN None ELSE said]
           rest == Without(slots, {"device_type"})
<1>1. NormalizeSlots(slots, sub) = DefaultsOf(sub, rest ++ Present(extra))
  BY DEF NormalizeSlots
<1>2. known = CanonicalDevice(said)
  BY CanonicalDevices
<1>3. Slot(extra, "device_type") = known /\ Slot(extra, "location") = None
  BY DEF Slot, Has
<1>4. ~Has(rest, "device_type") /\ Slot(rest, "location") = Slot(slots, "location")
  BY SlotOfWithout DEF Has, Without, Restrict
<1> HIDE DEF extra, rest, known
<1>5. Slot(rest ++ Present(extra), "device_type") = known
  BY <1>3, <1>4, SlotOfJoin, SlotOfPresent
<1>6. Slot(rest ++ Present(extra), "location") = Slot(slots, "location")
  <2>1. ~Has(rest, "location") => Slot(rest, "location") = None
    BY DEF Slot
  <2> QED BY <1>3, <1>4, <2>1, SlotOfJoin, SlotOfPresent
<1> QED BY <1>1, <1>2, <1>5, <1>6, DefaultsKeep DEF Device, Place

LEMMA ActionRulesKeep ==
  ASSUME NEW sub, NEW slots
  PROVE  /\ Device(ApplyActionRules(sub, slots)) \in {None, Device(slots), ImpliedDevice(sub)}
         /\ Place(ApplyActionRules(sub, slots)) = Place(slots)
<1>1. ASSUME NEW unit, NEW d
      PROVE  LET m == Without(Default(UnitIfValue(slots, unit), "device_type", d), {"scene_name"}) IN
             Device(m) \in {Device(slots), d} /\ Place(m) = Place(slots)
  BY SlotOfWithout, SlotOfDefault, SlotOfUnit DEF Device, Place
<1>2. LET m == Without(slots, {"attribute", "value", "value_unit", "device_type"}) IN
      Device(m) = None /\ Place(m) = Place(slots)
  BY SlotOfWithout DEF Device, Place
<1>3. \/ ApplyActionRules(sub, slots) = slots
      \/ ApplyActionRules(sub, slots)
             = Without(slots, {"attribute", "value", "value_unit", "device_type"})
      \/ \E unit : ApplyActionRules(sub, slots)
             = Without(Default(UnitIfValue(slots, unit), "device_type", ImpliedDevice(sub)),
                       {"scene_name"})
  BY DEF ApplyActionRules
<1> QED BY <1>1, <1>2, <1>3

LEMMA Canonicalized ==
  ASSUME NEW result, IsResult(result)
  PROVE  LET c == Canonicalize(result) IN
         /\ IsResult(c)
         /\ Device(c.slots) \in {None, CanonicalDevice(Device(result.slots)), ImpliedDevice(c.sub),
                                 NamedInWord(result.sub)}
         /\ Place(c.slots) = Place(result.slots)
         /\ Canonical(Device(c.slots))
         /\ result.sub \in CanonicalSubIntents => c.sub = result.sub
<1> DEFINE word == CanonicalSubIntent(result.sub)
           slots == NormalizeSlots(result.slots, word)
           sub == InferByFrame(result.intent, word, slots)
           ruled == ApplyActionRules(sub, slots)
           extra == [device_type |-> NamedInWord(result.sub)]
           c == Canonicalize(result)
<1>1. c = [result EXCEPT !.sub = sub, !.intent = InferIntent(result.intent, sub),
                         !.slots = ruled ++ Present(extra)]
  BY DEF Canonicalize
<1>2. IsResult(c) /\ c.sub = sub /\ c.slots = ruled ++ Present(extra)
  <2> HIDE DEF c, sub, ruled, extra
  <2> QED BY <1>1 DEF IsResult
<1>3. Slot(extra, "device_type") = NamedInWord(result.sub) /\ Slot(extra, "location") = None
  BY DEF Slot, Has
<1>4. Device(slots) = CanonicalDevice(Device(result.slots)) /\ Place(slots) = Place(result.slots)
  BY Normalized
<1>5. Device(ruled) \in {None, Device(slots), ImpliedDevice(sub)} /\ Place(ruled) = Place(slots)
  BY ActionRulesKeep
<1>6. result.sub \in CanonicalSubIntents => sub = result.sub
  BY NameStays DEF InferByFrame
<1> HIDE DEF extra, ruled, sub, slots, word, c
<1>7. Device(ruled ++ Present(extra)) \in {Device(ruled), NamedInWord(result.sub)}
  BY <1>3, SlotOfJoin, SlotOfPresent DEF Device
<1>8. Place(ruled ++ Present(extra)) = Place(ruled)
  <2>1. ~Has(ruled, "location") => Slot(ruled, "location") = None
    BY DEF Slot
  <2> QED BY <1>3, <2>1, SlotOfJoin, SlotOfPresent DEF Place
<1>9. Canonical(ImpliedDevice(sub)) /\ Canonical(NamedInWord(result.sub))
  BY CanonicalDevices DEF ImpliedDevice, NamedInWord
<1>10. Canonical(Device(c.slots))
  BY <1>2, <1>4, <1>5, <1>7, <1>9, CanonicalDevices
<1> QED BY <1>2, <1>4, <1>5, <1>6, <1>7, <1>8, <1>10 DEF c

\* A memory's slots join what is said.
LEMMA Inherited ==
  ASSUME NEW slots, NEW mem
  PROVE  /\ Device(InheritSlots(slots, mem)) \in {Device(slots), mem.device}
         /\ Place(InheritSlots(slots, mem)) \in {Place(slots), mem.location}
<1> DEFINE theirs == [location |-> mem.location, device_type |-> mem.device]
<1>1. Slot(theirs, "device_type") = mem.device /\ Slot(theirs, "location") = mem.location
  BY DEF Slot, Has
<1>2. InheritSlots(slots, mem) = slots ++ Present(theirs)
  BY DEF InheritSlots
<1> HIDE DEF theirs
<1> QED BY <1>1, <1>2, SlotOfJoin, SlotOfPresent DEF Device, Place

-----------------------------------------------------------------------------
(***************************************************************************)
(* What a sentence and an answer of the remote parser speak of             *)
(***************************************************************************)
HeardIn(heard) == IF heard = Nothing THEN NoSlots ELSE heard.slots

WordsIn(heard, sub) ==
    {sub} \union (IF heard = Nothing THEN {} ELSE {heard.sub, heard.action})

DevicesOf(s, heard, sub) ==
    {CanonicalDevice(d) : d \in {s.device, Device(HeardIn(heard))} \union CommandDevices(s)}
    \union {NamedInWord(w) : w \in WordsIn(heard, sub)} \union {ImpliedDevice(sub)}

PlacesOf(s, heard) == {s.location, Place(HeardIn(heard))} \union CommandPlaces(s)

\* Of what a result speaks: of that, or of what others (devices, places) have.
Says(s, heard, result, devices, places) ==
    /\ Canonical(Device(result.slots))
    /\ Device(result.slots) \in DevicesOf(s, heard, result.sub) \union devices
    /\ Place(result.slots) \in PlacesOf(s, heard) \union places

LEMMA RouteSays ==
  ASSUME NEW s, IsSentence(s), NEW ctx, NEW heard, NEW devices, NEW places,
         None \in devices, None \in places, ctx.device \in devices, ctx.location \in places,
         Canonical(ctx.device), NEW parsed,
         parsed = IF heard = Nothing THEN Predict(s, ctx) ELSE OfPayload(heard),
         NEW routed, routed = Route(s, OfDecision(s), parsed),
         routed.stage # "qwen" => heard = Nothing
  PROVE  /\ DOMAIN routed = {"stage", "result", "clarify"} /\ IsResult(routed.result)
         /\ Says(s, heard, routed.result, devices, places)
<1> DEFINE c == Canonicalize(OfDecision(s))
           d == Canonicalize(parsed)
<1>1. PICK stage, result, clarify :
         /\ routed = Routed(stage, result, clarify)
         /\ result = c \/ (result = d /\ stage = "qwen")
         /\ result = c => heard = Nothing \/ result = d
  <2>1. routed = Routed("rule", c, FALSE) \/ routed = Routed("tinybert", c, FALSE)
        \/ routed = Routed("qwen", d, NeedsClarification(d))
    BY DEF Route
  <2>2. Routed("rule", c, FALSE).stage = "rule" /\ Routed("tinybert", c, FALSE).stage = "tinybert"
    BY DEF Routed
  <2> HIDE DEF c, d
  <2>3. CASE routed = Routed("qwen", d, NeedsClarification(d))
    BY <2>3
  <2>4. CASE routed = Routed("rule", c, FALSE) \/ routed = Routed("tinybert", c, FALSE)
    <3>1. routed.stage \in {"rule", "tinybert"}
      BY <2>2, <2>4
    <3>2. heard = Nothing
      BY <3>1
    <3> QED BY <2>4, <3>2
  <2> QED BY <2>1, <2>3, <2>4
<1>2. DOMAIN routed = {"stage", "result", "clarify"} /\ routed.result = result
  BY <1>1 DEF Routed
<1>3. CASE result = c /\ heard = Nothing
  <2> DEFINE r == OfDecision(s)
  <2>1. /\ IsResult(r) /\ r.sub \in CanonicalSubIntents
        /\ Device(r.slots) \in {None} \union CommandDevices(s)
        /\ Place(r.slots) \in {None} \union CommandPlaces(s)
    BY Decided
  <2>2. /\ IsResult(c)
        /\ Device(c.slots) \in {None, CanonicalDevice(Device(r.slots)), ImpliedDevice(c.sub),
                                NamedInWord(c.sub)}
        /\ Place(c.slots) = Place(r.slots) /\ Canonical(Device(c.slots))
    BY <2>1, Canonicalized
  <2> HIDE DEF c, r
  <2>3. CanonicalDevice(Device(r.slots)) \in DevicesOf(s, heard, c.sub) \union devices
    BY <2>1, CanonicalDevices DEF DevicesOf
  <2>4. Device(c.slots) \in DevicesOf(s, heard, c.sub) \union devices
    BY <2>2, <2>3 DEF DevicesOf, WordsIn
  <2>5. Place(c.slots) \in PlacesOf(s, heard) \union places
    BY <2>1, <2>2 DEF PlacesOf
  <2> QED BY <1>2, <1>3, <2>2, <2>4, <2>5 DEF Says
<1>4. CASE result = d
  <2>1. /\ IsResult(parsed)
        /\ \/ parsed.sub \in CanonicalSubIntents
           \/ heard # Nothing /\ parsed.sub \in {heard.sub, heard.action}
        /\ CanonicalDevice(Device(parsed.slots)) \in devices
              \union {CanonicalDevice(s.device), CanonicalDevice(Device(HeardIn(heard)))}
           \/ (parsed.sub = "unlock" /\ CanonicalDevice(Device(parsed.slots)) = "lock")
        /\ Place(parsed.slots) \in PlacesOf(s, heard) \union places
    <3>1. CASE heard = Nothing
      BY <3>1, Predicted, CanonicalDevices DEF Canonical, PlacesOf
    <3>2. CASE heard # Nothing
      BY <3>2, OfPayloadFields DEF HeardIn, PlacesOf
    <3> QED BY <3>1, <3>2
  <2>2. /\ IsResult(d)
        /\ Device(d.slots) \in {None, CanonicalDevice(Device(parsed.slots)),
                                ImpliedDevice(d.sub), NamedInWord(parsed.sub)}
        /\ Place(d.slots) = Place(parsed.slots) /\ Canonical(Device(d.slots))
        /\ parsed.sub \in CanonicalSubIntents => d.sub = parsed.sub
    BY <2>1, Canonicalized
  <2>3. "unlock" \in CanonicalSubIntents /\ NamedInWord("unlock") = "lock"
    BY CanonicalNames DEF NamedInWord, UnlockWords
  <2> HIDE DEF d
  <2>4. NamedInWord(parsed.sub) \in DevicesOf(s, heard, d.sub)
    BY <2>1, <2>2 DEF DevicesOf, WordsIn
  <2>5. CanonicalDevice(Device(parsed.slots)) \in DevicesOf(s, heard, d.sub) \union devices
    <3>1. CASE parsed.sub = "unlock" /\ CanonicalDevice(Device(parsed.slots)) = "lock"
      BY <2>3, <2>4, <3>1
    <3>2. CASE CanonicalDevice(Device(parsed.slots)) \in devices
              \union {CanonicalDevice(s.device), CanonicalDevice(Device(HeardIn(heard)))}
      BY <3>2 DEF DevicesOf
    <3> QED BY <2>1, <3>1, <3>2
  <2>6. Device(d.slots) \in DevicesOf(s, heard, d.sub) \union devices
    BY <2>2, <2>4, <2>5 DEF DevicesOf
  <2> QED BY <1>2, <1>4, <2>1, <2>2, <2>6 DEF Says
<1> QED BY <1>1, <1>3, <1>4


-----------------------------------------------------------------------------
(***************************************************************************)
(* Misunderstandings, and whose words a command is made of                 *)
(***************************************************************************)
Marked == {"OK", "clarify", "three_times"}

Missed == {q \in Requests : job[q].code \in {"clarify", "three_times"}}
Done == {q \in Requests : job[q].code = "OK"}

\* The slots of what has been carried out.
Theirs(k) == {None} \union {Slot(job[q].result.slots, k) : q \in Done}

Recalls(m, devices, places) == m.device \in devices /\ m.location \in places

\* Where a request has been routed, and where its result is the session's as well.
HasRoute(at, k) == at = "merge" \/ (at \in {"read", "adopt"} /\ k.after = "merge")
HasResult(at, k) ==
    at \in {"clear", "execute", "success"} \/ (at \in {"read", "adopt"} /\ k.after = "success")

IsRouted(routed) ==
    DOMAIN routed = {"stage", "result", "clarify"} /\ IsResult(routed.result)

\* What is said of one request: k its variables; devices and places are those of
\* what has been carried out, n requests were not understood.
Fits(at, k, devices, places, n) ==
    /\ at \notin {"idle"} \union Answered => k.sentence \in Sentences \union Tried /\ k.user \in Users
    /\ at \notin Answered => k.code = None
    /\ at \in Afters \union {"adopt"} => Recalls(k.mem, devices, places)
    /\ at \in {"low", "success", "adopt"} => k.mem.user \in Users
    /\ at \in {"low", "adopt"} => k.mem.streak \in 0 .. n
    /\ HasRoute(at, k) => /\ IsRouted(k.result)
                          /\ Says(k.sentence, k.heard, k.result.result, devices, places)
    /\ HasResult(at, k) => Says(k.sentence, k.heard, k.result, devices, places)
    /\ k.code = "OK" => Canonical(Device(k.result.slots))
    /\ k.code = "three_times" => 3 <= n

AllFit ==
    \A r \in Requests : Fits(pc[r], job[r], Theirs("device_type"), Theirs("location"),
                             Cardinality(Missed))

SessionFits ==
    session # Nothing => /\ Recalls(session, Theirs("device_type"), Theirs("location"))
                         /\ session.user \in Users /\ session.streak <= Cardinality(Missed)

StoreFits ==
    /\ Len(history) <= MaxHistory /\ expiries \in 0 .. MaxExpiries
    /\ torn \subseteq {"session", "history"}

SpokenInv == IsFiniteSet(Missed) /\ AllFit /\ SessionFits /\ StoreFits

\* More may have been carried out, or misunderstood, than before.
LEMMA FitsStill ==
  ASSUME NEW at, NEW k, NEW devices, NEW places, NEW n \in Nat, Fits(at, k, devices, places, n),
         NEW others, NEW elsewhere, NEW m \in Nat,
         devices \subseteq others, places \subseteq elsewhere, n <= m
  PROVE  Fits(at, k, others, elsewhere, m)
<1>1. k.mem.streak \in 0 .. n => k.mem.streak \in 0 .. m
  OBVIOUS
<1>2. 3 <= n => 3 <= m
  OBVIOUS
<1>3. Recalls(k.mem, devices, places) => Recalls(k.mem, others, elsewhere)
  BY DEF Recalls
<1>4. \A result : Says(k.sentence, k.heard, result, devices, places)
                    => Says(k.sentence, k.heard, result, others, elsewhere)
  BY DEF Says
<1> HIDE DEF Recalls, Says, HasRoute, HasResult
<1> QED BY <1>1, <1>2, <1>3, <1>4 DEF Fits

LEMMA Known ==
  ASSUME SpokenInv, NEW r \in Requests
  PROVE  /\ Fits(pc[r], job[r], Theirs("device_type"), Theirs("location"), Cardinality(Missed))
         /\ Cardinality(Missed) \in Nat
         /\ pc[r] \notin Answered => job[r].code \notin Marked
<1>1. Fits(pc[r], job[r], Theirs("device_type"), Theirs("location"), Cardinality(Missed))
      /\ Cardinality(Missed) \in Nat
  BY FS_CardinalityType DEF SpokenInv, AllFit
<1> QED BY <1>1 DEF Fits, Marked, None

\* A step of one request after which as much has been carried out as before.
Moves(r, step, k) ==
    /\ To(r, step, k)
    /\ Fits(step, k, Theirs("device_type"), Theirs("location"), Cardinality(Missed))
    /\ \/ k.code \notin Marked /\ job[r].code \notin Marked
       \/ k.code = job[r].code /\ k.result = job[r].result

LEMMA MovesFit ==
  ASSUME SpokenInv, Jobs, NEW r \in Requests, NEW step, NEW k, Moves(r, step, k)
  PROVE  /\ AllFit' /\ Missed' = Missed
         /\ Theirs("device_type")' = Theirs("device_type")
         /\ Theirs("location")' = Theirs("location")
<1>1. \A q \in Requests : /\ pc'[q] = IF q = r THEN step ELSE pc[q]
                          /\ job'[q] = IF q = r THEN k ELSE job[q]
  BY DEF Jobs, To, Moves
<1>2. \A q \in Requests : job'[q].code = job[q].code
                          \/ (job'[q].code \notin Marked /\ job[q].code \notin Marked)
  BY <1>1 DEF Moves
<1>3. Missed' = Missed /\ Done' = Done
  BY <1>2 DEF Missed, Done, Marked
<1>4. \A q \in Done : job'[q].result = job[q].result
  BY <1>1 DEF Done, Moves, Marked
<1>5. \A j : {Slot(job'[q].result.slots, j) : q \in Done} = {Slot(job[q].result.slots, j) : q \in Done}
  BY <1>4
<1>6. Theirs("device_type")' = Theirs("device_type") /\ Theirs("location")' = Theirs("location")
  BY <1>3, <1>5 DEF Theirs
<1>7. \A q \in Requests : Fits(pc'[q], job'[q], Theirs("device_type"), Theirs("location"),
                               Cardinality(Missed))
  BY <1>1 DEF Moves, SpokenInv, AllFit
<1>8. AllFit'
  BY <1>3, <1>6, <1>7 DEF AllFit
<1> QED BY <1>3, <1>6, <1>8

LEMMA SameStore ==
  ASSUME SpokenInv, AllFit', Missed' = Missed, UNCHANGED <<session, history, expiries>>,
         Theirs("device_type")' = Theirs("device_type"),
         Theirs("location")' = Theirs("location"), torn' \subseteq {"session", "history"},
         Len(history) <= MaxHistory
  PROVE  SpokenInv'
<1>1. SessionFits'
  BY DEF SpokenInv, SessionFits
<1>2. IsFiniteSet(Missed)' /\ StoreFits'
  BY DEF SpokenInv, StoreFits
<1> QED BY <1>1, <1>2 DEF SpokenInv

\* Most steps: nothing stored changes.
LEMMA MovesKeep ==
  ASSUME SpokenInv, Jobs, NEW r \in Requests, NEW step, NEW k, Moves(r, step, k), UNCHANGED store
  PROVE  SpokenInv'
<1>1. torn' \subseteq {"session", "history"} /\ Len(history) <= MaxHistory
  BY DEF SpokenInv, StoreFits, store
<1> QED BY <1>1, MovesFit, SameStore DEF store

\* A request that ends without a success of it, or a word of not being understood.
LEMMA OtherFits ==
  ASSUME SpokenInv, Jobs, NEW r \in Requests, NEW step \in {"entry", "done"},
         pc[r] \notin Answered, To(r, step, Over(r, "other")), UNCHANGED store
  PROVE  SpokenInv'
<1> DEFINE k == Over(r, "other")
<1>1. k.code = "other"
  BY DEF Over, Idle
<1> HIDE DEF k
<1>2. Fits(step, k, Theirs("device_type"), Theirs("location"), Cardinality(Missed))
  BY <1>1 DEF Fits, Answered, Afters, HasRoute, HasResult
<1>3. Moves(r, step, k)
  BY <1>1, <1>2, Known DEF Moves, Marked, k
<1> QED BY <1>3, MovesKeep

LEMMA ReceiveFits ==
  ASSUME SpokenInv, Jobs, NEW r \in Requests, NEW user \in Users, NEW kind,
         NEW s \in Sentences \union Tried, Receive(r, user, kind, s)
  PROVE  SpokenInv'
<1> DEFINE k == [[Idle EXCEPT !.kind = kind, !.user = user, !.sentence = s] EXCEPT !.after = "route"]
<1>1. To(r, "read", k) /\ UNCHANGED store /\ pc[r] = "idle"
  BY DEF Receive, At, ReadThen
<1>2. k.user = user /\ k.sentence = s /\ k.after = "route" /\ k.code = None
  BY DEF Idle
<1> HIDE DEF k
<1>3. Fits("read", k, Theirs("device_type"), Theirs("location"), Cardinality(Missed))
  BY <1>2 DEF Fits, Answered, Afters, HasRoute, HasResult, None
<1>4. Moves(r, "read", k)
  BY <1>1, <1>2, <1>3, Known DEF Moves, Marked, Answered, None
<1> QED BY <1>1, <1>4, MovesKeep

LEMMA DeleteFits ==
  ASSUME SpokenInv, Jobs, NEW r \in Requests, DeleteHistory(r)
  PROVE  SpokenInv'
<1>1. /\ pc[r] = "idle" /\ To(r, "done", Idle) /\ history' = <<>>
      /\ UNCHANGED <<session, expiries, torn>>
  BY DEF DeleteHistory, At
<1>2. Idle.code = None
  BY DEF Idle
<1>3. Fits("done", Idle, Theirs("device_type"), Theirs("location"), Cardinality(Missed))
  BY <1>2 DEF Fits, Answered, Afters, HasRoute, HasResult, None
<1>4. Moves(r, "done", Idle)
  BY <1>1, <1>2, <1>3, Known DEF Moves, Marked, Answered, None
<1>5. SessionFits' /\ IsFiniteSet(Missed)'
  BY <1>1, <1>4, MovesFit DEF SpokenInv, SessionFits
<1>6. StoreFits'
  <2>1. Len(history') <= MaxHistory
    BY <1>1, DialogueBounds
  <2> QED BY <1>1, <2>1 DEF SpokenInv, StoreFits
<1> QED BY <1>4, <1>5, <1>6, MovesFit DEF SpokenInv

LEMMA GetSessionFits ==
  ASSUME SpokenInv, DialogueInv, NEW r \in Requests, GetSession(r)
  PROVE  SpokenInv'
<1> DEFINE mem == Mine(job[r].user)
           k == [job[r] EXCEPT !.mem = mem, !.read = session]
           step == IF mem = session THEN job[r].after ELSE "adopt"
           devices == Theirs("device_type")
           places == Theirs("location")
           n == Cardinality(Missed)
<1>1. pc[r] = "read" /\ To(r, step, k) /\ UNCHANGED store
  BY DEF GetSession, At
<1>2. DOMAIN job[r] = Fields /\ job[r].after \in Afters
  BY <1>1 DEF DialogueInv, Jobs, Sound
<1>3. Fits("read", job[r], devices, places, n) /\ n \in Nat /\ job[r].code \notin Marked
  BY <1>1, Known DEF Answered
<1>4. job[r].user \in Users /\ job[r].sentence \in Sentences \union Tried /\ job[r].code = None
  BY <1>3 DEF Fits, Answered
<1>5. Recalls(mem, devices, places) /\ mem.user = job[r].user /\ mem.streak \in 0 .. n
  <2>1. CASE session = Nothing
    <3>1. mem = Fresh(job[r].user)
      BY <2>1 DEF Mine
    <3>2. None \in devices /\ None \in places
      BY DEF Theirs
    <3> QED BY <1>3, <3>1, <3>2 DEF Fresh, Recalls
  <2>2. CASE session # Nothing
    <3>1. mem = [session EXCEPT !.user = job[r].user] /\ IsSession(session)
      BY <2>2 DEF Mine, DialogueInv, SessionInv
    <3>2. mem.user = job[r].user /\ mem.streak = session.streak /\ mem.device = session.device
          /\ mem.location = session.location /\ session.streak \in Nat
      BY <3>1 DEF IsSession, Parts
    <3>3. session.streak <= n /\ Recalls(session, devices, places)
      BY <2>2 DEF SpokenInv, SessionFits
    <3> QED BY <1>3, <3>2, <3>3 DEF Recalls
  <2> QED BY <2>1, <2>2
<1>6. /\ k.mem = mem /\ k.user = job[r].user /\ k.sentence = job[r].sentence
      /\ k.after = job[r].after /\ k.heard = job[r].heard /\ k.result = job[r].result
      /\ k.code = job[r].code
  BY <1>2 DEF Fields
<1>7. step = "adopt" \/ step = job[r].after
  OBVIOUS
<1> HIDE DEF k, mem, step, devices, places, n
<1>8. (HasRoute(step, k) => HasRoute("read", job[r])) /\ (HasResult(step, k) => HasResult("read", job[r]))
  BY <1>2, <1>6, <1>7 DEF HasRoute, HasResult, Afters
<1>9. Fits(step, k, devices, places, n)
  <2>1. step \notin Answered
    BY <1>2, <1>7 DEF Answered, Afters
  <2>2. HasRoute(step, k) => /\ IsRouted(k.result)
                             /\ Says(k.sentence, k.heard, k.result.result, devices, places)
    BY <1>3, <1>6, <1>8 DEF Fits
  <2>3. HasResult(step, k) => Says(k.sentence, k.heard, k.result, devices, places)
    BY <1>3, <1>6, <1>8 DEF Fits
  <2> HIDE DEF HasRoute, HasResult
  <2> QED BY <1>4, <1>5, <1>6, <2>1, <2>2, <2>3 DEF Fits, None
<1>10. Moves(r, step, k)
  BY <1>1, <1>3, <1>6, <1>9 DEF Moves, devices, places, n
<1> QED BY <1>1, <1>10, MovesKeep DEF DialogueInv

LEMMA AdoptFits ==
  ASSUME SpokenInv, DialogueInv, NEW r \in Requests, Adopt(r)
  PROVE  SpokenInv'
<1> DEFINE mem == job[r].mem
           k == [job[r] EXCEPT !.read = mem]
           step == job[r].after
           devices == Theirs("device_type")
           places == Theirs("location")
           n == Cardinality(Missed)
<1>1. pc[r] = "adopt" /\ Write(r, mem, <<>>) /\ To(r, step, k)
      /\ UNCHANGED <<history, expiries, entries>>
  BY DEF Adopt, At
<1>2. DOMAIN job[r] = Fields /\ step \in Afters
  BY <1>1 DEF DialogueInv, Jobs, Sound
<1>3. Fits("adopt", job[r], devices, places, n) /\ n \in Nat
  BY <1>1, Known
<1>4. /\ job[r].user \in Users /\ job[r].sentence \in Sentences \union Tried
      /\ job[r].code = None /\ Recalls(mem, devices, places) /\ mem.user \in Users
      /\ mem.streak \in 0 .. n
  BY <1>3 DEF Fits, Answered
<1>5. /\ k.mem = mem /\ k.user = job[r].user /\ k.sentence = job[r].sentence
      /\ k.after = step /\ k.heard = job[r].heard /\ k.result = job[r].result
      /\ k.code = job[r].code
  BY <1>2 DEF Fields
<1> HIDE DEF k, mem, step, devices, places, n
<1>6. (HasRoute(step, k) => HasRoute("adopt", job[r])) /\ (HasResult(step, k) => HasResult("adopt", job[r]))
  BY <1>2, <1>5 DEF HasRoute, HasResult, Afters, step
<1>7. Fits(step, k, devices, places, n)
  <2>1. step \notin Answered
    BY <1>2 DEF Answered, Afters
  <2>2. HasRoute(step, k) => /\ IsRouted(k.result)
                             /\ Says(k.sentence, k.heard, k.result.result, devices, places)
    BY <1>3, <1>5, <1>6 DEF Fits
  <2>3. HasResult(step, k) => Says(k.sentence, k.heard, k.result, devices, places)
    BY <1>3, <1>5, <1>6 DEF Fits
  <2> HIDE DEF HasRoute, HasResult
  <2> QED BY <1>4, <1>5, <2>1, <2>2, <2>3 DEF Fits, None
<1>8. Moves(r, step, k)
  BY <1>1, <1>5, <1>7 DEF Moves, devices, places, n
<1>9. AllFit' /\ Missed' = Missed /\ devices' = devices /\ places' = places
  BY <1>8, MovesFit DEF DialogueInv, devices, places
<1>10. session' = mem /\ torn' \subseteq torn \union {"session"}
  BY <1>1 DEF Write
<1>11. SessionFits'
  BY <1>4, <1>9, <1>10 DEF SessionFits, devices, places, n, Recalls
<1>12. IsFiniteSet(Missed)' /\ StoreFits'
  BY <1>1, <1>9, <1>10 DEF SpokenInv, StoreFits
<1> QED BY <1>9, <1>11, <1>12 DEF SpokenInv

LEMMA RouteFits ==
  ASSUME SpokenInv, DialogueInv, NEW r \in Requests, NEW answer, RouteSentence(r, answer)
  PROVE  SpokenInv'
<1> DEFINE s == job[r].sentence
           routed == Route(s, OfDecision(s), Parsed(r, answer))
           j == [job[r] EXCEPT !.heard = answer, !.result = routed]
           k == [j EXCEPT !.after = "merge"]
           devices == Theirs("device_type")
           places == Theirs("location")
           n == Cardinality(Missed)
<1>1. pc[r] = "route" /\ To(r, "read", k) /\ UNCHANGED store
      /\ (routed.stage # "qwen" => answer = Nothing)
  BY DEF RouteSentence, At, ReadThen
<1>2. DOMAIN job[r] = Fields
  BY DEF DialogueInv, Jobs, Sound
<1>3. Fits("route", job[r], devices, places, n) /\ job[r].code \notin Marked
  BY <1>1, Known DEF Answered
<1>4. job[r].user \in Users /\ s \in Sentences \union Tried /\ job[r].code = None
      /\ Recalls(job[r].mem, devices, places)
  BY <1>3 DEF Fits, Answered, Afters
<1>5. /\ k.user = job[r].user /\ k.sentence = s /\ k.after = "merge" /\ k.heard = answer
      /\ k.result = routed /\ k.code = job[r].code
  BY <1>2 DEF Fields
<1>6. IsSentence(s)
  BY <1>4, SentencesAssumption DEF IsSentence
<1>7. None \in devices /\ None \in places
  BY DEF Theirs
<1>8. \A d \in devices : Canonical(d)
  <2>1. \A q \in Done : Canonical(Device(job[q].result.slots))
    BY DEF SpokenInv, AllFit, Fits, Done
  <2> QED BY <2>1, CanonicalDevices DEF Theirs, Device
<1>9. Parsed(r, answer) = IF answer = Nothing THEN Predict(s, job[r].mem) ELSE OfPayload(answer)
  BY DEF Parsed
<1>10. IsRouted(routed) /\ Says(s, answer, routed.result, devices, places)
  <2> HIDE DEF devices, places, s, k, j
  <2>1. Canonical(job[r].mem.device) /\ job[r].mem.device \in devices /\ job[r].mem.location \in places
    BY <1>4, <1>8 DEF Recalls
  <2> QED BY <1>1, <1>6, <1>7, <1>9, <2>1, RouteSays DEF IsRouted
<1> HIDE DEF k, j, routed, s, devices, places, n
<1>11. Fits("read", k, devices, places, n)
  BY <1>4, <1>5, <1>10 DEF Fits, Answered, Afters, HasRoute, HasResult, None
<1>12. Moves(r, "read", k)
  BY <1>1, <1>3, <1>5, <1>11 DEF Moves, devices, places, n
<1> QED BY <1>1, <1>12, MovesKeep DEF DialogueInv

LEMMA MergeFits ==
  ASSUME SpokenInv, DialogueInv, NEW r \in Requests, Merge(r)
  PROVE  SpokenInv'
<1> DEFINE routed == job[r].result
           result == [routed.result EXCEPT !.slots = InheritSlots(@, job[r].mem)]
           k == [job[r] EXCEPT !.result = result]
           devices == Theirs("device_type")
           places == Theirs("location")
           n == Cardinality(Missed)
<1>1. /\ UNCHANGED store /\ pc[r] = "merge"
      /\ IF job[r].kind = "parse" THEN To(r, "done", Over(r, "other"))
         ELSE To(r, IF routed.clarify THEN "unclear" ELSE "clear", k)
  BY DEF Merge, At
<1>2. CASE job[r].kind = "parse"
  BY <1>1, <1>2, OtherFits DEF Answered, DialogueInv
<1>3. CASE job[r].kind # "parse"
  <2>1. DOMAIN job[r] = Fields
    BY DEF DialogueInv, Jobs, Sound
  <2>2. Fits("merge", job[r], devices, places, n) /\ job[r].code \notin Marked
    BY <1>1, Known DEF Answered
  <2>3. /\ job[r].user \in Users /\ job[r].sentence \in Sentences \union Tried
        /\ job[r].code = None /\ Recalls(job[r].mem, devices, places)
        /\ IsRouted(routed) /\ Says(job[r].sentence, job[r].heard, routed.result, devices, places)
    BY <2>2 DEF Fits, Answered, Afters, HasRoute
  <2>4. result.slots = InheritSlots(routed.result.slots, job[r].mem)
        /\ result.sub = routed.result.sub
    BY <2>3 DEF IsRouted, IsResult
  <2>5. /\ k.user = job[r].user /\ k.sentence = job[r].sentence /\ k.heard = job[r].heard
        /\ k.result = result /\ k.code = job[r].code
    BY <2>1 DEF Fields
  <2>6. PICK step \in {"clear", "unclear"} : To(r, step, k)
    BY <1>1, <1>3
  <2>7. \A d \in devices : Canonical(d)
    <3>1. \A q \in Done : Canonical(Device(job[q].result.slots))
      BY DEF SpokenInv, AllFit, Fits, Done
    <3> QED BY <3>1, CanonicalDevices DEF Theirs, Device
  <2> HIDE DEF k, result, routed, devices, places, n
  <2>8. Device(result.slots) \in {Device(routed.result.slots), job[r].mem.device}
        /\ Place(result.slots) \in {Place(routed.result.slots), job[r].mem.location}
    BY <2>4, Inherited
  <2>9. Says(job[r].sentence, job[r].heard, result, devices, places)
    BY <2>3, <2>4, <2>7, <2>8 DEF Says, Recalls
  <2>10. Fits(step, k, devices, places, n)
    BY <2>3, <2>5, <2>9 DEF Fits, Answered, Afters, HasRoute, HasResult, None
  <2>11. Moves(r, step, k)
    BY <2>2, <2>5, <2>6, <2>10 DEF Moves, devices, places, n
  <2> QED BY <1>1, <2>11, MovesKeep DEF DialogueInv
<1> QED BY <1>2, <1>3

\* A request goes on with what it was understood to mean.
LEMMA GoesOnFits ==
  ASSUME SpokenInv, DialogueInv, NEW r \in Requests, NEW step, NEW k, To(r, step, k),
         UNCHANGED store, pc[r] \notin Answered \union {"idle"},
         step \in {"read", "execute", "multi"},
         k.user = job[r].user, k.sentence = job[r].sentence, k.heard = job[r].heard,
         k.result = job[r].result, k.code = job[r].code, ~HasRoute(step, k),
         HasResult(step, k) => HasResult(pc[r], job[r])
  PROVE  SpokenInv'
<1> DEFINE devices == Theirs("device_type")
           places == Theirs("location")
           n == Cardinality(Missed)
<1>1. Fits(pc[r], job[r], devices, places, n) /\ job[r].code \notin Marked
  BY Known
<1>2. k.user \in Users /\ k.sentence \in Sentences \union Tried /\ k.code = None
      /\ (HasResult(step, k) => Says(k.sentence, k.heard, k.result, devices, places))
  BY <1>1 DEF Fits
<1> HIDE DEF devices, places, n
<1>3. Fits(step, k, devices, places, n)
  BY <1>2 DEF Fits, Answered, Afters, None
<1>4. Moves(r, step, k)
  BY <1>1, <1>3 DEF Moves, devices, places, n
<1> QED BY <1>4, MovesKeep DEF DialogueInv

LEMMA UnderstoodFits ==
  ASSUME SpokenInv, DialogueInv, NEW r \in Requests, NEW c,
         Clarify(r) \/ Chat(r) \/ ResolveEntity(r, c) \/ NoEntity(r)
  PROVE  SpokenInv'
<1>0. DOMAIN job[r] = Fields
  BY DEF DialogueInv, Jobs, Sound
<1>1. CASE Clarify(r)
  <2> DEFINE k == [job[r] EXCEPT !.after = "low"]
  <2>1. To(r, "read", k) /\ UNCHANGED store /\ pc[r] = "unclear"
    BY <1>1 DEF Clarify, At, ReadThen
  <2>2. /\ k.user = job[r].user /\ k.sentence = job[r].sentence /\ k.heard = job[r].heard
        /\ k.result = job[r].result /\ k.code = job[r].code /\ k.after = "low"
    BY <1>0 DEF Fields
  <2> HIDE DEF k
  <2> QED BY <2>1, <2>2, GoesOnFits DEF Answered, HasRoute, HasResult
<1>2. CASE Chat(r)
  <2>1. To(r, "entry", Over(r, "other")) /\ UNCHANGED store /\ pc[r] = "clear"
    BY <1>2 DEF Chat, At, Answer
  <2> QED BY <2>1, OtherFits DEF Answered, DialogueInv
<1>3. CASE ResolveEntity(r, c)
  <2>1. UNCHANGED store /\ pc[r] = "clear"
    BY <1>3 DEF ResolveEntity, At
  <2>2. To(r, "entry", Over(r, "other")) \/ To(r, "execute", job[r])
    BY <1>3 DEF ResolveEntity, Answer
  <2>3. CASE To(r, "entry", Over(r, "other"))
    BY <2>1, <2>3, OtherFits DEF Answered, DialogueInv
  <2>4. CASE To(r, "execute", job[r])
    BY <2>1, <2>4, GoesOnFits DEF Answered, HasRoute, HasResult
  <2> QED BY <2>2, <2>3, <2>4
<1>4. CASE NoEntity(r)
  <2>1. To(r, "execute", job[r]) /\ UNCHANGED store /\ pc[r] = "clear"
    BY <1>4 DEF NoEntity, At
  <2> QED BY <2>1, GoesOnFits DEF Answered, HasRoute, HasResult
<1> QED BY <1>1, <1>2, <1>3, <1>4

LEMMA CarriedOutFits ==
  ASSUME SpokenInv, DialogueInv, NEW r \in Requests,
         Execute(r) \/ StartMulti(r) \/ SubCommand(r) \/ EndMulti(r)
  PROVE  SpokenInv'
<1>0. DOMAIN job[r] = Fields
  BY DEF DialogueInv, Jobs, Sound
<1>1. CASE Execute(r)
  <2> DEFINE k == [job[r] EXCEPT !.after = "success"]
  <2>1. UNCHANGED store /\ pc[r] = "execute"
        /\ \/ To(r, "entry", Over(r, "other"))
           \/ To(r, "done", Over(r, "other"))
           \/ To(r, "read", k)
    BY <1>1 DEF Execute, At, Answer, ReadThen
  <2>2. /\ k.user = job[r].user /\ k.sentence = job[r].sentence /\ k.heard = job[r].heard
        /\ k.result = job[r].result /\ k.code = job[r].code /\ k.after = "success"
    BY <1>0 DEF Fields
  <2> HIDE DEF k
  <2>3. CASE To(r, "read", k)
    BY <2>1, <2>2, <2>3, GoesOnFits DEF Answered, HasRoute, HasResult
  <2> QED BY <2>1, <2>3, OtherFits DEF Answered, DialogueInv
<1>2. CASE StartMulti(r)
  <2> DEFINE k == [job[r] EXCEPT !.rest = job[r].result.multi]
  <2>1. To(r, "multi", k) /\ UNCHANGED store /\ pc[r] = "clear"
    BY <1>2 DEF StartMulti, At
  <2>2. /\ k.user = job[r].user /\ k.sentence = job[r].sentence /\ k.heard = job[r].heard
        /\ k.result = job[r].result /\ k.code = job[r].code
    BY <1>0 DEF Fields
  <2> HIDE DEF k
  <2> QED BY <2>1, <2>2, GoesOnFits DEF Answered, HasRoute, HasResult
<1>3. CASE SubCommand(r)
  <2> DEFINE k == [job[r] EXCEPT !.rest = Tail(@)]
  <2>1. UNCHANGED store /\ pc[r] = "multi"
    BY <1>3 DEF SubCommand, At
  <2>2. To(r, "multi", k) \/ To(r, "done", Over(r, "other"))
    BY <1>3 DEF SubCommand
  <2>3. /\ k.user = job[r].user /\ k.sentence = job[r].sentence /\ k.heard = job[r].heard
        /\ k.result = job[r].result /\ k.code = job[r].code
    BY <1>0 DEF Fields
  <2> HIDE DEF k
  <2>4. CASE To(r, "multi", k)
    BY <2>1, <2>3, <2>4, GoesOnFits DEF Answered, HasRoute, HasResult
  <2> QED BY <2>1, <2>2, <2>4, OtherFits DEF Answered, DialogueInv
<1>4. CASE EndMulti(r)
  <2>1. To(r, "entry", Over(r, "other")) /\ UNCHANGED store /\ pc[r] = "multi"
    BY <1>4 DEF EndMulti, At, Answer
  <2> QED BY <2>1, OtherFits DEF Answered, DialogueInv
<1> QED BY <1>1, <1>2, <1>3, <1>4

LEMMA ReadHistoryFits ==
  ASSUME SpokenInv, DialogueInv, NEW r \in Requests, ReadHistory(r)
  PROVE  SpokenInv'
<1> DEFINE k == [job[r] EXCEPT !.seen = history]
<1>1. pc[r] = "entry" /\ To(r, "write", k) /\ UNCHANGED store
  BY DEF ReadHistory, At
<1>2. k.result = job[r].result /\ k.code = job[r].code
  BY DEF DialogueInv, Jobs, Sound, Fields
<1>3. Fits("entry", job[r], Theirs("device_type"), Theirs("location"), Cardinality(Missed))
  BY <1>1, Known
<1> HIDE DEF k
<1>4. Fits("write", k, Theirs("device_type"), Theirs("location"), Cardinality(Missed))
  BY <1>2, <1>3 DEF Fits, Answered, Afters, HasRoute, HasResult
<1>5. Moves(r, "write", k)
  BY <1>1, <1>2, <1>4 DEF Moves
<1> QED BY <1>1, <1>5, MovesKeep DEF DialogueInv

LEMMA NewestIsShort ==
  ASSUME NEW h \in Seq(Requests), NEW n \in Nat \ {0}
  PROVE  Len(Newest(h, n)) <= n
<1>1. Len(h) \in Nat
  BY LenProperties
<1>2. CASE Len(h) > n
  <2>1. Len(h) - n + 1 \in 1 .. Len(h) + 1 /\ Len(h) \in Len(h) - n .. Len(h)
    BY <1>1, <1>2
  <2>2. Len(SubSeq(h, Len(h) - n + 1, Len(h))) = Len(h) - (Len(h) - n + 1) + 1
    BY <1>1, <1>2, <2>1, SubSeqProperties
  <2>3. Len(h) - (Len(h) - n + 1) + 1 = n
    BY <1>1
  <2> QED BY <1>2, <2>2, <2>3 DEF Newest
<1>3. CASE ~(Len(h) > n)
  BY <1>1, <1>3 DEF Newest
<1> QED BY <1>2, <1>3

LEMMA WriteHistoryFits ==
  ASSUME SpokenInv, DialogueInv, NEW r \in Requests, WriteHistory(r)
  PROVE  SpokenInv'
<1> DEFINE k == [job[r] EXCEPT !.seen = <<>>]
<1>1. pc[r] = "write" /\ To(r, "done", k)
  BY DEF WriteHistory, At
<1>2. job[r].seen \in Seq(Requests)
  BY <1>1 DEF DialogueInv, Jobs, Sound
<1>3. k.result = job[r].result /\ k.code = job[r].code
  BY DEF DialogueInv, Jobs, Sound, Fields
<1>4. Fits("write", job[r], Theirs("device_type"), Theirs("location"), Cardinality(Missed))
  BY <1>1, Known
<1> HIDE DEF k
<1>5. Fits("done", k, Theirs("device_type"), Theirs("location"), Cardinality(Missed))
  BY <1>3, <1>4 DEF Fits, Answered, Afters, HasRoute, HasResult
<1>6. Moves(r, "done", k)
  BY <1>1, <1>3, <1>5 DEF Moves
<1>7. /\ history' = Newest(Append(job[r].seen, r), MaxHistory)
      /\ torn' \subseteq torn \union {"history"} /\ UNCHANGED <<session, expiries>>
  BY DEF WriteHistory
<1>8. Len(history') <= MaxHistory
  <2>1. Append(job[r].seen, r) \in Seq(Requests)
    BY <1>2, AppendProperties
  <2> QED BY <1>7, <2>1, NewestIsShort, DialogueBounds
<1>9. AllFit' /\ SessionFits' /\ IsFiniteSet(Missed)'
  BY <1>6, <1>7, MovesFit DEF DialogueInv, SpokenInv, SessionFits
<1>10. StoreFits'
  BY <1>7, <1>8 DEF SpokenInv, StoreFits
<1> QED BY <1>9, <1>10 DEF SpokenInv

\* What a turn leaves of the other requests: that more was carried out or
\* misunderstood takes nothing from what is said of them.
LEMMA OthersFitStill ==
  ASSUME SpokenInv, Jobs, NEW r \in Requests, NEW k, To(r, "entry", k),
         IsFiniteSet(Missed)', Cardinality(Missed) <= Cardinality(Missed)',
         \A j : Theirs(j) \subseteq Theirs(j)',
         Fits("entry", k, Theirs("device_type")', Theirs("location")', Cardinality(Missed)')
  PROVE  AllFit'
<1>1. \A q \in Requests : /\ pc'[q] = IF q = r THEN "entry" ELSE pc[q]
                          /\ job'[q] = IF q = r THEN k ELSE job[q]
  BY DEF Jobs, To
<1>2. Cardinality(Missed) \in Nat /\ Cardinality(Missed)' \in Nat
  BY FS_CardinalityType DEF SpokenInv
<1>3. ASSUME NEW q \in Requests, q # r
      PROVE  Fits(pc'[q], job'[q], Theirs("device_type")', Theirs("location")',
                  Cardinality(Missed)')
  <2>1. Fits(pc[q], job[q], Theirs("device_type"), Theirs("location"), Cardinality(Missed))
    BY DEF SpokenInv, AllFit
  <2>2. Fits(pc[q], job[q], Theirs("device_type")', Theirs("location")', Cardinality(Missed)')
    BY <1>2, <2>1, FitsStill
  <2> QED BY <1>1, <1>3, <2>2
<1> QED BY <1>1, <1>3 DEF AllFit

LEMMA LowFits ==
  ASSUME SpokenInv, DialogueInv, NEW r \in Requests, MarkLowConfidence(r)
  PROVE  SpokenInv'
<1> DEFINE old == job[r].mem
           mem == LowTurn(old)
           k == Over(r, Tells(mem))
           n == Cardinality(Missed)
<1>1. /\ pc[r] = "low" /\ To(r, "entry", k) /\ UNCHANGED <<history, expiries>>
      /\ session' = mem /\ torn' \subseteq torn \union {"session"}
  BY DEF MarkLowConfidence, At, Answer, Write
<1>2. DOMAIN old = Parts /\ old.streak \in Nat
  BY <1>1 DEF DialogueInv, Jobs, Sound, IsSession
<1>3. /\ mem.streak = old.streak + 1 /\ mem.user = old.user
      /\ mem.device = old.device /\ mem.location = old.location
  BY <1>2 DEF LowTurn, Parts
<1>4. Fits("low", job[r], Theirs("device_type"), Theirs("location"), n) /\ n \in Nat
      /\ job[r].code \notin Marked
  BY <1>1, Known DEF Answered
<1>5. Recalls(old, Theirs("device_type"), Theirs("location")) /\ old.user \in Users
      /\ old.streak \in 0 .. n
  BY <1>4 DEF Fits, Afters
<1>6. k.code = Tells(mem)
  BY DEF Over, Idle
<1>7. k.code \in {"clarify", "three_times"} /\ (k.code = "three_times" => mem.streak >= 3)
  BY <1>6 DEF Tells
<1> HIDE DEF old, mem, k
<1>8. \A q \in Requests : job'[q] = IF q = r THEN k ELSE job[q]
  BY <1>1 DEF DialogueInv, Jobs, To
<1>9. Missed' = Missed \union {r} /\ r \notin Missed
  BY <1>4, <1>7, <1>8 DEF Missed, Marked
<1>10. IsFiniteSet(Missed)' /\ Cardinality(Missed)' = n + 1
  <2>1. IsFiniteSet(Missed \union {r}) /\ Cardinality(Missed \union {r}) = n + 1
    BY <1>9, FS_AddElement DEF SpokenInv
  <2> QED BY <1>9, <2>1
<1>11. Done' = Done /\ \A q \in Done : job'[q] = job[q]
  BY <1>4, <1>7, <1>8 DEF Done, Marked
<1>12. \A j : Theirs(j)' = Theirs(j)
  BY <1>11 DEF Theirs
<1>13. Fits("entry", k, Theirs("device_type")', Theirs("location")', Cardinality(Missed)')
  <2>1. k.code = "three_times" => 3 <= n + 1
    BY <1>3, <1>4, <1>5, <1>7
  <2> QED BY <1>7, <1>10, <2>1 DEF Fits, Answered, Afters, HasRoute, HasResult
<1>14. AllFit'
  <2>1. n <= Cardinality(Missed)'
    BY <1>4, <1>10
  <2> QED BY <1>1, <1>10, <1>12, <1>13, <2>1, OthersFitStill DEF DialogueInv
<1>15. SessionFits'
  <2>1. mem.streak <= n + 1
    BY <1>3, <1>4, <1>5
  <2> QED BY <1>1, <1>3, <1>5, <1>10, <1>12, <2>1 DEF SessionFits, Recalls
<1>16. StoreFits'
  BY <1>1 DEF SpokenInv, StoreFits
<1> QED BY <1>10, <1>14, <1>15, <1>16 DEF SpokenInv

LEMMA SuccessFits ==
  ASSUME SpokenInv, DialogueInv, NEW r \in Requests, MarkSuccessTurn(r)
  PROVE  SpokenInv'
<1> DEFINE old == job[r].mem
           slots == job[r].result.slots
           mem == SuccessTurn(old, slots)
           k == Over(r, "OK")
           n == Cardinality(Missed)
<1>1. /\ pc[r] = "success" /\ To(r, "entry", k) /\ UNCHANGED <<history, expiries>>
      /\ session' = mem /\ torn' \subseteq torn \union {"session"}
  BY DEF MarkSuccessTurn, At, Answer, Write
<1>2. DOMAIN old = Parts
  BY <1>1 DEF DialogueInv, Jobs, Sound, IsSession
<1>3. /\ mem.streak = 0 /\ mem.user = old.user
      /\ mem.device = Slot(slots, "device_type") /\ mem.location = Slot(slots, "location")
  BY <1>2 DEF SuccessTurn, Parts
<1>4. Fits("success", job[r], Theirs("device_type"), Theirs("location"), n) /\ n \in Nat
      /\ job[r].code \notin Marked
  BY <1>1, Known DEF Answered
<1>5. old.user \in Users /\ Canonical(Device(slots))
  BY <1>4 DEF Fits, HasResult, Says
<1>6. k.code = "OK" /\ k.result = job[r].result
  BY DEF Over, Idle
<1>7. k.result.slots = slots
  BY <1>6
<1> HIDE DEF old, mem, k, slots, n
<1>8. \A q \in Requests : job'[q] = IF q = r THEN k ELSE job[q]
  BY <1>1 DEF DialogueInv, Jobs, To
<1>9. Missed' = Missed
  BY <1>4, <1>6, <1>8 DEF Missed, Marked
<1>10. r \notin Done /\ Done \subseteq Done' /\ r \in Done' /\ \A q \in Done : job'[q] = job[q]
  BY <1>4, <1>6, <1>8 DEF Done, Marked
<1>11. \A j : Theirs(j) \subseteq Theirs(j)'
  BY <1>10 DEF Theirs
<1>12. mem.device \in Theirs("device_type")' /\ mem.location \in Theirs("location")'
  BY <1>3, <1>7, <1>8, <1>10 DEF Theirs
<1>13. Fits("entry", k, Theirs("device_type")', Theirs("location")', Cardinality(Missed)')
  BY <1>5, <1>6, <1>7 DEF Fits, Answered, Afters, HasRoute, HasResult
<1>14. IsFiniteSet(Missed)' /\ Cardinality(Missed)' = n
  BY <1>9 DEF SpokenInv, n
<1>15. AllFit'
  <2>1. Cardinality(Missed) <= Cardinality(Missed)'
    BY <1>4, <1>14 DEF n
  <2> QED BY <1>1, <1>11, <1>13, <1>14, <2>1, OthersFitStill DEF DialogueInv
<1>16. SessionFits'
  BY <1>1, <1>3, <1>4, <1>5, <1>12, <1>14 DEF SessionFits, Recalls
<1>17. StoreFits'
  BY <1>1 DEF SpokenInv, StoreFits
<1> QED BY <1>14, <1>15, <1>16, <1>17 DEF SpokenInv

LEMMA ExpireFits ==
  ASSUME SpokenInv, Expire
  PROVE  SpokenInv'
<1>1. /\ session' = Nothing /\ UNCHANGED <<pc, job, history, torn>>
      /\ expiries < MaxExpiries /\ expiries' = expiries + 1
  BY DEF Expire
<1>2. IsFiniteSet(Missed)' /\ AllFit'
  <2>1. Missed' = Missed /\ \A j : Theirs(j)' = Theirs(j)
    BY <1>1 DEF Missed, Theirs, Done
  <2> QED BY <1>1, <2>1 DEF SpokenInv, AllFit
<1>3. SessionFits'
  BY <1>1 DEF SessionFits
<1>4. expiries' \in 0 .. MaxExpiries
  BY <1>1, DialogueBounds DEF SpokenInv, StoreFits
<1>5. StoreFits'
  BY <1>1, <1>4 DEF SpokenInv, StoreFits
<1> QED BY <1>2, <1>3, <1>5 DEF SpokenInv

LEMMA SpokenInit == Init => SpokenInv
<1> SUFFICES ASSUME Init PROVE SpokenInv
  OBVIOUS
<1>1. \A r \in Requests : pc[r] = "idle" /\ job[r] = Idle
  BY DEF Init
<1>2. Idle.code = None
  BY DEF Idle
<1>3. Missed = {}
  BY <1>1, <1>2 DEF Missed, None
<1>4. IsFiniteSet(Missed)
  BY <1>3, FS_EmptySet
<1>5. AllFit
  BY <1>1, <1>2 DEF AllFit, Fits, Answered, Afters, HasRoute, HasResult, None
<1>6. SessionFits
  BY DEF Init, SessionFits
<1>7. StoreFits
  <2>1. Len(history) = 0 /\ expiries = 0 /\ torn = {}
    BY EmptySeq DEF Init
  <2> QED BY <2>1, DialogueBounds DEF StoreFits
<1> QED BY <1>4, <1>5, <1>6, <1>7 DEF SpokenInv

LEMMA SpokenStep ==
  ASSUME SpokenInv, DialogueInv, [Next]_vars
  PROVE  SpokenInv'
<1>1. CASE UNCHANGED vars
  <2>1. Missed' = Missed /\ \A j : Theirs(j)' = Theirs(j)
    BY <1>1 DEF vars, Missed, Theirs, Done
  <2>2. AllFit' /\ IsFiniteSet(Missed)'
    BY <1>1, <2>1 DEF vars, SpokenInv, AllFit
  <2>3. SessionFits'
    BY <1>1, <2>1 DEF vars, SpokenInv, SessionFits
  <2>4. StoreFits'
    BY <1>1 DEF vars, SpokenInv, StoreFits
  <2> QED BY <2>2, <2>3, <2>4 DEF SpokenInv
<1>2. ASSUME NEW r \in Requests, NEW u \in Users,
             \/ \E s \in Sentences : Receive(r, u, "command", s)
             \/ \E s \in Tried : Receive(r, u, "parse", s)
      PROVE  SpokenInv'
  BY <1>2, ReceiveFits DEF DialogueInv
<1>3. ASSUME NEW r \in Requests, NEW a, RouteSentence(r, a) PROVE SpokenInv'
  BY <1>3, RouteFits
<1>4. ASSUME NEW r \in Requests, NEW c,
             Clarify(r) \/ Chat(r) \/ ResolveEntity(r, c) \/ NoEntity(r)
      PROVE  SpokenInv'
  BY <1>4, UnderstoodFits
<1>5. ASSUME NEW r \in Requests,
             \/ Merge(r) \/ Execute(r) \/ StartMulti(r) \/ SubCommand(r) \/ EndMulti(r)
      PROVE  SpokenInv'
  BY <1>5, MergeFits, CarriedOutFits
<1>6. ASSUME NEW r \in Requests,
             \/ DeleteHistory(r) \/ GetSession(r) \/ Adopt(r)
             \/ MarkLowConfidence(r) \/ MarkSuccessTurn(r)
             \/ ReadHistory(r) \/ WriteHistory(r)
      PROVE  SpokenInv'
  BY <1>6, DeleteFits, GetSessionFits, AdoptFits, LowFits, SuccessFits, ReadHistoryFits,
     WriteHistoryFits DEF DialogueInv
<1>7. ASSUME Next PROVE SpokenInv'
  BY <1>2, <1>3, <1>4, <1>5, <1>6, <1>7, ExpireFits DEF Next
<1> QED BY <1>1, <1>7

-----------------------------------------------------------------------------
\* The invariant of the second part (post_api_v1_command: the streak that
\* mark_low_confidence counts, and what resolve and inherit_slots join to a
\* command).
THEOREM SpokenInvariant == ASSUME NothingIsNoSession PROVE Spec => [](DialogueInv /\ SpokenInv)
<1>1. DialogueInv /\ SpokenInv /\ [Next]_vars => (DialogueInv /\ SpokenInv)'
  BY DialogueStep, SpokenStep
<1> QED BY <1>1, DialogueInit, SpokenInit, PTL DEF Spec

\* Type correctness, and "you were not understood three times" is said only once
\* three requests were misunderstood (mark_low_confidence of dst_service.py, with
\* the session's expiry and its overlapping requests).
THEOREM DialogueIsSound == ASSUME NothingIsNoSession PROVE Spec => []DialogueSound
<1>1. ASSUME DialogueInv, SpokenInv PROVE DialogueSound
  <2>1. TypeOK
    BY <1>1 DEF TypeOK, DialogueInv, SessionInv, HistoryInv, IsSession, SpokenInv, SessionFits,
                StoreFits
  <2>2. ThriceMeansThree
    BY <1>1, FS_CardinalityType DEF ThriceMeansThree, SpokenInv, AllFit, Fits, Missed
  <2> QED BY <2>1, <2>2 DEF DialogueSound
<1> QED BY <1>1, SpokenInvariant, PTL

\* No command is carried out on a device, or in a place, that neither its own
\* request nor one carried out before it spoke of (route, canonicalize and
\* inherit_slots, up to the execution in post_api_v1_command).
THEOREM DevicesWereSpokenOf == ASSUME NothingIsNoSession PROVE Spec => []DevicesSpokenOf
<1>1. ASSUME SpokenInv PROVE DevicesSpokenOf
  <2> SUFFICES ASSUME NEW r \in Requests, pc[r] = "execute"
               PROVE  LET before == {q \in Requests \ {r} : job[q].code = "OK"}
                          theirs(k) == {Slot(job[q].result.slots, k) : q \in before} IN
                      /\ Slot(job[r].result.slots, "device_type")
                             \in {None} \union SpokenDevices(r) \union theirs("device_type")
                      /\ Slot(job[r].result.slots, "location")
                             \in {None} \union SpokenPlaces(r) \union theirs("location")
    BY DEF DevicesSpokenOf, At
  <2> DEFINE before == {q \in Requests \ {r} : job[q].code = "OK"}
             theirs(k) == {Slot(job[q].result.slots, k) : q \in before}
  <2>1. Fits("execute", job[r], Theirs("device_type"), Theirs("location"), Cardinality(Missed))
        /\ job[r].code \notin Marked
    BY <1>1, Known DEF Answered
  <2>2. Says(job[r].sentence, job[r].heard, job[r].result, Theirs("device_type"),
             Theirs("location"))
    BY <2>1 DEF Fits, HasResult
  <2>3. before = Done
    BY <2>1 DEF Done, Marked
  <2>4. \A k : Theirs(k) = {None} \union theirs(k)
    BY <2>3 DEF Theirs
  <2>5. HeardIn(job[r].heard) = Heard(r) /\ WordsIn(job[r].heard, job[r].result.sub) = HeardWords(r)
    BY DEF HeardIn, Heard, WordsIn, HeardWords
  <2>6. /\ DevicesOf(job[r].sentence, job[r].heard, job[r].result.sub) = SpokenDevices(r)
        /\ PlacesOf(job[r].sentence, job[r].heard) = SpokenPlaces(r)
    BY <2>5 DEF DevicesOf, PlacesOf, SpokenDevices, SpokenPlaces, CommandDevices, CommandPlaces,
                Device, Place
  <2> HIDE DEF before, theirs
  <2>7. /\ Device(job[r].result.slots) \in {None} \union SpokenDevices(r) \union theirs("device_type")
        /\ Place(job[r].result.slots) \in {None} \union SpokenPlaces(r) \union theirs("location")
    BY <2>2, <2>4, <2>6 DEF Says
  <2> QED BY <2>7 DEF Device, Place, before, theirs
<1> QED BY <1>1, SpokenInvariant, PTL
=============================================================================

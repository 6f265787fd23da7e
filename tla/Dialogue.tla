------------------------------- MODULE Dialogue -------------------------------
(***************************************************************************)
(* One session of the NLU runtime: the turns of post_api_v1_command, with  *)
(* what they read and write outside themselves - the session state of      *)
(* runtime/dst_service.py and the session history of the backend, each     *)
(* read, changed and written back.  nlu_parse and the deletion of the      *)
(* history touch the same state.                                           *)
(*                                                                         *)
(* Every request has a thread of its own; one action is what it does from  *)
(* one access to that state to the next.  What policy and executor do with *)
(* a command is in CommandFlow: here a command succeeds, fails, or is      *)
(* turned down.  The bus for hard examples is in ParserThreads.            *)
(***************************************************************************)
EXTENDS Nlu, FiniteSets, SequencesExt

CONSTANTS
    Requests,     \* the HTTP requests of the session
    Users,        \* user_id values
    Sentences,    \* bound: what is said
    Tried,        \* bound: what is given to nlu_parse
    Payloads,     \* bound: what the remote parser answers
    Found,        \* bound: the candidates the entity resolver returns
    Nothing,      \* no session stored, no answer of the remote parser, not there yet
    MaxActive,    \* bound: requests in progress at once
    MaxHistory,   \* entries a session's history keeps (120 in the code)
    MaxExpiries   \* bound: times the session's time to live runs out

ASSUME DialogueBounds ==
    /\ MaxActive \in Nat \ {0} /\ MaxHistory \in Nat \ {0} /\ MaxExpiries \in Nat

\* What the rule engine decides is a list of commands.
ASSUME SentencesAssumption ==
    \A s \in Sentences \union Tried : s.commands \in Seq(Range(s.commands))

VARIABLES
    pc,        \* where each request is
    job,       \* its local variables
    session,   \* the stored session state
    history,   \* the stored history: requests
    expiries,  \* times the session has expired so far
    entries,   \* history: the entries since the history was last deleted
    turns,     \* history: what the session's turns were, since it was created
    torn       \* history: "session" or "history" once overlapping changes met

vars == <<pc, job, session, history, expiries, entries, turns, torn>>
store == <<session, history, expiries, entries, turns, torn>>
-----------------------------------------------------------------------------
Fresh(user) == [user |-> user, device |-> None, location |-> None, streak |-> 0, turns |-> 0]

Idle == [kind |-> None, user |-> Nothing, sentence |-> Nothing, heard |-> Nothing,
         read |-> Nothing, mem |-> Nothing, result |-> Nothing, rest |-> <<>>, seen |-> <<>>,
         after |-> None, code |-> None]

Init ==
    /\ pc = [r \in Requests |-> "idle"] /\ job = [r \in Requests |-> Idle]
    /\ session = Nothing /\ history = <<>> /\ expiries = 0
    /\ entries = <<>> /\ turns = <<>> /\ torn = {}

At(r, step) == pc[r] = step
To(r, step, new) == /\ pc' = [pc EXCEPT ![r] = step] /\ job' = [job EXCEPT ![r] = new]

Active == {r \in Requests : pc[r] \notin {"idle", "done"}}

\* get_session, after which the handler goes on at "after".
ReadThen(r, after, new) == To(r, "read", [new EXCEPT !.after = after])

\* What is answered matters of misunderstandings and of what was carried out; the
\* latter's result as well.
Over(r, code) == [Idle EXCEPT !.code = code,
                              !.result = IF code = "OK" THEN job[r].result ELSE Nothing]

Answer(r, code) == To(r, "entry", Over(r, code))

Receive(r, user, kind, s) ==
    /\ At(r, "idle") /\ Cardinality(Active) < MaxActive
    /\ ReadThen(r, "route", [Idle EXCEPT !.kind = kind, !.user = user, !.sentence = s])
    /\ UNCHANGED store

DeleteHistory(r) ==
    /\ At(r, "idle")
    /\ To(r, "done", Idle)
    /\ history' = <<>> /\ entries' = <<>>
    /\ UNCHANGED <<session, expiries, turns, torn>>
-----------------------------------------------------------------------------
(***************************************************************************)
(* DstService: read, change, write back.                                   *)
(***************************************************************************)
\* What get_session makes of the stored state: it is created for a user who
\* finds none, and taken over by another user.
Mine(user) == IF session = Nothing THEN Fresh(user) ELSE [session EXCEPT !.user = user]

GetSession(r) ==
    /\ At(r, "read")
    /\ LET mem == Mine(job[r].user) IN
       To(r, IF mem = session THEN job[r].after ELSE "adopt",
          [job[r] EXCEPT !.mem = mem, !.read = session])
    /\ UNCHANGED store

\* Once somebody has changed the session since it was read, a write is lost.
Write(r, mem, turn) ==
    /\ session' = mem
    /\ turns' = IF session = Nothing THEN turn ELSE turns \o turn
    /\ torn' = IF session = job[r].read THEN torn ELSE torn \union {"session"}

Adopt(r) ==
    /\ At(r, "adopt")
    /\ Write(r, job[r].mem, <<>>)
    /\ To(r, job[r].after, [job[r] EXCEPT !.read = job[r].mem])
    /\ UNCHANGED <<history, expiries, entries>>

\* Slots that are not said are those of the session's last command.
InheritSlots(slots, mem) ==
    slots ++ Present([location |-> mem.location, device_type |-> mem.device])

\* A bug: every turn counts.
CountsTurns(mem) == [mem EXCEPT !.streak = mem.turns + 1, !.turns = @ + 1]

LowTurn(mem) == [mem EXCEPT !.streak = @ + 1, !.turns = @ + 1]

\* A bug: a success does not end the streak.
KeepsStreak(mem, slots) ==
    [mem EXCEPT !.device = Slot(slots, "device_type"), !.location = Slot(slots, "location"),
                !.turns = @ + 1]

SuccessTurn(mem, slots) ==
    [mem EXCEPT !.device = Slot(slots, "device_type"), !.location = Slot(slots, "location"),
                !.streak = 0, !.turns = @ + 1]

Tells(mem) == IF mem.streak >= 3 THEN "three_times" ELSE "clarify"

\* A bug: what was not understood is remembered as well.
RemembersUnclear(r) ==
    /\ At(r, "low")
    /\ LET mem == [LowTurn(job[r].mem) EXCEPT
                      !.device = Slot(job[r].result.slots, "device_type")] IN
       /\ Write(r, mem, <<[req |-> r, low |-> TRUE]>>)
       /\ Answer(r, Tells(mem))
    /\ UNCHANGED <<history, expiries, entries>>

MarkLowConfidence(r) ==
    /\ At(r, "low")
    /\ LET mem == LowTurn(job[r].mem) IN
       /\ Write(r, mem, <<[req |-> r, low |-> TRUE]>>)
       /\ Answer(r, Tells(mem))
    /\ UNCHANGED <<history, expiries, entries>>

MarkSuccessTurn(r) ==
    /\ At(r, "success")
    /\ Write(r, SuccessTurn(job[r].mem, job[r].result.slots), <<[req |-> r, low |-> FALSE]>>)
    /\ Answer(r, "OK")
    /\ UNCHANGED <<history, expiries, entries>>

\* Redis forgets a session that has not been written for five minutes.
Expire ==
    /\ session # Nothing /\ expiries < MaxExpiries
    /\ session' = Nothing /\ expiries' = expiries + 1 /\ turns' = <<>>
    /\ UNCHANGED <<pc, job, history, entries, torn>>
-----------------------------------------------------------------------------
(***************************************************************************)
(* The sentence is routed, and the session's slots join it.                *)
(***************************************************************************)
\* Asked for its own sake only when neither the rules nor the main model will
\* do; the remote parser may fail, and the local one is used.
Parsed(r, answer) ==
    IF answer = Nothing THEN Predict(job[r].sentence, job[r].mem) ELSE OfPayload(answer)

RouteSentence(r, answer) ==
    /\ At(r, "route")
    /\ LET s == job[r].sentence
           routed == Route(s, OfDecision(s), Parsed(r, answer))
       IN  /\ routed.stage # "qwen" => answer = Nothing
           /\ ReadThen(r, "merge", [job[r] EXCEPT !.heard = answer, !.result = routed])
    /\ UNCHANGED store

\* From here on "result" is the result alone.
Merge(r) ==
    /\ At(r, "merge")
    /\ LET routed == job[r].result
           result == [routed.result EXCEPT !.slots = InheritSlots(@, job[r].mem)]
       IN  IF job[r].kind = "parse" THEN To(r, "done", Over(r, "other"))
           ELSE To(r, IF routed.clarify THEN "unclear" ELSE "clear",
                   [job[r] EXCEPT !.result = result])
    /\ UNCHANGED store

Clarify(r) ==
    /\ At(r, "unclear")
    /\ ReadThen(r, "low", job[r])
    /\ UNCHANGED store

Chat(r) ==
    /\ At(r, "clear")
    /\ job[r].result.intent = "CHITCHAT" /\ job[r].result.sub \in {"chitchat", "unknown"}
    /\ Answer(r, "other")
    /\ UNCHANGED store
-----------------------------------------------------------------------------
(***************************************************************************)
(* The command finds its device and is carried out.                        *)
(***************************************************************************)
\* A candidate is its name and the number its id ends with, 0 if there is none.
SameName(candidates) ==
    \E i, j \in DOMAIN candidates : i # j /\ candidates[i].name = candidates[j].name

\* A digit of the sentence is taken for such a number, whatever it was said of.
PickCandidate(candidates, index) ==
    CASE index = 0 -> ~SameName(candidates)
      [] index = 1 -> \E i \in DOMAIN candidates : candidates[i].number \in {0, 1}
      [] OTHER     -> \E i \in DOMAIN candidates : candidates[i].number = index

NeedsEntity(result) ==
    result.intent \in {"CONTROL", "QUERY", "SCENE"} /\ ~Has(result.slots, "entity_id")

\* No device, several, or one that the command may now go to.
ResolveEntity(r, candidates) ==
    /\ At(r, "clear") /\ job[r].result.intent # "CHITCHAT"
    /\ Len(job[r].result.multi) <= 1 /\ NeedsEntity(job[r].result)
    /\ IF candidates = <<>>
       THEN Answer(r, "other")
       ELSE IF PickCandidate(candidates, job[r].sentence.index)
       THEN To(r, "execute", job[r])
       ELSE Answer(r, "other")
    /\ UNCHANGED store

NoEntity(r) ==
    /\ At(r, "clear") /\ Len(job[r].result.multi) <= 1 /\ ~NeedsEntity(job[r].result)
    /\ job[r].result.intent = "CHITCHAT" => job[r].result.sub = "clarify_needed"
    /\ To(r, "execute", job[r])
    /\ UNCHANGED store

\* int() of a value that is a word raises.
Raises(result) ==
    /\ result.sub \in {"set_temperature", "adjust_brightness"}
    /\ Slot(result.slots, "value") = "word"

\* Policy and executor; what is denied or waits for its confirmation is only
\* entered in the history.
Execute(r) ==
    /\ At(r, "execute")
    /\ \/ Answer(r, "other")
       \/ Raises(job[r].result) /\ To(r, "done", Over(r, "other"))
       \/ ~Raises(job[r].result) /\ ReadThen(r, "success", job[r])
    /\ UNCHANGED store

\* The commands of one sentence, each canonicalized anew.
StartMulti(r) ==
    /\ At(r, "clear") /\ Len(job[r].result.multi) > 1
    /\ job[r].result.intent = "CHITCHAT" => job[r].result.sub = "clarify_needed"
    /\ To(r, "multi", [job[r] EXCEPT !.rest = job[r].result.multi])
    /\ UNCHANGED store

\* A command that succeeds, fails, is denied or has no device: none is a turn of
\* the session.
SubCommand(r) ==
    /\ At(r, "multi") /\ job[r].rest # <<>>
    /\ LET sub == Canonicalize(Head(job[r].rest))
           new == [job[r] EXCEPT !.rest = Tail(@)]
       IN  \/ To(r, "multi", new)
           \/ Raises(sub) /\ To(r, "done", Over(r, "other"))
    /\ UNCHANGED store

EndMulti(r) ==
    /\ At(r, "multi") /\ job[r].rest = <<>>
    /\ Answer(r, "other")
    /\ UNCHANGED store
-----------------------------------------------------------------------------
(***************************************************************************)
(* The answer is entered in the session's history: read, append, write.    *)
(***************************************************************************)
ReadHistory(r) ==
    /\ At(r, "entry")
    /\ To(r, "write", [job[r] EXCEPT !.seen = history])
    /\ UNCHANGED store

\* A bug: a full history takes nothing more in.
Oldest(seq, n) == IF Len(seq) > n THEN SubSeq(seq, 1, n) ELSE seq

Newest(seq, n) == IF Len(seq) > n THEN SubSeq(seq, Len(seq) - n + 1, Len(seq)) ELSE seq

WriteHistory(r) ==
    /\ At(r, "write")
    /\ history' = Newest(Append(job[r].seen, r), MaxHistory)
    /\ entries' = Append(entries, r)
    /\ torn' = IF history = job[r].seen THEN torn ELSE torn \union {"history"}
    /\ To(r, "done", [job[r] EXCEPT !.seen = <<>>])
    /\ UNCHANGED <<session, expiries, turns>>

Next ==
    \/ \E r \in Requests, u \in Users :
         \/ \E s \in Sentences : Receive(r, u, "command", s)
         \/ \E s \in Tried : Receive(r, u, "parse", s)
    \/ \E r \in Requests, a \in Payloads \union {Nothing} : RouteSentence(r, a)
    \/ \E r \in Requests, c \in Found : ResolveEntity(r, c)
    \/ \E r \in Requests :
         \/ DeleteHistory(r) \/ GetSession(r) \/ Adopt(r) \/ Merge(r) \/ Clarify(r) \/ Chat(r)
         \/ MarkLowConfidence(r) \/ MarkSuccessTurn(r)
         \/ NoEntity(r) \/ Execute(r) \/ StartMulti(r) \/ SubCommand(r) \/ EndMulti(r)
         \/ ReadHistory(r) \/ WriteHistory(r)
    \/ Expire

Spec == Init /\ [][Next]_vars
-----------------------------------------------------------------------------
TypeOK ==
    /\ session # Nothing =>
           session.user \in Users /\ session.streak \in Nat /\ session.turns \in Nat
    /\ history \in Seq(Requests) /\ Len(history) <= MaxHistory
    /\ expiries \in 0 .. MaxExpiries /\ torn \subseteq {"session", "history"}

\* Who is told that he was not understood three times was so three times at least,
\* however his requests and the expiry of the session overlap.
ThriceMeansThree ==
    \A r \in Requests : job[r].code = "three_times" =>
        Cardinality({q \in Requests : job[q].code \in {"clarify", "three_times"}}) >= 3

\* Type correctness, and what holds of the third misunderstanding.
DialogueSound == TypeOK /\ ThriceMeansThree

Successes == {i \in DOMAIN turns : ~turns[i].low}
LastSuccess == IF Successes = {} THEN 0 ELSE Max(Successes)

\* As long as no two requests changed the session at once, it counts its turns,
\* its streak is that of the turns since the last success, and the device and
\* the place it remembers are those of that very success.
SessionRemembers ==
    "session" \notin torn /\ session # Nothing =>
        /\ session.turns = Len(turns)
        /\ session.streak = Len(turns) - LastSuccess
        /\ LET slots == IF LastSuccess = 0 THEN NoSlots
                        ELSE job[turns[LastSuccess].req].result.slots IN
           /\ session.device = Slot(slots, "device_type")
           /\ session.location = Slot(slots, "location")

\* As long as no two requests changed the history at once, it holds the newest of
\* the turns answered since it was last deleted, each once, in their order.
HistoryWhole ==
    "history" \notin torn =>
        /\ Len(history) = IF Len(entries) < MaxHistory THEN Len(entries) ELSE MaxHistory
        /\ \A i \in DOMAIN history : history[i] = entries[Len(entries) - Len(history) + i]

\* What a request speaks of itself, its parser's answer included.
Heard(r) == IF job[r].heard = Nothing THEN NoSlots ELSE job[r].heard.slots
HeardWords(r) == {job[r].result.sub} \union
    (IF job[r].heard = Nothing THEN {} ELSE {job[r].heard.sub, job[r].heard.action})

SpokenDevices(r) ==
    {CanonicalDevice(d) : d \in {job[r].sentence.device, Slot(Heard(r), "device_type")}
        \union {job[r].sentence.commands[i].device : i \in DOMAIN job[r].sentence.commands}}
    \union {NamedInWord(w) : w \in HeardWords(r)} \union {ImpliedDevice(job[r].result.sub)}

SpokenPlaces(r) ==
    {job[r].sentence.location, Slot(Heard(r), "location")}
        \union {job[r].sentence.commands[i].location : i \in DOMAIN job[r].sentence.commands}

\* A command is never carried out on a device, or in a place, that nobody spoke
\* of: its own request did, or one of the session's that has been carried out.
\* (The words for scenes and for backups speak of the air conditioner.)
DevicesSpokenOf ==
    \A r \in Requests : At(r, "execute") =>
        LET before == {q \in Requests \ {r} : job[q].code = "OK"}
            theirs(k) == {Slot(job[q].result.slots, k) : q \in before} IN
        /\ Slot(job[r].result.slots, "device_type")
               \in {None} \union SpokenDevices(r) \union theirs("device_type")
        /\ Slot(job[r].result.slots, "location")
               \in {None} \union SpokenPlaces(r) \union theirs("location")
=============================================================================

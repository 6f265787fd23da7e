---------------------------- MODULE ParserThreads ----------------------------
(***************************************************************************)
(* What the threads of the NLU runtime share without a lock: the cache of  *)
(* parsed sentences of runtime/nlu_rule_engine.py, and the topic of hard   *)
(* examples of runtime/event_bus.py.  Each operation on the dictionary and *)
(* on the list is atomic, and a thread may be suspended between two.       *)
(*                                                                         *)
(* Some names say "shared", for the proofs are about the adapter as well.   *)
(*                                                                         *)
(* A thread parses a sentence, and may then have a hard example to publish *)
(* - a sentence of low confidence, a command that failed.                  *)
(***************************************************************************)
EXTENDS HttpThreads, RuleEngine, FiniteSets

CONSTANTS
    Vocabulary,  \* the words that clauses are made of
    Parties,     \* bound: which threads there are, which sentences they are asked and what
                 \* has been parsed before: [crew, texts, warm]
    MaxSize,     \* sentences the cache holds (2000 in the code)
    MaxEvents,   \* events a topic holds (300 in the code)
    MaxStale     \* bound: cached sentences whose time to live (an hour) runs out

\* Fewer threads than places, as there are: then a cache that is full does not
\* run empty under them.
ASSUME SharedBounds ==
    /\ MaxSize \in Nat /\ MaxEvents \in Nat \ {0} /\ MaxStale \in Nat
    /\ IsFiniteSet(Threads) /\ Threads # {} /\ MaxSize >= Cardinality(Threads)

\* The cache begins within its size, each sentence in it once.
ASSUME PartiesAssumption ==
    \A p \in Parties :
        /\ p.warm \in Seq(ToSet(p.warm)) /\ Len(p.warm) <= MaxSize
        /\ \A i, j \in DOMAIN p.warm : p.warm[i] = p.warm[j] => i = j

ASSUME TextsAssumption == \A p \in Parties : \A s \in p.texts : IsSentence(s, Vocabulary)

VARIABLES
    party,    \* one of Parties
    pc,       \* where each thread is
    text,     \* the sentence it was asked
    answer,   \* what it has parsed it as, or found in the cache
    parsed,   \* the OrderedDict, the oldest first: [text, commands, stale]
    bucket,   \* the topic: events by number
    said,     \* history: events published
    cut,      \* how many events a thread is about to delete
    staled,   \* entries that became stale so far
    robbed    \* history: the threads whose sentence another one took out of the cache

sharedVars == <<party, pc, text, answer, parsed, bucket, said, cut, staled, robbed>>
ofCache == <<parsed, staled, robbed>>
ofBus == <<bucket, said, cut>>
-----------------------------------------------------------------------------
Entry(s) == [text |-> s, commands |-> Parse(s), stale |-> FALSE]

\* A topic that is full, and the cache as earlier requests have left it.
SharedInit ==
    /\ party \in Parties
    /\ pc = [t \in Threads |-> "idle"] /\ text = [t \in Threads |-> <<>>]
    /\ answer = [t \in Threads |-> <<>>] /\ cut = [t \in Threads |-> 0]
    /\ parsed = [i \in DOMAIN party.warm |-> Entry(party.warm[i])]
    /\ said = MaxEvents /\ bucket = [i \in 1 .. MaxEvents |-> i]
    /\ staled = 0 /\ robbed = {}

Stands(t, step) == pc[t] = step
To(t, step) == pc' = [pc EXCEPT ![t] = step]

Cached == {parsed[i].text : i \in DOMAIN parsed}
PlaceOf(s) == CHOOSE i \in DOMAIN parsed : parsed[i].text = s
EntryOf(s) == parsed[PlaceOf(s)]
Others(s) == RemoveAt(parsed, PlaceOf(s))

Receive(t, s) ==
    /\ Stands(t, "idle") /\ t \in party.crew
    /\ To(t, "look") /\ text' = [text EXCEPT ![t] = s]
    /\ UNCHANGED <<party, answer, ofCache, ofBus>>
-----------------------------------------------------------------------------
(***************************************************************************)
(* get and set of the cache.  An operation on a sentence that is not there *)
(* any more raises, and so does the request.                               *)
(***************************************************************************)
LookUp(t) ==
    /\ Stands(t, "look")
    /\ To(t, IF text[t] \in Cached THEN "fetch" ELSE "parse")
    /\ UNCHANGED <<party, text, answer, ofCache, ofBus>>

Raise(t) ==
    /\ text[t] \notin Cached /\ To(t, "raised")
    /\ UNCHANGED <<party, text, answer, ofCache, ofBus>>

Fetch(t) ==
    /\ Stands(t, "fetch")
    /\ \/ Raise(t)
       \/ /\ text[t] \in Cached
          /\ answer' = [answer EXCEPT ![t] = EntryOf(text[t]).commands]
          /\ To(t, IF EntryOf(text[t]).stale THEN "drop" ELSE "touch")
          /\ UNCHANGED <<party, text, ofCache, ofBus>>

\* What is taken out is missed by those who have looked it up.
Take(s, t) ==
    /\ parsed' = Others(s)
    /\ robbed' = robbed \union {u \in Threads \ {t} : text[u] = s}

DropStale(t) ==
    /\ Stands(t, "drop")
    /\ \/ Raise(t)
       \/ /\ text[t] \in Cached
          /\ Take(text[t], t) /\ To(t, "parse")
          /\ UNCHANGED <<party, text, answer, staled, ofBus>>

MoveToEnd(t) ==
    /\ pc[t] \in {"touch", "settle"}
    /\ \/ Raise(t)
       \/ /\ text[t] \in Cached
          /\ parsed' = Append(Others(text[t]), EntryOf(text[t]))
          /\ To(t, "answered")
          /\ UNCHANGED <<party, text, answer, staled, robbed, ofBus>>

ParseText(t) ==
    /\ Stands(t, "parse")
    /\ answer' = [answer EXCEPT ![t] = Parse(text[t])]
    /\ To(t, "room")
    /\ UNCHANGED <<party, text, ofCache, ofBus>>

MakeRoom(t) ==
    /\ Stands(t, "room")
    /\ To(t, IF Len(parsed) >= MaxSize THEN "evict" ELSE "insert")
    /\ UNCHANGED <<party, text, answer, ofCache, ofBus>>

Evict(t) ==
    /\ Stands(t, "evict")
    /\ Take(Head(parsed).text, t) /\ To(t, "insert")
    /\ UNCHANGED <<party, text, answer, staled, ofBus>>

Insert(t) ==
    /\ Stands(t, "insert")
    /\ LET new == [text |-> text[t], commands |-> answer[t], stale |-> FALSE] IN
       parsed' = IF text[t] \notin Cached THEN Append(parsed, new)
                ELSE [i \in DOMAIN parsed |-> IF parsed[i].text = text[t] THEN new ELSE parsed[i]]
    /\ To(t, "settle")
    /\ UNCHANGED <<party, text, answer, staled, robbed, ofBus>>

BecomeStale(i) ==
    /\ staled < MaxStale /\ i \in DOMAIN parsed /\ ~parsed[i].stale
    /\ parsed' = [parsed EXCEPT ![i].stale = TRUE] /\ staled' = staled + 1
    /\ UNCHANGED <<party, pc, text, answer, robbed, ofBus>>
-----------------------------------------------------------------------------
(***************************************************************************)
(* publish: append, look at the length, look again for how much is too     *)
(* much, delete that from the front.                                       *)
(***************************************************************************)
Finish(t) ==
    /\ Stands(t, "answered") /\ To(t, "done")
    /\ UNCHANGED <<party, text, answer, ofCache, ofBus>>

Publish(t) ==
    /\ Stands(t, "answered") /\ To(t, "check")
    /\ said' = said + 1 /\ bucket' = Append(bucket, said')
    /\ UNCHANGED <<party, text, answer, ofCache, cut>>

Check(t) ==
    /\ Stands(t, "check")
    /\ To(t, IF Len(bucket) > MaxEvents THEN "measure" ELSE "done")
    /\ UNCHANGED <<party, text, answer, ofCache, ofBus>>

\* Below zero if others have deleted too much meanwhile.
Overflow(length) == length - MaxEvents

Measure(t) ==
    /\ Stands(t, "measure") /\ To(t, "delete")
    /\ cut' = [cut EXCEPT ![t] = Overflow(Len(bucket))]
    /\ UNCHANGED <<party, text, answer, ofCache, bucket, said>>

\* A bug: the newest go.
KeepFront(events, n) == SubSeq(events, 1, Len(events) - (IF n >= 0 THEN n ELSE 0))

\* del bucket[:n], which for an n below zero spares the last -n.
WithoutFirst(events, n) ==
    LET first == IF n >= 0 THEN n ELSE Max({0, Len(events) + n}) IN
    SubSeq(events, first + 1, Len(events))

Delete(t) ==
    /\ Stands(t, "delete") /\ To(t, "done")
    /\ bucket' = WithoutFirst(bucket, cut[t]) /\ cut' = [cut EXCEPT ![t] = 0]
    /\ UNCHANGED <<party, text, answer, ofCache, said>>

SharedNext ==
    \/ \E t \in Threads :
         \/ \E s \in party.texts : Receive(t, s)
         \/ LookUp(t) \/ Fetch(t) \/ DropStale(t) \/ MoveToEnd(t) \/ ParseText(t)
         \/ MakeRoom(t) \/ Evict(t) \/ Insert(t)
         \/ Finish(t) \/ Publish(t) \/ Check(t) \/ Measure(t) \/ Delete(t)
    \/ \E i \in 1 .. MaxSize : BecomeStale(i)

SharedSpec == SharedInit /\ [][SharedNext]_sharedVars
-----------------------------------------------------------------------------
Ended == {"idle", "done", "raised"}

SharedTypeOK ==
    /\ pc \in [Threads -> Ended \union {"look", "fetch", "drop", "touch", "parse", "room", "evict",
                                        "insert", "settle", "answered", "check", "measure", "delete"}]
    /\ robbed \subseteq Threads /\ staled \in 0 .. MaxStale

\* A thread that got an answer got that of its own sentence, and so would any
\* other; a sentence is cached once.
AnswersOwn ==
    /\ \A t \in Threads : pc[t] \in {"room", "touch", "answered", "done"} =>
           answer[t] = Parse(text[t])
    /\ \A e \in ToSet(parsed) : e.commands = Parse(e.text)
    /\ Cardinality(Cached) = Len(parsed)

\* Unlocked, the cache outgrows its size by the other threads at most, and a
\* request raises only if another one has taken its sentence out meanwhile.
CacheHolds ==
    /\ Len(parsed) < MaxSize + Cardinality(Threads)
    /\ \A t \in Threads : Stands(t, "raised") => t \in robbed

\* The topic holds the newest events, in the order they came, and once nobody is
\* publishing not more than it may.  Publishers that meet delete too much - all
\* but one, if a third finds one event too few - but three that meet at a full
\* topic never delete the newest, if it has places enough for what three delete:
\* of seven events and three more, three times three.  Four may: what the third
\* has spared, the fourth deletes.
TopicHolds ==
    /\ \A i \in DOMAIN bucket : bucket[i] = said - Len(bucket) + i
    /\ MaxEvents >= 7 /\ said <= MaxEvents + 3 => bucket # <<>>
    /\ (\A t \in Threads : pc[t] \notin {"check", "measure", "delete"}) => Len(bucket) <= MaxEvents

SharedSound == SharedTypeOK /\ AnswersOwn /\ CacheHolds /\ TopicHolds
-----------------------------------------------------------------------------
\* What a clause, or a part of it, says.
Words(c, field) == {c[field]} \union {span.clause[field] : span \in ToSet(c.spans)}

\* A condition, or a time, begins clause n at i: in it, or by itself right before.
Idle(c) == c.action = None /\ c.device = None /\ ~Payload(c)

Begun(s, n, i) == s[i].bound /\ \A k \in i .. n - 1 : Idle(s[k])

Joined(s, n, place) ==
    \E i, j \in 1 .. n - 1 : Begun(s, n, i) /\ i <= j /\ s[j].location = place

\* Clause n may not be read as a whole, but for what can be recovered of it.
Muddled(s, n) == \/ s[n].noise \/ \E i \in 1 .. n : Begun(s, n, i)
                 \/ \E k \in n .. Len(s) : Payload(s[k])

\* Its device and place stand before its action, and a brightness between them.
CutOff(s, n) == ~s[n].ahead /\ \E k \in n .. Len(s) : s[k].parameter = "brightness"

\* What is said is kept, in its order; what a clause leaves out is what another one
\* says, or the device that goes with its action and number.  That device it also
\* is that a muddled clause gets if the command right before was about the one it
\* names, after a place was spoken of: then no stretch of it is taken with a device.
SaysWhatWasSaid(s, commands) ==
    \A i \in DOMAIN commands :
        LET cmd == commands[i]
            c   == s[cmd.at]
            elsewhere(field, places) == \E j \in places : cmd[field] \in Words(s[j], field)
        IN  /\ cmd.at \in DOMAIN s /\ (i > 1 => commands[i - 1].at <= cmd.at)
            /\ c.spans = <<>> =>
                 /\ c.action # None => cmd.action = c.action
                 /\ c.location # None => cmd.location = c.location \/ CutOff(s, cmd.at)
                 /\ c.device # None =>
                      \/ cmd.device = c.device \/ CutOff(s, cmd.at)
                      \/ /\ Muddled(s, cmd.at) /\ i > 1 /\ commands[i - 1].device = c.device
                         /\ \E j \in 1 .. i - 1 : commands[j].location # None
                 /\ elsewhere("action", DOMAIN s)
                 /\ \/ elsewhere("device", DOMAIN s)
                    \/ cmd.device = DefaultDevice(cmd.action, cmd.parameter)
                 /\ cmd.value # None => elsewhere("value", cmd.at .. Len(s))

\* A place is handed on to later commands only, and to one that names its device
\* only if the place was spoken of with that device, or read with one of its kind,
\* if it says "also", if it is the condition's, if all that names the device is cut
\* off - or, whatever the place was of, if the command right before was about that very
\* device, without a place that was read.
PlacesHandedOn(s, commands) ==
    \A i \in DOMAIN commands :
        LET cmd == commands[i]
            c   == s[cmd.at]
        IN  cmd.location # None /\ c.location = None /\ c.spans = <<>> =>
                /\ \E j \in 1 .. cmd.at - 1 : cmd.location \in Words(s[j], "location")
                /\ \/ c.device = None \/ c.refers \/ Joined(s, cmd.at, cmd.location) \/ CutOff(s, cmd.at)
                   \/ \E j \in 1 .. cmd.at - 1 :
                        /\ s[j].device = c.device
                        /\ \/ s[j].location = cmd.location \/ s[j].refers
                           \/ Joined(s, j, cmd.location)
                   \/ \E j \in 1 .. i - 1 :
                        /\ commands[j].location = cmd.location
                        /\ \E d \in {c.device, cmd.device} : Category(commands[j].device) = Category(d)
                   \/ /\ i > 1 /\ commands[i - 1].device = c.device
                      /\ LET n == commands[i - 1].at IN
                         s[n].location = None \/ s[n].spans # <<>> \/ CutOff(s, n)

\* Of what is recovered from a noisy clause no two parts overlap, and none was
\* left out that could have been taken as well.
RecoversMost(c) ==
    LET offered == Candidates(c, Fresh)
        chosen  == SelectRecovery(offered)
        clash(a, b) == Overlap(a, b) \/ Signature(a.command) = Signature(b.command)
    IN  /\ \A i, j \in DOMAIN chosen : i < j => chosen[i].to <= chosen[j].from
        /\ \A o \in offered : o \notin ToSet(chosen) => \E i \in DOMAIN chosen : clash(chosen[i], o)

RulesSound ==
    \A s \in party.texts :
        /\ SaysWhatWasSaid(s, Parse(s)) /\ PlacesHandedOn(s, Parse(s))
        /\ \A i \in DOMAIN s : RecoversMost(s[i])
=============================================================================

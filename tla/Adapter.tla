------------------------------- MODULE Adapter -------------------------------
(***************************************************************************)
(* The adapters between the executor and the home:                         *)
(* runtime/ha_gateway_adapter.py, which sends every request over a         *)
(* connection of its own to the gateway's websocket server and then polls  *)
(* for the state it has asked for, and runtime/ha_mcp_adapter.py, which    *)
(* calls a remote tool, again after a timeout, and by way of a proxy tool  *)
(* where the tool itself is missing.  api_gateway.py chooses one of them.  *)
(*                                                                         *)
(* The threads of the HTTP server share the adapter and its list of        *)
(* entities.  Whether the other side has carried out a request that was    *)
(* given up, or will, an adapter cannot know.                              *)
(***************************************************************************)
EXTENDS HttpThreads, FiniteSets, Naturals, SequencesExt

CONSTANTS
    Entities,
    Listed,     \* entities that discover shows; get_state knows the others too
    Retries,    \* _timeout_retries of the MCP adapter
    MaxPolls,   \* looks at the state before the polling's deadline
    Errors      \* answers that a call has failed: their code, words and HTTP status

\* A home has a finite list; there are names to ask for.
ASSUME ListedAssumption == Listed \subseteq Entities /\ IsFiniteSet(Listed) /\ Entities # {}

ASSUME BoundsAssumption == Retries \in Nat /\ MaxPolls \in Nat

VARIABLES
    channel,   \* "gateway" or "mcp"
    wire,      \* service calls on their way, or given up and not carried out yet
    entities,  \* self._entities, by their ids
    fresh,     \* less than entity_cache_ttl_sec since _entity_cache_updated_at
    refreshed, \* history: a discovery has succeeded
    torn,      \* history: a state was stored into a list that was replaced meanwhile
    threads,   \* where each thread is
    performed  \* history: how often each thread's call was carried out, and by what

cache == <<entities, fresh, refreshed, torn>>
vars == <<channel, wire, cache, threads, performed>>
-----------------------------------------------------------------------------
Ways == {"direct", "proxy"}
Call == [of : Threads, n : Nat, way : Ways]

\* telling: the service's name tells the state to wait for; n: service calls
\* sent; tries: those sent the same way, later the polls; seen: a state arrived;
\* at: its place in the list.
Thread == [pc : {"new", "asked", "sent", "performed", "polling", "found", "looked", "done",
                 "crashed"},
           op : {"none", "list", "get", "call"}, entity : Entities, telling : BOOLEAN,
           n : Nat, tries : 0 .. Max({Retries + 1, MaxPolls}), way : Ways, seen : BOOLEAN,
           at : Nat, success : BOOLEAN]

TypeOK ==
    /\ channel \in {"gateway", "mcp"}
    /\ wire \subseteq Call
    /\ entities \in Seq(Entities)
    /\ fresh \in BOOLEAN /\ refreshed \in BOOLEAN /\ torn \in BOOLEAN
    /\ threads \in [Threads -> Thread]
    /\ \A t \in Threads : threads[t].n <= 2 * (Retries + 1)
    /\ performed \in [Threads -> [Ways -> Nat]]

Init ==
    /\ channel \in {"gateway", "mcp"}
    /\ wire = {} /\ entities = <<>>
    /\ fresh = FALSE /\ refreshed = FALSE /\ torn = FALSE
    /\ threads = [t \in Threads |->
                    [pc |-> "new", op |-> "none", entity |-> CHOOSE e \in Entities : TRUE,
                     telling |-> FALSE, n |-> 0, tries |-> 0, way |-> "direct",
                     seen |-> FALSE, at |-> 0, success |-> FALSE]]
    /\ performed = [t \in Threads |-> [w \in Ways |-> 0]]

At(t, pc) == threads[t].pc = pc
Becomes(t, new) == threads' = [threads EXCEPT ![t] = new]
Ends(t, success) ==
    Becomes(t, [threads[t] EXCEPT !.pc = "done", !.tries = 0, !.seen = FALSE, !.at = 0,
                                  !.success = success])

Performed(t) == performed[t]["direct"] + performed[t]["proxy"] > 0

Age == fresh /\ fresh' = FALSE
       /\ UNCHANGED <<channel, wire, entities, refreshed, torn, threads, performed>>
-----------------------------------------------------------------------------
(***************************************************************************)
(* get_all_entities                                                        *)
(***************************************************************************)
\* The list at hand will do.
ListWillDo == entities # <<>> /\ (channel = "gateway" => fresh)

List(t) ==
    /\ At(t, "new")
    /\ Becomes(t, [threads[t] EXCEPT !.op = "list",
                                     !.pc = IF ListWillDo THEN "done" ELSE "asked"])
    /\ UNCHANGED <<channel, wire, cache, performed>>

\* A bug: what is listed is added to what was known.
Added(listing) == entities \o listing

Replaced(listing) == listing

\* The gateway lists all it shows; over MCP the domains whose search failed are
\* missing.
Discover(t) ==
    /\ At(t, "asked") /\ Ends(t, TRUE)
    /\ IF channel = "gateway"
       THEN /\ entities' = Replaced(SetToSeq(Listed))
            /\ fresh' = TRUE /\ refreshed' = TRUE /\ torn' = FALSE
       ELSE /\ \E found \in SUBSET Entities :
                  IsFiniteSet(found) /\ entities' = SetToSeq(found)
            /\ UNCHANGED <<fresh, refreshed, torn>>
    /\ UNCHANGED <<channel, wire, performed>>

\* The gateway's error or a timeout: the old list is answered.
DiscoverFails(t) ==
    /\ At(t, "asked") /\ channel = "gateway" /\ Ends(t, TRUE)
    /\ UNCHANGED <<channel, wire, cache, performed>>
-----------------------------------------------------------------------------
(***************************************************************************)
(* call_service                                                            *)
(***************************************************************************)
\* The next call of the thread, beside those in calls.
Send(t, thread, calls) ==
    /\ Becomes(t, [thread EXCEPT !.pc = "sent", !.n = @ + 1, !.tries = @ + 1])
    /\ wire' = calls \union {[of |-> t, n |-> thread.n + 1, way |-> thread.way]}

CallService(t, e, telling) ==
    /\ At(t, "new")
    /\ Send(t, [threads[t] EXCEPT !.op = "call", !.entity = e, !.telling = telling],
            wire)
    /\ UNCHANGED <<channel, cache, performed>>

Awaited(c) == At(c.of, "sent") /\ threads[c.of].n = c.n

\* The other side carries the call out; the answer comes in time or not.
Perform(c) ==
    /\ c \in wire /\ wire' = wire \ {c}
    /\ performed' = [performed EXCEPT ![c.of][c.way] = @ + 1]
    /\ \/ UNCHANGED threads
       \/ Awaited(c) /\ Becomes(c.of, [threads[c.of] EXCEPT !.pc = "performed"])
    /\ UNCHANGED <<channel, cache>>

\* A request that never reached the other side, or whose handler ended with the
\* connection.
Drop(c) ==
    /\ c \in wire /\ wire' = wire \ {c}
    /\ UNCHANGED <<channel, cache, threads, performed>>

\* What the adapter makes of the codes of the other side.
KnownCodes == [TIMEOUT_OPERATION |-> "UPSTREAM_TIMEOUT", SERVICE_NOT_FOUND |-> "NOT_FOUND",
               RESOURCE_LOCKED |-> "CONFLICT", ENTITY_INVALID_ID |-> "BAD_REQUEST",
               AUTH_INVALID |-> "FORBIDDEN", CONNECTION_FAILED |-> "UPSTREAM_ERROR"]

FromText(words) ==
    IF "timeout" \in words THEN "UPSTREAM_TIMEOUT"
    ELSE IF "forbidden" \in words THEN "FORBIDDEN"
    ELSE IF "invalid" \in words THEN "BAD_REQUEST"
    ELSE IF "not found" \in words THEN
             (IF "entity" \in words THEN "ENTITY_NOT_FOUND" ELSE "NOT_FOUND")
    ELSE "none"

FromStatus(status) ==
    CASE status \in {400, 422} -> "BAD_REQUEST"
      [] status \in {401, 403} -> "FORBIDDEN"
      [] status = 404 -> "NOT_FOUND"
      [] status = 409 -> "CONFLICT"
      [] status \in {408, 504} -> "UPSTREAM_TIMEOUT"
      [] OTHER -> "UPSTREAM_ERROR"

\* The code tells, without one the message, without a hint in it the status.
ErrorCode(error) ==
    IF error.code \in DOMAIN KnownCodes THEN KnownCodes[error.code]
    ELSE IF FromText(error.words) # "none" THEN FromText(error.words)
    ELSE FromStatus(error.status)

\* A bug: any failed call goes the other way.
AnyFailure(error) == TRUE

MissingTool(error) ==
    /\ "tool" \in error.words
    /\ \/ ErrorCode(error) \in {"NOT_FOUND", "UPSTREAM_ERROR"} /\ "not found" \in error.words
       \/ ErrorCode(error) = "BAD_REQUEST" /\ "ha_call_" \in error.words

\* A bug: what was sent is taken for done.
Trusts(t, error, calls) == Ends(t, TRUE) /\ wire' = calls

Fail(t, error, calls) ==
    IF channel = "mcp" /\ threads[t].way = "direct" /\ MissingTool(error)
    THEN Send(t, [threads[t] EXCEPT !.way = "proxy", !.tries = 0], calls)
    ELSE Ends(t, FALSE) /\ wire' = calls

\* A bug: an attempt more than there are retries.
OneMore(t, error) ==
    channel = "mcp" /\ ErrorCode(error) = "UPSTREAM_TIMEOUT" /\ threads[t].tries <= Retries + 1

TriesAgain(t, error) ==
    channel = "mcp" /\ ErrorCode(error) = "UPSTREAM_TIMEOUT" /\ threads[t].tries <= Retries

Fails(t, error, calls) ==
    IF TriesAgain(t, error) THEN Send(t, threads[t], calls) ELSE Fail(t, error, calls)

\* An answer that the call has failed.  After a timeout of the other side it may
\* be carried out nevertheless.
Refuse(c, error) ==
    /\ c \in wire /\ Awaited(c)
    /\ \/ Fails(c.of, error, wire \ {c})
       \/ ErrorCode(error) = "UPSTREAM_TIMEOUT" /\ Fails(c.of, error, wire)
    /\ UNCHANGED <<channel, cache, performed>>

\* A bug: there is no deadline while the connection is open.
OnceAnswered(t) == \A c \in wire : c.of # t

MayTimeOut(t) == TRUE

TimeOut(t) ==
    /\ At(t, "sent") /\ MayTimeOut(t)
    /\ Fails(t, [code |-> "TIMEOUT_OPERATION", words |-> {}, status |-> 504], wire)
    /\ UNCHANGED <<channel, cache, performed>>

\* The connection fails: only timeouts are tried again.
LinkFails(t) ==
    /\ At(t, "sent") /\ Fails(t, [code |-> "CONNECTION_FAILED", words |-> {}, status |-> 502], wire)
    /\ UNCHANGED <<channel, cache, performed>>

\* The gateway adapter goes on to look, the MCP adapter is done.
GoOn(t) ==
    /\ At(t, "performed")
    /\ IF channel = "mcp" THEN Ends(t, TRUE)
       ELSE Becomes(t, [threads[t] EXCEPT !.pc = "polling", !.tries = 0])
    /\ UNCHANGED <<channel, wire, cache, performed>>
-----------------------------------------------------------------------------
(***************************************************************************)
(* get_state, and storing the state in the list                            *)
(***************************************************************************)
GetEntity(t, e) ==
    /\ channel = "gateway" /\ At(t, "new")
    /\ Becomes(t, [threads[t] EXCEPT !.op = "get", !.entity = e, !.pc = "polling"])
    /\ UNCHANGED <<channel, wire, cache, performed>>

\* Where the list at hand has the entity, or 0.
Place(e) ==
    LET places == {i \in 1 .. Len(entities) : entities[i] = e} IN
    IF places = {} THEN 0 ELSE CHOOSE i \in places : \A j \in places : i <= j

\* The state arrives, and its entity is looked for in the list.
Look(t) ==
    LET e == threads[t].entity IN
    /\ At(t, "polling")
    /\ Becomes(t, [threads[t] EXCEPT !.pc = "found", !.seen = TRUE, !.at = Place(e),
                                     !.tries = @ + 1])
    /\ UNCHANGED <<channel, wire, cache, performed>>

\* An error or a timeout: what was seen before remains.
LookFails(t) ==
    /\ At(t, "polling")
    /\ Becomes(t, [threads[t] EXCEPT !.pc = "looked", !.tries = @ + 1])
    /\ UNCHANGED <<channel, wire, cache, performed>>

\* The state is stored where it was found, in the list that is there now.  The
\* place may be another entity's by now, or beyond the end: an IndexError.
Store(t) ==
    LET e == threads[t].entity
        at == threads[t].at
    IN
    /\ At(t, "found")
    /\ IF at > Len(entities)
       THEN Becomes(t, [threads[t] EXCEPT !.pc = "crashed"]) /\ UNCHANGED cache
       ELSE /\ Becomes(t, [threads[t] EXCEPT !.pc = "looked"])
            /\ entities' = IF at = 0 THEN Append(entities, e) ELSE [entities EXCEPT ![at] = e]
            /\ torn' = (torn \/ at # Place(e))
            /\ fresh' = TRUE /\ UNCHANGED refreshed
    /\ UNCHANGED <<channel, wire, performed>>

MayPoll(t) == threads[t].tries < MaxPolls

\* The state looked for is there, or there is none to look for; or the deadline
\* has passed.
Decide(t) ==
    /\ At(t, "looked")
    /\ \/ /\ threads[t].op = "call" /\ threads[t].telling /\ MayPoll(t)
          /\ Becomes(t, [threads[t] EXCEPT !.pc = "polling"])
       \/ /\ threads[t].op = "call" => ~threads[t].telling \/ threads[t].seen \/ ~MayPoll(t)
          /\ Ends(t, threads[t].op = "call" \/ threads[t].seen)
    /\ UNCHANGED <<channel, wire, cache, performed>>
-----------------------------------------------------------------------------
Going(t) ==
    \/ Discover(t) \/ DiscoverFails(t)
    \/ TimeOut(t) \/ GoOn(t)
    \/ Look(t) \/ LookFails(t) \/ Store(t) \/ Decide(t)

Next ==
    \/ Age
    \/ \E c \in wire : Perform(c) \/ Drop(c)
                      \/ \E error \in Errors : Refuse(c, error)
    \/ \E t \in Threads :
          \/ List(t) \/ LinkFails(t) \/ Going(t)
          \/ \E e \in Entities : GetEntity(t, e) \/ \E b \in BOOLEAN : CallService(t, e, b)

Spec == Init /\ [][Next]_vars

\* A thread that waits for an answer has it or a timeout.  Nothing is assumed of
\* the other side.
FairSpec == Spec /\ \A t \in Threads : WF_vars(Going(t))
-----------------------------------------------------------------------------
IsDone(t) == At(t, "done") /\ threads[t].op = "call"

\* A call that is answered as a success has been carried out.
SuccessIsPerformed == \A t \in Threads : IsDone(t) /\ threads[t].success => Performed(t)

\* What holds of the calls between any two steps.
AdapterSound == TypeOK /\ SuccessIsPerformed

\* The gateway carries a call out once at most, and a tool as often as the
\* timeouts allow, even when it does so after the call was given up.
PerformedAtMost ==
    \A t \in Threads, w \in Ways :
        performed[t][w] <= IF channel = "gateway" THEN 1 ELSE Retries + 1

\* What the proxy has been asked for, the tool itself has refused: unless a call
\* was given up before, none is carried out by both.
NotBothWays ==
    \A t \in Threads :
        performed[t]["direct"] > 0 /\ performed[t]["proxy"] > 0 => threads[t].n > 2

\* Once the gateway has been asked, its entities are all in the list, once,
\* unless a state was stored into a list that was replaced under it.
ListIsWhole ==
    refreshed /\ ~torn =>
        \A e \in Listed : Cardinality({i \in 1 .. Len(entities) : entities[i] = e}) = 1

\* Every call comes to an end, whatever the other side does.
CallsEnd == \A t \in Threads : ~At(t, "new") ~> At(t, "done") \/ At(t, "crashed")
=============================================================================

----------------------------- MODULE CommandFlow -----------------------------
(***************************************************************************)
(* The command path of the NLU runtime: post_api_v1_command,               *)
(* post_api_v1_confirm and _process_multi_commands of                      *)
(* runtime/api_gateway.py, with the policy engine, the executor and the    *)
(* state backend they call.                                                *)
(*                                                                         *)
(* FastAPI runs the (synchronous) handlers in a thread pool, so any number *)
(* of requests is in progress at once.  One action is what a handler does  *)
(* between two accesses to state that another request can see: the confirm *)
(* tokens, the parked commands and the dedup cache of the backend, and the *)
(* device side behind the adapter.  A confirm token is named after the     *)
(* request that issued it (new_id never repeats).                          *)
(***************************************************************************)
EXTENDS Naturals, Policy

CONSTANTS
    Requests,        \* the HTTP requests; each is received at most once
    Users,           \* user_id values
    Roles,           \* user_role values
    Commands,        \* what the NLU pipeline may make of a sentence
    NoCommand,       \* no parked command, no command decided yet
    Kinds,           \* bound: the kinds of request that arrive
    Failures,        \* bound: the error codes the adapter returns
    MaxSubCommands,  \* bound: sub-commands in one sentence
    MaxRestarts,     \* bound: restarts of the runtime process
    Durable          \* TRUE: Redis backend; FALSE: the in-process fallback

ASSUME NoCommandAssumption ==
    /\ NoCommand \notin Commands
    /\ NoCommand \notin [user : Users, cmd : Commands]

ASSUME SomebodyAssumption == Users # {} /\ Roles # {}

ASSUME BoundsAssumption ==
    /\ Kinds \subseteq {"single", "multi", "accept", "reject"}
    /\ Failures \subseteq {"UPSTREAM_TIMEOUT", "UPSTREAM_ERROR", "BAD_REQUEST"}
    /\ MaxSubCommands \in Nat \ {0, 1}
    /\ MaxRestarts \in Nat
    /\ Durable \in BOOLEAN

VARIABLES
    pc,        \* where each request's handler is
    job,       \* its local variables
    confirm,   \* backend: confirm records
    late,      \* tokens whose expires_at has passed
    pending,   \* backend: commands parked until they are confirmed
    dedup,     \* backend: idempotency keys with a live cached result
    trail,     \* audit log, session history and session turns written so far
    restarts,  \* restarts of the process so far
    applied,   \* history: (user, command) whose call took effect on the device side
    granted,   \* history: tokens accepted before their deadline
    closed     \* history: tokens whose parked command has been removed

vars == <<pc, job, confirm, late, pending, dedup, trail, restarts,
          applied, granted, closed>>
store == <<confirm, late, pending, dedup, granted, closed>>
-----------------------------------------------------------------------------
Keys == {IdempotencyKey(u, c) : u \in Users, c \in Commands}

Steps == {"idle", "route", "loop", "offer", "park",
          "commit_read", "commit_write", "fetch", "claim",
          "reject_read", "reject_delete",
          "dedup", "call", "record", "finish", "done", "lost"}

\* What the adapter can return: success or an error; BAD_REQUEST stands for
\* every code that is not retryable.
UpstreamCodes == {"OK"} \union Failures

RetryableCodes == {"UPSTREAM_TIMEOUT", "UPSTREAM_ERROR"}

\* "DEDUPLICATED" is the code OK with the flag deduplicated, "ITEMS" the code
\* OK over a list of sub-command results.
Codes == UpstreamCodes \union
         {"none", "DEDUPLICATED", "FORBIDDEN", "POLICY_CONFIRM_REQUIRED", "NOT_FOUND",
          "CONFIRM_TOKEN_EXPIRED", "CANCELLED", "ENTITY_NOT_FOUND",
          "CLARIFY", "CHITCHAT", "ITEMS"}

Job == [kind    : {"none", "single", "multi", "accept", "reject"},
        user    : Users, role : Roles,
        cmd     : Commands \union {NoCommand},
        token   : Requests,                  \* its own name for a command
        left    : 0 .. MaxSubCommands,       \* sub-commands still to process
        attempt : 0 .. MaxRetries + 1,
        code    : Codes]

Parked == [user : Users, cmd : Commands]

Entry == [req : Requests, what : {"audit", "history", "turn"}, code : Codes]

\* A handler that has got hold of a command and will run it.
Holding == {"claim", "dedup", "call", "record"}
Executing == {"dedup", "call", "record"}
Stopped == {"idle", "done", "lost"}

TypeOK ==
    /\ pc \in [Requests -> Steps]
    /\ job \in [Requests -> Job]
    /\ confirm \in [Requests -> {"none", "waiting", "confirmed"}]
    /\ pending \in [Requests -> Parked \union {NoCommand}]
    /\ late \subseteq Requests
    /\ dedup \subseteq Keys
    /\ trail \subseteq Entry
    /\ restarts \in 0 .. MaxRestarts
    /\ applied \subseteq Users \X Commands
    /\ granted \subseteq Requests
    /\ closed \subseteq Requests

NoJob(r) == [kind |-> "none", user |-> CHOOSE u \in Users : TRUE,
             role |-> CHOOSE x \in Roles : TRUE, cmd |-> NoCommand,
             token |-> r, left |-> 0, attempt |-> 0, code |-> "none"]

Init ==
    /\ pc = [r \in Requests |-> "idle"]
    /\ job = [r \in Requests |-> NoJob(r)]
    /\ confirm = [r \in Requests |-> "none"]
    /\ pending = [r \in Requests |-> NoCommand]
    /\ late = {} /\ dedup = {} /\ trail = {} /\ restarts = 0
    /\ applied = {} /\ granted = {} /\ closed = {}
-----------------------------------------------------------------------------
Goto(r, step) == pc' = [pc EXCEPT ![r] = step]

\* Leave the handler with a response and nothing else written.
Answer(r, code) ==
    /\ Goto(r, "done")
    /\ job' = [job EXCEPT ![r].code = code]

(***************************************************************************)
(* POST /api/v1/command                                                    *)
(***************************************************************************)
ReceiveCommand(r, kind, user, role) ==
    /\ pc[r] = "idle"
    /\ Goto(r, "route")
    /\ job' = [job EXCEPT ![r] = [@ EXCEPT !.kind = kind, !.user = user, !.role = role]]
    /\ UNCHANGED <<store, trail, restarts, applied>>

\* need_clarify, small talk, no entity, several entities of one name: the
\* handler answers without having reached the policy engine.
AnswerUnrouted(r) ==
    /\ pc[r] = "route"
    /\ \E code \in {"CLARIFY", "CHITCHAT", "ENTITY_NOT_FOUND"} :
          /\ code = "ENTITY_NOT_FOUND" => job[r].kind = "single"
          /\ job' = [job EXCEPT ![r].code = code]
    /\ Goto(r, "finish")
    /\ UNCHANGED <<store, trail, restarts, applied>>

\* The sentence named one command: policy_engine.evaluate.
EvaluateSingle(r, cmd) ==
    /\ pc[r] = "route" /\ job[r].kind = "single"
    /\ \/ /\ Evaluate(job[r].role, cmd) = "deny"
          /\ job' = [job EXCEPT ![r] = [@ EXCEPT !.cmd = cmd, !.code = "FORBIDDEN"]]
          /\ Goto(r, "finish")
       \/ /\ Evaluate(job[r].role, cmd) = "confirm"
          /\ job' = [job EXCEPT ![r].cmd = cmd]
          /\ Goto(r, "offer")
       \/ /\ Evaluate(job[r].role, cmd) = "allow"
          /\ job' = [job EXCEPT ![r].cmd = cmd]
          /\ Goto(r, "dedup")
    /\ UNCHANGED <<store, trail, restarts, applied>>

\* confirm_start
Offer(r) ==
    /\ pc[r] = "offer"
    /\ confirm' = [confirm EXCEPT ![r] = "waiting"]
    /\ Goto(r, "park")
    /\ UNCHANGED <<job, late, pending, dedup, granted, closed, trail, restarts, applied>>

\* set_pending_command; only the response that follows discloses the token.
Park(r) ==
    /\ pc[r] = "park"
    /\ pending' = [pending EXCEPT ![r] = [user |-> job[r].user, cmd |-> job[r].cmd]]
    /\ job' = [job EXCEPT ![r].code = "POLICY_CONFIRM_REQUIRED"]
    /\ Goto(r, "finish")
    /\ UNCHANGED <<confirm, late, dedup, granted, closed, trail, restarts, applied>>

(***************************************************************************)
(* _process_multi_commands                                                 *)
(***************************************************************************)
StartMulti(r) ==
    /\ pc[r] = "route" /\ job[r].kind = "multi"
    /\ \E n \in 2 .. MaxSubCommands : job' = [job EXCEPT ![r].left = n]
    /\ Goto(r, "loop")
    /\ UNCHANGED <<store, trail, restarts, applied>>

\* A bug that would run a denied sub-command, as the confirm decision is run.
LenientDecision(role, cmd) == IF Evaluate(role, cmd) = "deny" THEN "confirm"
                              ELSE Evaluate(role, cmd)

SubDecision(role, cmd) == Evaluate(role, cmd)

\* No entity for the sub-command: an item ENTITY_NOT_FOUND, and on to the next.
SkipSubCommand(r) ==
    /\ pc[r] = "loop" /\ job[r].left > 0
    /\ job' = [job EXCEPT ![r].left = @ - 1]
    /\ UNCHANGED <<pc, store, trail, restarts, applied>>

\* "deny" becomes an item FORBIDDEN; every other decision, "confirm" too, is
\* run with confirmed=True.
SubCommand(r, cmd) ==
    /\ pc[r] = "loop" /\ job[r].left > 0
    /\ job' = [job EXCEPT ![r] = [@ EXCEPT !.left = job[r].left - 1, !.cmd = cmd,
                                           !.code = "none"]]
    /\ IF SubDecision(job[r].role, cmd) = "deny" THEN UNCHANGED pc ELSE Goto(r, "dedup")
    /\ UNCHANGED <<store, trail, restarts, applied>>

EndMulti(r) ==
    /\ pc[r] = "loop" /\ job[r].left = 0
    /\ job' = [job EXCEPT ![r].code = "ITEMS"]
    /\ Goto(r, "finish")
    /\ UNCHANGED <<store, trail, restarts, applied>>

(***************************************************************************)
(* Executor.run                                                            *)
(***************************************************************************)
Effect(r) == <<job[r].user, job[r].cmd>>
KeyOf(r) == IdempotencyKey(job[r].user, job[r].cmd)

AfterRun(r) == IF job[r].kind = "multi" THEN "loop" ELSE "finish"

\* _dedup_get: a live result answers for the call.
DedupHit(r) ==
    /\ pc[r] = "dedup" /\ KeyOf(r) \in dedup
    /\ job' = [job EXCEPT ![r].code = "DEDUPLICATED"]
    /\ Goto(r, AfterRun(r))
    /\ UNCHANGED <<store, trail, restarts, applied>>

DedupMiss(r) ==
    /\ pc[r] = "dedup" /\ KeyOf(r) \notin dedup
    /\ Goto(r, "call")
    /\ UNCHANGED <<job, store, trail, restarts, applied>>

\* Bugs in _execute_with_retry: every failure retried, the attempt not counted.
RetriesAnyFailure(code, attempt) == code # "OK" /\ attempt <= MaxRetries
NotCounted(attempt) == attempt

MayRetry(code, attempt) == code \in RetryableCodes /\ attempt <= MaxRetries
NextAttempt(attempt) == attempt + 1

\* One attempt of _execute_with_retry.  A call that is acknowledged took
\* effect, one that is refused did not; after a timeout or an error of the
\* link nobody knows.
Call(r, code) ==
    /\ pc[r] = "call"
    /\ LET n == NextAttempt(job[r].attempt) IN
          /\ job' = [job EXCEPT ![r] = [@ EXCEPT !.attempt = n, !.code = code]]
          /\ Goto(r, IF MayRetry(code, n) THEN "call" ELSE "record")
    /\ \/ code # "BAD_REQUEST" /\ applied' = applied \union {Effect(r)}
       \/ code # "OK" /\ UNCHANGED applied
    /\ UNCHANGED <<store, trail, restarts>>

Note(r, what) == [req |-> r, what |-> what, code |-> job[r].code]

\* A bug: failures are remembered as well.
RemembersAll(code) == TRUE

Remembered(code) == code = "OK"
AuditOf(r) == {Note(r, "audit")}

\* write_audit, then _dedup_set if the call succeeded.
Record(r) ==
    /\ pc[r] = "record"
    /\ trail' = trail \union AuditOf(r)
    /\ dedup' = dedup \union (IF Remembered(job[r].code) THEN {KeyOf(r)} ELSE {})
    /\ job' = [job EXCEPT ![r].attempt = 0]
    /\ Goto(r, AfterRun(r))
    /\ UNCHANGED <<confirm, late, pending, granted, closed, restarts, applied>>

Successful(code) == code \in {"OK", "DEDUPLICATED"}

\* mark_success_turn after a successful single or confirmed command, then
\* _append_history and the response.
Finish(r) ==
    /\ pc[r] = "finish"
    /\ trail' = trail \union {Note(r, "history")} \union
                 (IF Successful(job[r].code) THEN {Note(r, "turn")} ELSE {})
    /\ Goto(r, "done")
    /\ UNCHANGED <<job, store, restarts, applied>>

(***************************************************************************)
(* POST /api/v1/confirm                                                    *)
(***************************************************************************)
\* A client knows a token from the response that asked for confirmation.
ReceiveConfirm(r, t, kind) ==
    /\ pc[r] = "idle"
    /\ pc[t] = "done" /\ job[t].code = "POLICY_CONFIRM_REQUIRED"
    /\ job' = [job EXCEPT ![r] = [@ EXCEPT !.kind = kind, !.token = t]]
    /\ Goto(r, IF kind = "accept" THEN "commit_read" ELSE "reject_read")
    /\ UNCHANGED <<store, trail, restarts, applied>>

\* A bug: confirm_commit without the comparison with expires_at.
NeverExpired(t) == FALSE

Expired(t) == t \in late

\* confirm_commit up to the check of expires_at.
CommitRead(r) ==
    LET t == job[r].token IN
    /\ pc[r] = "commit_read"
    /\ \/ /\ confirm[t] = "none"
          /\ Answer(r, "NOT_FOUND")
          /\ UNCHANGED <<confirm, granted>>
       \/ /\ confirm[t] # "none" /\ Expired(t)
          /\ confirm' = [confirm EXCEPT ![t] = "none"]
          /\ Answer(r, "CONFIRM_TOKEN_EXPIRED")
          /\ UNCHANGED granted
       \/ /\ confirm[t] # "none" /\ ~Expired(t)
          /\ granted' = granted \union ({t} \ late)
          /\ Goto(r, "commit_write")
          /\ UNCHANGED <<job, confirm>>
    /\ UNCHANGED <<late, pending, dedup, closed, trail, restarts, applied>>

\* ... and the write of confirmed=True, with a fresh time to live.
CommitWrite(r) ==
    /\ pc[r] = "commit_write"
    /\ confirm' = [confirm EXCEPT ![job[r].token] = "confirmed"]
    /\ Goto(r, "fetch")
    /\ UNCHANGED <<job, late, pending, dedup, granted, closed, trail, restarts, applied>>

\* get_pending_command
Fetch(r) ==
    LET parked == pending[job[r].token] IN
    /\ pc[r] = "fetch"
    /\ \/ parked = NoCommand /\ Answer(r, "NOT_FOUND")
       \/ /\ parked # NoCommand
          /\ job' = [job EXCEPT ![r] = [@ EXCEPT !.user = parked.user, !.cmd = parked.cmd]]
          /\ Goto(r, "claim")
    /\ UNCHANGED <<store, trail, restarts, applied>>

\* delete_pending_command, on either path.
RemovePending(t) ==
    /\ pending' = [pending EXCEPT ![t] = NoCommand]
    /\ closed' = closed \union {t}

\* A bug: the command stays parked although the token has been used up.
LeavePending(t) == closed' = closed \union {t} /\ UNCHANGED pending

ClaimPending(t) == RemovePending(t)
CancelPending(t) == RemovePending(t)

Claim(r) ==
    /\ pc[r] = "claim"
    /\ ClaimPending(job[r].token)
    /\ Goto(r, "dedup")
    /\ UNCHANGED <<job, confirm, late, dedup, granted, trail, restarts, applied>>

RejectRead(r) ==
    LET parked == pending[job[r].token] IN
    /\ pc[r] = "reject_read"
    /\ job' = [job EXCEPT ![r].cmd = IF parked = NoCommand THEN @ ELSE parked.cmd]
    /\ Goto(r, "reject_delete")
    /\ UNCHANGED <<store, trail, restarts, applied>>

\* The answer is "cancelled" whether or not a command was still parked; only
\* the history entry depends on it.  The confirm record stays.
RejectDelete(r) ==
    /\ pc[r] = "reject_delete"
    /\ CancelPending(job[r].token)
    /\ job' = [job EXCEPT ![r].code = "CANCELLED"]
    /\ Goto(r, IF job[r].cmd = NoCommand THEN "done" ELSE "finish")
    /\ UNCHANGED <<confirm, late, dedup, granted, trail, restarts, applied>>

(***************************************************************************)
(* The clock, and the process                                              *)
(***************************************************************************)
Deadline(t) ==
    /\ t \notin late
    /\ confirm[t] # "none" \/ pending[t] # NoCommand
    /\ late' = late \union {t}
    /\ UNCHANGED <<pc, job, confirm, pending, dedup, granted, closed,
                   trail, restarts, applied>>

\* The time to live of a record not yet confirmed ends after its deadline;
\* confirm_commit's int() may end it up to a second before.
EvictConfirm(t) ==
    /\ \/ confirm[t] = "waiting" /\ t \in late
       \/ confirm[t] = "confirmed"
    /\ confirm' = [confirm EXCEPT ![t] = "none"]
    /\ UNCHANGED <<pc, job, late, pending, dedup, granted, closed,
                   trail, restarts, applied>>

\* Stored after the confirm record with the same time to live.
EvictPending(t) ==
    /\ pending[t] # NoCommand /\ t \in late
    /\ RemovePending(t)
    /\ UNCHANGED <<pc, job, confirm, late, dedup, granted, trail, restarts, applied>>

\* The end of the dedup window (30 s after the result).
EvictDedup(k) ==
    /\ k \in dedup
    /\ dedup' = dedup \ {k}
    /\ UNCHANGED <<pc, job, confirm, late, pending, granted, closed,
                   trail, restarts, applied>>

\* The process dies: the handlers in progress and the audit log are lost, and
\* without Redis the whole store.
Restart ==
    /\ restarts < MaxRestarts
    /\ restarts' = restarts + 1
    /\ pc' = [r \in Requests |-> IF pc[r] \in Stopped THEN pc[r] ELSE "lost"]
    /\ \/ /\ Durable
          /\ trail' = {e \in trail : e.what # "audit"}
          /\ UNCHANGED <<confirm, pending, dedup, closed>>
       \/ /\ ~Durable
          /\ trail' = {} /\ dedup' = {}
          /\ confirm' = [t \in Requests |-> "none"]
          /\ pending' = [t \in Requests |-> NoCommand]
          /\ closed' = closed \union {t \in Requests : pending[t] # NoCommand}
    /\ UNCHANGED <<job, late, granted, applied>>
-----------------------------------------------------------------------------
Receive(r) ==
    \/ \E kind \in Kinds \intersect {"single", "multi"}, u \in Users, x \in Roles :
          ReceiveCommand(r, kind, u, x)
    \/ \E t \in Requests, kind \in Kinds \intersect {"accept", "reject"} : ReceiveConfirm(r, t, kind)

\* What the thread of a request does once it runs.
Handler(r) ==
    \/ AnswerUnrouted(r) \/ StartMulti(r) \/ SkipSubCommand(r) \/ EndMulti(r)
    \/ \E cmd \in Commands : EvaluateSingle(r, cmd) \/ SubCommand(r, cmd)
    \/ Offer(r) \/ Park(r)
    \/ DedupHit(r) \/ DedupMiss(r) \/ Record(r) \/ Finish(r)
    \/ \E code \in UpstreamCodes : Call(r, code)
    \/ CommitRead(r) \/ CommitWrite(r) \/ Fetch(r) \/ Claim(r)
    \/ RejectRead(r) \/ RejectDelete(r)

Clock ==
    \/ \E t \in Requests : Deadline(t) \/ EvictConfirm(t) \/ EvictPending(t)
    \/ \E k \in dedup : EvictDedup(k)

Next == (\E r \in Requests : Receive(r) \/ Handler(r)) \/ Clock \/ Restart

Spec == Init /\ [][Next]_vars

\* A thread of the pool that has a request runs on; the adapter's timeouts end
\* every call.
FairSpec == Spec /\ \A r \in Requests : WF_vars(Handler(r))
-----------------------------------------------------------------------------
\* The command that a request runs is high-risk and did not come from a
\* several-command sentence (those never ask: see NothingUnconfirmed).
Guarded(r) == job[r].kind # "multi" /\ RequiresConfirmation(job[r].cmd)

\* A high-risk command of a single sentence runs only in a confirm request,
\* for a token that was accepted before its deadline, and it is the very
\* command that was offered under that token, for the user who asked for it.
HighRiskNeedsAccept ==
    \A r \in Requests : pc[r] \in Executing /\ Guarded(r) =>
        LET t == job[r].token IN
        /\ job[r].kind = "accept"
        /\ t \in granted
        /\ job[t].code = "POLICY_CONFIRM_REQUIRED"
        /\ job[r].cmd = job[t].cmd /\ job[r].user = job[t].user

\* No command runs that the role of the request it came from does not allow:
\* directly, as a part of a sentence, or through somebody's confirmation.
OnlyAllowedRuns ==
    \A r \in Requests : pc[r] \in Executing =>
        Evaluate(job[job[r].token].role, job[r].cmd) # "deny"

\* An answer OK means that this command took effect for this user, even when
\* the executor made no call and a remembered result answered.
SuccessIsReal ==
    \A r \in Requests : Successful(job[r].code) => Effect(r) \in applied

\* A call is sent again only after a timeout or an error of the link, never
\* after it was acknowledged or refused, and at most MaxRetries times.
RetryDiscipline ==
    \A r \in Requests :
        /\ pc[r] = "call" /\ job[r].attempt > 0 =>
              job[r].code \notin {"OK", "BAD_REQUEST"}
        /\ job[r].attempt <= MaxRetries + 1

\* Once the parked command of a token has been removed - by an accept, by a
\* reject or by its time to live - no request that does not already hold it
\* ever gets to run it: not a later accept, not one overtaken half-way, and
\* not after a restart.
ClosedTokenNeverRuns ==
    [][\A r \in Requests :
          pc[r] \notin Holding /\ pc'[r] \in Holding /\ job'[r].kind = "accept"
              => job'[r].token \notin closed]_vars

\* Every request that is being handled is answered, unless the process dies.
EveryRequestAnswered ==
    \A r \in Requests : pc[r] \notin Stopped ~> pc[r] \in {"done", "lost"}
-----------------------------------------------------------------------------
(***************************************************************************)
(* The inductive invariant behind the properties above.                    *)
(***************************************************************************)
ConfirmSteps == {"commit_read", "commit_write", "fetch", "claim"}
RejectSteps == {"reject_read", "reject_delete"}
OfferSteps == {"offer", "park"}

StepFitsKind ==
    \A r \in Requests :
        /\ pc[r] = "idle" => job[r].kind = "none"
        /\ job[r].kind \in {"none", "single", "multi"} => job[r].token = r
        /\ pc[r] = "route" => job[r].kind \in {"single", "multi"}
        /\ pc[r] = "loop" => job[r].kind = "multi"
        /\ pc[r] \in OfferSteps => job[r].kind = "single"
        /\ pc[r] \in ConfirmSteps => job[r].kind = "accept"
        /\ pc[r] \in RejectSteps => job[r].kind = "reject"
        /\ pc[r] \in Executing => job[r].kind \in {"single", "multi", "accept"}

\* What runs has been decided by the policy engine, and how.
CommandDecided ==
    \A r \in Requests :
        /\ pc[r] \in OfferSteps \union Holding => job[r].cmd # NoCommand
        /\ pc[r] \in OfferSteps => Evaluate(job[r].role, job[r].cmd) = "confirm"
        /\ pc[r] \in Executing /\ job[r].kind = "single" =>
              Evaluate(job[r].role, job[r].cmd) = "allow"
        /\ pc[r] \in Executing /\ job[r].kind = "multi" =>
              Evaluate(job[r].role, job[r].cmd) # "deny"

Offered(t) == job[t].code = "POLICY_CONFIRM_REQUIRED"

CodeFitsStep ==
    \A r \in Requests :
        /\ pc[r] \in {"idle", "route"} \union OfferSteps \union ConfirmSteps \union RejectSteps
              => job[r].code = "none"
        /\ Offered(r) => /\ job[r].kind = "single"
                         /\ pc[r] \in {"finish", "done", "lost"}
                         /\ job[r].cmd # NoCommand
                         /\ Evaluate(job[r].role, job[r].cmd) = "confirm"

TokenKnown ==
    \A r \in Requests : job[r].kind \in {"accept", "reject"} =>
        pc[job[r].token] = "done" /\ Offered(job[r].token)

\* What is parked is what was offered; it is there until it is removed, and
\* what has been removed stays away.
ParkedMatches ==
    \A t \in Requests :
        /\ pending[t] # NoCommand =>
              Offered(t) /\ pending[t] = [user |-> job[t].user, cmd |-> job[t].cmd]
        /\ t \in closed => Offered(t) /\ pending[t] = NoCommand
        /\ Offered(t) => pending[t] # NoCommand \/ t \in closed

AcceptHolds ==
    \A r \in Requests : job[r].kind = "accept" =>
        /\ pc[r] \in {"commit_write", "fetch"} \union Holding => job[r].token \in granted
        /\ pc[r] \in Holding => /\ job[r].cmd = job[job[r].token].cmd
                                /\ job[r].user = job[job[r].token].user
        /\ pc[r] \in Executing => job[r].token \in closed

AttemptsFit ==
    \A r \in Requests :
        /\ job[r].attempt > 0 => pc[r] \in {"call", "record", "lost"}
        /\ pc[r] = "call" => job[r].attempt <= MaxRetries
        /\ pc[r] = "call" /\ job[r].attempt > 0 => job[r].code \in RetryableCodes

RememberedIsReal ==
    \A u \in Users, c \in Commands : IdempotencyKey(u, c) \in dedup => <<u, c>> \in applied

IInv ==
    /\ TypeOK
    /\ StepFitsKind /\ CommandDecided /\ CodeFitsStep /\ TokenKnown
    /\ ParkedMatches /\ AcceptHolds /\ AttemptsFit
    /\ RememberedIsReal /\ SuccessIsReal
-----------------------------------------------------------------------------
(***************************************************************************)
(* The refinement: the parked command is the gate.                         *)
(***************************************************************************)
GateOf == [t \in Requests |-> IF pending[t] # NoCommand THEN "open"
                              ELSE IF t \in closed THEN "closed" ELSE "unissued"]

Confirming(steps) ==
    {<<job[r].token, r>> : r \in {q \in Requests : job[q].kind = "accept" /\ pc[q] \in steps}}

Gate == INSTANCE ConfirmGate
            WITH Tokens <- Requests, Runners <- Requests, gate <- GateOf,
                 admitted <- Confirming({"claim"}), running <- Confirming(Executing)

\* The command and confirm handlers keep the promise of ConfirmGate.
ImplementsGate == Gate!GateSpec
-----------------------------------------------------------------------------
\* The following state what the documents say and the code does not do.

\* docs/acceptance.md TC-07: nothing high-risk is executed before it is confirmed.
NothingUnconfirmed ==
    \A r \in Requests : pc[r] = "call" /\ RequiresConfirmation(job[r].cmd) =>
        job[r].token \in granted
=============================================================================

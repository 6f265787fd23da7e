-------------------------- MODULE CommandFlow_proofs --------------------------
(***************************************************************************)
(* Theorems about CommandFlow for every set of requests, users, roles and  *)
(* commands, every number of restarts and either backend.                  *)
(*                                                                         *)
(* TypeOK is not inductive alone: what is remembered or parked has a type  *)
(* only because a handler that got that far has decided on a command, and  *)
(* the attempts are bounded only because of the step they are made in.     *)
(* IInv is inductive; one lemma per action shows that the action keeps it. *)
(* The last part shows that CommandFlow implements ConfirmGate.            *)
(***************************************************************************)
EXTENDS CommandFlow, TLAPS

-----------------------------------------------------------------------------
(* Typing.                                                                 *)

\* Steps of a handler that write nothing but pc and job.
LEMMA LocalTypeOK ==
    ASSUME TypeOK, pc' \in [Requests -> Steps], job' \in [Requests -> Job],
           UNCHANGED <<store, trail, restarts, applied>>
    PROVE  TypeOK'
  BY DEF TypeOK, store

\* Giving one request a new record of local variables keeps job well typed.
LEMMA JobUpdate ==
    ASSUME job \in [Requests -> Job], NEW r \in Requests, NEW j \in Job
    PROVE  [job EXCEPT ![r] = j] \in [Requests -> Job]
  OBVIOUS

\* Every update of a handler's local variables that some action makes stays in
\* Job.
LEMMA JobFields ==
    ASSUME NEW j \in Job
    PROVE  /\ \A kind \in {"single", "multi"}, u \in Users, x \in Roles :
                 [j EXCEPT !.kind = kind, !.user = u, !.role = x] \in Job
           /\ \A kind \in {"accept", "reject"}, t \in Requests :
                 [j EXCEPT !.kind = kind, !.token = t] \in Job
           /\ \A cmd \in Commands : [j EXCEPT !.cmd = cmd] \in Job
           /\ \A code \in Codes : [j EXCEPT !.code = code] \in Job
           /\ \A cmd \in Commands, code \in Codes : [j EXCEPT !.cmd = cmd, !.code = code] \in Job
           /\ \A n \in 0 .. MaxSubCommands, cmd \in Commands, code \in Codes :
                 [j EXCEPT !.left = n, !.cmd = cmd, !.code = code] \in Job
           /\ \A n \in 0 .. MaxRetries + 1, code \in Codes :
                 [j EXCEPT !.attempt = n, !.code = code] \in Job
           /\ [j EXCEPT !.attempt = 0] \in Job
           /\ \A u \in Users, cmd \in Commands :
                 [j EXCEPT !.user = u, !.cmd = cmd] \in Job
  <1>1. /\ \A kind \in {"single", "multi"}, u \in Users, x \in Roles :
              [j EXCEPT !.kind = kind, !.user = u, !.role = x] \in Job
        /\ \A kind \in {"accept", "reject"}, t \in Requests :
              [j EXCEPT !.kind = kind, !.token = t] \in Job
    BY DEF Job
  <1>2. \A cmd \in Commands : [j EXCEPT !.cmd = cmd] \in Job
    BY DEF Job
  <1>3. \A code \in Codes : [j EXCEPT !.code = code] \in Job
    BY DEF Job
  <1>4. \A cmd \in Commands, code \in Codes : [j EXCEPT !.cmd = cmd, !.code = code] \in Job
    BY DEF Job
  <1>5. \A n \in 0 .. MaxSubCommands, cmd \in Commands, code \in Codes :
              [j EXCEPT !.left = n, !.cmd = cmd, !.code = code] \in Job
    BY DEF Job
  <1>6. \A n \in 0 .. MaxRetries + 1, code \in Codes :
              [j EXCEPT !.attempt = n, !.code = code] \in Job
    BY DEF Job
  <1>7. [j EXCEPT !.attempt = 0] \in Job
    BY DEF Job, MaxRetries
  <1>8. \A u \in Users, cmd \in Commands : [j EXCEPT !.user = u, !.cmd = cmd] \in Job
    BY DEF Job
  <1>9. QED
    BY <1>1, <1>2, <1>3, <1>4, <1>5, <1>6, <1>7, <1>8

-----------------------------------------------------------------------------
(* Every action of the handlers keeps the inductive invariant.             *)

\* The policy engine has three decisions.
LEMMA EvaluateCases == \A x, c : Evaluate(x, c) \in {"deny", "confirm", "allow"}
  BY DEF Evaluate

\* A command request arrives: nothing is shared yet.
LEMMA ReceiveCommandStep ==
    ASSUME IInv, NEW r \in Requests, NEW kind \in {"single", "multi"}, NEW u \in Users,
           NEW x \in Roles, ReceiveCommand(r, kind, u, x)
    PROVE  IInv'
  <1>1. TypeOK'
    <2>1. [job[r] EXCEPT !.kind = kind, !.user = u, !.role = x] \in Job
      BY JobFields DEF IInv, TypeOK
    <2>2. job' \in [Requests -> Job]
      BY <2>1, JobUpdate DEF ReceiveCommand, IInv, TypeOK
    <2>3. pc' \in [Requests -> Steps]
      BY DEF ReceiveCommand, Goto, IInv, TypeOK, Steps
    <2>4. QED
      BY <2>2, <2>3, LocalTypeOK DEF ReceiveCommand, IInv
  <1> USE <1>1 DEF ReceiveCommand,
             IInv, TypeOK, Job, Goto, store, OfferSteps, ConfirmSteps, RejectSteps,
             Executing, Holding, Offered, StepFitsKind, CommandDecided, CodeFitsStep,
             TokenKnown, AttemptsFit, MaxRetries, RetryableCodes
  <1>2. StepFitsKind' /\ CommandDecided'
    OBVIOUS
  <1>3. CodeFitsStep' /\ TokenKnown'
    OBVIOUS
  <1>4. ParkedMatches' /\ AcceptHolds'
    BY DEF ParkedMatches, AcceptHolds
  <1>5. AttemptsFit'
    OBVIOUS
  <1>6. RememberedIsReal' /\ SuccessIsReal'
    BY DEF RememberedIsReal, SuccessIsReal, Successful, Effect, KeyOf,
         Remembered, IdempotencyKey
  <1>7. QED
    BY <1>2, <1>3, <1>4, <1>5, <1>6

\* A sentence that is answered without a command.
LEMMA AnswerUnroutedStep ==
    ASSUME IInv, NEW r \in Requests, AnswerUnrouted(r)
    PROVE  IInv'
  <1>1. TypeOK'
    BY LocalTypeOK DEF IInv, AnswerUnrouted, Goto, TypeOK, Job, Steps, Codes
  <1> USE <1>1 DEF AnswerUnrouted,
             IInv, TypeOK, Job, Goto, store, OfferSteps, ConfirmSteps, RejectSteps,
             Executing, Holding, Offered, StepFitsKind, CommandDecided, CodeFitsStep,
             TokenKnown, AttemptsFit, MaxRetries, RetryableCodes
  <1>2. StepFitsKind' /\ CommandDecided'
    OBVIOUS
  <1>3. CodeFitsStep' /\ TokenKnown'
    OBVIOUS
  <1>4. ParkedMatches' /\ AcceptHolds'
    BY DEF ParkedMatches, AcceptHolds
  <1>5. AttemptsFit'
    OBVIOUS
  <1>6. RememberedIsReal' /\ SuccessIsReal'
    BY DEF RememberedIsReal, SuccessIsReal, Successful, Effect, KeyOf,
         Remembered, IdempotencyKey
  <1>7. QED
    BY <1>2, <1>3, <1>4, <1>5, <1>6

\* The decision on a single command; one case per decision.
LEMMA EvaluateSingleStep ==
    ASSUME IInv, NEW r \in Requests, NEW cmd \in Commands, EvaluateSingle(r, cmd)
    PROVE  IInv'
  <1>1. TypeOK'
    <2>1. [job[r] EXCEPT !.cmd = cmd] \in Job /\ [job[r] EXCEPT !.cmd = cmd, !.code = "FORBIDDEN"] \in Job
      BY JobFields DEF IInv, TypeOK, Codes
    <2>2. job' \in [Requests -> Job]
      BY <2>1, JobUpdate DEF EvaluateSingle, IInv, TypeOK
    <2>3. pc' \in [Requests -> Steps]
      BY DEF EvaluateSingle, Goto, IInv, TypeOK, Steps
    <2>4. QED
      BY <2>2, <2>3, LocalTypeOK DEF EvaluateSingle, IInv
  <1> USE <1>1 DEF IInv, TypeOK, Job, Goto, store, OfferSteps, ConfirmSteps, RejectSteps,
             Executing, Holding, Offered, StepFitsKind, CommandDecided, CodeFitsStep,
             TokenKnown, AttemptsFit, MaxRetries, RetryableCodes
  <1>2. CASE Evaluate(job[r].role, cmd) = "deny"
    <2>1. pc[r] = "route" /\ job[r].kind = "single" /\ pc' = [pc EXCEPT ![r] = "finish"]
      BY <1>2 DEF EvaluateSingle
    <2>2. job' = [job EXCEPT ![r] = [@ EXCEPT !.cmd = cmd, !.code = "FORBIDDEN"]]
      BY <1>2 DEF EvaluateSingle
    <2>3. UNCHANGED <<confirm, late, pending, dedup, granted, closed, trail, restarts, applied>>
      BY DEF EvaluateSingle, store
    <2>4. StepFitsKind' /\ CommandDecided'
      BY NoCommandAssumption, <1>2, <2>1, <2>2, <2>3
    <2>5. CodeFitsStep' /\ TokenKnown'
      BY <1>2, <2>1, <2>2, <2>3
    <2>6. ParkedMatches' /\ AcceptHolds'
      BY <1>2, <2>1, <2>2, <2>3 DEF ParkedMatches, AcceptHolds
    <2>7. AttemptsFit'
      BY <1>2, <2>1, <2>2, <2>3
    <2>8. RememberedIsReal' /\ SuccessIsReal'
      BY <1>2, <2>1, <2>2, <2>3 DEF RememberedIsReal, SuccessIsReal, Successful, Effect, KeyOf,
           Remembered, IdempotencyKey
    <2>9. QED
      BY <2>4, <2>5, <2>6, <2>7, <2>8
  <1>3. CASE Evaluate(job[r].role, cmd) = "confirm"
    <2>1. pc[r] = "route" /\ job[r].kind = "single" /\ pc' = [pc EXCEPT ![r] = "offer"]
      BY <1>3 DEF EvaluateSingle
    <2>2. job' = [job EXCEPT ![r].cmd = cmd]
      BY <1>3 DEF EvaluateSingle
    <2>3. UNCHANGED <<confirm, late, pending, dedup, granted, closed, trail, restarts, applied>>
      BY DEF EvaluateSingle, store
    <2>4. StepFitsKind' /\ CommandDecided'
      BY NoCommandAssumption, <1>3, <2>1, <2>2, <2>3
    <2>5. CodeFitsStep' /\ TokenKnown'
      BY <1>3, <2>1, <2>2, <2>3
    <2>6. ParkedMatches' /\ AcceptHolds'
      BY <1>3, <2>1, <2>2, <2>3 DEF ParkedMatches, AcceptHolds
    <2>7. AttemptsFit'
      BY <1>3, <2>1, <2>2, <2>3
    <2>8. RememberedIsReal' /\ SuccessIsReal'
      BY <1>3, <2>1, <2>2, <2>3 DEF RememberedIsReal, SuccessIsReal, Successful, Effect, KeyOf,
           Remembered, IdempotencyKey
    <2>9. QED
      BY <2>4, <2>5, <2>6, <2>7, <2>8
  <1>4. CASE Evaluate(job[r].role, cmd) = "allow"
    <2>1. pc[r] = "route" /\ job[r].kind = "single" /\ pc' = [pc EXCEPT ![r] = "dedup"]
      BY <1>4 DEF EvaluateSingle
    <2>2. job' = [job EXCEPT ![r].cmd = cmd]
      BY <1>4 DEF EvaluateSingle
    <2>3. UNCHANGED <<confirm, late, pending, dedup, granted, closed, trail, restarts, applied>>
      BY DEF EvaluateSingle, store
    <2>4. StepFitsKind' /\ CommandDecided'
      BY NoCommandAssumption, <1>4, <2>1, <2>2, <2>3
    <2>5. CodeFitsStep' /\ TokenKnown'
      BY <1>4, <2>1, <2>2, <2>3
    <2>6. ParkedMatches' /\ AcceptHolds'
      BY <1>4, <2>1, <2>2, <2>3 DEF ParkedMatches, AcceptHolds
    <2>7. AttemptsFit'
      BY <1>4, <2>1, <2>2, <2>3
    <2>8. RememberedIsReal' /\ SuccessIsReal'
      BY <1>4, <2>1, <2>2, <2>3 DEF RememberedIsReal, SuccessIsReal, Successful, Effect, KeyOf,
           Remembered, IdempotencyKey
    <2>9. QED
      BY <2>4, <2>5, <2>6, <2>7, <2>8
  <1>5. QED
    BY <1>2, <1>3, <1>4, EvaluateCases

\* confirm_start keeps the invariant.
LEMMA OfferStep ==
    ASSUME IInv, NEW r \in Requests, Offer(r)
    PROVE  IInv'
  <1>1. TypeOK'
    BY DEF IInv, Offer, Goto, TypeOK, Job, Steps, Codes
  <1> USE <1>1 DEF Offer,
             IInv, TypeOK, Job, Goto, store, OfferSteps, ConfirmSteps, RejectSteps,
             Executing, Holding, Offered, StepFitsKind, CommandDecided, CodeFitsStep,
             TokenKnown, AttemptsFit, MaxRetries, RetryableCodes
  <1>2. StepFitsKind' /\ CommandDecided'
    OBVIOUS
  <1>3. CodeFitsStep' /\ TokenKnown'
    OBVIOUS
  <1>4. ParkedMatches' /\ AcceptHolds'
    BY DEF ParkedMatches, AcceptHolds
  <1>5. AttemptsFit'
    OBVIOUS
  <1>6. RememberedIsReal' /\ SuccessIsReal'
    BY DEF RememberedIsReal, SuccessIsReal, Successful, Effect, KeyOf,
         Remembered, IdempotencyKey
  <1>7. QED
    BY <1>2, <1>3, <1>4, <1>5, <1>6

\* set_pending_command: the code tells that the command has been offered, and
\* what is parked is what was decided.
LEMMA ParkStep ==
    ASSUME IInv, NEW r \in Requests, Park(r)
    PROVE  IInv'
  <1>1. TypeOK'
    BY DEF IInv, Park, Goto, TypeOK, Job, Steps, Codes, Parked, CommandDecided, OfferSteps
  <1> USE <1>1 DEF Park,
             IInv, TypeOK, Job, Goto, store, OfferSteps, ConfirmSteps, RejectSteps,
             Executing, Holding, Offered, StepFitsKind, CommandDecided, CodeFitsStep,
             TokenKnown, AttemptsFit, MaxRetries, RetryableCodes
  <1>2. StepFitsKind'
    BY NoCommandAssumption
  <1>3. CommandDecided'
    BY NoCommandAssumption
  <1>4. CodeFitsStep'
    BY NoCommandAssumption
  <1>5. TokenKnown'
    BY NoCommandAssumption
  <1>6. ParkedMatches'
    BY NoCommandAssumption DEF ParkedMatches
  <1>7. AcceptHolds'
    BY NoCommandAssumption DEF AcceptHolds
  <1>8. AttemptsFit'
    BY NoCommandAssumption
  <1>9. RememberedIsReal'
    BY NoCommandAssumption DEF RememberedIsReal, Effect, KeyOf, Remembered, IdempotencyKey,
       Successful, SuccessIsReal
  <1>10. SuccessIsReal'
    BY NoCommandAssumption DEF SuccessIsReal, RememberedIsReal, Successful, Effect, KeyOf,
       IdempotencyKey, Remembered
  <1>11. QED
    BY <1>2, <1>3, <1>4, <1>5, <1>6, <1>7, <1>8, <1>9, <1>10

\* A sentence of several commands enters its loop.
LEMMA StartMultiStep ==
    ASSUME IInv, NEW r \in Requests, StartMulti(r)
    PROVE  IInv'
  <1>1. TypeOK'
    BY BoundsAssumption, LocalTypeOK DEF IInv, StartMulti, Goto, TypeOK, Job, Steps, Codes
  <1> USE <1>1 DEF StartMulti,
             IInv, TypeOK, Job, Goto, store, OfferSteps, ConfirmSteps, RejectSteps,
             Executing, Holding, Offered, StepFitsKind, CommandDecided, CodeFitsStep,
             TokenKnown, AttemptsFit, MaxRetries, RetryableCodes
  <1>2. StepFitsKind' /\ CommandDecided'
    OBVIOUS
  <1>3. CodeFitsStep' /\ TokenKnown'
    OBVIOUS
  <1>4. ParkedMatches' /\ AcceptHolds'
    BY DEF ParkedMatches, AcceptHolds
  <1>5. AttemptsFit'
    OBVIOUS
  <1>6. RememberedIsReal' /\ SuccessIsReal'
    BY DEF RememberedIsReal, SuccessIsReal, Successful, Effect, KeyOf,
         Remembered, IdempotencyKey
  <1>7. QED
    BY <1>2, <1>3, <1>4, <1>5, <1>6

\* A sub-command without an entity is skipped.
LEMMA SkipSubCommandStep ==
    ASSUME IInv, NEW r \in Requests, SkipSubCommand(r)
    PROVE  IInv'
  <1>1. TypeOK'
    BY BoundsAssumption, LocalTypeOK DEF IInv, SkipSubCommand, Goto, TypeOK, Job, Steps, Codes
  <1> USE <1>1 DEF SkipSubCommand,
             IInv, TypeOK, Job, Goto, store, OfferSteps, ConfirmSteps, RejectSteps,
             Executing, Holding, Offered, StepFitsKind, CommandDecided, CodeFitsStep,
             TokenKnown, AttemptsFit, MaxRetries, RetryableCodes
  <1>2. StepFitsKind' /\ CommandDecided'
    OBVIOUS
  <1>3. CodeFitsStep' /\ TokenKnown'
    OBVIOUS
  <1>4. ParkedMatches' /\ AcceptHolds'
    BY DEF ParkedMatches, AcceptHolds
  <1>5. AttemptsFit'
    OBVIOUS
  <1>6. RememberedIsReal' /\ SuccessIsReal'
    BY DEF RememberedIsReal, SuccessIsReal, Successful, Effect, KeyOf,
         Remembered, IdempotencyKey
  <1>7. QED
    BY <1>2, <1>3, <1>4, <1>5, <1>6

\* The decision on a sub-command: denied, or run at once.
LEMMA SubCommandStep ==
    ASSUME IInv, NEW r \in Requests, NEW cmd \in Commands, SubCommand(r, cmd)
    PROVE  IInv'
  <1>1. TypeOK'
    <2>1. job[r].left - 1 \in 0 .. MaxSubCommands
      BY BoundsAssumption DEF SubCommand, IInv, TypeOK, Job
    <2>2. [job[r] EXCEPT !.left = job[r].left - 1, !.cmd = cmd, !.code = "none"] \in Job
      BY <2>1, JobFields DEF IInv, TypeOK, Codes
    <2>3. job' \in [Requests -> Job]
      <3>1. job' = [job EXCEPT ![r] = [job[r] EXCEPT !.left = job[r].left - 1, !.cmd = cmd,
                                                     !.code = "none"]]
        BY DEF SubCommand
      <3>2. QED
        BY <2>2, <3>1, JobUpdate DEF IInv, TypeOK
    <2>4. pc' \in [Requests -> Steps]
      BY DEF SubCommand, Goto, IInv, TypeOK, Steps
    <2>5. QED
      BY <2>3, <2>4, LocalTypeOK DEF SubCommand, IInv
  <1> USE <1>1 DEF IInv, TypeOK, Job, Goto, store, OfferSteps, ConfirmSteps, RejectSteps,
             Executing, Holding, Offered, StepFitsKind, CommandDecided, CodeFitsStep,
             TokenKnown, AttemptsFit, MaxRetries, RetryableCodes
  <1>2. CASE Evaluate(job[r].role, cmd) = "deny"
    <2>1. pc[r] = "loop" /\ UNCHANGED pc
      BY <1>2 DEF SubCommand, SubDecision
    <2>2. job' = [job EXCEPT ![r] = [@ EXCEPT !.left = job[r].left - 1, !.cmd = cmd, !.code = "none"]]
      BY DEF SubCommand
    <2>3. UNCHANGED <<confirm, late, pending, dedup, granted, closed, trail, restarts, applied>>
      BY DEF SubCommand, store
    <2>4. StepFitsKind' /\ CommandDecided'
      BY NoCommandAssumption, <1>2, <2>1, <2>2, <2>3
    <2>5. CodeFitsStep' /\ TokenKnown'
      BY <1>2, <2>1, <2>2, <2>3
    <2>6. ParkedMatches' /\ AcceptHolds'
      BY <1>2, <2>1, <2>2, <2>3 DEF ParkedMatches, AcceptHolds
    <2>7. AttemptsFit'
      BY <1>2, <2>1, <2>2, <2>3
    <2>8. RememberedIsReal' /\ SuccessIsReal'
      BY <1>2, <2>1, <2>2, <2>3 DEF RememberedIsReal, SuccessIsReal, Successful, Effect, KeyOf,
           Remembered, IdempotencyKey
    <2>9. QED
      BY <2>4, <2>5, <2>6, <2>7, <2>8
  <1>3. CASE Evaluate(job[r].role, cmd) # "deny"
    <2>1. pc[r] = "loop" /\ pc' = [pc EXCEPT ![r] = "dedup"]
      BY <1>3 DEF SubCommand, SubDecision
    <2>2. job' = [job EXCEPT ![r] = [@ EXCEPT !.left = job[r].left - 1, !.cmd = cmd, !.code = "none"]]
      BY DEF SubCommand
    <2>3. UNCHANGED <<confirm, late, pending, dedup, granted, closed, trail, restarts, applied>>
      BY DEF SubCommand, store
    <2>4. StepFitsKind' /\ CommandDecided'
      BY NoCommandAssumption, <1>3, <2>1, <2>2, <2>3
    <2>5. CodeFitsStep' /\ TokenKnown'
      BY <1>3, <2>1, <2>2, <2>3
    <2>6. ParkedMatches' /\ AcceptHolds'
      BY <1>3, <2>1, <2>2, <2>3 DEF ParkedMatches, AcceptHolds
    <2>7. AttemptsFit'
      BY <1>3, <2>1, <2>2, <2>3
    <2>8. RememberedIsReal' /\ SuccessIsReal'
      BY <1>3, <2>1, <2>2, <2>3 DEF RememberedIsReal, SuccessIsReal, Successful, Effect, KeyOf,
           Remembered, IdempotencyKey
    <2>9. QED
      BY <2>4, <2>5, <2>6, <2>7, <2>8
  <1>4. QED
    BY <1>2, <1>3

\* The loop over sub-commands ends.
LEMMA EndMultiStep ==
    ASSUME IInv, NEW r \in Requests, EndMulti(r)
    PROVE  IInv'
  <1>1. TypeOK'
    BY LocalTypeOK DEF IInv, EndMulti, Goto, TypeOK, Job, Steps, Codes
  <1> USE <1>1 DEF EndMulti,
             IInv, TypeOK, Job, Goto, store, OfferSteps, ConfirmSteps, RejectSteps,
             Executing, Holding, Offered, StepFitsKind, CommandDecided, CodeFitsStep,
             TokenKnown, AttemptsFit, MaxRetries, RetryableCodes
  <1>2. StepFitsKind' /\ CommandDecided'
    OBVIOUS
  <1>3. CodeFitsStep' /\ TokenKnown'
    OBVIOUS
  <1>4. ParkedMatches' /\ AcceptHolds'
    BY DEF ParkedMatches, AcceptHolds
  <1>5. AttemptsFit'
    OBVIOUS
  <1>6. RememberedIsReal' /\ SuccessIsReal'
    BY DEF RememberedIsReal, SuccessIsReal, Successful, Effect, KeyOf,
         Remembered, IdempotencyKey
  <1>7. QED
    BY <1>2, <1>3, <1>4, <1>5, <1>6

\* A remembered result answers: it is one of an effect.
LEMMA DedupHitStep ==
    ASSUME IInv, NEW r \in Requests, DedupHit(r)
    PROVE  IInv'
  <1>1. TypeOK'
    BY LocalTypeOK DEF IInv, DedupHit, AfterRun, Goto, TypeOK, Job, Steps, Codes
  <1> USE <1>1 DEF DedupHit, AfterRun,
             IInv, TypeOK, Job, Goto, store, OfferSteps, ConfirmSteps, RejectSteps,
             Executing, Holding, Offered, StepFitsKind, CommandDecided, CodeFitsStep,
             TokenKnown, AttemptsFit, MaxRetries, RetryableCodes
  <1>2. StepFitsKind' /\ CommandDecided'
    OBVIOUS
  <1>3. CodeFitsStep' /\ TokenKnown'
    OBVIOUS
  <1>4. ParkedMatches' /\ AcceptHolds'
    BY DEF ParkedMatches, AcceptHolds
  <1>5. AttemptsFit'
    OBVIOUS
  <1>6. RememberedIsReal' /\ SuccessIsReal'
    BY DEF RememberedIsReal, SuccessIsReal, Successful, Effect, KeyOf,
         Remembered, IdempotencyKey
  <1>7. QED
    BY <1>2, <1>3, <1>4, <1>5, <1>6

\* No remembered result.
LEMMA DedupMissStep ==
    ASSUME IInv, NEW r \in Requests, DedupMiss(r)
    PROVE  IInv'
  <1>1. TypeOK'
    BY LocalTypeOK DEF IInv, DedupMiss, Goto, TypeOK, Job, Steps, Codes
  <1> USE <1>1 DEF DedupMiss,
             IInv, TypeOK, Job, Goto, store, OfferSteps, ConfirmSteps, RejectSteps,
             Executing, Holding, Offered, StepFitsKind, CommandDecided, CodeFitsStep,
             TokenKnown, AttemptsFit, MaxRetries, RetryableCodes
  <1>2. StepFitsKind' /\ CommandDecided'
    OBVIOUS
  <1>3. CodeFitsStep' /\ TokenKnown'
    OBVIOUS
  <1>4. ParkedMatches' /\ AcceptHolds'
    BY DEF ParkedMatches, AcceptHolds
  <1>5. AttemptsFit'
    OBVIOUS
  <1>6. RememberedIsReal' /\ SuccessIsReal'
    BY DEF RememberedIsReal, SuccessIsReal, Successful, Effect, KeyOf,
         Remembered, IdempotencyKey
  <1>7. QED
    BY <1>2, <1>3, <1>4, <1>5, <1>6

\* An attempt of the adapter call: retried, or handed on to be recorded.
LEMMA CallStep ==
    ASSUME IInv, NEW r \in Requests, NEW code \in UpstreamCodes, Call(r, code)
    PROVE  IInv'
  <1>1. TypeOK'
    <2>1. job[r].attempt + 1 \in 0 .. MaxRetries + 1
      BY DEF Call, IInv, TypeOK, Job, AttemptsFit, MaxRetries
    <2>2. [job[r] EXCEPT !.attempt = job[r].attempt + 1, !.code = code] \in Job
      BY <2>1, JobFields DEF IInv, TypeOK, Codes
    <2>6. job' \in [Requests -> Job]
      BY <2>2, JobUpdate DEF Call, NextAttempt, IInv, TypeOK
    <2>3. pc' \in [Requests -> Steps]
      BY DEF Call, Goto, IInv, TypeOK, Steps
    <2>4. Effect(r) \in Users \X Commands
      BY DEF Effect, Call, IInv, TypeOK, Job, CommandDecided, Holding
    <2>5. QED
      BY <2>6, <2>3, <2>4 DEF Call, IInv, TypeOK, store
  <1> USE <1>1 DEF Call, MayRetry, NextAttempt,
             IInv, TypeOK, Job, Goto, store, OfferSteps, ConfirmSteps, RejectSteps,
             Executing, Holding, Offered, StepFitsKind, CommandDecided, CodeFitsStep,
             TokenKnown, AttemptsFit, MaxRetries, RetryableCodes
  <1>2. CASE pc' = [pc EXCEPT ![r] = "call"]
    <2>1. StepFitsKind' /\ CommandDecided'
      BY <1>2
    <2>2. CodeFitsStep' /\ TokenKnown'
      BY <1>2
    <2>3. ParkedMatches' /\ AcceptHolds'
      BY <1>2 DEF ParkedMatches, AcceptHolds
    <2>4. AttemptsFit'
      BY <1>2
    <2>5. RememberedIsReal' /\ SuccessIsReal'
      BY <1>2 DEF RememberedIsReal, SuccessIsReal, Successful, Effect, KeyOf,
           Remembered, IdempotencyKey
    <2>6. QED
      BY <2>1, <2>2, <2>3, <2>4, <2>5
  <1>3. CASE pc' = [pc EXCEPT ![r] = "record"]
    <2>1. code # "POLICY_CONFIRM_REQUIRED" /\ code # "DEDUPLICATED"
      BY BoundsAssumption DEF UpstreamCodes
    <2>2. StepFitsKind' /\ CommandDecided'
      BY <1>3, <2>1
    <2>3. CodeFitsStep' /\ TokenKnown'
      BY <1>3, <2>1
    <2>4. ParkedMatches' /\ AcceptHolds'
      BY <1>3, <2>1 DEF ParkedMatches, AcceptHolds
    <2>5. AttemptsFit'
      BY <1>3, <2>1
    <2>6. RememberedIsReal' /\ SuccessIsReal'
      BY <1>3, <2>1 DEF RememberedIsReal, SuccessIsReal, Successful, Effect, KeyOf,
           Remembered, IdempotencyKey
    <2>7. QED
      BY <2>2, <2>3, <2>4, <2>5, <2>6
  <1>4. QED
    BY <1>2, <1>3

\* The audit entry and the remembered result of a call that succeeded.
LEMMA RecordStep ==
    ASSUME IInv, NEW r \in Requests, Record(r)
    PROVE  IInv'
  <1>1. TypeOK'
    <2>1. Note(r, "audit") \in Entry
      BY DEF Note, Entry, IInv, TypeOK, Job
    <2>2. job[r].user \in Users /\ job[r].cmd \in Commands
      BY DEF Record, IInv, TypeOK, Job, CommandDecided, Holding
    <2>3. trail' \subseteq Entry
      BY <2>1 DEF Record, AuditOf, IInv, TypeOK
    <2>4. dedup' \subseteq Keys
      BY <2>2 DEF Record, KeyOf, Keys, IInv, TypeOK
    <2>5. [job[r] EXCEPT !.attempt = 0] \in Job
      BY JobFields DEF IInv, TypeOK
    <2>6. job' \in [Requests -> Job]
      BY <2>5, JobUpdate DEF Record, IInv, TypeOK
    <2>7. pc' \in [Requests -> Steps]
      BY DEF Record, AfterRun, Goto, IInv, TypeOK, Steps
    <2>8. QED
      BY <2>3, <2>4, <2>6, <2>7 DEF Record, IInv, TypeOK
  <1> USE <1>1 DEF Record, AfterRun,
             IInv, TypeOK, Job, Goto, store, OfferSteps, ConfirmSteps, RejectSteps,
             Executing, Holding, Offered, StepFitsKind, CommandDecided, CodeFitsStep,
             TokenKnown, AttemptsFit, MaxRetries, RetryableCodes
  <1>2. StepFitsKind' /\ CommandDecided'
    OBVIOUS
  <1>3. CodeFitsStep' /\ TokenKnown'
    OBVIOUS
  <1>4. ParkedMatches' /\ AcceptHolds'
    BY DEF ParkedMatches, AcceptHolds
  <1>5. AttemptsFit'
    OBVIOUS
  <1>6. RememberedIsReal' /\ SuccessIsReal'
    BY DEF RememberedIsReal, SuccessIsReal, Successful, Effect, KeyOf,
         Remembered, IdempotencyKey
  <1>7. QED
    BY <1>2, <1>3, <1>4, <1>5, <1>6

\* The history and the answer.
LEMMA FinishStep ==
    ASSUME IInv, NEW r \in Requests, Finish(r)
    PROVE  IInv'
  <1>1. TypeOK'
    <2>1. Note(r, "history") \in Entry /\ Note(r, "turn") \in Entry
      BY DEF Note, Entry, IInv, TypeOK, Job
    <2>2. QED
      BY <2>1 DEF Finish, Goto, IInv, TypeOK, Steps, store
  <1> USE <1>1 DEF Finish,
             IInv, TypeOK, Job, Goto, store, OfferSteps, ConfirmSteps, RejectSteps,
             Executing, Holding, Offered, StepFitsKind, CommandDecided, CodeFitsStep,
             TokenKnown, AttemptsFit, MaxRetries, RetryableCodes
  <1>2. StepFitsKind' /\ CommandDecided'
    OBVIOUS
  <1>3. CodeFitsStep' /\ TokenKnown'
    OBVIOUS
  <1>4. ParkedMatches' /\ AcceptHolds'
    BY DEF ParkedMatches, AcceptHolds
  <1>5. AttemptsFit'
    OBVIOUS
  <1>6. RememberedIsReal' /\ SuccessIsReal'
    BY DEF RememberedIsReal, SuccessIsReal, Successful, Effect, KeyOf,
         Remembered, IdempotencyKey
  <1>7. QED
    BY <1>2, <1>3, <1>4, <1>5, <1>6

\* A confirm request arrives with a token that has been disclosed.
LEMMA ReceiveConfirmStep ==
    ASSUME IInv, NEW r \in Requests, NEW t \in Requests, NEW kind \in {"accept", "reject"},
           ReceiveConfirm(r, t, kind)
    PROVE  IInv'
  <1>1. TypeOK'
    <2>1. [job[r] EXCEPT !.kind = kind, !.token = t] \in Job
      BY JobFields DEF IInv, TypeOK
    <2>2. job' \in [Requests -> Job]
      BY <2>1, JobUpdate DEF ReceiveConfirm, IInv, TypeOK
    <2>3. pc' \in [Requests -> Steps]
      BY DEF ReceiveConfirm, Goto, IInv, TypeOK, Steps
    <2>4. QED
      BY <2>2, <2>3, LocalTypeOK DEF ReceiveConfirm, IInv
  <1> USE <1>1 DEF ReceiveConfirm,
             IInv, TypeOK, Job, Goto, store, OfferSteps, ConfirmSteps, RejectSteps,
             Executing, Holding, Offered, StepFitsKind, CommandDecided, CodeFitsStep,
             TokenKnown, AttemptsFit, MaxRetries, RetryableCodes
  <1>2. StepFitsKind' /\ CommandDecided'
    OBVIOUS
  <1>3. CodeFitsStep' /\ TokenKnown'
    OBVIOUS
  <1>4. ParkedMatches' /\ AcceptHolds'
    BY DEF ParkedMatches, AcceptHolds
  <1>5. AttemptsFit'
    OBVIOUS
  <1>6. RememberedIsReal' /\ SuccessIsReal'
    BY DEF RememberedIsReal, SuccessIsReal, Successful, Effect, KeyOf,
         Remembered, IdempotencyKey
  <1>7. QED
    BY <1>2, <1>3, <1>4, <1>5, <1>6

\* confirm_commit reads the record: missing, expired, or accepted in time.
LEMMA CommitReadStep ==
    ASSUME IInv, NEW r \in Requests, CommitRead(r)
    PROVE  IInv'
  <1>1. TypeOK'
    BY DEF IInv, CommitRead, Expired, Answer, Goto, TypeOK, Job, Steps, Codes
  <1> USE <1>1 DEF IInv, TypeOK, Job, Goto, store, OfferSteps, ConfirmSteps, RejectSteps,
             Executing, Holding, Offered, StepFitsKind, CommandDecided, CodeFitsStep,
             TokenKnown, AttemptsFit, MaxRetries, RetryableCodes
  <1>2. CASE confirm[job[r].token] = "none"
    <2>1. pc[r] = "commit_read" /\ pc' = [pc EXCEPT ![r] = "done"]
      BY <1>2 DEF CommitRead, Expired, Answer
    <2>2. job' = [job EXCEPT ![r].code = "NOT_FOUND"]
      BY <1>2 DEF CommitRead, Expired, Answer
    <2>3. UNCHANGED <<late, pending, dedup, closed, trail, restarts, applied>>
      BY DEF CommitRead
    <2>4. UNCHANGED granted
      BY <1>2 DEF CommitRead, Expired, Answer
    <2>5. StepFitsKind' /\ CommandDecided'
      BY <1>2, <2>1, <2>2, <2>3, <2>4
    <2>6. CodeFitsStep' /\ TokenKnown'
      BY <1>2, <2>1, <2>2, <2>3, <2>4
    <2>7. ParkedMatches' /\ AcceptHolds'
      BY <1>2, <2>1, <2>2, <2>3, <2>4 DEF ParkedMatches, AcceptHolds
    <2>8. AttemptsFit'
      BY <1>2, <2>1, <2>2, <2>3, <2>4
    <2>9. RememberedIsReal' /\ SuccessIsReal'
      BY <1>2, <2>1, <2>2, <2>3, <2>4 DEF RememberedIsReal, SuccessIsReal, Successful,
         Effect, KeyOf,
           Remembered, IdempotencyKey
    <2>10. QED
      BY <2>5, <2>6, <2>7, <2>8, <2>9
  <1>3. CASE confirm[job[r].token] # "none" /\ job[r].token \in late
    <2>1. pc[r] = "commit_read" /\ pc' = [pc EXCEPT ![r] = "done"]
      BY <1>3 DEF CommitRead, Expired, Answer
    <2>2. job' = [job EXCEPT ![r].code = "CONFIRM_TOKEN_EXPIRED"]
      BY <1>3 DEF CommitRead, Expired, Answer
    <2>3. UNCHANGED <<late, pending, dedup, closed, trail, restarts, applied>>
      BY DEF CommitRead
    <2>4. UNCHANGED granted
      BY <1>3 DEF CommitRead, Expired, Answer
    <2>5. StepFitsKind' /\ CommandDecided'
      BY <1>3, <2>1, <2>2, <2>3, <2>4
    <2>6. CodeFitsStep' /\ TokenKnown'
      BY <1>3, <2>1, <2>2, <2>3, <2>4
    <2>7. ParkedMatches' /\ AcceptHolds'
      BY <1>3, <2>1, <2>2, <2>3, <2>4 DEF ParkedMatches, AcceptHolds
    <2>8. AttemptsFit'
      BY <1>3, <2>1, <2>2, <2>3, <2>4
    <2>9. RememberedIsReal' /\ SuccessIsReal'
      BY <1>3, <2>1, <2>2, <2>3, <2>4 DEF RememberedIsReal, SuccessIsReal, Successful,
         Effect, KeyOf,
           Remembered, IdempotencyKey
    <2>10. QED
      BY <2>5, <2>6, <2>7, <2>8, <2>9
  <1>4. CASE confirm[job[r].token] # "none" /\ job[r].token \notin late
    <2>1. pc[r] = "commit_read" /\ pc' = [pc EXCEPT ![r] = "commit_write"]
      BY <1>4 DEF CommitRead, Expired, Answer
    <2>2. UNCHANGED job
      BY <1>4 DEF CommitRead, Expired, Answer
    <2>3. UNCHANGED <<late, pending, dedup, closed, trail, restarts, applied>>
      BY DEF CommitRead
    <2>4. granted' = granted \union {job[r].token}
      BY <1>4 DEF CommitRead, Expired, Answer
    <2>5. StepFitsKind' /\ CommandDecided'
      BY <1>4, <2>1, <2>2, <2>3, <2>4
    <2>6. CodeFitsStep' /\ TokenKnown'
      BY <1>4, <2>1, <2>2, <2>3, <2>4
    <2>7. ParkedMatches' /\ AcceptHolds'
      BY <1>4, <2>1, <2>2, <2>3, <2>4 DEF ParkedMatches, AcceptHolds
    <2>8. AttemptsFit'
      BY <1>4, <2>1, <2>2, <2>3, <2>4
    <2>9. RememberedIsReal' /\ SuccessIsReal'
      BY <1>4, <2>1, <2>2, <2>3, <2>4 DEF RememberedIsReal, SuccessIsReal, Successful,
         Effect, KeyOf,
           Remembered, IdempotencyKey
    <2>10. QED
      BY <2>5, <2>6, <2>7, <2>8, <2>9
  <1>5. QED
    BY <1>2, <1>3, <1>4

\* confirm_commit writes confirmed=True.
LEMMA CommitWriteStep ==
    ASSUME IInv, NEW r \in Requests, CommitWrite(r)
    PROVE  IInv'
  <1>1. TypeOK'
    BY DEF IInv, CommitWrite, Goto, TypeOK, Job, Steps, Codes
  <1> USE <1>1 DEF CommitWrite,
             IInv, TypeOK, Job, Goto, store, OfferSteps, ConfirmSteps, RejectSteps,
             Executing, Holding, Offered, StepFitsKind, CommandDecided, CodeFitsStep,
             TokenKnown, AttemptsFit, MaxRetries, RetryableCodes
  <1>2. StepFitsKind' /\ CommandDecided'
    OBVIOUS
  <1>3. CodeFitsStep' /\ TokenKnown'
    OBVIOUS
  <1>4. ParkedMatches' /\ AcceptHolds'
    BY DEF ParkedMatches, AcceptHolds
  <1>5. AttemptsFit'
    OBVIOUS
  <1>6. RememberedIsReal' /\ SuccessIsReal'
    BY DEF RememberedIsReal, SuccessIsReal, Successful, Effect, KeyOf,
         Remembered, IdempotencyKey
  <1>7. QED
    BY <1>2, <1>3, <1>4, <1>5, <1>6

\* get_pending_command: gone, or the very command that was offered.
LEMMA FetchStep ==
    ASSUME IInv, NEW r \in Requests, Fetch(r)
    PROVE  IInv'
  <1>1. TypeOK'
    <2>1. [job[r] EXCEPT !.code = "NOT_FOUND"] \in Job
      BY DEF IInv, TypeOK, Job, Codes
    <2>2. ASSUME pending[job[r].token] # NoCommand
          PROVE  [job[r] EXCEPT !.user = pending[job[r].token].user,
                                !.cmd = pending[job[r].token].cmd] \in Job
      <3>1. job[r] \in Job /\ pending[job[r].token] \in Parked
        BY <2>2 DEF IInv, TypeOK, Job
      <3>2. QED
        BY <3>1, JobFields DEF Parked
    <2>3. job' \in [Requests -> Job]
      BY <2>1, <2>2, JobUpdate DEF Fetch, Answer, IInv, TypeOK
    <2>4. pc' \in [Requests -> Steps]
      BY DEF Fetch, Answer, Goto, IInv, TypeOK, Steps
    <2>5. QED
      BY <2>3, <2>4, LocalTypeOK DEF Fetch, IInv
  <1> USE <1>1 DEF IInv, TypeOK, Job, Goto, store, OfferSteps, ConfirmSteps, RejectSteps,
             Executing, Holding, Offered, StepFitsKind, CommandDecided, CodeFitsStep,
             TokenKnown, AttemptsFit, MaxRetries, RetryableCodes
  <1>2. CASE pending[job[r].token] = NoCommand
    <2>1. pc[r] = "fetch" /\ pc' = [pc EXCEPT ![r] = "done"]
      BY <1>2 DEF Fetch, Answer
    <2>2. job' = [job EXCEPT ![r].code = "NOT_FOUND"]
      BY <1>2 DEF Fetch, Answer
    <2>3. UNCHANGED <<confirm, late, pending, dedup, granted, closed, trail, restarts, applied>>
      BY DEF Fetch
    <2>4. StepFitsKind' /\ CommandDecided'
      BY <1>2, <2>1, <2>2, <2>3
    <2>5. CodeFitsStep' /\ TokenKnown'
      BY <1>2, <2>1, <2>2, <2>3
    <2>6. ParkedMatches' /\ AcceptHolds'
      BY <1>2, <2>1, <2>2, <2>3 DEF ParkedMatches, AcceptHolds
    <2>7. AttemptsFit'
      BY <1>2, <2>1, <2>2, <2>3
    <2>8. RememberedIsReal' /\ SuccessIsReal'
      BY <1>2, <2>1, <2>2, <2>3 DEF RememberedIsReal, SuccessIsReal, Successful, Effect, KeyOf,
           Remembered, IdempotencyKey
    <2>9. QED
      BY <2>4, <2>5, <2>6, <2>7, <2>8
  <1>3. CASE pending[job[r].token] # NoCommand
    <2>1. pc[r] = "fetch" /\ job[r].kind = "accept" /\ pc' = [pc EXCEPT ![r] = "claim"]
      BY <1>3 DEF Fetch
    <2>2. pending[job[r].token] = [user |-> job[job[r].token].user, cmd |-> job[job[r].token].cmd]
      BY <1>3 DEF ParkedMatches
    <2>3. job' = [job EXCEPT ![r] = [@ EXCEPT !.user = job[job[r].token].user,
                                                !.cmd = job[job[r].token].cmd]]
      BY <1>3, <2>2 DEF Fetch
    <2>4. UNCHANGED <<confirm, late, pending, dedup, granted, closed, trail, restarts, applied>>
      BY DEF Fetch
    <2>5. StepFitsKind'
      BY <1>3, <2>1, <2>2, <2>3, <2>4
    <2>6. CommandDecided'
      BY <1>3, <2>1, <2>2, <2>3, <2>4
    <2>7. CodeFitsStep'
      BY <1>3, <2>1, <2>2, <2>3, <2>4
    <2>8. TokenKnown'
      BY <1>3, <2>1, <2>2, <2>3, <2>4
    <2>9. ParkedMatches'
      BY <1>3, <2>1, <2>2, <2>3, <2>4 DEF ParkedMatches
    <2>10. AcceptHolds'
      BY <1>3, <2>1, <2>2, <2>3, <2>4 DEF AcceptHolds
    <2>11. AttemptsFit'
      BY <1>3, <2>1, <2>2, <2>3, <2>4
    <2>12. RememberedIsReal'
      BY <1>3, <2>1, <2>2, <2>3, <2>4 DEF RememberedIsReal, Effect, KeyOf, Remembered,
         IdempotencyKey, Successful, SuccessIsReal
    <2>13. SuccessIsReal'
      BY <1>3, <2>1, <2>2, <2>3, <2>4 DEF SuccessIsReal, RememberedIsReal, Successful,
         Effect, KeyOf, IdempotencyKey, Remembered
    <2>14. QED
      BY <2>5, <2>6, <2>7, <2>8, <2>9, <2>10, <2>11, <2>12, <2>13
  <1>4. QED
    BY <1>2, <1>3

\* delete_pending_command on the accept path: the token is closed before the
\* run.
LEMMA ClaimStep ==
    ASSUME IInv, NEW r \in Requests, Claim(r)
    PROVE  IInv'
  <1>1. TypeOK'
    BY DEF IInv, Claim, ClaimPending, RemovePending, Goto, TypeOK, Job, Steps, Codes
  <1> USE <1>1 DEF Claim, ClaimPending, RemovePending,
             IInv, TypeOK, Job, Goto, store, OfferSteps, ConfirmSteps, RejectSteps,
             Executing, Holding, Offered, StepFitsKind, CommandDecided, CodeFitsStep,
             TokenKnown, AttemptsFit, MaxRetries, RetryableCodes
  <1>2. StepFitsKind' /\ CommandDecided'
    OBVIOUS
  <1>3. CodeFitsStep' /\ TokenKnown'
    OBVIOUS
  <1>4. ParkedMatches' /\ AcceptHolds'
    BY DEF ParkedMatches, AcceptHolds
  <1>5. AttemptsFit'
    OBVIOUS
  <1>6. RememberedIsReal' /\ SuccessIsReal'
    BY DEF RememberedIsReal, SuccessIsReal, Successful, Effect, KeyOf,
         Remembered, IdempotencyKey
  <1>7. QED
    BY <1>2, <1>3, <1>4, <1>5, <1>6

\* The reject path reads what it will delete.
LEMMA RejectReadStep ==
    ASSUME IInv, NEW r \in Requests, RejectRead(r)
    PROVE  IInv'
  <1>1. TypeOK'
    BY LocalTypeOK DEF IInv, RejectRead, Goto, TypeOK, Job, Steps, Codes, Parked
  <1> USE <1>1 DEF RejectRead,
             IInv, TypeOK, Job, Goto, store, OfferSteps, ConfirmSteps, RejectSteps,
             Executing, Holding, Offered, StepFitsKind, CommandDecided, CodeFitsStep,
             TokenKnown, AttemptsFit, MaxRetries, RetryableCodes
  <1>2. StepFitsKind' /\ CommandDecided'
    OBVIOUS
  <1>3. CodeFitsStep' /\ TokenKnown'
    OBVIOUS
  <1>4. ParkedMatches' /\ AcceptHolds'
    BY DEF ParkedMatches, AcceptHolds
  <1>5. AttemptsFit'
    OBVIOUS
  <1>6. RememberedIsReal' /\ SuccessIsReal'
    BY DEF RememberedIsReal, SuccessIsReal, Successful, Effect, KeyOf,
         Remembered, IdempotencyKey
  <1>7. QED
    BY <1>2, <1>3, <1>4, <1>5, <1>6

\* delete_pending_command on the reject path.
LEMMA RejectDeleteStep ==
    ASSUME IInv, NEW r \in Requests, RejectDelete(r)
    PROVE  IInv'
  <1>1. TypeOK'
    BY DEF IInv, RejectDelete, CancelPending, RemovePending, Goto, TypeOK, Job, Steps, Codes
  <1> USE <1>1 DEF RejectDelete, CancelPending, RemovePending,
             IInv, TypeOK, Job, Goto, store, OfferSteps, ConfirmSteps, RejectSteps,
             Executing, Holding, Offered, StepFitsKind, CommandDecided, CodeFitsStep,
             TokenKnown, AttemptsFit, MaxRetries, RetryableCodes
  <1>2. StepFitsKind' /\ CommandDecided'
    OBVIOUS
  <1>3. CodeFitsStep' /\ TokenKnown'
    OBVIOUS
  <1>4. ParkedMatches' /\ AcceptHolds'
    BY DEF ParkedMatches, AcceptHolds
  <1>5. AttemptsFit'
    OBVIOUS
  <1>6. RememberedIsReal' /\ SuccessIsReal'
    BY DEF RememberedIsReal, SuccessIsReal, Successful, Effect, KeyOf,
         Remembered, IdempotencyKey
  <1>7. QED
    BY <1>2, <1>3, <1>4, <1>5, <1>6

-----------------------------------------------------------------------------
(* The clock, the process, and the initial states.                         *)

\* Deadlines and the ends of times to live.
LEMMA ClockStep ==
    ASSUME IInv, Clock
    PROVE  IInv'
  <1>1. TypeOK'
    <2>1. ASSUME NEW t \in Requests, Deadline(t) \/ EvictConfirm(t) \/ EvictPending(t)
          PROVE  TypeOK'
      BY <2>1 DEF Deadline, EvictConfirm, EvictPending, RemovePending, IInv, TypeOK
    <2>2. ASSUME NEW k \in dedup, EvictDedup(k)
          PROVE  TypeOK'
      BY <2>2 DEF EvictDedup, IInv, TypeOK
    <2>3. QED
      BY <2>1, <2>2 DEF Clock
  <1>2. /\ pc' = pc /\ job' = job /\ granted' = granted /\ applied' = applied
        /\ dedup' \subseteq dedup
        /\ \/ pending' = pending /\ closed' = closed
           \/ \E t \in Requests : pending[t] # NoCommand /\ RemovePending(t)
    BY DEF Clock, Deadline, EvictConfirm, EvictPending, EvictDedup
  <1>3. StepFitsKind' /\ CommandDecided' /\ CodeFitsStep' /\ TokenKnown' /\ AttemptsFit'
    BY <1>2 DEF IInv, StepFitsKind, CommandDecided, CodeFitsStep, TokenKnown, AttemptsFit,
       Offered
  <1>4. ParkedMatches' /\ AcceptHolds'
    BY <1>2 DEF IInv, TypeOK, ParkedMatches, AcceptHolds, Offered, RemovePending
  <1>5. RememberedIsReal' /\ SuccessIsReal'
    BY <1>2 DEF IInv, RememberedIsReal, SuccessIsReal, Effect
  <1>6. QED
    BY <1>1, <1>3, <1>4, <1>5 DEF IInv

\* A restart, with or without a durable store.
LEMMA RestartStep ==
    ASSUME IInv, Restart
    PROVE  IInv'
  <1>1. TypeOK'
    BY BoundsAssumption DEF Restart, IInv, TypeOK, Steps
  <1>2. /\ job' = job /\ granted' = granted /\ applied' = applied /\ dedup' \subseteq dedup
        /\ \A r \in Requests : IF pc[r] \in Stopped THEN pc'[r] = pc[r] ELSE pc'[r] = "lost"
        /\ \/ pending' = pending /\ closed' = closed
           \/ /\ pending' = [t \in Requests |-> NoCommand]
              /\ closed' = closed \union {t \in Requests : pending[t] # NoCommand}
    BY DEF Restart, IInv, TypeOK
  <1>3. StepFitsKind' /\ CommandDecided'
    BY <1>2 DEF IInv, StepFitsKind, CommandDecided, Stopped, OfferSteps, ConfirmSteps,
                RejectSteps, Executing, Holding
  <1>8. CodeFitsStep' /\ TokenKnown'
    BY <1>2 DEF IInv, TypeOK, Job, CodeFitsStep, TokenKnown, Offered, Stopped, OfferSteps,
                ConfirmSteps, RejectSteps
  <1>9. AttemptsFit'
    BY <1>2 DEF IInv, AttemptsFit, Stopped
  <1>4. ParkedMatches'
    BY <1>2 DEF IInv, TypeOK, ParkedMatches, Offered
  <1>5. AcceptHolds'
    BY <1>2 DEF IInv, AcceptHolds, Stopped, Holding, Executing
  <1>6. RememberedIsReal' /\ SuccessIsReal'
    BY <1>2 DEF IInv, RememberedIsReal, SuccessIsReal, Effect
  <1>7. QED
    BY <1>1, <1>3, <1>8, <1>9, <1>4, <1>5, <1>6 DEF IInv

\* The initial states satisfy the invariant.
LEMMA InitIInv == Init => IInv
  <1> SUFFICES ASSUME Init PROVE IInv
    OBVIOUS
  <1>1. \A r \in Requests : NoJob(r) \in Job
    BY SomebodyAssumption, BoundsAssumption DEF NoJob, Job, Codes, MaxRetries
  <1>2. TypeOK
    BY <1>1, BoundsAssumption DEF Init, TypeOK, Steps
  <1>3. \A r \in Requests : /\ pc[r] = "idle" /\ job[r].kind = "none" /\ job[r].token = r
                            /\ job[r].attempt = 0 /\ job[r].code = "none"
    BY DEF Init, NoJob
  <1>4. StepFitsKind /\ CommandDecided /\ CodeFitsStep /\ TokenKnown /\ AttemptsFit
    BY <1>3 DEF StepFitsKind, CommandDecided, CodeFitsStep, TokenKnown, AttemptsFit, Offered,
                OfferSteps, ConfirmSteps, RejectSteps, Executing, Holding
  <1>5. ParkedMatches /\ AcceptHolds /\ RememberedIsReal /\ SuccessIsReal
    BY <1>3 DEF Init, ParkedMatches, AcceptHolds, RememberedIsReal, SuccessIsReal, Successful,
                     Offered
  <1>6. QED
    BY <1>2, <1>4, <1>5 DEF IInv

\* Every step keeps the invariant.
LEMMA Inductive == IInv /\ [Next]_vars => IInv'
  <1> SUFFICES ASSUME IInv, [Next]_vars PROVE IInv'
    OBVIOUS
  <1>1. ASSUME NEW r \in Requests, Receive(r)
        PROVE  IInv'
    BY <1>1, ReceiveCommandStep, ReceiveConfirmStep DEF Receive
  <1>2. ASSUME NEW r \in Requests, Handler(r)
        PROVE  IInv'
    BY <1>2, AnswerUnroutedStep, EvaluateSingleStep, OfferStep, ParkStep,
       StartMultiStep, SkipSubCommandStep, SubCommandStep, EndMultiStep,
       DedupHitStep, DedupMissStep, CallStep, RecordStep, FinishStep,
       CommitReadStep, CommitWriteStep, FetchStep, ClaimStep,
       RejectReadStep, RejectDeleteStep DEF Handler
  <1>3. CASE Clock
    BY <1>3, ClockStep
  <1>4. CASE Restart
    BY <1>4, RestartStep
  <1>5. CASE UNCHANGED vars
    BY <1>5 DEF vars, IInv, TypeOK, StepFitsKind, CommandDecided, CodeFitsStep, TokenKnown,
                ParkedMatches, AcceptHolds, AttemptsFit, RememberedIsReal, SuccessIsReal,
                Offered, Effect
  <1>6. QED
    BY <1>1, <1>2, <1>3, <1>4, <1>5 DEF Next

-----------------------------------------------------------------------------
(* The theorems.                                                           *)

\* In every reachable state of the command path the inductive invariant holds.
THEOREM InductiveInvariant == Spec => []IInv
  BY InitIInv, Inductive, PTL DEF Spec

\* The handlers keep the store and their variables well typed; attempts stay
\* within the retry bound of the policy.
THEOREM TypeCorrect == Spec => []TypeOK
  <1>1. IInv => TypeOK
    BY DEF IInv
  <1>2. QED
    BY <1>1, InductiveInvariant, PTL

\* A high-risk command of a single sentence reaches the executor only through an
\* accept of its own token that came in time, unchanged, for its own user.
THEOREM HighRiskIsGuarded == Spec => []HighRiskNeedsAccept
  <1>1. IInv => HighRiskNeedsAccept
    <2> SUFFICES ASSUME IInv, NEW r \in Requests, pc[r] \in Executing, Guarded(r)
                 PROVE  LET t == job[r].token IN
                        /\ job[r].kind = "accept"
                        /\ t \in granted
                        /\ job[t].code = "POLICY_CONFIRM_REQUIRED"
                        /\ job[r].cmd = job[t].cmd /\ job[r].user = job[t].user
      BY DEF HighRiskNeedsAccept
    <2>1. job[r].kind = "accept"
      <3>1. job[r].kind \in {"single", "accept"}
        BY DEF IInv, StepFitsKind, Guarded
      <3>2. job[r].kind = "single" => Evaluate(job[r].role, job[r].cmd) = "allow"
        BY DEF IInv, CommandDecided
      <3>3. Evaluate(job[r].role, job[r].cmd) # "allow"
        BY DEF Evaluate, Guarded
      <3>4. QED
        BY <3>1, <3>2, <3>3
    <2>2. job[job[r].token].code = "POLICY_CONFIRM_REQUIRED"
      BY <2>1 DEF IInv, TokenKnown, Offered
    <2>3. QED
      BY <2>1, <2>2 DEF IInv, AcceptHolds, Executing, Holding
  <1>2. QED
    BY <1>1, InductiveInvariant, PTL

\* The role whitelist covers every way a command reaches the executor.
THEOREM RolesAreEnforced == Spec => []OnlyAllowedRuns
  <1>1. IInv => OnlyAllowedRuns
    <2> SUFFICES ASSUME IInv, NEW r \in Requests, pc[r] \in Executing
                 PROVE  Evaluate(job[job[r].token].role, job[r].cmd) # "deny"
      BY DEF OnlyAllowedRuns
    <2>1. job[r].kind \in {"single", "multi", "accept"}
      BY DEF IInv, StepFitsKind
    <2>2. CASE job[r].kind \in {"single", "multi"}
      <3>1. job[r].token = r
        BY <2>2 DEF IInv, StepFitsKind
      <3>2. QED
        BY <2>2, <3>1 DEF IInv, CommandDecided
    <2>3. CASE job[r].kind = "accept"
      <3>1. job[r].cmd = job[job[r].token].cmd
        BY <2>3 DEF IInv, AcceptHolds, Executing, Holding
      <3>2. Evaluate(job[job[r].token].role, job[job[r].token].cmd) = "confirm"
        <4>1. job[r].token \in Requests /\ Offered(job[r].token)
          BY <2>3 DEF IInv, TypeOK, Job, TokenKnown
        <4>2. QED
          BY <4>1 DEF IInv, CodeFitsStep
      <3>3. QED
        BY <3>1, <3>2
    <2>4. QED
      BY <2>1, <2>2, <2>3
  <1>2. QED
    BY <1>1, InductiveInvariant, PTL

\* An answer OK, remembered or not, is backed by an effect for that user.
THEOREM SuccessIsBacked == Spec => []SuccessIsReal
  <1>1. IInv => SuccessIsReal
    BY DEF IInv
  <1>2. QED
    BY <1>1, InductiveInvariant, PTL

\* The executor retries only link failures, at most MaxRetries times.
THEOREM RetriesAreDisciplined == Spec => []RetryDiscipline
  <1>1. IInv => RetryDiscipline
    <2> SUFFICES ASSUME IInv, NEW r \in Requests
                 PROVE  /\ pc[r] = "call" /\ job[r].attempt > 0 =>
                              job[r].code \notin {"OK", "BAD_REQUEST"}
                        /\ job[r].attempt <= MaxRetries + 1
      BY DEF RetryDiscipline
    <2>1. job[r].attempt <= MaxRetries + 1
      BY DEF IInv, TypeOK, Job, MaxRetries
    <2>2. QED
      BY <2>1 DEF IInv, AttemptsFit, RetryableCodes
  <1>2. QED
    BY <1>1, InductiveInvariant, PTL

\* A step of one request's thread moves no other request.
LEMMA OneMoves ==
    ASSUME IInv, NEW r \in Requests, Receive(r) \/ Handler(r), NEW q \in Requests, q # r
    PROVE  pc'[q] = pc[q] /\ job'[q] = job[q]
  <1> USE DEF IInv, TypeOK, Goto
  <1>1. CASE Receive(r)
    BY <1>1 DEF Receive, ReceiveCommand, ReceiveConfirm
  <1>2. CASE AnswerUnrouted(r) \/ StartMulti(r) \/ SkipSubCommand(r) \/ EndMulti(r)
    BY <1>2 DEF AnswerUnrouted, StartMulti, SkipSubCommand, EndMulti
  <1>3. ASSUME NEW cmd \in Commands, EvaluateSingle(r, cmd) \/ SubCommand(r, cmd)
        PROVE  pc'[q] = pc[q] /\ job'[q] = job[q]
    BY <1>3 DEF EvaluateSingle, SubCommand
  <1>4. CASE Offer(r) \/ Park(r)
    BY <1>4 DEF Offer, Park
  <1>5. CASE DedupHit(r) \/ DedupMiss(r) \/ Record(r) \/ Finish(r)
    BY <1>5 DEF DedupHit, DedupMiss, Record, Finish
  <1>6. ASSUME NEW code \in UpstreamCodes, Call(r, code)
        PROVE  pc'[q] = pc[q] /\ job'[q] = job[q]
    BY <1>6 DEF Call
  <1>7. CASE CommitRead(r) \/ CommitWrite(r) \/ Fetch(r) \/ Claim(r)
    BY <1>7 DEF CommitRead, CommitWrite, Fetch, Claim, Answer
  <1>8. CASE RejectRead(r) \/ RejectDelete(r)
    BY <1>8 DEF RejectRead, RejectDelete
  <1>9. QED
    BY <1>1, <1>2, <1>3, <1>4, <1>5, <1>6, <1>7, <1>8 DEF Handler

\* The only way for an accept to get hold of a command is to find it parked.
LEMMA OnlyFetchAdmits ==
    ASSUME IInv, NEW r \in Requests, Receive(r) \/ Handler(r),
           pc[r] \notin Holding, pc'[r] \in Holding, job'[r].kind = "accept"
    PROVE  job'[r].token \notin closed
  <1> USE DEF IInv, TypeOK, Goto, Holding
  <1>1. CASE Receive(r)
    BY <1>1 DEF Receive, ReceiveCommand, ReceiveConfirm
  <1>2. CASE AnswerUnrouted(r) \/ StartMulti(r) \/ SkipSubCommand(r) \/ EndMulti(r)
    BY <1>2 DEF AnswerUnrouted, StartMulti, SkipSubCommand, EndMulti
  <1>3. ASSUME NEW cmd \in Commands, EvaluateSingle(r, cmd)
        PROVE  FALSE
    <2>1. job'[r].kind = job[r].kind
      BY <1>3 DEF EvaluateSingle, Job
    <2>2. QED
      BY <1>3, <2>1 DEF EvaluateSingle
  <1>4. ASSUME NEW cmd \in Commands, SubCommand(r, cmd)
        PROVE  FALSE
    <2>1. job'[r].kind = job[r].kind
      BY <1>4 DEF SubCommand, Job
    <2>2. QED
      BY <1>4, <2>1 DEF SubCommand, StepFitsKind
  <1>5. CASE Offer(r) \/ Park(r) \/ Finish(r)
    BY <1>5 DEF Offer, Park, Finish
  <1>6. CASE DedupHit(r) \/ DedupMiss(r) \/ Record(r)
    BY <1>6 DEF DedupHit, DedupMiss, Record
  <1>7. ASSUME NEW code \in UpstreamCodes, Call(r, code)
        PROVE  FALSE
    BY <1>7 DEF Call
  <1>8. CASE CommitRead(r) \/ CommitWrite(r) \/ Claim(r)
    BY <1>8 DEF CommitRead, CommitWrite, Claim, Answer
  <1>9. CASE Fetch(r)
    <2>1. pending[job[r].token] # NoCommand
      BY <1>9 DEF Fetch, Answer
    <2>4. job'[r].token = job[r].token
      <3>1. job' = [job EXCEPT ![r] = [@ EXCEPT !.user = pending[job[r].token].user,
                                                !.cmd = pending[job[r].token].cmd]]
        BY <1>9, <2>1 DEF Fetch, Answer
      <3>2. QED
        BY <3>1 DEF Job
    <2>2. job[r].token \in Requests
      BY DEF Job
    <2>3. QED
      BY <2>1, <2>2, <2>4 DEF ParkedMatches
  <1>10. CASE RejectRead(r) \/ RejectDelete(r)
    BY <1>10 DEF RejectRead, RejectDelete
  <1>11. QED
    BY <1>1, <1>2, <1>3, <1>4, <1>5, <1>6, <1>7, <1>8, <1>9, <1>10 DEF Handler

\* A token whose parked command has been removed admits nobody any more.
THEOREM ClosedTokensStayClosed == Spec => ClosedTokenNeverRuns
  <1> DEFINE Admits(r) == pc[r] \notin Holding /\ pc'[r] \in Holding /\ job'[r].kind = "accept"
  <1>1. ASSUME IInv, [Next]_vars, NEW q \in Requests, Admits(q)
        PROVE  job'[q].token \notin closed
    <2>1. ASSUME NEW r \in Requests, Receive(r) \/ Handler(r)
          PROVE  job'[q].token \notin closed
      <3>1. q = r
        BY <1>1, <2>1, OneMoves
      <3>2. QED
        BY <1>1, <2>1, <3>1, OnlyFetchAdmits
    <2>2. CASE Clock \/ UNCHANGED vars
      BY <1>1, <2>2 DEF Clock, Deadline, EvictConfirm, EvictPending, EvictDedup, vars
    <2>3. CASE Restart
      BY <1>1, <2>3 DEF Restart, Holding
    <2>4. QED
      BY <1>1, <2>1, <2>2, <2>3 DEF Next
  <1>2. IInv /\ [Next]_vars =>
           [\A r \in Requests : Admits(r) => job'[r].token \notin closed]_vars
    BY <1>1
  <1>3. QED
    BY <1>2, InductiveInvariant, PTL DEF Spec, ClosedTokenNeverRuns

-----------------------------------------------------------------------------
(***************************************************************************)
(* CommandFlow implements ConfirmGate, for every value of the constants.   *)
(* The mapping is the one CommandFlow declares: a token's gate is open     *)
(* while its command is parked, and closed once it has been removed.       *)
(* Parking a command issues its gate, finding it parked is being admitted, *)
(* deleting it begins the run, and every other action leaves the gate      *)
(* alone or shuts it.                                                      *)
(***************************************************************************)
\* A handler that has started keeps its kind and its token.
LEMMA KindKept ==
    ASSUME IInv, NEW r \in Requests, Handler(r)
    PROVE  job'[r].kind = job[r].kind /\ job'[r].token = job[r].token
  <1> USE DEF IInv, TypeOK, Job
  <1>1. CASE AnswerUnrouted(r) \/ StartMulti(r) \/ SkipSubCommand(r) \/ EndMulti(r)
    BY <1>1 DEF AnswerUnrouted, StartMulti, SkipSubCommand, EndMulti
  <1>2. ASSUME NEW cmd \in Commands, EvaluateSingle(r, cmd)
        PROVE  job'[r].kind = job[r].kind /\ job'[r].token = job[r].token
    <2>1. \/ job' = [job EXCEPT ![r] = [@ EXCEPT !.cmd = cmd, !.code = "FORBIDDEN"]]
          \/ job' = [job EXCEPT ![r].cmd = cmd]
      BY <1>2 DEF EvaluateSingle
    <2>2. CASE job' = [job EXCEPT ![r] = [@ EXCEPT !.cmd = cmd, !.code = "FORBIDDEN"]]
      BY <2>2
    <2>3. CASE job' = [job EXCEPT ![r].cmd = cmd]
      BY <2>3
    <2>4. QED
      BY <2>1, <2>2, <2>3
  <1>3. ASSUME NEW cmd \in Commands, SubCommand(r, cmd)
        PROVE  job'[r].kind = job[r].kind /\ job'[r].token = job[r].token
    BY <1>3 DEF SubCommand
  <1>4. CASE Offer(r) \/ Park(r)
    BY <1>4 DEF Offer, Park
  <1>5. CASE DedupHit(r) \/ DedupMiss(r) \/ Record(r) \/ Finish(r)
    BY <1>5 DEF DedupHit, DedupMiss, Record, Finish, store
  <1>6. ASSUME NEW code \in UpstreamCodes, Call(r, code)
        PROVE  job'[r].kind = job[r].kind /\ job'[r].token = job[r].token
    BY <1>6 DEF Call
  <1>7. CASE CommitRead(r)
    BY <1>7 DEF CommitRead, Answer
  <1>8. CASE CommitWrite(r) \/ Claim(r)
    BY <1>8 DEF CommitWrite, Claim
  <1>9. CASE Fetch(r)
    <2>1. CASE pending[job[r].token] = NoCommand
      BY <1>9, <2>1 DEF Fetch, Answer
    <2>2. CASE pending[job[r].token] # NoCommand
      <3>1. job' = [job EXCEPT ![r] = [@ EXCEPT !.user = pending[job[r].token].user,
                                                !.cmd = pending[job[r].token].cmd]]
        BY <1>9, <2>2 DEF Fetch, Answer
      <3>2. QED
        BY <3>1
    <2>3. QED
      BY <2>1, <2>2
  <1>10. CASE RejectRead(r) \/ RejectDelete(r)
    BY <1>10 DEF RejectRead, RejectDelete
  <1>11. QED
    BY <1>1, <1>2, <1>3, <1>4, <1>5, <1>6, <1>7, <1>8, <1>9, <1>10 DEF Handler

\* A step that parks and removes nothing, and moves no accept into or out of
\* the steps that the mapping looks at, is a stutter of the gate.
LEMMA QuietStep ==
    ASSUME IInv, NEW r \in Requests, Receive(r) \/ Handler(r),
           pending' = pending, closed' = closed,
           job[r].kind = "accept" => /\ pc'[r] = "claim" <=> pc[r] = "claim"
                                     /\ pc'[r] \in Executing <=> pc[r] \in Executing,
           job[r].kind # "accept" => job'[r].kind # "accept" \/ pc'[r] \notin Holding
    PROVE  UNCHANGED Gate!gateVars
  <1>1. GateOf' = GateOf
    BY DEF GateOf
  <1>2. ASSUME NEW q \in Requests
        PROVE  /\ (job'[q].kind = "accept" /\ pc'[q] = "claim")
                      <=> (job[q].kind = "accept" /\ pc[q] = "claim")
               /\ (job'[q].kind = "accept" /\ pc'[q] \in Executing)
                      <=> (job[q].kind = "accept" /\ pc[q] \in Executing)
               /\ job[q].kind = "accept" => job'[q].token = job[q].token
    <2>1. CASE q # r
      BY <2>1, OneMoves
    <2>2. CASE q = r /\ Handler(r)
      BY <2>2, KindKept DEF Holding, Executing
    <2>3. CASE q = r /\ Receive(r)
      BY <2>3 DEF Receive, ReceiveCommand, ReceiveConfirm, IInv, StepFitsKind, Goto, TypeOK,
                  Holding, Executing
    <2>4. QED
      BY <2>1, <2>2, <2>3
  <1>3. Confirming({"claim"})' = Confirming({"claim"})
    BY <1>2 DEF Confirming
  <1>4. Confirming(Executing)' = Confirming(Executing)
    BY <1>2 DEF Confirming, Executing
  <1>5. QED
    BY <1>1, <1>3, <1>4 DEF Gate!gateVars

\* A thread that is not in a confirm request, or only reads, does not move the gate.
LEMMA CommandGateStep ==
    ASSUME IInv, NEW r \in Requests,
           \/ Receive(r) \/ AnswerUnrouted(r) \/ StartMulti(r) \/ SkipSubCommand(r)
           \/ EndMulti(r) \/ \E cmd \in Commands : EvaluateSingle(r, cmd) \/ SubCommand(r, cmd)
           \/ Offer(r) \/ DedupMiss(r) \/ Finish(r)
           \/ \E code \in UpstreamCodes : Call(r, code)
    PROVE  UNCHANGED Gate!gateVars
  <1> USE DEF Goto, Holding, Executing
  <1>1. CASE Receive(r)
    <2>1. pending' = pending /\ closed' = closed
      BY <1>1 DEF Receive, ReceiveCommand, ReceiveConfirm, store
    <2>2. job[r].kind = "none" /\ pc'[r] \in {"route", "commit_read", "reject_read"}
      BY <1>1 DEF Receive, ReceiveCommand, ReceiveConfirm, IInv, TypeOK, StepFitsKind
    <2>3. QED
      BY <1>1, <2>1, <2>2, QuietStep
  <1>2. CASE AnswerUnrouted(r) \/ StartMulti(r)
    BY <1>2, QuietStep DEF Handler, AnswerUnrouted, StartMulti, store, IInv, TypeOK
  <1>3. CASE SkipSubCommand(r) \/ EndMulti(r)
    BY <1>3, QuietStep, KindKept DEF Handler, SkipSubCommand, EndMulti, store, IInv, TypeOK,
       StepFitsKind
  <1>4. ASSUME NEW cmd \in Commands, EvaluateSingle(r, cmd)
        PROVE  UNCHANGED Gate!gateVars
    <2>1. Handler(r)
      BY <1>4 DEF Handler
    <2>2. pending' = pending /\ closed' = closed /\ job[r].kind = "single"
      BY <1>4 DEF EvaluateSingle, store
    <2>3. QED
      BY <2>1, <2>2, QuietStep, KindKept
  <1>5. ASSUME NEW cmd \in Commands, SubCommand(r, cmd)
        PROVE  UNCHANGED Gate!gateVars
    <2>1. Handler(r)
      BY <1>5 DEF Handler
    <2>2. pending' = pending /\ closed' = closed /\ job[r].kind = "multi"
      BY <1>5 DEF SubCommand, store, IInv, StepFitsKind
    <2>3. QED
      BY <2>1, <2>2, QuietStep, KindKept
  <1>6. CASE Offer(r)
    BY <1>6, QuietStep, KindKept DEF Handler, Offer, IInv, TypeOK
  <1>7. CASE DedupMiss(r)
    BY <1>7, QuietStep, KindKept DEF Handler, DedupMiss, store, IInv, TypeOK
  <1>8. CASE Finish(r)
    BY <1>8, QuietStep, KindKept DEF Handler, Finish, store, IInv, TypeOK
  <1>9. ASSUME NEW code \in UpstreamCodes, Call(r, code)
        PROVE  UNCHANGED Gate!gateVars
    <2>1. Handler(r)
      BY <1>9 DEF Handler
    <2>2. pending' = pending /\ closed' = closed /\ pc[r] = "call" /\ pc'[r] \in {"call", "record"}
      BY <1>9 DEF Call, store, IInv, TypeOK
    <2>3. QED
      BY <2>1, <2>2, QuietStep, KindKept
  <1>10. QED
    BY <1>1, <1>2, <1>3, <1>4, <1>5, <1>6, <1>7, <1>8, <1>9

\* A thread of a confirm request, or one that parks a command, takes a step of
\* the gate or none.
LEMMA ParkIssues ==
    ASSUME IInv, NEW r \in Requests, Park(r)
    PROVE  Gate!Issue(r)
  <1>1. /\ pc' = [pc EXCEPT ![r] = "finish"] /\ job' = [job EXCEPT ![r].code = "POLICY_CONFIRM_REQUIRED"]
        /\ pending' = [pending EXCEPT ![r] = [user |-> job[r].user, cmd |-> job[r].cmd]]
        /\ closed' = closed /\ pc[r] = "park"
    BY DEF Park, Goto
  <1>2. job[r].kind = "single" /\ job[r].cmd \in Commands /\ job[r].user \in Users
    BY <1>1 DEF IInv, TypeOK, Job, StepFitsKind, CommandDecided, OfferSteps
  <1>3. pending[r] = NoCommand /\ r \notin closed
    BY <1>1 DEF IInv, ParkedMatches, CodeFitsStep, Offered, OfferSteps
  <1>4. [user |-> job[r].user, cmd |-> job[r].cmd] # NoCommand
    BY <1>2, NoCommandAssumption
  <1>5. GateOf[r] = "unissued" /\ GateOf' = [GateOf EXCEPT ![r] = "open"]
    BY <1>1, <1>3, <1>4 DEF GateOf, IInv, TypeOK
  <1>6. \A q \in Requests : job'[q].kind = "accept" \/ job[q].kind = "accept" =>
            pc'[q] = pc[q] /\ job'[q] = job[q]
    BY <1>1, <1>2 DEF IInv, TypeOK, Job
  <1>7. Confirming({"claim"})' = Confirming({"claim"}) /\ Confirming(Executing)' = Confirming(Executing)
    BY <1>6 DEF Confirming, Executing
  <1>8. QED
    BY <1>5, <1>7 DEF Gate!Issue

\* Finding the command parked is being admitted.
LEMMA FetchAdmits ==
    ASSUME IInv, NEW r \in Requests, Fetch(r), pending[job[r].token] # NoCommand
    PROVE  Gate!Admit(job[r].token, r)
  <1>1. /\ pc' = [pc EXCEPT ![r] = "claim"] /\ pc[r] = "fetch" /\ job[r].kind = "accept"
        /\ pending' = pending /\ closed' = closed /\ job[r].token \in Requests
    BY DEF Fetch, Answer, Goto, store, IInv, TypeOK, Job, StepFitsKind, ConfirmSteps
  <1>2. \A q \in Requests : job'[q].kind = job[q].kind /\ job'[q].token = job[q].token
    BY OneMoves, KindKept DEF Handler
  <1>3. GateOf' = GateOf /\ GateOf[job[r].token] = "open"
    BY <1>1 DEF GateOf
  <1>4. Confirming({"claim"})' = Confirming({"claim"}) \union {<<job[r].token, r>>}
    BY <1>1, <1>2 DEF Confirming, IInv, TypeOK
  <1>5. Confirming(Executing)' = Confirming(Executing)
    BY <1>1, <1>2 DEF Confirming, Executing, IInv, TypeOK
  <1>6. QED
    BY <1>3, <1>4, <1>5 DEF Gate!Admit

\* Deleting the parked command shuts the gate and begins the run.
LEMMA ClaimBegins ==
    ASSUME IInv, NEW r \in Requests, Claim(r)
    PROVE  Gate!Begin(job[r].token, r)
  <1>1. /\ pc' = [pc EXCEPT ![r] = "dedup"] /\ pc[r] = "claim" /\ job[r].kind = "accept"
        /\ pending' = [pending EXCEPT ![job[r].token] = NoCommand] /\ job' = job
        /\ closed' = closed \union {job[r].token} /\ job[r].token \in Requests
    BY DEF Claim, ClaimPending, RemovePending, Goto, IInv, TypeOK, Job, StepFitsKind,
       ConfirmSteps
  <1>2. GateOf' = [GateOf EXCEPT ![job[r].token] = "closed"]
    BY <1>1 DEF GateOf, IInv, TypeOK
  <1>3. <<job[r].token, r>> \in Confirming({"claim"})
    BY <1>1 DEF Confirming
  <1>4. Confirming({"claim"})' = Confirming({"claim"}) \ {<<job[r].token, r>>}
    BY <1>1 DEF Confirming, IInv, TypeOK
  <1>5. Confirming(Executing)' = Confirming(Executing) \union {<<job[r].token, r>>}
    BY <1>1 DEF Confirming, Executing, IInv, TypeOK
  <1>6. QED
    BY <1>2, <1>3, <1>4, <1>5 DEF Gate!Begin

\* The end of a confirmed run; the end of any other run is a stutter.
LEMMA RunEnds ==
    ASSUME IInv, NEW r \in Requests, DedupHit(r) \/ Record(r)
    PROVE  Gate!End(job[r].token, r) \/ UNCHANGED Gate!gateVars
  <1>1. pending' = pending /\ closed' = closed /\ pc[r] \in Executing /\ Handler(r)
    BY DEF DedupHit, Record, store, Executing, Handler
  <1>2. CASE job[r].kind # "accept"
    BY <1>1, <1>2, QuietStep, KindKept
  <1>3. CASE job[r].kind = "accept"
    <2>1. pc' = [pc EXCEPT ![r] = "finish"]
      BY <1>3 DEF DedupHit, Record, AfterRun, Goto
    <2>2. \A q \in Requests : job'[q].kind = job[q].kind /\ job'[q].token = job[q].token
      BY <1>1, OneMoves, KindKept
    <2>3. GateOf' = GateOf
      BY <1>1 DEF GateOf
    <2>4. Confirming({"claim"})' = Confirming({"claim"})
      BY <1>1, <2>1, <2>2 DEF Confirming, Executing, IInv, TypeOK
    <2>5. Confirming(Executing)' = Confirming(Executing) \ {<<job[r].token, r>>}
      BY <1>1, <2>1, <2>2 DEF Confirming, Executing, IInv, TypeOK
    <2>6. QED
      BY <2>3, <2>4, <2>5 DEF Gate!End
  <1>4. QED
    BY <1>2, <1>3

\* Removing the command parked under a token shuts its gate.
LEMMA RemovalShuts ==
    ASSUME IInv, NEW t \in Requests, Offered(t), RemovePending(t),
           Confirming({"claim"})' = Confirming({"claim"}),
           Confirming(Executing)' = Confirming(Executing)
    PROVE  Gate!Shut(t) \/ UNCHANGED Gate!gateVars
  <1>1. CASE pending[t] = NoCommand
    <2>1. t \in closed
      BY <1>1 DEF IInv, ParkedMatches
    <2>2. GateOf' = GateOf
      BY <1>1, <2>1 DEF GateOf, RemovePending, IInv, TypeOK
    <2>3. QED
      BY <2>2 DEF Gate!gateVars
  <1>2. CASE pending[t] # NoCommand
    <2>1. GateOf[t] = "open" /\ GateOf' = [GateOf EXCEPT ![t] = "closed"]
      BY <1>2 DEF GateOf, RemovePending, IInv, TypeOK
    <2>2. QED
      BY <2>1 DEF Gate!Shut
  <1>3. QED
    BY <1>1, <1>2

\* The steps of the confirm handlers, and of parking, are steps of the gate.
LEMMA ConfirmGateStep ==
    ASSUME IInv, NEW r \in Requests,
           \/ Park(r) \/ DedupHit(r) \/ Record(r) \/ CommitRead(r) \/ CommitWrite(r)
           \/ Fetch(r) \/ Claim(r) \/ RejectRead(r) \/ RejectDelete(r)
    PROVE  [Gate!GateNext]_Gate!gateVars
  <1> USE DEF Goto, Holding, Executing
  <1>1. CASE Park(r)
    BY <1>1, ParkIssues DEF Gate!GateNext
  <1>2. CASE DedupHit(r) \/ Record(r)
    <2>1. job[r].token \in Requests
      BY DEF IInv, TypeOK, Job
    <2>2. QED
      BY <1>2, <2>1, RunEnds DEF Gate!GateNext
  <1>3. CASE CommitRead(r) \/ CommitWrite(r)
    BY <1>3, QuietStep DEF Handler, CommitRead, CommitWrite, Answer, IInv, TypeOK, StepFitsKind,
       ConfirmSteps
  <1>4. CASE Fetch(r) /\ pending[job[r].token] = NoCommand
    BY <1>4, QuietStep DEF Handler, Fetch, Answer, store, IInv, TypeOK, StepFitsKind,
       ConfirmSteps
  <1>5. CASE Fetch(r) /\ pending[job[r].token] # NoCommand
    <2>1. job[r].token \in Requests
      BY DEF IInv, TypeOK, Job
    <2>2. QED
      BY <1>5, <2>1, FetchAdmits DEF Gate!GateNext
  <1>6. CASE Claim(r)
    <2>1. job[r].token \in Requests
      BY DEF IInv, TypeOK, Job
    <2>2. QED
      BY <1>6, <2>1, ClaimBegins DEF Gate!GateNext
  <1>7. CASE RejectRead(r)
    <2>1. job[r].kind = "reject" /\ pending' = pending /\ closed' = closed /\ Handler(r)
      BY <1>7 DEF RejectRead, IInv, StepFitsKind, RejectSteps, store, Handler
    <2>2. QED
      BY <2>1, QuietStep, KindKept
  <1>8. CASE RejectDelete(r)
    <2>1. /\ job[r].kind = "reject" /\ RemovePending(job[r].token) /\ Handler(r)
          /\ job[r].token \in Requests /\ Offered(job[r].token)
      BY <1>8 DEF RejectDelete, CancelPending, IInv, TypeOK, Job, StepFitsKind, RejectSteps,
                  Handler, TokenKnown
    <2>2. \A q \in Requests : /\ job'[q].kind = job[q].kind /\ job'[q].token = job[q].token
                              /\ job[q].kind = "accept" => pc'[q] = pc[q]
      BY <2>1, OneMoves, KindKept
    <2>3. Confirming({"claim"})' = Confirming({"claim"}) /\ Confirming(Executing)' = Confirming(Executing)
      BY <2>2 DEF Confirming
    <2>4. QED
      BY <2>1, <2>3, RemovalShuts DEF Gate!GateNext
  <1>9. QED
    BY <1>1, <1>2, <1>3, <1>4, <1>5, <1>6, <1>7, <1>8

\* The end of a time to live shuts a gate; the rest of the clock is a stutter.
LEMMA ClockGateStep ==
    ASSUME IInv, Clock
    PROVE  [Gate!GateNext]_Gate!gateVars
  <1>1. Confirming({"claim"})' = Confirming({"claim"}) /\ Confirming(Executing)' = Confirming(Executing)
    BY DEF Clock, Deadline, EvictConfirm, EvictPending, EvictDedup, Confirming, Executing
  <1>2. ASSUME NEW t \in Requests, EvictPending(t)
        PROVE  [Gate!GateNext]_Gate!gateVars
    <2>1. Offered(t) /\ RemovePending(t)
      BY <1>2 DEF EvictPending, IInv, ParkedMatches
    <2>2. QED
      BY <1>1, <2>1, RemovalShuts DEF Gate!GateNext
  <1>3. ASSUME pending' = pending, closed' = closed
        PROVE  [Gate!GateNext]_Gate!gateVars
    <2>1. GateOf' = GateOf
      BY <1>3 DEF GateOf
    <2>2. QED
      BY <1>1, <2>1 DEF Gate!gateVars
  <1>4. QED
    BY <1>2, <1>3 DEF Clock, Deadline, EvictConfirm, EvictDedup

\* A restart is an outage.
LEMMA RestartGateStep ==
    ASSUME IInv, Restart
    PROVE  Gate!Outage
  <1>1. Confirming({"claim"})' = {} /\ Confirming(Executing)' = {}
    BY DEF Restart, Confirming, Executing, Stopped
  <1>2. CASE pending' = pending /\ closed' = closed
    <2>1. GateOf' = GateOf
      BY <1>2 DEF GateOf
    <2>2. QED
      BY <1>1, <2>1 DEF Gate!Outage
  <1>3. CASE /\ pending' = [t \in Requests |-> NoCommand]
             /\ closed' = closed \union {t \in Requests : pending[t] # NoCommand}
    <2>1. GateOf' = [t \in Requests |-> IF GateOf[t] = "open" THEN "closed" ELSE GateOf[t]]
      BY <1>3 DEF GateOf
    <2>2. QED
      BY <1>1, <2>1 DEF Gate!Outage
  <1>4. QED
    BY <1>2, <1>3 DEF Restart

\* Every behaviour of the command path is one of the gate: a token admits
\* accepts while it is open, opens once, and a confirmed command runs only
\* behind a gate that has been shut.
THEOREM Refinement == Spec => ImplementsGate
  <1>1. Init => Gate!GateInit
    <2> SUFFICES ASSUME Init PROVE Gate!GateInit
      OBVIOUS
    <2>1. GateOf = [t \in Requests |-> "unissued"]
      BY DEF Init, GateOf
    <2>2. \A q \in Requests : job[q].kind # "accept"
      BY DEF Init, NoJob
    <2>3. Confirming({"claim"}) = {} /\ Confirming(Executing) = {}
      BY <2>2 DEF Confirming
    <2>4. QED
      BY <2>1, <2>3 DEF Gate!GateInit
  <1>2. IInv /\ [Next]_vars => [Gate!GateNext]_Gate!gateVars
    <2> SUFFICES ASSUME IInv, [Next]_vars PROVE [Gate!GateNext]_Gate!gateVars
      OBVIOUS
    <2>1. ASSUME NEW r \in Requests, Receive(r) \/ Handler(r)
          PROVE  [Gate!GateNext]_Gate!gateVars
      BY <2>1, CommandGateStep, ConfirmGateStep DEF Handler
    <2>2. CASE Clock
      BY <2>2, ClockGateStep
    <2>3. CASE Restart
      BY <2>3, RestartGateStep DEF Gate!GateNext
    <2>4. CASE UNCHANGED vars
      BY <2>4 DEF vars, Gate!gateVars, GateOf, Confirming
    <2>5. QED
      BY <2>1, <2>2, <2>3, <2>4 DEF Next
  <1>3. QED
    BY <1>1, <1>2, InductiveInvariant, PTL DEF Spec, ImplementsGate, Gate!GateSpec
=============================================================================

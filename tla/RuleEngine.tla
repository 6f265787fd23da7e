------------------------------ MODULE RuleEngine ------------------------------
(***************************************************************************)
(* How runtime/nlu_rule_engine.py makes commands of a sentence of several  *)
(* clauses: clauses that leave something out are completed from their      *)
(* neighbours and written out again, each is read by its slots, and places *)
(* are handed on.  Looking for words in a text is abstracted: a clause is  *)
(* what the _extract functions find in it.                                 *)
(***************************************************************************)
EXTENDS Integers, SequencesExt

None == "none"

\* "light" is any light, the others are of their own kind.
Category(device) == IF device \in {"light", "lamp", "spot"} THEN "lights" ELSE device

\* What a clause says, in words: its slots, whether it begins with a condition
\* or a time, refers to something ("it", "again"), says whose the device is, or
\* leaves a residue no slot accounts for, and whether its action comes first.  spans are
\* the parts of it that can be read by themselves, at is its place in the sentence.
Silent == [action |-> None, location |-> None, device |-> None, parameter |-> None,
           value |-> None, bound |-> FALSE, refers |-> FALSE, owned |-> FALSE, noise |-> FALSE,
           ahead |-> FALSE, spans |-> <<>>, at |-> 0]

\* Clauses made of such words, and the parts of one: stretches of its text.
Wording(words, parts) ==
    [action : words, location : words, device : words, parameter : words, value : words,
     bound : BOOLEAN, refers : BOOLEAN, owned : BOOLEAN, noise : BOOLEAN, ahead : BOOLEAN,
     spans : parts, at : Nat]

Part(words) == [from : Nat, to : Nat, clause : Wording(words, {<<>>})]

IsSentence(s, words) ==
    /\ s \in Seq(Wording(words, Seq(Part(words))))
    /\ \A i \in DOMAIN s : \A a, b \in ToSet(s[i].spans) :
           a.from < a.to /\ (a.from = b.from /\ a.to = b.to => a = b)

Or(x, y) == IF x # None THEN x ELSE y
-----------------------------------------------------------------------------
(***************************************************************************)
(* _analyze_clause and what is done with the clauses before they are read. *)
(***************************************************************************)
Payload(c) == c.parameter # None \/ c.value # None

\* A brightness with its number always leaves a residue.
Noisy(c) == c.noise \/ (c.parameter = "brightness" /\ c.value # None)

Shape(c) ==
    CASE c.bound -> IF c.action # None \/ c.device # None \/ Payload(c)
                    THEN "complete" ELSE "modifier"
      [] ~c.bound /\ c.action # None /\ c.device # None -> "complete"
      [] ~c.bound /\ ((c.device # None /\ c.action = None) \/ (c.device = None /\ Payload(c)))
         -> "dependent"
      [] OTHER -> "unknown"

ClauseType(c) == IF Shape(c) \in {"complete", "dependent"} /\ Noisy(c) THEN "noisy" ELSE Shape(c)

\* A number on its own belongs to the clause before it; of two kinds, degrees win.
IsFragment(c) ==
    /\ c.value # None /\ c.action = None /\ c.device = None /\ c.location = None
    /\ ~c.bound /\ ~c.refers

Measured(p, c) ==
    [p EXCEPT !.parameter = IF c.parameter = "temperature" THEN c.parameter ELSE Or(@, c.parameter),
              !.value = Or(@, c.value)]

Merge(done, c) ==
    IF done # <<>> /\ IsFragment(c) THEN [done EXCEPT ![Len(done)] = Measured(@, c)]
    ELSE Append(done, c)

MergeSplit(clauses) == FoldLeft(Merge, <<>>, clauses)

\* Written out, a clause is its slots, action first.
Rendered(c) ==
    [c EXCEPT !.bound = FALSE, !.refers = FALSE, !.owned = FALSE, !.noise = FALSE,
              !.ahead = TRUE, !.spans = <<>>]

SharedParameter(device, parameter) ==
    IF parameter = "ratio" /\ Category(device) = "lights" THEN "brightness" ELSE parameter

\* The action of the clause before, and its place if the device is the same.
ForwardFill(p, c) ==
    LET location == IF c.location = None /\ ~c.owned /\ (c.device = p.device \/ c.refers)
                    THEN p.location ELSE c.location
        filled   == [c EXCEPT !.action = Or(@, p.action), !.location = location]
    IN  IF "noisy" \in {ClauseType(p), ClauseType(c)} \/ c.device = None \/ filled = c
        THEN c ELSE Rendered(filled)

Shareable(p) ==
    /\ ClauseType(p) # "noisy"
    /\ \/ p.device # None /\ p.action = None
       \/ p.device = None /\ (p.location # None \/ p.action # None)

\* A bug: the place is shared as well.
SharesPlace(p, c) ==
    Rendered([p EXCEPT !.action = Or(@, c.action), !.device = Or(@, c.device),
                       !.location = Or(@, c.location)])

BackfillOne(p, c) ==
    LET device == Or(p.device, c.device) IN
    Rendered([p EXCEPT !.action = Or(@, c.action), !.device = device,
                       !.parameter = Or(@, SharedParameter(device, c.parameter)),
                       !.value = Or(@, c.value)])

\* The clauses right before a complete one that lack what it says.
Backfill(done, c) ==
    IF ClauseType(c) = "complete" /\ c.action # None /\ c.device # None
    THEN LET stop == Max({0} \union {i \in DOMAIN done : ~Shareable(done[i])}) IN
         [i \in DOMAIN done |-> IF i > stop THEN BackfillOne(done[i], c) ELSE done[i]]
    ELSE done

\* Whether the joined text has words left that no slot of it accounts for: a second
\* place, or one that refers or says whose.
Leftover(modifier, c) ==
    \/ modifier.noise \/ Noisy(c) \/ c.refers \/ c.owned
    \/ modifier.location # None /\ c.location # None

\* Of two conditions the second is what can be read.  A place in one is that of the clause
\* if that names a device and all of it is read: what is recovered begins with the clause.
Join(modifier, c) ==
    IF c.bound THEN c
    ELSE [c EXCEPT !.bound = TRUE, !.noise = Leftover(modifier, c),
                   !.location = IF Leftover(modifier, c) \/ (c.action # None /\ c.device = None)
                                THEN @ ELSE Or(@, modifier.location)]

\* A condition or a time on its own joins what follows it.
Settle(acc, c) ==
    LET joined == IF acc.held = <<>> THEN c ELSE Join(Head(acc.held), c)
        filled == IF acc.done = <<>> THEN joined ELSE ForwardFill(Last(acc.done), joined)
    IN  IF ClauseType(joined) = "modifier" THEN [held |-> <<joined>>, done |-> acc.done]
        ELSE [held |-> <<>>, done |-> Append(Backfill(acc.done, filled), filled)]

Decompose(clauses) ==
    LET end == FoldLeft(Settle, [held |-> <<>>, done |-> <<>>], clauses) IN end.done \o end.held
-----------------------------------------------------------------------------
(***************************************************************************)
(* A clause is read, with what the commands before it were about.          *)
(***************************************************************************)
NoCommand == <<>>

Command(c, action, device, location, conf) ==
    [action |-> action, device |-> device, location |-> location, parameter |-> c.parameter,
     value |-> c.value, conf |-> conf, at |-> c.at]

Implausible(action, c) == action \in {"open", "close"} /\ Payload(c)

\* The device that is meant when none is named.
DefaultDevice(action, parameter) ==
    CASE parameter = "temperature" -> "ac"
      [] parameter = "ratio"       -> "curtain"
      [] parameter = "brightness"  -> "light"
      [] OTHER -> IF action \in {"open", "close"} THEN "light" ELSE "ac"

\* The place of the command before is taken over.
Inherits(c, context) ==
    /\ c.location = None /\ ~c.owned /\ context.location # None
    /\ \/ c.device # None /\ (c.refers \/ c.device = context.device)
       \/ c.device = None /\ Payload(c)

BySlots(c, context) ==
    LET action   == Or(c.action, context.action)
        location == IF Inherits(c, context) THEN context.location ELSE c.location
        parameter == IF c.parameter = "ratio" /\ Category(context.device) = "lights"
                     THEN "brightness" ELSE c.parameter
        device    == Or(c.device, DefaultDevice(action, parameter))
        heard     == IF parameter = c.parameter THEN c ELSE [c EXCEPT !.parameter = "brightness"]
    IN  IF Noisy(c) \/ action = None \/ Implausible(action, c) \/ (c.bound /\ c.device = None)
        THEN NoCommand
        ELSE <<Command(heard, action, device, location, IF Payload(c) THEN 93 ELSE 90)>>

\* The patterns find what is switched "with" a number, if the action comes first.
ByPattern(c) ==
    IF c.ahead /\ ~c.refers /\ ~c.owned /\ c.device # None /\ Implausible(c.action, c) /\ ~Noisy(c)
    THEN <<Command(c, c.action, c.device, c.location, 95)>> ELSE NoCommand

ParseSingle(c, context) ==
    LET slots == BySlots(c, context) IN IF slots # NoCommand THEN slots ELSE ByPattern(c)

Signature(cmd) == <<cmd.action, cmd.location, cmd.device, cmd.parameter, cmd.value>>

Score(span) ==
    span.command.conf + Min({span.to - span.from, 16})
        + (IF span.command.location # None THEN 2 ELSE 0) + (IF span.command.value # None THEN 2 ELSE 0)

Overlap(a, b) == a.from < b.to /\ b.from < a.to

\* The first that starts, the best of those that start there; nothing twice, and
\* no two that overlap.
Before(a, b) == \/ a.from < b.from
                \/ a.from = b.from /\ Score(a) > Score(b)
                \/ a.from = b.from /\ Score(a) = Score(b) /\ a.to < b.to

Behind(candidates) == CHOOSE b \in candidates : \A a \in candidates \ {b} : Before(a, b)

Choose(new, chosen) ==
    IF \E i \in DOMAIN chosen :
          Overlap(chosen[i], new) \/ Signature(chosen[i].command) = Signature(new.command)
    THEN chosen ELSE Append(chosen, new)

SelectRecovery(candidates) ==
    MapThenFoldSet(Choose, <<>>, LAMBDA c : c, Behind, candidates)

\* From its action on, or from its device, a clause can often be read, but for the
\* number of what is switched.  A brightness named before its action is lost, and
\* all that stands there; after it, the word is skipped.
Stretch(c) ==
    LET said == IF c.parameter = "brightness" /\ ~c.ahead
                THEN [Rendered(c) EXCEPT !.device = None, !.location = None,
                                         !.parameter = IF c.value # None THEN "ratio" ELSE None]
                ELSE [Rendered(c) EXCEPT !.owned = c.owned,
                                         !.parameter = IF @ = "brightness" THEN None ELSE @]
    IN  IF Implausible(c.action, c) THEN [said EXCEPT !.parameter = None, !.value = None] ELSE said

\* A stretch counts if the place of its command is in it.  If it would be inherited,
\* what is left is its words without the unit, from the action on, which do not have
\* to be a stretch - or else the action alone.
Reading(c, context) ==
    LET whole == Stretch(c) IN
    IF ~Inherits(whole, context) THEN whole
    ELSE IF c.parameter # None /\ ~Implausible(c.action, c)
    THEN [whole EXCEPT !.parameter = None, !.device = IF c.ahead THEN @ ELSE None]
    ELSE [Silent EXCEPT !.action = c.action, !.at = c.at]

Spans(c, context) ==
    CASE c.spans # <<>> -> {[t EXCEPT !.clause.at = c.at] :
                              t \in {u \in ToSet(c.spans) : ~Inherits(u.clause, context)}}
      [] c.spans = <<>> /\ c.action # None ->
           {[from |-> 0, to |-> 9, clause |-> Reading(c, context)]}
      [] OTHER -> {}

Candidates(c, context) ==
    LET read(s) == ParseSingle(s.clause, context) IN
    {[from |-> s.from, to |-> s.to, command |-> Head(read(s))] :
        s \in {t \in Spans(c, context) :
                 read(t) # NoCommand /\ ~Implausible(Head(read(t)).action, Head(read(t)))}}

\* Out of a clause that cannot be read, what its parts say.
Recover(c, context) ==
    LET chosen == SelectRecovery(Candidates(c, context)) IN
    [i \in DOMAIN chosen |-> chosen[i].command]

ParseClause(c, context) ==
    LET single == ParseSingle(c, context) IN
    IF single # NoCommand THEN single ELSE Recover(c, context)

Carry(context, cmd) == [action |-> Or(cmd.action, context.action),
                        device |-> Or(cmd.device, context.device),
                        location |-> Or(cmd.location, context.location)]

Fresh == [action |-> None, device |-> None, location |-> None]

Read(acc, c) ==
    LET cmds == ParseClause(c, acc.context) IN
    [commands |-> acc.commands \o cmds, context |-> FoldLeft(Carry, acc.context, cmds)]

ReadClauses(clauses) ==
    FoldLeft(Read, [commands |-> <<>>, context |-> Fresh], clauses).commands

\* A setting without a place is for where the same device, or one of its kind,
\* was last spoken of.
Inherit(done, cmd) ==
    LET located(same(_)) == {i \in DOMAIN done : same(done[i].device) /\ done[i].location # None}
        device == located(LAMBDA d : d = cmd.device)
        kind   == located(LAMBDA d : Category(d) = Category(cmd.device))
        where  == IF device # {} THEN device ELSE kind
    IN  Append(done,
            IF cmd.location = None /\ where # {} /\ (Payload(cmd) \/ cmd.action = "set")
            THEN [cmd EXCEPT !.location = done[Max(where)].location] ELSE cmd)

InheritLocation(commands) == FoldLeft(Inherit, <<>>, commands)

Numbered(sentence) == [i \in DOMAIN sentence |-> [sentence[i] EXCEPT !.at = i]]

Parse(sentence) == InheritLocation(ReadClauses(Decompose(MergeSplit(Numbered(sentence)))))
=============================================================================

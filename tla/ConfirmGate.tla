----------------------------- MODULE ConfirmGate -----------------------------
(***************************************************************************)
(* What the confirmation of high-risk commands promises, without stores,   *)
(* time or threads.  A token is a gate: closed for good once it has been   *)
(* closed.  Accepts that find it open are admitted, and the command behind *)
(* it runs only after the gate has been shut, so that whoever comes later  *)
(* - a second accept, or one after a restart - is turned away.             *)
(* Several accepts may be admitted while the gate is open.                 *)
(***************************************************************************)
CONSTANTS
    Tokens,   \* confirm tokens
    Runners   \* requests that may run a confirmed command

VARIABLES
    gate,      \* [Tokens -> {"unissued", "open", "closed"}]
    admitted,  \* <<token, runner>> that found the gate open
    running    \* <<token, runner>> that run the command

gateVars == <<gate, admitted, running>>

GateInit ==
    /\ gate = [t \in Tokens |-> "unissued"]
    /\ admitted = {}
    /\ running = {}

Issue(t) ==
    /\ gate[t] = "unissued"
    /\ gate' = [gate EXCEPT ![t] = "open"]
    /\ UNCHANGED <<admitted, running>>

Admit(t, r) ==
    /\ gate[t] = "open"
    /\ admitted' = admitted \union {<<t, r>>}
    /\ UNCHANGED <<gate, running>>

\* The runner shuts the gate, if nobody has, and starts.
Begin(t, r) ==
    /\ <<t, r>> \in admitted
    /\ gate' = [gate EXCEPT ![t] = "closed"]
    /\ admitted' = admitted \ {<<t, r>>}
    /\ running' = running \union {<<t, r>>}

End(t, r) ==
    /\ running' = running \ {<<t, r>>}
    /\ UNCHANGED <<gate, admitted>>

\* A refusal, or the end of the time to live.
Shut(t) ==
    /\ gate[t] = "open"
    /\ gate' = [gate EXCEPT ![t] = "closed"]
    /\ UNCHANGED <<admitted, running>>

\* The process dies with everybody in it; open gates survive it, or none does.
Outage ==
    /\ admitted' = {} /\ running' = {}
    /\ \/ UNCHANGED gate
       \/ gate' = [t \in Tokens |-> IF gate[t] = "open" THEN "closed" ELSE gate[t]]

GateNext ==
    \/ \E t \in Tokens : Issue(t) \/ Shut(t)
    \/ \E t \in Tokens, r \in Runners : Admit(t, r) \/ Begin(t, r) \/ End(t, r)
    \/ Outage

GateSpec == GateInit /\ [][GateNext]_gateVars
=============================================================================

------------------------------- MODULE Policy -------------------------------
(***************************************************************************)
(* The rules of runtime/policy_engine.py: which tool a canonical intent    *)
(* needs, how risky it is, who may use it, and the key under which its     *)
(* result is remembered.  Pure operators, no state.                        *)
(*                                                                         *)
(* A command is what the NLU pipeline hands to the policy engine after     *)
(* canonicalisation and entity resolution: a record with the fields        *)
(* intent, sub_intent, entity and value.                                   *)
(***************************************************************************)

\* The part every role of ROLE_WHITELIST shares.
CommonTools == {"ha_search_entities", "ha_call_service", "ha_get_entity",
                "ha_bulk_control", "ha_overview"}

AdminTools == {"ha_create_automation", "ha_update_automation", "ha_create_backup"}

\* ROLE_WHITELIST.get(user_role, set()): a role the table does not list has no tool.
RoleWhitelist(role) ==
    CASE role = "normal_user" -> CommonTools
      [] role = "admin"       -> CommonTools \union AdminTools
      [] OTHER                -> {}

PlanTool(cmd) ==
    CASE cmd.intent = "SYSTEM" /\ cmd.sub_intent = "backup" -> "ha_create_backup"
      [] cmd.intent \in {"SCHEDULE", "AUTOMATION"}          -> "ha_create_automation"
      [] cmd.intent = "QUERY"                               -> "ha_get_entity"
      [] OTHER                                              -> "ha_call_service"

\* "unlock" is looked at first, whatever the intent.
RiskLevel(cmd) ==
    IF cmd.sub_intent = "unlock" THEN "critical"
    ELSE IF cmd.intent = "SYSTEM" THEN "high"
    ELSE IF cmd.intent \in {"SCHEDULE", "AUTOMATION"} THEN "medium"
    ELSE "low"

\* super_admin skips the whitelist altogether.
Allowed(role, cmd) == role = "super_admin" \/ PlanTool(cmd) \in RoleWhitelist(role)

RequiresConfirmation(cmd) == RiskLevel(cmd) \in {"high", "critical"}

\* PolicyDecision.decision
Evaluate(role, cmd) ==
    IF ~Allowed(role, cmd) THEN "deny"
    ELSE IF RequiresConfirmation(cmd) THEN "confirm"
    ELSE "allow"

\* The hash of the user and of what the command asks for; neither the session
\* nor the role takes part in it.
IdempotencyKey(user, cmd) == <<user, cmd>>

\* retry_policy of a decision that is not "deny"
MaxRetries == 3
=============================================================================

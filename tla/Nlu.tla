--------------------------------- MODULE Nlu ---------------------------------
(***************************************************************************)
(* What the runtime makes of a sentence: the adapter of the rule engine    *)
(* (runtime/nlu_main.py), the local and the remote parser behind it        *)
(* (nlu_fallback.py, nlu_fallback_qwen.py), the canonicalizer and the      *)
(* router.  A sentence is a record of what these tell apart in it:         *)
(*   commands, overall, implicit  the decision of the rule engine on it    *)
(*   words, location, device,                                              *)
(*   number, unit                 what the local parser looks for          *)
(*   several                      two action words and a separator         *)
(*   index                        the device number it seems to hold, or 0 *)
(* A command of the engine, a result (IntentJson) and slots are records    *)
(* and functions; confidences are in percent.  An absent value is None,    *)
(* an absent slot is not in the domain.                                    *)
(***************************************************************************)
EXTENDS Naturals, Sequences, Functions

None == "none"

\* What f has, and what g has beside it; and a single entry.
f ++ g == [k \in DOMAIN f \union DOMAIN g |-> IF k \in DOMAIN f THEN f[k] ELSE g[k]]
One(k, v) == [j \in {k} |-> v]

\* The entries of a record that are there.
Present(r) == Restrict(r, {k \in DOMAIN r : r[k] # None})

Has(slots, k) == k \in DOMAIN slots
Slot(slots, k) == IF Has(slots, k) THEN slots[k] ELSE None
Without(slots, ks) == Restrict(slots, DOMAIN slots \ ks)

\* dict.setdefault
Default(slots, k, v) == slots ++ One(k, v)

\* A default that needs another slot.
UnitIfValue(slots, unit) == IF Has(slots, "value") THEN Default(slots, "value_unit", unit) ELSE slots

Result(intent, sub, slots, conf) ==
    [intent |-> intent, sub |-> sub, slots |-> slots, conf |-> conf, multi |-> <<>>]

NoSlots == <<>>
-----------------------------------------------------------------------------
(***************************************************************************)
(* From the rule engine's decision to a result.                            *)
(***************************************************************************)
IntentOf(cmd) ==
    CASE cmd.intent = "state_query"    -> "QUERY"
      [] cmd.intent = "scene_activate" -> "SCENE"
      [] cmd.intent \in {"automation_create", "automation_cancel"} -> "SYSTEM"
      [] cmd.intent = "unknown"        -> "CHITCHAT"
      [] OTHER                         -> "CONTROL"

\* "set" is 设置为, "more" and "less" the four relative actions; temperature and
\* brightness are told apart by the parameter and the unit.
InferSubIntent(cmd) ==
    IF cmd.intent = "scene_activate" THEN "activate_scene"
    ELSE IF cmd.intent = "state_query" THEN "query_status"
    ELSE IF cmd.intent \in {"automation_create", "automation_cancel"} THEN "backup"
    ELSE IF cmd.action \in {"open", "move"} THEN "power_on"
    ELSE IF cmd.action = "close" THEN "power_off"
    ELSE IF cmd.action = "set" THEN
             (IF cmd.parameter = "brightness" \/ cmd.unit = "%"
              THEN "adjust_brightness" ELSE "set_temperature")
    ELSE IF cmd.action \in {"more", "less"} THEN
             (IF cmd.parameter = "temperature" \/ cmd.unit = "degree"
              THEN "set_temperature" ELSE "adjust_brightness")
    ELSE IF cmd.device # None THEN "power_on"
    ELSE "unknown"

\* The device of a scene command is the scene's name.
ExtractSlots(cmd) ==
    LET scene == cmd.intent = "scene_activate" IN
    Present([location    |-> cmd.location,
             device_type |-> IF scene THEN None ELSE cmd.device,
             scene_name  |-> IF scene THEN cmd.device ELSE None,
             attribute   |-> cmd.parameter,
             value       |-> cmd.value,
             value_unit  |-> cmd.unit])

OfCommand(cmd) == Result(IntentOf(cmd), InferSubIntent(cmd), ExtractSlots(cmd), cmd.conf)

\* The first of the commands that has slot k lends it to a first one without.
Lent(commands, k) ==
    LET with == {i \in DOMAIN commands : Has(ExtractSlots(commands[i]), k)} IN
    IF with = {} THEN NoSlots
    ELSE One(k, ExtractSlots(commands[CHOOSE i \in with : \A j \in with : i <= j])[k])

OfDecision(s) ==
    IF s.commands = <<>>
    THEN IF s.implicit THEN Result("SCENE", "activate_scene", NoSlots, s.overall)
         ELSE Result("CHITCHAT", "unknown", NoSlots, s.overall)
    ELSE LET first == OfCommand(s.commands[1])
             lent  == Lent(s.commands, "location") ++ Lent(s.commands, "device_type")
                          ++ Lent(s.commands, "scene_name") IN
         [first EXCEPT !.slots = IF Len(s.commands) > 1 THEN @ ++ lent ELSE @,
                       !.conf = IF @ < s.overall THEN s.overall ELSE @,
                       !.multi = IF Len(s.commands) > 1
                                 THEN [i \in DOMAIN s.commands |-> OfCommand(s.commands[i])]
                                 ELSE <<>>]
-----------------------------------------------------------------------------
(***************************************************************************)
(* The local parser.  A device spoken of as "it" is the context's.         *)
(***************************************************************************)
LocalSlots(s, ctx) ==
    Present([location    |-> IF s.location # None THEN s.location ELSE ctx.location,
             device_type |-> IF s.device # None THEN s.device
                             ELSE IF "it" \in s.words THEN ctx.device ELSE None,
             value       |-> IF s.number THEN "number" ELSE None,
             value_unit  |-> IF s.number THEN s.unit ELSE None])

Predict(s, ctx) ==
    LET slots == LocalSlots(s, ctx)
        sure(high, low) == IF s.number THEN high ELSE low
        about(w) == w \in s.words
    IN
    IF about("backup") THEN Result("SYSTEM", "backup", slots, 86)
    ELSE IF about("unlock") THEN Result("CONTROL", "unlock", Default(slots, "device_type", "lock"), 82)
    ELSE IF about("brightness") /\ Slot(slots, "device_type") = "lamp" THEN
             Result("CONTROL", "adjust_brightness", slots ++ One("attribute", "brightness"),
                    sure(84, 62))
    ELSE IF about("temperature") /\ Slot(slots, "device_type") = "ac" THEN
             Result("CONTROL", "set_temperature", slots ++ One("attribute", "temperature"),
                    sure(82, 61))
    ELSE IF about("off") /\ Has(slots, "device_type") THEN Result("CONTROL", "power_off", slots, 78)
    ELSE IF about("on") /\ Has(slots, "device_type") THEN Result("CONTROL", "power_on", slots, 78)
    ELSE IF about("chat") THEN Result("CHITCHAT", "chitchat", slots, 74)
    ELSE IF about("it") /\ ~Has(slots, "device_type") THEN
             Result("CHITCHAT", "clarify_needed", slots, 50)
    ELSE Result("CHITCHAT", "unknown", slots, 58)

(***************************************************************************)
(* The remote parser's answer: an intent, or a command list ("commands")   *)
(* of which the first one counts; "text" is what its slots speak of.       *)
(***************************************************************************)
InferFromPayload(p) ==
    IF p.action # None THEN p.action
    ELSE IF "temperature" \in p.text THEN "set_temperature"
    ELSE IF "brightness" \in p.text THEN "adjust_brightness"
    ELSE IF "unlock" \in p.text THEN "unlock"
    ELSE IF p.intent = "QUERY" THEN "query_status"
    ELSE IF p.intent = "SCENE" THEN "activate_scene"
    ELSE IF p.intent = "SYSTEM" THEN "backup"
    ELSE IF p.intent = "CONTROL" THEN "power_on"
    ELSE "unknown"

Intents == {"CONTROL", "QUERY", "SCENE", "SYSTEM", "CHITCHAT"}

OfPayload(p) ==
    IF p.intent = None
    THEN Result("CONTROL", IF p.action = None THEN "unknown" ELSE p.action, p.slots, p.conf)
    ELSE Result(IF p.intent \in Intents THEN p.intent ELSE "CHITCHAT",
                IF p.sub # None THEN p.sub ELSE InferFromPayload(p), p.slots, p.conf)
-----------------------------------------------------------------------------
(***************************************************************************)
(* The canonicalizer.                                                      *)
(***************************************************************************)
SubIntentAliases ==
    [power_on          |-> {"on", "open", "turn_on", "switch_on", "start"},
     power_off         |-> {"off", "close", "turn_off", "switch_off", "stop"},
     set_temperature   |-> {"temperature", "set_temp", "adjust_temperature", "temp"},
     adjust_brightness |-> {"brightness", "set_brightness"},
     query_status      |-> {"query", "query_state", "get_state", "status", "state"},
     activate_scene    |-> {"scene", "run_scene"},
     backup            |-> {"create_backup"},
     unlock            |-> {"open_lock"},
     chitchat          |-> {"chat"},
     clarify_needed    |-> {},
     unknown           |-> {None}]

CanonicalSubIntents == DOMAIN SubIntentAliases

\* A word that is in no list stays as it is.
CanonicalSubIntent(w) ==
    IF \E c \in CanonicalSubIntents : w \in SubIntentAliases[c]
    THEN CHOOSE c \in CanonicalSubIntents : w \in SubIntentAliases[c]
    ELSE w

DeviceWords == [lamp |-> {"lamp", "light"}, ac |-> {"ac", "climate"},
                lock |-> {"lock"}, plug |-> {"plug", "socket"}, switch |-> {"switch"}]

\* What is no device at all: pronouns, rooms, words of the protocol.
DeviceStopwords == {"it", "system", "hall", "null", "power_on"}

CanonicalDevice(w) ==
    IF \E d \in DOMAIN DeviceWords : w \in DeviceWords[d]
    THEN CHOOSE d \in DOMAIN DeviceWords : w \in DeviceWords[d]
    ELSE IF w \in DeviceStopwords THEN None ELSE w

\* The unit that a temperature or a brightness has when none is said; a value
\* that is no number gets none of the second.
DefaultsOf(sub, slots) ==
    CASE sub = "set_temperature" ->
             UnitIfValue(Default(slots, "attribute", "temperature"), "degree")
      [] sub = "adjust_brightness" ->
             LET named == Default(slots, "attribute", "brightness") IN
             IF Slot(slots, "value") = "number" THEN UnitIfValue(named, "%") ELSE named
      [] OTHER -> slots

\* The device's own word is kept beside the canonical one if it is another.
NormalizeSlots(slots, sub) ==
    LET said == Slot(slots, "device_type")
        known == IF said = None THEN None ELSE CanonicalDevice(said)
    IN  DefaultsOf(sub, Without(slots, {"device_type"})
            ++ Present([device_type |-> known,
                        original |-> IF known \in {None, said} THEN None ELSE said]))

\* Words of the remote parser that hold "unlock".
UnlockWords == {"unlock_door", "door_unlock"}

InferByFrame(intent, sub, slots) ==
    IF sub \in CanonicalSubIntents THEN sub
    ELSE IF sub \in UnlockWords THEN "unlock"
    ELSE IF Has(slots, "scene_name") THEN "activate_scene"
    ELSE IF Slot(slots, "attribute") = "temperature" \/ Slot(slots, "value_unit") = "degree" THEN
             "set_temperature"
    ELSE IF Slot(slots, "attribute") = "brightness" \/ Slot(slots, "value_unit") = "%" THEN
             "adjust_brightness"
    ELSE IF intent = "QUERY" THEN "query_status"
    ELSE IF intent = "SCENE" THEN "activate_scene"
    ELSE IF intent = "SYSTEM" THEN "backup"
    ELSE IF intent = "CHITCHAT" THEN "chitchat"
    ELSE IF intent = "CONTROL" /\ Has(slots, "value") /\ ~Has(slots, "device_type") THEN "unknown"
    ELSE IF intent = "CONTROL" /\ {"entity_id", "device_type", "location"} \intersect DOMAIN slots # {} THEN
             "power_on"
    ELSE "unknown"

\* The device an action is about if none is said.
ImpliedDevice(sub) == CASE sub = "set_temperature" -> "ac"
                        [] sub = "adjust_brightness" -> "lamp"
                        [] OTHER -> None

ApplyActionRules(sub, slots) ==
    CASE sub = "set_temperature" ->
             Without(Default(UnitIfValue(slots, "degree"), "device_type", ImpliedDevice(sub)),
                     {"scene_name"})
      [] sub = "adjust_brightness" ->
             Without(Default(UnitIfValue(slots, "%"), "device_type", ImpliedDevice(sub)),
                     {"scene_name"})
      [] sub = "activate_scene" ->
             Without(slots, {"attribute", "value", "value_unit", "device_type"})
      [] OTHER -> slots

InferIntent(intent, sub) ==
    CASE sub \in {"power_on", "power_off", "set_temperature", "adjust_brightness", "unlock"} ->
             "CONTROL"
      [] sub = "activate_scene" -> "SCENE"
      [] sub = "query_status"   -> "QUERY"
      [] sub = "backup"         -> "SYSTEM"
      [] OTHER                  -> "CHITCHAT"

\* The device whose name is in the word for the action itself: "unlock" and
\* "lock" hold the lock's, "switch_on" the switch's, and "activate_scene" and
\* "backup" hold "ac".
NamedInWord(w) ==
    CASE w \in {"activate_scene", "backup", "create_backup"} -> "ac"
      [] w \in {"unlock", "open_lock", "lock"} \union UnlockWords -> "lock"
      [] w \in {"switch_on", "switch_off"}                   -> "switch"
      [] OTHER                                               -> None

Canonicalize(result) ==
    LET word  == CanonicalSubIntent(result.sub)
        slots == NormalizeSlots(result.slots, word)
        sub   == InferByFrame(result.intent, word, slots)
        ruled == ApplyActionRules(sub, slots)
    IN  [result EXCEPT !.sub = sub, !.intent = InferIntent(result.intent, sub),
                       !.slots = ruled ++ Present([device_type |-> NamedInWord(result.sub)])]
-----------------------------------------------------------------------------
(***************************************************************************)
(* The router: rule engine, main model, fallback.                          *)
(***************************************************************************)
RulePass == 88
MainPass == 85
FallbackTrigger == 60
ClarifyTrigger == 65

HasTarget(slots) == {"entity_id", "device_type", "scene_name"} \intersect DOMAIN slots # {}

MissingRequired(result) ==
    IF result.intent \in {"SCENE", "QUERY"} THEN ~HasTarget(result.slots)
    ELSE IF result.intent = "CONTROL" /\ result.sub = "set_temperature" THEN
             ~Has(result.slots, "value")
    ELSE IF result.intent = "CONTROL" /\ result.sub # "adjust_brightness" THEN
             ~HasTarget(result.slots)
    ELSE FALSE

Accepts(result, pass) ==
    /\ result.conf >= pass
    /\ ~(result.intent = "CHITCHAT" /\ result.sub \in {"unknown", "clarify_needed"})
    /\ ~MissingRequired(result)

\* A rule result that seems to have lost a part of the sentence.
ShouldEscalate(s, result) ==
    /\ Len(result.multi) <= 1
    /\ \/ s.several
       \/ /\ result.sub \in {"power_on", "power_off"}
          /\ {"value", "value_unit", "attribute"} \intersect DOMAIN result.slots # {}

NeedsClarification(result) == result.conf < ClarifyTrigger \/ MissingRequired(result)

Routed(stage, result, clarify) == [stage |-> stage, result |-> result, clarify |-> clarify]

\* The main model is the rule engine once more unless another is configured;
\* "fallback" is the result of the parser behind it.
Route(s, main, fallback) ==
    LET rule == Canonicalize(OfDecision(s))
        second == Canonicalize(main)
        third == Canonicalize(fallback)
    IN  IF Accepts(rule, RulePass) /\ ~ShouldEscalate(s, rule)
        THEN Routed("rule", rule, FALSE)
        ELSE IF Accepts(second, FallbackTrigger) THEN Routed("tinybert", second, FALSE)
        ELSE Routed("qwen", third, NeedsClarification(third))
=============================================================================

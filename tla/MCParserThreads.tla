---------------------------- MODULE MCParserThreads ----------------------------
(* Small instances of ParserThreads: the rules are read sentence by sentence, *)
(* the cache and the topic are used by three threads at once.                 *)
EXTENDS ParserThreads

CONSTANTS t1, t2, t3

Says(action, location, device) ==
    [Silent EXCEPT !.action = action, !.location = location, !.device = device, !.ahead = TRUE]
With(c, parameter) == [c EXCEPT !.parameter = parameter, !.value = "number"]

Warm == With(Silent, "temperature")                                \* 26度
Half == With(Silent, "ratio")                                      \* 50%
HallLamp == Says(None, "hall", "lamp")                             \* 客厅台灯
SetHalf == With(Says("set", None, None), "ratio")                  \* 设置为50%
OpenHallAc == Says("open", "hall", "ac")                           \* 打开客厅空调

\* 嗯开台灯26度开空调, and what its parts could be
Mumble == [Silent EXCEPT !.noise = TRUE, !.spans = <<
    [from |-> 1, to |-> 5, clause |-> Says("open", None, "lamp")],
    [from |-> 1, to |-> 8, clause |-> Says("open", None, "lamp")],
    [from |-> 4, to |-> 8, clause |-> With(Says("set", None, None), "temperature")],
    [from |-> 8, to |-> 12, clause |-> Says("open", "hall", "ac")]>>]

MCClauses == {
    Warm, Half, HallLamp, SetHalf, OpenHallAc, Mumble,
    Says(None, None, "ac"), Says(None, "bed", None), Says("close", None, None),
    Says("open", None, "lamp"), Says("close", "bed", "curtain"),
    [Says("open", None, "ac") EXCEPT !.refers = TRUE],             \* 也打开空调
    [Says("close", None, "lamp") EXCEPT !.owned = TRUE],           \* 关闭我的台灯
    With([Says("set", None, "ac") EXCEPT !.ahead = FALSE], "temperature"),
    With(Says("set", "hall", "spot"), "ratio")}

MCVocabulary == {None, "open", "close", "set", "hall", "bed", "ac", "lamp", "spot", "curtain",
                 "temperature", "ratio", "brightness", "number"}

\* 如果下雨就, 如果卧室下雨就, 卧室8点
IfItRains == [Silent EXCEPT !.bound = TRUE, !.noise = TRUE]
Conditions == {IfItRains, [IfItRains EXCEPT !.location = "bed"],
               [IfItRains EXCEPT !.location = "bed", !.noise = FALSE]}

\* What a condition makes of a clause about the device before.
CloseAc == Says("close", None, "ac")
Afterwards == {CloseAc, With([Says("set", "bed", "spot") EXCEPT !.ahead = FALSE], "brightness"),
            With([Says("set", None, "ac") EXCEPT !.ahead = FALSE], "temperature"),
            With(Says("set", None, "lamp"), "brightness")}

\* Of what is switched on and off an ac's temperature is none, but its place goes on.
Between == <<Says("open", None, "lamp"), [Silent EXCEPT !.bound = TRUE, !.location = "bed"],
             [With(Says(None, "hall", "ac"), "temperature") EXCEPT !.ahead = FALSE],
             Says(None, None, "ac")>>

MCSentences ==
    {<<c, d>> : c, d \in MCClauses} \union {<<c, d, e>> : c, d, e \in MCClauses}
        \union {<<m, c, d>> : m \in Conditions, d \in MCClauses,
                              c \in {Says("close", "bed", "curtain"), OpenHallAc, Says("open", None, "lamp")}}
        \union {<<c, m, d>> : m \in Conditions, c \in {OpenHallAc, HallLamp, Says("open", None, "ac")},
                              d \in MCClauses \union Afterwards}
        \union {<<c, d>> : c \in {OpenHallAc, Says("open", None, "lamp"), SetHalf}, d \in Afterwards}
        \union {Between}

Alone == {[crew |-> {t}, texts |-> {s}, warm |-> <<>>] : t \in Threads, s \in MCSentences}

A == <<OpenHallAc>>
B == <<HallLamp, SetHalf>>
C == <<Says("close", "bed", "curtain")>>
D == <<Says("open", None, "lamp")>>

Together == [crew |-> Threads, texts |-> {A, D}, warm |-> <<A, B, C>>]

MCParties == Alone \union {Together}

Symmetry == Permutations(Threads)
=============================================================================

----------------------------- MODULE MCDialogue -----------------------------
(* Small instances of Dialogue.                                             *)
EXTENDS Dialogue

CONSTANTS r1, r2, r3, u1, u2

Silence == [commands |-> <<>>, overall |-> 0, implicit |-> FALSE, words |-> {},
            location |-> None, device |-> None, number |-> FALSE, unit |-> None,
            several |-> FALSE, index |-> 0]

Command == [intent |-> "device_control", action |-> "open", location |-> None, device |-> None,
            parameter |-> None, value |-> None, unit |-> None, conf |-> 90]

LampOn == [Command EXCEPT !.device = "lamp", !.location = "kitchen"]

\* 打开厨房灯
TurnOnLamp == [Silence EXCEPT !.commands = <<LampOn>>, !.overall = 90, !.words = {"on"},
                              !.device = "lamp", !.location = "kitchen"]
\* 关掉它
TurnItOff == [Silence EXCEPT !.words = {"off", "it"}]
\* 回家模式
ComeHome == [Silence EXCEPT !.overall = 85,
    !.commands = <<[Command EXCEPT !.intent = "scene_activate", !.device = "home", !.conf = 85]>>]
\* 你好
Hello == [Silence EXCEPT !.words = {"chat"}]
\* 空调调到26度
Warmer == [Silence EXCEPT !.overall = 90, !.device = "ac", !.number = TRUE, !.index = 2,
    !.unit = "degree", !.words = {"temperature", "brightness"},
    !.commands = <<[Command EXCEPT !.action = "set", !.device = "ac", !.value = "number",
                                   !.unit = "degree"]>>]
\* 打开灯和关闭空调
Both == [Silence EXCEPT !.overall = 90, !.several = TRUE, !.device = "lamp",
    !.commands = <<LampOn, [Command EXCEPT !.action = "close", !.device = "ac"]>>]

\* 做个备份
MakeBackup == [Silence EXCEPT !.words = {"backup"}]

MCSentences == {TurnOnLamp, TurnItOff, ComeHome, Hello, Warmer, Both, MakeBackup}

Answer1 == [intent |-> "CONTROL", sub |-> None, action |-> None, text |-> {}, conf |-> 60,
            slots |-> [device_type |-> "socket"]]
Answer2 == [Answer1 EXCEPT !.intent = None, !.conf = 80, !.action = "brightness",
                           !.slots = [value |-> "word", location |-> "hall"]]

MCTried == {Hello}

MCPayloads == {Answer1, Answer2}

Item(n, i) == [name |-> n, number |-> i]
MCFound == {<<>>, <<Item("a", 0)>>, <<Item("a", 1), Item("a", 2)>>}

Symmetry == Permutations(Requests) \union Permutations(Users)
=============================================================================

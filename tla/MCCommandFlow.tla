---------------------------- MODULE MCCommandFlow ----------------------------
(* Small instances of CommandFlow.                                          *)
EXTENDS CommandFlow, TLC

CONSTANTS r1, r2, r3

LightOn == [intent |-> "CONTROL", sub_intent |-> "power_on", entity |-> "light", value |-> ""]
Unlock  == [intent |-> "CONTROL", sub_intent |-> "unlock", entity |-> "door", value |-> ""]
Backup  == [intent |-> "SYSTEM", sub_intent |-> "backup", entity |-> "", value |-> ""]

OnlyUnlock == {Unlock}
TwoCommands == {LightOn, Backup}

TwoRequests == {r1, r2}
ThreeRequests == {r1, r2, r3}
Symmetry == Permutations(Requests)
=============================================================================

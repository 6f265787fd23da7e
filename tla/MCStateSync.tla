----------------------------- MODULE MCStateSync -----------------------------
(* Small instances of StateSync.                                            *)
EXTENDS StateSync, TLC

CONSTANTS light, clock

Both == {light, clock}
Light == {light}
Clock == {clock}
None == {}
=============================================================================

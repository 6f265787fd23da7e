--------------------------- MODULE MCHaConnection ---------------------------
(* Small instances of HaConnection.                                         *)
EXTENDS HaConnection, TLC

CONSTANT c1

NoCalls == {}
OneCall == {c1}
=============================================================================

------------------------------ MODULE MCKnxLink ------------------------------
(* Small instances of KnxLink: the constants are given in the .cfg files.    *)
EXTENDS KnxLink
=============================================================================

------------------------------ MODULE MCAdapter ------------------------------
(* A small instance of Adapter: a lock that discover does not show, and for   *)
(* each way of telling an error an answer that tells it.                      *)
EXTENDS Adapter, TLC

CONSTANTS t1, t2, lamp, lock

MCThreads == {t1, t2}
MCEntities == {lamp, lock}
MCListed == {lamp}

Error(code, words, status) == [code |-> code, words |-> words, status |-> status]

MCErrors ==
    {Error("none", {"tool", "not found"}, 200), Error("none", {"timeout", "tool"}, 200),
     Error("none", {}, 504), Error("none", {"entity", "not found"}, 404),
     Error("none", {"tool", "ha_call_"}, 422), Error("SERVICE_NOT_FOUND", {"timeout"}, 504),
     Error("CONNECTION_FAILED", {"tool", "not found"}, 408),
     Error("RESOURCE_LOCKED", {"tool", "not found"}, 409)}
=============================================================================

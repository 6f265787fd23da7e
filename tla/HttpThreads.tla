----------------------------- MODULE HttpThreads -----------------------------
(***************************************************************************)
(* The HTTP handlers of runtime/server.py are synchronous functions, which *)
(* FastAPI runs in a pool of threads.  The adapters and the parser are     *)
(* objects that all of them use.                                           *)
(***************************************************************************)
CONSTANT Threads
=============================================================================

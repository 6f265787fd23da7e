--------------------------- MODULE MCGatewayServer ---------------------------
(* Small instances of GatewayServer.                                        *)
EXTENDS GatewayServer

CONSTANTS c1, c2

\* One client asks for everything there is to ask for, the others listen.
Asking == [c \in Conns |-> IF c = c1 THEN AllKinds ELSE {"subscribe", "subscribe_device"}]
=============================================================================

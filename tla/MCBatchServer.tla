---------------------------- MODULE MCBatchServer ----------------------------
(* A small instance of BatchServer: two requests that share a prefix.        *)
EXTENDS BatchServer

CONSTANTS c1, c2

MCClients == {c1, c2}

MCPrompt == [c \in Clients |-> IF c = c1 THEN <<0>> ELSE <<0, 1>>]
=============================================================================

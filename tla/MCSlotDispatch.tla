--------------------------- MODULE MCSlotDispatch ---------------------------
(* A small instance of SlotDispatch: two conversations, one of which comes   *)
(* back with its reply appended, and a request that shares their first       *)
(* token.                                                                    *)
EXTENDS SlotDispatch

CONSTANTS c1, c2, c3, c4

MCClients3 == {c1, c2, c3}
MCClients4 == {c1, c2, c3, c4}

\* 0 is the shared system prompt, "r" a reply; c2 continues c1's conversation.
MCPrompt ==
    [c \in Clients |->
        CASE c = c1 -> <<0, 1>>
          [] c = c2 -> <<0, 1, Reply, 2>>
          [] c = c3 -> <<0, 3>>
          [] OTHER  -> <<4>>]
=============================================================================

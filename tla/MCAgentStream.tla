--------------------------- MODULE MCAgentStream ---------------------------
(* A finite instance of AgentStream. *)
EXTENDS AgentStream, TLC

CONSTANTS c1, c2, c3, c4, c5

MCFormOf == (c1 :> "git") @@ (c2 :> "build") @@ (c3 :> "malformed") @@ (c4 :> "read")
            @@ (c5 :> "unknown")

\* Enough requests to fill the channel; or a request among the events.
MCLoads == {[calls |-> {c1, c2, c3}, chats |-> {}, windows |-> {}, stalls |-> 0],
            [calls |-> {c5}, chats |-> Chats, windows |-> Windows, stalls |-> 1],
            [calls |-> {c4}, chats |-> {}, windows |-> {}, stalls |-> 0]}

=============================================================================

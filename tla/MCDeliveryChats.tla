--------------------------- MODULE MCDeliveryChats ----------------------------
(***************************************************************************)
(* Delivery in two conversations, one per behaviour. The single chat (the  *)
(* constants of the configuration): two messages and retries over a Bus    *)
(* that refuses and disconnects. The group: one message, of a or b, while  *)
(* b joins and leaves, app pushes are on, queues hold one event and every  *)
(* fault happens.                                                          *)
(***************************************************************************)
EXTENDS MCDelivery

CONSTANTS a, k1

VARIABLE chat

G == INSTANCE Delivery WITH
        LogKeys <- {k1}, Pusher <- TRUE, Participants <- {a}, SessionType <- "group",
        Senders <- {a, b}, Movers <- {b}, Faults <- {"publish", "bus", "lookup", "crash"},
        MaxMsgs <- 1, MaxPubs <- 1, MaxChanges <- 2, BusQueue <- 1, DeliverQueue <- 1

MCInit ==
    \/ chat = "single" /\ Init
    \/ chat = "group" /\ G!Init

MCNext ==
    /\ chat' = chat
    /\ (chat = "single" /\ Next) \/ (chat = "group" /\ G!Next)

\* The fairness of the single chat; liveness is stated for it alone.
MCSpec == MCInit /\ [][MCNext]_<<chat, vars>> /\ Progress

\* A message whose loss is not counted becomes known to every connection that stays
\* open, although the Bus refuses and loses events (resync, Republish and Pull).
EventuallyKnown ==
    \A c \in Conns, s \in Seqs :
        (chat = "single" /\ conn[c] = "open" /\ s \in 1 .. Size)
            ~> (s \in known[c] \/ conn[c] = "closed" \/ s \in dropped[NodeOf[c]])
===============================================================================

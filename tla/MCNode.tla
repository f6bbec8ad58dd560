------------------------------- MODULE MCNode --------------------------------
(***************************************************************************)
(* The parts of one node, each in its own behaviours: the send queues and  *)
(* byte budget of connections (ClientQueue), the life of the node          *)
(* (Lifecycle) and a connection's subscription (OnlineSubscriptions). The  *)
(* parts a behaviour is not about keep their initial state.                *)
(***************************************************************************)
EXTENDS ClientQueue, Lifecycle, OnlineSubscriptions, TLC

VARIABLE part

\* Requests and pushes for c1, one push for c2: a request and a push, or two pushes that
\* share the budget, while c1 may be kicked and may meet a fault; two requests over the
\* limit of requests in flight.
Targets == [x \in Requests \cup Pushes |-> IF x = "p2" THEN "c2" ELSE "c1"]
ThreeLoads == {{"r1", "p1", "c1"}, {"p1", "p2", "c1"}, {"r1", "r2"}}

WorkerSymmetry == Permutations(Workers)

MCInit ==
    /\ part \in {"queue", "life", "subscriptions"}
    /\ IF part = "queue" THEN load \in Loads ELSE load = CHOOSE l \in Loads : TRUE
    /\ IF part = "life" THEN cfg \in Config ELSE cfg = CHOOSE c \in Config : TRUE
    /\ Init /\ NodeInit /\ OnlineInit

\* One connection that replaces, cancels and closes its subscription, with one of: a
\* second user, a user that comes online, a read or a frame that fails.
MCNext ==
    /\ part' = part
    /\ \/ part = "queue" /\ Next /\ UNCHANGED <<nodeVars, onlineVars>>
       \/ part = "life" /\ NodeNext /\ UNCHANGED <<vars, onlineVars>>
       \/ /\ part = "subscriptions" /\ OnlineNext /\ UNCHANGED <<vars, nodeVars>>
          /\ flips' + failures' + (IF \E c \in Conns : "u2" \in userIds'[c] THEN 1 ELSE 0) <= 1

MCSpec == MCInit /\ [][MCNext]_<<part, vars, nodeVars, onlineVars>>

\* Everything comes to rest: a frame that was read is answered or its socket is closed,
\* a drain ends (ClientQueue), and a node that is asked to stop returns (Lifecycle).
ComesToRest == (part = "queue" => AnsweredOrClosed) /\ (part = "life" => EndsWhenAsked)
=============================================================================

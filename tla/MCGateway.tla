------------------------------ MODULE MCGateway ------------------------------
(***************************************************************************)
(* Gateway in three settings, one per behaviour, for a user who may have   *)
(* one connection. Redis (the faults of the configuration) and table (the  *)
(* deadline alone): the handshake of c1 and its row in an OnlineStore of   *)
(* that kind. Slots: the handshakes of c1 and c2 compete for the user's    *)
(* slot; there is no OnlineStore.                                          *)
(***************************************************************************)
EXTENDS Gateway, TLC

CONSTANTS user, c1, c2

VARIABLE part

UserSlot == [c \in {c1, c2} |-> {Total, user}]
OneEach == (Total :> 0) @@ (user :> 1)

G == INSTANCE Gateway WITH Faults <- {"upgrade"}

T == INSTANCE Gateway WITH Faults <- {"deadline"}

Setting == [redis |-> "redis", table |-> "db", slots |-> "none"]

MCInit == Init /\ part \in DOMAIN Setting /\ driver = Setting[part]

MCNext ==
    /\ part' = part
    /\ \/ part = "redis" /\ Next /\ hs'[c2] = "new"
       \/ part = "table" /\ T!Next /\ hs'[c2] = "new"
       \/ part = "slots" /\ G!Next

\* The fairness of the rows; liveness is stated for them alone.
MCSpec == MCInit /\ [][MCNext]_<<part, vars>> /\ ConnProgress(c1) /\ NodeProgress


\* Rows follow connections. One that stays open gets its row, although the first
\* registration failed: the renewal retries it (renewOnline). One that is closed loses
\* it for good, although its removal was refused, cut off or failed and the node shut
\* down: no renewal extends it and the ttl ends it (PurgeNode's comment, redis.go).
RowsFollow ==
    /\ (part # "slots" /\ hs[c1] = "serving" /\ Active(c1)) ~> (c1 \in online \/ ~Active(c1) \/ Off("run"))
    /\ (part # "slots" /\ cl[c1] = "gone") ~> [](c1 \notin online)
==============================================================================

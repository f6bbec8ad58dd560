------------------------------- MODULE MCStores ------------------------------
(***************************************************************************)
(* The contract suites: the stores' and the caches', one per behaviour.    *)
(***************************************************************************)
EXTENDS Stores, Caches

\* Four calls reach two conversations with a row each; three reach every pair of
\* conflicting users, members, rows or messages.
MCMaxCalls == [s \in Suites |-> IF s = "cursors" THEN 4 ELSE 3]

MCInit == Init /\ CachesInit

MCNext ==
    \/ Next /\ UNCHANGED cacheVars
    \/ suite = "caches" /\ CachesNext /\ UNCHANGED vars

MCSpec == MCInit /\ [][MCNext]_<<vars, cacheVars>>
=============================================================================

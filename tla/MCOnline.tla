------------------------------ MODULE MCOnline -------------------------------
(***************************************************************************)
(* A node that stays up, for the schedule of refreshes.                    *)
(***************************************************************************)
EXTENDS OnlineSubscriptions

\* Bound: a behaviour has failures, or a client that changes its subscription.
OneTrouble == failures' = 0 \/ \A c \in Conns : revision'[c] <= 1

MCSpec == OnlineInit /\ [][Serving /\ OneTrouble]_onlineVars /\ OnlineFairness
=============================================================================

------------------------------ MODULE MCDelivery ------------------------------
(* Instances of Delivery: a connection b1 of user b, on node n1. *)
EXTENDS Delivery, TLC

CONSTANTS b, n1

OneUserOf == [c \in Conns |-> b]
OneNode == [c \in Conns |-> n1]
KeySymmetry == Permutations(LogKeys)
===============================================================================

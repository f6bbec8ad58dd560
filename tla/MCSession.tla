------------------------------- MODULE MCSession -------------------------------
(* Small instances of Session. *)
EXTENDS Session, TLC

CONSTANT n1

OneNode == [c \in Conns |-> n1]
================================================================================

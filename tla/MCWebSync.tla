------------------------------ MODULE MCWebSync ------------------------------
(* Instances of WebSync for TLC. *)
EXTENDS WebSync
=============================================================================

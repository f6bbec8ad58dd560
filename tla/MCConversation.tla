----------------------------- MODULE MCConversation -----------------------------
(* Small instances of Conversation for TLC. *)
EXTENDS Conversation, TLC

(* Requests and client message ids are interchangeable, and so are the     *)
(* users other than the owner.                                             *)
GroupSymmetry ==
    Permutations(Req) \cup Permutations(ClientMsgIds) \cup Permutations(Users \ {Owner})
=============================================================================

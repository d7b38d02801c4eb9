---------------------------- MODULE MCInboxPoll ----------------------------
(* Two conversations: a page of both, and a batch, a sweep and a budget that take one of
   them. *)
EXTENDS InboxPoll

MCTwo == 1 .. 2
=============================================================================

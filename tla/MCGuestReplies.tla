--------------------------- MODULE MCGuestReplies ---------------------------
(* Small instances of GuestReplies for TLC. *)
EXTENDS GuestReplies, TLC

CONSTANTS t1, t2, r1, m1, m2, p1

Interchangeable == Permutations(Threads) \cup Permutations(Drafted)
=============================================================================

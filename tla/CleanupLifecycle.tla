-------------------------- MODULE CleanupLifecycle --------------------------
(***************************************************************************)
(* What the cleanup of price overrides promises about one obligation,      *)
(* whatever processes, people and the provider do around it: the lifecycle *)
(* of docs/PRICING_CLEANUP_V2.md as a state machine, with the one DELETE   *)
(* automation may send.                                                    *)
(***************************************************************************)
EXTENDS Naturals

CONSTANT Records

VARIABLES obligation, \* the state of each
          sent        \* DELETEs automation sent for it

vars == <<obligation, sent>>

Init ==
  /\ obligation = [r \in Records |-> "ABSENT"]
  /\ sent = [r \in Records |-> 0]

Move(r, from, to) ==
  /\ obligation[r] \in from
  /\ \E s \in to : obligation' = [obligation EXCEPT ![r] = s]
  /\ UNCHANGED sent

\* The row comes first; the confirming re-read settles the write.
Intend(r)  == Move(r, {"ABSENT"}, {"PENDING_WRITE"})
Confirm(r) == Move(r, {"PENDING_WRITE"}, {"ACTIVE", "NEEDS_REVIEW", "VANISHED"})

\* A pass takes the row and crosses the boundary.
Claim(r) == Move(r, {"ACTIVE"}, {"CLAIMED"})
Cross(r) == Move(r, {"CLAIMED"}, {"DELETE_STARTED"})

\* The row goes back to the queue only as long as no DELETE was sent.
PutDown(r) == sent[r] = 0 /\ Move(r, {"CLAIMED", "DELETE_STARTED"}, {"ACTIVE"})

\* The one DELETE: behind the boundary, unless a reconciler that read the row
\* before the crossing has sent it to review meanwhile.
Send(r) ==
  /\ obligation[r] \in {"DELETE_STARTED", "NEEDS_REVIEW", "MANUALLY_RESOLVED"}
  /\ sent[r] = 0
  /\ sent' = [sent EXCEPT ![r] = 1]
  /\ UNCHANGED obligation

\* Automation is done with the row, for good.
Settle(r) ==
  Move(r, {"CLAIMED", "DELETE_STARTED"},
       {"CLEANED_UP", "VANISHED", "NEEDS_REVIEW", "UNKNOWN_CLEANUP_STATE"})

\* A person closes what automation gave up on.
Close(r) ==
  Move(r, {"NEEDS_REVIEW", "UNKNOWN_CLEANUP_STATE"}, {"MANUALLY_RESOLVED"})

Next ==
  \E r \in Records :
    \/ Intend(r) \/ Confirm(r) \/ Claim(r) \/ Cross(r) \/ PutDown(r)
    \/ Send(r) \/ Settle(r) \/ Close(r)

Spec == Init /\ [][Next]_vars
=============================================================================

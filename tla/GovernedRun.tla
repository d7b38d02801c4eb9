---------------------------- MODULE GovernedRun ----------------------------
(***************************************************************************)
(* What the governed agent promises about runs and approvals: the run      *)
(* diagram of the README together with the human approval flow. A gated    *)
(* tool is called once at most, for an approval somebody granted, while    *)
(* its run is RUNNING again; a run that ended stays ended. A run that two  *)
(* requests were ever at work on at once is contested, and little of that  *)
(* is left for it; but it is the only one that loses anything.             *)
(***************************************************************************)
EXTENDS Naturals

CONSTANTS Runs, Approvals, Threads, None

VARIABLES stage,     \* of each run
          verdict,   \* on each approval
          asker,     \* the run that asked for it
          calls,     \* of the tool it released, by who made them
          contested  \* runs

vars == <<stage, verdict, asker, calls, contested>>

Init ==
  /\ stage = [r \in Runs |-> "ABSENT"]
  /\ verdict = [a \in Approvals |-> "ABSENT"]
  /\ asker = [a \in Approvals |-> None]
  /\ calls = [a \in Approvals |-> [t \in Threads |-> 0]]
  /\ contested = {}

Move(r, from, to) ==
  /\ stage[r] = from
  /\ stage' = [stage EXCEPT ![r] = to]
  /\ UNCHANGED <<verdict, asker, calls, contested>>

Start(r) == Move(r, "ABSENT", "RUNNING")
End(r)   == Move(r, "RUNNING", "COMPLETED") \/ Move(r, "RUNNING", "FAILED")
Wait(r)  == Move(r, "RUNNING", "WAITING_FOR_APPROVAL")

\* No decision of the run is open.
Settled(r) == \A b \in Approvals : asker[b] = r => verdict[b] # "PENDING"

\* A waiting run asks for one decision at a time, and waits until it is taken.
Ask(a, r) ==
  /\ verdict[a] = "ABSENT"
  /\ stage[r] = "WAITING_FOR_APPROVAL"
  /\ Settled(r)
  /\ verdict' = [verdict EXCEPT ![a] = "PENDING"]
  /\ asker' = [asker EXCEPT ![a] = r]
  /\ UNCHANGED <<stage, calls, contested>>

\* Somebody decides, once.
Decide(a, answer) ==
  /\ verdict[a] = "PENDING"
  /\ stage[asker[a]] = "WAITING_FOR_APPROVAL"
  /\ verdict' = [verdict EXCEPT ![a] = answer]
  /\ UNCHANGED <<stage, asker, calls, contested>>

\* The decision moves the run on.
Cancel(a) ==
  /\ verdict[a] = "REJECTED" /\ Settled(asker[a])
  /\ Move(asker[a], "WAITING_FOR_APPROVAL", "CANCELLED")

Resume(a) ==
  /\ verdict[a] = "APPROVED" /\ Settled(asker[a])
  /\ Move(asker[a], "WAITING_FOR_APPROVAL", "RUNNING")

Unspent(a) == \A t \in Threads : calls[a][t] = 0

Execute(a, t) ==
  /\ verdict[a] = "APPROVED"
  /\ stage[asker[a]] = "RUNNING"
  /\ Unspent(a)
  /\ calls' = [calls EXCEPT ![a][t] = 1]
  /\ UNCHANGED <<stage, verdict, asker, contested>>

-----------------------------------------------------------------------------
(* Contested runs. *)

\* Requests come to overlap.
Overlap(R) ==
  /\ contested' = contested \cup R
  /\ UNCHANGED <<stage, verdict, asker, calls>>

\* Each request moves the run where its own course leads.
Overwrite(r, s) ==
  /\ r \in contested
  /\ stage[r] # "ABSENT" /\ Move(r, stage[r], s)

\* A decision is asked for beside another, ...
AskBeside(a, r) ==
  /\ r \in contested
  /\ verdict[a] = "ABSENT"
  /\ verdict' = [verdict EXCEPT ![a] = "PENDING"]
  /\ asker' = [asker EXCEPT ![a] = r]
  /\ UNCHANGED <<stage, calls, contested>>

\* ... or taken again, but never opened again, ...
DecideAgain(a, answer) ==
  /\ verdict[a] # "ABSENT" /\ asker[a] \in contested
  /\ verdict' = [verdict EXCEPT ![a] = answer]
  /\ UNCHANGED <<stage, asker, calls, contested>>

\* ... and each request that took it calls the tool, once.
ExecuteBeside(a, t) ==
  /\ verdict[a] \in {"APPROVED", "REJECTED"} /\ asker[a] \in contested
  /\ calls[a][t] = 0
  /\ calls' = [calls EXCEPT ![a][t] = 1]
  /\ UNCHANGED <<stage, verdict, asker, contested>>

Contested ==
  \/ \E R \in SUBSET Runs : Overlap(R)
  \/ \E r \in Runs : \/ \E s \in {"RUNNING", "WAITING_FOR_APPROVAL", "COMPLETED",
                                  "FAILED", "CANCELLED"} : Overwrite(r, s)
                     \/ \E a \in Approvals : AskBeside(a, r)
  \/ \E a \in Approvals : DecideAgain(a, "APPROVED") \/ DecideAgain(a, "REJECTED")
  \/ \E a \in Approvals, t \in Threads : ExecuteBeside(a, t)

Next ==
  \/ \E r \in Runs : Start(r) \/ End(r) \/ Wait(r)
  \/ \E a \in Approvals, r \in Runs : Ask(a, r)
  \/ \E a \in Approvals : Decide(a, "APPROVED") \/ Decide(a, "REJECTED")
  \/ \E a \in Approvals : Cancel(a) \/ Resume(a)
  \/ \E a \in Approvals, t \in Threads : Execute(a, t)
  \/ Contested

Spec == Init /\ [][Next]_vars
=============================================================================

--------------------------- MODULE PricingOutcomes ---------------------------
(***************************************************************************)
(* What happened to a night after its price was changed: the row of        *)
(* pricing_action_outcomes, and the passes of PricingOutcomeReconciler     *)
(* that compare it with the reservations of the provider. A pass may be a  *)
(* scheduled job or started by hand, so two may overlap, each with the row *)
(* as it read it and the page it fetched.                                  *)
(*                                                                         *)
(* Days are numbers. The cadence (daily, weekly after the stay) is         *)
(* abstracted to whether the interval since the last look has elapsed,     *)
(* and the counter of passes to whether it has reached its minimum.        *)
(***************************************************************************)
EXTENDS Naturals, FiniteSets

CONSTANTS
  Reservations,       \* reservations of the listing
  Passes,             \* passes of the reconciler that may overlap
  CheckIn, CheckOut,  \* per reservation; the check-out is exclusive
  Night,              \* the stay date of the action
  SettleDays,         \* FINALIZATION_DAYS_AFTER_CHECKOUT
  MinPasses,          \* FINALIZATION_MIN_PASSES
  StablePasses,       \* FINALIZATION_STABLE_PASSES
  LastDay,            \* bound: the last day that is told from later ones
  MaxCrashes,         \* bound: passes killed half-way
  None

ASSUME OutcomeAssumption ==
  /\ IsFiniteSet(Reservations) /\ None \notin Reservations \cup {"booked", "cancelled"}
  /\ CheckIn \in [Reservations -> Nat] /\ CheckOut \in [Reservations -> Nat]
  /\ {Night, MinPasses, LastDay, MaxCrashes} \subseteq Nat
  /\ {SettleDays, StablePasses} \subseteq Nat \ {0}

VARIABLES
  today,
  reserved,  \* provider: ABSENT, booked or cancelled, per reservation
  bookedAt,  \* booked_date, as a position in the order of all bookings
  executed,  \* executed_at in that order, or None while there is no row
  row,       \* the outcome row
  due,       \* the polling interval has elapsed since last_reconciled_at
  pc, moment, seen, page,  \* a pass: step, its `now`, first_* as read, answer
  agreed,    \* history: passes in a row that wrote the current status
  crashes

rowVars  == <<executed, row, due, agreed>>
passVars == <<pc, moment, seen, page>>
provider == <<reserved, bookedAt>>
vars     == <<today, provider, rowVars, passVars, crashes>>

BookingStatus == {"booked", "cancelled", "none"}

Steps == {"idle", "fetch", "first", "current", "look", "finalize"}

\* first: the reservation of the first_* columns; status: current_booking_status,
\* null until a pass has read the provider; lost: cancelled_after_booking.
Row == [first     : Reservations \cup {None},
        status    : BookingStatus \cup {None},
        lost      : BOOLEAN,
        passes    : 0 .. MinPasses,
        finalized : BOOLEAN]

Booked(page_) == {r \in Reservations : page_[r] = "booked"}

Init ==
  /\ today = 0
  /\ reserved = [r \in Reservations |-> "ABSENT"]
  /\ bookedAt = [r \in Reservations |-> 0]
  /\ executed = None
  /\ row = [first |-> None, status |-> None, lost |-> FALSE, passes |-> 0,
            finalized |-> FALSE]
  /\ due = TRUE
  /\ pc = [p \in Passes |-> "idle"]
  /\ moment = [p \in Passes |-> 0]
  /\ seen = [p \in Passes |-> None]
  /\ page = [p \in Passes |-> [r \in Reservations |-> "ABSENT"]]
  /\ agreed = 0
  /\ crashes = 0

-----------------------------------------------------------------------------
(* The provider and the calendar.                                           *)

Day ==
  /\ today < LastDay
  /\ today' = today + 1
  /\ UNCHANGED <<provider, rowVars, passVars, crashes>>

\* A day, or after the stay a week, since the last look.
Elapse ==
  /\ ~due
  /\ due' = TRUE
  /\ UNCHANGED <<today, provider, executed, row, agreed, passVars, crashes>>

\* occupied_nights, covers: check_in <= d < check_out.
Covers(r) == CheckIn[r] <= Night /\ Night < CheckOut[r]

Overlap(r, s) == CheckIn[r] < CheckOut[s] /\ CheckIn[s] < CheckOut[r]

\* A guest books nights that are free and not over.
Book(r) ==
  /\ reserved[r] = "ABSENT"
  /\ today <= CheckIn[r]
  /\ \A s \in Booked(reserved) : ~Overlap(r, s)
  /\ reserved' = [reserved EXCEPT ![r] = "booked"]
  /\ bookedAt' = [bookedAt EXCEPT ![r] =
                    Cardinality({s \in Reservations : reserved[s] # "ABSENT"}) + 1]
  /\ UNCHANGED <<today, rowVars, passVars, crashes>>

Unbook(r) ==
  /\ reserved[r] = "booked"
  /\ reserved' = [reserved EXCEPT ![r] = "cancelled"]
  /\ UNCHANGED <<today, bookedAt, rowVars, passVars, crashes>>

\* _record_outcome, record_execution: a price was changed on an upcoming night.
RecordExecution ==
  /\ executed = None
  /\ today <= Night
  /\ executed' = Cardinality({s \in Reservations : reserved[s] # "ABSENT"})
  /\ UNCHANGED <<today, provider, row, due, agreed, passVars, crashes>>

-----------------------------------------------------------------------------
(* A pass over the row.                                                     *)

Goto(p, step) == pc' = [pc EXCEPT ![p] = step]

\* A pass keeps what it will still use.
Forget(p) ==
  /\ moment' = [moment EXCEPT ![p] = 0]
  /\ seen' = [seen EXCEPT ![p] = None]
  /\ page' = [page EXCEPT ![p] = [r \in Reservations |-> "ABSENT"]]

Finish(p) == Goto(p, "idle") /\ Forget(p)

\* run_once: open_outcomes, and _due; the row is read here and kept.
StartPass(p) ==
  /\ pc[p] = "idle"
  /\ executed # None
  /\ ~row.finalized
  /\ due
  /\ Goto(p, "fetch")
  /\ moment' = [moment EXCEPT ![p] = today]
  /\ seen' = [seen EXCEPT ![p] = row.first]
  /\ UNCHANGED <<today, provider, rowVars, page, crashes>>

\* One request for the reservations around the night.
Fetch(p) ==
  /\ pc[p] = "fetch"
  /\ page' = [page EXCEPT ![p] = reserved]
  /\ Goto(p, "first")
  /\ UNCHANGED <<today, provider, rowVars, moment, seen, crashes>>

\* PriceLabsUnavailable: the row stays exactly as it was.
FetchFails(p) ==
  /\ pc[p] = "fetch"
  /\ Finish(p)
  /\ UNCHANGED <<today, provider, rowVars, crashes>>

\* Mutant: a night sold before the action counts as its outcome.
QualifiesAnyDate(p, r) == r \in Booked(page[p]) /\ Covers(r)

Qualifies(p, r) == r \in Booked(page[p]) /\ bookedAt[r] > executed /\ Covers(r)

Qualifying(p) == {r \in Reservations : Qualifies(p, r)}

Earliest(S) == CHOOSE r \in S : \A s \in S : bookedAt[r] <= bookedAt[s]

\* Mutant: the conditional UPDATE without its WHERE clause.
FrozenNever(first, r) == r

\* note_first_booking: WHERE first_booked_at IS NULL.
Frozen(first, r) == IF first = None THEN r ELSE first

\* Mutant: the first booking is noted by the transaction after.
NoteFirstLate(p) ==
  /\ pc[p] = "first"
  /\ row' = IF Qualifying(p) # {} /\ seen[p] = None /\ row.status # None
              THEN [row EXCEPT !.first = Frozen(@, Earliest(Qualifying(p)))]
              ELSE row
  /\ Goto(p, "current")
  /\ UNCHANGED <<today, provider, executed, due, agreed, moment, seen, page, crashes>>

NoteFirst(p) ==
  /\ pc[p] = "first"
  /\ row' = IF Qualifying(p) # {} /\ seen[p] = None
              THEN [row EXCEPT !.first = Frozen(@, Earliest(Qualifying(p)))]
              ELSE row
  /\ Goto(p, "current")
  /\ UNCHANGED <<today, provider, executed, due, agreed, moment, seen, page, crashes>>

\* Mutant: the row is looked at again before a cancellation is concluded.
KnownFirstReread(p) == row.first

\* The first booking this pass knows of is the one it read at its start.
KnownFirst(p) == seen[p]

\* What the page says of the night now.
Observed(p) ==
  IF Qualifying(p) # {} THEN "booked"
  ELSE IF KnownFirst(p) # None THEN "cancelled" ELSE "none"

\* Mutant: a pass that found nothing is not counted.
CountedNever(n) == n

\* reconcile_pass_count, as far as its minimum.
Counted(n) == IF n < MinPasses THEN n + 1 ELSE n

\* set_current: both updates in one session.
SetCurrent(p) ==
  /\ pc[p] = "current"
  /\ row' = [row EXCEPT !.status = Observed(p),
                        !.lost   = @ \/ Observed(p) = "cancelled",
                        !.passes = Counted(@)]
  /\ agreed' = IF row.status = Observed(p)
                 THEN IF agreed < StablePasses THEN agreed + 1 ELSE agreed
                 ELSE 1
  /\ due' = FALSE
  /\ Goto(p, "look")
  /\ seen' = [seen EXCEPT ![p] = None]
  /\ UNCHANGED <<today, provider, executed, moment, page, crashes>>

\* Mutant: only the stay date is waited for.
AnchorIsNight(p) == {Night}

\* What the settling is counted from: the check-outs of whatever covers the night,
\* booked or cancelled, of which the last decides, or else the night itself.
Anchors(p) ==
  LET covering == {r \in Reservations : page[p][r] # "ABSENT" /\ Covers(r)}
  IN  IF covering = {} THEN {Night} ELSE {CheckOut[r] : r \in covering}

PassedEnough(n) == n >= MinPasses

Finalizable(p) ==
  PassedEnough(row.passes) /\ \A day \in Anchors(p) : moment[p] >= day + SettleDays

\* The row is read again for _finalizable.
Look(p) ==
  /\ pc[p] = "look"
  /\ Goto(p, IF Finalizable(p) THEN "finalize" ELSE "idle")
  /\ Forget(p)
  /\ UNCHANGED <<today, provider, rowVars, crashes>>

Finalize(p) ==
  /\ pc[p] = "finalize"
  /\ row' = [row EXCEPT !.finalized = TRUE]
  /\ Finish(p)
  /\ UNCHANGED <<today, provider, executed, due, agreed, crashes>>

\* The process of a pass is killed.
Crash(p) ==
  /\ pc[p] # "idle"
  /\ crashes < MaxCrashes
  /\ crashes' = crashes + 1
  /\ Finish(p)
  /\ UNCHANGED <<today, provider, rowVars>>

-----------------------------------------------------------------------------
PassStep(p) ==
  Fetch(p) \/ FetchFails(p) \/ NoteFirst(p) \/ SetCurrent(p) \/ Look(p) \/ Finalize(p)

Next ==
  \/ Day \/ Elapse \/ RecordExecution
  \/ \E r \in Reservations : Book(r) \/ Unbook(r)
  \/ \E p \in Passes : StartPass(p) \/ PassStep(p) \/ Crash(p)

Spec == Init /\ [][Next]_vars

\* Days pass, the job is started when the row is due, a pass that runs goes on,
\* and the provider answers if it is asked again and again.
Fairness ==
  /\ WF_vars(Day) /\ WF_vars(Elapse)
  /\ WF_vars(\E p \in Passes : StartPass(p))
  /\ \A p \in Passes : WF_vars(PassStep(p))
  /\ SF_vars(\E p \in Passes : Fetch(p))

FairSpec == Spec /\ Fairness

-----------------------------------------------------------------------------
TypeOK ==
  /\ today \in 0 .. LastDay
  /\ reserved \in [Reservations -> {"ABSENT", "booked", "cancelled"}]
  /\ bookedAt \in [Reservations -> 0 .. Cardinality(Reservations)]
  /\ executed \in (0 .. Cardinality(Reservations)) \cup {None}
  /\ row \in Row
  /\ due \in BOOLEAN
  /\ pc \in [Passes -> Steps]
  /\ moment \in [Passes -> 0 .. LastDay]
  /\ seen \in [Passes -> Reservations \cup {None}]
  /\ page \in [Passes -> [Reservations -> {"ABSENT", "booked", "cancelled"}]]
  /\ agreed \in 0 .. StablePasses
  /\ crashes \in 0 .. MaxCrashes

\* "First-booking evidence is immutable": whatever a later or an overlapping
\* pass saw, the first observed booking is never written over.
FirstIsFrozen == [][row.first # None => row'.first = row.first]_vars

\* A night that was already sold when its price was changed is no outcome of
\* the change, and neither is a stay that does not include the night.
FirstIsAfterTheAction ==
  row.first # None => /\ Covers(row.first)
                      /\ bookedAt[row.first] > executed

\* What is true now never runs ahead of the evidence: a row says booked or
\* cancelled only when the booking it speaks of is on record, although the
\* two are written by separate transactions and a pass may die in between.
CurrentHasEvidence ==
  row.status \in {"booked", "cancelled"} => row.first # None

\* A cancellation is never inferred from an old page: when the row says that
\* the first booking was lost, that reservation is cancelled at the provider.
LossIsReal == row.lost => reserved[row.first] = "cancelled"

\* Polling never stops before the stay it found has ended and settled.
FinalIsSettled ==
  row.finalized /\ row.first # None
    => /\ row.passes = MinPasses
       /\ today >= CheckOut[row.first] + SettleDays

\* Every executed action is settled in the end: outages, killed passes and
\* cancellations delay it only.
EventuallyFinal == executed # None ~> row.finalized

\* FINALIZATION_STABLE_PASSES: "a row still changing is never finalized merely
\* because a clock ran out."
FinalIsStable == row.finalized => agreed >= StablePasses
=============================================================================

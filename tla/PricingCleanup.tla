--------------------------- MODULE PricingCleanup ---------------------------
(***************************************************************************)
(* The life of a temporary price override: the tool that writes it         *)
(* (apply_pricing_action), the row that makes its removal owed             *)
(* (PricingCleanupStore), the passes that remove it (PricingCleanupRunner, *)
(* driven at the same time by the hourly job and by the operator route),   *)
(* the operator who closes what automation gave up on, and PriceLabs,      *)
(* which any person may edit meanwhile and whose answers may be lost.      *)
(*                                                                         *)
(* Each database transaction and each provider request is one step.        *)
(* Clock values are abstracted to the two comparisons the queries make:    *)
(* arrived[r] is cleanup_at <= now, lapsed[r] is lease_until <= now.       *)
(* uuid4 is any token that nobody holds.                                   *)
(***************************************************************************)
EXTENDS Naturals, FiniteSets

CONSTANTS
  Records,      \* cleanup rows; a row's marker is the row's own id
  Workers,      \* processes that run cleanup passes
  Operators,    \* people using the manual-resolution route
  Dates,        \* nights of one listing
  Prices,
  Tokens,       \* claim tokens
  Stamps,       \* values of created_at that PriceLabs reports
  NoToken,      \* claim_token IS NULL
  NoStamp,      \* created_at missing
  NoMarker,     \* a reason that carries no AgentGuard marker
  NoOverride,   \* the date has no override
  StayDate,     \* Records -> Dates
  NewPrice,     \* Records -> Prices, the price each record writes
  MaxEdits,     \* bound: what people and expiry do to the overrides
  MaxCrashes    \* bound: processes that die in the middle of their work

Override == [marker  : Records \cup {NoMarker},
             price   : Prices,
             created : Stamps \cup {NoStamp},
             touched : BOOLEAN]           \* updated_at # created_at

ASSUME ConstantsAssumption ==
  /\ Records # {}
  /\ NoToken \notin Tokens
  /\ NoStamp \notin Stamps
  /\ NoMarker \notin Records
  /\ NoOverride \notin Override
  /\ StayDate \in [Records -> Dates]
  /\ NewPrice \in [Records -> Prices]
  /\ MaxEdits \in Nat
  /\ MaxCrashes \in Nat

CleanupState == {"PENDING_WRITE", "ACTIVE", "CLAIMED", "DELETE_STARTED",
                 "CLEANED_UP", "VANISHED", "NEEDS_REVIEW",
                 "UNKNOWN_CLEANUP_STATE", "MANUALLY_RESOLVED"}

TerminalStates == {"CLEANED_UP", "VANISHED", "NEEDS_REVIEW",
                   "UNKNOWN_CLEANUP_STATE", "MANUALLY_RESOLVED"}

ManuallyResolvableStates == {"NEEDS_REVIEW", "UNKNOWN_CLEANUP_STATE"}

\* What open_records lists.
OpenStates == {"PENDING_WRITE", "ACTIVE", "CLAIMED", "DELETE_STARTED",
               "NEEDS_REVIEW", "UNKNOWN_CLEANUP_STATE"}

\* WriteOutcome: what the confirming re-read of a change establishes.
Outcomes == {"CONFIRMED_APPLIED", "CONFIRMED_FAILED", "UNKNOWN_WRITE_STATE"}

VARIABLES
  \* the table pricing_cleanups, by column; "ABSENT" before record_intent
  state, token, lapsed, arrived, created, reasonSent,
  \* PriceLabs: the override of each date, and the requests that timed out
  \* here and may still take effect there
  override, late,
  \* one call of apply_pricing_action per record
  apc, aack, aresult,
  \* one cleanup pass per worker: the loop of run_once it is in, the rows
  \* that loop has left (with their tokens as read), the row at hand
  pc, loop, queue, rec, mine, ack, verdict, deleted,
  \* manual-resolution requests
  opc, orec, oprev,
  \* history: DELETEs sent for each record, audit events
  deletes, audit,
  \* how much of the bounds is used
  edits, crashes

rowVars    == <<state, token, lapsed, arrived, created, reasonSent>>
labsVars   == <<override, late>>
applyVars  == <<apc, aack, aresult>>
passVars   == <<pc, loop, queue, rec, mine, ack, verdict, deleted>>
manualVars == <<opc, orec, oprev>>
ghostVars  == <<deletes, audit>>
boundVars  == <<edits, crashes>>
vars == <<rowVars, labsVars, applyVars, passVars, manualVars, ghostVars,
          boundVars>>

Requests == {"POST", "DELETE"} \X Records

WriteResult == [outcome : Outcomes, intact : BOOLEAN,
                created : Stamps \cup {NoStamp}, touched : BOOLEAN]

NoResult == [outcome |-> "UNKNOWN_WRITE_STATE", intact |-> FALSE,
             created |-> NoStamp, touched |-> FALSE]

AuditEvents ==
  [event   : {"PRICING_CLEANUP", "PRICING_CLEANUP_STALE_OWNER",
              "PRICING_CLEANUP_MANUALLY_RESOLVED"},
   rec     : Records,
   state   : CleanupState \cup {"ABSENT"},
   deleted : BOOLEAN]

SomeRecord == CHOOSE r \in Records : TRUE

Init ==
  /\ state = [r \in Records |-> "ABSENT"]
  /\ token = [r \in Records |-> NoToken]
  /\ lapsed = [r \in Records |-> FALSE]
  /\ arrived = [r \in Records |-> FALSE]
  /\ created = [r \in Records |-> NoStamp]
  /\ reasonSent = [r \in Records |-> FALSE]
  /\ override = [d \in Dates |-> NoOverride]
  /\ late = {}
  /\ apc = [r \in Records |-> "start"]
  /\ aack = [r \in Records |-> FALSE]
  /\ aresult = [r \in Records |-> NoResult]
  /\ pc = [w \in Workers |-> "idle"]
  /\ loop = [w \in Workers |-> "expired"]
  /\ queue = [w \in Workers |-> {}]
  /\ rec = [w \in Workers |-> SomeRecord]
  /\ mine = [w \in Workers |-> NoToken]
  /\ ack = [w \in Workers |-> FALSE]
  /\ verdict = [w \in Workers |-> "NEEDS_REVIEW"]
  /\ deleted = [w \in Workers |-> FALSE]
  /\ opc = [o \in Operators |-> "idle"]
  /\ orec = [o \in Operators |-> SomeRecord]
  /\ oprev = [o \in Operators |-> "ABSENT"]
  /\ deletes = [r \in Records |-> 0]
  /\ audit = {}
  /\ edits = 0
  /\ crashes = 0

-----------------------------------------------------------------------------
(* PriceLabs, as the write client uses it. *)

\* A created_at no override has and no row remembers.
FreshStamp(s) ==
  /\ \A d \in Dates : override[d] # NoOverride => override[d].created # s
  /\ \A r \in Records : created[r] # s /\ aresult[r].created # s

\* The overrides a POST of record r may leave on its date: the provider may
\* alter the reason it stores and may omit created_at. A POST to a date that
\* has an override changes it in place; whether that moves updated_at was
\* never observed.
Stored(r) ==
  LET d == StayDate[r]
      stamps == IF override[d] = NoOverride
                  THEN {s \in Stamps : FreshStamp(s)} \cup {NoStamp}
                  ELSE {override[d].created}
  IN  {o \in Override :
         /\ o.marker \in {r, NoMarker}
         /\ o.price = NewPrice[r]
         /\ o.created \in stamps
         /\ override[d] = NoOverride => ~o.touched}

\* The provider carries out a POST for r.
Posted(r) ==
  \E o \in Stored(r) : override' = [override EXCEPT ![StayDate[r]] = o]

\* The provider carries out a DELETE for r's date, whatever is there now.
Removed(r) == override' = [override EXCEPT ![StayDate[r]] = NoOverride]

\* A request that timed out here takes effect at the provider.
LatePost(r) ==
  /\ <<"POST", r>> \in late
  /\ late' = late \ {<<"POST", r>>}
  /\ Posted(r)
  /\ UNCHANGED <<rowVars, applyVars, passVars, manualVars, ghostVars, boundVars>>

LateDelete(r) ==
  /\ <<"DELETE", r>> \in late
  /\ late' = late \ {<<"DELETE", r>>}
  /\ Removed(r)
  /\ UNCHANGED <<rowVars, applyVars, passVars, manualVars, ghostVars, boundVars>>

\* A person pins a date that has no override.
PersonPins(d) ==
  /\ edits < MaxEdits
  /\ override[d] = NoOverride
  /\ \E p \in Prices, s \in Stamps :
       /\ FreshStamp(s)
       /\ override' = [override EXCEPT ![d] =
            [marker |-> NoMarker, price |-> p, created |-> s, touched |-> FALSE]]
  /\ edits' = edits + 1
  /\ UNCHANGED <<rowVars, late, applyVars, passVars, manualVars, ghostVars, crashes>>

\* A person edits an override in place (keeping its reason or not), or
\* removes it and enters it again with the reason copied over.
PersonEdits(d) ==
  /\ edits < MaxEdits
  /\ override[d] # NoOverride
  /\ \E o \in Override :
       /\ o.marker \in {override[d].marker, NoMarker}
       /\ \/ o.created = override[d].created
          \/ o.created \in Stamps /\ FreshStamp(o.created) /\ ~o.touched
       /\ override' = [override EXCEPT ![d] = o]
  /\ edits' = edits + 1
  /\ UNCHANGED <<rowVars, late, applyVars, passVars, manualVars, ghostVars, crashes>>

\* The override goes away by itself (lead_time_expiry, a booking), by a
\* person's hand, or by an approved REMOVE_PIN.
PinRemoved(d) ==
  /\ edits < MaxEdits
  /\ override[d] # NoOverride
  /\ override' = [override EXCEPT ![d] = NoOverride]
  /\ edits' = edits + 1
  /\ UNCHANGED <<rowVars, late, applyVars, passVars, manualVars, ghostVars, crashes>>

-----------------------------------------------------------------------------
(* The clock. *)

\* cleanup_at of a row arrives.
Arrive(r) ==
  /\ state[r] # "ABSENT"
  /\ ~arrived[r]
  /\ arrived' = [arrived EXCEPT ![r] = TRUE]
  /\ UNCHANGED <<state, token, lapsed, created, reasonSent, labsVars, applyVars,
                 passVars, manualVars, ghostVars, boundVars>>

\* CLAIM_LEASE_SECONDS pass under a claim. lease_until is set while token is.
Lapse(r) ==
  /\ token[r] # NoToken
  /\ ~lapsed[r]
  /\ lapsed' = [lapsed EXCEPT ![r] = TRUE]
  /\ UNCHANGED <<state, token, arrived, created, reasonSent, labsVars, applyVars,
                 passVars, manualVars, ghostVars, boundVars>>

-----------------------------------------------------------------------------
(* apply_pricing_action for a price (SET, RAISE, LOWER): the call that      *)
(* creates record r.                                                        *)

\* Bands, action, switches, session, provider read, staleness, fingerprint,
\* price and store: any of the checks refuses and nothing has happened.
ApplyRefused(r) ==
  /\ apc[r] = "start"
  /\ apc' = [apc EXCEPT ![r] = "ended"]
  /\ UNCHANGED <<rowVars, labsVars, aack, aresult, passVars, manualVars,
                 ghostVars, boundVars>>

RecordIntent(r) ==
  /\ apc[r] = "start"
  /\ apc' = [apc EXCEPT ![r] = "reason"]
  /\ state' = [state EXCEPT ![r] = "PENDING_WRITE"]
  /\ UNCHANGED <<token, lapsed, arrived, created, reasonSent, labsVars, aack,
                 aresult, passVars, manualVars, ghostVars, boundVars>>

RecordReasonSent(r) ==
  /\ apc[r] = "reason"
  /\ apc' = [apc EXCEPT ![r] = "guard"]
  /\ reasonSent' = [reasonSent EXCEPT
                      ![r] = @ \/ state[r] = "PENDING_WRITE"]
  /\ UNCHANGED <<state, token, lapsed, arrived, created, labsVars, aack, aresult,
                 passVars, manualVars, ghostVars, boundVars>>

\* set_override stops before its POST: _guard finds a switch off, or the
\* reading of the override before the change is not answered. Both
\* exceptions end the call and leave the row as it is.
SetOverrideStops(r) ==
  /\ apc[r] = "guard"
  /\ apc' = [apc EXCEPT ![r] = "ended"]
  /\ UNCHANGED <<rowVars, labsVars, aack, aresult, passVars, manualVars,
                 ghostVars, boundVars>>

\* _send("POST"): carried out; refused with 4xx; never answered, and then it
\* is lost, or still on its way.
Post(r) ==
  /\ apc[r] = "guard"
  /\ apc' = [apc EXCEPT ![r] = "verify"]
  /\ \/ /\ Posted(r)
        /\ aack' = [aack EXCEPT ![r] = TRUE]
        /\ UNCHANGED late
     \/ /\ aack' = [aack EXCEPT ![r] = FALSE]
        /\ UNCHANGED labsVars
     \/ /\ aack' = [aack EXCEPT ![r] = TRUE]
        /\ UNCHANGED labsVars
     \/ /\ aack' = [aack EXCEPT ![r] = TRUE]
        /\ late' = late \cup {<<"POST", r>>}
        /\ UNCHANGED override
  /\ UNCHANGED <<rowVars, aresult, passVars, manualVars, ghostVars, boundVars>>

\* _verify: the outcome when the change did not show in the re-read.
NotConfirmed(acknowledged) ==
  IF acknowledged THEN "UNKNOWN_WRITE_STATE" ELSE "CONFIRMED_FAILED"

\* _verify(expect_present=True); the stored reason can only equal the reason
\* sent when it carries r's marker.
VerifySet(r) ==
  LET after == override[StayDate[r]] IN
  IF after # NoOverride /\ after.price = NewPrice[r]
    THEN {result \in WriteResult :
            /\ result.outcome = "CONFIRMED_APPLIED"
            /\ result.intact => after.marker = r
            /\ result.created = after.created
            /\ result.touched = after.touched}
    ELSE {result \in WriteResult :
            /\ result.outcome = NotConfirmed(aack[r])
            /\ ~result.intact
            /\ result.created = NoStamp
            /\ ~result.touched}

VerifyWrite(r) ==
  /\ apc[r] = "verify"
  /\ apc' = [apc EXCEPT ![r] = "confirm"]
  /\ \E result \in VerifySet(r) \cup {NoResult} :  \* NoResult: read failed
       aresult' = [aresult EXCEPT ![r] = result]
  /\ UNCHANGED <<rowVars, labsVars, aack, passVars, manualVars, ghostVars,
                 boundVars>>

\* Mutant: what could not be confirmed is taken as never written.
UnconfirmedVanished(result) ==
  IF result.outcome = "CONFIRMED_APPLIED" /\ result.intact THEN "ACTIVE" ELSE "VANISHED"

\* _confirm and mark_active: the state the row is settled to.
ConfirmedState(result) ==
  CASE result.outcome = "UNKNOWN_WRITE_STATE" -> "NEEDS_REVIEW"
    [] result.outcome = "CONFIRMED_FAILED" -> "VANISHED"
    [] OTHER -> IF result.intact /\ result.created # NoStamp /\ ~result.touched
                  THEN "ACTIVE"
                  ELSE "NEEDS_REVIEW"

\* The locals of the call end with it.
ApplyForgets(r) ==
  /\ aack' = [aack EXCEPT ![r] = FALSE]
  /\ aresult' = [aresult EXCEPT ![r] = NoResult]

\* Writes by primary key, with no condition on the row's state.
Confirm(r) ==
  LET settled == ConfirmedState(aresult[r]) IN
  /\ apc[r] = "confirm"
  /\ apc' = [apc EXCEPT ![r] = "ended"]
  /\ state' = [state EXCEPT ![r] = settled]
  /\ created' = [created EXCEPT
                   ![r] = IF settled = "ACTIVE" THEN aresult[r].created ELSE @]
  /\ IF settled = "ACTIVE"
       THEN UNCHANGED <<token, lapsed>>
       ELSE /\ token' = [token EXCEPT ![r] = NoToken]
            /\ lapsed' = [lapsed EXCEPT ![r] = FALSE]
  /\ ApplyForgets(r)
  /\ UNCHANGED <<arrived, reasonSent, labsVars, passVars, manualVars, ghostVars,
                 boundVars>>

\* The process dies during the call.
ApplyCrash(r) ==
  /\ crashes < MaxCrashes
  /\ apc[r] \notin {"start", "ended", "crashed"}
  /\ apc' = [apc EXCEPT ![r] = "crashed"]
  /\ crashes' = crashes + 1
  /\ ApplyForgets(r)
  /\ UNCHANGED <<rowVars, labsVars, passVars, manualVars, ghostVars, edits>>

-----------------------------------------------------------------------------
(* One pass: PricingCleanupRunner.run_once in worker w.                     *)

\* Mutant: the comparison with lease_until is turned round.
UnexpiredClaims == {r \in Records : state[r] = "CLAIMED" /\ ~lapsed[r]}

\* expired_claims()
ExpiredClaims == {r \in Records : state[r] = "CLAIMED" /\ lapsed[r]}

\* due()
DueRows == {r \in Records : state[r] = "ACTIVE" /\ arrived[r]}

\* The pass reads expired_claims once: a snapshot of rows and tokens, used
\* after it may be stale.
StartPass(w) ==
  /\ pc[w] = "idle"
  /\ pc' = [pc EXCEPT ![w] = "loop"]
  /\ queue' = [queue EXCEPT ![w] =
       {<<r, token[r]>> : r \in ExpiredClaims}]
  /\ UNCHANGED <<rowVars, labsVars, applyVars, loop, rec, mine, ack, verdict,
                 deleted, manualVars, ghostVars, boundVars>>

\* _reconcile: the provider is read for the wording only; the verdict is
\* always NEEDS_REVIEW and is written under the token of the snapshot.
Reconcile(w) ==
  /\ pc[w] = "loop" /\ loop[w] = "expired"
  /\ \E e \in queue[w] :
       /\ queue' = [queue EXCEPT ![w] = @ \ {e}]
       /\ rec' = [rec EXCEPT ![w] = e[1]]
       /\ mine' = [mine EXCEPT ![w] = e[2]]
  /\ verdict' = [verdict EXCEPT ![w] = "NEEDS_REVIEW"]
  /\ deleted' = [deleted EXCEPT ![w] = FALSE]
  /\ pc' = [pc EXCEPT ![w] = "resolve"]
  /\ UNCHANGED <<rowVars, labsVars, applyVars, loop, ack, manualVars, ghostVars,
                 boundVars>>

\* The candidates of due(), read once for the whole second loop.
SelectDue(w) ==
  /\ pc[w] = "loop" /\ loop[w] = "expired" /\ queue[w] = {}
  /\ loop' = [loop EXCEPT ![w] = "due"]
  /\ queue' = [queue EXCEPT ![w] =
       {<<r, NoToken>> : r \in DueRows}]
  /\ UNCHANGED <<rowVars, labsVars, applyVars, pc, rec, mine, ack, verdict,
                 deleted, manualVars, ghostVars, boundVars>>

EndPass(w) ==
  /\ pc[w] = "loop" /\ loop[w] = "due" /\ queue[w] = {}
  /\ pc' = [pc EXCEPT ![w] = "idle"]
  /\ loop' = [loop EXCEPT ![w] = "expired"]
  /\ UNCHANGED <<rowVars, labsVars, applyVars, queue, rec, mine, ack,
                 verdict, deleted, manualVars, ghostVars, boundVars>>

\* A uuid4: no row, no worker and no snapshot holds it.
FreshToken(t) ==
  /\ \A r \in Records : token[r] # t
  /\ \A w \in Workers : mine[w] # t /\ \A e \in queue[w] : e[2] # t

\* Mutant: a claim whose lease lapsed may be taken over.
ClaimableByLease(r) == state[r] = "ACTIVE" \/ (state[r] = "CLAIMED" /\ lapsed[r])

\* The compare of claim's compare-and-swap.
Claimable(r) == state[r] = "ACTIVE"

\* claim(): the row is taken, or somebody else was faster and it is skipped.
Claim(w) ==
  /\ pc[w] = "loop" /\ loop[w] = "due"
  /\ \E e \in queue[w], t \in Tokens :
       LET r == e[1] IN
       /\ FreshToken(t)
       /\ queue' = [queue EXCEPT ![w] = @ \ {e}]
       /\ IF Claimable(r)
            THEN /\ state' = [state EXCEPT ![r] = "CLAIMED"]
                 /\ token' = [token EXCEPT ![r] = t]
                 /\ lapsed' = [lapsed EXCEPT ![r] = FALSE]
                 /\ rec' = [rec EXCEPT ![w] = r]
                 /\ mine' = [mine EXCEPT ![w] = t]
                 /\ pc' = [pc EXCEPT ![w] = "claimed"]
            ELSE UNCHANGED <<state, token, lapsed, rec, mine, pc>>
  /\ UNCHANGED <<arrived, created, reasonSent, labsVars, applyVars, loop, ack,
                 verdict, deleted, manualVars, ghostVars, boundVars>>

\* The pass has a verdict on its row and goes to write it.
Decide(w, v, d) ==
  /\ verdict' = [verdict EXCEPT ![w] = v]
  /\ deleted' = [deleted EXCEPT ![w] = d]
  /\ pc' = [pc EXCEPT ![w] = "resolve"]

\* check_ownership: marker, price, creation time, not modified since.
Owned(r, o) ==
  /\ o.marker = r
  /\ o.price = NewPrice[r]
  /\ created[r] # NoStamp
  /\ o.created = created[r]
  /\ ~o.touched

\* The listing has no bands: nothing is read.
ProcessNoBands(w) ==
  /\ pc[w] = "claimed"
  /\ Decide(w, "NEEDS_REVIEW", FALSE)
  /\ UNCHANGED <<rowVars, labsVars, applyVars, loop, queue, rec, mine, ack,
                 manualVars, ghostVars, boundVars>>

\* PriceLabs is not read (PriceLabsUnavailable): the row is put down.
ProcessUnread(w) ==
  /\ pc[w] = "claimed"
  /\ pc' = [pc EXCEPT ![w] = "release"]
  /\ UNCHANGED <<rowVars, labsVars, applyVars, loop, queue, rec, mine, ack,
                 verdict, deleted, manualVars, ghostVars, boundVars>>

\* PriceLabs is read: gone, not ours, or proved ours.
ProcessRead(w) ==
  LET r == rec[w]
      o == override[StayDate[r]] IN
  /\ pc[w] = "claimed"
  /\ \/ /\ o = NoOverride
        /\ Decide(w, "VANISHED", FALSE)
     \/ /\ o # NoOverride
        /\ ~Owned(r, o)
        /\ Decide(w, "NEEDS_REVIEW", FALSE)
     \/ /\ o # NoOverride
        /\ Owned(r, o)
        /\ pc' = [pc EXCEPT ![w] = "proved"]
        /\ UNCHANGED <<verdict, deleted>>
  /\ UNCHANGED <<rowVars, labsVars, applyVars, loop, queue, rec, mine, ack,
                 manualVars, ghostVars, boundVars>>

\* A kill switch is off: the row is put down before the boundary.
SwitchedOff(w) ==
  /\ pc[w] = "proved"
  /\ pc' = [pc EXCEPT ![w] = "release"]
  /\ UNCHANGED <<rowVars, labsVars, applyVars, loop, queue, rec, mine, ack,
                 verdict, deleted, manualVars, ghostVars, boundVars>>

\* The compare of begin_delete's compare-and-swap.
MayDelete(w) ==
  /\ state[rec[w]] = "CLAIMED"
  /\ token[rec[w]] = mine[w]

\* begin_delete(): the fence in front of the provider call.
BeginDelete(w) ==
  /\ pc[w] = "proved"
  /\ IF MayDelete(w)
       THEN /\ state' = [state EXCEPT ![rec[w]] = "DELETE_STARTED"]
            /\ pc' = [pc EXCEPT ![w] = "fenced"]
            /\ UNCHANGED <<verdict, deleted>>
       ELSE /\ verdict' = [verdict EXCEPT ![w] = "DELETE_STARTED"]
            /\ deleted' = [deleted EXCEPT ![w] = FALSE]
            /\ pc' = [pc EXCEPT ![w] = "stale"]
            /\ UNCHANGED state
  /\ UNCHANGED <<token, lapsed, arrived, created, reasonSent, labsVars, applyVars,
                 loop, queue, rec, mine, ack, manualVars, ghostVars, boundVars>>

\* remove_override: _guard raises, nothing was sent, the row is put down.
GuardRaises(w) ==
  /\ pc[w] = "fenced"
  /\ pc' = [pc EXCEPT ![w] = "release"]
  /\ UNCHANGED <<rowVars, labsVars, applyVars, loop, queue, rec, mine, ack,
                 verdict, deleted, manualVars, ghostVars, boundVars>>

\* remove_override: the reading before the DELETE is not answered. Nothing
\* was sent, and the runner reports the removal as attempted.
BeforeUnread(w) ==
  /\ pc[w] = "fenced"
  /\ Decide(w, "UNKNOWN_CLEANUP_STATE", TRUE)
  /\ UNCHANGED <<rowVars, labsVars, applyVars, loop, queue, rec, mine, ack,
                 manualVars, ghostVars, boundVars>>

BeforeRead(w) ==
  /\ pc[w] = "fenced"
  /\ pc' = [pc EXCEPT ![w] = "send"]
  /\ UNCHANGED <<rowVars, labsVars, applyVars, loop, queue, rec, mine, ack,
                 verdict, deleted, manualVars, ghostVars, boundVars>>

\* _send("DELETE"): carried out, refused, lost, or still on its way.
SendDelete(w) ==
  LET r == rec[w] IN
  /\ pc[w] = "send"
  /\ pc' = [pc EXCEPT ![w] = "verify"]
  /\ deletes' = [deletes EXCEPT ![r] = @ + 1]
  /\ \/ /\ Removed(r)
        /\ ack' = [ack EXCEPT ![w] = TRUE]
        /\ UNCHANGED late
     \/ /\ ack' = [ack EXCEPT ![w] = FALSE]
        /\ UNCHANGED labsVars
     \/ /\ ack' = [ack EXCEPT ![w] = TRUE]
        /\ UNCHANGED labsVars
     \/ /\ ack' = [ack EXCEPT ![w] = TRUE]
        /\ late' = late \cup {<<"DELETE", r>>}
        /\ UNCHANGED override
  /\ UNCHANGED <<rowVars, applyVars, loop, queue, rec, mine, verdict, deleted,
                 manualVars, audit, boundVars>>

\* Mutant: a removal nobody can vouch for goes back to the queue.
RemovalRetried(outcome) ==
  CASE outcome = "CONFIRMED_APPLIED" -> "CLEANED_UP"
    [] outcome = "UNKNOWN_WRITE_STATE" -> "ACTIVE"
    [] OTHER -> "NEEDS_REVIEW"

\* _verify(expect_present=False) and the branches of _process on its outcome.
RemovalState(outcome) ==
  CASE outcome = "CONFIRMED_APPLIED" -> "CLEANED_UP"
    [] outcome = "UNKNOWN_WRITE_STATE" -> "UNKNOWN_CLEANUP_STATE"
    [] OTHER -> "NEEDS_REVIEW"

\* Mutant: an unreadable answer is reported as if nothing had been sent.
VerifyDeleteUnreported(w) ==
  /\ pc[w] = "verify"
  /\ Decide(w, "UNKNOWN_CLEANUP_STATE", FALSE)
  /\ UNCHANGED <<rowVars, labsVars, applyVars, loop, queue, rec, mine, ack,
                 manualVars, ghostVars, boundVars>>

VerifyDelete(w) ==
  LET after == override[StayDate[rec[w]]]
      outcome == IF after = NoOverride THEN "CONFIRMED_APPLIED"
                                       ELSE NotConfirmed(ack[w]) IN
  /\ pc[w] = "verify"
  /\ \/ Decide(w, RemovalState(outcome), TRUE)
     \/ Decide(w, "UNKNOWN_CLEANUP_STATE", TRUE)   \* the re-read failed
  /\ UNCHANGED <<rowVars, labsVars, applyVars, loop, queue, rec, mine, ack,
                 manualVars, ghostVars, boundVars>>

\* Mutant: the verdict is written whoever holds the claim.
ResolveUnconditional(w) == TRUE

\* The compare of resolve (by token alone) and of resolve_unclaimed.
MayResolve(w) ==
  LET r == rec[w] IN
  IF mine[w] = NoToken
    THEN state[r] = "CLAIMED" /\ token[r] = NoToken
    ELSE token[r] = mine[w]

\* _resolve: the verdict is written, or the claim was lost and it is not.
Resolve(w) ==
  LET r == rec[w] IN
  /\ pc[w] = "resolve"
  /\ IF MayResolve(w)
       THEN /\ state' = [state EXCEPT ![r] = verdict[w]]
            /\ token' = [token EXCEPT ![r] = NoToken]
            /\ lapsed' = [lapsed EXCEPT ![r] = FALSE]
            /\ pc' = [pc EXCEPT ![w] = "committed"]
       ELSE /\ pc' = [pc EXCEPT ![w] = "stale"]
            /\ UNCHANGED <<state, token, lapsed>>
  /\ UNCHANGED <<arrived, created, reasonSent, labsVars, applyVars, loop, queue,
                 rec, mine, ack, verdict, deleted, manualVars, ghostVars, boundVars>>

\* The locals of one row's turn end with it.
PassForgets(w) ==
  /\ rec' = [rec EXCEPT ![w] = SomeRecord]
  /\ mine' = [mine EXCEPT ![w] = NoToken]
  /\ ack' = [ack EXCEPT ![w] = FALSE]
  /\ verdict' = [verdict EXCEPT ![w] = "NEEDS_REVIEW"]
  /\ deleted' = [deleted EXCEPT ![w] = FALSE]

\* _record_audit: what was committed, or what was attempted.
RecordAudit(w) ==
  /\ pc[w] \in {"committed", "stale"}
  /\ audit' = audit \cup
       {[event   |-> IF pc[w] = "committed" THEN "PRICING_CLEANUP"
                                            ELSE "PRICING_CLEANUP_STALE_OWNER",
         rec     |-> rec[w],
         state   |-> verdict[w],
         deleted |-> deleted[w]]}
  /\ pc' = [pc EXCEPT ![w] = "loop"]
  /\ PassForgets(w)
  /\ UNCHANGED <<rowVars, labsVars, applyVars, loop, queue, manualVars, deletes,
                 boundVars>>

\* release(): the live owner puts the row back, under its token.
Release(w) ==
  LET r == rec[w] IN
  /\ pc[w] = "release"
  /\ IF token[r] = mine[w]
       THEN /\ state' = [state EXCEPT ![r] = "ACTIVE"]
            /\ token' = [token EXCEPT ![r] = NoToken]
            /\ lapsed' = [lapsed EXCEPT ![r] = FALSE]
       ELSE UNCHANGED <<state, token, lapsed>>
  /\ pc' = [pc EXCEPT ![w] = "loop"]
  /\ PassForgets(w)
  /\ UNCHANGED <<arrived, created, reasonSent, labsVars, applyVars, loop, queue,
                 manualVars, ghostVars, boundVars>>

\* The process dies in the middle of a pass; what is durable stays.
PassCrash(w) ==
  /\ crashes < MaxCrashes
  /\ pc[w] # "idle"
  /\ pc' = [pc EXCEPT ![w] = "idle"]
  /\ queue' = [queue EXCEPT ![w] = {}]
  /\ loop' = [loop EXCEPT ![w] = "expired"]
  /\ PassForgets(w)
  /\ crashes' = crashes + 1
  /\ UNCHANGED <<rowVars, labsVars, applyVars, manualVars, ghostVars, edits>>

-----------------------------------------------------------------------------
(* record_manual_cleanup_resolution: read, compare-and-swap, audit.         *)

\* The row is read, for the 404 and for the previous_state of the audit.
ManualRead(o) ==
  /\ opc[o] = "idle"
  /\ \E r \in Records :
       /\ state[r] # "ABSENT"
       /\ orec' = [orec EXCEPT ![o] = r]
       /\ oprev' = [oprev EXCEPT ![o] = state[r]]
  /\ opc' = [opc EXCEPT ![o] = "swap"]
  /\ UNCHANGED <<rowVars, labsVars, applyVars, passVars, ghostVars, boundVars>>

\* The request is answered.
ManualForgets(o) ==
  /\ opc' = [opc EXCEPT ![o] = "idle"]
  /\ orec' = [orec EXCEPT ![o] = SomeRecord]
  /\ oprev' = [oprev EXCEPT ![o] = "ABSENT"]

\* record_manual_resolution(): the row is closed, or the route answers 409.
ManualResolve(o) ==
  LET r == orec[o] IN
  /\ opc[o] = "swap"
  /\ IF state[r] \in ManuallyResolvableStates
       THEN /\ state' = [state EXCEPT ![r] = "MANUALLY_RESOLVED"]
            /\ opc' = [opc EXCEPT ![o] = "audit"]
            /\ UNCHANGED <<orec, oprev>>
       ELSE /\ ManualForgets(o)
            /\ UNCHANGED state
  /\ UNCHANGED <<token, lapsed, arrived, created, reasonSent, labsVars, applyVars,
                 passVars, ghostVars, boundVars>>

ManualAudit(o) ==
  /\ opc[o] = "audit"
  /\ audit' = audit \cup
       {[event |-> "PRICING_CLEANUP_MANUALLY_RESOLVED", rec |-> orec[o],
         state |-> oprev[o], deleted |-> FALSE]}
  /\ ManualForgets(o)
  /\ UNCHANGED <<rowVars, labsVars, applyVars, passVars, deletes, boundVars>>

-----------------------------------------------------------------------------
Apply(r) ==
  \/ ApplyRefused(r) \/ RecordIntent(r) \/ RecordReasonSent(r)
  \/ SetOverrideStops(r) \/ Post(r) \/ VerifyWrite(r) \/ Confirm(r)

Pass(w) ==
  \/ StartPass(w) \/ Reconcile(w) \/ SelectDue(w) \/ EndPass(w) \/ Claim(w)
  \/ ProcessNoBands(w) \/ ProcessUnread(w) \/ ProcessRead(w)
  \/ SwitchedOff(w) \/ BeginDelete(w)
  \/ GuardRaises(w) \/ BeforeUnread(w) \/ BeforeRead(w)
  \/ SendDelete(w) \/ VerifyDelete(w)
  \/ Resolve(w) \/ RecordAudit(w) \/ Release(w)

Manual(o) == ManualRead(o) \/ ManualResolve(o) \/ ManualAudit(o)

Next ==
  \/ \E r \in Records : Apply(r) \/ ApplyCrash(r)
  \/ \E r \in Records : Arrive(r) \/ Lapse(r)
  \/ \E r \in Records : LatePost(r) \/ LateDelete(r)
  \/ \E d \in Dates : PersonPins(d) \/ PersonEdits(d) \/ PinRemoved(d)
  \/ \E w \in Workers : Pass(w) \/ PassCrash(w)
  \/ \E o \in Operators : Manual(o)

Spec == Init /\ [][Next]_vars

-----------------------------------------------------------------------------
TypeOK ==
  /\ state \in [Records -> CleanupState \cup {"ABSENT"}]
  /\ token \in [Records -> Tokens \cup {NoToken}]
  /\ lapsed \in [Records -> BOOLEAN]
  /\ arrived \in [Records -> BOOLEAN]
  /\ created \in [Records -> Stamps \cup {NoStamp}]
  /\ reasonSent \in [Records -> BOOLEAN]
  /\ override \in [Dates -> Override \cup {NoOverride}]
  /\ late \subseteq Requests
  /\ apc \in [Records -> {"start", "reason", "guard", "verify", "confirm",
                          "ended", "crashed"}]
  /\ aack \in [Records -> BOOLEAN]
  /\ aresult \in [Records -> WriteResult]
  /\ pc \in [Workers -> {"idle", "loop", "claimed", "proved", "fenced", "send",
                         "verify", "resolve", "committed", "stale", "release"}]
  /\ loop \in [Workers -> {"expired", "due"}]
  /\ queue \in [Workers -> SUBSET (Records \X (Tokens \cup {NoToken}))]
  /\ rec \in [Workers -> Records]
  /\ mine \in [Workers -> Tokens \cup {NoToken}]
  /\ ack \in [Workers -> BOOLEAN]
  /\ verdict \in [Workers -> CleanupState]
  /\ deleted \in [Workers -> BOOLEAN]
  /\ opc \in [Operators -> {"idle", "swap", "audit"}]
  /\ orec \in [Operators -> Records]
  /\ oprev \in [Operators -> CleanupState \cup {"ABSENT"}]
  /\ deletes \in [Records -> Nat]
  /\ audit \subseteq AuditEvents
  /\ edits \in Nat
  /\ crashes \in Nat

\* One obligation, at most one automatic DELETE, whatever passes overlap,
\* stall or die (run_once, claim, begin_delete).
AtMostOneDelete == \A r \in Records : deletes[r] <= 1

\* Two processes never hold an ownership proof for the same row at the same
\* time: a loser of the claim never reads (claim before the provider read).
Proving(w) == pc[w] \in {"proved", "fenced", "send"}
ExclusiveProof ==
  \A v, w \in Workers : Proving(v) /\ Proving(w) /\ rec[v] = rec[w] => v = w

\* A row for which a DELETE was sent never goes back to the automatic path:
\* release() is only reached where nothing was sent.
SentNeverReenters ==
  \A r \in Records :
    deletes[r] > 0 => state[r] \in TerminalStates \cup {"DELETE_STARTED"}

\* CLAIMED and DELETE_STARTED imply a token and no other state keeps one, so
\* resolve_unclaimed never has a row to settle.
ClaimsAreTokened ==
  \A r \in Records :
    token[r] # NoToken <=> state[r] \in {"CLAIMED", "DELETE_STARTED"}

\* No stranded pin: an override that carries a record's marker, or a POST of
\* one still on its way, has its row listed by open_records (with the reason
\* recorded) unless a person closed it. In particular CLEANED_UP and
\* VANISHED are only ever said of an override that is gone for good.
NoStrandedPin ==
  \A r \in Records :
    \/ \E d \in Dates : override[d] # NoOverride /\ override[d].marker = r
    \/ <<"POST", r>> \in late
    => reasonSent[r] /\ state[r] \in OpenStates \cup {"MANUALLY_RESOLVED"}

\* The audit trail never disagrees with the table: a PRICING_CLEANUP event
\* names the verdict the row has, until a person closes the row. A verdict
\* lost to somebody else is never announced as one that landed (_resolve).
AuditTellsTheRow ==
  \A e \in audit :
    e.event = "PRICING_CLEANUP" =>
      state[e.rec] \in {e.state} \cup
        (IF e.state \in ManuallyResolvableStates THEN {"MANUALLY_RESOLVED"} ELSE {})

\* Every DELETE that automation sent is confessed: when no pass is working
\* on the row and none died, a DELETE that was sent has its audit event.
DeleteIsAudited ==
  \A r \in Records :
    /\ deletes[r] > 0
    /\ crashes = 0
    /\ \A w \in Workers : rec[w] = r => pc[w] \in {"idle", "loop"}
    => \E e \in audit : e.rec = r /\ e.deleted

\* A settled row is settled: the only step out of a terminal state is a
\* person closing what automation gave up on. No stale pass, late answer or
\* crashed writer rewrites a verdict.
VerdictIsFinal ==
  [][\A r \in Records :
       state[r] \in TerminalStates /\ state'[r] # state[r] =>
         state[r] \in ManuallyResolvableStates /\ state'[r] = "MANUALLY_RESOLVED"]_vars

\* What docs/PRICING_CLEANUP_V2.md says of the delete boundary: nothing can
\* take the claim away from a DELETE_STARTED row, so a DELETE is only ever
\* sent under it.
BoundaryIsHeld ==
  \A w \in Workers :
    pc[w] \in {"fenced", "send", "verify"} =>
      state[rec[w]] = "DELETE_STARTED" /\ token[rec[w]] = mine[w]

-----------------------------------------------------------------------------
\* The table, with the DELETEs sent, keeps the promise of CleanupLifecycle:
\* every transaction of every actor is one of its moves, or none.
Lifecycle == INSTANCE CleanupLifecycle WITH obligation <- state, sent <- deletes
ImplementsLifecycle == Lifecycle!Spec

-----------------------------------------------------------------------------
\* Passes are started again and again (the hourly job) and a live process
\* takes its next step; the clock moves. Crashes, people and the provider's
\* late answers are never owed.
Fairness ==
  /\ \A w \in Workers : WF_vars(Pass(w))
  /\ \A r \in Records : WF_vars(Lapse(r))

FairSpec == Spec /\ Fairness

\* A claim nobody released is always surfaced: no row stays CLAIMED for
\* ever, even when the process that claimed it died.
ClaimsAreSurfaced ==
  \A r \in Records : state[r] = "CLAIMED" ~> state[r] # "CLAIMED"

-----------------------------------------------------------------------------
(* The inductive strengthening behind the theorems of                       *)
(* PricingCleanupProofs, as a conjunction of named parts.                   *)

\* w works on a row it claimed.
Holder(w) ==
  /\ loop[w] = "due"
  /\ pc[w] \in {"claimed", "proved", "fenced", "send", "verify", "resolve", "release"}

\* Only the second loop claims, and every verdict ends the row's life.
PassShape ==
  \A w \in Workers :
    /\ pc[w] \in {"claimed", "proved", "fenced", "send", "verify", "release"}
         => loop[w] = "due"
    /\ pc[w] \in {"resolve", "committed"}
         => verdict[w] \in TerminalStates \ {"MANUALLY_RESOLVED"}
    /\ pc[w] = "resolve" /\ loop[w] = "expired" => verdict[w] = "NEEDS_REVIEW"
    /\ Holder(w) => mine[w] # NoToken

\* The writer owns its row until it has settled it.
WriterShape ==
  \A r \in Records :
    /\ apc[r] = "start" => state[r] = "ABSENT"
    /\ apc[r] \in {"reason", "guard", "verify", "confirm"} => state[r] = "PENDING_WRITE"

\* A worker still has its claim, or somebody settled the row for good.
HeldOrSettled ==
  \A w \in Workers :
    Holder(w) => token[rec[w]] = mine[w] \/ state[rec[w]] \in TerminalStates

UniqueHolder ==
  \A v, w \in Workers : Holder(v) /\ Holder(w) /\ rec[v] = rec[w] => v = w

\* Before its DELETE a holder's row has had none; behind the fence the row
\* is at the boundary, or settled by a reconciler that read it before.
FenceShape ==
  \A w \in Workers :
    /\ Holder(w) /\ pc[w] \notin {"verify", "resolve"} => deletes[rec[w]] = 0
    /\ pc[w] \in {"fenced", "send", "verify"}
         => state[rec[w]] \in {"DELETE_STARTED", "NEEDS_REVIEW", "MANUALLY_RESOLVED"}

CleanupInv ==
  /\ PassShape
  /\ WriterShape
  /\ ClaimsAreTokened
  /\ HeldOrSettled
  /\ UniqueHolder
  /\ FenceShape
  /\ SentNeverReenters
  /\ AtMostOneDelete

\* The audit trail, and the announcements about to be added to it, tell the
\* row's verdict.
Announced(r, v) ==
  state[r] \in {v} \cup
    (IF v \in ManuallyResolvableStates THEN {"MANUALLY_RESOLVED"} ELSE {})

AuditInv ==
  /\ \A e \in audit :
       e.event = "PRICING_CLEANUP" => e.state \in TerminalStates \ {"MANUALLY_RESOLVED"}
  /\ \A w \in Workers : pc[w] = "committed" => Announced(rec[w], verdict[w])
  /\ AuditTellsTheRow

\* Where a record's marker can be: on its own date, after its one POST.
MarkedAt(r, d) == override[d] # NoOverride /\ override[d].marker = r
Marked  == {r \in Records : \E d \in Dates : MarkedAt(r, d)}
Pending == {r \in Records : <<"POST", r>> \in late}

PinHome == \A r \in Records, d \in Dates : MarkedAt(r, d) => d = StayDate[r]

PinOfRecord(r) ==
  /\ apc[r] \in {"guard", "verify", "confirm"} => reasonSent[r]
  /\ r \in Marked \cup Pending => reasonSent[r]
  /\ r \notin Marked \cap Pending
  /\ apc[r] \in {"start", "reason", "guard"} => r \notin Marked \cup Pending
  /\ apc[r] = "verify" /\ ~aack[r] => r \notin Marked \cup Pending
  /\ apc[r] = "confirm" /\ aresult[r].outcome = "CONFIRMED_FAILED"
       => r \notin Marked \cup Pending
  /\ apc[r] = "confirm" /\ aresult[r].intact => r \notin Pending
  /\ r \in Pending
       => state[r] \in {"PENDING_WRITE", "NEEDS_REVIEW", "MANUALLY_RESOLVED"}
  /\ r \in Marked => state[r] \notin {"CLEANED_UP", "VANISHED", "ABSENT"}

PinOfWorker(w) ==
  /\ Holder(w) => rec[w] \notin Pending
  /\ pc[w] = "resolve" /\ verdict[w] \in {"CLEANED_UP", "VANISHED"}
       => loop[w] = "due" /\ rec[w] \notin Marked

PinInv ==
  /\ PinHome
  /\ \A r \in Records : PinOfRecord(r)
  /\ \A w \in Workers : PinOfWorker(w)

=============================================================================

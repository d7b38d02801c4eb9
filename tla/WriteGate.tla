------------------------------ MODULE WriteGate ------------------------------
(***************************************************************************)
(* How a recommendation becomes a price: the owner's live session          *)
(* (pricing_session), the submission of a card for approval (main), and    *)
(* the gates apply_pricing_action passes before its one write              *)
(* (pricelabs.pricing_tools). Every listing has one night here.            *)
(*                                                                         *)
(* The console submits the card of a recommendation it was shown. The      *)
(* route takes whatever card comes with the request: it asks for an action *)
(* that writes and a listing with bands, and neither it nor the tool looks *)
(* at the price again. So calls carry both, and the history drawn says     *)
(* which ones carry a card the rules drew.                                 *)
(*                                                                         *)
(* A call of apply_pricing_action runs in a thread of its own: it checks   *)
(* the switches and the session, reads the night again, and writes, and    *)
(* between two of these steps anything else may happen. A restart ends the *)
(* calls in flight, closes the session (it is kept in memory) and is the   *)
(* only way the environment's switches change. What a write leaves behind  *)
(* for its cleanup is PricingCleanup's subject.                            *)
(***************************************************************************)
EXTENDS PricingDecision

CONSTANTS
  Calls,       \* approvals of one action each
  Readings,    \* what the provider may show of a night, before any write
  Prices,      \* what a request may propose beside the recommendations
  MaxSession,  \* longest session, in ticks: MAX_SESSION_MINUTES
  MaxTime,     \* bound: the clock
  MaxRestarts, \* bound: restarts
  None         \* no session

ASSUME SessionAssumption ==
  MaxSession \in Nat \ {0} /\ MaxTime \in Nat /\ MaxRestarts \in Nat

\* A night at the provider: what is pinned has a price of a dollar at least.
ProviderNight ==
  {r \in NightReading : /\ r.pinned <=> r.pinPrice # 0
                        /\ r.pinPrice = 0 \/ r.pinPrice >= Dollar}

ASSUME ReadingsAssumption == Readings \subseteq ProviderNight

ASSUME PricesAssumption == Prices \subseteq Nat

VARIABLES
  env,      \* [writes, allowed]: the deployment's switches
  session,  \* SESSIONS: None, or [listings, until]
  now,      \* the clock
  night,    \* per listing, the provider's night
  calls,    \* per call, its card and where it is
  opened,   \* the last window the owner opened in this process and did not end
  drawn,    \* history: the calls whose card is one of a recommendation
  restarts  \* bound

vars == <<env, session, now, night, calls, opened, drawn, restarts>>

Steps == {"idle", "pending", "gated", "checked", "refused", "unanswered", "done", "lost"}

NoCard == [listing |-> Unbanded, action |-> "HOLD", proposed |-> 0, print |-> << >>]

\* The card of a recommendation, as the console holds it.
Card(listing, reading) ==
  LET rec == Recommend(listing, reading)
  IN  [listing |-> listing, action |-> rec.action, proposed |-> rec.proposed,
       print |-> Fingerprint(reading)]

\* What the request may carry instead: any action that writes, any price or
\* none (0; no one looks at the price of a REMOVE_PIN), a fingerprint of a night
\* that may be shown, or one of no night. A fingerprint names its listing, so
\* one of another listing is of no night.
OtherCards(listing) ==
  {card \in [listing  : {listing},
             action   : WriteActions,
             proposed : Prices \cup {0},
             print    : {Fingerprint(r) : r \in Readings \cup {night[listing]}} \cup {<< >>}] :
     card.action = "REMOVE_PIN" => card.proposed = 0}

Fingerprints == [price : Nat, p25 : Nat, median : Nat, pin : Nat, demand : STRING]

CardType == [listing : Listings \cup {Unbanded}, action : Actions, proposed : Nat,
             print : Fingerprints \cup {<< >>}]

TypeOK ==
  /\ env \in [writes : BOOLEAN, allowed : SUBSET Listings]
  /\ session = None \/ session \in [listings : SUBSET Listings, until : Nat]
  /\ now \in 0 .. MaxTime
  /\ night \in [Listings -> ProviderNight]
  /\ calls \in [Calls -> [step : Steps, card : CardType]]
  /\ drawn \subseteq Calls
  /\ restarts \in 0 .. MaxRestarts

Init ==
  /\ env = [writes |-> TRUE, allowed |-> Listings]
  /\ session = None
  /\ now = 0
  /\ night \in [Listings -> Readings]
  /\ calls = [c \in Calls |-> [step |-> "idle", card |-> NoCard]]
  /\ opened = None
  /\ drawn = {}
  /\ restarts = 0

-----------------------------------------------------------------------------
(* The session.                                                             *)

\* active: expiry is applied on every read.
Live == session # None /\ now < session.until

Permits(listing) == Live /\ listing \in session.listings

StartSession(listings, duration) ==
  /\ listings # {}
  /\ duration \in 1 .. MaxSession
  /\ session' = [listings |-> listings, until |-> now + duration]
  /\ opened' = [listings |-> listings, until |-> now + duration]
  /\ UNCHANGED <<env, now, night, calls, drawn, restarts>>

EndSession ==
  /\ Live
  /\ session' = None
  /\ opened' = None
  /\ UNCHANGED <<env, now, night, calls, drawn, restarts>>

-----------------------------------------------------------------------------
(* A card becomes an approval.                                              *)

\* submit_pricing_action: only an action that writes, on a listing with bands.
Submit(c, card) ==
  /\ calls[c].step = "idle"
  /\ card.action \in WriteActions
  /\ calls' = [calls EXCEPT ![c].step = "pending", ![c].card = card]
  /\ UNCHANGED <<env, session, now, night, opened, restarts>>

\* The console submits what recommend_night said of a night it was shown, now
\* or some time ago.
SubmitRecommended(c, listing) ==
  /\ \E reading \in Readings \cup {night[listing]} : Submit(c, Card(listing, reading))
  /\ drawn' = drawn \cup {c}

\* A request with a card of its own.
SubmitOther(c, listing) ==
  /\ \E card \in OtherCards(listing) : Submit(c, card)
  /\ UNCHANGED drawn

\* Mutant: the allow-list is left to the session.
PermittedBySession(card) == env.writes /\ ~Unverified(card.action) /\ Permits(card.listing)

\* The gates before the provider is read: bands, verification, the two
\* switches of the deployment, the session.
Permitted(card) ==
  /\ card.listing \in Listings
  /\ ~Unverified(card.action)
  /\ env.writes
  /\ card.listing \in env.allowed
  /\ Permits(card.listing)

\* A person approves; apply_pricing_action starts.
Approve(c) ==
  /\ calls[c].step = "pending"
  /\ calls' = [calls EXCEPT
                 ![c].step = IF Permitted(calls[c].card) THEN "gated" ELSE "refused"]
  /\ UNCHANGED <<env, session, now, night, opened, drawn, restarts>>

\* An action that sets a price has one.
HasPrice(card) == card.action # "REMOVE_PIN" => card.proposed # 0

\* _current_state, the age of what it read, the fingerprint, and the price.
Reread(c) ==
  LET card == calls[c].card
  IN  /\ calls[c].step = "gated"
      /\ \E readable, fresh \in BOOLEAN :
           calls' = [calls EXCEPT ![c].step =
                       IF /\ readable /\ fresh
                          /\ Fingerprint(night[card.listing]) = card.print
                          /\ HasPrice(card)
                         THEN "checked" ELSE "refused"]
      /\ UNCHANGED <<env, session, now, night, opened, drawn, restarts>>

\* What the provider has of the night once the action took effect. A pin that
\* is removed gives the night back to the dynamic price; a price is sent in
\* whole dollars, and PriceLabs is taken to refuse one under the least there is.
Applied(card) ==
  IF card.action = "REMOVE_PIN"
    THEN {[r EXCEPT !.pinned = FALSE, !.pinPrice = 0] :
            r \in {x \in Readings : ~x.pinned}}
    ELSE {[night[card.listing] EXCEPT !.price = p, !.pinned = TRUE, !.pinPrice = p] :
            p \in {Round(card.proposed)} \ 0 .. LeastPrice - 1}

\* set_override or remove_override: sent once; the answer may be a refusal, or
\* none although the write took effect.
Write(c) ==
  LET card == calls[c].card
  IN  /\ calls[c].step = "checked"
      /\ \E took, answered \in BOOLEAN :
           /\ calls' = [calls EXCEPT ![c].step = IF answered THEN "done" ELSE "unanswered"]
           /\ IF took
                THEN \E after \in Applied(card) : night' = [night EXCEPT ![card.listing] = after]
                ELSE UNCHANGED night
      /\ UNCHANGED <<env, session, now, opened, drawn, restarts>>

-----------------------------------------------------------------------------
(* The world around it.                                                     *)

\* PriceLabs recomputes a night, or a person sets or lifts a pin there.
Refresh(listing) ==
  /\ \E reading \in Readings : night' = [night EXCEPT ![listing] = reading]
  /\ UNCHANGED <<env, session, now, calls, opened, drawn, restarts>>

Tick ==
  /\ now < MaxTime
  /\ now' = now + 1
  /\ UNCHANGED <<env, session, night, calls, opened, drawn, restarts>>

\* Mutant: the session is kept where a restart finds it again.
SessionKept == session

\* PricingSessionStore lives in the process.
SessionAfterRestart == None

InFlight == {"gated", "checked"}

Restart ==
  /\ restarts < MaxRestarts
  /\ restarts' = restarts + 1
  /\ env' \in [writes : BOOLEAN, allowed : SUBSET Listings]
  /\ session' = SessionAfterRestart
  /\ opened' = None
  /\ calls' = [c \in Calls |-> IF calls[c].step \in InFlight
                                 THEN [calls[c] EXCEPT !.step = "lost"] ELSE calls[c]]
  /\ UNCHANGED <<now, night, drawn>>

Next ==
  \/ \E listings \in SUBSET Listings, duration \in 1 .. MaxSession :
       StartSession(listings, duration)
  \/ EndSession
  \/ \E c \in Calls, listing \in Listings : SubmitRecommended(c, listing)
  \/ \E c \in Calls, listing \in Listings : SubmitOther(c, listing)
  \/ \E c \in Calls : Approve(c)
  \/ \E c \in Calls : Reread(c)
  \/ \E c \in Calls : Write(c)
  \/ \E listing \in Listings : Refresh(listing)
  \/ Tick
  \/ Restart

Spec == Init /\ [][Next]_vars

-----------------------------------------------------------------------------
(* Properties.                                                              *)

\* A call passes the gates only inside a window the owner opened in this
\* process, for that listing, that was not ended and did not run out: neither
\* a restart nor use prolongs a session (pricing_session).
GatedInAWindow ==
  [][\A c \in Calls : calls[c].step = "pending" /\ calls'[c].step = "gated" =>
       opened # None /\ now < opened.until /\ calls[c].card.listing \in opened.listings]_vars

\* Whatever the owner opens, a call in flight is one the deployment allows:
\* the session narrows and never widens (apply_pricing_action).
DeploymentIsTheCeiling ==
  \A c \in Calls : calls[c].step \in InFlight =>
    env.writes /\ calls[c].card.listing \in env.allowed

\* A move lies within a tenth of the night's price, give or take the dollar the
\* fingerprint rounds to, and within the bands, and pins no night twice.
WithinTheRules(card, reading) ==
  /\ 10 * AbsDiff(card.proposed, reading.price) <= reading.price + 11 * Dollar
  /\ card.proposed >= InDollars(Bands[card.listing].hardFloor) \/ card.action = "RAISE"
  /\ card.proposed <= InDollars(Bands[card.listing].autoRaiseCeiling) \/ card.action = "LOWER"
  /\ reading.pinPrice = 0

Passes(c) ==
  /\ calls[c].step = "gated"
  /\ calls'[c].step = "checked"
  /\ calls[c].card.action \in {"LOWER", "RAISE"}

\* However old the card the console submits, and whatever became of the night
\* since: the price it goes on to set is within the rules of the night as it
\* was read again (fingerprint_of, check_guardrails).
MovesAreBounded ==
  [][\A c \in drawn : Passes(c) =>
       WithinTheRules(calls[c].card, night[calls[c].card.listing])]_vars

-----------------------------------------------------------------------------
(* What comments say and the program does not keep; the README names the    *)
(* run that shows each.                                                     *)

\* "The single gate every write action passes", of check_guardrails: no price
\* is set that it would refuse.
EveryMoveIsBounded ==
  [][\A c \in Calls : Passes(c) =>
       WithinTheRules(calls[c].card, night[calls[c].card.listing])]_vars

\* "Close the window immediately": once the owner ended the session, or it ran
\* out, no price changes.
EndCloses ==
  [][\A c \in Calls : calls[c].step = "checked" /\ calls'[c].step \in {"done", "unanswered"}
       => Permits(calls[c].card.listing)]_vars
=============================================================================

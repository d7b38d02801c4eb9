------------------------------ MODULE Decisions ------------------------------
(***************************************************************************)
(* The rules the system decides by without keeping state: one night's      *)
(* price, one calendar's windows, one thread's reply, one run's rules: each *)
(* is a function of what was read, so a behaviour takes one reading of one *)
(* kind and stops; only a conversation grows, message by message. The      *)
(* inputs are constants: the instance says which readings are tried.       *)
(***************************************************************************)
EXTENDS PricingBoard, Vacancy, StayPolicies, KnowledgeRules, HistoricalReplies

CONSTANTS
  NightInputs,     \* readings of one night
  HistoryInputs,   \* sequences of reservation rows
  CalendarInputs,  \* sequences of a provider's calendar rows
  EntryInputs,     \* sequences of windows with their property's health, to be ranked
  MessageInputs,   \* messages a thread is made of
  MaxMessages,     \* bound: messages of one thread
  AnswerInputs,    \* what a drafting run comes back with
  ScheduleInputs,  \* sets of stays
  ClockInputs,     \* clock readings
  CandidateInputs, \* sequences of what a model wrote about groups of replies
  LetterInputs,    \* messages an archived thread is made of
  MaxLetters       \* bound: messages of one archived thread

ASSUME NightsAssumption == NightInputs \subseteq NightReading

\* A booking has one id, and the arrival of a stay is a day (a negative one where
\* it cannot be read).
ASSUME SchedulesAssumption ==
  \A stays \in ScheduleInputs :
    /\ \A s \in stays : s.arrival \in Int
    /\ \A s, t \in stays : s.id = t.id => s = t

\* A provider's row has a day, one of the statuses and two fields that may hold no
\* number; the rows of a calendar and the windows of a board are lists.
CalendarRow == [day : Int, status : RowStatuses, occupancy : Int, unbookable : Int,
                price : Nat, minStay : Nat]
ASSUME CalendarsAssumption == CalendarInputs \subseteq Seq(CalendarRow)

BoardEntry == [window  : [gross : Nat, weekend : Nat, highValue : Nat, start : Days],
               health  : [market : Int, listing : Int, window : Int],
               listing : Int]
ASSUME EntriesAssumption == EntryInputs \subseteq Seq(BoardEntry)

\* A run's answers are a list; what redaction leaves of a message is one of words.
ASSUME CandidatesAssumption == CandidateInputs \subseteq Seq(GroupAnswer)
ArchivedMessage == [from : STRING, words : Seq(STRING), day : Int, template : BOOLEAN]
ASSUME LettersAssumption == LetterInputs \subseteq ArchivedMessage

VARIABLES
  subject,  \* what was read
  input     \* the reading

decisionVars == <<subject, input>>

DecisionInit == subject = "nothing" /\ input = << >>

\* Nothing was read yet.
Waiting == subject = "nothing"

Read(what, reading) == subject' = what /\ input' = reading

ReadNight ==
  /\ Waiting
  /\ \E listing \in Listings \cup {Unbanded}, night \in NightInputs :
       Read("night", [listing |-> listing, night |-> night])

ReadHistory ==
  /\ Waiting
  /\ \E rows \in HistoryInputs, days \in {3, 10} :
       Read("history", [rows |-> rows, days |-> days])

ReadFloor ==
  /\ Waiting
  /\ \E listing \in Listings, month \in 1 .. 12,
        days \in {0, 3, 4, 7, 8, 14, 15, 29, 30, 60} :
       Read("floor", [listing |-> listing, month |-> month, days |-> days])

ReadCalendar == Waiting /\ \E rows \in CalendarInputs : Read("calendar", rows)

ReadWindows == Waiting /\ \E entries \in EntryInputs : Read("windows", entries)

ReadSchedule ==
  /\ Waiting
  /\ \E stays \in ScheduleInputs, reachable \in BOOLEAN :
       \E stay \in stays :
         Read("schedule", [stays |-> stays, stay |-> stay, reachable |-> reachable])

ReadClock == Waiting /\ \E reading \in ClockInputs : Read("clock", reading)

ReadCandidates ==
  Waiting /\ \E answers \in CandidateInputs : Read("candidates", answers)

\* A message arrives, from either side.
Message ==
  /\ subject \in {"nothing", "thread"}
  /\ Len(input) < MaxMessages
  /\ subject' = "thread"
  /\ \E message \in MessageInputs : input' = Append(input, message)

\* An archived thread is read again when it is longer.
Letter ==
  /\ subject \in {"nothing", "archive"}
  /\ Len(input) < MaxLetters
  /\ subject' = "archive"
  /\ \E letter \in LetterInputs : input' = Append(input, letter)

DecisionNext ==
  \/ ReadNight \/ ReadHistory \/ ReadFloor
  \/ ReadCalendar \/ ReadWindows
  \/ ReadSchedule \/ ReadClock \/ ReadCandidates \/ Message \/ Letter

DecisionSpec == DecisionInit /\ [][DecisionNext]_decisionVars

-----------------------------------------------------------------------------
(* Prices.                                                                  *)

Advice == Recommend(input.listing, input.night)

\* An actionable move is at most ten per cent, in whole dollars, goes the way
\* it says, and ends within the bands: not under the hard floor, not over the
\* ceiling an unattended raise has (check_guardrails, cap_safe_price).
ActionableIsBounded ==
  subject = "night" /\ Advice.action \in {"LOWER", "RAISE"} =>
    LET night == input.night
        bands == Bands[input.listing]
    IN  /\ input.listing \in Listings
        /\ 10 * AbsDiff(Advice.proposed, night.price) <= night.price
        /\ Advice.proposed % Dollar = 0
        /\ Advice.action = "LOWER" => /\ Advice.proposed < night.price
                                      /\ Advice.proposed >= InDollars(bands.hardFloor)
        /\ Advice.action = "RAISE" => /\ Advice.proposed > night.price
                                      /\ Advice.proposed <= InDollars(bands.autoRaiseCeiling)

\* The price a rule proposes never trips the cap it was clamped to: rounding
\* to whole dollars stays on the near side (cap_safe_price).
CapNeverRefuses ==
  subject = "night" => Advice.refused # "EXCEEDS_MAX_CHANGE"

\* A night that is sold or blocked keeps the price it was sold at: nothing
\* about it is offered, pinned or not (recommend_night).
SoldNightsKeep ==
  subject = "night" /\ ~input.night.open => ~IsActionable(Advice)

\* Close to arrival the property's own history comes first: a night well over
\* what its own stays paid, in a weak market, is never raised, however strong
\* the market's occupancy (recommend_night inside NEAR_TERM_DAYS).
HistoryPreemptsMarket ==
  subject = "night" =>
    LET night == input.night
    IN  /\ night.daysOut <= NearTermDays
        /\ night.adr > 0 /\ 100 * night.price > 115 * night.adr
        /\ night.demand \in WeakDemand
        => Advice.action # "RAISE"

\* What a person is told to look at now is safe to act on: a reduction stays
\* over the owner's own floor and no market signal contradicts it, and a raise
\* has a named demand behind it and goes no further than the market, to the
\* dollar (rank_lower, rank_opportunity).
UrgentIsSafe ==
  subject = "night" =>
    LET night == input.night
    IN  /\ /\ IsLowerOpportunity(night, Advice)
           /\ LowerPriority(input.listing, night, Advice) = "REVIEW_NOW"
           => /\ Advice.proposed >=
                   InDollars(EffectiveFloor(input.listing, night.month, night.daysOut))
              /\ ~RaisesOnMarket(night)
              /\ Advice.proposed >= night.adr
        /\ /\ IsOpportunity(night, Advice)
           /\ RaisePriority(night, Advice) = "REVIEW_NOW"
           => /\ night.demand \in StrongerDemand
              /\ Advice.proposed <= Round(night.p25)

\* A stay that was cancelled is no evidence of what the night sells for: the
\* median is the same whether or not its row is read (history_sample).
CancelledIsNoEvidence ==
  subject = "history" =>
    LET booked == {i \in DOMAIN input.rows : input.rows[i].status = "booked"}
        stays  == Restrict(input.rows, booked)
    IN  HistoryAdr(SamplesFor(input.rows, input.days)) = HistoryAdr(SamplesFor(stays, input.days))

\* The line below which a person is asked never lies under the line below
\* which nothing may be written (dynamic_floor).
FloorOrder ==
  subject = "floor" =>
    EffectiveFloor(input.listing, input.month, input.days) >= Bands[input.listing].hardFloor

\* A raise that the ten per cent cap held back is reported as such, so the
\* next run can be expected to go on ("the proposed price sits exactly on the
\* single-run ceiling").
ClampIsReported ==
  subject = "night" /\ Advice.action = "RAISE"
    /\ input.night.p25 > input.night.price + MaxChange(input.night.price)
  => IsChangeClamped(input.night, Advice)

\* Prices keep their bounds: an actionable move within the cap and the bands, and
\* no rule refused by the cap it was clamped to.
ProposalsAreBounded ==
  ActionableIsBounded /\ CapNeverRefuses

\* Prices follow the evidence there is: none for a night that is sold, the
\* property's own history before the market's, nothing urgent that a signal
\* contradicts, no cancelled stay for a paid one, and nobody asked about a price
\* that nothing may be written at.
EvidenceDecides ==
  /\ SoldNightsKeep /\ HistoryPreemptsMarket /\ UrgentIsSafe
  /\ CancelledIsNoEvidence /\ FloorOrder

-----------------------------------------------------------------------------
(* Calendars.                                                               *)

\* The last row of a day, if it has one.
RowOf(rows, day) ==
  {rows[i] : i \in {j \in DOMAIN rows : /\ rows[j].day = day
                                        /\ \A k \in DOMAIN rows : k > j => rows[k].day # day}}

\* The days the provider lists as free to sell: nothing in the status, a readable
\* occupancy that is not one, and a flag that says the night can be booked.
FreeDays(rows) ==
  {d \in Days : \E row \in RowOf(rows, d) :
     row.status = "empty" /\ row.occupancy \notin {1, NoNumber} /\ row.unbookable = 0}

\* The maximal intervals of a set of days.
Intervals(days) ==
  {ab \in days \X days : /\ ab[1] <= ab[2]
                         /\ ab[1] .. ab[2] \subseteq days
                         /\ ab[1] - 1 \notin days /\ ab[2] + 1 \notin days}

\* The open windows of the board are the maximal runs of nights the provider
\* shows free, in date order: a night that is missing, unread or of a status
\* nobody knows ends a run and is never sold as vacant, and of two rows of one
\* night the last counts (night_state, property_calendar, runs_of).
WindowsAreTheGaps ==
  subject = "calendar" =>
    LET windows == WindowsOf(Calendar(input), "OPEN")
    IN  /\ {<<w.start, w.start + w.nights - 1>> : w \in ToSet(windows)}
             = Intervals(FreeDays(input))
        /\ \A i, j \in DOMAIN windows : i < j => windows[i].start < windows[j].start

\* The bonuses reorder windows of like value and no more: none is ranked behind,
\* or left out for, one it is worth over 1.65 times of; and the list has every
\* window with a price, or ten of them (score_window, rank_opportunities).
RankingHoldsTheMoney ==
  subject = "windows" =>
    LET ranked == Ranked(input)
        worth  == {k \in DOMAIN input : input[k].window.gross > 0}
        atMost(e, f) == 100 * e.window.gross <= 165 * f.window.gross
    IN  /\ \A i, j \in DOMAIN ranked : i < j => atMost(ranked[j], ranked[i])
        /\ \A e \in ToSet(input) \ ToSet(ranked), i \in DOMAIN ranked : atMost(e, ranked[i])
        /\ ToSet(ranked) \subseteq {input[k] : k \in worth}
        /\ IF Cardinality(worth) <= TopOpportunities
             THEN ToSet(ranked) = {input[k] : k \in worth}
             ELSE Len(ranked) = TopOpportunities

\* The vacancy board shows the gaps there are, in the order of the money in them.
BoardIsTrue ==
  WindowsAreTheGaps /\ RankingHoldsTheMoney

\* "every path that is not positively established lands on UNKNOWN": only a night
\* whose occupancy is zero is open.
OpenIsEstablished ==
  subject = "calendar" =>
    \A i \in DOMAIN input : StateOf(input[i]) = "OPEN" => input[i].occupancy = 0

\* "an owner-blocked night is unavailable inventory that counts as occupied --
\* it is not vacancy, and it does not depress occupancy."
BlockedIsOccupied ==
  subject = "calendar" =>
    LET entry == PropertyEntry(input, [market |-> -1, listing |-> -1])
    IN  Occupancy(<<entry>>) = OccupancyOf(<<entry>>)

-----------------------------------------------------------------------------
(* Conversations.                                                           *)

CancelledStates == {"yes", "no", "unknown"}
CheckoutStates == {"yes", "no", "unknown"}

\* The guest's messages no reply of ours follows, by position.
OpenMessages(thread) ==
  {m \in ToSet(thread) : \E i \in DOMAIN thread :
     /\ thread[i] = m /\ m.from = "Renter"
     /\ \A j \in DOMAIN thread : j > i => thread[j].from = "Renter"}

\* A draft that is ready to be sent as it stands names no checkout after
\* 11:00, no discount but the approved one and no terms for it, and it answers
\* no request that is the owner's to decide: a later checkout, more nights, an
\* earlier arrival unless a departure that day rules it out, or an accepted
\* offer (process, _draft).
ReadyIsWithinPolicy ==
  subject = "thread" =>
    \A cancelled \in CancelledStates, checkout \in CheckoutStates, force \in BOOLEAN,
       answer \in AnswerInputs :
      ProcessOutcome(input, cancelled, checkout, force, answer).status = "DRAFT_READY" =>
        /\ LatestCheckoutTime(answer) <= CeilingMinutes
        /\ answer.marks \cap {"other_discount", "mechanics"} = {}
        /\ \A m \in OpenMessages(input) :
             /\ LatestCheckoutTime(m) <= CeilingMinutes
             /\ "asks_extension" \notin m.marks
             /\ "mechanics" \notin m.marks
             /\ "asks_early" \in m.marks => checkout = "yes"
             /\ "accepts" \in m.marks => cancelled # "yes"

\* Silence is never the outcome while a message nobody answered asks for
\* something, however the thread ends and whatever the model proposes; and the
\* writer of an enquiry is not told that nothing is open
\* (analyse_conversation, _draft, EnquiryReplyService.draft).
SilenceIsEarned ==
  subject = "thread" =>
    \A cancelled \in CancelledStates, checkout \in CheckoutStates, force \in BOOLEAN,
       answer \in AnswerInputs :
      \/ ProcessOutcome(input, cancelled, checkout, force, answer).status = "NO_REPLY_NEEDED"
      \/ EnquiryDraft(input, TRUE, answer).detail = "nothing_to_say"
      => \A m \in OpenMessages(input) : m.marks \cap ActionableMarks = {}

\* The retention offer is made for a stay that is cancelled, and once: after
\* our message carries it, no guidance asks for it again (outcome_for).
OfferIsMadeOnce ==
  subject = "thread" =>
    \A cancelled \in CancelledStates, checkout \in CheckoutStates :
      ReplyGuidance(input, {}, checkout, cancelled).offer =>
        /\ cancelled = "yes"
        /\ \A i \in DOMAIN input : input[i].from = "Owner" => "offer_30" \notin input[i].marks

\* The guidance the model drafts under gives the verdict on an early arrival
\* that the refresh escalates by: "Clear only when a guest checks out that
\* day, which the draft can be told to decline".
GuidanceAgreesWithEscalation ==
  subject = "thread" =>
    \A checkout \in CheckoutStates :
      Analysis(input).early =>
        ReplyGuidance(input, {}, checkout, "no").early = EarlyVerdict(checkout)

\* "a request we already answered does not escalate the thread forever".
AnsweredIsClosed ==
  subject = "thread" /\ OpenMessages(input) \cap {m \in ToSet(input) : "mechanics" \in m.marks} = {}
    => EscalationReason(input, "no", "yes") # "mechanics"

\* An early arrival is declined exactly when the schedule could be read and
\* another confirmed stay of that property ends on the arrival day
\* (turnover_for, departures_on).
DeclinedForACause ==
  subject = "schedule" =>
    LET checkout == SameDayCheckout(input.stays, input.stay, input.reachable)
    IN  EarlyVerdict(checkout) = "declined" <=>
          /\ input.reachable
          /\ input.stay.arrival >= 0
          /\ \E s \in input.stays : /\ s # input.stay /\ s.property = input.stay.property
                                    /\ s.departure = input.stay.arrival
                                    /\ s.status = "Booked"

\* A clock reading is the time a guest means: with a.m. or p.m. the time of
\* that half of the day, and a bare hour the one reading of the dial between
\* 10:00 and 22:00, so that a bare noon is noon (to_minutes).
ClockIsRead ==
  subject = "clock" =>
    LET read   == ToMinutes(input)
        dial(t) == t % 720 = ((input.hour % 12) * 60) + input.minute
    IN  input.minute \in 0 .. 59 /\ input.hour \in 1 .. 12 =>
          /\ dial(read)
          /\ input.meridiem = "a" => read \in 0 .. 719
          /\ input.meridiem = "p" => read \in 720 .. 1439
          /\ input.meridiem = "none" => read \in 600 .. 1319

\* What is decided about a stay follows the owner's policies: what may be sent
\* unread, when nothing is said, who is made the offer and who is turned down,
\* over times read as the guest meant them.
StaysFollowPolicy ==
  /\ ReadyIsWithinPolicy /\ SilenceIsEarned /\ OfferIsMadeOnce
  /\ DeclinedForACause /\ ClockIsRead

-----------------------------------------------------------------------------
(* Rules distilled from replies.                                            *)

\* A candidate is in one proposal of its subject, under its own scope or the
\* portfolio's, with its evidence; and its number stays flagged.
IsShown(a, batch) ==
  LET under == {i \in DOMAIN batch : /\ batch[i].subject = a.subject
                                     /\ batch[i].scope \in {a.scope, Unattributed}
                                     /\ a.refs \subseteq batch[i].refs}
  IN  under # {} /\ (a.numeric => \E i \in under : batch[i].numeric)

\* Two proposals of one property and subject do not repeat each other.
StandApart(c, d) ==
  c.scope = d.scope /\ c.scope # Unattributed /\ c.subject = d.subject
  => Similarity(c, d) < DuplicateSimilarity

\* A promoted rule may speak for every property, and has left no rule that says so
\* of one.
SpeaksForAll(c, batch) ==
  /\ Cardinality(c.properties) >= MinPropertiesForGlobal
  /\ ~c.numeric /\ "property_specific" \notin Marks[c.says]
  /\ \A d \in ToSet(batch) : d.subject = c.subject /\ d.scope # Unattributed
       => Similarity(c, d) < GlobalSimilarity

\* What a run proposes is what its replies show: every accepted answer's evidence
\* is in one proposal of its subject, under its own scope or the portfolio's; a
\* number stays flagged for a review however the answer was merged; no two
\* proposals of one property and subject repeat each other; and a rule that was
\* promoted has the evidence of three properties, no number, nothing in its words
\* about one building, and no rule of one property left that it speaks for
\* (consolidate, promote_global).
ProposalsShowTheReplies ==
  subject = "candidates" =>
    LET batch == Distilled(input)
    IN  /\ \A a \in ToSet(Collected(input)) : IsShown(a, batch)
        /\ \A i, j \in DOMAIN batch : i # j => StandApart(batch[i], batch[j])
        /\ \A c \in ToSet(batch) :
             c.scope = Unattributed /\ c.properties # {} => SpeaksForAll(c, batch)

\* An archived thread teaches what was asked and how we answered it: every word
\* of an answer is our own, every reply of ours is an example's answer to the
\* guest message it follows, and once the guest has written again, a later
\* reading finds the examples it had (extract_exchanges, fingerprint).
ExamplesAreExchanges ==
  subject = "archive" =>
    LET ours == {i \in DOMAIN input : input[i].from = "Owner" /\ ~input[i].template}
    IN  /\ \A e \in Exchanges(input) :
             ToSet(e.answered) \subseteq UNION {ToSet(input[i].words) : i \in ours}
        /\ \A q \in DOMAIN input, p \in ours :
             /\ q < p /\ input[q].from = "Renter"
             /\ \A k \in q + 1 .. p : input[k].from = "Owner"
             /\ ~TooShort(input[q].words) /\ ~TooShort(input[p].words)
             => \E e \in Exchanges(input) : /\ ToSet(input[q].words) \subseteq ToSet(e.asked)
                                             /\ ToSet(input[p].words) \subseteq ToSet(e.answered)
        /\ \A n \in DOMAIN input :
             input[n].from = "Renter" => Exchanges(SubSeq(input, 1, n)) \subseteq Exchanges(input)

\* What is learned was written: rules and examples alike.
WhatIsLearnedWasWritten == ProposalsShowTheReplies /\ ExamplesAreExchanges

\* "a conversation indexed here and later re-indexed by the full command
\* produces no duplicates."
ReindexFindsTheRows ==
  subject = "archive" =>
    \A n \in DOMAIN input : Exchanges(SubSeq(input, 1, n)) \subseteq Exchanges(input)

\* "Scope always starts property-specific. Global is earned in phase 2 from
\* cross-property agreement, never claimed by the model."
GlobalIsEarned ==
  subject = "candidates" =>
    \A c \in ToSet(Distilled(input)) :
      c.scope = Unattributed => Cardinality(c.properties) >= MinPropertiesForGlobal
=============================================================================

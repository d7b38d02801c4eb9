------------------------- MODULE DecisionsProofs -------------------------
(***************************************************************************)
(* What the rules without state guarantee of every reading: the bounds and *)
(* the evidence of every proposal, for every listing's bands, the owner's  *)
(* policies for every thread, schedule and clock reading, the gaps and the *)
(* order of the vacancy board for every calendar and every horizon, the    *)
(* examples of every archived thread and the rules of every list of model  *)
(* answers.                                                                *)
(* One invariant says what is read (ReadingOK); the rest are lemmas about  *)
(* the rules, read off a behaviour's reading. The loops over a calendar,   *)
(* over the texts of a turn and over candidates are recursive functions:   *)
(* that one has the values its definition gives it is RecursionExists, and *)
(* what holds of all of them follows from a least index at which it would  *)
(* not.                                                                    *)
(***************************************************************************)
EXTENDS Decisions, WriteGateProofs, FiniteSetTheorems

\* What is read is one of the inputs, and stays the reading it was.
ReadingOK ==
  /\ subject = "nothing" => input = << >>
  /\ subject = "night" => input.night \in NightReading
  /\ subject = "floor" => input.listing \in Listings
  /\ subject = "schedule" =>
       /\ input.stays \in ScheduleInputs /\ input.stay \in input.stays
       /\ input.reachable \in BOOLEAN
  /\ subject = "thread" => input \in Seq(MessageInputs)
  /\ subject = "candidates" => input \in Seq(GroupAnswer)
  /\ subject = "calendar" => input \in CalendarInputs
  /\ subject = "windows" => input \in EntryInputs
  /\ subject = "archive" => input \in Seq(LetterInputs)

LEMMA ReadingIsInvariant == DecisionSpec => []ReadingOK
<1>1. DecisionInit => ReadingOK
  BY DEF DecisionInit, ReadingOK
<1>2. ReadingOK /\ [DecisionNext]_decisionVars => ReadingOK'
  <2> SUFFICES ASSUME ReadingOK, [DecisionNext]_decisionVars PROVE ReadingOK'
    OBVIOUS
  <2>1. CASE ReadNight
    <3>1. PICK listing \in Listings \cup {Unbanded}, reading \in NightInputs :
            /\ subject' = "night"
            /\ input' = [listing |-> listing, night |-> reading]
      BY <2>1 DEF ReadNight, Read
    <3> QED BY <3>1, NightsAssumption DEF ReadingOK
  <2>2. CASE UNCHANGED decisionVars
    BY <2>2 DEF decisionVars, ReadingOK
  <2>3. CASE ReadFloor
    <3>1. PICK listing \in Listings, month \in 1 .. 12,
               days \in {0, 3, 4, 7, 8, 14, 15, 29, 30, 60} :
            /\ subject' = "floor"
            /\ input' = [listing |-> listing, month |-> month, days |-> days]
      BY <2>3, Zenon DEF ReadFloor, Read
    <3> QED BY <3>1 DEF ReadingOK
  <2>4. CASE ReadSchedule
    <3>1. PICK stays \in ScheduleInputs, reachable \in BOOLEAN :
            \E stay \in stays :
              /\ subject' = "schedule"
              /\ input' = [stays |-> stays, stay |-> stay, reachable |-> reachable]
      BY <2>4 DEF ReadSchedule, Read
    <3>2. PICK stay \in stays :
            /\ subject' = "schedule"
            /\ input' = [stays |-> stays, stay |-> stay, reachable |-> reachable]
      BY <3>1
    <3> QED BY <3>2 DEF ReadingOK
  <2>5. CASE Message
    <3>1. PICK message \in MessageInputs : input' = Append(input, message)
      BY <2>5 DEF Message
    <3>2. subject \in {"nothing", "thread"} /\ subject' = "thread"
      BY <2>5 DEF Message
    <3>3. << >> \in Seq(MessageInputs)
      OBVIOUS
    <3>4. input \in Seq(MessageInputs)
      BY <3>2, <3>3 DEF ReadingOK
    <3>5. input' \in Seq(MessageInputs)
      BY <3>1, <3>4
    <3> QED BY <3>2, <3>5 DEF ReadingOK
  <2>6. CASE ReadHistory \/ ReadClock
    <3>1. subject' \in {"history", "clock"}
      BY <2>6 DEF ReadHistory, ReadClock, Read
    <3> QED BY <3>1 DEF ReadingOK
  <2>7. CASE ReadCalendar
    <3>1. subject' = "calendar" /\ input' \in CalendarInputs
      BY <2>7 DEF ReadCalendar, Read
    <3> QED BY <3>1 DEF ReadingOK
  <2>8. CASE ReadWindows
    <3>1. subject' = "windows" /\ input' \in EntryInputs
      BY <2>8 DEF ReadWindows, Read
    <3> QED BY <3>1 DEF ReadingOK
  <2>9. CASE Letter
    <3>1. PICK letter \in LetterInputs : input' = Append(input, letter)
      BY <2>9 DEF Letter
    <3>2. subject \in {"nothing", "archive"} /\ subject' = "archive"
      BY <2>9 DEF Letter
    <3>3. << >> \in Seq(LetterInputs)
      OBVIOUS
    <3>4. input \in Seq(LetterInputs)
      BY <3>2, <3>3 DEF ReadingOK
    <3>5. input' \in Seq(LetterInputs)
      BY <3>1, <3>4
    <3> QED BY <3>2, <3>5 DEF ReadingOK
  <2>10. CASE ReadCandidates
    <3>1. subject' = "candidates" /\ input' \in CandidateInputs
      BY <2>10 DEF ReadCandidates, Read
    <3>2. input' \in Seq(GroupAnswer)
      BY <3>1, CandidatesAssumption
    <3> QED BY <3>1, <3>2 DEF ReadingOK
  <2> QED
    BY <2>1, <2>2, <2>3, <2>4, <2>5, <2>6, <2>7, <2>8, <2>9, <2>10 DEF DecisionNext
<1> QED
  BY <1>1, <1>2, PTL DEF DecisionSpec

-----------------------------------------------------------------------------
(* Prices.                                                                  *)

\* Ten per cent in whole units is ten per cent.
LEMMA CapIsATenth ==
  ASSUME NEW c \in Nat, NEW p \in Nat, p <= c + MaxChange(c), c <= p + MaxChange(c)
  PROVE  10 * AbsDiff(p, c) <= c
<1>1. /\ MaxChange(c) \in Nat /\ 10 * MaxChange(c) <= c
  BY TenPerCent
<1> QED
  BY <1>1 DEF AbsDiff

\* An actionable move is within ten per cent, in whole dollars and within its
\* listing's bands, and the cap refuses nothing it has clamped, whatever was
\* read (check_guardrails, cap_safe_price).
THEOREM ProposalsKeepTheBands == DecisionSpec => []ProposalsAreBounded
<1>1. ReadingOK => CapNeverRefuses
  BY CapAgrees DEF ReadingOK, CapNeverRefuses, Advice
<1>2. ReadingOK => ActionableIsBounded
  <2> SUFFICES ASSUME ReadingOK, subject = "night", Advice.action \in {"LOWER", "RAISE"}
               PROVE  /\ input.listing \in Listings
                      /\ 10 * AbsDiff(Advice.proposed, input.night.price) <= input.night.price
                      /\ Advice.proposed % Dollar = 0
                      /\ Advice.action = "LOWER" =>
                           /\ Advice.proposed < input.night.price
                           /\ Advice.proposed >= InDollars(Bands[input.listing].hardFloor)
                      /\ Advice.action = "RAISE" =>
                           /\ Advice.proposed > input.night.price
                           /\ Advice.proposed <= InDollars(Bands[input.listing].autoRaiseCeiling)
    BY DEF ActionableIsBounded
  <2>1. input.night \in NightReading
    BY DEF ReadingOK
  <2>2. /\ input.listing \in Listings /\ input.night.price >= LeastPrice
        /\ Advice.proposed \in Nat
        /\ Advice.proposed % Dollar = 0
        /\ Advice.proposed <= input.night.price + MaxChange(input.night.price)
        /\ input.night.price <= Advice.proposed + MaxChange(input.night.price)
        /\ Advice.action = "LOWER" =>
             /\ Advice.proposed < input.night.price
             /\ Advice.proposed >= InDollars(Bands[input.listing].hardFloor)
        /\ Advice.action = "RAISE" =>
             /\ Advice.proposed > input.night.price
             /\ Advice.proposed <= InDollars(Bands[input.listing].autoRaiseCeiling)
    BY <2>1, MovesAreWithinBounds DEF Advice
  <2>3. input.night.price \in Nat
    BY <2>1 DEF NightReading
  <2>4. 10 * AbsDiff(Advice.proposed, input.night.price) <= input.night.price
    BY <2>2, <2>3, CapIsATenth
  <2> QED
    BY <2>2, <2>4
<1> QED
  BY <1>1, <1>2, ReadingIsInvariant, PTL DEF ProposalsAreBounded

\* A quotient that reaches k takes k times the divisor.
LEMMA AtLeastTimes ==
  ASSUME NEW x \in Nat, NEW y \in Nat \ {0}, x \div y >= 150
  PROVE  x >= 150 * y
<1> DEFINE d == x \div y
<1>1. d \in Nat /\ y * d <= x
  OBVIOUS
<1>2. d >= 150
  OBVIOUS
<1> HIDE DEF d
<1>3. PICK e \in Nat : d = 150 + e
  BY <1>1, <1>2
<1>4. y * d = y * 150 + y * e
  BY <1>3
<1>5. y * e >= 0
  BY <1>3
<1> QED BY <1>1, <1>4, <1>5

\* A night at least 15 per cent over its own history, to the tenth, may go down
\* by ten and stay over it.
LEMMA MaterialGap ==
  ASSUME NEW price \in Nat \ {0}, NEW adr \in Nat, adr <= price,
         Tenths(price - adr, price) >= MaterialGapTenths
  PROVE  10 * adr <= 9 * price
<1>1. 2000 * (price - adr) + price \in Nat /\ 2 * price \in Nat \ {0}
  OBVIOUS
<1>2. (2000 * (price - adr) + price) \div (2 * price) >= 150
  BY DEF Tenths, MaterialGapTenths
<1>3. 2000 * (price - adr) + price >= 150 * (2 * price)
  BY <1>1, <1>2, AtLeastTimes
<1> QED BY <1>3

\* What of a recommendation is the rule's own, when it moves the price.
LEMMA MovesAreTheRules ==
  ASSUME NEW l, NEW n, Recommend(l, n).action \in {"LOWER", "RAISE"}
  PROVE  /\ CandidateAction(n) = Recommend(l, n).action
         /\ Recommend(l, n).proposed = CandidatePrice(n, CandidateAction(n))
<1> DEFINE a == CandidateAction(n)
           refusal == IF a \in WriteActions
                        THEN Refusal(a, n.price, CandidatePrice(n, a), l, ConfidenceOf(n))
                        ELSE "NONE"
<1>1. /\ Recommend(l, n).action = IF refusal = "NONE" THEN a
                                  ELSE IF a = "REMOVE_PIN" THEN "KEEP_PIN" ELSE "HOLD"
      /\ Recommend(l, n).proposed = IF refusal = "NONE" THEN CandidatePrice(n, a) ELSE n.price
  BY DEF Recommend
<1> HIDE DEF refusal
<1> QED BY <1>1

\* An urgent reduction is over the owner's floor, over the property's own history
\* and contradicted by no market signal (rank_lower).
LEMMA UrgentLowerIsSafe ==
  ASSUME NEW l, NEW n \in NightReading,
         IsLowerOpportunity(n, Recommend(l, n)),
         LowerPriority(l, n, Recommend(l, n)) = "REVIEW_NOW"
  PROVE  /\ Recommend(l, n).proposed >= InDollars(EffectiveFloor(l, n.month, n.daysOut))
         /\ ~RaisesOnMarket(n)
         /\ Recommend(l, n).proposed >= n.adr
<1> DEFINE rec == Recommend(l, n)
<1>1. rec.action = "LOWER"
  BY DEF IsLowerOpportunity
<1>2. /\ l \in Listings /\ ~n.pinned /\ rec.proposed \in Nat
      /\ n.price <= rec.proposed + MaxChange(n.price)
  BY <1>1, MovesAreWithinBounds
<1>3. /\ n.price \in Nat \ {0} /\ n.adr \in Nat /\ n.daysOut \in Int /\ n.adr < n.price
  BY <1>1, MovedNights, MovesAreTheRules DEF NightReading, LeastPrice, Dollar
<1>4. /\ n.daysOut <= 7 /\ HistoryGapTenths(n) >= MaterialGapTenths
      /\ LowerFlags(l, n, rec) = {}
  BY DEF LowerPriority, ReviewNowDaysOut
<1>5. rec.proposed >= InDollars(EffectiveFloor(l, n.month, n.daysOut))
  <2>1. ~BelowOwnerFloor(l, n, rec)
    BY <1>4 DEF LowerFlags
  <2>2. InDollars(EffectiveFloor(l, n.month, n.daysOut)) \in Nat
    BY <1>2, FloorsAreOrdered DEF InDollars, Dollar
  <2> HIDE DEF rec
  <2> QED BY <1>2, <2>1, <2>2 DEF BelowOwnerFloor
<1>6. ~RaisesOnMarket(n)
  <2>1. ~rec.conflict
    BY <1>4 DEF LowerFlags
  <2>2. rec.conflict = (/\ ~n.pinned /\ n.daysOut <= NearTermDays
                        /\ CandidateAction(n) = "LOWER" /\ RaisesOnMarket(n))
    BY DEF Recommend
  <2>3. CandidateAction(n) = "LOWER"
    BY <1>1, MovesAreTheRules
  <2> QED BY <1>2, <1>3, <1>4, <2>1, <2>2, <2>3 DEF NearTermDays
<1>7. rec.proposed >= n.adr
  <2>1. n.adr # 0 => 10 * n.adr <= 9 * n.price
    <3>1. n.adr # 0 => Tenths(n.price - n.adr, n.price) >= MaterialGapTenths
      BY <1>4 DEF HistoryGapTenths
    <3>2. n.adr <= n.price
      BY <1>3
    <3> QED BY <1>3, <3>1, <3>2, MaterialGap
  <2>2. 10 * MaxChange(n.price) <= n.price /\ MaxChange(n.price) \in Nat
    BY <1>3, TenPerCent
  <2> HIDE DEF rec
  <2> QED BY <1>2, <1>3, <2>1, <2>2
<1> QED BY <1>5, <1>6, <1>7

\* A raise stops at the market's reference price, to the dollar, urgent or not.
LEMMA RaisesFollowTheMarket ==
  ASSUME NEW l, NEW n \in NightReading, Recommend(l, n).action = "RAISE"
  PROVE  Recommend(l, n).proposed <= Round(n.p25)
  BY MovesAreTheRules, RaiseStopsAtTheMarket

\* The rates of a history are those of the stays that took place, so leaving the
\* others out of what is read leaves them as they are (history_sample).
LEMMA CancelledIsLeftOut ==
  ASSUME NEW rows, NEW days
  PROVE  LET booked == {i \in DOMAIN rows : rows[i].status = "booked"}
         IN  SamplesFor(Restrict(rows, booked), days) = SamplesFor(rows, days)
<1> DEFINE booked == {i \in DOMAIN rows : rows[i].status = "booked"}
           kept(r) == {j \in DOMAIN r : Realized(r[j]) /\ LeadBand(r[j].lead) = LeadBand(days)}
           stays == Restrict(rows, booked)
<1>1. DOMAIN stays = booked /\ \A i \in booked : stays[i] = rows[i]
  BY DEF Restrict
<1>2. \A i \in kept(rows) : i \in booked
  BY DEF Realized
<1> HIDE DEF stays
<1>3. kept(stays) = kept(rows)
  BY <1>1, <1>2
<1>4. \A i \in kept(rows) : stays[i] = rows[i]
  BY <1>1, <1>2
<1>5. SamplesFor(stays, days) = [i \in kept(stays) |-> stays[i].revenue \div stays[i].nights]
  BY DEF SamplesFor
<1>6. SamplesFor(rows, days) = [i \in kept(rows) |-> rows[i].revenue \div rows[i].nights]
  BY DEF SamplesFor
<1> HIDE DEF kept
<1>7. SamplesFor(stays, days) = SamplesFor(rows, days)
  BY <1>3, <1>4, <1>5, <1>6
<1> QED BY <1>7 DEF stays

\* Prices follow the evidence there is: a sold night is not moved, the property's
\* own history comes before the market's, nothing urgent contradicts a signal, no
\* cancelled stay counts, and the line a person is asked at is no lower than the
\* one nothing is written under.
THEOREM EvidenceIsFollowed == DecisionSpec => []EvidenceDecides
<1> USE DEF Advice
<1>1. ReadingOK => SoldNightsKeep
  <2> SUFFICES ASSUME ReadingOK, subject = "night", ~input.night.open
               PROVE  Recommend(input.listing, input.night).action \notin WriteActions
    BY DEF SoldNightsKeep, IsActionable
  <2>1. CandidateAction(input.night) \in {"KEEP_PIN", "HOLD"}
    BY DEF CandidateAction, PinnedAction
  <2> QED BY <2>1 DEF Recommend, WriteActions
<1>2. ReadingOK => HistoryPreemptsMarket
  <2> SUFFICES ASSUME ReadingOK, subject = "night",
                      input.night.daysOut <= NearTermDays, LowersOnHistory(input.night)
               PROVE  Recommend(input.listing, input.night).action # "RAISE"
    BY DEF HistoryPreemptsMarket, LowersOnHistory
  <2>1. CandidateAction(input.night) # "RAISE"
    BY DEF CandidateAction, PinnedAction, NearTermAction
  <2> QED BY <2>1, MovesAreTheRules
<1>3. ReadingOK => UrgentIsSafe
  <2> SUFFICES ASSUME ReadingOK, subject = "night"
               PROVE  UrgentIsSafe
    BY DEF UrgentIsSafe
  <2>1. input.night \in NightReading
    BY DEF ReadingOK
  <2>2. ASSUME IsOpportunity(input.night, Advice),
               RaisePriority(input.night, Advice) = "REVIEW_NOW"
        PROVE  /\ input.night.demand \in StrongerDemand
               /\ Advice.proposed <= Round(input.night.p25)
    <3>1. input.night.demand \in StrongerDemand
      BY <2>2, Zenon DEF RaisePriority, HasDemand
    <3>2. Advice.action = "RAISE"
      BY <2>2 DEF IsOpportunity
    <3> QED BY <2>1, <3>1, <3>2, RaisesFollowTheMarket
  <2> QED BY <2>1, <2>2, UrgentLowerIsSafe DEF UrgentIsSafe
<1>4. CancelledIsNoEvidence
  BY CancelledIsLeftOut DEF CancelledIsNoEvidence
<1>5. ReadingOK => FloorOrder
  BY FloorsAreOrdered DEF ReadingOK, FloorOrder
<1> QED
  BY <1>1, <1>2, <1>3, <1>4, <1>5, ReadingIsInvariant, PTL DEF EvidenceDecides

-----------------------------------------------------------------------------
(* Conversations.                                                           *)

\* A clock reading is a minute of the day or no time at all (to_minutes).
LEMMA MinutesOfTheDay ==
  ASSUME NEW reading
  PROVE  ToMinutes(reading) \in -1 .. 1439
<1> DEFINE h == reading.hour
           m == reading.minute
           half == reading.meridiem
<1>1. ToMinutes(reading) =
        IF m \notin 0 .. 59 THEN -1
        ELSE IF half # "none" /\ h \notin 1 .. 12 THEN -1
        ELSE IF half = "p" THEN ((h % 12) + 12) * 60 + m
        ELSE IF half = "a" THEN (h % 12) * 60 + m
        ELSE IF h \in 10 .. 23 THEN h * 60 + m
        ELSE IF h \in 1 .. 9 THEN (h + 12) * 60 + m
        ELSE -1
  BY DEF ToMinutes
<1> HIDE DEF h, m, half
<1>2. CASE m \in 0 .. 59 /\ h \in 1 .. 23
  <2>1. h % 12 \in 0 .. 11 /\ h \in 1 .. 23 /\ m \in 0 .. 59
    BY <1>2
  <2> DEFINE hour == h % 12
  <2>2. hour \in 0 .. 11
    BY <2>1
  <2> HIDE DEF hour
  <2>3. /\ (hour + 12) * 60 + m \in 0 .. 1439 /\ hour * 60 + m \in 0 .. 1439
    BY <2>1, <2>2
  <2>4. /\ h \in 10 .. 23 => h * 60 + m \in 0 .. 1439
        /\ h \in 1 .. 9 => (h + 12) * 60 + m \in 0 .. 1439
    BY <2>1
  <2> DEFINE after  == (hour + 12) * 60 + m
             before == hour * 60 + m
             plain  == h * 60 + m
             later  == (h + 12) * 60 + m
  <2>5. ToMinutes(reading) \in {-1, after, before}
        \/ (h \in 10 .. 23 /\ ToMinutes(reading) = plain)
        \/ (h \in 1 .. 9 /\ ToMinutes(reading) = later)
    <3> HIDE DEF after, before, plain, later
    <3>1. ToMinutes(reading) =
            IF half # "none" /\ h \notin 1 .. 12 THEN -1
            ELSE IF half = "p" THEN after
            ELSE IF half = "a" THEN before
            ELSE IF h \in 10 .. 23 THEN plain
            ELSE IF h \in 1 .. 9 THEN later
            ELSE -1
      BY <1>1, <2>1, Zenon DEF hour, after, before, plain, later
    <3>2. CASE half = "p" \/ half = "a" \/ (half # "none" /\ h \notin 1 .. 12)
      BY <3>1, <3>2
    <3>3. CASE ~(half = "p" \/ half = "a" \/ (half # "none" /\ h \notin 1 .. 12))
      BY <3>1, <3>3, Zenon
    <3> QED BY <3>2, <3>3
  <2> QED BY <2>3, <2>4, <2>5
<1>3. CASE ~(m \in 0 .. 59 /\ h \in 1 .. 23)
  <2>1. h \in 10 .. 23 \/ h \in 1 .. 9 \/ h \in 1 .. 12 => h \in 1 .. 23
    OBVIOUS
  <2>2. ToMinutes(reading) = -1
    BY <1>1, <1>3, <2>1
  <2> QED BY <2>2
<1> QED BY <1>2, <1>3

\* So a message names a latest time to leave, or -1 (latest_checkout_time).
LEMMA LatestIsATime ==
  ASSUME NEW message
  PROVE  LatestCheckoutTime(message) \in Int
<1> DEFINE leaving == {s \in message.sentences : s.leaving /\ ~s.arriving}
           times   == UNION {{ToMinutes(r) : r \in s.readings} : s \in leaving}
           noon    == IF \E s \in leaving : s.noon THEN {Noon} ELSE {}
           all     == times \cup noon \cup {-1}
<1>1. times \subseteq -1 .. 1439
  <2>1. ASSUME NEW t \in times PROVE t \in -1 .. 1439
    <3>1. PICK s \in leaving : t \in {ToMinutes(r) : r \in s.readings}
      BY <2>1, Zenon
    <3>2. PICK r \in s.readings : t = ToMinutes(r)
      BY <3>1, Zenon
    <3>3. ToMinutes(r) \in -1 .. 1439
      BY MinutesOfTheDay
    <3> QED BY <3>2, <3>3
  <2> HIDE DEF times
  <2> QED BY <2>1
<1>2. noon \subseteq -1 .. 1439
  BY DEF Noon
<1>3. LatestCheckoutTime(message) = Max(all)
  BY DEF LatestCheckoutTime
<1> HIDE DEF times, noon
<1>4. all \in SUBSET (-1 .. 1439) /\ all # {}
  BY <1>1, <1>2
<1> HIDE DEF all
<1>5. Max(all) \in Int
  <2> DEFINE first == -1
             last  == 1439
  <2>1. first \in Int /\ last \in Int /\ all \in SUBSET (first .. last) /\ all # {}
    BY <1>4
  <2> HIDE DEF first, last
  <2> QED BY <2>1, MaxIsGreatest, Zenon
<1> QED BY <1>3, <1>5

\* What no reply of ours follows is unanswered (unanswered_renter_messages).
LEMMA OpenIsUnanswered ==
  ASSUME NEW S, NEW thread \in Seq(S), NEW m \in OpenMessages(thread)
  PROVE  /\ m \in Unanswered(thread) /\ m.from = "Renter"
         /\ \E i \in DOMAIN thread : thread[i] = m
<1> DEFINE ours == {i \in DOMAIN thread : thread[i].from = "Owner"} \cup {0}
<1>1. DOMAIN thread = 1 .. Len(thread) /\ Len(thread) \in Nat
  OBVIOUS
<1>2. ours \in SUBSET (0 .. Len(thread)) /\ ours # {}
  BY <1>1
<1>3. Max(ours) \in ours
  <2>1. 0 \in Int /\ Len(thread) \in Int
    BY <1>1
  <2> HIDE DEF ours
  <2> QED BY <1>2, <2>1, MaxIsGreatest, Zenon
<1>4. PICK i \in DOMAIN thread :
        /\ thread[i] = m /\ m.from = "Renter"
        /\ \A j \in DOMAIN thread : j > i => thread[j].from = "Renter"
  BY DEF OpenMessages
<1>5. i > Max(ours)
  <2>1. CASE Max(ours) = 0
    BY <1>1, <2>1
  <2>2. CASE Max(ours) \in DOMAIN thread /\ thread[Max(ours)].from = "Owner"
    <3> DEFINE k == Max(ours)
    <3>1. k \in DOMAIN thread /\ thread[k].from = "Owner"
      BY <2>2
    <3> HIDE DEF k
    <3>2. ~(k > i) /\ k # i
      BY <1>4, <3>1
    <3>3. i > k
      BY <1>1, <3>1, <3>2
    <3> QED BY <3>3 DEF k
  <2> QED BY <1>3, <2>1, <2>2
<1>6. LastOwner(thread) = Max(ours)
  BY DEF LastOwner
<1> HIDE DEF ours
<1> QED BY <1>4, <1>5, <1>6 DEF Unanswered

\* No reason stands only where none was given.
LEMMA NoReasonGiven ==
  ASSUME NEW a, NEW b, NEW c, NEW d, LastReason(<<a, b, c, d>>) = "none"
  PROVE  a = "none" /\ b = "none" /\ c = "none" /\ d = "none"
<1> DEFINE reasons == <<a, b, c, d>>
           given   == {i \in DOMAIN reasons : reasons[i] # "none"}
<1>1. DOMAIN reasons = 1 .. 4
  OBVIOUS
<1>2. LastReason(reasons) = IF given = {} THEN "none" ELSE reasons[Max(given)]
  BY DEF LastReason
<1>3. given = {}
  <2> SUFFICES ASSUME given # {} PROVE FALSE
    OBVIOUS
  <2>1. given \in SUBSET (1 .. 4)
    BY <1>1
  <2>2. Max(given) \in given
    <3>1. 1 \in Int /\ 4 \in Int
      OBVIOUS
    <3> HIDE DEF given
    <3> QED BY <2>1, <3>1, MaxIsGreatest, Zenon
  <2>3. reasons[Max(given)] # "none"
    BY <2>2
  <2> HIDE DEF given, reasons
  <2> QED BY <1>2, <2>3 DEF reasons
<1>4. reasons[1] = "none" /\ reasons[2] = "none" /\ reasons[3] = "none" /\ reasons[4] = "none"
  BY <1>1, <1>3
<1> QED BY <1>4

\* Where nothing escalates, nothing open asks past the ceiling, for an extension
\* or for an early arrival that no departure rules out, and no guest accepts an
\* offer or asks how a discount works (process).
LEMMA NothingEscalates ==
  ASSUME NEW S, NEW thread \in Seq(S), NEW cancelled, NEW checkout,
         EscalationReason(thread, cancelled, checkout) = "none"
  PROVE  \A m \in OpenMessages(thread) :
           /\ LatestCheckoutTime(m) <= CeilingMinutes
           /\ "asks_extension" \notin m.marks
           /\ "mechanics" \notin m.marks
           /\ "asks_early" \in m.marks => checkout = "yes"
           /\ "accepts" \in m.marks => cancelled # "yes"
<1> DEFINE state   == Analysis(thread)
           outcome == CancellationOutcome(cancelled, thread)
           late    == IF state.beyond THEN "late_checkout" ELSE "none"
           early   == IF state.early /\ EarlyNeedsOwner(checkout)
                        THEN EarlyVerdict(checkout) ELSE "none"
           longer  == IF state.extension THEN "extension" ELSE "none"
           offer   == IF outcome.escalates THEN outcome.why ELSE "none"
<1>1. late = "none" /\ early = "none" /\ longer = "none" /\ offer = "none"
  <2>1. LastReason(<<late, early, longer, offer>>) = "none"
    BY DEF EscalationReason
  <2> HIDE DEF late, early, longer, offer
  <2> QED BY <2>1, NoReasonGiven
<1>2. ~state.beyond /\ ~state.extension /\ (state.early => checkout = "yes")
  BY <1>1 DEF EarlyNeedsOwner, EarlyVerdict
<1>3. ~outcome.escalates
  BY <1>1 DEF CancellationOutcome
<1>4. /\ "mechanics" \notin GuestMarks(thread)
      /\ "accepts" \in GuestMarks(thread) => cancelled # "yes"
  BY <1>3 DEF CancellationOutcome
<1>5. /\ \A m \in Unanswered(thread) : ~ExceedsCeiling(m) /\ "asks_extension" \notin m.marks
      /\ \A m \in Unanswered(thread) : "asks_early" \in m.marks => checkout = "yes"
  BY <1>2 DEF Analysis
<1> HIDE DEF state, outcome, late, early, longer, offer
<1>6. ASSUME NEW m \in OpenMessages(thread)
      PROVE  /\ LatestCheckoutTime(m) <= CeilingMinutes
             /\ "asks_extension" \notin m.marks
             /\ "mechanics" \notin m.marks
             /\ "asks_early" \in m.marks => checkout = "yes"
             /\ "accepts" \in m.marks => cancelled # "yes"
  <2>1. m \in Unanswered(thread)
    BY OpenIsUnanswered
  <2>2. \A mark \in m.marks : mark \in GuestMarks(thread)
    BY OpenIsUnanswered DEF GuestMarks
  <2>3. LatestCheckoutTime(m) <= CeilingMinutes
    BY <1>5, <2>1, LatestIsATime DEF ExceedsCeiling, CeilingMinutes
  <2> QED BY <1>4, <1>5, <2>1, <2>2, <2>3
<1> QED BY <1>6

\* What one refresh calls ready was escalated by nothing and read before it was
\* kept (process, _draft).
LEMMA ReadyWasRead ==
  ASSUME NEW thread, NEW cancelled, NEW checkout, NEW force, NEW answer,
         ProcessOutcome(thread, cancelled, checkout, force, answer).status = "DRAFT_READY"
  PROVE  /\ EscalationReason(thread, cancelled, checkout) = "none"
         /\ ~ExceedsCeiling(answer) /\ ~DraftViolatesPolicy(answer)
<1> DEFINE reason == EscalationReason(thread, cancelled, checkout)
<1>1. Drafted(thread, reason # "none", answer) = "DRAFT_READY"
  BY DEF ProcessOutcome, Recorded
<1> HIDE DEF reason
<1>2. reason = "none" /\ ~ExceedsCeiling(answer) /\ ~DraftViolatesPolicy(answer)
  BY <1>1 DEF Drafted
<1> QED BY <1>2 DEF reason

\* A thread that needs a reply is never passed over, by a refresh or by the draft
\* for an enquiry, whatever the model proposes.
LEMMA SilenceIsDecided ==
  ASSUME NEW thread, NEW cancelled, NEW checkout, NEW force, NEW answer,
         SuggestedOutcome(thread) = "reply_needed"
  PROVE  /\ ProcessOutcome(thread, cancelled, checkout, force, answer).status # "NO_REPLY_NEEDED"
         /\ EnquiryDraft(thread, TRUE, answer).detail # "nothing_to_say"
<1> DEFINE reason == EscalationReason(thread, cancelled, checkout)
<1>1. Drafted(thread, reason # "none", answer) # "NO_REPLY_NEEDED"
  BY DEF Drafted
<1>2. ProcessOutcome(thread, cancelled, checkout, force, answer).status # "NO_REPLY_NEEDED"
  BY <1>1 DEF ProcessOutcome, Recorded
<1>3. EnquiryDraft(thread, TRUE, answer).detail # "nothing_to_say"
  BY DEF EnquiryDraft
<1> QED BY <1>2, <1>3

\* Only a thread in which nothing open asks for something needs no reply.
LEMMA NothingIsAsked ==
  ASSUME NEW S, NEW thread \in Seq(S), SuggestedOutcome(thread) # "reply_needed",
         NEW m \in OpenMessages(thread)
  PROVE  m.marks \cap ActionableMarks = {}
<1>1. m \in Unanswered(thread)
  BY OpenIsUnanswered
<1>2. IsClosingMessage(m)
  BY <1>1 DEF SuggestedOutcome
<1> QED BY <1>2 DEF IsClosingMessage, ActionableSignals

\* The offer is part of a guidance where the stay is cancelled and no message of
\* ours has made it (outcome_for).
LEMMA OfferIsNew ==
  ASSUME NEW thread, NEW approved, NEW checkout, NEW cancelled,
         ReplyGuidance(thread, approved, checkout, cancelled).offer
  PROVE  cancelled = "yes" /\ ~OfferAlreadyMade(thread)
<1>1. CancellationOutcome(cancelled, thread).offer
  BY DEF ReplyGuidance
<1> QED BY <1>1 DEF CancellationOutcome

\* A reading of the dial is the time of day it is said to be (to_minutes).
LEMMA DialIsRead ==
  ASSUME NEW reading, reading.minute \in 0 .. 59, reading.hour \in 1 .. 12
  PROVE  /\ ToMinutes(reading) % 720 = ((reading.hour % 12) * 60) + reading.minute
         /\ reading.meridiem = "a" => ToMinutes(reading) \in 0 .. 719
         /\ reading.meridiem = "p" => ToMinutes(reading) \in 720 .. 1439
         /\ reading.meridiem = "none" => ToMinutes(reading) \in 600 .. 1319
<1> DEFINE h == reading.hour
           m == reading.minute
           half == reading.meridiem
           t == ToMinutes(reading)
<1>1. t = IF half = "p" THEN ((h % 12) + 12) * 60 + m
          ELSE IF half = "a" THEN (h % 12) * 60 + m
          ELSE IF h \in 10 .. 23 THEN h * 60 + m
          ELSE (h + 12) * 60 + m
  BY DEF ToMinutes
<1>2. h % 12 = IF h = 12 THEN 0 ELSE h
  OBVIOUS
<1> HIDE DEF h, m, half, t
<1>3. h \in 1 .. 12 /\ m \in 0 .. 59
  BY DEF h, m
<1>4. t \in {(h % 12) * 60 + m, (h % 12) * 60 + m + 720}
  BY <1>1, <1>2, <1>3
<1>5. t % 720 = (h % 12) * 60 + m
  <2>1. (h % 12) * 60 + m \in 0 .. 719
    BY <1>2, <1>3
  <2> DEFINE x == (h % 12) * 60 + m
  <2>2. x \in 0 .. 719 /\ (t = x \/ t = x + 720)
    BY <1>4, <2>1
  <2> HIDE DEF x
  <2>3. t % 720 = x
    BY <2>2
  <2> QED BY <2>3 DEF x
<1>6. /\ half = "a" => t \in 0 .. 719
      /\ half = "p" => t \in 720 .. 1439
      /\ half = "none" => t \in 600 .. 1319
  <2>1. half = "a" => t \in 0 .. 719
    BY <1>1, <1>2, <1>3
  <2>2. half = "p" => t \in 720 .. 1439
    BY <1>1, <1>2, <1>3
  <2>3. half = "none" => t \in 600 .. 1319
    <3>1. CASE h \in 10 .. 12
      BY <1>1, <1>3, <3>1
    <3>2. CASE h \in 1 .. 9
      BY <1>1, <1>3, <3>2
    <3> QED BY <1>3, <3>1, <3>2
  <2> QED BY <2>1, <2>2, <2>3
<1> QED BY <1>5, <1>6 DEF h, m, half, t

\* What is sent unread is within the owner's policies, silence is kept only where
\* nobody asks, the offer is made to a guest who cancelled and once, an early
\* arrival is declined for a departure that day, and times are read as they are
\* meant: for every thread, schedule and clock reading.
THEOREM PoliciesAreFollowed == DecisionSpec => []StaysFollowPolicy
<1>1. ReadingOK => ReadyIsWithinPolicy
  <2> SUFFICES ASSUME ReadingOK, subject = "thread",
                      NEW cancelled \in CancelledStates, NEW checkout \in CheckoutStates,
                      NEW force \in BOOLEAN, NEW answer \in AnswerInputs,
                      ProcessOutcome(input, cancelled, checkout, force, answer).status
                        = "DRAFT_READY"
               PROVE  /\ LatestCheckoutTime(answer) <= CeilingMinutes
                      /\ answer.marks \cap {"other_discount", "mechanics"} = {}
                      /\ \A m \in OpenMessages(input) :
                           /\ LatestCheckoutTime(m) <= CeilingMinutes
                           /\ "asks_extension" \notin m.marks
                           /\ "mechanics" \notin m.marks
                           /\ "asks_early" \in m.marks => checkout = "yes"
                           /\ "accepts" \in m.marks => cancelled # "yes"
    BY DEF ReadyIsWithinPolicy
  <2>1. input \in Seq(MessageInputs)
    BY DEF ReadingOK
  <2>2. /\ EscalationReason(input, cancelled, checkout) = "none"
        /\ ~ExceedsCeiling(answer) /\ ~DraftViolatesPolicy(answer)
    BY ReadyWasRead
  <2>3. LatestCheckoutTime(answer) <= CeilingMinutes
    BY <2>2, LatestIsATime DEF ExceedsCeiling, CeilingMinutes
  <2>4. answer.marks \cap {"other_discount", "mechanics"} = {}
    BY <2>2 DEF DraftViolatesPolicy
  <2> QED BY <2>1, <2>2, <2>3, <2>4, NothingEscalates
<1>2. ReadingOK => SilenceIsEarned
  <2> SUFFICES ASSUME ReadingOK, subject = "thread",
                      NEW cancelled \in CancelledStates, NEW checkout \in CheckoutStates,
                      NEW force \in BOOLEAN, NEW answer \in AnswerInputs,
                      \/ ProcessOutcome(input, cancelled, checkout, force, answer).status
                           = "NO_REPLY_NEEDED"
                      \/ EnquiryDraft(input, TRUE, answer).detail = "nothing_to_say",
                      NEW m \in OpenMessages(input)
               PROVE  m.marks \cap ActionableMarks = {}
    BY DEF SilenceIsEarned
  <2>1. input \in Seq(MessageInputs)
    BY DEF ReadingOK
  <2>2. SuggestedOutcome(input) # "reply_needed"
    BY SilenceIsDecided
  <2> QED BY <2>1, <2>2, NothingIsAsked
<1>3. OfferIsMadeOnce
  BY OfferIsNew DEF OfferIsMadeOnce, OfferAlreadyMade
<1>4. ReadingOK => DeclinedForACause
  <2> SUFFICES ASSUME ReadingOK, subject = "schedule"
               PROVE  EarlyVerdict(SameDayCheckout(input.stays, input.stay, input.reachable))
                        = "declined" <=>
                        /\ input.reachable
                        /\ input.stay.arrival >= 0
                        /\ \E s \in input.stays :
                             /\ s # input.stay /\ s.property = input.stay.property
                             /\ s.departure = input.stay.arrival
                             /\ s.status = "Booked"
    BY DEF DeclinedForACause
  <2>1. /\ input.stay \in input.stays /\ input.reachable \in BOOLEAN
        /\ input.stay.arrival \in Int
        /\ \A s \in input.stays : s.id = input.stay.id => s = input.stay
    BY SchedulesAssumption DEF ReadingOK
  <2>2. SameDayCheckout(input.stays, input.stay, input.reachable) = "yes" <=>
          /\ ~(input.stay.arrival < 0) /\ input.reachable
          /\ \E s \in DeparturesOn(input.stays, input.stay.property, input.stay.arrival) :
               s.id # input.stay.id
    BY DEF SameDayCheckout
  <2>3. \A checkout : EarlyVerdict(checkout) = "declined" <=> checkout = "yes"
    BY DEF EarlyVerdict
  <2>4. ~(input.stay.arrival < 0) <=> input.stay.arrival >= 0
    BY <2>1
  <2>5. (\E s \in DeparturesOn(input.stays, input.stay.property, input.stay.arrival) :
           s.id # input.stay.id)
        <=> \E s \in input.stays : /\ s # input.stay /\ s.property = input.stay.property
                                   /\ s.departure = input.stay.arrival
                                   /\ s.status = "Booked"
    BY <2>1 DEF DeparturesOn
  <2> QED BY <2>2, <2>3, <2>4, <2>5
<1>5. ClockIsRead
  BY DialIsRead DEF ClockIsRead
<1> QED
  BY <1>1, <1>2, <1>3, <1>4, <1>5, ReadingIsInvariant, PTL DEF StaysFollowPolicy

-----------------------------------------------------------------------------
(* Recursion.                                                               *)


\* f is what n steps make of a base, one after the other.
Iterates(f, n, base, step) ==
  f[0] = base /\ \A i \in 1 .. n : f[i] = step[<<i, f[i - 1]>>]

\* A recursion over 0 .. n whose step is a function has its function.
LEMMA RecursionExists ==
  ASSUME NEW S, NEW base \in S, NEW n \in Nat, NEW step \in [(0 .. n) \X S -> S]
  PROVE  \E f \in [0 .. n -> S] : Iterates(f, n, base, step)
<1> DEFINE Upto(k, f) == /\ f \in [0 .. k -> S] /\ f[0] = base
                         /\ \A i \in 1 .. k : f[i] = step[<<i, f[i - 1]>>]
           bad == {k \in Nat : k <= n /\ ~\E f : Upto(k, f)}
<1>1. \E f : Upto(0, f)
  <2>1. Upto(0, [i \in 0 .. 0 |-> base])
    OBVIOUS
  <2> HIDE DEF Upto
  <2> QED BY <2>1
<1>2. ASSUME NEW k \in Nat, k + 1 <= n, \E f : Upto(k, f)
      PROVE  \E f : Upto(k + 1, f)
  <2>1. PICK f : Upto(k, f)
    BY <1>2
  <2> DEFINE g == [i \in 0 .. k + 1 |-> IF i = k + 1 THEN step[<<k + 1, f[k]>>] ELSE f[i]]
  <2>2. f \in [0 .. k -> S] /\ f[0] = base /\ \A i \in 1 .. k : f[i] = step[<<i, f[i - 1]>>]
    BY <2>1
  <2>3. step[<<k + 1, f[k]>>] \in S
    BY <1>2, <2>2
  <2>4. g \in [0 .. k + 1 -> S]
    BY <2>2, <2>3
  <2>5. g[0] = base /\ \A i \in 0 .. k : g[i] = f[i]
    BY <2>2
  <2>6. g[k + 1] = step[<<k + 1, f[k]>>]
    OBVIOUS
  <2> HIDE DEF g
  <2>7. ASSUME NEW i \in 1 .. k + 1 PROVE g[i] = step[<<i, g[i - 1]>>]
    <3>1. CASE i = k + 1
      BY <2>5, <2>6, <3>1
    <3>2. CASE i \in 1 .. k
      BY <2>2, <2>5, <3>2
    <3> QED BY <3>1, <3>2
  <2>8. Upto(k + 1, g)
    BY <2>4, <2>5, <2>7, <2>2
  <2> HIDE DEF Upto
  <2> QED BY <2>8
<1>3. bad = {}
  <2> HIDE DEF Upto
  <2> SUFFICES ASSUME bad # {} PROVE FALSE
    OBVIOUS
  <2>1. PICK m \in bad : \A k \in bad : m <= k
    BY LeastOfNaturals
  <2>2. m # 0
    BY <1>1
  <2>3. m - 1 \in Nat /\ m - 1 <= n /\ m - 1 \notin bad
    BY <2>1, <2>2
  <2>4. \E f : Upto(m - 1, f)
    BY <2>3
  <2>5. \E f : Upto((m - 1) + 1, f)
    BY <1>2, <2>3, <2>4, <2>1
  <2> QED BY <2>5, <2>1
<1>4. \E f : Upto(n, f)
  <2> HIDE DEF Upto
  <2> QED BY <1>3
<1> QED BY <1>4 DEF Iterates

-----------------------------------------------------------------------------
(* Calendars.                                                               *)

\* What the loop of runs_of carries.
Runs == [first : Int, last : Int]
Loops == [found : Seq(Runs), current : Runs]

\* One step of the loop keeps its shape.
LEMMA LoopsAreClosed ==
  ASSUME NEW loop \in Loops, NEW reading, NEW d \in Int, NEW state
  PROVE  AfterNight(loop, reading, d, state) \in Loops
<1>1. loop.found \in Seq(Runs) /\ loop.current \in Runs
  BY DEF Loops
<1>2. NoRun \in Runs /\ OneDay(d) \in Runs
  BY DEF NoRun, OneDay, Runs
<1>3. Closed(loop) \in Seq(Runs)
  BY <1>1 DEF Closed
<1>4. CASE reading.state = state /\ GoesOn(loop.current, d)
  <2> DEFINE first == IF loop.current = NoRun THEN d ELSE loop.current.first
  <2>1. first \in Int
    BY <1>1 DEF Runs
  <2>2. AfterNight(loop, reading, d, state) =
          [found |-> loop.found, current |-> [first |-> first, last |-> d]]
    BY <1>4 DEF AfterNight
  <2> HIDE DEF first
  <2> QED BY <1>1, <2>1, <2>2 DEF Loops, Runs
<1>5. CASE ~(reading.state = state /\ GoesOn(loop.current, d))
  <2> DEFINE current == IF reading.state = state THEN OneDay(d) ELSE NoRun
  <2>1. current \in Runs
    BY <1>2
  <2>2. AfterNight(loop, reading, d, state) = [found |-> Closed(loop), current |-> current]
    BY <1>5 DEF AfterNight
  <2> HIDE DEF current
  <2> QED BY <1>3, <2>1, <2>2 DEF Loops
<1> QED BY <1>4, <1>5

\* The loop of runs_of, night by night.
LEMMA LoopUnfolds ==
  ASSUME NEW nights, NEW state
  PROVE  LET before == LoopBefore(nights, state)
         IN  /\ before \in [0 .. Horizon -> Loops]
             /\ before[0] = [found |-> << >>, current |-> NoRun]
             /\ \A d \in 1 .. Horizon :
                  before[d] = IF d - 1 \in DOMAIN nights
                              THEN AfterNight(before[d - 1], nights[d - 1], d - 1, state)
                              ELSE before[d - 1]
<1> DEFINE base == [found |-> << >>, current |-> NoRun]
           Next1(d, loop) == IF d - 1 \in DOMAIN nights
                               THEN AfterNight(loop, nights[d - 1], d - 1, state) ELSE loop
           step == [p \in (0 .. Horizon) \X Loops |-> Next1(p[1], p[2])]
           Unfolds(f) == f = [d \in 0 .. Horizon |-> IF d = 0 THEN base ELSE Next1(d, f[d - 1])]
<1>1. base \in Loops
  BY DEF Loops, Runs, NoRun
<1>2. ASSUME NEW d \in 0 .. Horizon, NEW loop \in Loops PROVE Next1(d, loop) \in Loops
  BY LoopsAreClosed, HorizonAssumption
<1>3. step \in [(0 .. Horizon) \X Loops -> Loops]
  <2> HIDE DEF Next1
  <2> QED BY <1>2
<1>4. \A d \in 0 .. Horizon, loop \in Loops : step[<<d, loop>>] = Next1(d, loop)
  <2> HIDE DEF Next1
  <2> QED OBVIOUS
<1>5. LoopBefore(nights, state) = CHOOSE f : Unfolds(f)
  BY DEF LoopBefore
<1> HIDE DEF base, Next1, step
<1>6. Horizon \in Nat
  BY HorizonAssumption
<1>7. PICK f \in [0 .. Horizon -> Loops] : Iterates(f, Horizon, base, step)
  BY <1>1, <1>3, <1>6, RecursionExists, Zenon
<1>8. ASSUME NEW d \in 1 .. Horizon PROVE f[d] = Next1(d, f[d - 1])
  <2>1. f[d - 1] \in Loops /\ d \in 0 .. Horizon
    BY <1>6
  <2>2. step[<<d, f[d - 1]>>] = Next1(d, f[d - 1])
    BY <1>4, <2>1
  <2> QED BY <1>7, <2>2 DEF Iterates
<1>9. Unfolds(f)
  <2>1. ASSUME NEW d \in 0 .. Horizon
        PROVE  f[d] = IF d = 0 THEN base ELSE Next1(d, f[d - 1])
    <3>1. CASE d = 0
      BY <1>7, <3>1 DEF Iterates
    <3>2. CASE d \in 1 .. Horizon
      BY <1>8, <3>2
    <3> QED BY <1>6, <3>1, <3>2
  <2> QED BY <2>1
<1> DEFINE g == LoopBefore(nights, state)
<1>10. Unfolds(g)
  <2> HIDE DEF Unfolds
  <2> QED BY <1>5, <1>9, Zenon
<1> HIDE DEF g
<1>11. g = [d \in 0 .. Horizon |-> IF d = 0 THEN base ELSE Next1(d, g[d - 1])]
  BY <1>10, Zenon
<1>12. g[0] = base /\ \A d \in 1 .. Horizon : g[d] = Next1(d, g[d - 1])
  BY <1>6, <1>11
<1>13. \A d \in 0 .. Horizon : g[d] \in Loops
  <2> DEFINE bad == {d \in Nat : d <= Horizon /\ g[d] \notin Loops}
  <2> SUFFICES ASSUME bad # {} PROVE FALSE
    BY <1>6
  <2>1. PICK m \in bad : \A d \in bad : m <= d
    BY LeastOfNaturals
  <2>2. m # 0
    BY <1>1, <1>12, <2>1
  <2>3. m \in 1 .. Horizon /\ m - 1 \in 0 .. Horizon /\ m - 1 \notin bad
    BY <1>6, <2>1, <2>2
  <2>4. g[m - 1] \in Loops
    BY <2>3
  <2>5. Next1(m, g[m - 1]) \in Loops
    BY <1>2, <2>3, <2>4
  <2> QED BY <1>12, <2>1, <2>3, <2>5
<1>14. g \in [0 .. Horizon -> Loops]
  BY <1>11, <1>13
<1> QED BY <1>12, <1>14 DEF g, base, Next1

\* The days before d whose night is in a state.
DaysBefore(nights, state, d) == {e \in DOMAIN nights : e < d /\ nights[e].state = state}

\* The days of a run are days of a set, and it goes no further either way.
MaximalIn(run, days) ==
  /\ run.first <= run.last
  /\ run.first .. run.last \subseteq days
  /\ run.first - 1 \notin days /\ run.last + 1 \notin days

\* The run in hand: so far it goes no further, and no night came after it.
InHand(nights, days, d, run) ==
  \/ run = NoRun
  \/ /\ run.first <= run.last /\ run.last < d
     /\ run.first .. run.last \subseteq days /\ run.first - 1 \notin days
     /\ \A e \in run.last + 1 .. d - 1 : e \notin DOMAIN nights

\* What the loop has found are the maximal runs of the days before d but the one in
\* hand, in date order.
LoopOK(nights, state, d, loop) ==
  LET days == DaysBefore(nights, state, d)
  IN  /\ \A i \in DOMAIN loop.found :
           MaximalIn(loop.found[i], days) /\ loop.found[i].last + 1 < d
      /\ InHand(nights, days, d, loop.current)
      /\ \A e \in days :
           \/ e \in loop.current.first .. loop.current.last
           \/ \E i \in DOMAIN loop.found : e \in loop.found[i].first .. loop.found[i].last
      /\ \A i, j \in DOMAIN loop.found : i < j => loop.found[i].first < loop.found[j].first
      /\ loop.current # NoRun =>
           \A i \in DOMAIN loop.found : loop.found[i].first < loop.current.first
      /\ d - 1 \in days => loop.current.last = d - 1

\* One more night keeps it: it ends the run in hand, goes on it, or begins one.
LEMMA LoopStaysOK ==
  ASSUME NEW nights, DOMAIN nights \subseteq Days, NEW state, NEW d \in Days,
         NEW loop \in Loops, LoopOK(nights, state, d, loop)
  PROVE  LoopOK(nights, state, d + 1,
                IF d \in DOMAIN nights THEN AfterNight(loop, nights[d], d, state) ELSE loop)
<1> DEFINE days  == DaysBefore(nights, state, d)
           after == DaysBefore(nights, state, d + 1)
           found == loop.found
           current == loop.current
<1>1. d \in Nat /\ days \subseteq Nat /\ after \subseteq Nat
  BY HorizonAssumption DEF Days, DaysBefore
<1>2. /\ found \in Seq(Runs) /\ current \in Runs
      /\ current.first \in Int /\ current.last \in Int
      /\ \A i \in DOMAIN found : found[i].first \in Int /\ found[i].last \in Int
  <2>1. found \in Seq(Runs) /\ current \in Runs
    BY DEF Loops
  <2>2. \A i \in DOMAIN found : found[i] \in Runs
    BY <2>1
  <2> QED BY <2>1, <2>2 DEF Runs
<1>3. /\ \A i \in DOMAIN found : MaximalIn(found[i], days) /\ found[i].last + 1 < d
      /\ InHand(nights, days, d, current)
      /\ \A e \in days :
           \/ e \in current.first .. current.last
           \/ \E i \in DOMAIN found : e \in found[i].first .. found[i].last
      /\ \A i, j \in DOMAIN found : i < j => found[i].first < found[j].first
      /\ current # NoRun => \A i \in DOMAIN found : found[i].first < current.first
      /\ d - 1 \in days => current.last = d - 1
  BY DEF LoopOK, after, found, current
<1>4. \A e \in days : e < d
  BY DEF DaysBefore
<1>5. NoRun.first = 0 /\ NoRun.last = -1
  BY DEF NoRun
<1> HIDE DEF days, after, found, current
<1>6. CASE d \notin DOMAIN nights
  <2>1. after = days
    BY <1>1, <1>6, HorizonAssumption DEF DaysBefore, Days, days, after
  <2>2. InHand(nights, after, d + 1, current)
    BY <1>1, <1>2, <1>3, <1>6, <2>1 DEF InHand
  <2>3. \A i \in DOMAIN found : MaximalIn(found[i], after) /\ found[i].last + 1 < d + 1
    BY <1>1, <1>2, <1>3, <2>1
  <2>4. d \notin after
    BY <1>4, <1>1, <2>1
  <2>5. LoopOK(nights, state, d + 1, loop)
    BY <1>1, <1>3, <2>1, <2>2, <2>3, <2>4 DEF LoopOK, after, found, current
  <2> QED BY <1>6, <2>5
<1>7. CASE d \in DOMAIN nights /\ nights[d].state # state
  <2>1. after = days
    BY <1>1, <1>7, HorizonAssumption DEF DaysBefore, Days, days, after
  <2> DEFINE next == AfterNight(loop, nights[d], d, state)
  <2>2. next.found = Closed(loop) /\ next.current = NoRun
    BY <1>7 DEF AfterNight
  <2> HIDE DEF next
  <2>3. CASE current = NoRun
    <3>1. next.found = found
      BY <2>2, <2>3 DEF Closed, found, current
    <3>2. \A i \in DOMAIN found : MaximalIn(found[i], after) /\ found[i].last + 1 < d + 1
      BY <1>1, <1>2, <1>3, <2>1
    <3>3. d \notin after /\ InHand(nights, after, d + 1, NoRun)
      BY <1>1, <1>4, <2>1 DEF InHand
    <3>4. LoopOK(nights, state, d + 1, next)
      BY <1>1, <1>3, <2>1, <2>2, <2>3, <3>1, <3>2, <3>3 DEF LoopOK, after, found, current
    <3> QED BY <1>7, <3>4 DEF next
  <2>4. CASE current # NoRun
    <3>1. /\ next.found = Append(found, current)
          /\ DOMAIN next.found = 1 .. Len(found) + 1 /\ DOMAIN found = 1 .. Len(found)
          /\ Len(found) \in Nat
          /\ \A i \in 1 .. Len(found) : next.found[i] = found[i]
          /\ next.found[Len(found) + 1] = current
      BY <1>2, <2>2, <2>4 DEF Closed, found, current
    <3>2. MaximalIn(current, after) /\ current.last + 1 < d + 1
      <4>1. /\ current.first <= current.last /\ current.last < d
            /\ current.first .. current.last \subseteq days /\ current.first - 1 \notin days
            /\ \A e \in current.last + 1 .. d - 1 : e \notin DOMAIN nights
        BY <1>3, <2>4 DEF InHand
      <4>2. current.last + 1 \notin days
        <5>1. CASE current.last + 1 = d
          BY <1>1, <1>4, <5>1
        <5>2. CASE current.last + 1 < d
          <6>1. current.last + 1 \notin DOMAIN nights
            BY <1>1, <1>2, <4>1, <5>2
          <6> QED BY <6>1 DEF DaysBefore, days
        <5> QED BY <1>1, <1>2, <4>1, <5>1, <5>2
      <4> QED BY <1>1, <1>2, <2>1, <4>1, <4>2 DEF MaximalIn
    <3>3. \A i \in DOMAIN next.found :
            MaximalIn(next.found[i], after) /\ next.found[i].last + 1 < d + 1
      <4>1. ASSUME NEW i \in 1 .. Len(found)
            PROVE  MaximalIn(next.found[i], after) /\ next.found[i].last + 1 < d + 1
        <5>1. i \in DOMAIN found /\ next.found[i] = found[i]
          BY <3>1
        <5>2. MaximalIn(found[i], days) /\ found[i].last + 1 < d /\ found[i].last \in Int
          BY <1>2, <1>3, <5>1
        <5>3. found[i].last + 1 < d + 1
          BY <1>1, <5>2
        <5> QED BY <2>1, <5>1, <5>2, <5>3
      <4> QED BY <3>1, <3>2, <4>1
    <3>4. d \notin after /\ InHand(nights, after, d + 1, NoRun)
      BY <1>1, <1>4, <2>1 DEF InHand
    <3>5. \A e \in after : \E i \in DOMAIN next.found :
                                 e \in next.found[i].first .. next.found[i].last
      <4> SUFFICES ASSUME NEW e \in after
                   PROVE  \E i \in DOMAIN next.found :
                            e \in next.found[i].first .. next.found[i].last
        OBVIOUS
      <4>1. CASE e \in current.first .. current.last
        BY <3>1, <4>1
      <4>2. CASE \E i \in DOMAIN found : e \in found[i].first .. found[i].last
        BY <3>1, <4>2
      <4> QED BY <1>3, <2>1, <4>1, <4>2, Zenon
    <3>6. \A i, j \in DOMAIN next.found : i < j => next.found[i].first < next.found[j].first
      <4> SUFFICES ASSUME NEW i \in DOMAIN next.found, NEW j \in DOMAIN next.found, i < j
                   PROVE  next.found[i].first < next.found[j].first
        OBVIOUS
      <4>1. i \in DOMAIN found /\ next.found[i] = found[i]
        BY <3>1
      <4>2. CASE j = Len(found) + 1
        BY <1>3, <2>4, <3>1, <4>1, <4>2
      <4>3. CASE j \in DOMAIN found
        BY <1>3, <3>1, <4>1, <4>3
      <4> QED BY <3>1, <4>2, <4>3
    <3>7. LoopOK(nights, state, d + 1, next)
      BY <1>1, <2>2, <3>3, <3>4, <3>5, <3>6 DEF LoopOK, after, found, current
    <3> QED BY <1>7, <3>7 DEF next
  <2> QED BY <2>3, <2>4
<1>8. CASE d \in DOMAIN nights /\ nights[d].state = state
  <2>1. after = days \cup {d}
    BY <1>1, <1>8, HorizonAssumption DEF DaysBefore, Days, days, after
  <2> DEFINE next == AfterNight(loop, nights[d], d, state)
  <2>2. \A i \in DOMAIN found : MaximalIn(found[i], after) /\ found[i].last + 1 < d + 1
    BY <1>1, <1>2, <1>3, <2>1 DEF MaximalIn
  <2>3. CASE current = NoRun
    <3>1. next.found = found /\ next.current = OneDay(d)
      BY <1>8, <2>3 DEF AfterNight, GoesOn, OneDay, found, current
    <3>2. OneDay(d).first = d /\ OneDay(d).last = d /\ OneDay(d) # NoRun
      BY <1>1 DEF OneDay, NoRun
    <3> HIDE DEF next
    <3>3. d - 1 \notin after
      BY <1>1, <1>3, <1>5, <2>1, <2>3
    <3>4. InHand(nights, after, d + 1, OneDay(d))
      BY <1>1, <2>1, <3>2, <3>3 DEF InHand
    <3>5. \A i \in DOMAIN found : found[i].first < d
      <4> SUFFICES ASSUME NEW i \in DOMAIN found PROVE found[i].first < d
        OBVIOUS
      <4>1. MaximalIn(found[i], days) /\ found[i].last + 1 < d
        BY <1>3
      <4> QED BY <1>1, <1>2, <4>1 DEF MaximalIn
    <3>6. \A e \in after :
            \/ e \in OneDay(d).first .. OneDay(d).last
            \/ \E i \in DOMAIN found : e \in found[i].first .. found[i].last
      BY <1>1, <1>3, <1>5, <2>1, <2>3, <3>2
    <3>7. LoopOK(nights, state, d + 1, next)
      BY <1>1, <1>3, <2>2, <3>1, <3>2, <3>4, <3>5, <3>6 DEF LoopOK, after, found, current
    <3> QED BY <1>8, <3>7 DEF next
  <2>4. CASE current # NoRun /\ d = current.last + 1
    <3>1. /\ next.found = found
          /\ next.current.first = current.first /\ next.current.last = d
      BY <1>8, <2>4 DEF AfterNight, GoesOn, found, current
    <3> HIDE DEF next
    <3>2. /\ current.first <= current.last /\ current.last < d
          /\ current.first .. current.last \subseteq days /\ current.first - 1 \notin days
      BY <1>3, <2>4 DEF InHand
    <3>3. InHand(nights, after, d + 1, next.current)
      BY <1>1, <1>2, <2>1, <2>4, <3>1, <3>2 DEF InHand
    <3>4. \A e \in after :
            \/ e \in next.current.first .. next.current.last
            \/ \E i \in DOMAIN found : e \in found[i].first .. found[i].last
      <4> SUFFICES ASSUME NEW e \in after,
                          ~\E i \in DOMAIN found : e \in found[i].first .. found[i].last
                   PROVE  e \in next.current.first .. next.current.last
        OBVIOUS
      <4>1. e = d \/ e \in current.first .. current.last
        BY <1>3, <2>1
      <4> QED BY <1>1, <1>2, <2>4, <3>1, <3>2, <4>1
    <3>5. LoopOK(nights, state, d + 1, next)
      BY <1>1, <1>3, <2>2, <2>4, <3>1, <3>3, <3>4 DEF LoopOK, after, found, current
    <3> QED BY <1>8, <3>5 DEF next
  <2>5. CASE current # NoRun /\ d # current.last + 1
    <3>1. next.found = Append(found, current) /\ next.current = OneDay(d)
      BY <1>8, <2>5 DEF AfterNight, GoesOn, Closed, found, current
    <3>2. OneDay(d).first = d /\ OneDay(d).last = d /\ OneDay(d) # NoRun
      BY <1>1 DEF OneDay, NoRun
    <3> HIDE DEF next
    <3>3. /\ DOMAIN next.found = 1 .. Len(found) + 1 /\ DOMAIN found = 1 .. Len(found)
          /\ Len(found) \in Nat
          /\ \A i \in 1 .. Len(found) : next.found[i] = found[i]
          /\ next.found[Len(found) + 1] = current
      BY <1>2, <3>1
    <3>4. /\ current.first <= current.last /\ current.last < d
          /\ current.first .. current.last \subseteq days /\ current.first - 1 \notin days
          /\ \A e \in current.last + 1 .. d - 1 : e \notin DOMAIN nights
      BY <1>3, <2>5 DEF InHand
    <3>5. MaximalIn(current, after) /\ current.last + 1 < d + 1
      <4>1. current.last + 1 \notin DOMAIN nights /\ current.last + 1 # d
        <5>1. current.last + 1 \in current.last + 1 .. d - 1
          BY <1>1, <1>2, <2>5, <3>4
        <5> QED BY <2>5, <3>4, <5>1
      <4>2. current.last + 1 \notin days
        BY <4>1 DEF DaysBefore, days
      <4> QED BY <1>1, <1>2, <2>1, <3>4, <4>1, <4>2 DEF MaximalIn
    <3>6. \A i \in DOMAIN next.found :
            MaximalIn(next.found[i], after) /\ next.found[i].last + 1 < d + 1
      BY <2>2, <3>3, <3>5
    <3>7. d - 1 \notin after
      BY <1>1, <1>2, <1>3, <2>1, <2>5
    <3>8. InHand(nights, after, d + 1, OneDay(d))
      BY <1>1, <2>1, <3>2, <3>7 DEF InHand
    <3>9. \A e \in after :
            \/ e \in OneDay(d).first .. OneDay(d).last
            \/ \E i \in DOMAIN next.found : e \in next.found[i].first .. next.found[i].last
      <4>0. d \in OneDay(d).first .. OneDay(d).last
        BY <1>1, <3>2
      <4> SUFFICES ASSUME NEW e \in after, e # d
                   PROVE  \E i \in DOMAIN next.found :
                            e \in next.found[i].first .. next.found[i].last
        BY <4>0, Zenon
      <4>1. CASE e \in current.first .. current.last
        BY <3>3, <4>1
      <4>2. CASE \E i \in DOMAIN found : e \in found[i].first .. found[i].last
        BY <3>3, <4>2
      <4> QED BY <1>3, <2>1, <4>1, <4>2
    <3>10. \A i, j \in DOMAIN next.found : i < j => next.found[i].first < next.found[j].first
      <4> SUFFICES ASSUME NEW i \in DOMAIN next.found, NEW j \in DOMAIN next.found, i < j
                   PROVE  next.found[i].first < next.found[j].first
        OBVIOUS
      <4>1. i \in DOMAIN found /\ next.found[i] = found[i]
        BY <3>3
      <4>2. CASE j = Len(found) + 1
        BY <1>3, <2>5, <3>3, <4>1, <4>2
      <4>3. CASE j \in DOMAIN found
        BY <1>3, <3>3, <4>1, <4>3
      <4> QED BY <3>3, <4>2, <4>3
    <3>11. \A i \in DOMAIN next.found : next.found[i].first < d
      <4>1. current.first < d
        BY <1>1, <1>2, <3>4
      <4>2. ASSUME NEW i \in 1 .. Len(found) PROVE next.found[i].first < d
        <5>1. i \in DOMAIN found /\ next.found[i] = found[i]
          BY <3>3
        <5>2. found[i].first < current.first /\ found[i].first \in Int
          BY <1>2, <1>3, <2>5, <5>1
        <5> QED BY <1>1, <1>2, <4>1, <5>1, <5>2
      <4> QED BY <3>3, <4>1, <4>2
    <3>12. LoopOK(nights, state, d + 1, next)
      BY <1>1, <3>1, <3>2, <3>6, <3>8, <3>9, <3>10, <3>11 DEF LoopOK, after, found, current
    <3> QED BY <1>8, <3>12 DEF next
  <2> QED BY <2>3, <2>4, <2>5
<1> QED BY <1>6, <1>7, <1>8

\* So it holds before every day.
LEMMA LoopIsOK ==
  ASSUME NEW nights, DOMAIN nights \subseteq Days, NEW state
  PROVE  \A d \in 0 .. Horizon : LoopOK(nights, state, d, LoopBefore(nights, state)[d])
<1> DEFINE before == LoopBefore(nights, state)
           Ok(d)  == LoopOK(nights, state, d, before[d])
           bad    == {d \in Nat : d <= Horizon /\ ~Ok(d)}
<1>1. Horizon \in Nat
  BY HorizonAssumption
<1>2. /\ before \in [0 .. Horizon -> Loops]
      /\ before[0] = [found |-> << >>, current |-> NoRun]
      /\ \A d \in 1 .. Horizon :
           before[d] = IF d - 1 \in DOMAIN nights
                       THEN AfterNight(before[d - 1], nights[d - 1], d - 1, state)
                       ELSE before[d - 1]
  BY LoopUnfolds
<1> HIDE DEF before
<1>3. Ok(0)
  <2>1. DaysBefore(nights, state, 0) = {}
    BY HorizonAssumption DEF DaysBefore, Days
  <2> QED BY <1>2, <2>1 DEF LoopOK, InHand
<1>4. ASSUME NEW d \in Nat, d + 1 <= Horizon, Ok(d) PROVE Ok(d + 1)
  <2>1. d \in Days /\ d \in 0 .. Horizon /\ d + 1 \in 1 .. Horizon /\ (d + 1) - 1 = d
    BY <1>1, <1>4 DEF Days
  <2>2. before[d] \in Loops
    BY <1>2, <2>1
  <2>3. before[d + 1] = IF d \in DOMAIN nights THEN AfterNight(before[d], nights[d], d, state)
                        ELSE before[d]
    BY <1>2, <2>1
  <2>4. LoopOK(nights, state, d, before[d])
    BY <1>4
  <2>5. LoopOK(nights, state, d + 1, IF d \in DOMAIN nights
                                     THEN AfterNight(before[d], nights[d], d, state)
                                     ELSE before[d])
    BY <2>1, <2>2, <2>4, LoopStaysOK
  <2> QED BY <2>3, <2>5
<1>5. bad = {}
  <2> HIDE DEF Ok
  <2> SUFFICES ASSUME bad # {} PROVE FALSE
    OBVIOUS
  <2>1. PICK m \in bad : \A d \in bad : m <= d
    BY LeastOfNaturals
  <2>2. m # 0
    BY <1>3, <2>1
  <2>3. m - 1 \in Nat /\ m - 1 <= Horizon /\ m - 1 \notin bad /\ (m - 1) + 1 = m /\ m <= Horizon
    BY <1>1, <2>1, <2>2
  <2>4. Ok(m - 1)
    BY <2>3
  <2>5. Ok((m - 1) + 1)
    BY <1>4, <2>3, <2>4
  <2> QED BY <2>1, <2>3, <2>5
<1> HIDE DEF Ok
<1>6. \A d \in 0 .. Horizon : Ok(d)
  BY <1>1, <1>5
<1> QED BY <1>6 DEF Ok, before

\* The runs of a state are the maximal intervals of its days, in date order.
LEMMA RunsAreMaximal ==
  ASSUME NEW nights, DOMAIN nights \subseteq Days, NEW state
  PROVE  LET days == InState(nights, state)
             runs == RunsOf(nights, state)
         IN  /\ runs \in Seq(Runs)
             /\ \A i \in DOMAIN runs : MaximalIn(runs[i], days)
             /\ \A e \in days : \E i \in DOMAIN runs : e \in runs[i].first .. runs[i].last
             /\ \A i, j \in DOMAIN runs : i < j => runs[i].first < runs[j].first
<1> DEFINE days == InState(nights, state)
           runs == RunsOf(nights, state)
           loop == LoopBefore(nights, state)[Horizon]
           found == loop.found
           current == loop.current
<1>1. Horizon \in Nat /\ Horizon \in 0 .. Horizon
  BY HorizonAssumption
<1>2. loop \in Loops
  BY <1>1, LoopUnfolds
<1>3. LoopOK(nights, state, Horizon, loop)
  BY <1>1, LoopIsOK
<1>4. runs = Closed(loop)
  BY DEF RunsOf
<1>5. days = DaysBefore(nights, state, Horizon)
  BY HorizonAssumption DEF InState, DaysBefore, Days
<1>6. days \subseteq 0 .. Horizon - 1
  BY DEF InState, Days
<1> HIDE DEF loop, runs
<1>7. /\ \A i \in DOMAIN found : MaximalIn(found[i], days)
      /\ InHand(nights, days, Horizon, current)
      /\ \A e \in days :
           \/ e \in current.first .. current.last
           \/ \E i \in DOMAIN found : e \in found[i].first .. found[i].last
      /\ \A i, j \in DOMAIN found : i < j => found[i].first < found[j].first
      /\ current # NoRun => \A i \in DOMAIN found : found[i].first < current.first
  BY <1>3, <1>5 DEF LoopOK
<1>8. /\ found \in Seq(Runs) /\ current \in Runs
      /\ current.first \in Int /\ current.last \in Int
  BY <1>2 DEF Loops, Runs
<1>9. \A e \in days : e \in DOMAIN nights
  BY DEF InState
<1> HIDE DEF days, found, current
<1>10. CASE current = NoRun
  <2>1. runs = found
    BY <1>4, <1>10 DEF Closed, found, current
  <2>2. current.first .. current.last = {}
    BY <1>10 DEF NoRun
  <2>3. \A e \in days : \E i \in DOMAIN found : e \in found[i].first .. found[i].last
    BY <1>7, <2>2
  <2> QED BY <1>7, <1>8, <2>1, <2>3 DEF days, runs
<1>11. CASE current # NoRun
  <2>1. runs = Append(found, current)
    BY <1>4, <1>11 DEF Closed, found, current
  <2>2. /\ runs \in Seq(Runs)
        /\ DOMAIN runs = 1 .. Len(found) + 1 /\ DOMAIN found = 1 .. Len(found)
        /\ Len(found) \in Nat
        /\ \A i \in 1 .. Len(found) : runs[i] = found[i]
        /\ runs[Len(found) + 1] = current
    BY <1>8, <2>1
  <2>3. /\ current.first <= current.last /\ current.last < Horizon
        /\ current.first .. current.last \subseteq days /\ current.first - 1 \notin days
        /\ \A e \in current.last + 1 .. Horizon - 1 : e \notin DOMAIN nights
    BY <1>7, <1>11 DEF InHand
  <2>4. current.last + 1 \notin days
    <3> SUFFICES ASSUME current.last + 1 \in days PROVE FALSE
      OBVIOUS
    <3>1. current.last + 1 \in current.last + 1 .. Horizon - 1
      BY <1>1, <1>6, <1>8
    <3> QED BY <1>9, <2>3, <3>1
  <2>5. MaximalIn(current, days)
    BY <2>3, <2>4 DEF MaximalIn
  <2>6. \A i \in DOMAIN runs : MaximalIn(runs[i], days)
    <3> SUFFICES ASSUME NEW i \in DOMAIN runs PROVE MaximalIn(runs[i], days)
      OBVIOUS
    <3>1. CASE i = Len(found) + 1
      BY <2>2, <2>5, <3>1
    <3>2. CASE i \in DOMAIN found
      BY <1>7, <2>2, <3>2
    <3> QED BY <2>2, <3>1, <3>2
  <2>7. \A e \in days : \E i \in DOMAIN runs : e \in runs[i].first .. runs[i].last
    <3> SUFFICES ASSUME NEW e \in days
                 PROVE  \E i \in DOMAIN runs : e \in runs[i].first .. runs[i].last
      OBVIOUS
    <3>1. CASE e \in current.first .. current.last
      BY <2>2, <3>1
    <3>2. CASE \E i \in DOMAIN found : e \in found[i].first .. found[i].last
      BY <2>2, <3>2
    <3> QED BY <1>7, <3>1, <3>2
  <2>8. \A i, j \in DOMAIN runs : i < j => runs[i].first < runs[j].first
    <3> SUFFICES ASSUME NEW i \in DOMAIN runs, NEW j \in DOMAIN runs, i < j
                 PROVE  runs[i].first < runs[j].first
      OBVIOUS
    <3>1. i \in DOMAIN found /\ runs[i] = found[i]
      BY <2>2
    <3>2. CASE j = Len(found) + 1
      BY <1>7, <1>11, <2>2, <3>1, <3>2
    <3>3. CASE j \in DOMAIN found
      BY <1>7, <2>2, <3>1, <3>3
    <3> QED BY <2>2, <3>2, <3>3
  <2> QED BY <2>2, <2>6, <2>7, <2>8 DEF days, runs
<1> QED BY <1>10, <1>11

\* A night is open when its row positively says so.
LEMMA OpenRows ==
  ASSUME NEW row \in CalendarRow
  PROVE  StateOf(row) = "OPEN" <=>
           row.status = "empty" /\ row.occupancy \notin {1, NoNumber} /\ row.unbookable = 0
<1>1. row.status \in {"absent", "blocked", "booked", "other", "empty"}
  BY DEF CalendarRow, RowStatuses
<1>2. CASE row.status = "absent" \/ row.occupancy = NoNumber
  BY <1>2 DEF StateOf
<1>3. CASE row.status \in {"blocked", "booked"} /\ row.occupancy # NoNumber
  BY <1>3 DEF StateOf
<1>4. CASE row.status = "other" /\ row.occupancy # NoNumber
  BY <1>4 DEF StateOf
<1>5. CASE row.status = "empty" /\ row.occupancy # NoNumber
  BY <1>5 DEF StateOf
<1> QED BY <1>1, <1>2, <1>3, <1>4, <1>5

\* The days that are open in a calendar are those whose last row is.
LEMMA CalendarIsRead ==
  ASSUME NEW rows \in Seq(CalendarRow)
  PROVE  /\ DOMAIN Calendar(rows) \subseteq Days
         /\ InState(Calendar(rows), "OPEN") = FreeDays(rows)
<1> DEFINE nights == Calendar(rows)
           at(d) == {i \in DOMAIN rows : rows[i].day = d}
           last(d) == Max(at(d))
<1>1. /\ DOMAIN nights = {rows[i].day : i \in DOMAIN rows} \cap Days
      /\ \A d \in DOMAIN nights : nights[d] = Night(rows[last(d)])
  BY DEF Calendar
<1> HIDE DEF nights
<1>2. DOMAIN rows = 1 .. Len(rows) /\ Len(rows) \in Nat /\ \A i \in DOMAIN rows : rows[i] \in CalendarRow
  OBVIOUS
<1>3. ASSUME NEW d \in DOMAIN nights
      PROVE  /\ last(d) \in DOMAIN rows /\ rows[last(d)].day = d
             /\ \A i \in DOMAIN rows : i > last(d) => rows[i].day # d
             /\ RowOf(rows, d) = {rows[last(d)]}
  <2>1. at(d) # {} /\ at(d) \in SUBSET (1 .. Len(rows))
    BY <1>1, <1>2
  <2> HIDE DEF at
  <2>2. Max(at(d)) \in at(d) /\ \A i \in at(d) : i <= Max(at(d))
    <3>1. 1 \in Int /\ Len(rows) \in Int
      BY <1>2
    <3> QED BY <2>1, <3>1, MaxIsGreatest, Zenon
  <2> DEFINE m == Max(at(d))
  <2> HIDE DEF m
  <2>3. m \in at(d) /\ \A i \in at(d) : i <= m
    BY <2>2 DEF m
  <2>4. m \in DOMAIN rows /\ rows[m].day = d /\ \A i \in DOMAIN rows : i > m => rows[i].day # d
    BY <1>2, <2>3 DEF at
  <2>5. RowOf(rows, d) = {rows[m]}
    <3>1. \A j \in DOMAIN rows :
            (rows[j].day = d /\ \A k \in DOMAIN rows : k > j => rows[k].day # d) <=> j = m
      BY <1>2, <2>4
    <3> QED BY <3>1, <2>4 DEF RowOf
  <2> QED BY <2>4, <2>5 DEF m
<1> HIDE DEF last
<1>4. ASSUME NEW d \in DOMAIN nights
      PROVE  d \in InState(nights, "OPEN") <=> d \in FreeDays(rows)
  <2>1. last(d) \in DOMAIN rows /\ RowOf(rows, d) = {rows[last(d)]} /\ rows[last(d)] \in CalendarRow
    BY <1>2, <1>3
  <2>2. nights[d].state = StateOf(rows[last(d)]) /\ d \in Days
    <3>1. nights[d] = Night(rows[last(d)]) /\ d \in Days
      BY <1>1
    <3>2. Night(rows[last(d)]).state = StateOf(rows[last(d)])
      BY Zenon DEF Night
    <3> QED BY <3>1, <3>2
  <2>3. StateOf(rows[last(d)]) = "OPEN" <=>
          /\ rows[last(d)].status = "empty" /\ rows[last(d)].occupancy \notin {1, NoNumber}
          /\ rows[last(d)].unbookable = 0
    BY <2>1, OpenRows
  <2> QED BY <2>1, <2>2, <2>3 DEF InState, FreeDays
<1>5. ASSUME NEW d \in Days, d \notin DOMAIN nights PROVE d \notin FreeDays(rows)
  <2>1. RowOf(rows, d) = {}
    BY <1>1, <1>5 DEF RowOf
  <2> QED BY <2>1 DEF FreeDays
<1>6. InState(nights, "OPEN") \subseteq DOMAIN nights /\ FreeDays(rows) \subseteq Days
  BY DEF InState, FreeDays
<1>7. DOMAIN nights \subseteq Days
  BY <1>1
<1> QED BY <1>4, <1>5, <1>6, <1>7 DEF nights

\* A maximal interval is the run its days are in.
LEMMA IntervalsAreRuns ==
  ASSUME NEW days \in SUBSET Int, NEW runs \in Seq(Runs),
         \A i \in DOMAIN runs : MaximalIn(runs[i], days),
         \A e \in days : \E i \in DOMAIN runs : e \in runs[i].first .. runs[i].last
  PROVE  Intervals(days) = {<<runs[i].first, runs[i].last>> : i \in DOMAIN runs}
<1>1. \A i \in DOMAIN runs : runs[i] \in Runs /\ runs[i].first \in Int /\ runs[i].last \in Int
  <2>1. \A i \in DOMAIN runs : runs[i] \in Runs
    OBVIOUS
  <2> QED BY <2>1 DEF Runs
<1>2. ASSUME NEW i \in DOMAIN runs PROVE <<runs[i].first, runs[i].last>> \in Intervals(days)
  BY <1>1 DEF Intervals, MaximalIn
<1>3. ASSUME NEW ab \in Intervals(days)
      PROVE  \E i \in DOMAIN runs : ab = <<runs[i].first, runs[i].last>>
  <2>1. /\ ab = <<ab[1], ab[2]>> /\ ab[1] \in days /\ ab[2] \in days /\ ab[1] <= ab[2]
        /\ \A e \in Int : ab[1] <= e /\ e <= ab[2] => e \in days
        /\ ab[1] - 1 \notin days /\ ab[2] + 1 \notin days
    BY DEF Intervals
  <2>2. ab[1] \in Int /\ ab[2] \in Int
    BY <2>1
  <2>3. PICK i \in DOMAIN runs : ab[1] \in runs[i].first .. runs[i].last
    BY <2>1
  <2> DEFINE a == runs[i].first
             b == runs[i].last
  <2>4. /\ a \in Int /\ b \in Int /\ a <= ab[1] /\ ab[1] <= b
        /\ \A e \in Int : a <= e /\ e <= b => e \in days
        /\ a - 1 \notin days /\ b + 1 \notin days
    BY <1>1, <2>2, <2>3 DEF MaximalIn
  <2> HIDE DEF a, b
  <2>5. a = ab[1]
    <3>1. ~(a <= ab[1] - 1)
      <4>1. ab[1] - 1 \in Int /\ ab[1] - 1 <= b
        BY <2>2, <2>4
      <4> QED BY <2>1, <2>4, <4>1
    <3> QED BY <2>2, <2>4, <3>1
  <2>6. b = ab[2]
    <3>1. ~(b + 1 <= ab[2])
      <4>1. b + 1 \in Int /\ ab[1] <= b + 1
        BY <2>2, <2>4
      <4> QED BY <2>1, <2>4, <4>1
    <3>2. ~(ab[2] + 1 <= b)
      <4>1. ab[2] + 1 \in Int /\ a <= ab[2] + 1
        BY <2>1, <2>2, <2>4
      <4> QED BY <2>1, <2>4, <4>1
    <3> QED BY <2>2, <2>4, <3>1, <3>2
  <2> QED BY <2>1, <2>5, <2>6 DEF a, b
<1> QED BY <1>2, <1>3

\* The open windows of a calendar are the maximal intervals of its free days.
LEMMA OpenWindowsAreTheGaps ==
  ASSUME NEW rows \in Seq(CalendarRow)
  PROVE  LET windows == WindowsOf(Calendar(rows), "OPEN")
         IN  /\ {<<w.start, w.start + w.nights - 1>> : w \in ToSet(windows)}
                  = Intervals(FreeDays(rows))
             /\ \A i, j \in DOMAIN windows : i < j => windows[i].start < windows[j].start
<1> DEFINE nights == Calendar(rows)
           days == InState(nights, "OPEN")
           runs == RunsOf(nights, "OPEN")
           windows == WindowsOf(nights, "OPEN")
<1>1. DOMAIN nights \subseteq Days /\ days = FreeDays(rows)
  BY CalendarIsRead
<1> HIDE DEF nights
<1>2. /\ runs \in Seq(Runs)
      /\ \A i \in DOMAIN runs : MaximalIn(runs[i], days)
      /\ \A e \in days : \E i \in DOMAIN runs : e \in runs[i].first .. runs[i].last
      /\ \A i, j \in DOMAIN runs : i < j => runs[i].first < runs[j].first
  BY <1>1, RunsAreMaximal
<1>3. days \subseteq DOMAIN nights /\ days \in SUBSET Int
  BY <1>1 DEF InState, Days
<1>4. DOMAIN windows = DOMAIN runs /\ \A i \in DOMAIN runs : windows[i] = Window(nights, runs[i])
  BY DEF WindowsOf
<1> HIDE DEF runs, days, windows
<1>5. ASSUME NEW i \in DOMAIN runs
      PROVE  /\ windows[i].start = runs[i].first
             /\ windows[i].start + windows[i].nights - 1 = runs[i].last
  <2>1. runs[i].first \in Int /\ runs[i].last \in Int
    <3>1. runs[i] \in Runs
      BY <1>2
    <3> QED BY <3>1 DEF Runs
  <2>2. runs[i].first <= runs[i].last /\ runs[i].first .. runs[i].last \subseteq DOMAIN nights
    BY <1>2, <1>3 DEF MaximalIn
  <2>3. (runs[i].first .. runs[i].last) \cap DOMAIN nights = runs[i].first .. runs[i].last
    BY <2>2
  <2>4. Cardinality(runs[i].first .. runs[i].last) = runs[i].last - runs[i].first + 1
    BY <2>1, <2>2, FS_Interval
  <2>5. windows[i] = Window(nights, runs[i])
    BY <1>4
  <2>6. /\ Window(nights, runs[i]).start = runs[i].first
        /\ Window(nights, runs[i]).nights
             = Cardinality((runs[i].first .. runs[i].last) \cap DOMAIN nights)
    BY Zenon DEF Window
  <2>7. windows[i].start = runs[i].first
    BY <2>5, <2>6, Zenon
  <2>8. windows[i].nights = runs[i].last - runs[i].first + 1
    BY <2>3, <2>4, <2>5, <2>6, Zenon
  <2> QED BY <2>1, <2>7, <2>8
<1>6. Intervals(days) = {<<runs[i].first, runs[i].last>> : i \in DOMAIN runs}
  BY <1>2, <1>3, IntervalsAreRuns
<1>7. {<<w.start, w.start + w.nights - 1>> : w \in ToSet(windows)}
        = {<<runs[i].first, runs[i].last>> : i \in DOMAIN runs}
  BY <1>4, <1>5 DEF ToSet
<1>8. \A i, j \in DOMAIN windows : i < j => windows[i].start < windows[j].start
  BY <1>2, <1>4, <1>5
<1>9. {<<w.start, w.start + w.nights - 1>> : w \in ToSet(windows)} = Intervals(FreeDays(rows))
  BY <1>1, <1>6, <1>7
<1> QED BY <1>8, <1>9 DEF windows, nights

-----------------------------------------------------------------------------
(* The ranking.                                                             *)

\* A weight of 100 to 165 per cent.
LEMMA PercentOfGross ==
  ASSUME NEW gross \in Nat, NEW weight \in 100 .. 165
  PROVE  /\ gross * weight \in Nat
         /\ 100 * gross <= gross * weight
         /\ gross * weight <= 165 * gross
<1>1. gross * (weight - 100) \in Nat /\ gross * (165 - weight) \in Nat
  OBVIOUS
<1>2. gross * weight = gross * (weight - 100) + 100 * gross
  OBVIOUS
<1>3. gross * (165 - weight) = 165 * gross - gross * weight
  OBVIOUS
<1>4. gross * weight \in Nat
  OBVIOUS
<1> QED BY <1>1, <1>2, <1>3, <1>4

\* The bonuses add at most 65 per cent (score_window).
LEMMA ScoreIsBounded ==
  ASSUME NEW e \in BoardEntry
  PROVE  /\ Score(e.window, e.health) \in Nat
         /\ 100 * e.window.gross <= Score(e.window, e.health)
         /\ Score(e.window, e.health) <= 165 * e.window.gross
<1> DEFINE gross == e.window.gross
           high == IF e.window.highValue > 0 THEN HighValueBonus ELSE 0
           inside == IF InsideBookingWindow(e.health, e.window.start)
                       THEN BookingWindowBonus ELSE 0
           below == IF BelowMarket(e.health) THEN BelowMarketBonus ELSE 0
           weight == 100 + WeekendShares(e.window) + high + inside + below
<1>1. gross \in Nat /\ e.window.weekend \in Nat
  BY DEF BoardEntry
<1>2. WeekendShares(e.window) \in 0 .. 20
  BY <1>1 DEF WeekendShares, WeekendBonus, WeekendBonusCap
<1>3. high \in 0 .. 10 /\ inside \in 0 .. 15 /\ below \in 0 .. 20
  BY DEF HighValueBonus, BookingWindowBonus, BelowMarketBonus
<1>4. Score(e.window, e.health) = gross * weight
  BY DEF Score
<1> HIDE DEF gross, high, inside, below
<1>5. weight \in 100 .. 165
  BY <1>2, <1>3
<1> HIDE DEF weight
<1>6. gross \in Nat
  BY <1>1 DEF gross
<1>7. gross * weight \in Nat /\ 100 * gross <= gross * weight /\ gross * weight <= 165 * gross
  BY <1>5, <1>6, PercentOfGross, Zenon
<1> QED BY <1>4, <1>7 DEF gross

\* The order of the ranking is total.
LEMMA RankingIsAnOrder ==
  ASSUME NEW entries \in Seq(BoardEntry)
  PROVE  \A i, j, k \in DOMAIN entries :
           /\ ~RanksBefore(entries, i, i)
           /\ RanksBefore(entries, i, j) /\ RanksBefore(entries, j, k)
                => RanksBefore(entries, i, k)
           /\ i # j => RanksBefore(entries, i, j) \/ RanksBefore(entries, j, i)
<1> DEFINE score(i) == Score(entries[i].window, entries[i].health)
           start(i) == entries[i].window.start
           listing(i) == entries[i].listing
<1>1. ASSUME NEW i \in DOMAIN entries
      PROVE  i \in Int /\ score(i) \in Int /\ start(i) \in Int /\ listing(i) \in Int
  <2>1. entries[i] \in BoardEntry /\ i \in Int
    OBVIOUS
  <2>2. score(i) \in Int
    BY <2>1, ScoreIsBounded
  <2>3. entries[i].window.start \in Days /\ entries[i].listing \in Int
    BY <2>1 DEF BoardEntry
  <2> QED BY <2>1, <2>2, <2>3, HorizonAssumption DEF Days
<1>2. ASSUME NEW i, NEW j
      PROVE  RanksBefore(entries, i, j) <=>
               \/ score(i) > score(j)
               \/ score(i) = score(j) /\ start(i) < start(j)
               \/ score(i) = score(j) /\ start(i) = start(j)
                    /\ (listing(i) < listing(j) \/ (listing(i) = listing(j) /\ i < j))
  BY Zenon DEF RanksBefore
<1> HIDE DEF score, start, listing
<1> SUFFICES ASSUME NEW i \in DOMAIN entries, NEW j \in DOMAIN entries,
                    NEW k \in DOMAIN entries
             PROVE  /\ ~RanksBefore(entries, i, i)
                    /\ RanksBefore(entries, i, j) /\ RanksBefore(entries, j, k)
                         => RanksBefore(entries, i, k)
                    /\ i # j => RanksBefore(entries, i, j) \/ RanksBefore(entries, j, i)
  OBVIOUS
<1> DEFINE a == score(i)  b == score(j)  c == score(k)
           s == start(i)  t == start(j)  u == start(k)
           l == listing(i)  m == listing(j)  n == listing(k)
<1>3. /\ i \in Int /\ j \in Int /\ k \in Int /\ a \in Int /\ b \in Int /\ c \in Int
      /\ s \in Int /\ t \in Int /\ u \in Int /\ l \in Int /\ m \in Int /\ n \in Int
  BY <1>1
<1>4. RanksBefore(entries, i, i) <=>
        a > a \/ (a = a /\ s < s) \/ (a = a /\ s = s /\ (l < l \/ (l = l /\ i < i)))
  BY <1>2, Zenon
<1>5. RanksBefore(entries, i, j) <=>
        a > b \/ (a = b /\ s < t) \/ (a = b /\ s = t /\ (l < m \/ (l = m /\ i < j)))
  BY <1>2, Zenon
<1>6. RanksBefore(entries, j, k) <=>
        b > c \/ (b = c /\ t < u) \/ (b = c /\ t = u /\ (m < n \/ (m = n /\ j < k)))
  BY <1>2, Zenon
<1>7. RanksBefore(entries, i, k) <=>
        a > c \/ (a = c /\ s < u) \/ (a = c /\ s = u /\ (l < n \/ (l = n /\ i < k)))
  BY <1>2, Zenon
<1>8. RanksBefore(entries, j, i) <=>
        b > a \/ (b = a /\ t < s) \/ (b = a /\ t = s /\ (m < l \/ (m = l /\ j < i)))
  BY <1>2, Zenon
<1> HIDE DEF a, b, c, s, t, u, l, m, n
<1>9. ~RanksBefore(entries, i, i)
  BY <1>3, <1>4
<1>10. RanksBefore(entries, i, j) /\ RanksBefore(entries, j, k) => RanksBefore(entries, i, k)
  BY <1>3, <1>5, <1>6, <1>7
<1>11. i # j => RanksBefore(entries, i, j) \/ RanksBefore(entries, j, i)
  BY <1>3, <1>5, <1>8
<1> QED BY <1>9, <1>10, <1>11

\* What is ranked before is worth at least 1 / 1.65 of what comes after it.
LEMMA RankedByWorth ==
  ASSUME NEW entries \in Seq(BoardEntry), NEW i \in DOMAIN entries, NEW j \in DOMAIN entries,
         RanksBefore(entries, i, j)
  PROVE  100 * entries[j].window.gross <= 165 * entries[i].window.gross
<1> DEFINE a == Score(entries[i].window, entries[i].health)
           b == Score(entries[j].window, entries[j].health)
           g == entries[i].window.gross
           h == entries[j].window.gross
<1>1. entries[i] \in BoardEntry /\ entries[j] \in BoardEntry
  OBVIOUS
<1>2. g \in Nat /\ h \in Nat
  BY <1>1 DEF BoardEntry
<1>3. a \in Nat /\ a <= 165 * g
  BY <1>1, ScoreIsBounded
<1>4. b \in Nat /\ 100 * h <= b
  BY <1>1, ScoreIsBounded
<1>5. a > b \/ a = b
  BY Zenon DEF RanksBefore
<1> HIDE DEF a, b, g, h
<1>6. 100 * h <= 165 * g
  BY <1>2, <1>3, <1>4, <1>5
<1> QED BY <1>6 DEF g, h

\* Every place from the first to the last is taken, by one window.
LEMMA RanksArePlaces ==
  ASSUME NEW entries \in Seq(BoardEntry)
  PROVE  LET scored == Scored(entries)
             n == Cardinality(scored)
         IN  /\ IsFiniteSet(scored) /\ n \in Nat
             /\ \A i \in scored : RankOf(entries, i) \in 1 .. n
             /\ \A i, j \in scored :
                  RanksBefore(entries, i, j) => RankOf(entries, i) < RankOf(entries, j)
             /\ \A i, j \in scored : RankOf(entries, i) = RankOf(entries, j) => i = j
             /\ \A k \in 1 .. n : \E i \in scored : RankOf(entries, i) = k
<1> DEFINE scored == Scored(entries)
           n == Cardinality(scored)
           before(i) == {j \in scored : RanksBefore(entries, j, i)}
<1>1. IsFiniteSet(scored) /\ n \in Nat /\ scored \subseteq DOMAIN entries
  <2>1. scored \in SUBSET (1 .. Len(entries)) /\ Len(entries) \in Nat
    BY DEF Scored
  <2>2. IsFiniteSet(1 .. Len(entries))
    BY <2>1, FS_Interval
  <2>3. IsFiniteSet(scored)
    BY <2>1, <2>2, FS_Subset
  <2> QED BY <2>1, <2>3, FS_CardinalityType
<1>2. \A i : RankOf(entries, i) = Cardinality(before(i)) + 1
  BY Zenon DEF RankOf
<1>3. \A i, j, k \in scored :
        /\ ~RanksBefore(entries, i, i)
        /\ RanksBefore(entries, i, j) /\ RanksBefore(entries, j, k)
             => RanksBefore(entries, i, k)
        /\ i # j => RanksBefore(entries, i, j) \/ RanksBefore(entries, j, i)
  BY <1>1, RankingIsAnOrder
<1> HIDE DEF scored
<1>4. ASSUME NEW i \in scored
      PROVE  /\ IsFiniteSet(before(i)) /\ Cardinality(before(i)) \in Nat
             /\ i \notin before(i)
             /\ Cardinality(before(i) \cup {i}) = Cardinality(before(i)) + 1
             /\ Cardinality(before(i) \cup {i}) <= n
  <2>1. before(i) \in SUBSET scored /\ before(i) \cup {i} \in SUBSET scored
    OBVIOUS
  <2>2. i \notin before(i)
    BY <1>3
  <2> HIDE DEF before
  <2>3. IsFiniteSet(before(i)) /\ Cardinality(before(i)) \in Nat
    BY <1>1, <2>1, FS_Subset, FS_CardinalityType
  <2>4. Cardinality(before(i) \cup {i}) = Cardinality(before(i)) + 1
    BY <2>2, <2>3, FS_AddElement
  <2>5. Cardinality(before(i) \cup {i}) <= n
    BY <1>1, <2>1, FS_Subset
  <2> QED BY <2>2, <2>3, <2>4, <2>5
<1>5. \A i \in scored : RankOf(entries, i) \in 1 .. n
  <2> SUFFICES ASSUME NEW i \in scored PROVE RankOf(entries, i) \in 1 .. n
    OBVIOUS
  <2> DEFINE c == Cardinality(before(i))
  <2>1. RankOf(entries, i) = c + 1
    BY <1>2
  <2>2. c \in Nat /\ c + 1 <= n
    <3> HIDE DEF before, n
    <3> QED BY <1>4
  <2> HIDE DEF c, n
  <2> QED BY <1>1, <2>1, <2>2
<1>6. ASSUME NEW i \in scored, NEW j \in scored, RanksBefore(entries, i, j)
      PROVE  RankOf(entries, i) < RankOf(entries, j)
  <2>1. before(i) \cup {i} \in SUBSET before(j)
    BY <1>3, <1>6
  <2>2. /\ RankOf(entries, i) = Cardinality(before(i)) + 1
        /\ RankOf(entries, j) = Cardinality(before(j)) + 1
    BY <1>2
  <2> HIDE DEF before
  <2>3. Cardinality(before(i) \cup {i}) <= Cardinality(before(j))
    BY <1>4, <2>1, FS_Subset
  <2>4. /\ Cardinality(before(i)) \in Nat /\ Cardinality(before(j)) \in Nat
        /\ Cardinality(before(i) \cup {i}) = Cardinality(before(i)) + 1
    BY <1>4
  <2> QED BY <2>2, <2>3, <2>4
<1>7. ASSUME NEW i \in scored, NEW j \in scored, RankOf(entries, i) = RankOf(entries, j)
      PROVE  i = j
  <2> SUFFICES ASSUME i # j PROVE FALSE
    OBVIOUS
  <2>1. RankOf(entries, i) \in Int /\ RankOf(entries, j) \in Int
    BY <1>5
  <2>2. RanksBefore(entries, i, j) \/ RanksBefore(entries, j, i)
    BY <1>3
  <2> QED BY <1>6, <1>7, <2>1, <2>2
<1>8. \A k \in 1 .. n : \E i \in scored : RankOf(entries, i) = k
  <2> DEFINE place == [i \in scored |-> RankOf(entries, i)]
  <2>1. place \in [scored -> 1 .. n]
    BY <1>5
  <2>2. \A i, j \in scored : place[i] = place[j] => i = j
    BY <1>7
  <2>3. place \in Injection(scored, 1 .. n)
    BY <2>1, <2>2 DEF Injection, IsInjective
  <2>4. IsFiniteSet(1 .. n) /\ Cardinality(1 .. n) = n
    BY <1>1, FS_Interval
  <2> HIDE DEF place
  <2>5. place \in Surjection(scored, 1 .. n)
    BY <2>3, <2>4, FS_Injection
  <2>6. \A k \in 1 .. n : \E i \in scored : place[i] = k
    BY <2>5 DEF Surjection
  <2> QED BY <2>6 DEF place
<1> QED BY <1>1, <1>5, <1>6, <1>7, <1>8 DEF scored

\* The list: its k-th window is the one in the k-th place.
LEMMA RankedByPlace ==
  ASSUME NEW entries \in Seq(BoardEntry)
  PROVE  LET ranked == Ranked(entries)
             scored == Scored(entries)
             n      == Cardinality(scored)
         IN  /\ DOMAIN ranked = 1 .. Len(ranked) /\ Len(ranked) \in Nat
             /\ Len(ranked) = IF n > TopOpportunities THEN TopOpportunities ELSE n
             /\ \A k \in DOMAIN ranked :
                  \E i \in scored : RankOf(entries, i) = k /\ ranked[k] = entries[i]
             /\ \A i \in scored :
                  RankOf(entries, i) \in DOMAIN ranked => ranked[RankOf(entries, i)] = entries[i]
<1> DEFINE ranked == Ranked(entries)
           scored == Scored(entries)
           n      == Cardinality(scored)
           shown  == IF n > TopOpportunities THEN TopOpportunities ELSE n
           at(k)  == CHOOSE i \in scored : RankOf(entries, i) = k
<1>1. /\ n \in Nat
      /\ \A i \in scored : RankOf(entries, i) \in 1 .. n
      /\ \A i, j \in scored : RankOf(entries, i) = RankOf(entries, j) => i = j
      /\ \A k \in 1 .. n : \E i \in scored : RankOf(entries, i) = k
  BY RanksArePlaces
<1>2. ranked = [k \in 1 .. shown |-> entries[at(k)]]
  BY Zenon DEF Ranked
<1>3. shown \in Nat /\ shown <= n
  <2> HIDE DEF n
  <2> QED BY <1>1 DEF TopOpportunities
<1> HIDE DEF shown, scored, ranked
<1>4. ASSUME NEW k \in 1 .. shown PROVE at(k) \in scored /\ RankOf(entries, at(k)) = k
  <2>1. k \in 1 .. n
    <3> HIDE DEF n
    <3> QED BY <1>1, <1>3
  <2> QED BY <1>1, <2>1
<1>5. scored \subseteq DOMAIN entries
  BY DEF scored, Scored
<1>6. \A k \in 1 .. shown : at(k) \in DOMAIN entries /\ entries[at(k)] \in BoardEntry
  <2>1. \A i \in DOMAIN entries : entries[i] \in BoardEntry
    OBVIOUS
  <2> HIDE DEF at
  <2> QED BY <1>4, <1>5, <2>1
<1> HIDE DEF at
<1>7. ranked \in Seq(BoardEntry) /\ Len(ranked) = shown /\ DOMAIN ranked = 1 .. shown
  BY <1>2, <1>3, <1>6
<1>8. \A k \in DOMAIN ranked :
        \E i \in scored : RankOf(entries, i) = k /\ ranked[k] = entries[i]
  BY <1>2, <1>4, <1>7
<1>9. ASSUME NEW i \in scored, RankOf(entries, i) \in DOMAIN ranked
      PROVE  ranked[RankOf(entries, i)] = entries[i]
  <2>1. RankOf(entries, i) \in 1 .. shown
    BY <1>7, <1>9
  <2>2. at(RankOf(entries, i)) = i
    BY <1>1, <1>4, <2>1
  <2> QED BY <1>2, <2>1, <2>2
<1> QED BY <1>3, <1>7, <1>8, <1>9 DEF scored, ranked, shown

\* What has a score has a price.
LEMMA ScoredAreWorth ==
  ASSUME NEW entries \in Seq(BoardEntry)
  PROVE  Scored(entries) = {k \in DOMAIN entries : entries[k].window.gross > 0}
<1> SUFFICES ASSUME NEW k \in DOMAIN entries
             PROVE  Score(entries[k].window, entries[k].health) > 0
                      <=> entries[k].window.gross > 0
  BY DEF Scored
<1>1. entries[k] \in BoardEntry
  OBVIOUS
<1>2. entries[k].window.gross \in Nat
  BY <1>1 DEF BoardEntry
<1>3. /\ Score(entries[k].window, entries[k].health) \in Nat
      /\ 100 * entries[k].window.gross <= Score(entries[k].window, entries[k].health)
      /\ Score(entries[k].window, entries[k].health) <= 165 * entries[k].window.gross
  BY <1>1, ScoreIsBounded
<1> QED BY <1>2, <1>3

\* No window goes behind one, or is left out for one, it is worth over 1.65 times of.
LEMMA RankingKeepsTheMoney ==
  ASSUME NEW entries \in Seq(BoardEntry)
  PROVE  LET ranked == Ranked(entries)
             worth  == {k \in DOMAIN entries : entries[k].window.gross > 0}
             atMost(e, f) == 100 * e.window.gross <= 165 * f.window.gross
         IN  /\ \A i, j \in DOMAIN ranked : i < j => atMost(ranked[j], ranked[i])
             /\ \A e \in ToSet(entries) \ ToSet(ranked), i \in DOMAIN ranked :
                  atMost(e, ranked[i])
             /\ ToSet(ranked) \subseteq {entries[k] : k \in worth}
             /\ IF Cardinality(worth) <= TopOpportunities
                  THEN ToSet(ranked) = {entries[k] : k \in worth}
                  ELSE Len(ranked) = TopOpportunities
<1> DEFINE ranked == Ranked(entries)
           scored == Scored(entries)
           n      == Cardinality(scored)
           rank(i) == RankOf(entries, i)
           atMost(e, f) == 100 * e.window.gross <= 165 * f.window.gross
<1>1. /\ DOMAIN ranked = 1 .. Len(ranked) /\ Len(ranked) \in Nat
      /\ Len(ranked) = IF n > TopOpportunities THEN TopOpportunities ELSE n
      /\ \A k \in DOMAIN ranked : \E i \in scored : rank(i) = k /\ ranked[k] = entries[i]
      /\ \A i \in scored : rank(i) \in DOMAIN ranked => ranked[rank(i)] = entries[i]
  BY RankedByPlace
<1>2. /\ n \in Nat
      /\ \A i \in scored : rank(i) \in 1 .. n
      /\ \A i, j \in scored : RanksBefore(entries, i, j) => rank(i) < rank(j)
  BY RanksArePlaces
<1>3. scored = {k \in DOMAIN entries : entries[k].window.gross > 0}
  BY ScoredAreWorth
<1>4. scored \subseteq DOMAIN entries
  BY <1>3
<1>5. \A i, j \in DOMAIN entries :
        RanksBefore(entries, i, j) => atMost(entries[j], entries[i])
  BY RankedByWorth
<1>6. \A i, j \in scored : i # j => RanksBefore(entries, i, j) \/ RanksBefore(entries, j, i)
  BY <1>4, RankingIsAnOrder
<1> HIDE DEF ranked, scored, n, rank, atMost
<1>7. ASSUME NEW i \in scored, NEW j \in scored, rank(i) < rank(j)
      PROVE  atMost(entries[j], entries[i])
  <2>1. rank(i) \in Int /\ rank(j) \in Int
    BY <1>2
  <2>2. RanksBefore(entries, i, j)
    BY <1>2, <1>6, <1>7, <2>1
  <2> QED BY <1>4, <1>5, <2>2
<1>8. \A i, j \in DOMAIN ranked : i < j => atMost(ranked[j], ranked[i])
  <2> SUFFICES ASSUME NEW i \in DOMAIN ranked, NEW j \in DOMAIN ranked, i < j
               PROVE  atMost(ranked[j], ranked[i])
    OBVIOUS
  <2>1. PICK p \in scored : rank(p) = i /\ ranked[i] = entries[p]
    BY <1>1
  <2>2. PICK q \in scored : rank(q) = j /\ ranked[j] = entries[q]
    BY <1>1
  <2>3. atMost(entries[q], entries[p])
    BY <1>7, <2>1, <2>2
  <2> QED BY <2>1, <2>2, <2>3
<1>9. ASSUME NEW e \in ToSet(entries) \ ToSet(ranked), NEW i \in DOMAIN ranked
      PROVE  atMost(e, ranked[i])
  <2>1. PICK q \in DOMAIN entries : e = entries[q]
    BY DEF ToSet
  <2>2. PICK p \in scored : rank(p) = i /\ ranked[i] = entries[p]
    BY <1>1
  <2>3. CASE q \in scored
    <3>1. rank(q) \notin DOMAIN ranked
      BY <1>1, <1>9, <2>1, <2>3 DEF ToSet
    <3>2. rank(p) < rank(q)
      BY <1>1, <1>2, <2>2, <2>3, <3>1
    <3> QED BY <1>7, <2>1, <2>2, <2>3, <3>2
  <2>4. CASE q \notin scored
    <3>1. entries[q] \in BoardEntry /\ entries[p] \in BoardEntry /\ p \in DOMAIN entries
      BY <1>4
    <3>2. entries[q].window.gross = 0 /\ entries[p].window.gross \in Nat
      BY <1>3, <2>4, <3>1 DEF BoardEntry
    <3> QED BY <2>1, <2>2, <3>2 DEF atMost
  <2> QED BY <2>3, <2>4
<1>10. ToSet(ranked) \subseteq {entries[k] : k \in scored}
  BY <1>1 DEF ToSet
<1>11. n <= TopOpportunities => {entries[k] : k \in scored} \subseteq ToSet(ranked)
  <2> SUFFICES ASSUME n <= TopOpportunities, NEW k \in scored PROVE entries[k] \in ToSet(ranked)
    OBVIOUS
  <2>1. rank(k) \in DOMAIN ranked
    BY <1>1, <1>2 DEF TopOpportunities
  <2>2. ranked[rank(k)] = entries[k]
    BY <1>1, <2>1
  <2> QED BY <2>1, <2>2 DEF ToSet
<1>12. ~(n <= TopOpportunities) => Len(ranked) = TopOpportunities
  BY <1>1, <1>2 DEF TopOpportunities
<1>13. IF n <= TopOpportunities
         THEN ToSet(ranked) = {entries[k] : k \in scored}
         ELSE Len(ranked) = TopOpportunities
  BY <1>10, <1>11, <1>12
<1> QED BY <1>3, <1>8, <1>9, <1>10, <1>13 DEF ranked, n, atMost

\* The vacancy board shows the maximal runs of the nights the provider lists as
\* free, in date order, and ranks them by the money in them up to the bonuses, for
\* every calendar, every horizon and every list of windows (property_calendar,
\* runs_of, rank_opportunities).
THEOREM BoardShowsTheGaps == DecisionSpec => []BoardIsTrue
<1>1. ReadingOK => WindowsAreTheGaps
  <2> SUFFICES ASSUME ReadingOK, subject = "calendar"
               PROVE  LET windows == WindowsOf(Calendar(input), "OPEN")
                      IN  /\ {<<w.start, w.start + w.nights - 1>> : w \in ToSet(windows)}
                               = Intervals(FreeDays(input))
                          /\ \A i, j \in DOMAIN windows :
                               i < j => windows[i].start < windows[j].start
    BY Zenon DEF WindowsAreTheGaps
  <2>1. input \in Seq(CalendarRow)
    BY CalendarsAssumption DEF ReadingOK
  <2> QED BY <2>1, OpenWindowsAreTheGaps, Zenon
<1>2. ReadingOK => RankingHoldsTheMoney
  <2> SUFFICES ASSUME ReadingOK, subject = "windows" PROVE RankingHoldsTheMoney
    BY DEF RankingHoldsTheMoney
  <2>1. input \in Seq(BoardEntry)
    BY EntriesAssumption DEF ReadingOK
  <2> QED BY <2>1, RankingKeepsTheMoney, Zenon DEF RankingHoldsTheMoney
<1> QED
  BY <1>1, <1>2, ReadingIsInvariant, PTL DEF BoardIsTrue

-----------------------------------------------------------------------------
(* The archive of threads.                                                  *)

\* The elements of two sequences, one after the other.
LEMMA WordsOfBoth ==
  ASSUME NEW S, NEW a \in Seq(S), NEW b \in Seq(S)
  PROVE  ToSet(a \o b) = ToSet(a) \cup ToSet(b)
<1>1. /\ a \o b \in Seq(S) /\ Len(a \o b) = Len(a) + Len(b)
      /\ Len(a) \in Nat /\ Len(b) \in Nat
      /\ \A i \in 1 .. Len(a) : (a \o b)[i] = a[i]
      /\ \A i \in 1 .. Len(b) : (a \o b)[Len(a) + i] = b[i]
      /\ DOMAIN a = 1 .. Len(a) /\ DOMAIN b = 1 .. Len(b)
      /\ DOMAIN (a \o b) = 1 .. Len(a) + Len(b)
  OBVIOUS
<1>2. ASSUME NEW x \in ToSet(a \o b) PROVE x \in ToSet(a) \cup ToSet(b)
  <2>1. PICK i \in 1 .. Len(a) + Len(b) : x = (a \o b)[i]
    BY <1>1 DEF ToSet
  <2>2. CASE i <= Len(a)
    BY <1>1, <2>1, <2>2 DEF ToSet
  <2>3. CASE i > Len(a)
    <3>1. i - Len(a) \in 1 .. Len(b) /\ Len(a) + (i - Len(a)) = i
      BY <1>1, <2>3
    <3>2. (a \o b)[i] = b[i - Len(a)]
      BY <1>1, <3>1
    <3> QED BY <1>1, <2>1, <3>1, <3>2 DEF ToSet
  <2> QED BY <1>1, <2>2, <2>3
<1>3. ASSUME NEW x \in ToSet(a) PROVE x \in ToSet(a \o b)
  <2>1. PICK i \in 1 .. Len(a) : x = a[i]
    BY <1>1 DEF ToSet
  <2>2. i \in DOMAIN (a \o b) /\ x = (a \o b)[i]
    BY <1>1, <2>1
  <2> QED BY <2>2 DEF ToSet
<1>4. ASSUME NEW x \in ToSet(b) PROVE x \in ToSet(a \o b)
  <2>1. PICK i \in 1 .. Len(b) : x = b[i]
    BY <1>1 DEF ToSet
  <2>2. Len(a) + i \in DOMAIN (a \o b) /\ x = (a \o b)[Len(a) + i]
    BY <1>1, <2>1
  <2> QED BY <2>2 DEF ToSet
<1> QED BY <1>2, <1>3, <1>4

\* FlattenSeq adds one sequence after the other.
LEMMA FlattenUnfolds ==
  ASSUME NEW S, NEW texts \in Seq(Seq(S)), Len(texts) # 0
  PROVE  \E g : /\ g[1] = texts[1]
                /\ \A i \in 2 .. Len(texts) : g[i] = g[i - 1] \o texts[i]
                /\ FlattenSeq(texts) = g[Len(texts)]
<1> DEFINE flat == FlattenSeq(texts)
           n == Len(texts)
<1>0. n \in Nat /\ n # 0 /\ DOMAIN texts = 1 .. n /\ \A i \in 1 .. n : texts[i] \in Seq(S)
  OBVIOUS
<1> DEFINE step == [p \in (0 .. n - 1) \X Seq(S) |-> p[2] \o texts[p[1] + 1]]
           Unfolds(f) == f = [i \in 1 .. n |-> IF i = 1 THEN texts[i] ELSE f[i - 1] \o texts[i]]
<1>1. n - 1 \in Nat /\ texts[1] \in Seq(S)
  BY <1>0
<1>2. step \in [(0 .. n - 1) \X Seq(S) -> Seq(S)]
  <2>1. ASSUME NEW p \in (0 .. n - 1) \X Seq(S) PROVE p[2] \o texts[p[1] + 1] \in Seq(S)
    BY <1>0
  <2> QED BY <2>1
<1>3. \A i \in 0 .. n - 1, s \in Seq(S) : step[<<i, s>>] = s \o texts[i + 1]
  OBVIOUS
<1>4. flat = (CHOOSE f : Unfolds(f))[n]
  BY <1>0, Zenon DEF FlattenSeq
<1> HIDE DEF step, n
<1>5. PICK h \in [0 .. n - 1 -> Seq(S)] : Iterates(h, n - 1, texts[1], step)
  BY <1>1, <1>2, RecursionExists, Zenon
<1>6. h[0] = texts[1] /\ \A i \in 1 .. n - 1 : h[i] = h[i - 1] \o texts[i + 1]
  <2>1. h[0] = texts[1] /\ \A i \in 1 .. n - 1 : h[i] = step[<<i, h[i - 1]>>]
    BY <1>5, Zenon DEF Iterates
  <2>2. \A i \in 1 .. n - 1 : h[i - 1] \in Seq(S) /\ i \in 0 .. n - 1
    BY <1>0, <1>1, <1>5
  <2> QED BY <1>3, <2>1, <2>2
<1> DEFINE f == [i \in 1 .. n |-> h[i - 1]]
<1>7. Unfolds(f)
  <2>1. ASSUME NEW i \in 1 .. n
        PROVE  f[i] = IF i = 1 THEN texts[i] ELSE f[i - 1] \o texts[i]
    <3>1. CASE i = 1
      BY <1>6, <3>1
    <3>2. CASE i # 1
      <4>1. i - 1 \in 1 .. n - 1 /\ i - 1 \in 1 .. n /\ (i - 1) + 1 = i
        BY <1>0, <3>2
      <4>2. f[i] = h[i - 1] /\ f[i - 1] = h[(i - 1) - 1]
        BY <4>1
      <4>3. h[i - 1] = h[(i - 1) - 1] \o texts[(i - 1) + 1]
        BY <1>6, <4>1
      <4> QED BY <3>2, <4>1, <4>2, <4>3
    <3> QED BY <3>1, <3>2
  <2> HIDE DEF f
  <2>2. f = [i \in 1 .. n |-> f[i]]
    BY DEF f
  <2> QED BY <2>1, <2>2
<1> DEFINE g == CHOOSE x : Unfolds(x)
<1>8. Unfolds(g)
  <2> HIDE DEF Unfolds, f
  <2> QED BY <1>7, Zenon
<1> HIDE DEF g, f
<1>9. g = [i \in 1 .. n |-> IF i = 1 THEN texts[i] ELSE g[i - 1] \o texts[i]]
  BY <1>8, Zenon
<1>10. g[1] = texts[1] /\ \A i \in 2 .. n : g[i] = g[i - 1] \o texts[i]
  <2>1. 1 \in 1 .. n /\ \A i \in 2 .. n : i \in 1 .. n /\ i # 1
    BY <1>0
  <2>2. \A i \in 1 .. n : g[i] = IF i = 1 THEN texts[i] ELSE g[i - 1] \o texts[i]
    BY <1>9, Zenon
  <2>3. g[1] = texts[1]
    BY <2>1, <2>2, Zenon
  <2>4. ASSUME NEW i \in 2 .. n PROVE g[i] = g[i - 1] \o texts[i]
    BY <2>1, <2>2, Zenon
  <2> QED BY <2>3, <2>4
<1>11. flat = g[n]
  BY <1>4, Zenon DEF g
<1> QED BY <1>10, <1>11 DEF n

\* A sequence of texts, one after the other: their words, and no fewer of them.
LEMMA FlattenedWords ==
  ASSUME NEW S, NEW texts \in Seq(Seq(S))
  PROVE  LET flat == FlattenSeq(texts)
         IN  /\ flat \in Seq(S)
             /\ ToSet(flat) = UNION {ToSet(texts[i]) : i \in DOMAIN texts}
             /\ \A i \in DOMAIN texts : Len(texts[i]) <= Len(flat)
<1> DEFINE flat == FlattenSeq(texts)
           n == Len(texts)
<1>1. n \in Nat /\ DOMAIN texts = 1 .. n /\ \A i \in 1 .. n : texts[i] \in Seq(S)
  OBVIOUS
<1>2. CASE n = 0
  <2>1. texts = << >> /\ DOMAIN texts = {}
    BY <1>1, <1>2
  <2>2. flat = << >>
    BY <1>2, <2>1, Zenon DEF FlattenSeq
  <2> HIDE DEF flat
  <2>3. << >> \in Seq(S) /\ ToSet(<< >>) = {}
    BY DEF ToSet
  <2>4. UNION {ToSet(texts[i]) : i \in DOMAIN texts} = {}
    BY <2>1
  <2>5. flat \in Seq(S) /\ ToSet(flat) = UNION {ToSet(texts[i]) : i \in DOMAIN texts}
    BY <2>2, <2>3, <2>4, Zenon
  <2> QED BY <2>1, <2>5 DEF flat
<1>3. CASE n # 0
  <2>1. texts[1] \in Seq(S)
    BY <1>1, <1>3
  <2>2. PICK g : /\ g[1] = texts[1]
                 /\ \A i \in 2 .. n : g[i] = g[i - 1] \o texts[i]
                 /\ flat = g[n]
    BY <1>3, FlattenUnfolds, Zenon
  <2> HIDE DEF n, flat
  <2> DEFINE Ok(i) == /\ g[i] \in Seq(S)
                      /\ ToSet(g[i]) = UNION {ToSet(texts[j]) : j \in 1 .. i}
                      /\ \A j \in 1 .. i : Len(texts[j]) <= Len(g[i])
             bad == {i \in Nat : i \in 1 .. n /\ ~Ok(i)}
  <2>3. Ok(1)
    <3>1. 1 .. 1 = {1} /\ g[1] = texts[1] /\ Len(texts[1]) \in Nat
      BY <2>1, <2>2
    <3>2. UNION {ToSet(texts[j]) : j \in {1}} = ToSet(texts[1])
      BY Zenon
    <3> QED BY <2>1, <3>1, <3>2
  <2>4. ASSUME NEW i \in 1 .. n, i # n, Ok(i) PROVE Ok(i + 1)
    <3>1. /\ i + 1 \in 2 .. n /\ i + 1 \in 1 .. n /\ (i + 1) - 1 = i
          /\ 1 .. i + 1 = (1 .. i) \cup {i + 1}
      BY <1>1, <2>4
    <3>2. g[i + 1] = g[i] \o texts[i + 1] /\ g[i] \in Seq(S) /\ texts[i + 1] \in Seq(S)
      BY <1>1, <2>2, <2>4, <3>1
    <3>3. g[i + 1] \in Seq(S) /\ Len(g[i + 1]) = Len(g[i]) + Len(texts[i + 1])
      BY <3>2
    <3>4. ToSet(g[i + 1]) = ToSet(g[i]) \cup ToSet(texts[i + 1])
      <4> DEFINE a == g[i]  b == texts[i + 1]
      <4>1. a \in Seq(S) /\ b \in Seq(S) /\ g[i + 1] = a \o b
        BY <3>2
      <4> HIDE DEF a, b
      <4>2. ToSet(a \o b) = ToSet(a) \cup ToSet(b)
        BY <4>1, WordsOfBoth
      <4> QED BY <4>1, <4>2 DEF a, b
    <3>5. UNION {ToSet(texts[j]) : j \in 1 .. i + 1}
            = (UNION {ToSet(texts[j]) : j \in 1 .. i}) \cup ToSet(texts[i + 1])
      BY <3>1, Zenon
    <3>6. \A j \in 1 .. i + 1 : Len(texts[j]) <= Len(g[i + 1])
      <4> SUFFICES ASSUME NEW j \in 1 .. i + 1 PROVE Len(texts[j]) <= Len(g[i + 1])
        OBVIOUS
      <4> DEFINE had == Len(g[i])  more == Len(texts[i + 1])  it == Len(texts[j])
      <4>1. Len(g[i + 1]) = had + more /\ had \in Nat /\ more \in Nat
        BY <3>2, <3>3
      <4>2. it \in Nat
        <5>1. j \in 1 .. n
          BY <1>1, <3>1
        <5>2. texts[j] \in Seq(S)
          BY <1>1, <5>1
        <5> QED BY <5>2
      <4>3. j = i + 1 => it = more
        OBVIOUS
      <4>4. j \in 1 .. i => it <= had
        BY <2>4
      <4>5. j = i + 1 \/ j \in 1 .. i
        BY <3>1
      <4> HIDE DEF had, more, it
      <4>6. it <= Len(g[i + 1])
        BY <4>1, <4>2, <4>3, <4>4, <4>5
      <4> QED BY <4>6 DEF it
    <3> QED BY <2>4, <3>3, <3>4, <3>5, <3>6, Zenon
  <2>5. bad = {}
    <3> HIDE DEF Ok
    <3> SUFFICES ASSUME bad # {} PROVE FALSE
      OBVIOUS
    <3>1. PICK m \in bad : \A i \in bad : m <= i
      BY LeastOfNaturals
    <3>2. m # 1
      BY <2>3, <3>1
    <3>3. m - 1 \in Nat /\ m - 1 \in 1 .. n /\ m - 1 # n /\ (m - 1) + 1 = m /\ m - 1 \notin bad
      BY <1>1, <3>1, <3>2
    <3>4. Ok(m - 1)
      BY <3>3
    <3>5. Ok((m - 1) + 1)
      BY <2>4, <3>3, <3>4
    <3> QED BY <3>1, <3>3, <3>5
  <2>6. Ok(n)
    <3> HIDE DEF Ok
    <3>1. n \in Nat /\ n \in 1 .. n
      BY <1>1, <1>3
    <3> QED BY <2>5, <3>1
  <2> QED BY <1>1, <2>2, <2>6, Zenon DEF n, flat
<1> QED BY <1>2, <1>3

\* Where a run of one sender's messages ends, there is an end of it.
LEMMA RunEnds ==
  ASSUME NEW thread \in Seq(ArchivedMessage), NEW i \in 1 .. Len(thread) + 1, NEW sender
  PROVE  LET j == RunEnd(thread, i, sender)
         IN  /\ j \in i - 1 .. Len(thread)
             /\ \A k \in i .. j : thread[k].from = sender
             /\ j < Len(thread) => thread[j + 1].from # sender
<1> DEFINE n == Len(thread)
           End(j) == /\ \A k \in i .. j : thread[k].from = sender
                     /\ j < n => thread[j + 1].from # sender
           others == {k \in Nat : k \in i .. n /\ thread[k].from # sender}
<1>1. n \in Nat /\ i \in Nat /\ i <= n + 1 /\ 1 <= i
  OBVIOUS
<1> HIDE DEF n
<1>2. CASE others = {}
  <2>1. n \in i - 1 .. n /\ End(n)
    BY <1>1, <1>2
  <2> QED BY <2>1, Zenon DEF RunEnd, n
<1>3. CASE others # {}
  <2>1. PICK m \in others : \A k \in others : m <= k
    BY <1>3, LeastOfNaturals
  <2>2. m \in i .. n /\ thread[m].from # sender /\ (m - 1) + 1 = m /\ m - 1 \in i - 1 .. n
    BY <1>1, <2>1
  <2>3. \A k \in i .. m - 1 : k \in Nat /\ k \in i .. n /\ ~(m <= k)
    BY <1>1, <2>2
  <2>4. End(m - 1)
    BY <2>1, <2>2, <2>3
  <2> QED BY <2>2, <2>4, Zenon DEF RunEnd, n
<1> QED BY <1>2, <1>3

\* And one only.
LEMMA RunEndsOnce ==
  ASSUME NEW thread \in Seq(ArchivedMessage), NEW i \in 1 .. Len(thread) + 1, NEW sender,
         NEW j \in i - 1 .. Len(thread),
         \A k \in i .. j : thread[k].from = sender,
         j < Len(thread) => thread[j + 1].from # sender
  PROVE  RunEnd(thread, i, sender) = j
<1> DEFINE r == RunEnd(thread, i, sender)
           n == Len(thread)
<1>1. n \in Nat /\ i \in Nat /\ j \in Int /\ j <= n /\ i - 1 <= j
  OBVIOUS
<1>2. /\ r \in i - 1 .. n
      /\ \A k \in i .. r : thread[k].from = sender
      /\ r < n => thread[r + 1].from # sender
  BY RunEnds
<1>3. j < n => thread[j + 1].from # sender
  OBVIOUS
<1> HIDE DEF r, n
<1>4. ~(r < j)
  <2> SUFFICES ASSUME r < j PROVE FALSE
    OBVIOUS
  <2>1. r + 1 \in i .. j /\ r < n
    BY <1>1, <1>2
  <2> QED BY <1>2, <2>1
<1>5. ~(j < r)
  <2> SUFFICES ASSUME j < r PROVE FALSE
    OBVIOUS
  <2>1. j + 1 \in i .. r /\ j < n
    BY <1>1, <1>2
  <2> QED BY <1>2, <1>3, <2>1
<1>6. r = j
  BY <1>1, <1>2, <1>4, <1>5
<1> QED BY <1>6 DEF r

\* A piece of a thread.
LEMMA PieceOfThread ==
  ASSUME NEW S, NEW thread \in Seq(S), NEW a \in 1 .. Len(thread) + 1,
         NEW b \in a - 1 .. Len(thread)
  PROVE  /\ SubSeq(thread, a, b) \in Seq(S)
         /\ Len(SubSeq(thread, a, b)) = b - a + 1
         /\ DOMAIN SubSeq(thread, a, b) = 1 .. b - a + 1
         /\ \A k \in 1 .. b - a + 1 : SubSeq(thread, a, b)[k] = thread[a + k - 1]
<1>1. Len(thread) \in Nat /\ a \in Nat /\ b \in Int
  OBVIOUS
<1> QED BY <1>1

\* What a sequence of messages says.
LEMMA TextSays ==
  ASSUME NEW messages, NEW n \in Nat, DOMAIN messages = 1 .. n,
         \A k \in 1 .. n : messages[k].words \in Seq(STRING)
  PROVE  /\ Text(messages) \in Seq(STRING)
         /\ ToSet(Text(messages)) = UNION {ToSet(messages[k].words) : k \in 1 .. n}
         /\ \A k \in 1 .. n : Len(messages[k].words) <= Len(Text(messages))
<1> DEFINE texts == [k \in DOMAIN messages |-> messages[k].words]
<1>1. texts \in Seq(Seq(STRING)) /\ DOMAIN texts = 1 .. n
      /\ \A k \in 1 .. n : texts[k] = messages[k].words
  OBVIOUS
<1>2. Text(messages) = FlattenSeq(texts)
  BY Zenon DEF Text
<1> HIDE DEF texts
<1>3. LET flat == FlattenSeq(texts)
      IN  /\ flat \in Seq(STRING)
          /\ ToSet(flat) = UNION {ToSet(texts[i]) : i \in DOMAIN texts}
          /\ \A i \in DOMAIN texts : Len(texts[i]) <= Len(flat)
  BY <1>1, FlattenedWords, Zenon
<1>4. {ToSet(texts[k]) : k \in DOMAIN texts} = {ToSet(messages[k].words) : k \in 1 .. n}
  BY <1>1
<1>5. \A k \in 1 .. n : Len(messages[k].words) <= Len(FlattenSeq(texts))
  BY <1>1, <1>3
<1> QED BY <1>2, <1>3, <1>4, <1>5, Zenon

\* A text that has the words of one that is long enough is long enough.
LEMMA LongEnough ==
  ASSUME NEW part \in Seq(STRING), NEW whole \in Seq(STRING), ~TooShort(part),
         ToSet(part) \subseteq ToSet(whole), Len(part) <= Len(whole)
  PROVE  ~TooShort(whole)
<1>1. Len(part) \in Nat /\ Len(whole) \in Nat /\ part # << >>
  BY DEF TooShort
<1>2. Len(part) # 0
  BY <1>1
<1>3. whole # << >>
  BY <1>1, <1>2
<1>4. ASSUME Len(whole) = 1, whole[1] \in ShortWords PROVE FALSE
  <2>1. Len(part) = 1
    BY <1>1, <1>2, <1>4
  <2>2. part[1] \in ToSet(part)
    BY <2>1 DEF ToSet
  <2>3. ToSet(whole) = {whole[1]}
    BY <1>4 DEF ToSet
  <2>4. part[1] = whole[1]
    BY <2>2, <2>3
  <2> QED BY <1>4, <2>1, <2>4 DEF TooShort
<1> QED BY <1>3, <1>4 DEF TooShort

\* What an example has of its thread: the guest's words of its turn, and our own
\* words of the run of messages behind it.
LEMMA ExchangeReads ==
  ASSUME NEW thread \in Seq(ArchivedMessage), NEW i \in DOMAIN thread
  PROVE  LET g == RunEnd(thread, i, "Renter")
             h == RunEnd(thread, g + 1, "Owner")
             e == Exchange(thread, i)
         IN  /\ e.asked \in Seq(STRING) /\ e.answered \in Seq(STRING)
             /\ \A k \in i .. g : /\ ToSet(thread[k].words) \subseteq ToSet(e.asked)
                                  /\ Len(thread[k].words) <= Len(e.asked)
             /\ \A k \in g + 1 .. h :
                  ~thread[k].template => /\ ToSet(thread[k].words) \subseteq ToSet(e.answered)
                                         /\ Len(thread[k].words) <= Len(e.answered)
             /\ \A w \in ToSet(e.answered) :
                  \E k \in g + 1 .. h : ~thread[k].template /\ w \in ToSet(thread[k].words)
<1> DEFINE n == Len(thread)
           g == RunEnd(thread, i, "Renter")
           h == RunEnd(thread, g + 1, "Owner")
           e == Exchange(thread, i)
           asked == SubSeq(thread, i, g)
           reply == SubSeq(thread, g + 1, h)
           own == OwnWords(reply)
<1>1. n \in Nat /\ i \in 1 .. n /\ i \in Nat /\ i \in 1 .. n + 1
  OBVIOUS
<1>2. g \in i - 1 .. n
  BY <1>1, RunEnds
<1>3. g \in Int /\ g + 1 \in 1 .. n + 1 /\ (g + 1) - 1 = g
  BY <1>1, <1>2
<1>4. h \in g .. n
  BY <1>3, RunEnds
<1>5. e.asked = Text(asked) /\ e.answered = Text(own)
  BY Zenon DEF Exchange
<1>6. /\ asked \in Seq(ArchivedMessage) /\ DOMAIN asked = 1 .. g - i + 1
      /\ \A k \in 1 .. g - i + 1 : asked[k] = thread[i + k - 1]
  BY <1>1, <1>2, PieceOfThread
<1>7. /\ reply \in Seq(ArchivedMessage) /\ DOMAIN reply = 1 .. h - (g + 1) + 1
      /\ \A k \in 1 .. h - (g + 1) + 1 : reply[k] = thread[(g + 1) + k - 1]
  BY <1>3, <1>4, PieceOfThread
<1>8. /\ DOMAIN own = DOMAIN reply
      /\ \A k \in DOMAIN reply :
           own[k] = IF reply[k].template THEN [reply[k] EXCEPT !.words = << >>] ELSE reply[k]
  BY DEF OwnWords
<1> HIDE DEF g, h, asked, reply, own, e, n
<1> DEFINE p == g - i + 1
           q == h - g
<1>9. /\ p \in Nat /\ q \in Nat /\ DOMAIN asked = 1 .. p /\ DOMAIN reply = 1 .. q
      /\ DOMAIN own = 1 .. q
  <2>1. p \in Nat /\ q \in Nat /\ q = h - (g + 1) + 1
    BY <1>1, <1>2, <1>3, <1>4
  <2>2. DOMAIN asked = 1 .. p
    BY <1>6
  <2>3. DOMAIN reply = 1 .. q
    BY <1>7, <2>1
  <2> QED BY <1>8, <2>1, <2>2, <2>3, Zenon
<1>10. \A k \in 1 .. p : asked[k].words \in Seq(STRING)
  <2>1. \A k \in 1 .. p : asked[k] \in ArchivedMessage
    BY <1>6, <1>9
  <2> QED BY <2>1 DEF ArchivedMessage
<1>11. ASSUME NEW k \in 1 .. q
       PROVE  /\ reply[k].words \in Seq(STRING)
              /\ own[k].words = IF reply[k].template THEN << >> ELSE reply[k].words
              /\ own[k].words \in Seq(STRING)
  <2>1. reply[k] \in ArchivedMessage
    <3> HIDE DEF q
    <3>1. k \in DOMAIN reply
      BY <1>9, <1>11, Zenon
    <3>2. reply \in Seq(ArchivedMessage)
      BY <1>7
    <3> QED BY <3>1, <3>2
  <2>2. [reply[k] EXCEPT !.words = << >>].words = << >> /\ reply[k].words \in Seq(STRING)
    BY <2>1 DEF ArchivedMessage
  <2>3. own[k] = IF reply[k].template THEN [reply[k] EXCEPT !.words = << >>] ELSE reply[k]
    <3> HIDE DEF q
    <3> QED BY <1>8, <1>9, Zenon
  <2>4. << >> \in Seq(STRING)
    OBVIOUS
  <2>5. CASE reply[k].template
    BY <2>2, <2>3, <2>4, <2>5, Zenon
  <2>6. CASE ~reply[k].template
    BY <2>2, <2>3, <2>6, Zenon
  <2> QED BY <2>5, <2>6
<1>12. /\ e.asked \in Seq(STRING)
       /\ ToSet(e.asked) = UNION {ToSet(asked[k].words) : k \in 1 .. p}
       /\ \A k \in 1 .. p : Len(asked[k].words) <= Len(e.asked)
  <2> HIDE DEF p
  <2> QED BY <1>5, <1>9, <1>10, TextSays
<1>13. /\ e.answered \in Seq(STRING)
       /\ ToSet(e.answered) = UNION {ToSet(own[k].words) : k \in 1 .. q}
       /\ \A k \in 1 .. q : Len(own[k].words) <= Len(e.answered)
  <2> HIDE DEF q
  <2> QED BY <1>5, <1>9, <1>11, TextSays
<1>14. ASSUME NEW k \in i .. g
       PROVE  /\ ToSet(thread[k].words) \subseteq ToSet(e.asked)
              /\ Len(thread[k].words) <= Len(e.asked)
  <2>1. k - i + 1 \in 1 .. p /\ i + (k - i + 1) - 1 = k
    BY <1>1, <1>3
  <2>2. asked[k - i + 1] = thread[k]
    BY <1>6, <2>1
  <2> QED BY <1>12, <2>1, <2>2
<1>15. ASSUME NEW k \in g + 1 .. h, ~thread[k].template
       PROVE  /\ ToSet(thread[k].words) \subseteq ToSet(e.answered)
              /\ Len(thread[k].words) <= Len(e.answered)
  <2>1. k - g \in 1 .. q /\ (g + 1) + (k - g) - 1 = k /\ q = h - (g + 1) + 1
    BY <1>3, <1>4
  <2>2. reply[k - g] = thread[k]
    BY <1>7, <2>1
  <2>3. own[k - g].words = thread[k].words
    BY <1>11, <1>15, <2>1, <2>2
  <2> QED BY <1>13, <2>1, <2>3
<1>16. ASSUME NEW w \in ToSet(e.answered)
       PROVE  \E k \in g + 1 .. h : ~thread[k].template /\ w \in ToSet(thread[k].words)
  <2>1. PICK k \in 1 .. q : w \in ToSet(own[k].words)
    BY <1>13
  <2>2. g + k \in g + 1 .. h /\ (g + 1) + k - 1 = g + k /\ q = h - (g + 1) + 1
    BY <1>3, <1>4
  <2>3. reply[k] = thread[g + k]
    BY <1>7, <2>2
  <2>4. ToSet(<< >>) = {}
    BY DEF ToSet
  <2>5. ~reply[k].template /\ own[k].words = reply[k].words
    BY <1>11, <2>1, <2>4
  <2> QED BY <2>1, <2>2, <2>3, <2>5
<1> QED BY <1>12, <1>13, <1>14, <1>15, <1>16 DEF g, h, e

\* Every word of an answer is one of our own messages'.
LEMMA AnswersAreOurs ==
  ASSUME NEW thread \in Seq(ArchivedMessage), NEW e \in Exchanges(thread),
         NEW w \in ToSet(e.answered)
  PROVE  \E k \in DOMAIN thread : /\ thread[k].from = "Owner" /\ ~thread[k].template
                                  /\ w \in ToSet(thread[k].words)
<1>1. PICK i \in TurnsOf(thread) : e = Exchange(thread, i)
  BY Zenon DEF Exchanges
<1>2. i \in DOMAIN thread /\ i \in 1 .. Len(thread) + 1 /\ Len(thread) \in Nat
  BY DEF TurnsOf
<1> DEFINE g == RunEnd(thread, i, "Renter")
           h == RunEnd(thread, g + 1, "Owner")
<1>3. g \in i - 1 .. Len(thread)
  BY <1>2, RunEnds
<1>4. g + 1 \in 1 .. Len(thread) + 1 /\ (g + 1) - 1 = g /\ g \in Int
  BY <1>2, <1>3
<1>5. h \in (g + 1) - 1 .. Len(thread) /\ \A k \in g + 1 .. h : thread[k].from = "Owner"
  BY <1>4, RunEnds
<1>6. \E k \in g + 1 .. h : ~thread[k].template /\ w \in ToSet(thread[k].words)
  BY <1>1, <1>2, ExchangeReads, Zenon
<1> HIDE DEF g, h
<1>7. PICK k \in g + 1 .. h : ~thread[k].template /\ w \in ToSet(thread[k].words)
  BY <1>6
<1>8. k \in DOMAIN thread
  BY <1>2, <1>3, <1>4, <1>5
<1> QED BY <1>5, <1>7, <1>8

\* Every reply of ours answers, in an example, the guest's message before it.
LEMMA RepliesAreExamples ==
  ASSUME NEW thread \in Seq(ArchivedMessage), NEW q \in DOMAIN thread, NEW p \in DOMAIN thread,
         q < p, thread[q].from = "Renter", ~thread[p].template,
         \A k \in q + 1 .. p : thread[k].from = "Owner",
         ~TooShort(thread[q].words), ~TooShort(thread[p].words)
  PROVE  \E e \in Exchanges(thread) : /\ ToSet(thread[q].words) \subseteq ToSet(e.asked)
                                      /\ ToSet(thread[p].words) \subseteq ToSet(e.answered)
<1> DEFINE n == Len(thread)
           before == {i \in Nat : i \in 1 .. q /\ \A k \in i .. q : thread[k].from = "Renter"}
<1>1. n \in Nat /\ DOMAIN thread = 1 .. n /\ q \in 1 .. n /\ p \in 1 .. n
  OBVIOUS
<1>2. q \in before
  BY <1>1
<1>3. PICK i \in before : \A k \in before : i <= k
  BY <1>2, LeastOfNaturals
<1>4. i \in TurnsOf(thread)
  <2>1. i \in DOMAIN thread /\ i \in i .. q /\ thread[i].from = "Renter"
    BY <1>1, <1>3
  <2>2. ASSUME i > 1, thread[i - 1].from = "Renter" PROVE FALSE
    <3>1. i - 1 \in Nat /\ i - 1 \in 1 .. q /\ ~(i <= i - 1)
      BY <1>1, <1>3, <2>2
    <3>2. \A k \in i - 1 .. q : k = i - 1 \/ k \in i .. q
      BY <1>1, <1>3
    <3>3. \A k \in i - 1 .. q : thread[k].from = "Renter"
      BY <1>3, <2>2, <3>2
    <3>4. i - 1 \in before
      BY <3>1, <3>3
    <3> QED BY <1>3, <3>1, <3>4
  <2> QED BY <2>1, <2>2 DEF TurnsOf
<1>5. RunEnd(thread, i, "Renter") = q
  <2>1. i \in 1 .. n + 1 /\ q \in i - 1 .. n
    BY <1>1, <1>3
  <2>2. q + 1 \in q + 1 .. p
    BY <1>1
  <2>3. thread[q + 1].from # "Renter"
    BY <2>2
  <2>4. \A k \in i .. q : thread[k].from = "Renter"
    BY <1>3
  <2> HIDE DEF before
  <2> QED BY <2>1, <2>3, <2>4, RunEndsOnce
<1> DEFINE h == RunEnd(thread, q + 1, "Owner")
<1>6. p \in q + 1 .. h /\ q \in i .. q
  <2>1. q + 1 \in 1 .. n + 1
    BY <1>1
  <2>2. h \in (q + 1) - 1 .. n /\ (h < n => thread[h + 1].from # "Owner")
    BY <2>1, RunEnds
  <2> HIDE DEF h
  <2>3. ~(h < p)
    <3> SUFFICES ASSUME h < p PROVE FALSE
      OBVIOUS
    <3>1. h < n /\ h + 1 \in q + 1 .. p
      BY <1>1, <2>2
    <3> QED BY <2>2, <3>1
  <2> QED BY <1>1, <1>3, <2>2, <2>3
<1> DEFINE e == Exchange(thread, i)
<1>7. /\ e.asked \in Seq(STRING) /\ e.answered \in Seq(STRING)
      /\ \A k \in i .. q : /\ ToSet(thread[k].words) \subseteq ToSet(e.asked)
                           /\ Len(thread[k].words) <= Len(e.asked)
      /\ \A k \in q + 1 .. h :
           ~thread[k].template => /\ ToSet(thread[k].words) \subseteq ToSet(e.answered)
                                  /\ Len(thread[k].words) <= Len(e.answered)
  <2>1. i \in DOMAIN thread
    BY <1>4 DEF TurnsOf
  <2> HIDE DEF e
  <2> QED BY <1>5, <2>1, ExchangeReads, Zenon DEF e
<1> HIDE DEF e, h
<1>8. /\ ToSet(thread[q].words) \subseteq ToSet(e.asked) /\ Len(thread[q].words) <= Len(e.asked)
      /\ ToSet(thread[p].words) \subseteq ToSet(e.answered)
      /\ Len(thread[p].words) <= Len(e.answered)
  BY <1>6, <1>7
<1>9. thread[q].words \in Seq(STRING) /\ thread[p].words \in Seq(STRING)
  <2>1. thread[q] \in ArchivedMessage /\ thread[p] \in ArchivedMessage
    BY <1>1
  <2> QED BY <2>1 DEF ArchivedMessage
<1>10. ~TooShort(e.asked) /\ ~TooShort(e.answered)
  BY <1>7, <1>8, <1>9, LongEnough, Zenon
<1>11. e \in Exchanges(thread)
  BY <1>4, <1>10 DEF Exchanges, e
<1> QED BY <1>8, <1>11

\* Once the guest has written again, an earlier reading of the thread found what
\* a later one finds.
LEMMA EarlierReadingsAgree ==
  ASSUME NEW thread \in Seq(ArchivedMessage), NEW n \in DOMAIN thread,
         thread[n].from = "Renter"
  PROVE  Exchanges(SubSeq(thread, 1, n)) \subseteq Exchanges(thread)
<1> DEFINE start == SubSeq(thread, 1, n)
<1>1. /\ start \in Seq(ArchivedMessage) /\ Len(start) = n /\ DOMAIN start = 1 .. n
      /\ \A k \in 1 .. n : start[k] = thread[k]
      /\ n \in Nat /\ Len(thread) \in Nat /\ n <= Len(thread) /\ 1 <= n
  OBVIOUS
<1> HIDE DEF start
<1> SUFFICES ASSUME NEW e \in Exchanges(start) PROVE e \in Exchanges(thread)
  BY DEF start
<1>2. PICK i \in TurnsOf(start) : e = Exchange(start, i)
  BY Zenon DEF Exchanges
<1>3. ~TooShort(e.asked) /\ ~TooShort(e.answered)
  BY Zenon DEF Exchanges
<1>4. i \in 1 .. n /\ i \in DOMAIN start /\ i \in TurnsOf(thread)
  <2>1. i \in 1 .. n /\ start[i].from = "Renter" /\ (i > 1 => start[i - 1].from # "Renter")
    BY <1>1 DEF TurnsOf
  <2>2. i > 1 => i - 1 \in 1 .. n
    BY <1>1, <2>1
  <2>3. i \in DOMAIN thread
    BY <1>1, <2>1
  <2> QED BY <1>1, <2>1, <2>2, <2>3 DEF TurnsOf
<1> DEFINE g == RunEnd(start, i, "Renter")
           h == RunEnd(start, g + 1, "Owner")
<1>5. /\ g \in i - 1 .. n
      /\ \A k \in i .. g : start[k].from = "Renter"
      /\ g < n => start[g + 1].from # "Renter"
  <2>1. i \in 1 .. Len(start) + 1
    BY <1>1, <1>4
  <2> QED BY <1>1, <2>1, RunEnds
<1>6. g \in Int /\ g + 1 \in 1 .. n + 1 /\ (g + 1) - 1 = g
  BY <1>1, <1>4, <1>5
<1>7. /\ h \in g .. n
      /\ \A k \in g + 1 .. h : start[k].from = "Owner"
      /\ h < n => start[h + 1].from # "Owner"
  <2>1. g + 1 \in 1 .. Len(start) + 1
    BY <1>1, <1>6
  <2> HIDE DEF g
  <2>2. /\ h \in (g + 1) - 1 .. Len(start)
        /\ \A k \in g + 1 .. h : start[k].from = "Owner"
        /\ h < Len(start) => start[h + 1].from # "Owner"
    BY <1>1, <2>1, RunEnds
  <2> HIDE DEF h
  <2> QED BY <1>1, <1>6, <2>2
<1>8. g < n
  <2> SUFFICES ASSUME g = n PROVE FALSE
    BY <1>1, <1>5, <1>6
  <2>1. g + 1 .. h = {}
    BY <1>1, <1>6, <1>7
  <2>2. e.answered \in Seq(STRING) /\ \A w \in ToSet(e.answered) : \E k \in g + 1 .. h : TRUE
    BY <1>1, <1>2, <1>4, ExchangeReads, Zenon
  <2>3. ToSet(e.answered) = {}
    BY <2>1, <2>2
  <2>4. e.answered = << >>
    <3> DEFINE text == e.answered
    <3>1. text \in Seq(STRING) /\ ToSet(text) = {}
      BY <2>2, <2>3
    <3> HIDE DEF text
    <3>2. text = << >>
      <4>1. Len(text) \in Nat /\ DOMAIN text = 1 .. Len(text)
        BY <3>1
      <4>2. ~(1 \in DOMAIN text)
        BY <3>1 DEF ToSet
      <4>3. Len(text) = 0
        BY <4>1, <4>2
      <4> QED BY <3>1, <4>3
    <3> QED BY <3>2 DEF text
  <2> QED BY <1>3, <2>4 DEF TooShort
<1>9. h < n
  <2> SUFFICES ASSUME h = n PROVE FALSE
    BY <1>1, <1>6, <1>7
  <2>1. n \in g + 1 .. h /\ start[n].from = "Renter"
    BY <1>1, <1>6, <1>8
  <2> QED BY <1>7, <2>1
<1> HIDE DEF g, h
<1>10. RunEnd(thread, i, "Renter") = g
  <2>1. i \in 1 .. Len(thread) + 1 /\ g \in i - 1 .. Len(thread)
    BY <1>1, <1>4, <1>5
  <2>2. ASSUME NEW k \in i .. g PROVE thread[k].from = "Renter"
    <3>1. k \in 1 .. n
      BY <1>1, <1>4, <1>5
    <3>2. start[k].from = "Renter" /\ start[k] = thread[k]
      BY <1>1, <1>5, <3>1, Zenon
    <3> QED BY <3>2, Zenon
  <2>3. thread[g + 1].from # "Renter"
    BY <1>1, <1>4, <1>5, <1>6, <1>8
  <2> QED BY <2>1, <2>2, <2>3, RunEndsOnce
<1>11. RunEnd(thread, g + 1, "Owner") = h
  <2>1. g + 1 \in 1 .. Len(thread) + 1 /\ h \in (g + 1) - 1 .. Len(thread)
    BY <1>1, <1>6, <1>7
  <2>2. \A k \in g + 1 .. h : thread[k].from = "Owner"
    BY <1>1, <1>6, <1>7
  <2>3. thread[h + 1].from # "Owner"
    BY <1>1, <1>6, <1>7, <1>9
  <2> QED BY <2>1, <2>2, <2>3, RunEndsOnce
<1>12. ASSUME NEW a \in 1 .. n + 1, NEW b \in a - 1 .. n
       PROVE  SubSeq(start, a, b) = SubSeq(thread, a, b)
  <2>1. /\ SubSeq(start, a, b) \in Seq(ArchivedMessage)
        /\ DOMAIN SubSeq(start, a, b) = 1 .. b - a + 1
        /\ \A k \in 1 .. b - a + 1 : SubSeq(start, a, b)[k] = start[a + k - 1]
    BY <1>1, PieceOfThread
  <2>2. a \in 1 .. Len(thread) + 1 /\ b \in a - 1 .. Len(thread)
    BY <1>1
  <2>3. /\ SubSeq(thread, a, b) \in Seq(ArchivedMessage)
        /\ DOMAIN SubSeq(thread, a, b) = 1 .. b - a + 1
        /\ \A k \in 1 .. b - a + 1 : SubSeq(thread, a, b)[k] = thread[a + k - 1]
    BY <2>2, PieceOfThread
  <2>4. \A k \in 1 .. b - a + 1 : start[a + k - 1] = thread[a + k - 1]
    BY <1>1
  <2> DEFINE s == SubSeq(start, a, b)  t == SubSeq(thread, a, b)  m == b - a + 1
  <2> HIDE DEF s, t, m
  <2>5. /\ s \in Seq(ArchivedMessage) /\ t \in Seq(ArchivedMessage)
        /\ DOMAIN s = DOMAIN t /\ \A k \in DOMAIN s : s[k] = t[k]
    BY <2>1, <2>3, <2>4, Zenon DEF s, t, m
  <2>6. s = [k \in DOMAIN s |-> s[k]] /\ t = [k \in DOMAIN t |-> t[k]]
    BY <2>5
  <2>7. s = t
    BY <2>5, <2>6
  <2> QED BY <2>7 DEF s, t
<1>13. Exchange(start, i) = Exchange(thread, i)
  <2>1. SubSeq(start, i, g) = SubSeq(thread, i, g)
    BY <1>1, <1>4, <1>5, <1>12
  <2>2. SubSeq(start, g + 1, h) = SubSeq(thread, g + 1, h)
    BY <1>1, <1>6, <1>7, <1>12
  <2>3. RunEnd(start, i, "Renter") = g /\ RunEnd(start, g + 1, "Owner") = h
    BY DEF g, h
  <2> QED BY <1>10, <1>11, <2>1, <2>2, <2>3, Zenon DEF Exchange
<1> QED BY <1>2, <1>3, <1>4, <1>13 DEF Exchanges

\* An archived thread teaches what was asked and how we answered it, for every
\* thread of every archive: the words of an answer are our own, every reply of
\* ours answers the guest's message before it in an example, and a thread read
\* again, once the guest has written again, keeps its examples (extract_exchanges,
\* fingerprint).
THEOREM ExamplesPairExchanges == DecisionSpec => []ExamplesAreExchanges
<1>1. ReadingOK => ExamplesAreExchanges
  <2> SUFFICES ASSUME ReadingOK, subject = "archive" PROVE ExamplesAreExchanges
    BY DEF ExamplesAreExchanges
  <2> DEFINE ours == {i \in DOMAIN input : input[i].from = "Owner" /\ ~input[i].template}
  <2>1. input \in Seq(ArchivedMessage)
    BY LettersAssumption DEF ReadingOK
  <2>2. ASSUME NEW e \in Exchanges(input), NEW w \in ToSet(e.answered)
        PROVE  w \in UNION {ToSet(input[i].words) : i \in ours}
    <3>1. PICK k \in DOMAIN input : /\ input[k].from = "Owner" /\ ~input[k].template
                                    /\ w \in ToSet(input[k].words)
      BY <2>1, AnswersAreOurs, Zenon
    <3> QED BY <3>1
  <2>3. ASSUME NEW q \in DOMAIN input, NEW p \in ours, q < p, input[q].from = "Renter",
               \A k \in q + 1 .. p : input[k].from = "Owner",
               ~TooShort(input[q].words), ~TooShort(input[p].words)
        PROVE  \E e \in Exchanges(input) : /\ ToSet(input[q].words) \subseteq ToSet(e.asked)
                                           /\ ToSet(input[p].words) \subseteq ToSet(e.answered)
    <3>1. p \in DOMAIN input /\ ~input[p].template
      OBVIOUS
    <3> QED BY <2>1, <2>3, <3>1, RepliesAreExamples, Zenon
  <2>4. ASSUME NEW n \in DOMAIN input, input[n].from = "Renter"
        PROVE  Exchanges(SubSeq(input, 1, n)) \subseteq Exchanges(input)
    BY <2>1, <2>4, EarlierReadingsAgree, Zenon
  <2> QED BY <2>2, <2>3, <2>4, Zenon DEF ExamplesAreExchanges
<1> QED
  BY <1>1, ReadingIsInvariant, PTL
-----------------------------------------------------------------------------
(* The rules distilled from replies: each loop keeps what it was given, and *)
(* a promotion replaces only what it covers.                                *)

\* R puts the elements of S in a line.
InLine(S, R) ==
  \A i, j, k \in S : /\ <<i, i>> \notin R
                     /\ <<i, j>> \in R /\ <<j, k>> \in R => <<i, k>> \in R
                     /\ i # j => <<i, j>> \in R \/ <<j, i>> \in R

\* How many elements of S come before i.
Below(S, R, i) == Cardinality({j \in S : <<j, i>> \in R})

\* In a strict total order of a finite set, what has its rank is one element, and
\* every rank up to the set's size is had.
LEMMA RanksOfAnOrder ==
  ASSUME NEW S, IsFiniteSet(S), NEW R,
         InLine(S, R)
  PROVE  /\ Cardinality(S) \in Nat
         /\ \A i \in S : Below(S, R, i) \in 0 .. Cardinality(S) - 1
         /\ \A i, j \in S : <<i, j>> \in R => Below(S, R, i) < Below(S, R, j)
         /\ \A i, j \in S : Below(S, R, i) = Below(S, R, j) => i = j
         /\ \A k \in 1 .. Cardinality(S) : \E i \in S : Below(S, R, i) = k - 1
<1> DEFINE n == Cardinality(S)
           before(i) == {j \in S : <<j, i>> \in R}
           rank(i) == Cardinality(before(i)) + 1
<1>1. n \in Nat
  BY FS_CardinalityType
<1>3. \A i, j, k \in S : /\ <<i, i>> \notin R
                         /\ <<i, j>> \in R /\ <<j, k>> \in R => <<i, k>> \in R
                         /\ i # j => <<i, j>> \in R \/ <<j, i>> \in R
  BY DEF InLine
<1>4. ASSUME NEW i \in S
      PROVE  /\ IsFiniteSet(before(i)) /\ Cardinality(before(i)) \in Nat
             /\ i \notin before(i)
             /\ Cardinality(before(i) \cup {i}) = Cardinality(before(i)) + 1
             /\ Cardinality(before(i) \cup {i}) <= n
  <2>1. before(i) \in SUBSET S /\ before(i) \cup {i} \in SUBSET S
    OBVIOUS
  <2>2. i \notin before(i)
    BY <1>3
  <2> HIDE DEF before
  <2>3. IsFiniteSet(before(i)) /\ Cardinality(before(i)) \in Nat
    BY <2>1, FS_Subset, FS_CardinalityType
  <2>4. Cardinality(before(i) \cup {i}) = Cardinality(before(i)) + 1
    BY <2>2, <2>3, FS_AddElement
  <2>5. Cardinality(before(i) \cup {i}) <= n
    BY <2>1, FS_Subset
  <2> QED BY <2>2, <2>3, <2>4, <2>5
<1>5. \A i \in S : rank(i) \in 1 .. n
  <2> HIDE DEF before, n
  <2> SUFFICES ASSUME NEW i \in S PROVE rank(i) \in 1 .. n
    OBVIOUS
  <2> DEFINE c == Cardinality(before(i))
  <2>1. c \in Nat /\ c + 1 <= n
    BY <1>4
  <2> HIDE DEF c
  <2>2. c + 1 \in 1 .. n
    BY <1>1, <2>1
  <2> QED BY <2>2 DEF c
<1>6. ASSUME NEW i \in S, NEW j \in S, <<i, j>> \in R
      PROVE  rank(i) < rank(j)
  <2>1. before(i) \cup {i} \in SUBSET before(j)
    BY <1>3, <1>6
  <2> HIDE DEF before
  <2>3. Cardinality(before(i) \cup {i}) <= Cardinality(before(j))
    BY <1>4, <2>1, FS_Subset
  <2>4. /\ Cardinality(before(i)) \in Nat /\ Cardinality(before(j)) \in Nat
        /\ Cardinality(before(i) \cup {i}) = Cardinality(before(i)) + 1
    BY <1>4
  <2> QED BY <2>3, <2>4
<1>7. ASSUME NEW i \in S, NEW j \in S, rank(i) = rank(j)
      PROVE  i = j
  <2> HIDE DEF rank
  <2> SUFFICES ASSUME i # j PROVE FALSE
    OBVIOUS
  <2>1. rank(i) \in Int /\ rank(j) \in Int
    BY <1>5
  <2>2. <<i, j>> \in R \/ <<j, i>> \in R
    BY <1>3
  <2> QED BY <1>6, <1>7, <2>1, <2>2
<1>8. \A k \in 1 .. n : \E i \in S : rank(i) = k
  <2> DEFINE place == [i \in S |-> rank(i)]
  <2> HIDE DEF rank, n
  <2>1. place \in [S -> 1 .. n]
    BY <1>5
  <2>2. \A i, j \in S : place[i] = place[j] => i = j
    BY <1>7
  <2>3. place \in Injection(S, 1 .. n)
    BY <2>1, <2>2 DEF Injection, IsInjective
  <2>4. IsFiniteSet(1 .. n) /\ Cardinality(1 .. n) = Cardinality(S)
    BY <1>1, FS_Interval DEF n
  <2> HIDE DEF place
  <2>5. place \in Surjection(S, 1 .. n)
    BY <2>3, <2>4, FS_Injection
  <2>6. \A k \in 1 .. n : \E i \in S : place[i] = k
    BY <2>5 DEF Surjection
  <2> QED BY <2>6 DEF place
<1>9. ASSUME NEW i \in S PROVE Below(S, R, i) \in Nat /\ rank(i) = Below(S, R, i) + 1
  <2>1. Below(S, R, i) = Cardinality(before(i))
    BY Zenon DEF Below
  <2> HIDE DEF before
  <2> QED BY <1>4, <2>1
<1> HIDE DEF rank, n
<1>10. \A i \in S : Below(S, R, i) \in 0 .. n - 1
  BY <1>1, <1>5, <1>9
<1>11. \A i, j \in S : <<i, j>> \in R => Below(S, R, i) < Below(S, R, j)
  BY <1>6, <1>9
<1>12. \A i, j \in S : Below(S, R, i) = Below(S, R, j) => i = j
  BY <1>7, <1>9
<1>13. \A k \in 1 .. n : \E i \in S : Below(S, R, i) = k - 1
  BY <1>1, <1>8, <1>9
<1> QED BY <1>1, <1>10, <1>11, <1>12, <1>13 DEF n

\* A set in an order: all of it, one element after the other.
LEMMA PlacedInOrder ==
  ASSUME NEW S, IsFiniteSet(S), NEW R,
         InLine(S, R)
  PROVE  LET order == Placed(S, R)
         IN  /\ order \in Seq(S) /\ Len(order) = Cardinality(S)
             /\ DOMAIN order = 1 .. Cardinality(S) /\ Cardinality(S) \in Nat
             /\ \A i \in S : \E k \in DOMAIN order : order[k] = i
             /\ \A k, l \in DOMAIN order : k < l => <<order[k], order[l]>> \in R
<1> DEFINE n == Cardinality(S)
           order == Placed(S, R)
<1>1. n \in Nat
  BY FS_CardinalityType
<1>2. /\ \A i \in S : Below(S, R, i) \in 0 .. n - 1
      /\ \A i, j \in S : <<i, j>> \in R => Below(S, R, i) < Below(S, R, j)
      /\ \A i, j \in S : Below(S, R, i) = Below(S, R, j) => i = j
      /\ \A k \in 1 .. n : \E i \in S : Below(S, R, i) = k - 1
  <2>1. \A i \in S : Below(S, R, i) \in 0 .. n - 1
    BY RanksOfAnOrder
  <2>2. \A i, j \in S : <<i, j>> \in R => Below(S, R, i) < Below(S, R, j)
    BY RanksOfAnOrder
  <2>3. \A i, j \in S : Below(S, R, i) = Below(S, R, j) => i = j
    BY RanksOfAnOrder
  <2>4. \A k \in 1 .. n : \E i \in S : Below(S, R, i) = k - 1
    BY RanksOfAnOrder
  <2> QED BY <2>1, <2>2, <2>3, <2>4
<1>3. order = [k \in 1 .. n |-> CHOOSE i \in S : Below(S, R, i) = k - 1]
  BY Zenon DEF Placed, Below
<1> HIDE DEF n, order
<1>4. ASSUME NEW k \in 1 .. n PROVE order[k] \in S /\ Below(S, R, order[k]) = k - 1
  <2>1. order[k] = CHOOSE i \in S : Below(S, R, i) = k - 1
    BY <1>3
  <2> QED BY <1>2, <2>1, Zenon
<1>5. order \in Seq(S) /\ Len(order) = n /\ DOMAIN order = 1 .. n
  <2>1. order \in [1 .. n -> S]
    BY <1>3, <1>4
  <2> QED BY <1>1, <2>1
<1>6. ASSUME NEW i \in S PROVE \E k \in 1 .. n : order[k] = i
  <2> DEFINE k == Below(S, R, i) + 1
  <2>1. k \in 1 .. n /\ k - 1 = Below(S, R, i)
    BY <1>1, <1>2
  <2> HIDE DEF k
  <2>2. order[k] \in S /\ Below(S, R, order[k]) = Below(S, R, i)
    BY <1>4, <2>1
  <2> QED BY <1>2, <2>1, <2>2
<1>7. ASSUME NEW k \in 1 .. n, NEW l \in 1 .. n, k < l PROVE <<order[k], order[l]>> \in R
  <2>1. /\ order[k] \in S /\ order[l] \in S
        /\ Below(S, R, order[k]) = k - 1 /\ Below(S, R, order[l]) = l - 1
    BY <1>4
  <2>2. order[k] # order[l] /\ ~(Below(S, R, order[l]) < Below(S, R, order[k]))
    BY <1>1, <1>7, <2>1
  <2>3. <<order[k], order[l]>> \in R \/ <<order[l], order[k]>> \in R
    BY <2>1, <2>2, Zenon DEF InLine
  <2> QED BY <1>2, <2>1, <2>2, <2>3
<1> QED BY <1>1, <1>5, <1>6, <1>7 DEF n, order

\* Positions as they come.
LEMMA PlacedAsTheyCome ==
  ASSUME NEW S \in SUBSET Nat, IsFiniteSet(S)
  PROVE  LET order == AsTheyCome(S)
         IN  /\ order \in Seq(S) /\ Len(order) \in Nat /\ DOMAIN order = 1 .. Len(order)
             /\ \A i \in S : \E k \in DOMAIN order : order[k] = i
             /\ \A k, l \in DOMAIN order : k # l => order[k] # order[l]
<1> DEFINE R == {p \in S \X S : p[1] < p[2]}
           order == AsTheyCome(S)
<1>1. \A i, j \in S : <<i, j>> \in R <=> i < j
  OBVIOUS
<1>2. order = Placed(S, R)
  BY Zenon DEF AsTheyCome
<1> HIDE DEF R, order
<1>3. \A i, j, k \in S : i \in Nat /\ j \in Nat /\ k \in Nat
  OBVIOUS
<1>6. InLine(S, R)
  <2>1. \A i, j, k \in S : /\ ~(i < i) /\ (i < j /\ j < k => i < k)
                            /\ (i # j => i < j \/ j < i)
    BY <1>3
  <2> QED BY <1>1, <2>1, Zenon DEF InLine
<1>4. /\ Placed(S, R) \in Seq(S) /\ Len(Placed(S, R)) = Cardinality(S)
      /\ DOMAIN Placed(S, R) = 1 .. Cardinality(S) /\ Cardinality(S) \in Nat
      /\ \A i \in S : \E k \in DOMAIN Placed(S, R) : Placed(S, R)[k] = i
      /\ \A k, l \in DOMAIN Placed(S, R) :
           k < l => <<Placed(S, R)[k], Placed(S, R)[l]>> \in R
  BY <1>6, PlacedInOrder, Zenon
<1>5. ASSUME NEW k \in DOMAIN order, NEW l \in DOMAIN order, k # l
      PROVE  order[k] # order[l]
  <2>1. k < l \/ l < k
    BY <1>2, <1>4, <1>5
  <2>2. order[k] \in S /\ order[l] \in S
    BY <1>2, <1>4
  <2>3. order[k] < order[l] \/ order[l] < order[k]
    BY <1>1, <1>2, <1>4, <2>1, <2>2, Zenon
  <2>4. order[k] \in Nat /\ order[l] \in Nat
    BY <2>2
  <2> QED BY <2>3, <2>4
<1> QED BY <1>2, <1>4, <1>5 DEF order

\* A candidate, as screening leaves it and merging keeps it.
Candidates == [scope : STRING, subject : STRING, says : Wordings, numeric : BOOLEAN,
               refs : SUBSET Evidence, properties : SUBSET STRING]

\* Until a rule is promoted, what it speaks for is its scope.
Attributed(c) == c.properties = {c.scope} \ {Unattributed}

\* One by one, what the distilling of a list of candidates keeps: their bucket,
\* their distance, and the evidence and the flag of every one of them.
OfBucket(kept, b) == \A i \in DOMAIN kept : Bucket(kept[i]) = b /\ Attributed(kept[i])
Apart(kept) ==
  \A i, j \in DOMAIN kept : i # j => Similarity(kept[i], kept[j]) < DuplicateSimilarity
Holds(kept, c) ==
  \E i \in DOMAIN kept : c.refs \subseteq kept[i].refs /\ (c.numeric => kept[i].numeric)

\* The best supported first, in an order that does not depend on what else there is.
LEMMA PlacedByEvidence ==
  ASSUME NEW cs \in Seq(Candidates), NEW S \in SUBSET DOMAIN cs
  PROVE  LET order == ByEvidence(cs, S)
         IN  /\ order \in Seq(S) /\ DOMAIN order = 1 .. Len(order)
             /\ Len(order) \in Nat /\ Len(order) = Cardinality(S)
             /\ \A i \in S : \E k \in DOMAIN order : order[k] = i
             /\ \A T \in SUBSET S : order[1] \in T => ByEvidence(cs, T)[1] = order[1]
<1> DEFINE count(i) == Cardinality(cs[i].refs)
           before(i, j) == count(i) > count(j) \/ (count(i) = count(j) /\ i < j)
           R(T) == {p \in T \X T : \/ count(p[1]) > count(p[2])
                                   \/ count(p[1]) = count(p[2]) /\ p[1] < p[2]}
<1>1. \A i \in DOMAIN cs : i \in Nat /\ count(i) \in Nat
  <2> SUFFICES ASSUME NEW i \in DOMAIN cs PROVE i \in Nat /\ count(i) \in Nat
    OBVIOUS
  <2>1. i \in Nat /\ cs[i] \in Candidates
    OBVIOUS
  <2>2. cs[i].refs \in SUBSET Evidence
    BY <2>1 DEF Candidates
  <2>3. IsFiniteSet(cs[i].refs)
    BY <2>2, WordingsAssumption, FS_Subset
  <2> QED BY <2>1, <2>3, FS_CardinalityType
<1>2. ASSUME NEW T \in SUBSET DOMAIN cs
      PROVE  /\ \A i, j \in T : <<i, j>> \in R(T) <=> before(i, j)
             /\ InLine(T, R(T)) /\ IsFiniteSet(T) /\ ByEvidence(cs, T) = Placed(T, R(T))
  <2>1. \A i, j \in T : <<i, j>> \in R(T) <=> before(i, j)
    <3> HIDE DEF count
    <3> QED OBVIOUS
  <2>2. \A i, j, k \in T : /\ ~before(i, i)
                           /\ before(i, j) /\ before(j, k) => before(i, k)
                           /\ i # j => before(i, j) \/ before(j, i)
    <3>1. \A i \in T : i \in Nat /\ count(i) \in Nat
      BY <1>1
    <3> HIDE DEF count
    <3> QED BY <3>1
  <2>3. ByEvidence(cs, T) = Placed(T, R(T))
    BY Zenon DEF ByEvidence
  <2>4. IsFiniteSet(T)
    <3>1. T \in SUBSET (1 .. Len(cs)) /\ Len(cs) \in Nat
      OBVIOUS
    <3>2. IsFiniteSet(1 .. Len(cs))
      BY <3>1, FS_Interval
    <3> QED BY <3>1, <3>2, FS_Subset
  <2> HIDE DEF before, R
  <2>5. InLine(T, R(T))
    BY <2>1, <2>2, Zenon DEF InLine
  <2> QED BY <2>1, <2>3, <2>4, <2>5
<1> HIDE DEF before, R
<1>3. ASSUME NEW T \in SUBSET DOMAIN cs
      PROVE  LET order == ByEvidence(cs, T)
             IN  /\ order \in Seq(T) /\ DOMAIN order = 1 .. Len(order)
                 /\ Len(order) = Cardinality(T) /\ Len(order) \in Nat
                 /\ \A i \in T : \E k \in DOMAIN order : order[k] = i
                 /\ \A k, l \in DOMAIN order : k < l => before(order[k], order[l])
  <2> DEFINE order == ByEvidence(cs, T)
  <2>1. InLine(T, R(T)) /\ IsFiniteSet(T) /\ order = Placed(T, R(T))
    BY <1>2
  <2> HIDE DEF order
  <2>2. /\ order \in Seq(T) /\ Len(order) = Cardinality(T)
        /\ DOMAIN order = 1 .. Cardinality(T) /\ Cardinality(T) \in Nat
        /\ \A i \in T : \E k \in DOMAIN order : order[k] = i
        /\ \A k, l \in DOMAIN order : k < l => <<order[k], order[l]>> \in R(T)
    BY <2>1, PlacedInOrder
  <2>3. \A k \in DOMAIN order : order[k] \in T
    BY <2>2
  <2>4. \A k, l \in DOMAIN order : k < l => before(order[k], order[l])
    BY <1>2, <2>2, <2>3, Zenon
  <2> QED BY <2>2, <2>4 DEF order
<1>4. ASSUME NEW T \in SUBSET S, ByEvidence(cs, S)[1] \in T
      PROVE  ByEvidence(cs, T)[1] = ByEvidence(cs, S)[1]
  <2> DEFINE s == ByEvidence(cs, S)  t == ByEvidence(cs, T)
  <2>1. T \in SUBSET DOMAIN cs
    OBVIOUS
  <2>2. /\ s \in Seq(S) /\ DOMAIN s = 1 .. Len(s) /\ Len(s) \in Nat
        /\ \A i \in S : \E k \in DOMAIN s : s[k] = i
        /\ \A k, l \in DOMAIN s : k < l => before(s[k], s[l])
    BY <1>3
  <2>3. /\ t \in Seq(T) /\ DOMAIN t = 1 .. Len(t) /\ Len(t) \in Nat
        /\ \A i \in T : \E k \in DOMAIN t : t[k] = i
        /\ \A k, l \in DOMAIN t : k < l => before(t[k], t[l])
    BY <1>3, <2>1
  <2>4. s[1] \in T /\ s[1] \in S
    BY <1>4
  <2> HIDE DEF s, t
  <2>5. PICK l \in DOMAIN t : t[l] = s[1]
    BY <2>3, <2>4
  <2>6. 1 \in DOMAIN t /\ t[1] \in S
    BY <2>3, <2>5
  <2>7. PICK k \in DOMAIN s : s[k] = t[1]
    BY <2>2, <2>6
  <2>8. 1 \in DOMAIN s
    BY <2>2, <2>7
  <2>9. ASSUME t[1] # s[1] PROVE FALSE
    <3>1. 1 < k /\ 1 < l
      <4>1. k # 1 /\ l # 1
        BY <2>5, <2>7, <2>9, Zenon
      <4>2. k \in 1 .. Len(s) /\ l \in 1 .. Len(t) /\ Len(s) \in Nat /\ Len(t) \in Nat
        BY <2>2, <2>3, Zenon
      <4> QED BY <4>1, <4>2
    <3>2. before(s[1], t[1]) /\ before(t[1], s[1])
      BY <2>2, <2>3, <2>5, <2>6, <2>7, <2>8, <3>1
    <3>3. s[1] \in DOMAIN cs /\ t[1] \in DOMAIN cs
      BY <2>4, <2>6
    <3>4. s[1] \in Nat /\ t[1] \in Nat /\ count(s[1]) \in Nat /\ count(t[1]) \in Nat
      BY <1>1, <3>3
    <3> HIDE DEF count
    <3> QED BY <3>2, <3>4 DEF before
  <2> QED BY <2>9 DEF s, t
<1>5. /\ ByEvidence(cs, S) \in Seq(S) /\ DOMAIN ByEvidence(cs, S) = 1 .. Len(ByEvidence(cs, S))
      /\ Len(ByEvidence(cs, S)) = Cardinality(S) /\ Len(ByEvidence(cs, S)) \in Nat
      /\ \A i \in S : \E k \in DOMAIN ByEvidence(cs, S) : ByEvidence(cs, S)[k] = i
  BY <1>3
<1> QED BY <1>4, <1>5, Zenon

\* A merge adds up.
LEMMA MergeAdds ==
  ASSUME NEW c \in Candidates, NEW d \in Candidates
  PROVE  LET m == Merge(c, d)
         IN  /\ m \in Candidates
             /\ m.scope = c.scope /\ m.subject = c.subject /\ m.says = c.says
             /\ m.numeric = (c.numeric \/ d.numeric)
             /\ m.refs = c.refs \cup d.refs /\ m.properties = c.properties \cup d.properties
<1>1. Merge(c, d) = [c EXCEPT !.numeric = (c.numeric \/ d.numeric), !.refs = c.refs \cup d.refs,
                              !.properties = c.properties \cup d.properties]
  BY Zenon DEF Merge
<1>2. (c.numeric \/ d.numeric) \in BOOLEAN
  OBVIOUS
<1>3. c.refs \cup d.refs \in SUBSET Evidence /\ c.properties \cup d.properties \in SUBSET STRING
  BY DEF Candidates
<1> QED BY <1>1, <1>2, <1>3 DEF Candidates

\* Likeness goes both ways, and is a number.
LEMMA SimilarityIsMutual ==
  ASSUME NEW c \in Candidates, NEW d \in Candidates
  PROVE  Similarity(c, d) \in Nat /\ Similarity(c, d) = Similarity(d, c)
<1>1. c.says \in Wordings /\ d.says \in Wordings
  BY DEF Candidates
<1> QED BY <1>1, WordingsAssumption DEF Similarity

\* One candidate more.
LEMMA KeepOrMergeKeeps ==
  ASSUME NEW kept \in Seq(Candidates), NEW c \in Candidates, NEW b
  PROVE  LET next == KeepOrMerge(kept, c)
         IN  /\ next \in Seq(Candidates)
             /\ OfBucket(kept, b) /\ Bucket(c) = b /\ Attributed(c) => OfBucket(next, b)
             /\ Apart(kept) => Apart(next)
             /\ Holds(next, c)
             /\ \A d : Holds(kept, d) => Holds(next, d)
<1> DEFINE next == KeepOrMerge(kept, c)
           same == {i \in DOMAIN kept : Similarity(kept[i], c) >= DuplicateSimilarity}
           n == Len(kept)
<1>1. /\ n \in Nat /\ DOMAIN kept = 1 .. n /\ \A i \in 1 .. n : kept[i] \in Candidates
  OBVIOUS
<1>2. CASE same = {}
  <2>1. next = Append(kept, c)
    BY <1>2, Zenon DEF KeepOrMerge
  <2>2. /\ next \in Seq(Candidates) /\ DOMAIN next = 1 .. n + 1
        /\ \A i \in 1 .. n : next[i] = kept[i]
        /\ next[n + 1] = c
    BY <1>1, <2>1
  <2>3. \A i \in 1 .. n : Similarity(kept[i], c) < DuplicateSimilarity
    <3> SUFFICES ASSUME NEW i \in 1 .. n PROVE Similarity(kept[i], c) < DuplicateSimilarity
      OBVIOUS
    <3>1. kept[i] \in Candidates /\ ~(Similarity(kept[i], c) >= DuplicateSimilarity)
      BY <1>1, <1>2
    <3>2. Similarity(kept[i], c) \in Nat
      BY <3>1, SimilarityIsMutual
    <3> QED BY <3>1, <3>2 DEF DuplicateSimilarity
  <2>4. \A i \in 1 .. n : Similarity(c, kept[i]) < DuplicateSimilarity
    <3> SUFFICES ASSUME NEW i \in 1 .. n PROVE Similarity(c, kept[i]) < DuplicateSimilarity
      OBVIOUS
    <3>1. kept[i] \in Candidates
      BY <1>1
    <3> QED BY <2>3, <3>1, SimilarityIsMutual
  <2> HIDE DEF next, same
  <2>5. \A i \in 1 .. n + 1 : i = n + 1 \/ i \in 1 .. n
    BY <1>1
  <2>6. OfBucket(kept, b) /\ Bucket(c) = b /\ Attributed(c) => OfBucket(next, b)
    <3> SUFFICES ASSUME OfBucket(kept, b), Bucket(c) = b, Attributed(c), NEW i \in DOMAIN next
                 PROVE  Bucket(next[i]) = b /\ Attributed(next[i])
      BY DEF OfBucket
    <3>1. next[i] = c \/ \E k \in DOMAIN kept : next[i] = kept[k]
      BY <1>1, <2>2, <2>5
    <3>2. CASE next[i] = c
      BY <3>2, Zenon
    <3>3. ASSUME NEW k \in DOMAIN kept, next[i] = kept[k]
          PROVE  Bucket(next[i]) = b /\ Attributed(next[i])
      <4>1. Bucket(kept[k]) = b /\ Attributed(kept[k])
        BY Zenon DEF OfBucket
      <4> QED BY <3>3, <4>1, Zenon
    <3> QED BY <3>1, <3>2, <3>3
  <2>7. Apart(kept) => Apart(next)
    <3> SUFFICES ASSUME Apart(kept), NEW i \in 1 .. n + 1, NEW j \in 1 .. n + 1, i # j
                 PROVE  Similarity(next[i], next[j]) < DuplicateSimilarity
      BY <2>2 DEF Apart
    <3>1. CASE i \in 1 .. n /\ j \in 1 .. n
      BY <1>1, <2>2, <3>1 DEF Apart
    <3>2. CASE i = n + 1 /\ j \in 1 .. n
      BY <2>2, <2>4, <3>2
    <3>3. CASE i \in 1 .. n /\ j = n + 1
      BY <2>2, <2>3, <3>3
    <3> QED BY <2>5, <3>1, <3>2, <3>3
  <2>8. Holds(next, c)
    <3>1. n + 1 \in DOMAIN next
      BY <1>1, <2>2
    <3>2. c.refs \subseteq next[n + 1].refs /\ (c.numeric => next[n + 1].numeric)
      BY <2>2, Zenon
    <3> QED BY <3>1, <3>2, Zenon DEF Holds
  <2>9. ASSUME NEW d, Holds(kept, d) PROVE Holds(next, d)
    <3>1. PICK i \in 1 .. n : d.refs \subseteq kept[i].refs /\ (d.numeric => kept[i].numeric)
      BY <1>1, <2>9, Zenon DEF Holds
    <3>2. i \in DOMAIN next /\ next[i] = kept[i]
      BY <1>1, <2>2
    <3> QED BY <3>1, <3>2, Zenon DEF Holds
  <2> QED BY <2>2, <2>6, <2>7, <2>8, <2>9 DEF next
<1>3. CASE same # {}
  <2> DEFINE x == CHOOSE i \in same : \A j \in same : i <= j
             m == Merge(kept[x], c)
  <2>1. next = [kept EXCEPT ![x] = m]
    BY <1>3, Zenon DEF KeepOrMerge
  <2>2. x \in 1 .. n
    <3>1. same \in SUBSET Nat
      BY <1>1
    <3> HIDE DEF same
    <3>2. \E i \in same : \A j \in same : i <= j
      BY <1>3, <3>1, LeastOfNaturals
    <3>3. x \in same
      BY <3>2, Zenon
    <3> QED BY <1>1, <3>3 DEF same
  <2> HIDE DEF x, same
  <2>3. kept[x] \in Candidates
    BY <1>1, <2>2
  <2>4. /\ m \in Candidates /\ m.scope = kept[x].scope /\ m.subject = kept[x].subject
        /\ m.says = kept[x].says /\ m.numeric = (kept[x].numeric \/ c.numeric)
        /\ m.refs = kept[x].refs \cup c.refs
        /\ m.properties = kept[x].properties \cup c.properties
    BY <2>3, MergeAdds
  <2> HIDE DEF m
  <2>5. /\ next \in Seq(Candidates) /\ DOMAIN next = 1 .. n /\ next[x] = m
        /\ \A i \in 1 .. n : i # x => next[i] = kept[i]
    BY <1>1, <2>1, <2>2, <2>4
  <2> HIDE DEF next
  <2>6. OfBucket(kept, b) /\ Bucket(c) = b /\ Attributed(c) => OfBucket(next, b)
    <3> SUFFICES ASSUME OfBucket(kept, b), Bucket(c) = b, Attributed(c), NEW i \in 1 .. n
                 PROVE  Bucket(next[i]) = b /\ Attributed(next[i])
      BY <2>5 DEF OfBucket
    <3>1. CASE i = x
      <4>1. Bucket(kept[x]) = b /\ Attributed(kept[x])
        BY <1>1, <2>2 DEF OfBucket
      <4>2. kept[x].scope = c.scope
        BY <4>1 DEF Bucket
      <4>3. m.properties = {m.scope} \ {Unattributed}
        BY <2>4, <4>1, <4>2 DEF Attributed
      <4>4. Bucket(m) = b
        BY <2>4, <4>1, Zenon DEF Bucket
      <4> QED BY <2>5, <3>1, <4>3, <4>4 DEF Attributed
    <3>2. CASE i # x
      <4>1. i \in DOMAIN kept /\ next[i] = kept[i]
        BY <1>1, <2>5, <3>2
      <4>2. Bucket(kept[i]) = b /\ Attributed(kept[i])
        BY <4>1, Zenon DEF OfBucket
      <4> QED BY <4>1, <4>2, Zenon
    <3> QED BY <3>1, <3>2
  <2>7. Apart(kept) => Apart(next)
    <3> SUFFICES ASSUME Apart(kept), NEW i \in 1 .. n, NEW j \in 1 .. n, i # j
                 PROVE  Similarity(next[i], next[j]) < DuplicateSimilarity
      BY <2>5 DEF Apart
    <3>1. next[i].says = kept[i].says /\ next[j].says = kept[j].says
      BY <2>4, <2>5, Zenon
    <3>2. Similarity(kept[i], kept[j]) < DuplicateSimilarity
      BY <1>1 DEF Apart
    <3>3. Similarity(next[i], next[j]) = Similarity(kept[i], kept[j])
      BY <3>1, Zenon DEF Similarity
    <3> QED BY <3>2, <3>3
  <2>8. Holds(next, c)
    <3>1. c.refs \subseteq next[x].refs
      BY <2>4, <2>5
    <3>2. c.numeric => next[x].numeric
      BY <2>4, <2>5, Zenon
    <3> QED BY <2>2, <2>5, <3>1, <3>2, Zenon DEF Holds
  <2>9. ASSUME NEW d, Holds(kept, d) PROVE Holds(next, d)
    <3>1. PICK i \in 1 .. n : d.refs \subseteq kept[i].refs /\ (d.numeric => kept[i].numeric)
      BY <1>1, <2>9, Zenon DEF Holds
    <3>2. CASE i = x
      <4>1. d.refs \subseteq next[x].refs
        BY <2>4, <2>5, <3>1, <3>2
      <4>2. d.numeric => next[x].numeric
        BY <2>4, <2>5, <3>1, <3>2, Zenon
      <4> QED BY <2>2, <2>5, <4>1, <4>2, Zenon DEF Holds
    <3>3. CASE i # x
      BY <2>5, <3>1, <3>3, Zenon DEF Holds
    <3> QED BY <3>2, <3>3
  <2> QED BY <2>5, <2>6, <2>7, <2>8, <2>9 DEF next
<1> QED BY <1>2, <1>3

\* What a loop over some of the candidates keeps.
LEMMA KeptKeeps ==
  ASSUME NEW cs \in Seq(Candidates), NEW order \in Seq(DOMAIN cs), NEW b,
         \A k \in DOMAIN order : Bucket(cs[order[k]]) = b /\ Attributed(cs[order[k]])
  PROVE  LET kept == Kept(cs, order)
         IN  /\ kept \in Seq(Candidates) /\ OfBucket(kept, b) /\ Apart(kept)
             /\ \A k \in DOMAIN order : Holds(kept, cs[order[k]])
<1> DEFINE n == Len(order)
           S == Seq(Candidates)
           Unfolds(f) == f = [k \in 0 .. n |-> IF k = 0 THEN << >>
                                               ELSE KeepOrMerge(f[k - 1], cs[order[k]])]
           step == [p \in (0 .. n) \X S |-> IF p[1] = 0 THEN << >>
                                            ELSE KeepOrMerge(p[2], cs[order[p[1]]])]
<1>1. /\ n \in Nat /\ DOMAIN order = 1 .. n /\ << >> \in S
      /\ \A k \in 1 .. n : order[k] \in DOMAIN cs /\ cs[order[k]] \in Candidates
  OBVIOUS
<1>2. step \in [(0 .. n) \X S -> S]
  <2>1. ASSUME NEW p \in (0 .. n) \X S
        PROVE  (IF p[1] = 0 THEN << >> ELSE KeepOrMerge(p[2], cs[order[p[1]]])) \in S
    <3>1. CASE p[1] = 0
      BY <1>1, <3>1
    <3>2. CASE p[1] # 0
      <4>1. p[1] \in 1 .. n /\ p[2] \in S
        BY <1>1, <3>2
      <4>2. cs[order[p[1]]] \in Candidates
        BY <1>1, <4>1
      <4>3. KeepOrMerge(p[2], cs[order[p[1]]]) \in S
        BY <4>1, <4>2, KeepOrMergeKeeps
      <4> QED BY <3>2, <4>3
    <3> QED BY <3>1, <3>2
  <2> QED BY <2>1
<1>3. \A k \in 1 .. n, s \in S : step[<<k, s>>] = KeepOrMerge(s, cs[order[k]])
  BY <1>1
<1>4. Kept(cs, order) = (CHOOSE f : Unfolds(f))[n]
  BY Zenon DEF Kept
<1> HIDE DEF step, n
<1>5. PICK h \in [0 .. n -> S] : Iterates(h, n, << >>, step)
  <2> HIDE DEF S
  <2> QED BY <1>1, <1>2, RecursionExists, Zenon
<1>6. h[0] = << >> /\ \A k \in 1 .. n : h[k] = KeepOrMerge(h[k - 1], cs[order[k]])
  <2>1. h[0] = << >> /\ \A k \in 1 .. n : h[k] = step[<<k, h[k - 1]>>]
    BY <1>5, Zenon DEF Iterates
  <2>2. \A k \in 1 .. n : h[k - 1] \in S
    <3>1. \A k \in 1 .. n : k - 1 \in 0 .. n
      BY <1>1
    <3> HIDE DEF S
    <3> QED BY <1>5, <3>1, Zenon
  <2> HIDE DEF S
  <2>3. ASSUME NEW k \in 1 .. n PROVE h[k] = KeepOrMerge(h[k - 1], cs[order[k]])
    <3>1. step[<<k, h[k - 1]>>] = KeepOrMerge(h[k - 1], cs[order[k]])
      BY <1>3, <2>2, Zenon
    <3> QED BY <2>1, <3>1, Zenon
  <2> QED BY <2>1, <2>3, Zenon
<1>7. Unfolds(h)
  <2>1. \A k \in 0 .. n : k = 0 \/ k \in 1 .. n
    BY <1>1
  <2>2. h = [k \in 0 .. n |-> h[k]]
    <3> HIDE DEF S
    <3> QED BY <1>5
  <2> HIDE DEF S
  <2>3. \A k \in 0 .. n : h[k] = IF k = 0 THEN << >> ELSE KeepOrMerge(h[k - 1], cs[order[k]])
    <3> SUFFICES ASSUME NEW k \in 0 .. n
                 PROVE  h[k] = IF k = 0 THEN << >> ELSE KeepOrMerge(h[k - 1], cs[order[k]])
      OBVIOUS
    <3>1. CASE k = 0
      BY <1>6, <3>1, Zenon
    <3>2. CASE k # 0
      BY <1>6, <2>1, <3>2, Zenon
    <3> QED BY <3>1, <3>2
  <2> QED BY <2>2, <2>3
<1> DEFINE g == CHOOSE f : Unfolds(f)
<1>8. Unfolds(g)
  <2> HIDE DEF Unfolds
  <2> QED BY <1>7, Zenon
<1> HIDE DEF g
<1>9. g[0] = << >> /\ \A k \in 1 .. n : g[k] = KeepOrMerge(g[k - 1], cs[order[k]])
  <2>1. 0 \in 0 .. n /\ \A k \in 1 .. n : k \in 0 .. n /\ k # 0
    BY <1>1
  <2>2. \A k \in 0 .. n : g[k] = IF k = 0 THEN << >> ELSE KeepOrMerge(g[k - 1], cs[order[k]])
    BY <1>8, Zenon
  <2>3. g[0] = << >>
    BY <2>1, <2>2, Zenon
  <2>4. ASSUME NEW k \in 1 .. n PROVE g[k] = KeepOrMerge(g[k - 1], cs[order[k]])
    BY <2>1, <2>2, Zenon
  <2> QED BY <2>3, <2>4
<1> HIDE DEF Unfolds
<1> DEFINE Ok(k) == /\ g[k] \in Seq(Candidates) /\ OfBucket(g[k], b) /\ Apart(g[k])
                    /\ \A l \in 1 .. k : Holds(g[k], cs[order[l]])
           bad == {k \in Nat : k <= n /\ ~Ok(k)}
<1>10. Ok(0)
  <2>1. g[0] \in Seq(Candidates) /\ DOMAIN g[0] = {} /\ 1 .. 0 = {}
    BY <1>9
  <2> QED BY <2>1 DEF OfBucket, Apart
<1>11. ASSUME NEW k \in Nat, k + 1 <= n, Ok(k) PROVE Ok(k + 1)
  <2>1. k + 1 \in 1 .. n /\ (k + 1) - 1 = k /\ \A l \in 1 .. k + 1 : l = k + 1 \/ l \in 1 .. k
    <3> HIDE DEF Ok
    <3>1. n \in Nat /\ k \in Nat /\ k + 1 <= n
      BY <1>1, <1>11
    <3>2. k + 1 \in 1 .. n /\ (k + 1) - 1 = k
      BY <3>1
    <3>3. \A l \in 1 .. k + 1 : l = k + 1 \/ l \in 1 .. k
      BY <3>1
    <3> QED BY <3>2, <3>3
  <2> DEFINE s == g[k]  c == cs[order[k + 1]]
  <2>2. g[k + 1] = KeepOrMerge(s, c)
    BY <1>9, <2>1
  <2>3. s \in Seq(Candidates) /\ OfBucket(s, b) /\ Apart(s)
        /\ \A l \in 1 .. k : Holds(s, cs[order[l]])
    BY <1>11
  <2>4. c \in Candidates /\ Bucket(c) = b /\ Attributed(c)
    BY <1>1, <2>1
  <2> HIDE DEF s, c
  <2>5. /\ KeepOrMerge(s, c) \in Seq(Candidates)
        /\ OfBucket(KeepOrMerge(s, c), b) /\ Apart(KeepOrMerge(s, c))
        /\ Holds(KeepOrMerge(s, c), c)
        /\ \A d : Holds(s, d) => Holds(KeepOrMerge(s, c), d)
    BY <2>3, <2>4, KeepOrMergeKeeps
  <2>6. \A l \in 1 .. k + 1 : Holds(g[k + 1], cs[order[l]])
    BY <2>1, <2>2, <2>3, <2>5, Zenon DEF c
  <2>7. g[k + 1] \in Seq(Candidates)
    BY <2>2, <2>5
  <2>8. OfBucket(g[k + 1], b) /\ Apart(g[k + 1])
    BY <2>2, <2>5
  <2> QED BY <2>6, <2>7, <2>8
<1>12. bad = {}
  <2> HIDE DEF Ok
  <2> SUFFICES ASSUME bad # {} PROVE FALSE
    OBVIOUS
  <2>1. PICK m \in bad : \A k \in bad : m <= k
    BY LeastOfNaturals
  <2>2. m # 0
    BY <1>10, <2>1
  <2>3. m - 1 \in Nat /\ (m - 1) + 1 = m /\ m - 1 <= n /\ m <= n /\ m - 1 \notin bad
    BY <1>1, <2>1, <2>2
  <2>4. Ok(m - 1)
    BY <2>3
  <2>5. Ok((m - 1) + 1)
    BY <1>11, <2>3, <2>4
  <2> QED BY <2>1, <2>3, <2>5
<1>13. Ok(n)
  <2> HIDE DEF Ok
  <2>1. n \in Nat /\ n <= n
    BY <1>1
  <2>2. n \notin bad
    BY <1>12
  <2> QED BY <2>1, <2>2
<1>14. Kept(cs, order) = g[n]
  BY <1>4, Zenon DEF g
<1> QED BY <1>1, <1>13, <1>14, Zenon

\* Two places of a flattened sequence are two places of what it was made of.
LEMMA FlattenedPlaces ==
  ASSUME NEW S, NEW texts \in Seq(Seq(S))
  PROVE  \A x, y \in DOMAIN FlattenSeq(texts) : x # y =>
           \E k, l \in DOMAIN texts : \E p \in DOMAIN texts[k], q \in DOMAIN texts[l] :
             /\ FlattenSeq(texts)[x] = texts[k][p] /\ FlattenSeq(texts)[y] = texts[l][q]
             /\ k # l \/ p # q
<1> DEFINE flat == FlattenSeq(texts)
           n == Len(texts)
           Apart2(t, x, y, i) ==
             \E k, l \in 1 .. i : \E p \in DOMAIN texts[k], q \in DOMAIN texts[l] :
               t[x] = texts[k][p] /\ t[y] = texts[l][q] /\ (k # l \/ p # q)
<1>1. n \in Nat /\ DOMAIN texts = 1 .. n /\ \A i \in 1 .. n : texts[i] \in Seq(S)
  OBVIOUS
<1>2. CASE n = 0
  <2>1. texts = << >> /\ flat = << >>
    <3>1. texts = << >>
      BY <1>1, <1>2
    <3> QED BY <1>2, <3>1, Zenon DEF FlattenSeq
  <2> HIDE DEF flat
  <2>2. DOMAIN flat = {}
    BY <2>1
  <2> QED BY <2>2 DEF flat
<1>3. CASE n # 0
  <2>1. texts[1] \in Seq(S)
    BY <1>1, <1>3
  <2>2. PICK g : /\ g[1] = texts[1]
                 /\ \A i \in 2 .. n : g[i] = g[i - 1] \o texts[i]
                 /\ flat = g[n]
    BY <1>3, FlattenUnfolds, Zenon
  <2> HIDE DEF n, flat
  <2> DEFINE From(i, x) == \E k \in 1 .. i : \E p \in DOMAIN texts[k] : g[i][x] = texts[k][p]
             Ok(i) == /\ g[i] \in Seq(S)
                      /\ \A x \in DOMAIN g[i] : From(i, x)
                      /\ \A x, y \in DOMAIN g[i] : x # y => Apart2(g[i], x, y, i)
             bad == {i \in Nat : i \in 1 .. n /\ ~Ok(i)}
  <2>3. Ok(1)
    <3>1. 1 \in 1 .. 1 /\ g[1] \in Seq(S) /\ g[1] = texts[1]
      BY <2>1, <2>2
    <3>2. \A x \in DOMAIN g[1] : From(1, x)
      BY <3>1, Zenon
    <3>3. \A x, y \in DOMAIN g[1] : x # y => Apart2(g[1], x, y, 1)
      BY <3>1, Zenon
    <3> QED BY <3>1, <3>2, <3>3, Zenon
  <2>4. ASSUME NEW i \in 1 .. n, i # n, Ok(i) PROVE Ok(i + 1)
    <3>1. /\ i + 1 \in 2 .. n /\ i + 1 \in 1 .. n /\ (i + 1) - 1 = i
          /\ \A k \in 1 .. i : k \in 1 .. i + 1 /\ k # i + 1
          /\ i + 1 \in 1 .. i + 1
      BY <1>1, <2>4
    <3> DEFINE a == g[i]  b == texts[i + 1]  c == g[i + 1]
    <3>2. c = a \o b /\ a \in Seq(S) /\ b \in Seq(S)
      BY <1>1, <2>2, <2>4, <3>1
    <3>3. \A x, y \in DOMAIN a : x # y => Apart2(a, x, y, i)
      BY <2>4
    <3>p. \A x \in DOMAIN a : \E k \in 1 .. i : \E p \in DOMAIN texts[k] : a[x] = texts[k][p]
      BY <2>4
    <3> HIDE DEF a, c
    <3>4. /\ c \in Seq(S)
          /\ \A x \in DOMAIN c : \/ x \in DOMAIN a /\ c[x] = a[x]
                                 \/ x \notin DOMAIN a /\ x - Len(a) \in DOMAIN b
                                    /\ c[x] = b[x - Len(a)]
          /\ Len(a) \in Nat /\ \A x \in DOMAIN c : x \in Nat
      <4> HIDE DEF b
      <4>1. /\ c \in Seq(S) /\ DOMAIN c = 1 .. Len(a) + Len(b)
            /\ Len(a) \in Nat /\ Len(b) \in Nat
            /\ DOMAIN a = 1 .. Len(a) /\ DOMAIN b = 1 .. Len(b)
            /\ \A x \in 1 .. Len(a) : c[x] = a[x]
            /\ \A x \in 1 .. Len(b) : c[Len(a) + x] = b[x]
        BY <3>2
      <4>2. ASSUME NEW x \in DOMAIN c, x \notin DOMAIN a
            PROVE  x - Len(a) \in DOMAIN b /\ c[x] = b[x - Len(a)]
        <5>1. x - Len(a) \in 1 .. Len(b) /\ Len(a) + (x - Len(a)) = x
          BY <4>1, <4>2
        <5> QED BY <4>1, <5>1
      <4> QED BY <4>1, <4>2
    <3>5. \A x \in DOMAIN c :
            \E k \in 1 .. i + 1 : \E p \in DOMAIN texts[k] : c[x] = texts[k][p]
      <4> SUFFICES ASSUME NEW x \in DOMAIN c
                   PROVE  \E k \in 1 .. i + 1 : \E p \in DOMAIN texts[k] : c[x] = texts[k][p]
        OBVIOUS
      <4>1. CASE x \in DOMAIN a /\ c[x] = a[x]
        <5>1. PICK k \in 1 .. i : \E p \in DOMAIN texts[k] : a[x] = texts[k][p]
          BY <3>p, <4>1, Zenon
        <5>2. k \in 1 .. i + 1
          BY <3>1
        <5> QED BY <4>1, <5>1, <5>2, Zenon
      <4>2. CASE x - Len(a) \in DOMAIN b /\ c[x] = b[x - Len(a)]
        BY <3>1, <4>2, Zenon
      <4> QED BY <3>4, <4>1, <4>2
    <3>6. \A x, y \in DOMAIN c : x # y => Apart2(c, x, y, i + 1)
      <4> SUFFICES ASSUME NEW x \in DOMAIN c, NEW y \in DOMAIN c, x # y
                   PROVE  Apart2(c, x, y, i + 1)
        OBVIOUS
      <4>1. CASE x \in DOMAIN a /\ y \in DOMAIN a
        <5>1. c[x] = a[x] /\ c[y] = a[y]
          BY <3>4, <4>1
        <5>2. PICK k \in 1 .. i, l \in 1 .. i :
                \E p \in DOMAIN texts[k], q \in DOMAIN texts[l] :
                  a[x] = texts[k][p] /\ a[y] = texts[l][q] /\ (k # l \/ p # q)
          BY <3>3, <4>1, Zenon
        <5>3. PICK p \in DOMAIN texts[k], q \in DOMAIN texts[l] :
                a[x] = texts[k][p] /\ a[y] = texts[l][q] /\ (k # l \/ p # q)
          BY <5>2, Zenon
        <5>4. c[x] = texts[k][p] /\ c[y] = texts[l][q] /\ (k # l \/ p # q)
          BY <5>1, <5>3, Zenon
        <5>5. k \in 1 .. i + 1 /\ l \in 1 .. i + 1
          BY <3>1
        <5> QED BY <5>4, <5>5, Zenon
      <4>2. CASE x \in DOMAIN a /\ y \notin DOMAIN a
        <5>1. PICK k \in 1 .. i : \E p \in DOMAIN texts[k] : a[x] = texts[k][p]
          BY <3>p, <4>2, Zenon
        <5>2. PICK p \in DOMAIN texts[k] : a[x] = texts[k][p]
          BY <5>1, Zenon
        <5>3. c[x] = texts[k][p]
          BY <3>4, <4>2, <5>2
        <5>4. y - Len(a) \in DOMAIN texts[i + 1] /\ c[y] = texts[i + 1][y - Len(a)]
          BY <3>4, <4>2
        <5>5. k \in 1 .. i + 1 /\ k # i + 1 /\ i + 1 \in 1 .. i + 1
          BY <3>1
        <5> DEFINE q == y - Len(a)  l == i + 1
        <5>6. q \in DOMAIN texts[l] /\ c[y] = texts[l][q] /\ l \in 1 .. l /\ k \in 1 .. l /\ k # l
          BY <5>4, <5>5
        <5> HIDE DEF q, l
        <5>7. Apart2(c, x, y, l)
          BY <5>3, <5>6, Zenon
        <5> QED BY <5>7, Zenon DEF l
      <4>3. CASE x \notin DOMAIN a /\ y \in DOMAIN a
        <5>1. PICK k \in 1 .. i : \E p \in DOMAIN texts[k] : a[y] = texts[k][p]
          BY <3>p, <4>3, Zenon
        <5>2. PICK p \in DOMAIN texts[k] : a[y] = texts[k][p]
          BY <5>1, Zenon
        <5>3. c[y] = texts[k][p]
          BY <3>4, <4>3, <5>2
        <5>4. x - Len(a) \in DOMAIN texts[i + 1] /\ c[x] = texts[i + 1][x - Len(a)]
          BY <3>4, <4>3
        <5>5. k \in 1 .. i + 1 /\ k # i + 1 /\ i + 1 \in 1 .. i + 1
          BY <3>1
        <5> DEFINE q == x - Len(a)  l == i + 1
        <5>6. q \in DOMAIN texts[l] /\ c[x] = texts[l][q] /\ l \in 1 .. l /\ k \in 1 .. l /\ k # l
          BY <5>4, <5>5
        <5> HIDE DEF q, l
        <5>7. Apart2(c, x, y, l)
          BY <5>3, <5>6, Zenon
        <5> QED BY <5>7, Zenon DEF l
      <4>4. CASE x \notin DOMAIN a /\ y \notin DOMAIN a
        <5>1. /\ x - Len(a) \in DOMAIN texts[i + 1] /\ c[x] = texts[i + 1][x - Len(a)]
              /\ y - Len(a) \in DOMAIN texts[i + 1] /\ c[y] = texts[i + 1][y - Len(a)]
          BY <3>4, <4>4
        <5>2. x - Len(a) # y - Len(a)
          BY <3>4
        <5>3. i + 1 \in 1 .. i + 1
          BY <3>1
        <5> DEFINE p == x - Len(a)  q == y - Len(a)  k == i + 1
        <5>4. /\ p \in DOMAIN texts[k] /\ q \in DOMAIN texts[k] /\ p # q /\ k \in 1 .. k
              /\ c[x] = texts[k][p] /\ c[y] = texts[k][q]
          BY <5>1, <5>2, <5>3
        <5> HIDE DEF p, q, k
        <5>5. Apart2(c, x, y, k)
          BY <5>4, Zenon
        <5> QED BY <5>5 DEF k
      <4> QED BY <4>1, <4>2, <4>3, <4>4
    <3> QED BY <3>4, <3>5, <3>6, Zenon DEF c
  <2>5. bad = {}
    <3> HIDE DEF Ok
    <3> SUFFICES ASSUME bad # {} PROVE FALSE
      OBVIOUS
    <3>1. PICK m \in bad : \A i \in bad : m <= i
      BY LeastOfNaturals
    <3>2. m # 1
      BY <2>3, <3>1
    <3>3. m - 1 \in Nat /\ m - 1 \in 1 .. n /\ m - 1 # n /\ (m - 1) + 1 = m /\ m - 1 \notin bad
      BY <1>1, <3>1, <3>2
    <3>4. Ok(m - 1)
      BY <3>3
    <3>5. Ok((m - 1) + 1)
      BY <2>4, <3>3, <3>4
    <3> QED BY <3>1, <3>3, <3>5
  <2>6. Ok(n)
    <3> HIDE DEF Ok
    <3>1. n \in Nat /\ n \in 1 .. n
      BY <1>1, <1>3
    <3> QED BY <2>5, <3>1
  <2>7. \A x, y \in DOMAIN flat : x # y => Apart2(flat, x, y, n)
    BY <2>2, <2>6
  <2>8. \A x, y \in DOMAIN flat : x # y =>
          \E k, l \in DOMAIN texts : \E p \in DOMAIN texts[k], q \in DOMAIN texts[l] :
            flat[x] = texts[k][p] /\ flat[y] = texts[l][q] /\ (k # l \/ p # q)
    <3>1. DOMAIN texts = 1 .. n
      BY <1>1
    <3> HIDE DEF Apart2
    <3> SUFFICES ASSUME NEW x \in DOMAIN flat, NEW y \in DOMAIN flat, x # y
                 PROVE  \E k, l \in DOMAIN texts :
                          \E p \in DOMAIN texts[k], q \in DOMAIN texts[l] :
                            flat[x] = texts[k][p] /\ flat[y] = texts[l][q] /\ (k # l \/ p # q)
      OBVIOUS
    <3>2. Apart2(flat, x, y, n)
      BY <2>7
    <3> QED BY <3>1, <3>2 DEF Apart2
  <2> QED BY <2>8 DEF flat
<1> QED BY <1>2, <1>3

\* The first place of every key of a list is one of those Firsts has, and two of
\* those have two keys.
LEMMA FirstsAreOnePerKey ==
  ASSUME NEW keys, DOMAIN keys \in SUBSET Nat
  PROVE  /\ Firsts(keys) \in SUBSET DOMAIN keys
         /\ \A i, j \in Firsts(keys) : i # j => keys[i] # keys[j]
         /\ \A i \in DOMAIN keys : \E j \in Firsts(keys) : keys[j] = keys[i]
<1>1. Firsts(keys) \in SUBSET DOMAIN keys
  BY DEF Firsts
<1>2. ASSUME NEW i \in Firsts(keys), NEW j \in Firsts(keys), i # j PROVE keys[i] # keys[j]
  <2>1. i \in Nat /\ j \in Nat
    BY <1>1
  <2>2. i < j \/ j < i
    BY <1>2, <2>1
  <2> QED BY <1>1, <2>2 DEF Firsts
<1>3. ASSUME NEW i \in DOMAIN keys PROVE \E j \in Firsts(keys) : keys[j] = keys[i]
  <2> DEFINE same == {j \in Nat : j \in DOMAIN keys /\ keys[j] = keys[i]}
  <2>1. i \in same
    OBVIOUS
  <2>2. PICK m \in same : \A j \in same : m <= j
    BY <2>1, LeastOfNaturals
  <2>3. \A j \in DOMAIN keys : j < m => keys[j] # keys[m]
    <3> SUFFICES ASSUME NEW j \in DOMAIN keys, j < m, keys[j] = keys[m] PROVE FALSE
      OBVIOUS
    <3>1. j \in Nat /\ m \in Nat /\ j \in same
      BY <2>2
    <3>2. m <= j
      BY <2>2, <3>1
    <3> QED BY <3>1, <3>2
  <2> QED BY <2>2, <2>3 DEF Firsts
<1> QED BY <1>1, <1>2, <1>3

\* What consolidating a list of candidates leaves: no two rules of one bucket that
\* repeat each other, and the evidence and the flag of every candidate in a rule of
\* its bucket.
LEMMA ConsolidatedKeeps ==
  ASSUME NEW cs \in Seq(Candidates), \A i \in DOMAIN cs : Attributed(cs[i])
  PROVE  LET rules == Consolidated(cs)
         IN  /\ rules \in Seq(Candidates) /\ \A i \in DOMAIN rules : Attributed(rules[i])
             /\ \A i, j \in DOMAIN rules : i # j /\ Bucket(rules[i]) = Bucket(rules[j])
                  => Similarity(rules[i], rules[j]) < DuplicateSimilarity
             /\ \A i \in DOMAIN cs : \E j \in DOMAIN rules :
                  /\ Bucket(rules[j]) = Bucket(cs[i]) /\ cs[i].refs \subseteq rules[j].refs
                  /\ cs[i].numeric => rules[j].numeric
<1> DEFINE buckets == [i \in DOMAIN cs |-> Bucket(cs[i])]
           firsts == Firsts(buckets)
           order == AsTheyCome(firsts)
           members(k) == {i \in DOMAIN cs : buckets[i] = buckets[order[k]]}
           texts == [k \in DOMAIN order |-> Kept(cs, ByEvidence(cs, members(k)))]
           rules == Consolidated(cs)
<1>1. rules = FlattenSeq(texts)
  BY Zenon DEF Consolidated
<1>2. /\ Len(cs) \in Nat /\ DOMAIN cs = 1 .. Len(cs) /\ DOMAIN cs \in SUBSET Nat
      /\ \A i \in DOMAIN cs : cs[i] \in Candidates
  OBVIOUS
<1>3. DOMAIN buckets = DOMAIN cs /\ \A i \in DOMAIN cs : buckets[i] = Bucket(cs[i])
  OBVIOUS
<1> HIDE DEF buckets, rules
<1>4. /\ firsts \in SUBSET DOMAIN cs
      /\ \A i, j \in firsts : i # j => buckets[i] # buckets[j]
      /\ \A i \in DOMAIN cs : \E j \in firsts : buckets[j] = buckets[i]
  BY <1>2, <1>3, FirstsAreOnePerKey
<1> HIDE DEF firsts
<1>5. firsts \in SUBSET Nat /\ IsFiniteSet(firsts)
  <2>1. IsFiniteSet(1 .. Len(cs))
    BY <1>2, FS_Interval
  <2>2. firsts \in SUBSET (1 .. Len(cs))
    BY <1>2, <1>4
  <2> QED BY <1>2, <2>1, <2>2, FS_Subset
<1>6. /\ order \in Seq(firsts) /\ Len(order) \in Nat /\ DOMAIN order = 1 .. Len(order)
      /\ \A i \in firsts : \E k \in DOMAIN order : order[k] = i
      /\ \A k, l \in DOMAIN order : k # l => order[k] # order[l]
  BY <1>5, PlacedAsTheyCome
<1> HIDE DEF order
<1>7. \A k \in DOMAIN order : order[k] \in firsts /\ order[k] \in DOMAIN cs
  BY <1>4, <1>6
<1>8. ASSUME NEW k \in DOMAIN order
      PROVE  /\ texts[k] \in Seq(Candidates) /\ OfBucket(texts[k], buckets[order[k]])
             /\ Apart(texts[k]) /\ \A i \in members(k) : Holds(texts[k], cs[i])
  <2> DEFINE S == members(k)  placed == ByEvidence(cs, S)  b == buckets[order[k]]
  <2>1. S \in SUBSET DOMAIN cs
    OBVIOUS
  <2>2. \A i \in S : Bucket(cs[i]) = b /\ Attributed(cs[i])
    BY <1>3
  <2>3. texts[k] = Kept(cs, placed)
    OBVIOUS
  <2> HIDE DEF S, texts
  <2>4. /\ placed \in Seq(S) /\ DOMAIN placed = 1 .. Len(placed)
        /\ \A i \in S : \E l \in DOMAIN placed : placed[l] = i
    BY <2>1, PlacedByEvidence
  <2> HIDE DEF placed, b
  <2>5. /\ placed \in Seq(DOMAIN cs)
        /\ \A l \in DOMAIN placed : Bucket(cs[placed[l]]) = b /\ Attributed(cs[placed[l]])
    <3>1. \A l \in DOMAIN placed : placed[l] \in S
      BY <2>4
    <3> QED BY <2>1, <2>2, <2>4, <3>1
  <2>6. /\ Kept(cs, placed) \in Seq(Candidates) /\ OfBucket(Kept(cs, placed), b)
        /\ Apart(Kept(cs, placed))
        /\ \A l \in DOMAIN placed : Holds(Kept(cs, placed), cs[placed[l]])
    BY <2>5, KeptKeeps
  <2>7. \A i \in S : Holds(Kept(cs, placed), cs[i])
    BY <2>4, <2>6
  <2> QED BY <2>3, <2>6, <2>7 DEF b, S
<1>9. DOMAIN texts = DOMAIN order /\ texts \in Seq(Seq(Candidates))
  <2>1. texts = [k \in 1 .. Len(order) |-> texts[k]] /\ DOMAIN texts = 1 .. Len(order)
    BY <1>6
  <2> HIDE DEF texts
  <2>2. \A k \in 1 .. Len(order) : texts[k] \in Seq(Candidates)
    BY <1>6, <1>8
  <2>3. texts \in [1 .. Len(order) -> Seq(Candidates)]
    BY <2>1, <2>2
  <2> DEFINE T == Seq(Candidates)
  <2>4. texts \in Seq(T)
    <3> DEFINE n == Len(order)
    <3>1. n \in Nat /\ texts \in [1 .. n -> T]
      BY <1>6, <2>3, Zenon
    <3> HIDE DEF T, n
    <3> QED BY <3>1
  <2> QED BY <1>6, <2>1, <2>4, Zenon
<1> HIDE DEF texts
<1>10. /\ rules \in Seq(Candidates)
       /\ ToSet(rules) = UNION {ToSet(texts[k]) : k \in DOMAIN texts}
  BY <1>1, <1>9, FlattenedWords
<1>11. \A x, y \in DOMAIN rules : x # y =>
         \E k, l \in DOMAIN texts : \E p \in DOMAIN texts[k], q \in DOMAIN texts[l] :
           rules[x] = texts[k][p] /\ rules[y] = texts[l][q] /\ (k # l \/ p # q)
  BY <1>1, <1>9, FlattenedPlaces
<1>12. ASSUME NEW x \in DOMAIN rules PROVE Attributed(rules[x])
  <2>1. rules[x] \in ToSet(rules)
    BY DEF ToSet
  <2>2. PICK k \in DOMAIN texts : rules[x] \in ToSet(texts[k])
    BY <1>10, <2>1
  <2>3. PICK p \in DOMAIN texts[k] : rules[x] = texts[k][p]
    BY <2>2 DEF ToSet
  <2>4. OfBucket(texts[k], buckets[order[k]])
    BY <1>8, <1>9
  <2> QED BY <2>3, <2>4, Zenon DEF OfBucket
<1>13. ASSUME NEW x \in DOMAIN rules, NEW y \in DOMAIN rules, x # y,
              Bucket(rules[x]) = Bucket(rules[y])
       PROVE  Similarity(rules[x], rules[y]) < DuplicateSimilarity
  <2>1. PICK k \in DOMAIN texts, l \in DOMAIN texts :
          \E p \in DOMAIN texts[k], q \in DOMAIN texts[l] :
            rules[x] = texts[k][p] /\ rules[y] = texts[l][q] /\ (k # l \/ p # q)
    BY <1>11, <1>13
  <2>2. PICK p \in DOMAIN texts[k], q \in DOMAIN texts[l] :
            rules[x] = texts[k][p] /\ rules[y] = texts[l][q] /\ (k # l \/ p # q)
    BY <2>1
  <2>3. k \in DOMAIN order /\ l \in DOMAIN order
    BY <1>9
  <2>4. OfBucket(texts[k], buckets[order[k]]) /\ OfBucket(texts[l], buckets[order[l]])
    BY <1>8, <2>3
  <2>5. Bucket(rules[x]) = buckets[order[k]] /\ Bucket(rules[y]) = buckets[order[l]]
    BY <2>2, <2>4, Zenon DEF OfBucket
  <2>6. k = l
    <3>1. buckets[order[k]] = buckets[order[l]]
      BY <1>13, <2>5
    <3>2. order[k] = order[l]
      BY <1>4, <1>7, <2>3, <3>1
    <3> QED BY <1>6, <2>3, <3>2
  <2>7. Apart(texts[k])
    BY <1>8, <2>3
  <2>8. p \in DOMAIN texts[k] /\ q \in DOMAIN texts[k] /\ p # q
        /\ rules[x] = texts[k][p] /\ rules[y] = texts[k][q]
    BY <2>2, <2>6
  <2> QED BY <2>7, <2>8, Zenon DEF Apart
<1>14. ASSUME NEW i \in DOMAIN cs
       PROVE  \E j \in DOMAIN rules :
                /\ Bucket(rules[j]) = Bucket(cs[i]) /\ cs[i].refs \subseteq rules[j].refs
                /\ cs[i].numeric => rules[j].numeric
  <2>1. PICK f \in firsts : buckets[f] = buckets[i]
    BY <1>4
  <2>2. PICK k \in DOMAIN order : order[k] = f
    BY <1>6
  <2>3. i \in members(k)
    BY <2>1, <2>2
  <2>4. Holds(texts[k], cs[i]) /\ OfBucket(texts[k], buckets[order[k]])
    BY <1>8, <2>3
  <2>5. PICK p \in DOMAIN texts[k] : /\ cs[i].refs \subseteq texts[k][p].refs
                                     /\ cs[i].numeric => texts[k][p].numeric
    BY <2>4, Zenon DEF Holds
  <2>6. texts[k][p] \in ToSet(rules)
    <3>1. texts[k][p] \in ToSet(texts[k])
      BY DEF ToSet
    <3> QED BY <1>9, <1>10, <3>1
  <2>7. PICK j \in DOMAIN rules : rules[j] = texts[k][p]
    BY <2>6 DEF ToSet
  <2>8. Bucket(rules[j]) = Bucket(cs[i])
    <3>1. Bucket(texts[k][p]) = buckets[order[k]]
      BY <2>4, Zenon DEF OfBucket
    <3> QED BY <1>3, <2>1, <2>2, <2>7, <3>1, Zenon
  <2> QED BY <2>5, <2>7, <2>8, Zenon
<1> QED BY <1>10, <1>12, <1>13, <1>14 DEF rules

\* What screening lets through.
LEMMA CollectedAreCandidates ==
  ASSUME NEW answers \in Seq(GroupAnswer)
  PROVE  LET cs == Collected(answers)
         IN  cs \in Seq(Candidates) /\ \A i \in DOMAIN cs : Attributed(cs[i])
<1> DEFINE S == {i \in DOMAIN answers : Accepted(answers[i])}
           accepted == AsTheyCome(S)
           cs == Collected(answers)
<1>1. S \in SUBSET Nat /\ IsFiniteSet(S) /\ S \in SUBSET DOMAIN answers
  <2>1. Len(answers) \in Nat /\ S \in SUBSET (1 .. Len(answers)) /\ DOMAIN answers = 1 .. Len(answers)
    OBVIOUS
  <2>2. IsFiniteSet(1 .. Len(answers))
    BY <2>1, FS_Interval
  <2> HIDE DEF S
  <2>3. IsFiniteSet(S)
    BY <2>1, <2>2, FS_Subset
  <2> QED BY <2>1, <2>3
<1>2. cs = [k \in DOMAIN accepted |-> Candidate(answers[accepted[k]])]
  BY Zenon DEF Collected
<1> HIDE DEF S, cs
<1>3. accepted \in Seq(S) /\ Len(accepted) \in Nat /\ DOMAIN accepted = 1 .. Len(accepted)
  BY <1>1, PlacedAsTheyCome
<1> HIDE DEF accepted
<1>4. ASSUME NEW k \in DOMAIN accepted
      PROVE  Candidate(answers[accepted[k]]) \in Candidates
             /\ Attributed(Candidate(answers[accepted[k]]))
  <2> DEFINE a == answers[accepted[k]]
  <2>1. accepted[k] \in S
    BY <1>3
  <2>0. accepted[k] \in DOMAIN answers
    BY <1>1, <2>1
  <2>2. a \in GroupAnswer
    BY <2>0
  <2> HIDE DEF a
  <2>3. ("numeric" \in Marks[a.says]) \in BOOLEAN
    OBVIOUS
  <2>4. Candidate(a) \in Candidates
    BY <2>2, <2>3 DEF Candidate, Candidates, GroupAnswer
  <2>5. Attributed(Candidate(a))
    BY DEF Candidate, Attributed
  <2> QED BY <2>4, <2>5 DEF a
<1>5. cs \in Seq(Candidates) /\ DOMAIN cs = DOMAIN accepted
  BY <1>2, <1>3, <1>4
<1>6. \A i \in DOMAIN cs : Attributed(cs[i])
  BY <1>2, <1>4, <1>5
<1> QED BY <1>5, <1>6 DEF cs

\* What a promotion combines: the words of the first, the evidence of all, and the
\* properties they are of.
LEMMA CombinedAdds ==
  ASSUME NEW cs \in Seq(Candidates), NEW order \in Seq(DOMAIN cs), Len(order) # 0,
         \A k \in DOMAIN order : Attributed(cs[order[k]]) /\ ~cs[order[k]].numeric
                                 /\ cs[order[k]].scope # Unattributed
  PROVE  LET rule == Combined(cs, order)
         IN  /\ rule \in Candidates /\ rule.scope = Unattributed /\ ~rule.numeric
             /\ rule.subject = cs[order[1]].subject /\ rule.says = cs[order[1]].says
             /\ \A k \in DOMAIN order : cs[order[k]].refs \subseteq rule.refs
             /\ rule.properties = {cs[order[k]].scope : k \in DOMAIN order}
<1> DEFINE n == Len(order)
           S == Candidates
           c(k) == cs[order[k]]
           Unfolds(f) == f = [k \in 1 .. n |-> IF k = 1 THEN c(k) ELSE Merge(f[k - 1], c(k))]
           step == [p \in (0 .. n - 1) \X S |-> Merge(p[2], c(p[1] + 1))]
           scopes == {cs[order[k]].scope : k \in DOMAIN order}
           rule == Combined(cs, order)
<1>1. /\ n \in Nat /\ n # 0 /\ n - 1 \in Nat /\ DOMAIN order = 1 .. n /\ 1 \in 1 .. n
      /\ \A k \in 1 .. n : c(k) \in Candidates
  OBVIOUS
<1>2. /\ step \in [(0 .. n - 1) \X S -> S]
      /\ \A k \in 0 .. n - 1, s \in S : step[<<k, s>>] = Merge(s, c(k + 1))
  <2>1. ASSUME NEW p \in (0 .. n - 1) \X S PROVE Merge(p[2], c(p[1] + 1)) \in S
    <3>1. p[2] \in Candidates /\ p[1] + 1 \in 1 .. n
      BY <1>1
    <3>2. c(p[1] + 1) \in Candidates
      BY <1>1, <3>1
    <3> HIDE DEF c
    <3> QED BY <3>1, <3>2, MergeAdds
  <2> HIDE DEF c, n
  <2> QED BY <2>1
<1>3. rule = [(CHOOSE f : Unfolds(f))[n] EXCEPT !.scope = Unattributed,
                                                 !.properties = @ \cup scopes]
  BY Zenon DEF Combined
<1> HIDE DEF step, n, c, scopes, rule
<1>4. PICK h \in [0 .. n - 1 -> S] : Iterates(h, n - 1, c(1), step)
  <2> HIDE DEF S
  <2>1. c(1) \in S
    BY <1>1 DEF S
  <2> QED BY <1>1, <1>2, <2>1, RecursionExists, Zenon
<1>5. h[0] = c(1) /\ \A k \in 1 .. n - 1 : h[k] = Merge(h[k - 1], c(k + 1))
  <2> HIDE DEF S
  <2>1. h[0] = c(1) /\ \A k \in 1 .. n - 1 : h[k] = step[<<k, h[k - 1]>>]
    BY <1>4, Zenon DEF Iterates
  <2>2. \A k \in 1 .. n - 1 : k - 1 \in 0 .. n - 1 /\ k \in 0 .. n - 1
    BY <1>1
  <2>3. \A k \in 1 .. n - 1 : h[k - 1] \in S
    BY <1>4, <2>2
  <2> QED BY <1>2, <2>1, <2>2, <2>3
<1> DEFINE f == [k \in 1 .. n |-> h[k - 1]]
<1>6. Unfolds(f)
  <2>1. ASSUME NEW k \in 1 .. n
        PROVE  f[k] = IF k = 1 THEN c(k) ELSE Merge(f[k - 1], c(k))
    <3>1. CASE k = 1
      BY <1>5, <3>1
    <3>2. CASE k # 1
      <4>1. k - 1 \in 1 .. n - 1 /\ k - 1 \in 1 .. n /\ (k - 1) + 1 = k
        BY <1>1, <3>2
      <4>2. f[k] = h[k - 1] /\ f[k - 1] = h[(k - 1) - 1]
        BY <4>1
      <4>3. h[k - 1] = Merge(h[(k - 1) - 1], c((k - 1) + 1))
        BY <1>5, <4>1
      <4>4. f[k] = Merge(f[k - 1], c(k))
        BY <4>1, <4>2, <4>3
      <4> HIDE DEF f
      <4> QED BY <3>2, <4>4
    <3> QED BY <3>1, <3>2
  <2> HIDE DEF f
  <2>2. f = [k \in 1 .. n |-> f[k]]
    BY DEF f
  <2> QED BY <2>1, <2>2
<1> DEFINE g == CHOOSE x : Unfolds(x)
<1>7. Unfolds(g)
  <2> HIDE DEF Unfolds, f
  <2> QED BY <1>6, Zenon
<1> HIDE DEF g, f
<1>8. g[1] = c(1) /\ \A k \in 2 .. n : g[k] = Merge(g[k - 1], c(k))
  <2>1. 1 \in 1 .. n /\ \A k \in 2 .. n : k \in 1 .. n /\ k # 1
    BY <1>1
  <2>2. \A k \in 1 .. n : g[k] = IF k = 1 THEN c(k) ELSE Merge(g[k - 1], c(k))
    BY <1>7, Zenon
  <2>3. g[1] = c(1)
    BY <2>1, <2>2, Zenon
  <2>4. ASSUME NEW k \in 2 .. n PROVE g[k] = Merge(g[k - 1], c(k))
    BY <2>1, <2>2, Zenon
  <2> QED BY <2>3, <2>4
<1> HIDE DEF Unfolds
<1>9. \A k \in 1 .. n : /\ c(k).properties = {c(k).scope} /\ ~c(k).numeric
                        /\ c(k).scope \in scopes
  <2> SUFFICES ASSUME NEW k \in 1 .. n
               PROVE  c(k).properties = {c(k).scope} /\ ~c(k).numeric /\ c(k).scope \in scopes
    OBVIOUS
  <2>1. k \in DOMAIN order /\ c(k) = cs[order[k]]
    BY <1>1 DEF c
  <2>2. Attributed(c(k)) /\ ~c(k).numeric /\ c(k).scope # Unattributed
    BY <2>1, Zenon
  <2> QED BY <2>1, <2>2 DEF Attributed, scopes
<1> DEFINE Ok(k) == /\ g[k] \in Candidates /\ ~g[k].numeric
                    /\ g[k].subject = c(1).subject /\ g[k].says = c(1).says
                    /\ \A l \in 1 .. k : c(l).refs \subseteq g[k].refs
                    /\ g[k].properties \subseteq scopes
           bad == {k \in Nat : k \in 1 .. n /\ ~Ok(k)}
<1>10. Ok(1)
  <2>1. \A l \in 1 .. 1 : l = 1
    OBVIOUS
  <2>2. g[1].properties \subseteq scopes
    BY <1>1, <1>8, <1>9
  <2>3. ~g[1].numeric
    BY <1>1, <1>8, <1>9, Zenon
  <2>4. \A l \in 1 .. 1 : c(l).refs \subseteq g[1].refs
    BY <1>8, <2>1
  <2> QED BY <1>1, <1>8, <2>2, <2>3, <2>4, Zenon
<1>11. ASSUME NEW k \in 1 .. n, k # n, Ok(k) PROVE Ok(k + 1)
  <2>1. /\ k + 1 \in 2 .. n /\ k + 1 \in 1 .. n /\ (k + 1) - 1 = k
        /\ \A l \in 1 .. k + 1 : l = k + 1 \/ l \in 1 .. k
    BY <1>1, <1>11
  <2> DEFINE x == g[k]  y == c(k + 1)  z == g[k + 1]
  <2>2. z = Merge(x, y) /\ x \in Candidates /\ y \in Candidates
    BY <1>1, <1>8, <1>11, <2>1
  <2>3. /\ ~x.numeric /\ x.subject = c(1).subject /\ x.says = c(1).says
        /\ \A l \in 1 .. k : c(l).refs \subseteq x.refs
        /\ x.properties \subseteq scopes
    BY <1>11
  <2>4. y.properties \subseteq scopes /\ ~y.numeric
    BY <1>9, <2>1
  <2> HIDE DEF x, z
  <2>5. /\ z \in Candidates /\ z.subject = x.subject /\ z.says = x.says
        /\ z.numeric = (x.numeric \/ y.numeric)
        /\ z.refs = x.refs \cup y.refs /\ z.properties = x.properties \cup y.properties
    <3> HIDE DEF y
    <3> QED BY <2>2, MergeAdds
  <2>6. ~z.numeric
    BY <2>3, <2>4, <2>5, Zenon
  <2>7. \A l \in 1 .. k + 1 : c(l).refs \subseteq z.refs
    BY <2>1, <2>3, <2>5
  <2>8. z.properties \subseteq scopes
    BY <2>3, <2>4, <2>5
  <2> QED BY <2>3, <2>5, <2>6, <2>7, <2>8, Zenon DEF z
<1>12. bad = {}
  <2> HIDE DEF Ok
  <2> SUFFICES ASSUME bad # {} PROVE FALSE
    OBVIOUS
  <2>1. PICK m \in bad : \A k \in bad : m <= k
    BY LeastOfNaturals
  <2>2. m # 1
    BY <1>10, <2>1
  <2>3. m - 1 \in Nat /\ m - 1 \in 1 .. n /\ m - 1 # n /\ (m - 1) + 1 = m /\ m - 1 \notin bad
    BY <1>1, <2>1, <2>2
  <2>4. Ok(m - 1)
    BY <2>3
  <2>5. Ok((m - 1) + 1)
    BY <1>11, <2>3, <2>4
  <2> QED BY <2>1, <2>3, <2>5
<1>13. Ok(n)
  <2> HIDE DEF Ok
  <2>1. n \in Nat /\ n \in 1 .. n
    BY <1>1
  <2> QED BY <1>12, <2>1
<1> DEFINE m == g[n]
<1>14. rule = [m EXCEPT !.scope = Unattributed, !.properties = m.properties \cup scopes]
  BY <1>3, Zenon DEF g
<1>15. /\ m \in Candidates /\ ~m.numeric /\ m.subject = c(1).subject /\ m.says = c(1).says
       /\ \A l \in 1 .. n : c(l).refs \subseteq m.refs
       /\ m.properties \subseteq scopes
  BY <1>13
<1>16. scopes \in SUBSET STRING
  <2>1. \A k \in DOMAIN order : cs[order[k]] \in Candidates
    BY <1>1 DEF c
  <2> QED BY <2>1 DEF scopes, Candidates
<1> HIDE DEF m
<1>17. m.properties \cup scopes = scopes
  BY <1>15
<1>18. /\ rule \in Candidates /\ rule.scope = Unattributed /\ rule.subject = m.subject
       /\ rule.says = m.says /\ rule.refs = m.refs /\ rule.properties = scopes
  BY <1>14, <1>15, <1>16, <1>17, WordingsAssumption DEF Candidates
<1>19. rule.numeric = m.numeric
  BY <1>14, <1>15 DEF Candidates
<1> QED BY <1>1, <1>15, <1>18, <1>19, Zenon DEF rule, scopes, c

\* The rule of a subject that a promotion makes: the words of its best supported
\* rule, the evidence of all that agree, and nothing left that it speaks for.
LEMMA RuleOfACluster ==
  ASSUME NEW cs \in Seq(Candidates), \A i \in DOMAIN cs : Attributed(cs[i]), NEW s,
         IsPromoted({cs[j] : j \in Cluster(cs, s)})
  PROVE  LET C == Cluster(cs, s)
             rule == Combined(cs, ByEvidence(cs, C))
         IN  /\ C \in SUBSET DOMAIN cs
             /\ \A j \in C : /\ cs[j].subject = s /\ cs[j].scope # Unattributed
                             /\ ~cs[j].numeric /\ cs[j].refs \subseteq rule.refs
             /\ rule \in Candidates /\ rule.scope = Unattributed /\ rule.subject = s
             /\ ~rule.numeric /\ Cardinality(rule.properties) >= MinPropertiesForGlobal
             /\ "property_specific" \notin Marks[rule.says]
             /\ \A j \in DOMAIN cs :
                  cs[j].subject = s /\ cs[j].scope # Unattributed /\ j \notin C
                  => Similarity(rule, cs[j]) < GlobalSimilarity
<1> DEFINE C == Cluster(cs, s)
           cluster == {cs[j] : j \in C}
           group == {i \in DOMAIN cs : cs[i].scope # Unattributed /\ cs[i].subject = s}
           seed == ByEvidence(cs, group)[1]
           order == ByEvidence(cs, C)
           rule == Combined(cs, order)
           scopes == {cs[order[k]].scope : k \in DOMAIN order}
<1>1. /\ group \in SUBSET DOMAIN cs /\ \A i \in DOMAIN cs : cs[i] \in Candidates
      /\ \A i \in group : cs[i].scope # Unattributed /\ cs[i].subject = s
  OBVIOUS
<1>2. /\ Cardinality({c.scope : c \in cluster}) >= MinPropertiesForGlobal
      /\ "property_specific" \notin UNION {Marks[c.says] : c \in cluster}
      /\ \A c \in cluster : ~c.numeric
  BY Zenon DEF IsPromoted, MayBeGlobal
<1>3. C = IF Cardinality(group) < MinPropertiesForGlobal THEN {}
          ELSE {i \in group : i = seed \/ Similarity(cs[seed], cs[i]) >= GlobalSimilarity}
  BY Zenon DEF Cluster
<1> HIDE DEF C, seed, rule, order
<1>4. C # {}
  <2> SUFFICES ASSUME C = {} PROVE FALSE
    OBVIOUS
  <2>1. {c.scope : c \in cluster} = {}
    OBVIOUS
  <2>2. Cardinality({}) = 0
    BY FS_EmptySet
  <2>3. Cardinality({c.scope : c \in cluster}) = 0
    BY <2>1, <2>2, Zenon
  <2> HIDE DEF cluster
  <2> QED BY <1>2, <2>3 DEF MinPropertiesForGlobal
<1>5. C = {i \in group : i = seed \/ Similarity(cs[seed], cs[i]) >= GlobalSimilarity}
  BY <1>3, <1>4, Zenon
<1>6. C \in SUBSET group /\ C \in SUBSET DOMAIN cs
  BY <1>1, <1>5
<1>7. seed \in group /\ seed \in C
  <2> DEFINE placed == ByEvidence(cs, group)
  <2> HIDE DEF group
  <2>1. /\ placed \in Seq(group) /\ DOMAIN placed = 1 .. Len(placed) /\ Len(placed) \in Nat
        /\ \A i \in group : \E k \in DOMAIN placed : placed[k] = i
    BY <1>1, PlacedByEvidence
  <2>2. seed = placed[1]
    BY DEF seed
  <2> HIDE DEF placed
  <2>3. seed \in group
    BY <1>4, <1>6, <2>1, <2>2
  <2> QED BY <1>5, <2>3
<1>8. /\ order \in Seq(C) /\ DOMAIN order = 1 .. Len(order) /\ Len(order) \in Nat
      /\ \A i \in C : \E k \in DOMAIN order : order[k] = i
      /\ order[1] = seed
  <2>1. ByEvidence(cs, group)[1] \in C
    BY <1>7 DEF seed
  <2>2. ByEvidence(cs, C)[1] = ByEvidence(cs, group)[1]
    <3> HIDE DEF group
    <3> QED BY <1>1, <1>6, <2>1, PlacedByEvidence
  <2>3. ByEvidence(cs, C)[1] = seed
    BY <2>2 DEF seed
  <2> HIDE DEF group
  <2> QED BY <1>6, <2>3, PlacedByEvidence DEF order
<1> HIDE DEF group
<1>9. /\ order \in Seq(DOMAIN cs) /\ Len(order) # 0 /\ 1 \in DOMAIN order
      /\ \A k \in DOMAIN order : order[k] \in C
  BY <1>4, <1>6, <1>8
<1>10. \A j \in C : cs[j].scope # Unattributed /\ cs[j].subject = s /\ ~cs[j].numeric
                    /\ cs[j].says \in Wordings /\ "property_specific" \notin Marks[cs[j].says]
  <2> SUFFICES ASSUME NEW j \in C
               PROVE  /\ cs[j].scope # Unattributed /\ cs[j].subject = s /\ ~cs[j].numeric
                      /\ cs[j].says \in Wordings
                      /\ "property_specific" \notin Marks[cs[j].says]
    OBVIOUS
  <2>1. cs[j] \in cluster
    OBVIOUS
  <2>2. ~cs[j].numeric /\ "property_specific" \notin Marks[cs[j].says]
    <3> HIDE DEF cluster
    <3> QED BY <1>2, <2>1, Zenon
  <2>3. cs[j].says \in Wordings
    BY <1>1, <1>6 DEF Candidates
  <2> QED BY <1>1, <1>6, <2>2, <2>3, Zenon
<1>11. \A k \in DOMAIN order : /\ Attributed(cs[order[k]]) /\ ~cs[order[k]].numeric
                               /\ cs[order[k]].scope # Unattributed
  BY <1>6, <1>9, <1>10, Zenon
<1>12. /\ rule \in Candidates /\ rule.scope = Unattributed /\ ~rule.numeric
       /\ rule.subject = cs[order[1]].subject /\ rule.says = cs[order[1]].says
       /\ \A k \in DOMAIN order : cs[order[k]].refs \subseteq rule.refs
       /\ rule.properties = scopes
  <2>1. /\ Combined(cs, order) \in Candidates /\ Combined(cs, order).scope = Unattributed
        /\ ~Combined(cs, order).numeric
        /\ Combined(cs, order).subject = cs[order[1]].subject
        /\ Combined(cs, order).says = cs[order[1]].says
        /\ \A k \in DOMAIN order : cs[order[k]].refs \subseteq Combined(cs, order).refs
        /\ Combined(cs, order).properties = {cs[order[k]].scope : k \in DOMAIN order}
    <3> HIDE DEF scopes
    <3> QED BY <1>9, <1>11, CombinedAdds
  <2> HIDE DEF order
  <2> QED BY <2>1, Zenon DEF rule
<1>13. \A j \in C : cs[j].refs \subseteq rule.refs
  BY <1>8, <1>12
<1>14. scopes = {c.scope : c \in cluster}
  <2>1. \A j \in C : \E k \in DOMAIN order : order[k] = j
    BY <1>8
  <2>2. ASSUME NEW x \in scopes PROVE x \in {c.scope : c \in cluster}
    <3>1. PICK k \in DOMAIN order : x = cs[order[k]].scope
      OBVIOUS
    <3>2. cs[order[k]] \in cluster
      BY <1>9
    <3> HIDE DEF cluster
    <3> QED BY <3>1, <3>2
  <2>3. ASSUME NEW c \in cluster PROVE c.scope \in scopes
    <3>1. PICK j \in C : c = cs[j]
      OBVIOUS
    <3>2. PICK k \in DOMAIN order : order[k] = j
      BY <2>1
    <3> QED BY <3>1, <3>2
  <2> HIDE DEF scopes, cluster
  <2> QED BY <2>2, <2>3
<1>15. Cardinality(rule.properties) >= MinPropertiesForGlobal
  <2> HIDE DEF scopes, cluster
  <2> QED BY <1>2, <1>12, <1>14, Zenon
<1>16. rule.subject = s /\ "property_specific" \notin Marks[rule.says] /\ rule.says = cs[seed].says
  BY <1>7, <1>8, <1>10, <1>12, Zenon
<1>17. ASSUME NEW j \in DOMAIN cs, cs[j].subject = s, cs[j].scope # Unattributed, j \notin C
       PROVE  Similarity(rule, cs[j]) < GlobalSimilarity
  <2>1. j \in group
    BY <1>17 DEF group
  <2>2. ~(Similarity(cs[seed], cs[j]) >= GlobalSimilarity)
    BY <1>5, <1>17, <2>1, Zenon
  <2>3. Similarity(rule, cs[j]) = Similarity(cs[seed], cs[j])
    BY <1>16, Zenon DEF Similarity
  <2>4. Similarity(cs[seed], cs[j]) \in Nat
    BY <1>1, <1>6, <1>7, SimilarityIsMutual
  <2> QED BY <2>2, <2>3, <2>4 DEF GlobalSimilarity
<1> QED BY <1>6, <1>10, <1>12, <1>13, <1>15, <1>16, <1>17, Zenon DEF C, rule, order

\* The places of two lists, one after the other.
LEMMA PlacesOfBoth ==
  ASSUME NEW S, NEW a \in Seq(S), NEW b \in Seq(S),
         NEW n, n = Len(a), NEW m, m = Len(b)
  PROVE  /\ DOMAIN (a \o b) = 1 .. n + m
         /\ \A k \in 1 .. n : k \in DOMAIN (a \o b) /\ (a \o b)[k] = a[k]
         /\ \A k \in 1 .. m : n + k \in DOMAIN (a \o b) /\ (a \o b)[n + k] = b[k]
<1>1. /\ n \in Nat /\ m \in Nat /\ DOMAIN (a \o b) = 1 .. n + m
      /\ \A k \in 1 .. n : (a \o b)[k] = a[k]
      /\ \A k \in 1 .. m : (a \o b)[n + k] = b[k]
  OBVIOUS
<1>2. /\ \A k \in 1 .. n : k \in 1 .. n + m
      /\ \A k \in 1 .. m : n + k \in 1 .. n + m
  BY <1>1
<1> QED BY <1>1, <1>2, Zenon

\* What promoting leaves of a list of rules: every rule or what has absorbed it, no
\* rule of one property twice, and a rule of no property only for what agrees.
LEMMA PromotedKeeps ==
  ASSUME NEW cs \in Seq(Candidates), \A i \in DOMAIN cs : Attributed(cs[i])
  PROVE  LET batch == Promoted(cs)
         IN  /\ \A i \in DOMAIN cs : \E x \in DOMAIN batch :
                  /\ batch[x].subject = cs[i].subject
                  /\ batch[x].scope \in {cs[i].scope, Unattributed}
                  /\ cs[i].refs \subseteq batch[x].refs
                  /\ cs[i].numeric => batch[x].numeric
             /\ \A x, y \in DOMAIN batch :
                  x # y /\ batch[x].scope # Unattributed /\ batch[y].scope # Unattributed
                  => \E i, j \in DOMAIN cs : i # j /\ batch[x] = cs[i] /\ batch[y] = cs[j]
             /\ \A x \in DOMAIN batch :
                  batch[x].scope = Unattributed /\ batch[x].properties # {} =>
                    /\ Cardinality(batch[x].properties) >= MinPropertiesForGlobal
                    /\ ~batch[x].numeric
                    /\ "property_specific" \notin Marks[batch[x].says]
                    /\ \A y \in DOMAIN batch :
                         batch[y].subject = batch[x].subject /\ batch[y].scope # Unattributed
                         => Similarity(batch[x], batch[y]) < GlobalSimilarity
<1> DEFINE about == [i \in {i \in DOMAIN cs : cs[i].scope # Unattributed} |-> cs[i].subject]
           C(i) == Cluster(cs, about[i])
           promoted == {i \in Firsts(about) : IsPromoted({cs[j] : j \in C(i)})}
           absorbed == UNION {C(i) : i \in promoted}
           remaining == AsTheyCome(DOMAIN cs \ absorbed)
           order == AsTheyCome(promoted)
           rule(i) == Combined(cs, ByEvidence(cs, C(i)))
           rest == [k \in DOMAIN remaining |-> cs[remaining[k]]]
           rules == [k \in DOMAIN order |-> rule(order[k])]
           batch == Promoted(cs)
<1>1. batch = rest \o rules
  BY Zenon DEF Promoted
<1>2. /\ Len(cs) \in Nat /\ DOMAIN cs = 1 .. Len(cs) /\ DOMAIN cs \in SUBSET Nat
      /\ \A i \in DOMAIN cs : cs[i] \in Candidates
  OBVIOUS
<1>3. /\ DOMAIN about \in SUBSET DOMAIN cs /\ DOMAIN about \in SUBSET Nat
      /\ \A i \in DOMAIN about : about[i] = cs[i].subject
  BY <1>2
<1> HIDE DEF about, batch
<1>4. /\ promoted \in SUBSET DOMAIN about
      /\ \A i, j \in promoted : i # j => about[i] # about[j]
  <2>1. /\ Firsts(about) \in SUBSET DOMAIN about
        /\ \A i, j \in Firsts(about) : i # j => about[i] # about[j]
    BY <1>3, FirstsAreOnePerKey
  <2>2. promoted \in SUBSET Firsts(about)
    OBVIOUS
  <2> HIDE DEF promoted
  <2> QED BY <2>1, <2>2
<1>5. ASSUME NEW i \in promoted
      PROVE  /\ C(i) \in SUBSET DOMAIN cs
             /\ \A j \in C(i) : /\ cs[j].subject = about[i] /\ cs[j].scope # Unattributed
                                /\ ~cs[j].numeric /\ cs[j].refs \subseteq rule(i).refs
             /\ rule(i) \in Candidates /\ rule(i).scope = Unattributed
             /\ rule(i).subject = about[i]
             /\ ~rule(i).numeric /\ Cardinality(rule(i).properties) >= MinPropertiesForGlobal
             /\ "property_specific" \notin Marks[rule(i).says]
             /\ \A j \in DOMAIN cs :
                  cs[j].subject = about[i] /\ cs[j].scope # Unattributed /\ j \notin C(i)
                  => Similarity(rule(i), cs[j]) < GlobalSimilarity
  <2> DEFINE s == about[i]
  <2>1. IsPromoted({cs[j] : j \in Cluster(cs, s)})
    BY Zenon
  <2> HIDE DEF s
  <2> DEFINE K == Cluster(cs, s)  r == Combined(cs, ByEvidence(cs, K))
  <2>2. K \in SUBSET DOMAIN cs
    BY <2>1, RuleOfACluster
  <2>3. \A j \in K : /\ cs[j].subject = s /\ cs[j].scope # Unattributed
                     /\ ~cs[j].numeric /\ cs[j].refs \subseteq r.refs
    BY <2>1, RuleOfACluster
  <2>4. r \in Candidates /\ r.scope = Unattributed /\ r.subject = s
    BY <2>1, RuleOfACluster
  <2>5. /\ ~r.numeric /\ Cardinality(r.properties) >= MinPropertiesForGlobal
        /\ "property_specific" \notin Marks[r.says]
    BY <2>1, RuleOfACluster
  <2>6. \A j \in DOMAIN cs : cs[j].subject = s /\ cs[j].scope # Unattributed /\ j \notin K
                             => Similarity(r, cs[j]) < GlobalSimilarity
    BY <2>1, RuleOfACluster
  <2> HIDE DEF promoted
  <2> QED BY <2>2, <2>3, <2>4, <2>5, <2>6, Zenon DEF s
<1> HIDE DEF C, rule, promoted
<1>6. absorbed \in SUBSET DOMAIN cs /\ \A j \in absorbed : \E i \in promoted : j \in C(i)
  BY <1>5
<1>7. \A i \in promoted : C(i) \subseteq absorbed
  OBVIOUS
<1> HIDE DEF absorbed
<1>8. IsFiniteSet(DOMAIN cs)
  BY <1>2, FS_Interval
<1>9. /\ remaining \in Seq(DOMAIN cs \ absorbed) /\ Len(remaining) \in Nat
      /\ DOMAIN remaining = 1 .. Len(remaining)
      /\ \A i \in DOMAIN cs \ absorbed : \E k \in DOMAIN remaining : remaining[k] = i
      /\ \A k, l \in DOMAIN remaining : k # l => remaining[k] # remaining[l]
  <2> DEFINE S == DOMAIN cs \ absorbed
  <2>1. S \in SUBSET Nat /\ IsFiniteSet(S)
    BY <1>2, <1>8, FS_Subset
  <2> HIDE DEF S
  <2>2. /\ AsTheyCome(S) \in Seq(S) /\ Len(AsTheyCome(S)) \in Nat
        /\ DOMAIN AsTheyCome(S) = 1 .. Len(AsTheyCome(S))
        /\ \A i \in S : \E k \in DOMAIN AsTheyCome(S) : AsTheyCome(S)[k] = i
        /\ \A k, l \in DOMAIN AsTheyCome(S) : k # l => AsTheyCome(S)[k] # AsTheyCome(S)[l]
    BY <2>1, PlacedAsTheyCome
  <2> QED BY <2>2, Zenon DEF S
<1>10. /\ order \in Seq(promoted) /\ Len(order) \in Nat /\ DOMAIN order = 1 .. Len(order)
       /\ \A i \in promoted : \E k \in DOMAIN order : order[k] = i
  <2>1. promoted \in SUBSET Nat /\ IsFiniteSet(promoted)
    BY <1>3, <1>4, <1>8, FS_Subset
  <2> QED BY <2>1, PlacedAsTheyCome
<1> HIDE DEF remaining, order
<1>11. /\ DOMAIN rest = 1 .. Len(remaining) /\ rest \in Seq(Candidates)
       /\ Len(rest) = Len(remaining)
       /\ \A k \in DOMAIN remaining : rest[k] = cs[remaining[k]]
       /\ \A k \in DOMAIN remaining : remaining[k] \in DOMAIN cs \ absorbed
  BY <1>2, <1>9
<1>12. /\ DOMAIN rules = 1 .. Len(order) /\ rules \in Seq(Candidates)
       /\ Len(rules) = Len(order)
       /\ \A k \in DOMAIN order : rules[k] = rule(order[k]) /\ order[k] \in promoted
  <2>1. \A k \in DOMAIN order : order[k] \in promoted /\ rule(order[k]) \in Candidates
    BY <1>5, <1>10
  <2> QED BY <1>10, <2>1
<1> HIDE DEF rest, rules
<1> DEFINE n == Len(remaining)  m == Len(order)
<1>13. /\ DOMAIN batch = 1 .. n + m
       /\ \A k \in 1 .. n : k \in DOMAIN batch /\ batch[k] = cs[remaining[k]]
       /\ \A k \in 1 .. m : n + k \in DOMAIN batch /\ batch[n + k] = rule(order[k])
  <2>1. /\ rest \in Seq(Candidates) /\ rules \in Seq(Candidates)
        /\ n \in Nat /\ m \in Nat /\ n = Len(rest) /\ m = Len(rules)
        /\ DOMAIN remaining = 1 .. n /\ DOMAIN order = 1 .. m
    BY <1>9, <1>10, <1>11, <1>12
  <2> HIDE DEF n, m
  <2>2. /\ DOMAIN batch = 1 .. n + m
        /\ \A k \in 1 .. n : k \in DOMAIN batch /\ batch[k] = rest[k]
        /\ \A k \in 1 .. m : n + k \in DOMAIN batch /\ batch[n + k] = rules[k]
    <3>1. /\ DOMAIN (rest \o rules) = 1 .. n + m
          /\ \A k \in 1 .. n : k \in DOMAIN (rest \o rules) /\ (rest \o rules)[k] = rest[k]
          /\ \A k \in 1 .. m : /\ n + k \in DOMAIN (rest \o rules)
                                /\ (rest \o rules)[n + k] = rules[k]
      BY <2>1, PlacesOfBoth
    <3> QED BY <1>1, <3>1, Zenon
  <2> QED BY <1>11, <1>12, <2>1, <2>2, Zenon
<1>14. \A x \in DOMAIN batch :
         \/ x \in DOMAIN remaining /\ batch[x] = cs[remaining[x]]
         \/ batch[x].scope = Unattributed
            /\ \E i \in promoted : batch[x] = rule(i)
  <2> SUFFICES ASSUME NEW x \in DOMAIN batch
               PROVE  \/ x \in DOMAIN remaining /\ batch[x] = cs[remaining[x]]
                      \/ batch[x].scope = Unattributed
                         /\ \E i \in promoted : batch[x] = rule(i)
    OBVIOUS
  <2>1. x \in 1 .. n \/ (x - n \in 1 .. m /\ n + (x - n) = x)
    BY <1>9, <1>10, <1>13
  <2>2. CASE x \in 1 .. n
    BY <1>9, <1>13, <2>2
  <2>3. CASE x - n \in 1 .. m /\ n + (x - n) = x
    <3>1. batch[x] = rule(order[x - n]) /\ order[x - n] \in promoted
      BY <1>10, <1>12, <1>13, <2>3
    <3>2. rule(order[x - n]).scope = Unattributed
      BY <1>5, <3>1, Zenon
    <3> QED BY <3>1, <3>2, Zenon
  <2> QED BY <2>1, <2>2, <2>3
<1>15. ASSUME NEW i \in DOMAIN cs
       PROVE  \E x \in DOMAIN batch : /\ batch[x].subject = cs[i].subject
                                      /\ batch[x].scope \in {cs[i].scope, Unattributed}
                                      /\ cs[i].refs \subseteq batch[x].refs
                                      /\ cs[i].numeric => batch[x].numeric
  <2>1. CASE i \in absorbed
    <3>1. PICK p \in promoted : i \in C(p)
      BY <1>6, <2>1
    <3>2. PICK k \in DOMAIN order : order[k] = p
      BY <1>10
    <3>3. n + k \in DOMAIN batch /\ batch[n + k] = rule(p)
      BY <1>10, <1>13, <3>2
    <3>4. /\ cs[i].subject = about[p] /\ ~cs[i].numeric /\ cs[i].refs \subseteq rule(p).refs
          /\ rule(p).scope = Unattributed /\ rule(p).subject = about[p]
      BY <1>5, <3>1, Zenon
    <3>5. rule(p).scope \in {cs[i].scope, Unattributed}
      BY <3>4
    <3> QED BY <3>3, <3>4, <3>5, Zenon
  <2>2. CASE i \notin absorbed
    <3>1. PICK k \in DOMAIN remaining : remaining[k] = i
      BY <1>9, <2>2
    <3>2. k \in DOMAIN batch /\ batch[k] = cs[i]
      BY <1>9, <1>13, <3>1
    <3>3. cs[i].scope \in {cs[i].scope, Unattributed} /\ cs[i].refs \subseteq cs[i].refs
      OBVIOUS
    <3> QED BY <3>2, <3>3, Zenon
  <2> QED BY <2>1, <2>2
<1>16. ASSUME NEW x \in DOMAIN batch, NEW y \in DOMAIN batch, x # y,
              batch[x].scope # Unattributed, batch[y].scope # Unattributed
       PROVE  \E i, j \in DOMAIN cs : i # j /\ batch[x] = cs[i] /\ batch[y] = cs[j]
  <2>1. /\ x \in DOMAIN remaining /\ batch[x] = cs[remaining[x]]
        /\ y \in DOMAIN remaining /\ batch[y] = cs[remaining[y]]
    BY <1>14, <1>16, Zenon
  <2>2. /\ remaining[x] # remaining[y]
        /\ remaining[x] \in DOMAIN cs /\ remaining[y] \in DOMAIN cs
    BY <1>9, <1>11, <1>16, <2>1
  <2> QED BY <2>1, <2>2, Zenon
<1>17. ASSUME NEW x \in DOMAIN batch, batch[x].scope = Unattributed,
              batch[x].properties # {}
       PROVE  /\ Cardinality(batch[x].properties) >= MinPropertiesForGlobal
              /\ ~batch[x].numeric
              /\ "property_specific" \notin Marks[batch[x].says]
              /\ \A y \in DOMAIN batch :
                   batch[y].subject = batch[x].subject /\ batch[y].scope # Unattributed
                   => Similarity(batch[x], batch[y]) < GlobalSimilarity
  <2>1. ~(x \in DOMAIN remaining /\ batch[x] = cs[remaining[x]])
    <3> SUFFICES ASSUME x \in DOMAIN remaining, batch[x] = cs[remaining[x]] PROVE FALSE
      OBVIOUS
    <3>1. Attributed(batch[x])
      BY <1>11, Zenon
    <3> QED BY <1>17, <3>1 DEF Attributed
  <2>2. PICK p \in promoted : batch[x] = rule(p)
    BY <1>14, <2>1, Zenon
  <2>3. ASSUME NEW y \in DOMAIN batch, batch[y].subject = batch[x].subject,
               batch[y].scope # Unattributed
        PROVE  Similarity(batch[x], batch[y]) < GlobalSimilarity
    <3>1. y \in DOMAIN remaining /\ batch[y] = cs[remaining[y]]
      BY <1>14, <2>3, Zenon
    <3>2. remaining[y] \in DOMAIN cs /\ remaining[y] \notin absorbed
      BY <1>11, <3>1
    <3>3. remaining[y] \notin C(p)
      BY <1>7, <3>2
    <3>4. /\ batch[x].subject = about[p]
          /\ cs[remaining[y]].subject = about[p] /\ cs[remaining[y]].scope # Unattributed
      BY <1>5, <2>2, <2>3, <3>1, Zenon
    <3>5. Similarity(rule(p), cs[remaining[y]]) < GlobalSimilarity
      BY <1>5, <3>2, <3>3, <3>4, Zenon
    <3> QED BY <2>2, <3>1, <3>5, Zenon
  <2>4. /\ ~rule(p).numeric /\ Cardinality(rule(p).properties) >= MinPropertiesForGlobal
        /\ "property_specific" \notin Marks[rule(p).says]
    BY <1>5, Zenon
  <2> QED BY <2>2, <2>3, <2>4, Zenon
<1> QED BY <1>15, <1>16, <1>17, Zenon DEF batch

\* What distilling proposes of the answers it is given shows the replies.
LEMMA DistilledKeeps ==
  ASSUME NEW answers \in Seq(GroupAnswer)
  PROVE  LET cs == Collected(answers)
             batch == Distilled(answers)
         IN  /\ \A i \in DOMAIN cs : \E x \in DOMAIN batch :
                  /\ batch[x].subject = cs[i].subject
                  /\ batch[x].scope \in {cs[i].scope, Unattributed}
                  /\ cs[i].refs \subseteq batch[x].refs
                  /\ cs[i].numeric => batch[x].numeric
             /\ \A x, y \in DOMAIN batch :
                  /\ x # y /\ batch[x].scope = batch[y].scope
                  /\ batch[x].scope # Unattributed /\ batch[x].subject = batch[y].subject
                  => Similarity(batch[x], batch[y]) < DuplicateSimilarity
             /\ \A x \in DOMAIN batch :
                  batch[x].scope = Unattributed /\ batch[x].properties # {} =>
                    /\ Cardinality(batch[x].properties) >= MinPropertiesForGlobal
                    /\ ~batch[x].numeric
                    /\ "property_specific" \notin Marks[batch[x].says]
                    /\ \A y \in DOMAIN batch :
                         batch[y].subject = batch[x].subject /\ batch[y].scope # Unattributed
                         => Similarity(batch[x], batch[y]) < GlobalSimilarity
<1> DEFINE cs == Collected(answers)
           rules == Consolidated(cs)
           batch == Distilled(answers)
<1>1. cs \in Seq(Candidates) /\ \A i \in DOMAIN cs : Attributed(cs[i])
  BY CollectedAreCandidates
<1>2. batch = Promoted(rules)
  BY Zenon DEF Distilled
<1> HIDE DEF cs, batch
<1>3. rules \in Seq(Candidates) /\ \A i \in DOMAIN rules : Attributed(rules[i])
  BY <1>1, ConsolidatedKeeps
<1>4. \A i, j \in DOMAIN rules : i # j /\ Bucket(rules[i]) = Bucket(rules[j])
        => Similarity(rules[i], rules[j]) < DuplicateSimilarity
  BY <1>1, ConsolidatedKeeps
<1>5. \A i \in DOMAIN cs : \E j \in DOMAIN rules :
        /\ Bucket(rules[j]) = Bucket(cs[i]) /\ cs[i].refs \subseteq rules[j].refs
        /\ cs[i].numeric => rules[j].numeric
  BY <1>1, ConsolidatedKeeps
<1> HIDE DEF rules
<1>6. \A i \in DOMAIN rules : \E x \in DOMAIN batch :
        /\ batch[x].subject = rules[i].subject
        /\ batch[x].scope \in {rules[i].scope, Unattributed}
        /\ rules[i].refs \subseteq batch[x].refs
        /\ rules[i].numeric => batch[x].numeric
  BY <1>2, <1>3, PromotedKeeps
<1>7. \A x, y \in DOMAIN batch :
        x # y /\ batch[x].scope # Unattributed /\ batch[y].scope # Unattributed
        => \E i, j \in DOMAIN rules : i # j /\ batch[x] = rules[i] /\ batch[y] = rules[j]
  BY <1>2, <1>3, PromotedKeeps
<1>8. \A x \in DOMAIN batch :
        batch[x].scope = Unattributed /\ batch[x].properties # {} =>
          /\ Cardinality(batch[x].properties) >= MinPropertiesForGlobal
          /\ ~batch[x].numeric
          /\ "property_specific" \notin Marks[batch[x].says]
          /\ \A y \in DOMAIN batch :
               batch[y].subject = batch[x].subject /\ batch[y].scope # Unattributed
               => Similarity(batch[x], batch[y]) < GlobalSimilarity
  BY <1>2, <1>3, PromotedKeeps
<1>9. ASSUME NEW i \in DOMAIN cs
      PROVE  \E x \in DOMAIN batch :
               /\ batch[x].subject = cs[i].subject
               /\ batch[x].scope \in {cs[i].scope, Unattributed}
               /\ cs[i].refs \subseteq batch[x].refs
               /\ cs[i].numeric => batch[x].numeric
  <2>1. PICK j \in DOMAIN rules : /\ Bucket(rules[j]) = Bucket(cs[i])
                                  /\ cs[i].refs \subseteq rules[j].refs
                                  /\ cs[i].numeric => rules[j].numeric
    BY <1>5, Zenon
  <2>2. PICK x \in DOMAIN batch : /\ batch[x].subject = rules[j].subject
                                  /\ batch[x].scope \in {rules[j].scope, Unattributed}
                                  /\ rules[j].refs \subseteq batch[x].refs
                                  /\ rules[j].numeric => batch[x].numeric
    BY <1>6, Zenon
  <2>3. rules[j].scope = cs[i].scope /\ rules[j].subject = cs[i].subject
    BY <2>1 DEF Bucket
  <2>4. cs[i].refs \subseteq batch[x].refs
    BY <2>1, <2>2
  <2> QED BY <2>1, <2>2, <2>3, <2>4, Zenon
<1>10. ASSUME NEW x \in DOMAIN batch, NEW y \in DOMAIN batch, x # y,
              batch[x].scope = batch[y].scope, batch[x].scope # Unattributed,
              batch[x].subject = batch[y].subject
       PROVE  Similarity(batch[x], batch[y]) < DuplicateSimilarity
  <2>1. batch[y].scope # Unattributed
    BY <1>10, Zenon
  <2>2. PICK i \in DOMAIN rules, j \in DOMAIN rules :
          i # j /\ batch[x] = rules[i] /\ batch[y] = rules[j]
    BY <1>7, <1>10, <2>1, Zenon
  <2>3. Bucket(rules[i]) = Bucket(rules[j])
    BY <1>10, <2>2, Zenon DEF Bucket
  <2> QED BY <1>4, <2>2, <2>3, Zenon
<1> QED BY <1>8, <1>9, <1>10, Zenon DEF cs, batch

\* Whatever the model answered about whatever groups, in whatever order: a rule
\* that was accepted is shown with its evidence, nothing of one property is shown
\* twice, and a rule for every property is one that three agree on (screen,
\* consolidate, promote_global).
THEOREM ProposalsKeepTheReplies == DecisionSpec => []ProposalsShowTheReplies
<1>1. ReadingOK => ProposalsShowTheReplies
  <2> SUFFICES ASSUME ReadingOK, subject = "candidates" PROVE ProposalsShowTheReplies
    BY DEF ProposalsShowTheReplies
  <2> DEFINE cs == Collected(input)  batch == Distilled(input)
  <2>1. input \in Seq(GroupAnswer)
    BY DEF ReadingOK
  <2>2. \A i \in DOMAIN cs : \E x \in DOMAIN batch :
          /\ batch[x].subject = cs[i].subject
          /\ batch[x].scope \in {cs[i].scope, Unattributed}
          /\ cs[i].refs \subseteq batch[x].refs
          /\ cs[i].numeric => batch[x].numeric
    BY <2>1, DistilledKeeps
  <2>3. \A x, y \in DOMAIN batch :
          /\ x # y /\ batch[x].scope = batch[y].scope
          /\ batch[x].scope # Unattributed /\ batch[x].subject = batch[y].subject
          => Similarity(batch[x], batch[y]) < DuplicateSimilarity
    BY <2>1, DistilledKeeps
  <2>4. \A x \in DOMAIN batch :
          batch[x].scope = Unattributed /\ batch[x].properties # {} =>
            /\ Cardinality(batch[x].properties) >= MinPropertiesForGlobal
            /\ ~batch[x].numeric
            /\ "property_specific" \notin Marks[batch[x].says]
            /\ \A y \in DOMAIN batch :
                 batch[y].subject = batch[x].subject /\ batch[y].scope # Unattributed
                 => Similarity(batch[x], batch[y]) < GlobalSimilarity
    BY <2>1, DistilledKeeps
  <2> HIDE DEF cs, batch
  <2>5. ASSUME NEW a \in ToSet(cs) PROVE IsShown(a, batch)
    <3> DEFINE under == {i \in DOMAIN batch : /\ batch[i].subject = a.subject
                                              /\ batch[i].scope \in {a.scope, Unattributed}
                                              /\ a.refs \subseteq batch[i].refs}
    <3>1. PICK i \in DOMAIN cs : a = cs[i]
      BY DEF ToSet
    <3>2. PICK x \in DOMAIN batch : /\ batch[x].subject = cs[i].subject
                                    /\ batch[x].scope \in {cs[i].scope, Unattributed}
                                    /\ cs[i].refs \subseteq batch[x].refs
                                    /\ cs[i].numeric => batch[x].numeric
      BY <2>2, Zenon
    <3>3. x \in under /\ (a.numeric => batch[x].numeric)
      BY <3>1, <3>2
    <3>4. IsShown(a, batch) <=>
            under # {} /\ (a.numeric => \E k \in under : batch[k].numeric)
      BY Zenon DEF IsShown
    <3> HIDE DEF under
    <3> QED BY <3>3, <3>4, Zenon
  <2>6. ASSUME NEW x \in DOMAIN batch, NEW y \in DOMAIN batch, x # y
        PROVE  StandApart(batch[x], batch[y])
    BY <2>3, <2>6, Zenon DEF StandApart
  <2>7. ASSUME NEW c \in ToSet(batch), c.scope = Unattributed, c.properties # {}
        PROVE  SpeaksForAll(c, batch)
    <3>1. PICK x \in DOMAIN batch : c = batch[x]
      BY DEF ToSet
    <3>2. /\ Cardinality(c.properties) >= MinPropertiesForGlobal
          /\ ~c.numeric /\ "property_specific" \notin Marks[c.says]
          /\ \A y \in DOMAIN batch :
               batch[y].subject = c.subject /\ batch[y].scope # Unattributed
               => Similarity(c, batch[y]) < GlobalSimilarity
      BY <2>4, <2>7, <3>1, Zenon
    <3>3. ASSUME NEW d \in ToSet(batch), d.subject = c.subject, d.scope # Unattributed
          PROVE  Similarity(c, d) < GlobalSimilarity
      <4>1. PICK y \in DOMAIN batch : d = batch[y]
        BY DEF ToSet
      <4> QED BY <3>2, <3>3, <4>1, Zenon
    <3> QED BY <3>2, <3>3, Zenon DEF SpeaksForAll
  <2> QED BY <2>5, <2>6, <2>7, Zenon DEF ProposalsShowTheReplies, cs, batch
<1> QED
  BY <1>1, ReadingIsInvariant, PTL

\* Rules and examples, whatever was read.
THEOREM WhatIsLearnedIsWritten == DecisionSpec => []WhatIsLearnedWasWritten
<1>1. ProposalsShowTheReplies /\ ExamplesAreExchanges => WhatIsLearnedWasWritten
  BY Zenon DEF WhatIsLearnedWasWritten
<1> QED
  BY <1>1, ProposalsKeepTheReplies, ExamplesPairExchanges, PTL
=============================================================================

--------------------------- MODULE PricingDecision ---------------------------
(***************************************************************************)
(* The deterministic pricing rules: one night's reading in, one action     *)
(* out (pricing_recommendations.recommend_night), and the guardrails every *)
(* action that may become a write passes (pricing_policy).                 *)
(*                                                                         *)
(* Prices are numbers of five cents, all multiples of fifty cents, so that *)
(* ten per cent of a price is a number too. 0 stands for a missing price,  *)
(* as the code reads a price that is not positive as missing.              *)
(***************************************************************************)
EXTENDS Integers, Sequences, SequencesExt, PricingBands, OrderStatistics

CONSTANTS
  Listings,   \* listings with bands
  Bands       \* per listing, as PricingBands!Band

\* Of the owner's table: the line a person is asked at is no lower than the one
\* nothing may be written under. A schedule may try (EffectiveFloor).
ASSUME BandsAssumption ==
  \A l \in Listings :
    /\ Bands[l].hardFloor \in Nat /\ Bands[l].autoRaiseCeiling \in Nat
    /\ Bands[l].normalFloor \in Nat /\ Bands[l].hardFloor <= Bands[l].normalFloor
    /\ Bands[l].floorSchedule \in
         Seq([floor : Nat, months : SUBSET (1 .. 12), low : Int, high : Int])

Dollar == 20

InDollars(n) == n * Dollar

\* The least price there is: under five dollars a tenth of a price leaves no
\* whole dollar to round to.
LeastPrice == 5 * Dollar

\* One night as it was read (MarketState, and what recommend_night is given
\* beside it).
NightReading ==
  [price : {0} \cup {n \in Nat : n >= LeastPrice}, p25 : Nat, median : Nat,
   marketOccupancy : Int, listingOccupancy : Int, demand : STRING, gap : Int,
   samples : Nat, adr : Nat, daysOut : Int, month : 1 .. 12,
   pinned : BOOLEAN, pinPrice : Nat, open : BOOLEAN, fresh : BOOLEAN]

-----------------------------------------------------------------------------
(* Prices.                                                                  *)

MaxChange(price) == price \div 10

\* Python's round: the nearest dollar, a tie to the even one.
Round(x) ==
  LET q == x \div Dollar
      r == x % Dollar
  IN  Dollar * (IF 2 * r < Dollar \/ (2 * r = Dollar /\ q % 2 = 0) THEN q ELSE q + 1)

FloorDollar(x) == Dollar * (x \div Dollar)
CeilDollar(x)  == Dollar * ((x + Dollar - 1) \div Dollar)

AbsDiff(a, b) == IF a > b THEN a - b ELSE b - a

ClampMove(current, proposed) ==
  IF proposed > current THEN Min({proposed, current + MaxChange(current)})
                        ELSE Max({proposed, current - MaxChange(current)})

\* Mutant: the nearest dollar, whichever side of the cap it falls on.
NearestPrice(current, proposed) == Round(ClampMove(current, proposed))

CapSafePrice(current, proposed) ==
  LET nearest == Round(ClampMove(current, proposed))
      lower   == current - MaxChange(current)
      upper   == current + MaxChange(current)
  IN  IF nearest < lower THEN CeilDollar(lower)
      ELSE IF nearest > upper THEN FloorDollar(upper)
      ELSE nearest

-----------------------------------------------------------------------------
(* The guardrails.                                                          *)

WriteActions == {"LOWER", "RAISE", "REMOVE_PIN"}

Actions == WriteActions \cup {"HOLD", "KEEP_PIN"}

NoChange(current, proposed) ==
  current = 0 \/ proposed = 0 \/ Round(proposed) = Round(current)

ExceedsMaxChange(current, proposed) == AbsDiff(proposed, current) > MaxChange(current)

\* Mutant: a reduction is not held to the floor.
FloorForgotten(action, proposed, bands) == FALSE

BelowHardFloor(action, proposed, bands) ==
  action = "LOWER" /\ proposed < InDollars(bands.hardFloor)

\* The absolute ceiling first; the owner approved it above the other.
AboveCeiling(action, proposed, ceiling) == action = "RAISE" /\ proposed > InDollars(ceiling)

\* check_guardrails, in its order; "NONE" lets the action proceed.
Refusal(action, current, proposed, listing, confidence) ==
  LET bands == Bands[listing]
  IN  IF listing \notin Listings THEN "NO_BANDS"
      ELSE IF confidence = "LOW" THEN "LOW_CONFIDENCE"
      ELSE IF action = "REMOVE_PIN" THEN "NONE"
      ELSE IF NoChange(current, proposed) THEN "NO_CHANGE"
      ELSE IF ExceedsMaxChange(current, proposed) THEN "EXCEEDS_MAX_CHANGE"
      ELSE IF BelowHardFloor(action, proposed, bands) THEN "BELOW_HARD_FLOOR"
      ELSE IF AboveCeiling(action, proposed, bands.absoluteCeiling)
        THEN "ABOVE_ABSOLUTE_CEILING"
      ELSE IF AboveCeiling(action, proposed, bands.autoRaiseCeiling)
        THEN "ABOVE_AUTO_CEILING"
      ELSE "NONE"

\* Mutant: the schedule may go under the hard floor.
ScheduledFloor(bands, floor) == floor

NotUnderHardFloor(bands, floor) == Max({floor, bands.hardFloor})

Matches(rule, month, daysOut) ==
  month \in rule.months /\ rule.low <= daysOut /\ daysOut <= rule.high

\* dynamic_floor, and normal_floor where no rule of the schedule matches: the
\* line below which a person is asked. In dollars.
EffectiveFloor(listing, month, daysOut) ==
  LET bands    == Bands[listing]
      schedule == bands.floorSchedule
      matched  == {i \in DOMAIN schedule : Matches(schedule[i], month, daysOut)}
  IN  IF matched = {} THEN bands.normalFloor
                      ELSE NotUnderHardFloor(bands, schedule[Min(matched)].floor)

-----------------------------------------------------------------------------
(* The property's own history.                                              *)

\* LEAD_BANDS: (0, 3), (4, 7), (8, 14), (15, 30), (31, 60), (61, ...).
LeadBand(days) ==
  CASE days \in 0 .. 3   -> 1 [] days \in 4 .. 7   -> 2 [] days \in 8 .. 14 -> 3
    [] days \in 15 .. 30 -> 4 [] days \in 31 .. 60 -> 5 [] OTHER -> 6

\* Mutant: a cancelled row still counts, with the revenue it still shows.
RealizedAnyStatus(row) == row.revenue > 0 /\ row.nights > 0 /\ row.lead >= 0

\* history_sample: a stay that took place, at a rate that can be computed.
Realized(row) ==
  /\ row.status = "booked"
  /\ row.revenue > 0
  /\ row.nights > 0
  /\ row.lead >= 0

\* build_history, and build's grouping: the rates of one lead band, by row.
SamplesFor(rows, daysOut) ==
  [i \in {j \in DOMAIN rows : /\ Realized(rows[j])
                              /\ LeadBand(rows[j].lead) = LeadBand(daysOut)}
     |-> rows[i].revenue \div rows[i].nights]

Median(rates) ==
  LET n == Cardinality(DOMAIN rates)
  IN  IF n % 2 = 1 THEN InOrder(rates, (n + 1) \div 2)
                   ELSE (InOrder(rates, n \div 2) + InOrder(rates, n \div 2 + 1)) \div 2

\* 0: too few stays in the band for a median.
HistoryAdr(rates) == IF Cardinality(DOMAIN rates) >= 3 THEN Median(rates) ELSE 0

-----------------------------------------------------------------------------
(* One night, one decision.                                                 *)

NearTermDays == 14
OccGapPoints == 16
DateOccStrong == 454  \* 45.4 per cent, in tenths

StrongDemand == {"High Demand", "Good Demand"}
WeakDemand == {"Low Demand", "Normal Demand"}

\* date_strength; pickup is never supplied (pricing_service.py).
StrongDate(night) ==
  night.demand \in StrongDemand \/ night.marketOccupancy >= DateOccStrong

ConfidenceOf(night) ==
  IF night.p25 = 0 \/ night.median = 0 \/ night.marketOccupancy < 0 \/ night.price = 0
    THEN "LOW"
  ELSE IF night.samples >= 3 /\ night.demand # "none" THEN "HIGH" ELSE "MEDIUM"

LowersOnHistory(night) ==
  /\ night.adr > 0
  /\ 100 * night.price > 115 * night.adr
  /\ night.demand \in WeakDemand

RaisesOnMarket(night) == night.price < night.p25 /\ StrongDate(night)

LeadsTheMarket(night) == night.gap >= OccGapPoints

\* Mutant: close to arrival a strong market comes first.
NearTermActionByMarket(night) ==
  IF RaisesOnMarket(night) THEN "RAISE"
  ELSE IF LowersOnHistory(night) THEN "LOWER" ELSE "HOLD"

\* Inside NEAR_TERM_DAYS the property's own history pre-empts the market.
NearTermAction(night) ==
  IF LowersOnHistory(night) THEN "LOWER"
  ELSE IF RaisesOnMarket(night) THEN "RAISE" ELSE "HOLD"

\* Mutant: a pin is lifted although the night is sold.
PinnedActionSold(night) ==
  IF StrongDate(night) /\ night.price # 0 /\ night.price < night.p25
    THEN "REMOVE_PIN" ELSE "KEEP_PIN"

PinnedAction(night) ==
  IF /\ night.open
     /\ StrongDate(night)
     /\ night.price # 0
     /\ night.price < night.p25
    THEN "REMOVE_PIN" ELSE "KEEP_PIN"

\* recommend_night, before the guardrails.
CandidateAction(night) ==
  IF night.pinned THEN PinnedAction(night)
  ELSE IF ~night.open \/ night.price = 0 \/ night.p25 = 0 \/ night.median = 0 THEN "HOLD"
  ELSE IF night.daysOut <= NearTermDays THEN NearTermAction(night)
  ELSE IF night.price < night.p25 /\ (LeadsTheMarket(night) \/ StrongDate(night))
    THEN "RAISE" ELSE "HOLD"

CandidatePrice(night, action) ==
  LET step == MaxChange(night.price)
  IN  CASE action = "LOWER" ->
             CapSafePrice(night.price, Max({night.adr, night.price - step}))
        [] action = "RAISE" ->
             CapSafePrice(night.price, Min({night.p25, night.price + step}))
        [] action = "REMOVE_PIN" -> 0
        [] OTHER -> night.price

\* finalise: a refused candidate is downgraded and offers no move.
Recommend(listing, night) ==
  LET action  == CandidateAction(night)
      price   == CandidatePrice(night, action)
      refusal == IF action \in WriteActions
                   THEN Refusal(action, night.price, price, listing, ConfidenceOf(night))
                   ELSE "NONE"
  IN  [action   |-> IF refusal = "NONE" THEN action
                    ELSE IF action = "REMOVE_PIN" THEN "KEEP_PIN" ELSE "HOLD",
       proposed |-> IF refusal = "NONE" THEN price ELSE night.price,
       refused  |-> refusal,
       human    |-> /\ refusal = "NONE" /\ action = "RAISE"
                    /\ Bands[listing].raiseRequiresHuman,
       conflict |-> /\ ~night.pinned /\ night.daysOut <= NearTermDays
                    /\ action = "LOWER" /\ RaisesOnMarket(night)]

IsActionable(rec) == rec.action \in WriteActions

\* The switches of pricing_config as they are deployed.
CleanupStrategyVerified == TRUE
DeleteEndpointVerified  == TRUE
LowerAuthorized         == TRUE

\* unverified_reason.
Unverified(action) ==
  \/ action = "LOWER" /\ ~LowerAuthorized
  \/ action \in {"LOWER", "RAISE"} /\ ~CleanupStrategyVerified
  \/ action = "REMOVE_PIN" /\ ~DeleteEndpointVerified

\* Mutant: the price a card was drawn from is no part of its fingerprint.
FingerprintOfMarket(night) ==
  [p25 |-> Round(night.p25), pin |-> Round(night.pinPrice), demand |-> night.demand]

\* fingerprint: what of a reading a later reading is compared by.
Fingerprint(night) ==
  [price |-> Round(night.price), p25 |-> Round(night.p25), median |-> Round(night.median),
   pin   |-> Round(night.pinPrice), demand |-> night.demand]
=============================================================================

---------------------------- MODULE PricingBoard ----------------------------
(***************************************************************************)
(* What of the recommendations a person is shown first: the selection of   *)
(* RAISE and LOWER opportunities (opportunities, lower_priority) and their *)
(* triage (opportunity_priority, lower_priority). Nothing here sets a      *)
(* price.                                                                  *)
(***************************************************************************)
EXTENDS PricingDecision

Uplift(night, rec) == rec.proposed - night.price

\* round(100 * part / whole, 1), in tenths of a per cent.
Tenths(part, whole) == (2000 * part + whole) \div (2 * whole)

\* What is_opportunity and select_lower ask of a row alike.
Shown(night, rec) ==
  /\ IsActionable(rec)
  /\ ~Unverified(rec.action)
  /\ night.fresh

IsOpportunity(night, rec) ==
  /\ rec.action = "RAISE"
  /\ Shown(night, rec)
  /\ night.price # 0
  /\ Uplift(night, rec) > 0

IsLowerOpportunity(night, rec) ==
  /\ rec.action = "LOWER"
  /\ Shown(night, rec)
  /\ night.price # 0 /\ rec.proposed # 0

-----------------------------------------------------------------------------
(* RAISE: where money is left on the table.                                 *)

ReviewNowMinUplift   == InDollars(15)
LowPriorityMaxUplift == InDollars(10)
LowPriorityMaxTenths == 50
StrongerDemand == {"Normal Demand", "Good Demand", "High Demand"}

\* is_change_clamped: at the ceiling of one run, and aiming above it.
IsChangeClamped(night, rec) ==
  LET ceiling == night.price + MaxChange(night.price)
  IN  Round(rec.proposed) = Round(ceiling) /\ night.p25 > ceiling

HasDemand(night) == night.demand \in StrongerDemand

\* rank_opportunity.
RaisePriority(night, rec) ==
  LET uplift == Uplift(night, rec)
  IN  IF uplift < LowPriorityMaxUplift \/ Tenths(uplift, night.price) < LowPriorityMaxTenths
        THEN "LOW_PRIORITY"
      ELSE IF uplift >= ReviewNowMinUplift /\ HasDemand(night) THEN "REVIEW_NOW"
      ELSE "WATCH"

-----------------------------------------------------------------------------
(* LOWER: which empty nights are about to be lost.                          *)

ReviewNowDaysOut     == 7
MaterialGapTenths    == 150
ConfidentSampleCount == 5

\* historical_reference_gap_pct.
HistoryGapTenths(night) ==
  IF night.adr = 0 THEN 0 ELSE Tenths(night.price - night.adr, night.price)

BelowOwnerFloor(listing, night, rec) ==
  rec.proposed < InDollars(EffectiveFloor(listing, night.month, night.daysOut))

\* Mutant: a contradicting market is not named.
LowerFlagsQuiet(listing, night, rec) ==
  IF BelowOwnerFloor(listing, night, rec) THEN {"BELOW_OWNER_FLOOR"} ELSE {}

LowerFlags(listing, night, rec) ==
  (IF BelowOwnerFloor(listing, night, rec) THEN {"BELOW_OWNER_FLOOR"} ELSE {})
    \cup (IF night.samples < ConfidentSampleCount THEN {"THIN_HISTORY"} ELSE {})
    \cup (IF rec.conflict THEN {"SIGNAL_CONFLICT"} ELSE {})

\* rank_lower.
LowerPriority(listing, night, rec) ==
  IF /\ night.daysOut <= ReviewNowDaysOut
     /\ HistoryGapTenths(night) >= MaterialGapTenths
     /\ night.samples >= ConfidentSampleCount
     /\ LowerFlags(listing, night, rec) = {}
    THEN "REVIEW_NOW" ELSE "WATCH"
=============================================================================

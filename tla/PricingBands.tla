---------------------------- MODULE PricingBands ----------------------------
(***************************************************************************)
(* The owner's limits, listing by listing, as the deployment carries them  *)
(* (pricing_config.BANDS). Prices are whole dollars. A rule of a floor     *)
(* schedule matches a night when its months and its lead-time bounds do,   *)
(* and the first rule that matches decides.                                *)
(***************************************************************************)
EXTENDS Integers

\* No bound on the lead time: further than any horizon.
AnyLead == 100000

WinterMonths == 1 .. 3

\* FloorBand: a rule of a schedule.
FloorBand(floor, months, low, high) ==
  [floor |-> floor, months |-> months, low |-> low, high |-> high]

Flat(floor) == FloorBand(floor, 1 .. 12, -AnyLead, AnyLead)

\* PricingBands: hard floor, normal floor, auto-raise and absolute ceilings.
Band(hard, normal, auto, absolute, human, schedule) ==
  [hardFloor |-> hard, normalFloor |-> normal, autoRaiseCeiling |-> auto,
   absoluteCeiling |-> absolute, raiseRequiresHuman |-> human,
   floorSchedule |-> schedule]

RenovatedSecondFloorSchedule ==
  << FloorBand(240, 1 .. 12, 30, AnyLead),
     FloorBand(175, 1 .. 12, 15, 29),
     FloorBand(170, 1 .. 12, 8, 14),
     FloorBand(170, 1 .. 12, 4, 7),
     FloorBand(170, 1 .. 12, -AnyLead, 3) >>

ArboretumSchedule ==
  << FloorBand(189, WinterMonths, -AnyLead, AnyLead), Flat(205) >>

DeployedBands ==
  [roslindale      |-> Band(143, 143, 222, 291, FALSE, << Flat(143) >>),
   renovatedSecond |-> Band(170, 215, 392, 541, FALSE, RenovatedSecondFloorSchedule),
   bunkers         |-> Band(143, 143, 252, 324, FALSE, << Flat(143) >>),
   modernCondo     |-> Band(199, 219, 424, 662, FALSE, << >>),
   harvard         |-> Band(338, 360, 831, 1111, TRUE, << >>),
   condoSecond     |-> Band(189, 221, 424, 637, FALSE, << >>),
   arboretum       |-> Band(189, 221, 442, 748, FALSE, ArboretumSchedule)]

\* A listing with no bands of its own: PriceLabs may show it, nothing prices it.
Unbanded == "unbanded"
=============================================================================

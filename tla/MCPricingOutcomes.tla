-------------------------- MODULE MCPricingOutcomes --------------------------
(* PricingOutcomes with a night that two stays can cover, one after the other *)
(* is cancelled; one of them ends later than the night.                       *)
EXTENDS PricingOutcomes

CONSTANTS long, short, p1, p2

MCReservations == {long, short}
MCCheckIn == [r \in MCReservations |-> 0]
MCCheckOut == [r \in MCReservations |-> IF r = long THEN 2 ELSE 1]
=============================================================================

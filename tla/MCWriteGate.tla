----------------------------- MODULE MCWriteGate -----------------------------
(* Two listings, two calls, a night that moves by a market and by a pin.   *)
EXTENDS WriteGate, TLC

CONSTANTS c1, c2

MCListings == {"roslindale", "harvard"}
MCBands == [l \in MCListings |-> DeployedBands[l]]

Reading(price, p25, adr) ==
  [price |-> price * Dollar, p25 |-> p25 * Dollar, median |-> 300 * Dollar,
   marketOccupancy |-> 454, listingOccupancy |-> 60, demand |-> "Normal Demand", gap |-> 0,
   samples |-> 4, adr |-> adr * Dollar, daysOut |-> 10, month |-> 6,
   pinned |-> FALSE, pinPrice |-> 0, open |-> TRUE, fresh |-> TRUE]

\* Over its own history, and under the market; a night that was pinned by a
\* call is under the market with a pin.
MCReadings ==
  {Reading(200, 190, 150), Reading(160, 190, 150)}

\* A price no rule would propose for any of these nights.
MCPrices == {20 * Dollar}

\* The card of a call that is over is not looked at again.
Over == {"refused", "unanswered", "done", "lost"}
WithoutPastCards ==
  LET past == {c \in Calls : calls[c].step \in Over}
  IN  <<env, session, now, night, [c \in Calls \ past |-> calls[c]], opened,
        drawn \ past, restarts>>

Interchangeable == Permutations(Calls)
=============================================================================

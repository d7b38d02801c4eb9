------------------------------- MODULE Vacancy -------------------------------
(***************************************************************************)
(* The Vacancy board: what the provider's calendar rows say of each night  *)
(* (pricelabs.normalise), the runs of open and of unsellable nights they   *)
(* leave, and the order in which the board shows them (vacancy).           *)
(*                                                                         *)
(* Days count from the first night of the horizon; prices are whole        *)
(* dollars, 0 where there is none, as _price reads one that is not         *)
(* positive. A row's status is "absent" (no such field, or no string),     *)
(* "blocked", "booked" (that prefix), "other" (any other text) or "empty". A    *)
(* calendar is a function from the days that have a night: the code keeps  *)
(* its nights in date order, which is the order of their days.             *)
(***************************************************************************)
EXTENDS Integers, Sequences, FiniteSets, SequencesExt, OrderStatistics

CONSTANTS
  Horizon,          \* nights of the horizon: 7, 30 or 60 in the code
  FirstWeekday,     \* weekday of night 0, Monday being 0
  PercentileNights  \* MIN_PRICED_NIGHTS_FOR_PERCENTILE: 8 in the code

ASSUME HorizonAssumption == Horizon \in Nat \ {0} /\ FirstWeekday \in 0 .. 6
ASSUME PercentileAssumption == PercentileNights \in Nat \ {0}

Days == 0 .. Horizon - 1

NightStates == {"BOOKED", "OPEN", "UNBOOKABLE", "BLOCKED", "UNKNOWN"}

-----------------------------------------------------------------------------
(* The provider's rows.                                                     *)

RowStatuses == {"absent", "blocked", "booked", "other", "empty"}

NoNumber == -100  \* a field that is absent or holds no number

\* night_state. Of an occupancy only 1 is told apart, of an unbookable flag 0 and 1.
StateOf(row) ==
  CASE row.status = "absent" \/ row.occupancy = NoNumber -> "UNKNOWN"
    [] row.status = "blocked"                            -> "BLOCKED"
    [] row.status = "booked"                             -> "BOOKED"
    [] row.status \in {"other", "empty"} /\ row.occupancy = 1 -> "BOOKED"
    [] row.status = "other" /\ row.occupancy # 1         -> "UNKNOWN"
    [] OTHER -> IF row.unbookable = 1 THEN "UNBOOKABLE"
                ELSE IF row.unbookable = 0 THEN "OPEN" ELSE "UNKNOWN"

Night(row) == [state |-> StateOf(row), price |-> row.price, minStay |-> row.minStay]

IsWeekend(day) == (FirstWeekday + day) % 7 \in {4, 5}

\* property_calendar: the last row of a day wins, a day outside the horizon is
\* dropped, a day without a row is missing.
Calendar(rows) ==
  [d \in {rows[i].day : i \in DOMAIN rows} \cap Days |->
     Night(rows[Max({i \in DOMAIN rows : rows[i].day = d})])]

MissingNights(nights) == Cardinality(Days) - Cardinality(DOMAIN nights)

\* listing_health_from_listing, of two percentages that may be missing (-1).
\* The row names no booking window, so no listing has one.
ListingHealth(row) ==
  [market |-> row.market, listing |-> row.listing, window |-> -1]

-----------------------------------------------------------------------------
(* Runs and prices.                                                         *)

InState(nights, state) == {d \in DOMAIN nights : nights[d].state = state}

Priced(nights, days) == {d \in days : nights[d].price > 0}

GrossValue(nights, days) ==
  MapThenSumSet(LAMBDA d : nights[d].price, Priced(nights, days))

\* A run is the interval of its days; the one of no days is no run.
NoRun == [first |-> 0, last |-> -1]

OneDay(d) == [first |-> d, last |-> d]

\* Mutant: a night goes on the run in hand although one between them is missing.
GoesOnGapped(run, d) == TRUE

\* A night goes on the run in hand if nothing lies between them.
GoesOn(run, d) == run = NoRun \/ d = run.last + 1

Closed(loop) ==
  IF loop.current = NoRun THEN loop.found ELSE Append(loop.found, loop.current)

\* What the loop of runs_of has found and has in hand after one more night.
AfterNight(loop, night, d, state) ==
  IF night.state = state /\ GoesOn(loop.current, d)
    THEN [found   |-> loop.found,
          current |-> [first |-> IF loop.current = NoRun THEN d ELSE loop.current.first,
                       last  |-> d]]
    ELSE [found   |-> Closed(loop),
          current |-> IF night.state = state THEN OneDay(d) ELSE NoRun]

\* The loop before each day, in date order; a day without a night is no step of it.
LoopBefore(nights, state) ==
  LET before[d \in 0 .. Horizon] ==
        IF d = 0 THEN [found |-> << >>, current |-> NoRun]
        ELSE IF d - 1 \in DOMAIN nights
          THEN AfterNight(before[d - 1], nights[d - 1], d - 1, state)
        ELSE before[d - 1]
  IN  before

\* runs_of.
RunsOf(nights, state) == Closed(LoopBefore(nights, state)[Horizon])

\* high_value_threshold, times four: the interpolated 75th percentile of the
\* prices; 0 where they are too few to have one.
HighValueThreshold(nights) ==
  LET prices == [d \in Priced(nights, DOMAIN nights) |-> nights[d].price]
      count  == Cardinality(DOMAIN prices)
      rank   == 3 * (count - 1)
      low    == rank \div 4 + 1
      high   == IF rank % 4 = 0 THEN low ELSE low + 1
  IN  IF count < PercentileNights THEN 0
      ELSE 4 * InOrder(prices, low)
             + (rank % 4) * (InOrder(prices, high) - InOrder(prices, low))

HighValue(night, threshold) == threshold > 0 /\ night.price > 0 /\ 4 * night.price >= threshold

\* The days whose nights a property's own prices make high value ones.
HighValueDays(nights, days) ==
  LET threshold == HighValueThreshold(nights)
  IN  {d \in days : HighValue(nights[d], threshold)}

\* describe_window.
Window(nights, run) ==
  LET days == (run.first .. run.last) \cap DOMAIN nights
  IN  [start     |-> run.first,
       nights    |-> Cardinality(days),
       weekend   |-> Cardinality({d \in days : IsWeekend(d)}),
       priced    |-> Cardinality(Priced(nights, days)),
       gross     |-> GrossValue(nights, days),
       highValue |-> Cardinality(HighValueDays(nights, days)),
       minStays  |-> {nights[d].minStay : d \in days} \ {0},
       truncated |-> run.first = 0 \/ run.last = Horizon - 1]

\* unbookable_reason gives one: the provider's own rule leaves the run unsold.
HasReason(window) == \E stay \in window.minStays : stay > window.nights

OrphanClass(window) ==
  CASE window.nights = 1 -> "one_night" [] window.nights = 2 -> "two_night"
    [] OTHER -> "longer"

-----------------------------------------------------------------------------
(* The ranking.                                                             *)

MaterialGapPoints  == 10
WeekendBonus       == 5    \* per cent of the gross, per weekend night
WeekendBonusCap    == 20
HighValueBonus     == 10
BookingWindowBonus == 15
BelowMarketBonus   == 20
TopOpportunities   == 10
LargeWindowNights  == 5

\* property_context.
BelowMarket(health) ==
  health.market >= 0 /\ health.listing >= 0 /\ health.market - health.listing >= MaterialGapPoints

InsideBookingWindow(health, lead) == health.window >= 0 /\ lead <= health.window

\* Mutant: many weekends are worth more than the cap.
WeekendSharesUncapped(window) == WeekendBonus * window.weekend

WeekendShares(window) ==
  IF WeekendBonus * window.weekend > WeekendBonusCap THEN WeekendBonusCap
                                                     ELSE WeekendBonus * window.weekend

\* score_window, in hundredths.
Score(window, health) ==
  window.gross * (100 + WeekendShares(window)
                      + (IF window.highValue > 0 THEN HighValueBonus ELSE 0)
                      + (IF InsideBookingWindow(health, window.start)
                           THEN BookingWindowBonus ELSE 0)
                      + (IF BelowMarket(health) THEN BelowMarketBonus ELSE 0))

\* One of an entry's windows goes before another; equal ones keep their order.
RanksBefore(entries, i, j) ==
  LET a == entries[i]
      b == entries[j]
      score(e) == Score(e.window, e.health)
  IN  \/ score(a) > score(b)
      \/ score(a) = score(b) /\ a.window.start < b.window.start
      \/ /\ score(a) = score(b) /\ a.window.start = b.window.start
         /\ a.listing < b.listing \/ (a.listing = b.listing /\ i < j)

\* The entries whose window has a score.
Scored(entries) == {i \in DOMAIN entries : Score(entries[i].window, entries[i].health) > 0}

RankOf(entries, i) == Cardinality({j \in Scored(entries) : RanksBefore(entries, j, i)}) + 1

\* rank_opportunities: entries [window, health, listing], the best ten.
Ranked(entries) ==
  LET scored == Scored(entries)
      shown  == IF Cardinality(scored) > TopOpportunities THEN TopOpportunities
                                                          ELSE Cardinality(scored)
  IN  [k \in 1 .. shown |-> entries[CHOOSE i \in scored : RankOf(entries, i) = k]]

-----------------------------------------------------------------------------
(* One property of the board, and the board's totals.                       *)

WindowsOf(nights, state) ==
  LET runs == RunsOf(nights, state)
  IN  [i \in DOMAIN runs |-> Window(nights, runs[i])]

\* attention_reasons; the longest open run counts from its first occurrence.
Attention(nights, health) ==
  LET lengths == {w.nights : w \in ToSet(WindowsOf(nights, "OPEN"))} \cup {0}
      longest == Max(lengths)
      first   == SelectInSeq(WindowsOf(nights, "OPEN"), LAMBDA w : w.nights = longest)
  IN  (IF BelowMarket(health) THEN {"BELOW_MARKET"} ELSE {})
        \cup (IF longest >= LargeWindowNights THEN {"LARGE_WINDOW"} ELSE {})
        \cup (IF /\ longest >= LargeWindowNights
                 /\ InsideBookingWindow(health, WindowsOf(nights, "OPEN")[first].start)
                THEN {"SOON"} ELSE {})

\* One entry of build_board's properties.
PropertyEntry(rows, healthRow) ==
  LET nights == Calendar(rows)
      count(state) == Cardinality(InState(nights, state))
      health == ListingHealth(healthRow)
  IN  [counted    |-> Cardinality(DOMAIN nights),
       missing    |-> MissingNights(nights),
       counts     |-> [s \in NightStates |-> count(s)],
       known      |-> Cardinality(DOMAIN nights) - count("UNKNOWN"),
       gross      |-> GrossValue(nights, InState(nights, "OPEN")),
       unsellable |-> GrossValue(nights, InState(nights, "UNBOOKABLE")),
       highValue  |-> HighValueDays(nights, InState(nights, "OPEN")),
       open       |-> WindowsOf(nights, "OPEN"),
       orphans    |-> WindowsOf(nights, "UNBOOKABLE"),
       attention  |-> Attention(nights, health)]

\* _totals: occupancy as the board shows it, in tenths; -1 where nothing is known.
Occupancy(entries) ==
  LET booked == SumFunction([i \in DOMAIN entries |-> entries[i].counts["BOOKED"]])
      known  == SumFunction([i \in DOMAIN entries |-> entries[i].known])
  IN  IF known <= 0 THEN -1 ELSE (2000 * booked + known) \div (2 * known)

\* The provider's own reading, as the comment on OCCUPIED_STATES settles it and
\* occupancy_of computes it.
OccupancyOf(entries) ==
  LET occupied == SumFunction([i \in DOMAIN entries |-> entries[i].counts["BOOKED"]
                                                    + entries[i].counts["BLOCKED"]])
      known    == SumFunction([i \in DOMAIN entries |-> entries[i].known])
  IN  IF known <= 0 THEN -1 ELSE (2000 * occupied + known) \div (2 * known)
=============================================================================

----------------------------- MODULE MCDecisions -----------------------------
(* Readings at and on both sides of the boundaries of the rules.              *)
EXTENDS Decisions

\* Four listings of the deployment and one whose schedule goes under its hard
\* floor.
MCListings == {"roslindale", "renovatedSecond", "arboretum", "harvard", "low"}
MCBands ==
  [l \in MCListings |->
     IF l = "low" THEN Band(150, 170, 250, 300, FALSE, << Flat(140) >>) ELSE DeployedBands[l]]

Cents(n) == n * 10  \* n half dollars

MCNights ==
  {n \in [price : {0, Cents(287), Cents(301), Cents(341), Cents(401)},
          p25 : {0, Cents(310), Cents(343), Cents(435), Cents(500)}, median : {0, Cents(400)},
          marketOccupancy : {-1, 454}, listingOccupancy : {62},
          demand : {"none", "Low Demand", "Normal Demand", "High Demand"},
          gap : {0, 16}, samples : {2, 3, 5}, adr : {0, Cents(250), Cents(255)},
          daysOut : {7, 14, 20}, month : {2}, pinned : BOOLEAN, pinPrice : {0},
          open : BOOLEAN, fresh : {TRUE}] :
     (n.samples < 3) = (n.adr = 0)}

Rows == [status : {"booked", "cancelled"}, revenue : {0, 4000, 9000}, nights : {1, 2},
         lead : {2, 9}]
MCHistory == UNION {[1 .. k -> {r \in Rows : r.revenue # 0 \/ r.lead = 2}] : k \in {3}}

Row(day, status, occupancy, unbookable, price, minStay) ==
  [day |-> day, status |-> status, occupancy |-> occupancy, unbookable |-> unbookable,
   price |-> price, minStay |-> minStay]

RowKinds(d) ==
  {Row(d, "empty", 0, 0, 200, 2), Row(d, "empty", 0, 1, 120, 3), Row(d, "booked", 1, 0, 200, 0),
   Row(d, "blocked", 0, 0, 0, 0), Row(d, "other", 0, 0, 200, 0), Row(d, "empty", 0, NoNumber, 0, 0),
   Row(d, "empty", -1, 0, 150, 0)}

\* A week with at most one row a night, and three rows in any order.
MCCalendars ==
  LET week == [0 .. 4 -> 1 .. 4]
      kind(d, k) == CASE k = 1 -> << Row(d, "empty", 0, 0, 200, 2) >>
                      [] k = 2 -> << Row(d, "empty", 0, 1, 120, 3) >>
                      [] k = 3 -> << >>
                      [] OTHER -> << Row(d, "booked", 1, 0, 300, 0) >>
  IN  {FlattenSeq([i \in 1 .. 5 |-> kind(i - 1, w[i - 1])]) : w \in week}
        \cup [1 .. 3 -> UNION {RowKinds(d) : d \in {0, 1, 5}}]

MCEntries ==
  {[window |-> [gross |-> g, weekend |-> w, highValue |-> h, start |-> s],
    health |-> ListingHealth([market |-> m, listing |-> 50]), listing |-> 1] :
     g \in {0, 100, 105, 168, 400}, w \in {0, 2, 8}, h \in {0, 1}, s \in {0, 3},
     m \in {-1, 70}}

\* Every two windows, and boards with more of them than the list shows.
MCBoards ==
  {<<a, b>> : a, b \in MCEntries}
    \cup {[k \in 1 .. 12 |-> IF k <= n THEN a ELSE b] :
            n \in {9, 10, 11},
            a, b \in {e \in MCEntries : /\ e.window.start = 3 /\ e.window.highValue = 0
                                       /\ e.window.weekend # 2 /\ e.window.gross # 105}}

Sentence(leaving, arriving, noon, readings) ==
  [leaving |-> leaving, arriving |-> arriving, noon |-> noon, readings |-> readings]
At(h, m, meridiem) == [hour |-> h, minute |-> m, meridiem |-> meridiem]
Said(from, marks, sentences) == [from |-> from, marks |-> marks, sentences |-> sentences]

MCMessages ==
  {Said("Renter", marks, {}) :
     marks \in {{}, {"question"}, {"closing_phrase"}, {"closing_phrase", "question_mark"},
                {"question", "parking"}, {"request", "asks_extension"},
                {"question", "asks_early"}, {"question", "mechanics"},
                {"closing_phrase", "accepts"}}}
    \cup {Said("Renter", {"question"}, {Sentence(TRUE, a, FALSE, {At(1, 0, "none")})}) :
            a \in BOOLEAN}
    \cup {Said("Renter", {"question"}, {Sentence(TRUE, FALSE, FALSE, {At(10, 30, "a")})})}
    \cup {Said("Owner", marks, {}) : marks \in {{}, {"offer_30"}, {"commitment", "early_check_in"}}}

Answer(kind, marks, sentences) == [kind |-> kind, marks |-> marks, sentences |-> sentences]
MCAnswers ==
  {Answer(k, {}, {}) : k \in {"fails", "no_reply", "unfinished", "text"}}
    \cup {Answer("text", m, {}) : m \in {{"offer_30"}, {"other_discount"}, {"mechanics"}}}
    \cup {Answer("text", {}, {Sentence(TRUE, FALSE, n, {At(11, 0, "a")})}) : n \in BOOLEAN}

Stays == {[id |-> i, property |-> p, arrival |-> a, departure |-> a + 2, status |-> s] :
            i \in {1, 2}, p \in {1, 2}, a \in {-2, 0, 2}, s \in {"Booked", "Declined"}}
MCSchedules ==
  {{x, y} : x \in {s \in Stays : s.id = 1 /\ s.property = 1}, y \in {s \in Stays : s.id = 2}}

MCClock == [hour : 0 .. 24, minute : {0, 30, 59, 60}, meridiem : {"none", "a", "p"}]

\* Wordings: a plain rule, two that repeat it (one with a number), three that
\* only resemble it, and one that screening rejects.
Plain == {"plain"}
Repeats == {"again", "numeric"}
Resembling == {"permits", "restricts", "building"}
MCWordings == Plain \cup Repeats \cup Resembling \cup {"priced"}
MCMarks ==
  [w \in MCWordings |->
     CASE w = "numeric"   -> {"numeric"}
       [] w = "permits"   -> {"permissive"}
       [] w = "restricts" -> {"restrictive"}
       [] w = "building"  -> {"property_specific"}
       [] w = "priced"    -> {"price"}
       [] OTHER           -> {}]
MCOverlap ==
  [v, w \in MCWordings |->
     IF v = w THEN 100
     ELSE IF {v, w} \subseteq Plain \cup Repeats THEN 55
     ELSE IF {v, w} \subseteq Plain \cup Resembling THEN 45
     ELSE 54 - 10 * Cardinality({v, w} \cap {"priced", "building"})]

MCEvidence == {"p1", "p2", "p3", "unattributed"} \X {"s", "t"} \X (1 .. 3)
Wrote(scope, about, says, k) ==
  [scope |-> scope, subject |-> about, says |-> says,
   refs |-> {<<scope, about, i>> : i \in 1 .. k}]
Shapes ==
  ({"plain", "again", "numeric", "permits", "restricts", "building"} \X {2})
    \cup {<<"plain", 3>>, <<"numeric", 3>>, <<"permits", 3>>, <<"plain", 1>>, <<"priced", 2>>}

\* An answer about each of three properties, and one more about any scope.
MCCandidates ==
  {<< Wrote("p1", "s", x[1], x[2]), Wrote("p2", "s", y[1], y[2]),
      Wrote("p3", "s", z[1], z[2]), Wrote(at, about, "again", k) >> :
     x, y, z \in Shapes, at \in {"p1", "p3", "unattributed"}, about \in {"s", "t"}, k \in {2}}
  \cup
  {<< Wrote("p1", "s", x[1], 2), Wrote("p2", "s", "plain", 2), Wrote("p1", "s", y[1], 3),
      Wrote("p3", "s", "plain", 2), Wrote("p1", "s", z[1], z[2]) >> : x, y, z \in Shapes}

MCShortWords == {"ok"}
Wording(from, words, day, template) ==
  [from |-> from, words |-> words, day |-> day, template |-> template]
MCLetters ==
  {Wording("Renter", words, d, FALSE) : words \in {<<"parking">>, <<"ok">>, << >>}, d \in {1, 2}}
    \cup {Wording("Owner", words, 2, FALSE) : words \in {<<"street">>, <<"driveway">>, <<"ok">>}}
    \cup {Wording("Owner", <<"confirmation">>, 2, TRUE)}
=============================================================================

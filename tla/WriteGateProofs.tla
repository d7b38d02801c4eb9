--------------------------- MODULE WriteGateProofs ---------------------------
(***************************************************************************)
(* Theorems about WriteGate, for every set of listings, bands, calls and   *)
(* readings and every bound. The invariant says where the card of a call   *)
(* comes from; what the console submitted is what the rules drew from some *)
(* night the provider could show. With the lemmas about the rules, first   *)
(* below, this bounds what such a call can do when it runs much later.     *)
(***************************************************************************)
EXTENDS WriteGate, WellFoundedInduction, TLAPS

-----------------------------------------------------------------------------
(* Rounding.                                                                *)

\* Whole dollars and what is left over (the arithmetic of Dollar).
LEMMA InWholeDollars ==
  ASSUME NEW x \in Nat
  PROVE  \E q \in Nat, r \in 0 .. 19 :
           x \div Dollar = q /\ x % Dollar = r /\ x = 20 * q + r
<1>1. /\ x \div 20 \in Nat /\ x % 20 \in 0 .. 19
      /\ x = 20 * (x \div 20) + (x % 20)
  OBVIOUS
<1> QED BY <1>1 DEF Dollar

\* A price rounds to whole dollars at most half a dollar away (_round).
LEMMA RoundIsNear ==
  ASSUME NEW x \in Nat
  PROVE  \E q \in Nat : Round(x) = 20 * q /\ 20 * q <= x + 10 /\ x <= 20 * q + 10
<1>1. PICK q \in Nat, r \in 0 .. 19 :
        x \div Dollar = q /\ x % Dollar = r /\ x = 20 * q + r
  BY InWholeDollars
<1>2. Round(x) = 20 * (IF 2 * r < 20 \/ (2 * r = 20 /\ q % 2 = 0) THEN q ELSE q + 1)
  BY <1>1 DEF Round, Dollar
<1>3. CASE 2 * r < 20 \/ (2 * r = 20 /\ q % 2 = 0)
  <2>1. Round(x) = 20 * q
    BY <1>2, <1>3
  <2>2. 20 * q <= x + 10 /\ x <= 20 * q + 10
    BY <1>1, <1>3
  <2> QED BY <2>1, <2>2
<1>4. CASE ~(2 * r < 20 \/ (2 * r = 20 /\ q % 2 = 0))
  <2>1. Round(x) = 20 * (q + 1)
    BY <1>2, <1>4
  <2>2. q + 1 \in Nat /\ 20 * (q + 1) <= x + 10 /\ x <= 20 * (q + 1) + 10
    BY <1>1, <1>4
  <2> QED BY <2>1, <2>2
<1> QED BY <1>3, <1>4

\* ... and to the dollar it is less than half a dollar from.
LEMMA RoundIsNearest ==
  ASSUME NEW x \in Nat, NEW q \in Nat, 20 * q < x + 10, x < 20 * q + 10
  PROVE  Round(x) = 20 * q
<1>1. PICK r \in Nat : Round(x) = 20 * r /\ 20 * r <= x + 10 /\ x <= 20 * r + 10
  BY RoundIsNear
<1> QED BY <1>1

LEMMA RoundIsMonotone ==
  ASSUME NEW x \in Nat, NEW y \in Nat, x < y
  PROVE  Round(x) <= Round(y)
<1>1. PICK q \in Nat : Round(x) = 20 * q /\ 20 * q <= x + 10 /\ x <= 20 * q + 10
  BY RoundIsNear
<1>2. PICK r \in Nat : Round(y) = 20 * r /\ 20 * r <= y + 10 /\ y <= 20 * r + 10
  BY RoundIsNear
<1> QED BY <1>1, <1>2

\* Two prices with one rounded price are at most a dollar apart: what a
\* fingerprint can miss.
LEMMA RoundTells ==
  ASSUME NEW x \in Nat, NEW y \in Nat, Round(x) = Round(y)
  PROVE  AbsDiff(x, y) \in 0 .. 20
<1>1. PICK q \in Nat : Round(x) = 20 * q /\ 20 * q <= x + 10 /\ x <= 20 * q + 10
  BY RoundIsNear
<1>2. PICK r \in Nat : Round(y) = 20 * r /\ 20 * r <= y + 10 /\ y <= 20 * r + 10
  BY RoundIsNear
<1>3. 20 * q = 20 * r
  BY <1>1, <1>2
<1>4. x <= y + 20 /\ y <= x + 20
  BY <1>1, <1>2, <1>3
<1> QED BY <1>4 DEF AbsDiff

LEMMA FloorDollarIsUnder ==
  ASSUME NEW x \in Nat
  PROVE  \E q \in Nat : FloorDollar(x) = 20 * q /\ 20 * q <= x /\ x < 20 * q + 20
<1>1. PICK q \in Nat, r \in 0 .. 19 :
        x \div Dollar = q /\ x % Dollar = r /\ x = 20 * q + r
  BY InWholeDollars
<1>2. FloorDollar(x) = 20 * q
  BY <1>1 DEF FloorDollar, Dollar
<1>3. 20 * q <= x /\ x < 20 * q + 20
  BY <1>1
<1> QED BY <1>2, <1>3

LEMMA CeilDollarIsOver ==
  ASSUME NEW x \in Nat
  PROVE  \E q \in Nat : CeilDollar(x) = 20 * q /\ x <= 20 * q /\ 20 * q < x + 20
<1> DEFINE y == x + Dollar - 1
<1>1. y \in Nat /\ y = x + 19
  BY DEF Dollar
<1> HIDE DEF y
<1>2. PICK q \in Nat, r \in 0 .. 19 :
        y \div Dollar = q /\ y % Dollar = r /\ y = 20 * q + r
  BY <1>1, InWholeDollars
<1>3. CeilDollar(x) = Dollar * (y \div Dollar)
  BY DEF CeilDollar, y
<1>4. CeilDollar(x) = 20 * q
  BY <1>2, <1>3 DEF Dollar
<1>5. x <= 20 * q /\ 20 * q < x + 20
  BY <1>1, <1>2
<1> QED BY <1>4, <1>5

-----------------------------------------------------------------------------
(* Least and greatest.                                                      *)

LEMMA LeastOfNaturals ==
  ASSUME NEW S \in SUBSET Nat, S # {}
  PROVE  \E n \in S : \A m \in S : n <= m
<1>0. S \subseteq Nat
  OBVIOUS
<1>1. PICK n \in S : \A m \in S : ~ (<<m, n>> \in OpToRel(<, Nat))
  BY <1>0, NatLessThanWellFounded, WFMin, Zenon
<1>2. ASSUME NEW m \in S, m < n PROVE FALSE
  <2>1. <<m, n>> \in Nat \X Nat /\ <<m, n>>[1] < <<m, n>>[2]
    BY <1>2
  <2>2. <<m, n>> \in OpToRel(<, Nat)
    BY <2>1, Zenon DEF OpToRel
  <2> QED BY <1>1, <2>2, Zenon
<1> QED BY <1>2

LEMMA MinIsLeast ==
  ASSUME NEW S \in SUBSET Nat, S # {}
  PROVE  Min(S) \in S /\ \A m \in S : Min(S) <= m
<1>1. PICK n \in S : \A m \in S : n <= m
  BY LeastOfNaturals
<1> QED BY <1>1 DEF Min

\* What is bounded has a greatest element: the one nearest its bound.
LEMMA MaxIsGreatest ==
  ASSUME NEW a \in Int, NEW b \in Int, NEW S \in SUBSET (a .. b), S # {}
  PROVE  /\ Max(S) \in S /\ \A x \in S : x <= Max(S)
         /\ Max(S) \in Int
<1> DEFINE below == {b - x : x \in S}
<1>1. below \in SUBSET Nat /\ below # {}
  <2>1. \A x \in S : b - x \in Nat
    OBVIOUS
  <2>2. PICK x \in S : TRUE
    OBVIOUS
  <2> QED BY <2>1, <2>2, Zenon
<1>2. PICK n \in below : \A m \in below : n <= m
  BY <1>1, LeastOfNaturals
<1>3. PICK x \in S : n = b - x
  BY <1>2, Zenon
<1>4. ASSUME NEW y \in S PROVE x >= y
  <2>1. b - y \in below
    OBVIOUS
  <2>2. b - x <= b - y
    BY <1>2, <1>3, <2>1
  <2> QED BY <2>2
<1>5. Max(S) = CHOOSE z \in S : \A y \in S : z >= y
  BY DEF Max
<1>6. Max(S) \in S /\ \A y \in S : Max(S) >= y
  BY <1>4, <1>5
<1>7. \A y \in S : y \in Int
  OBVIOUS
<1> DEFINE greatest == Max(S)
<1> HIDE DEF greatest
<1>8. /\ greatest \in S /\ greatest \in Int
      /\ \A y \in S : y \in Int /\ greatest >= y
  BY <1>6, <1>7, Zenon DEF greatest
<1>9. \A y \in S : y <= greatest
  BY <1>8
<1> QED BY <1>8, <1>9 DEF greatest

-----------------------------------------------------------------------------
(* The cap.                                                                 *)

LEMMA MinOfTwo ==
  ASSUME NEW a \in Int, NEW b \in Int
  PROVE  Min({a, b}) = IF a <= b THEN a ELSE b
<1> DEFINE m == IF a <= b THEN a ELSE b
<1>1. m \in {a, b} /\ \A y \in {a, b} : m =< y
  OBVIOUS
<1>2. \A x \in {a, b} : (\A y \in {a, b} : x =< y) => x = m
  OBVIOUS
<1> QED BY <1>1, <1>2 DEF Min

LEMMA MaxOfTwo ==
  ASSUME NEW a \in Int, NEW b \in Int
  PROVE  Max({a, b}) = IF a >= b THEN a ELSE b
<1> DEFINE m == IF a >= b THEN a ELSE b
<1>1. m \in {a, b} /\ \A y \in {a, b} : m >= y
  OBVIOUS
<1>2. \A x \in {a, b} : (\A y \in {a, b} : x >= y) => x = m
  OBVIOUS
<1> QED BY <1>1, <1>2 DEF Max

LEMMA TenPerCent ==
  ASSUME NEW c \in Nat
  PROVE  /\ MaxChange(c) \in Nat /\ 10 * MaxChange(c) <= c
         /\ c >= LeastPrice => MaxChange(c) >= 10
  BY DEF MaxChange, LeastPrice, Dollar

\* A move is held to ten per cent of the price (clamp_move).
LEMMA ClampIsWithinTheCap ==
  ASSUME NEW c \in Nat, NEW p \in Nat
  PROVE  /\ ClampMove(c, p) \in Nat
         /\ ClampMove(c, p) <= c + MaxChange(c)
         /\ c <= ClampMove(c, p) + MaxChange(c)
         /\ p < c => ClampMove(c, p) < c \/ MaxChange(c) = 0
         /\ p > c => ClampMove(c, p) > c \/ MaxChange(c) = 0
<1>0. MaxChange(c) \in Nat /\ c - MaxChange(c) \in Int /\ c - MaxChange(c) >= 0
  BY TenPerCent
<1>1. CASE p > c
  <2>1. ClampMove(c, p) = IF p <= c + MaxChange(c) THEN p ELSE c + MaxChange(c)
    BY <1>0, <1>1, MinOfTwo DEF ClampMove
  <2> QED BY <1>0, <1>1, <2>1
<1>2. CASE ~(p > c)
  <2>1. ClampMove(c, p) = IF p >= c - MaxChange(c) THEN p ELSE c - MaxChange(c)
    BY <1>0, <1>2, MaxOfTwo DEF ClampMove
  <2> QED BY <1>0, <1>2, <2>1
<1> QED BY <1>1, <1>2

\* The price a rule proposes is a whole number of dollars within the cap, and on
\* the side of the price it was asked for or at the price's own rounding
\* (cap_safe_price).
LEMMA CapSafe ==
  ASSUME NEW c \in Nat, c >= LeastPrice, NEW p \in Nat
  PROVE  \E q \in Nat :
           /\ CapSafePrice(c, p) = 20 * q
           /\ 20 * q <= c + MaxChange(c) /\ c <= 20 * q + MaxChange(c)
           /\ p < c => 20 * q < c \/ Round(c) = 20 * q
           /\ p > c => 20 * q > c \/ Round(c) = 20 * q
<1> DEFINE move == ClampMove(c, p)
           step == MaxChange(c)
<1>1. step \in Nat /\ step >= 10 /\ 10 * step <= c
  BY TenPerCent
<1>2. /\ move \in Nat /\ move <= c + step /\ c <= move + step
      /\ (p < c => move < c) /\ (p > c => move > c)
  <2>1. /\ move \in Nat /\ move <= c + step /\ c <= move + step
        /\ p < c => move < c \/ step = 0
        /\ p > c => move > c \/ step = 0
    BY ClampIsWithinTheCap
  <2> HIDE DEF move, step
  <2> QED BY <1>1, <2>1
<1>3. PICK n \in Nat : Round(move) = 20 * n /\ 20 * n <= move + 10 /\ move <= 20 * n + 10
  BY <1>2, RoundIsNear
<1>4. PICK k \in Nat : Round(c) = 20 * k /\ 20 * k <= c + 10 /\ c <= 20 * k + 10
  BY RoundIsNear
<1>5. (move < c => n <= k) /\ (move > c => k <= n)
  BY <1>2, <1>3, <1>4, RoundIsMonotone
<1> HIDE DEF move, step
<1>6. CapSafePrice(c, p) = IF 20 * n < c - step THEN CeilDollar(c - step)
                           ELSE IF 20 * n > c + step THEN FloorDollar(c + step)
                           ELSE 20 * n
  BY <1>3 DEF CapSafePrice, move, step
<1>7. CASE 20 * n < c - step
  <2>1. c - step \in Nat
    BY <1>1
  <2>2. PICK q \in Nat : /\ CeilDollar(c - step) = 20 * q
                         /\ c - step <= 20 * q /\ 20 * q < c - step + 20
    BY <2>1, CeilDollarIsOver
  <2>3. 20 * q >= c => Round(c) = 20 * q
    BY <1>1, <2>2, RoundIsNearest
  <2>4. p > c => FALSE
    BY <1>1, <1>2, <1>3, <1>7
  <2>5. CapSafePrice(c, p) = 20 * q
    BY <1>6, <1>7, <2>2
  <2>6. 20 * q <= c + step /\ c <= 20 * q + step
    BY <1>1, <2>2
  <2>7. p < c => 20 * q < c \/ Round(c) = 20 * q
    BY <2>3
  <2> QED BY <2>4, <2>5, <2>6, <2>7 DEF step
<1>8. CASE 20 * n > c + step
  <2>1. c + step \in Nat
    BY <1>1
  <2>2. PICK q \in Nat : /\ FloorDollar(c + step) = 20 * q
                         /\ 20 * q <= c + step /\ c + step < 20 * q + 20
    BY <2>1, FloorDollarIsUnder
  <2>3. 20 * q <= c => Round(c) = 20 * q
    BY <1>1, <2>2, RoundIsNearest
  <2>4. p < c => FALSE
    BY <1>1, <1>2, <1>3, <1>8
  <2>5. ~(20 * n < c - step)
    BY <1>1, <1>8
  <2>6. CapSafePrice(c, p) = 20 * q
    BY <1>6, <1>8, <2>2, <2>5
  <2>7. 20 * q <= c + step /\ c <= 20 * q + step
    BY <1>1, <2>2
  <2>8. p > c => 20 * q > c \/ Round(c) = 20 * q
    BY <2>3
  <2> QED BY <2>4, <2>6, <2>7, <2>8 DEF step
<1>9. CASE ~(20 * n < c - step) /\ ~(20 * n > c + step)
  <2>1. CapSafePrice(c, p) = 20 * n
    BY <1>6, <1>9
  <2>2. 20 * n <= c + step /\ c <= 20 * n + step
    BY <1>1, <1>9
  <2>3. p < c => 20 * n < c \/ Round(c) = 20 * n
    BY <1>2, <1>3, <1>4, <1>5
  <2>4. p > c => 20 * n > c \/ Round(c) = 20 * n
    BY <1>2, <1>3, <1>4, <1>5
  <2> QED BY <2>1, <2>2, <2>3, <2>4 DEF step
<1> QED BY <1>7, <1>8, <1>9

-----------------------------------------------------------------------------
(* One night.                                                               *)

\* A night some rule would move is unpinned and priced, and the move goes the way
\* of its name (recommend_night).
LEMMA MovedNights ==
  ASSUME NEW n \in NightReading
  PROVE  /\ CandidateAction(n) \in Actions
         /\ CandidateAction(n) \in {"LOWER", "RAISE"} => ~n.pinned /\ n.price >= LeastPrice
         /\ CandidateAction(n) = "LOWER" => n.adr < n.price
         /\ CandidateAction(n) = "RAISE" => n.price < n.p25
<1>1. /\ n.price \in Nat /\ (n.price = 0 \/ n.price >= LeastPrice)
      /\ n.p25 \in Nat /\ n.adr \in Nat /\ n.pinned \in BOOLEAN
  BY DEF NightReading
<1>2. PinnedAction(n) \in {"REMOVE_PIN", "KEEP_PIN"}
  BY DEF PinnedAction
<1>3. /\ NearTermAction(n) \in {"LOWER", "RAISE", "HOLD"}
      /\ NearTermAction(n) = "LOWER" => LowersOnHistory(n)
      /\ NearTermAction(n) = "RAISE" => RaisesOnMarket(n)
  BY DEF NearTermAction
<1>4. LowersOnHistory(n) => n.adr < n.price
  BY <1>1 DEF LowersOnHistory
<1>5. RaisesOnMarket(n) => n.price < n.p25
  BY DEF RaisesOnMarket
<1>6. CASE n.pinned
  BY <1>2, <1>6 DEF CandidateAction, Actions, WriteActions
<1>7. CASE ~n.pinned
  BY <1>1, <1>3, <1>4, <1>5, <1>7 DEF CandidateAction, Actions, WriteActions
<1> QED BY <1>6, <1>7

\* The price of a move is a whole number of dollars within a tenth of the night's,
\* on the side its name says or at the night's own rounding.
LEMMA MovePrice ==
  ASSUME NEW n \in NightReading, NEW a \in {"LOWER", "RAISE"}, CandidateAction(n) = a
  PROVE  \E q \in Nat :
           /\ CandidatePrice(n, a) = 20 * q
           /\ 20 * q <= n.price + MaxChange(n.price)
           /\ n.price <= 20 * q + MaxChange(n.price)
           /\ a = "LOWER" => 20 * q < n.price \/ Round(n.price) = 20 * q
           /\ a = "RAISE" => 20 * q > n.price \/ Round(n.price) = 20 * q
<1>1. /\ n.price \in Nat /\ n.p25 \in Nat /\ n.adr \in Nat
      /\ n.price >= LeastPrice
  BY MovedNights DEF NightReading
<1>2. /\ MaxChange(n.price) \in Nat /\ 10 * MaxChange(n.price) <= n.price
      /\ MaxChange(n.price) >= 10
  BY <1>1, TenPerCent
<1>3. CASE a = "LOWER"
  <2> DEFINE p == Max({n.adr, n.price - MaxChange(n.price)})
  <2>1. n.adr < n.price
    BY <1>3, MovedNights
  <2>2. p \in Nat /\ p < n.price
    BY <1>1, <1>2, <2>1, MaxOfTwo
  <2>3. CandidatePrice(n, a) = CapSafePrice(n.price, p)
    BY <1>3 DEF CandidatePrice
  <2> HIDE DEF p
  <2> QED BY <1>1, <1>3, <2>2, <2>3, CapSafe
<1>4. CASE a = "RAISE"
  <2> DEFINE p == Min({n.p25, n.price + MaxChange(n.price)})
  <2>1. n.price < n.p25
    BY <1>4, MovedNights
  <2>2. p \in Nat /\ p > n.price
    BY <1>1, <1>2, <2>1, MinOfTwo
  <2>3. CandidatePrice(n, a) = CapSafePrice(n.price, p)
    BY <1>4 DEF CandidatePrice
  <2> HIDE DEF p
  <2> QED BY <1>1, <1>4, <2>2, <2>3, CapSafe
<1> QED BY <1>3, <1>4

\* The guardrails let a move pass only within the cap and the bands
\* (check_guardrails).
LEMMA NothingRefused ==
  ASSUME NEW a \in {"LOWER", "RAISE"}, NEW c, NEW p, NEW l, NEW confidence,
         Refusal(a, c, p, l, confidence) = "NONE"
  PROVE  /\ l \in Listings /\ ~NoChange(c, p) /\ ~ExceedsMaxChange(c, p)
         /\ ~BelowHardFloor(a, p, Bands[l])
         /\ ~AboveCeiling(a, p, Bands[l].autoRaiseCeiling)
  BY DEF Refusal

\* A night that may be moved is moved by ten per cent at most, in whole dollars,
\* the way the action says, and stays within the bands of its listing.
LEMMA MovesAreWithinBounds ==
  ASSUME NEW l, NEW n \in NightReading, Recommend(l, n).action \in {"LOWER", "RAISE"}
  PROVE  LET rec == Recommend(l, n)
         IN  /\ l \in Listings /\ ~n.pinned /\ n.price >= LeastPrice
             /\ rec.proposed \in Nat /\ rec.proposed >= LeastPrice
             /\ rec.proposed % Dollar = 0
             /\ rec.proposed <= n.price + MaxChange(n.price)
             /\ n.price <= rec.proposed + MaxChange(n.price)
             /\ rec.action = "LOWER" => /\ rec.proposed < n.price
                                        /\ rec.proposed >= InDollars(Bands[l].hardFloor)
             /\ rec.action = "RAISE" => /\ rec.proposed > n.price
                                        /\ rec.proposed <= InDollars(Bands[l].autoRaiseCeiling)
<1> DEFINE a == CandidateAction(n)
           p == CandidatePrice(n, a)
           c == n.price
           refusal == IF a \in WriteActions THEN Refusal(a, c, p, l, ConfidenceOf(n)) ELSE "NONE"
           rec == Recommend(l, n)
<1>1. /\ rec.action = IF refusal = "NONE" THEN a
                      ELSE IF a = "REMOVE_PIN" THEN "KEEP_PIN" ELSE "HOLD"
      /\ rec.proposed = IF refusal = "NONE" THEN p ELSE c
  BY DEF Recommend
<1> HIDE DEF rec, refusal
<1>2. refusal = "NONE" /\ rec.action = a /\ rec.proposed = p
  BY <1>1 DEF rec
<1>3. a \in {"LOWER", "RAISE"}
  BY <1>2 DEF rec
<1>4. Refusal(a, c, p, l, ConfidenceOf(n)) = "NONE"
  BY <1>2, <1>3 DEF refusal, WriteActions
<1>5. /\ l \in Listings /\ ~NoChange(c, p)
      /\ ~BelowHardFloor(a, p, Bands[l]) /\ ~AboveCeiling(a, p, Bands[l].autoRaiseCeiling)
  BY <1>3, <1>4, NothingRefused
<1>6. c \in Nat /\ c >= LeastPrice /\ ~n.pinned
  BY <1>3, MovedNights DEF NightReading
<1> HIDE DEF a, p, c
<1>7. PICK q \in Nat :
        /\ p = 20 * q
        /\ 20 * q <= c + MaxChange(c) /\ c <= 20 * q + MaxChange(c)
        /\ a = "LOWER" => 20 * q < c \/ Round(c) = 20 * q
        /\ a = "RAISE" => 20 * q > c \/ Round(c) = 20 * q
  BY <1>3, MovePrice DEF a, p, c
<1>8. MaxChange(c) \in Nat /\ 10 * MaxChange(c) <= c
  BY <1>6, TenPerCent
<1>9. 20 * q \in Nat /\ Round(20 * q) = 20 * q
  BY RoundIsNearest
<1>10. Round(c) # 20 * q
  <2>1. Round(p) # Round(c)
    BY <1>5 DEF NoChange
  <2>2. Round(p) = 20 * q
    BY <1>7, <1>9
  <2> QED BY <2>1, <2>2
<1>11. p \in Nat /\ p % Dollar = 0 /\ p >= LeastPrice
  <2>1. p = 20 * q /\ c <= 20 * q + MaxChange(c)
    BY <1>7
  <2>2. c >= 100
    BY <1>6 DEF LeastPrice, Dollar
  <2>3. q >= 5
    BY <1>6, <1>8, <2>1, <2>2
  <2>4. (20 * q) % 20 = 0
    OBVIOUS
  <2> QED BY <2>1, <2>3, <2>4 DEF Dollar, LeastPrice
<1>12. /\ a = "LOWER" => p < c /\ p >= InDollars(Bands[l].hardFloor)
       /\ a = "RAISE" => p > c /\ p <= InDollars(Bands[l].autoRaiseCeiling)
  <2>1. InDollars(Bands[l].hardFloor) \in Nat /\ InDollars(Bands[l].autoRaiseCeiling) \in Nat
    BY <1>5, BandsAssumption DEF InDollars, Dollar
  <2>2. a = "LOWER" => p < c
    BY <1>7, <1>10
  <2>3. a = "RAISE" => p > c
    BY <1>7, <1>10
  <2>4. a = "LOWER" => p >= InDollars(Bands[l].hardFloor)
    BY <1>5, <1>11, <2>1 DEF BelowHardFloor
  <2>5. a = "RAISE" => p <= InDollars(Bands[l].autoRaiseCeiling)
    BY <1>5, <1>11, <2>1 DEF AboveCeiling
  <2> QED BY <2>2, <2>3, <2>4, <2>5
<1>13. p <= c + MaxChange(c) /\ c <= p + MaxChange(c)
  BY <1>7
<1> QED BY <1>2, <1>5, <1>6, <1>11, <1>12, <1>13 DEF rec, c

\* A rule's own price is never refused for its size: the cap it was clamped to
\* and the cap of the guardrails agree after rounding (cap_safe_price).
LEMMA CapAgrees ==
  ASSUME NEW l, NEW n \in NightReading
  PROVE  Recommend(l, n).refused # "EXCEEDS_MAX_CHANGE"
<1> DEFINE a == CandidateAction(n)
           p == CandidatePrice(n, a)
           c == n.price
<1>1. CASE a \notin WriteActions
  BY <1>1 DEF Recommend
<1>2. CASE a = "REMOVE_PIN"
  <2>1. Refusal(a, c, p, l, ConfidenceOf(n)) \in {"NO_BANDS", "LOW_CONFIDENCE", "NONE"}
    BY <1>2 DEF Refusal
  <2> QED BY <1>2, <2>1 DEF Recommend, WriteActions
<1>3. CASE a \in {"LOWER", "RAISE"}
  <2>1. PICK q \in Nat :
          /\ p = 20 * q
          /\ 20 * q <= c + MaxChange(c) /\ c <= 20 * q + MaxChange(c)
    BY <1>3, MovePrice
  <2>2. c \in Nat /\ MaxChange(c) \in Nat
    BY TenPerCent DEF NightReading
  <2> HIDE DEF a, p, c
  <2>3. ~ExceedsMaxChange(c, p)
    BY <2>1, <2>2 DEF ExceedsMaxChange, AbsDiff
  <2>4. Refusal(a, c, p, l, ConfidenceOf(n)) # "EXCEEDS_MAX_CHANGE"
    BY <2>3 DEF Refusal
  <2> QED BY <2>4 DEF Recommend, a, p, c
<1> QED BY <1>1, <1>2, <1>3 DEF WriteActions

\* The line a person is asked at is no lower than the one nothing may be written
\* under, whatever the schedule says (dynamic_floor).
LEMMA FloorsAreOrdered ==
  ASSUME NEW l \in Listings, NEW month, NEW days
  PROVE  /\ EffectiveFloor(l, month, days) \in Nat
         /\ EffectiveFloor(l, month, days) >= Bands[l].hardFloor
<1> DEFINE bands    == Bands[l]
           schedule == bands.floorSchedule
           matched  == {i \in DOMAIN schedule : Matches(schedule[i], month, days)}
<1>1. /\ bands.hardFloor \in Nat /\ bands.normalFloor \in Nat
      /\ bands.hardFloor <= bands.normalFloor
      /\ schedule \in Seq([floor : Nat, months : SUBSET (1 .. 12), low : Int, high : Int])
  BY BandsAssumption
<1>2. EffectiveFloor(l, month, days) =
        IF matched = {} THEN bands.normalFloor
                        ELSE NotUnderHardFloor(bands, schedule[Min(matched)].floor)
  BY DEF EffectiveFloor
<1>3. DOMAIN schedule = 1 .. Len(schedule) /\ Len(schedule) \in Nat
  BY <1>1
<1> HIDE DEF bands, schedule
<1>6. matched \in SUBSET Nat /\ matched \subseteq DOMAIN schedule
  BY <1>3
<1> HIDE DEF matched
<1>7. \A i \in DOMAIN schedule : schedule[i].floor \in Nat
  <2> DEFINE Rules == [floor : Nat, months : SUBSET (1 .. 12), low : Int, high : Int]
  <2>1. \A rule \in Rules : rule.floor \in Nat
    OBVIOUS
  <2>2. schedule \in Seq(Rules)
    BY <1>1
  <2> HIDE DEF Rules
  <2>3. \A i \in DOMAIN schedule : schedule[i] \in Rules
    BY <2>2
  <2> QED BY <2>1, <2>3
<1>4. CASE matched # {}
  <2> DEFINE floor == schedule[Min(matched)].floor
  <2>1. Min(matched) \in DOMAIN schedule
    BY <1>4, <1>6, MinIsLeast
  <2>2. floor \in Nat
    BY <1>7, <2>1, Zenon
  <2> HIDE DEF floor
  <2>3. NotUnderHardFloor(bands, floor) =
          IF floor >= bands.hardFloor THEN floor ELSE bands.hardFloor
    <3>1. floor \in Int /\ bands.hardFloor \in Int
      BY <1>1, <2>2
    <3>2. Max({floor, bands.hardFloor}) =
            IF floor >= bands.hardFloor THEN floor ELSE bands.hardFloor
      BY <3>1, MaxOfTwo, Zenon
    <3> QED BY <3>2 DEF NotUnderHardFloor
  <2>4. EffectiveFloor(l, month, days) = NotUnderHardFloor(bands, floor)
    BY <1>2, <1>4 DEF floor
  <2> QED BY <1>1, <2>2, <2>3, <2>4 DEF bands
<1>5. CASE matched = {}
  BY <1>1, <1>2, <1>5 DEF bands
<1> QED BY <1>4, <1>5

\* A raise stops at the market's reference price, to the dollar.
LEMMA RaiseStopsAtTheMarket ==
  ASSUME NEW n \in NightReading, CandidateAction(n) = "RAISE"
  PROVE  CandidatePrice(n, "RAISE") <= Round(n.p25)
<1> DEFINE c == n.price
           step == MaxChange(c)
           p == Min({n.p25, c + step})
<1>1. c \in Nat /\ n.p25 \in Nat /\ c < n.p25 /\ step \in Nat /\ step >= 10
  BY MovedNights, TenPerCent DEF NightReading
<1>2. p \in Nat /\ p > c /\ p <= n.p25 /\ p <= c + step
  BY <1>1, MinOfTwo
<1>3. CandidatePrice(n, "RAISE") = CapSafePrice(c, p)
  BY DEF CandidatePrice
<1> HIDE DEF c, step, p
<1>4. ClampMove(c, p) = p
  BY <1>1, <1>2, MinOfTwo DEF ClampMove, step
<1>5. PICK k \in Nat : Round(p) = 20 * k /\ 20 * k <= p + 10 /\ p <= 20 * k + 10
  BY <1>2, RoundIsNear
<1>6. PICK m \in Nat : Round(n.p25) = 20 * m
  BY <1>1, RoundIsNear
<1>7. 20 * k <= 20 * m
  BY <1>1, <1>2, <1>5, <1>6, RoundIsMonotone
<1>8. PICK q \in Nat : FloorDollar(c + step) = 20 * q /\ 20 * q <= c + step
  BY <1>1, FloorDollarIsUnder
<1>9. CapSafePrice(c, p) = IF 20 * k < c - step THEN CeilDollar(c - step)
                           ELSE IF 20 * k > c + step THEN FloorDollar(c + step)
                           ELSE 20 * k
  BY <1>4, <1>5 DEF CapSafePrice, step
<1>10. ~(20 * k < c - step)
  BY <1>1, <1>2, <1>5
<1>11. CapSafePrice(c, p) <= 20 * m
  BY <1>1, <1>7, <1>8, <1>9, <1>10
<1> QED BY <1>3, <1>6, <1>11

-----------------------------------------------------------------------------
\* Where a card in a call comes from (submit_pricing_action).
CardsAreSubmitted ==
  /\ \A c \in Calls : calls[c].step # "idle" =>
       calls[c].card.listing \in Listings /\ calls[c].card.action \in WriteActions
  /\ \A c \in drawn :
       /\ calls[c].step # "idle"
       /\ \E reading \in ProviderNight :
            calls[c].card = Card(calls[c].card.listing, reading)

GateInvariant ==
  TypeOK /\ opened = session /\ DeploymentIsTheCeiling /\ CardsAreSubmitted

-----------------------------------------------------------------------------
(* Cards and nights.                                                        *)

LEMMA RoundsToNat ==
  ASSUME NEW x \in Nat
  PROVE  Round(x) \in Nat
<1>1. PICK q \in Nat : Round(x) = 20 * q
  BY RoundIsNear
<1> QED BY <1>1

\* A card of a write action carries a price and a fingerprint.
LEMMA CardsAreTyped ==
  ASSUME NEW l \in Listings, NEW n \in ProviderNight, Card(l, n).action \in WriteActions
  PROVE  Card(l, n) \in CardType
<1> DEFINE rec == Recommend(l, n)
<1>1. n \in NightReading
  BY DEF ProviderNight
<1>2. Fingerprint(n) \in Fingerprints
  BY <1>1, RoundsToNat DEF Fingerprint, Fingerprints, NightReading
<1>3. rec.action \in WriteActions
  BY DEF Card
<1>4. rec.proposed \in Nat
  <2>1. CASE rec.action \in {"LOWER", "RAISE"}
    BY <1>1, <2>1, MovesAreWithinBounds
  <2>2. CASE rec.action = "REMOVE_PIN"
    <3>1. CandidateAction(n) = "REMOVE_PIN"
      BY <2>2 DEF Recommend
    <3>2. CandidatePrice(n, "REMOVE_PIN") = 0
      BY DEF CandidatePrice
    <3>3. rec.proposed \in {0, n.price}
      BY <3>1, <3>2 DEF Recommend
    <3> QED BY <1>1, <3>3 DEF NightReading
  <2> QED BY <1>3, <2>1, <2>2 DEF WriteActions
<1> HIDE DEF rec
<1>5. Card(l, n) = [listing |-> l, action |-> rec.action, proposed |-> rec.proposed,
                    print |-> Fingerprint(n)]
  BY DEF Card, rec
<1> QED BY <1>2, <1>3, <1>4, <1>5 DEF CardType, Actions

LEMMA PrintsAreTyped ==
  ASSUME NEW n \in ProviderNight
  PROVE  Fingerprint(n) \in Fingerprints
<1>1. n \in NightReading
  BY DEF ProviderNight
<1> QED BY <1>1, RoundsToNat DEF Fingerprint, Fingerprints, NightReading

\* So does a card of the request's own.
LEMMA OtherCardsAreTyped ==
  ASSUME NEW l \in Listings, night[l] \in ProviderNight, NEW card \in OtherCards(l)
  PROVE  card \in CardType /\ card.listing = l /\ card.action \in WriteActions
<1>1. {Fingerprint(r) : r \in Readings \cup {night[l]}} \subseteq Fingerprints
  BY ReadingsAssumption, PrintsAreTyped
<1>2. Prices \cup {0} \subseteq Nat
  BY PricesAssumption
<1> QED BY <1>1, <1>2 DEF OtherCards, CardType, Actions

\* A price that was set is a night the provider can show.
LEMMA AppliedNights ==
  ASSUME NEW card \in CardType, card.listing \in Listings, card.action \in WriteActions,
         night \in [Listings -> ProviderNight],
         NEW after \in Applied(card)
  PROVE  after \in ProviderNight
<1>1. CASE card.action = "REMOVE_PIN"
  <2>1. PICK r \in Readings : after = [r EXCEPT !.pinned = FALSE, !.pinPrice = 0]
    BY <1>1 DEF Applied
  <2>2. r \in ProviderNight
    BY <2>1, ReadingsAssumption
  <2> QED BY <2>1, <2>2 DEF ProviderNight, NightReading
<1>2. CASE card.action \in {"LOWER", "RAISE"}
  <2> DEFINE n == night[card.listing]
             p == Round(card.proposed)
  <2>1. /\ p \notin 0 .. LeastPrice - 1
        /\ after = [n EXCEPT !.price = p, !.pinned = TRUE, !.pinPrice = p]
    BY <1>2 DEF Applied
  <2>2. n \in ProviderNight
    OBVIOUS
  <2>3. card.proposed \in Nat
    BY DEF CardType
  <2>4. PICK q \in Nat : p = 20 * q
    BY <2>3, RoundIsNear
  <2> HIDE DEF n, p
  <2>5. p \in Nat /\ p >= LeastPrice
    BY <2>1, <2>4 DEF LeastPrice, Dollar
  <2>6. n \in NightReading
    BY <2>2 DEF ProviderNight
  <2>7. after \in NightReading
    BY <2>1, <2>5, <2>6 DEF NightReading
  <2>8. after.pinned = TRUE /\ after.pinPrice = p
    BY <2>1, <2>6 DEF NightReading
  <2>9. p # 0 /\ p >= Dollar
    BY <2>5 DEF LeastPrice, Dollar
  <2> QED BY <2>7, <2>8, <2>9 DEF ProviderNight
<1> QED BY <1>1, <1>2 DEF WriteActions

-----------------------------------------------------------------------------
(* The invariant.                                                           *)

LEMMA InitGate == Init => GateInvariant
<1> SUFFICES ASSUME Init PROVE GateInvariant
  OBVIOUS
<1>1. night \in [Listings -> ProviderNight]
  BY ReadingsAssumption DEF Init
<1>2. NoCard \in CardType
  BY DEF NoCard, CardType, Actions
<1>3. TypeOK
  BY <1>1, <1>2, SessionAssumption DEF Init, TypeOK, Steps
<1> QED BY <1>3 DEF Init, GateInvariant, DeploymentIsTheCeiling, CardsAreSubmitted, InFlight

LEMMA GateStep == GateInvariant /\ [Next]_vars => GateInvariant'
<1> SUFFICES ASSUME GateInvariant, [Next]_vars PROVE GateInvariant'
  OBVIOUS
<1>1. ASSUME NEW listings \in SUBSET Listings, NEW duration \in 1 .. MaxSession,
             StartSession(listings, duration)
      PROVE  GateInvariant'
  <2>1. /\ session' = [listings |-> listings, until |-> now + duration]
        /\ opened' = session' /\ UNCHANGED <<env, now, night, calls, drawn, restarts>>
    BY <1>1 DEF StartSession
  <2>2. now + duration \in Nat
    BY SessionAssumption DEF GateInvariant, TypeOK
  <2>3. TypeOK'
    BY <2>1, <2>2 DEF GateInvariant, TypeOK
  <2> QED BY <2>1, <2>3 DEF GateInvariant, DeploymentIsTheCeiling, CardsAreSubmitted
<1>2. CASE EndSession
  BY <1>2 DEF EndSession, GateInvariant, TypeOK, DeploymentIsTheCeiling, CardsAreSubmitted
<1>3. ASSUME NEW c \in Calls, NEW card \in CardType, Submit(c, card),
             card.listing \in Listings, card.action \in WriteActions,
             \/ drawn' = drawn
             \/ /\ drawn' = drawn \cup {c}
                /\ \E reading \in ProviderNight : card = Card(card.listing, reading)
      PROVE  GateInvariant'
  <2>1. /\ calls[c].step = "idle"
        /\ calls' = [calls EXCEPT ![c].step = "pending", ![c].card = card]
        /\ UNCHANGED <<env, session, now, night, opened, restarts>>
    BY <1>3 DEF Submit
  <2>2. /\ calls'[c] = [step |-> "pending", card |-> card]
        /\ \A d \in Calls \ {c} : calls'[d] = calls[d]
        /\ calls' \in [Calls -> [step : Steps, card : CardType]]
    BY <1>3, <2>1, ZenonT(60) DEF GateInvariant, TypeOK, Steps
  <2>3. drawn' \subseteq Calls
    BY <1>3 DEF GateInvariant, TypeOK
  <2>4. TypeOK'
    BY <2>1, <2>2, <2>3 DEF GateInvariant, TypeOK
  <2>5. DeploymentIsTheCeiling'
    BY <2>1, <2>2 DEF GateInvariant, DeploymentIsTheCeiling, InFlight
  <2>6. c \notin drawn
    BY <2>1 DEF GateInvariant, CardsAreSubmitted
  <2>7. \A d \in Calls : calls'[d].step # "idle" =>
          calls'[d].card.listing \in Listings /\ calls'[d].card.action \in WriteActions
    BY <1>3, <2>2 DEF GateInvariant, CardsAreSubmitted
  <2>8. \A d \in drawn' : /\ calls'[d].step # "idle"
                          /\ \E reading \in ProviderNight :
                               calls'[d].card = Card(calls'[d].card.listing, reading)
    <3> TAKE d \in drawn'
    <3>1. CASE d = c
      BY <1>3, <2>2, <2>6, <3>1
    <3>2. CASE d # c
      BY <1>3, <2>2, <2>3, <3>2 DEF GateInvariant, CardsAreSubmitted
    <3> QED BY <3>1, <3>2
  <2>9. CardsAreSubmitted'
    BY <2>7, <2>8 DEF CardsAreSubmitted
  <2> QED BY <2>1, <2>4, <2>5, <2>9 DEF GateInvariant
<1>12. ASSUME NEW c \in Calls, NEW listing \in Listings, SubmitRecommended(c, listing)
       PROVE  GateInvariant'
  <2>1. PICK reading \in Readings \cup {night[listing]} : Submit(c, Card(listing, reading))
    BY <1>12 DEF SubmitRecommended
  <2>2. reading \in ProviderNight
    BY ReadingsAssumption DEF GateInvariant, TypeOK
  <2>3. Card(listing, reading).action \in WriteActions
    BY <2>1 DEF Submit
  <2>4. Card(listing, reading) \in CardType /\ Card(listing, reading).listing = listing
    BY <2>2, <2>3, CardsAreTyped DEF Card
  <2>5. drawn' = drawn \cup {c}
    BY <1>12 DEF SubmitRecommended
  <2> QED BY <1>3, <2>1, <2>2, <2>3, <2>4, <2>5
<1>13. ASSUME NEW c \in Calls, NEW listing \in Listings, SubmitOther(c, listing)
       PROVE  GateInvariant'
  <2>1. PICK card \in OtherCards(listing) : Submit(c, card)
    BY <1>13 DEF SubmitOther
  <2>2. night[listing] \in ProviderNight
    BY DEF GateInvariant, TypeOK
  <2>3. card \in CardType /\ card.listing = listing /\ card.action \in WriteActions
    BY <2>2, OtherCardsAreTyped
  <2>4. drawn' = drawn
    BY <1>13 DEF SubmitOther
  <2> QED BY <1>3, <2>1, <2>3, <2>4
<1>4. ASSUME NEW c \in Calls, NEW step \in Steps,
             calls[c].step # "idle",
             calls' = [calls EXCEPT ![c].step = step],
             step \in InFlight => env.writes /\ calls[c].card.listing \in env.allowed,
             UNCHANGED <<env, session, now, opened, drawn, restarts>>,
             step # "idle",
             night' \in [Listings -> ProviderNight]
      PROVE  GateInvariant'
  <2>1. /\ calls'[c].step = step /\ calls'[c].card = calls[c].card
        /\ \A d \in Calls \ {c} : calls'[d] = calls[d]
        /\ calls' \in [Calls -> [step : Steps, card : CardType]]
    BY <1>4 DEF GateInvariant, TypeOK
  <2>2. TypeOK'
    BY <1>4, <2>1 DEF GateInvariant, TypeOK
  <2>3. DeploymentIsTheCeiling'
    BY <1>4, <2>1 DEF GateInvariant, DeploymentIsTheCeiling
  <2>4. CardsAreSubmitted'
    BY <1>4, <2>1 DEF GateInvariant, CardsAreSubmitted
  <2> QED BY <1>4, <2>2, <2>3, <2>4 DEF GateInvariant
<1>5. ASSUME NEW c \in Calls, Approve(c) PROVE GateInvariant'
  <2> DEFINE step == IF Permitted(calls[c].card) THEN "gated" ELSE "refused"
  <2>1. /\ calls[c].step = "pending" /\ calls' = [calls EXCEPT ![c].step = step]
        /\ UNCHANGED <<env, session, now, night, opened, drawn, restarts>>
    BY <1>5 DEF Approve
  <2>2. step \in Steps /\ step # "idle"
        /\ (step \in InFlight => env.writes /\ calls[c].card.listing \in env.allowed)
    BY DEF Steps, InFlight, Permitted
  <2>3. night' \in [Listings -> ProviderNight]
    BY <2>1 DEF GateInvariant, TypeOK
  <2> HIDE DEF step
  <2> QED BY <1>4, <2>1, <2>2, <2>3
<1>6. ASSUME NEW c \in Calls, Reread(c) PROVE GateInvariant'
  <2>1. PICK step \in {"checked", "refused"} : calls' = [calls EXCEPT ![c].step = step]
    BY <1>6 DEF Reread
  <2>2. /\ calls[c].step = "gated"
        /\ UNCHANGED <<env, session, now, night, opened, drawn, restarts>>
    BY <1>6 DEF Reread
  <2>3. step \in Steps /\ env.writes /\ calls[c].card.listing \in env.allowed
    BY <2>2 DEF Steps, GateInvariant, DeploymentIsTheCeiling, InFlight
  <2>4. night' \in [Listings -> ProviderNight]
    BY <2>2 DEF GateInvariant, TypeOK
  <2> QED BY <1>4, <2>1, <2>2, <2>3, <2>4
<1>7. ASSUME NEW c \in Calls, Write(c) PROVE GateInvariant'
  <2> DEFINE card == calls[c].card
  <2>1. PICK step \in {"done", "unanswered"} : calls' = [calls EXCEPT ![c].step = step]
    BY <1>7 DEF Write
  <2>2. /\ calls[c].step = "checked"
        /\ UNCHANGED <<env, session, now, opened, drawn, restarts>>
        /\ \/ \E after \in Applied(card) : night' = [night EXCEPT ![card.listing] = after]
           \/ UNCHANGED night
    BY <1>7 DEF Write
  <2>3. step \in Steps /\ step \notin InFlight
    BY DEF Steps, InFlight
  <2>4. night' \in [Listings -> ProviderNight]
    <3>1. CASE UNCHANGED night
      BY <3>1 DEF GateInvariant, TypeOK
    <3>2. ASSUME NEW after \in Applied(card),
                 night' = [night EXCEPT ![card.listing] = after]
          PROVE  night' \in [Listings -> ProviderNight]
      <4>1. /\ card \in CardType /\ card.listing \in Listings /\ card.action \in WriteActions
            /\ night \in [Listings -> ProviderNight]
        BY <2>2 DEF GateInvariant, TypeOK, CardsAreSubmitted
      <4>2. after \in ProviderNight
        BY <3>2, <4>1, AppliedNights
      <4> QED BY <3>2, <4>1, <4>2
    <3> QED BY <2>2, <3>1, <3>2
  <2> QED BY <1>4, <2>1, <2>2, <2>3, <2>4
<1>8. ASSUME NEW listing \in Listings, Refresh(listing) PROVE GateInvariant'
  <2>1. PICK reading \in Readings : night' = [night EXCEPT ![listing] = reading]
    BY <1>8 DEF Refresh
  <2>2. night' \in [Listings -> ProviderNight]
    BY <2>1, ReadingsAssumption DEF GateInvariant, TypeOK
  <2> QED BY <1>8, <2>2
        DEF Refresh, GateInvariant, TypeOK, DeploymentIsTheCeiling, CardsAreSubmitted
<1>9. CASE Tick
  BY <1>9, SessionAssumption
     DEF Tick, GateInvariant, TypeOK, DeploymentIsTheCeiling, CardsAreSubmitted
<1>10. CASE Restart
  <2>1. /\ session' = None /\ opened' = None /\ UNCHANGED <<now, night, drawn>>
        /\ env' \in [writes : BOOLEAN, allowed : SUBSET Listings]
        /\ restarts < MaxRestarts /\ restarts' = restarts + 1
    BY <1>10 DEF Restart, SessionAfterRestart
  <2>2. /\ calls' \in [Calls -> [step : Steps, card : CardType]]
        /\ \A c \in Calls : /\ calls'[c].step \notin InFlight
                            /\ calls'[c].card = calls[c].card
                            /\ calls'[c].step = "idle" => calls[c].step = "idle"
                            /\ calls[c].step = "idle" => calls'[c].step = "idle"
    BY <1>10 DEF Restart, GateInvariant, TypeOK, Steps, InFlight
  <2>3. TypeOK'
    BY <2>1, <2>2, SessionAssumption DEF GateInvariant, TypeOK
  <2>4. CardsAreSubmitted'
    <3>1. drawn' = drawn /\ drawn \subseteq Calls
      BY <2>1 DEF GateInvariant, TypeOK
    <3>2. \A c \in Calls : calls'[c].step # "idle" =>
            calls'[c].card.listing \in Listings /\ calls'[c].card.action \in WriteActions
      BY <2>2 DEF GateInvariant, CardsAreSubmitted
    <3>3. \A c \in drawn : /\ calls'[c].step # "idle"
                           /\ \E reading \in ProviderNight :
                                calls'[c].card = Card(calls'[c].card.listing, reading)
      BY <2>2, <3>1 DEF GateInvariant, CardsAreSubmitted
    <3> QED BY <3>1, <3>2, <3>3 DEF CardsAreSubmitted
  <2> QED BY <2>1, <2>2, <2>3, <2>4 DEF GateInvariant, DeploymentIsTheCeiling
<1>11. CASE UNCHANGED vars
  BY <1>11 DEF vars, GateInvariant, TypeOK, DeploymentIsTheCeiling, CardsAreSubmitted
<1> QED
  BY <1>1, <1>2, <1>12, <1>13, <1>5, <1>6, <1>7, <1>8, <1>9, <1>10, <1>11 DEF Next

\* The inductive invariant: types, one window, calls in flight under the
\* deployment's switches, and where their cards come from.
LEMMA GateIsInvariant == Spec => []GateInvariant
  BY InitGate, GateStep, PTL DEF Spec

\* Every variable keeps its type; in particular every price that is set leaves a
\* night the provider can show.
THEOREM TypeCorrect == Spec => []TypeOK
<1>1. GateInvariant => TypeOK
  BY DEF GateInvariant
<1> QED BY <1>1, GateIsInvariant, PTL

\* A call in flight is one the deployment allows, whatever session is open
\* (apply_pricing_action).
THEOREM SessionsOnlyNarrow == Spec => []DeploymentIsTheCeiling
<1>1. GateInvariant => DeploymentIsTheCeiling
  BY DEF GateInvariant
<1> QED BY <1>1, GateIsInvariant, PTL

-----------------------------------------------------------------------------
(* Steps.                                                                   *)

LEMMA GatedStep ==
  ASSUME GateInvariant, Next, NEW c \in Calls,
         calls[c].step = "pending", calls'[c].step = "gated"
  PROVE  Approve(c) /\ Permitted(calls[c].card)
<1>0. calls \in [Calls -> [step : Steps, card : CardType]]
  BY DEF GateInvariant, TypeOK
<1>1. ASSUME NEW d \in Calls, NEW listing \in Listings,
             SubmitRecommended(d, listing) \/ SubmitOther(d, listing)
      PROVE  FALSE
  <2>1. PICK card : Submit(d, card)
    BY <1>1 DEF SubmitRecommended, SubmitOther
  <2> QED BY <1>0, <2>1 DEF Submit
<1>2. ASSUME NEW d \in Calls, Approve(d) PROVE d = c /\ Permitted(calls[c].card)
  BY <1>0, <1>2 DEF Approve
<1>3. ASSUME NEW d \in Calls, Reread(d) PROVE FALSE
  BY <1>0, <1>3 DEF Reread
<1>4. ASSUME NEW d \in Calls, Write(d) PROVE FALSE
  BY <1>0, <1>4 DEF Write
<1>5. CASE Restart
  BY <1>0, <1>5 DEF Restart, InFlight
<1>6. CASE \/ EndSession \/ Tick
           \/ \E listings \in SUBSET Listings, duration \in 1 .. MaxSession :
                StartSession(listings, duration)
           \/ \E listing \in Listings : Refresh(listing)
  BY <1>6 DEF EndSession, Tick, StartSession, Refresh
<1> QED BY <1>1, <1>2, <1>3, <1>4, <1>5, <1>6 DEF Next

\* A call passes the gates inside a window the owner opened in this process for
\* its listing, and that neither ended nor ran out.
THEOREM GatesNeedAWindow == Spec => GatedInAWindow
<1>1. GateInvariant /\ [Next]_vars =>
        [\A c \in Calls : calls[c].step = "pending" /\ calls'[c].step = "gated" =>
           opened # None /\ now < opened.until /\ calls[c].card.listing \in opened.listings]_vars
  <2> SUFFICES ASSUME GateInvariant, Next, NEW c \in Calls,
                      calls[c].step = "pending", calls'[c].step = "gated"
               PROVE  /\ opened # None /\ now < opened.until
                      /\ calls[c].card.listing \in opened.listings
    BY DEF vars
  <2>1. Permits(calls[c].card.listing) /\ opened = session
    BY GatedStep DEF Permitted, GateInvariant
  <2> QED BY <2>1 DEF Permits, Live
<1> QED BY <1>1, GateIsInvariant, PTL DEF Spec, GatedInAWindow

LEMMA CheckedStep ==
  ASSUME GateInvariant, Next, NEW c \in Calls,
         calls[c].step = "gated", calls'[c].step = "checked"
  PROVE  Fingerprint(night[calls[c].card.listing]) = calls[c].card.print
<1>0. calls \in [Calls -> [step : Steps, card : CardType]]
  BY DEF GateInvariant, TypeOK
<1>1. ASSUME NEW d \in Calls, NEW listing \in Listings,
             SubmitRecommended(d, listing) \/ SubmitOther(d, listing)
      PROVE  FALSE
  <2>1. PICK card : Submit(d, card)
    BY <1>1 DEF SubmitRecommended, SubmitOther
  <2> QED BY <1>0, <2>1 DEF Submit
<1>2. ASSUME NEW d \in Calls, Approve(d) PROVE FALSE
  BY <1>0, <1>2 DEF Approve
<1>3. ASSUME NEW d \in Calls, Reread(d)
      PROVE  Fingerprint(night[calls[c].card.listing]) = calls[c].card.print
  BY <1>0, <1>3 DEF Reread
<1>4. ASSUME NEW d \in Calls, Write(d) PROVE FALSE
  BY <1>0, <1>4 DEF Write
<1>5. CASE Restart
  BY <1>0, <1>5 DEF Restart, InFlight
<1>6. CASE \/ EndSession \/ Tick
           \/ \E listings \in SUBSET Listings, duration \in 1 .. MaxSession :
                StartSession(listings, duration)
           \/ \E listing \in Listings : Refresh(listing)
  BY <1>6 DEF EndSession, Tick, StartSession, Refresh
<1> QED BY <1>1, <1>2, <1>3, <1>4, <1>5, <1>6 DEF Next

\* What a card can do to a night with its fingerprint.
LEMMA SamePrintBound ==
  ASSUME NEW l \in Listings, NEW r \in ProviderNight, NEW n \in ProviderNight,
         Card(l, r).action \in {"LOWER", "RAISE"}, Fingerprint(n) = Card(l, r).print
  PROVE  WithinTheRules(Card(l, r), n)
<1> DEFINE rec == Recommend(l, r)
           p == rec.proposed
           a == rec.action
<1>1. r \in NightReading /\ n \in NightReading
  BY DEF ProviderNight
<1>2. Card(l, r).proposed = p /\ Card(l, r).action = a /\ Card(l, r).print = Fingerprint(r)
  BY DEF Card
<1>3. a \in {"LOWER", "RAISE"}
  BY <1>2
<1>4. /\ ~r.pinned /\ p \in Nat
      /\ p <= r.price + MaxChange(r.price) /\ r.price <= p + MaxChange(r.price)
      /\ a = "LOWER" => p >= InDollars(Bands[l].hardFloor)
      /\ a = "RAISE" => p <= InDollars(Bands[l].autoRaiseCeiling)
  BY <1>1, <1>3, MovesAreWithinBounds
<1>5. /\ r.price \in Nat /\ n.price \in Nat /\ r.pinPrice \in Nat /\ n.pinPrice \in Nat
  BY <1>1 DEF NightReading
<1>6. Round(n.price) = Round(r.price) /\ Round(n.pinPrice) = Round(r.pinPrice)
  BY <1>2 DEF Fingerprint
<1>7. n.pinPrice = 0
  <2>1. r.pinPrice = 0
    BY <1>4 DEF ProviderNight
  <2>2. PICK q \in Nat : Round(r.pinPrice) = 20 * q /\ 20 * q <= r.pinPrice + 10
    BY <1>5, RoundIsNear
  <2>3. PICK k \in Nat : Round(n.pinPrice) = 20 * k /\ n.pinPrice <= 20 * k + 10
    BY <1>5, RoundIsNear
  <2>4. n.pinPrice < 20
    BY <1>5, <1>6, <2>1, <2>2, <2>3
  <2>5. n.pinPrice = 0 \/ n.pinPrice >= 20
    BY DEF ProviderNight, Dollar
  <2> QED BY <1>5, <2>4, <2>5
<1> HIDE DEF p, a, rec
<1>8. MaxChange(r.price) \in Nat /\ 10 * MaxChange(r.price) <= r.price
  BY <1>5, TenPerCent
<1>9. AbsDiff(n.price, r.price) \in 0 .. 20
  BY <1>5, <1>6, RoundTells
<1>10. n.price <= r.price + 20 /\ r.price <= n.price + 20
  BY <1>5, <1>9 DEF AbsDiff
<1>11. 10 * AbsDiff(p, n.price) <= n.price + 220
  <2>1. p <= n.price + 20 + MaxChange(r.price) /\ n.price <= p + 20 + MaxChange(r.price)
    BY <1>4, <1>5, <1>8, <1>10
  <2>2. 10 * MaxChange(r.price) <= n.price + 20
    BY <1>5, <1>8, <1>10
  <2>3. CASE p > n.price
    BY <1>4, <1>5, <1>8, <2>1, <2>2, <2>3 DEF AbsDiff
  <2>4. CASE ~(p > n.price)
    BY <1>4, <1>5, <1>8, <2>1, <2>2, <2>4 DEF AbsDiff
  <2> QED BY <2>3, <2>4
<1>12. Card(l, r).listing = l
  BY DEF Card
<1> QED BY <1>2, <1>3, <1>4, <1>7, <1>11, <1>12 DEF Dollar, WithinTheRules

\* What the console submitted and a person approved may run late, after the
\* night moved: it pins no night whose price differs by more than the
\* fingerprint's rounding, and stays within the bands and near a tenth
\* (fingerprint_of, check_guardrails). Of a card of the request's own nothing
\* like it is true.
THEOREM LateMovesAreBounded == Spec => MovesAreBounded
<1>1. GateInvariant /\ [Next]_vars =>
        [\A c \in drawn : Passes(c) =>
           WithinTheRules(calls[c].card, night[calls[c].card.listing])]_vars
  <2> SUFFICES ASSUME GateInvariant, Next, NEW c \in drawn, Passes(c)
               PROVE  WithinTheRules(calls[c].card, night[calls[c].card.listing])
    BY DEF vars
  <2> DEFINE l == calls[c].card.listing
  <2>0. c \in Calls
    BY DEF GateInvariant, TypeOK
  <2>1. l \in Listings
    BY <2>0 DEF GateInvariant, CardsAreSubmitted
  <2>2. PICK r \in ProviderNight : calls[c].card = Card(l, r)
    BY DEF GateInvariant, CardsAreSubmitted
  <2>3. night[l] \in ProviderNight
    BY <2>1 DEF GateInvariant, TypeOK
  <2>4. Fingerprint(night[l]) = Card(l, r).print
    BY <2>0, <2>2, CheckedStep DEF Passes
  <2>5. Card(l, r).action \in {"LOWER", "RAISE"}
    BY <2>2 DEF Passes
  <2> QED BY <2>1, <2>2, <2>3, <2>4, <2>5, SamePrintBound
<1> QED BY <1>1, GateIsInvariant, PTL DEF Spec, MovesAreBounded
=============================================================================

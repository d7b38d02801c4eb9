-------------------------- MODULE MCPricingCleanup --------------------------
(* Small instances of PricingCleanup for TLC. *)
EXTENDS PricingCleanup, TLC

CONSTANTS r1, r2, w1, w2, o1, d1, t1, t2, t3, s1, s2, s3

\* Records price the same night at different prices.
OneDate == [r \in Records |-> d1]
TwoPrices == [r \in Records |-> IF r = r1 THEN 1 ELSE 2]

Interchangeable ==
  Permutations(Workers) \cup Permutations(Tokens) \cup Permutations(Stamps)
=============================================================================

--------------------------- MODULE OrderStatistics ---------------------------
(***************************************************************************)
(* Medians and percentiles read a list of numbers by its sorted copy. What *)
(* they read of it, the k-th number in ascending order, is a function of   *)
(* how many numbers are smaller.                                           *)
(***************************************************************************)
EXTENDS Integers, FiniteSets, Functions

\* The k-th value of a table, in ascending order.
InOrder(values, k) ==
  CHOOSE x \in Range(values) :
    /\ Cardinality({i \in DOMAIN values : values[i] < x}) < k
    /\ Cardinality({i \in DOMAIN values : values[i] <= x}) >= k
=============================================================================

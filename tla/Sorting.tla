--------------------------------- MODULE Sorting ---------------------------------
(***************************************************************************)
(* The stable sort of data points and of intervals by a time               *)
(* (sort.SliceStable in pkg/metrics/scraper.go and in                      *)
(* pkg/transformer/metrics_transformer.go): every element goes to the      *)
(* place that its rank says.                                               *)
(***************************************************************************)
EXTENDS Integers, Sequences, FiniteSets

\* The place of the n-th element: after all with a smaller key, and after those with
\* the same key that come before it.
Rank(key, n) ==
  Cardinality({m \in DOMAIN key : key[m] < key[n] \/ (key[m] = key[n] /\ m <= n)})

SliceStable(s, key) == [k \in DOMAIN s |-> s[CHOOSE n \in DOMAIN s : Rank(key, n) = k]]
================================================================================

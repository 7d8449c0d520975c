---------------------------- MODULE Subsequences ----------------------------
(***************************************************************************)
(* Parts of a sequence: what array_filter() and loops leave that remove    *)
(* some entries.  They are picked by counting, not by recursion.           *)
(***************************************************************************)
EXTENDS Integers, FiniteSets

\* The number in S that n - 1 others are below of.
Nth(S, n) == CHOOSE i \in S : Cardinality({j \in S : j < i}) = n - 1

\* The entries of a sequence at the places in S, in their order.
Part(s, S) == [n \in 1..Cardinality(S) |-> s[Nth(S, n)]]
=============================================================================

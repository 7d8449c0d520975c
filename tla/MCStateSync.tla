---------------------------- MODULE MCStateSync ----------------------------
(* Two requests that change something, two polls.  `MCNever` stands for a  *)
(* timestamp of null.                                                      *)
EXTENDS StateSync, TLC

CONSTANTS w1, w2, p1, p2

MCTables == {"sensors", "settings"}
MCWriters == {w1, w2}
MCPolls == {p1, p2}
MCNever == -1

Symmetry == Permutations({w1, w2}) \cup Permutations({p1, p2})
=============================================================================

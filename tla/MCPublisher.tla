---------------------------- MODULE MCPublisher ----------------------------
(* Small instances of Publisher for TLC.                                   *)
EXTENDS Publisher, TLC

CONSTANTS t1, t2, s1, s2

Symmetric == Permutations(Threads) \cup Permutations(Slots)
=============================================================================

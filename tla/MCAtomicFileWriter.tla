------------------------- MODULE MCAtomicFileWriter -------------------------
(* Small instances of AtomicFileWriter for TLC.                            *)
EXTENDS AtomicFileWriter, TLC

CONSTANTS w1, w2, p1, p2

OneProcess  == [o \in Writers |-> p1]
\* Writers of one process are alike, and nothing asked of them names one.
Alike == Permutations(Writers)

TwoProcesses == [o \in Writers |-> IF o = w1 THEN p1 ELSE p2]
=============================================================================

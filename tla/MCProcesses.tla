------------------------------- MODULE MCProcesses -------------------------------
(***************************************************************************)
(* Instances of Processes for TLC.                                         *)
(***************************************************************************)
EXTENDS Processes, TLC

CONSTANTS S1, S2, T1, T2, T3

TwoSpaces == {S1, S2}
TwoThreads == {T1, T2}
ThreeThreads == {T1, T2, T3}

Symmetry == Permutations(Threads) \cup Permutations(Spaces)
=============================================================================

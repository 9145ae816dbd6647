---------------------------- MODULE MCOpenFiles ----------------------------
(* Open files of a mounted volume on small instances.                      *)
EXTENDS OpenFiles, TLC

ThreadSymmetry == Permutations(Threads) \cup Permutations(Openings)
=============================================================================

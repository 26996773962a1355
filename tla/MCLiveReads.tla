---------------------------- MODULE MCLiveReads ----------------------------
(* Small instances of LiveReads for TLC: the topics are the cached         *)
(* documents.                                                              *)
EXTENDS LiveReads, TLC

Symmetry == Permutations(Readers) \cup Permutations(Writers)
=============================================================================

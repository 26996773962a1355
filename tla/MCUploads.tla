------------------------------ MODULE MCUploads ------------------------------
(* Small instances of Uploads: symmetric documents, files, requests, ticks. *)
EXTENDS Uploads, TLC

Symmetry == Permutations(Docs) \cup Permutations(Files) \cup Permutations(Requests) \cup Permutations(Ticks)
=============================================================================

---------------------------- MODULE MCCandidates ----------------------------
(* Candidates for TLC; the constants are given in the .cfg files.           *)
EXTENDS Candidates
=============================================================================

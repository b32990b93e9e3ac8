---------------------------- MODULE MCSignaling -----------------------------
(* Signaling for TLC; the constants are given in the .cfg files.           *)
EXTENDS Signaling
=============================================================================

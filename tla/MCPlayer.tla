------------------------------ MODULE MCPlayer ------------------------------
(* Player for TLC; the constants are given in the .cfg files.               *)
EXTENDS Player
=============================================================================

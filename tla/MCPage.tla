------------------------------- MODULE MCPage -------------------------------
(* Page for TLC; the constants are given in the .cfg files.                 *)
EXTENDS Page
=============================================================================

------------------------- MODULE MCStreamConnection -------------------------
(* StreamConnection for TLC; the constants are given in the .cfg files.    *)
EXTENDS StreamConnection
=============================================================================

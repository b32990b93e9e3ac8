--------------------------- MODULE MCStreamBridge ---------------------------
(* StreamBridge for TLC; the constants are given in the .cfg files.         *)
EXTENDS StreamBridge
=============================================================================

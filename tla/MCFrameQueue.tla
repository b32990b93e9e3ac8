---------------------------- MODULE MCFrameQueue ----------------------------
(* FrameQueue for TLC; the constants are given in the .cfg files.          *)
EXTENDS FrameQueue
=============================================================================

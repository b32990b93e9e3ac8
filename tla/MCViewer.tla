------------------------------ MODULE MCViewer ------------------------------
(* Viewer for TLC; the constants are given in the .cfg files.               *)
EXTENDS Viewer
=============================================================================

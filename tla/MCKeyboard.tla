----------------------------- MODULE MCKeyboard -----------------------------
(* Keyboard for TLC: the two codes of one modifier, and the paste key,      *)
(* which the overlay has a button for; its stick has it and one of the two. *)
EXTENDS Keyboard
CONSTANTS Left, Right, V
MCKeys == {Left, Right, V}
MCModifiers == {{Left, Right}}
MCButtons == {V}
MCStickKeys == {Left, V}
=============================================================================

------------------------------- MODULE MCDial -------------------------------
(* Dial on small instances. *)
EXTENDS Dial, TLC

SidSymmetry == Permutations(Sid)

AllScreens == AppState
Prompts    == {"PERMISSION", "CONFIRMING"}

Nowhere    == {}
SomeEntries == {"BRIGHTNESS", "FIRMWARE_INFO", "RESET_CONFIRM"}

\* The button is held anywhere but on a prompt and on a choice in its grace.
NotOnPrompts == AppState \ Prompts
=============================================================================

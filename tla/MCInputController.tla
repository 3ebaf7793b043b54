------------------------- MODULE MCInputController -------------------------
(***************************************************************************)
(* Small instances of InputController for TLC.                             *)
(***************************************************************************)
EXTENDS InputController, TLC

\* The configured classes of device.
BothClasses == {"pointer", "keyboard"}
KeyboardOnly == {"keyboard"}

\* Event types besides key and button transitions: one that merges with its
\* like and may refuse to, and one that the sender may refuse.
MotionAndText == {"relative", "text"}

OwnerSymmetry == Permutations(Owners)
=============================================================================

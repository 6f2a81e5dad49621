------------------------------- MODULE FileUpdates -------------------------------
(***************************************************************************)
(* What the program's local files promise: whoever reads a file sees a     *)
(* complete content, and every change of it is one update applied to the   *)
(* content before it.                                                      *)
(***************************************************************************)
CONSTANTS Update, After(_, _)

VARIABLE shown

UpdatesSpec == [][\E u \in Update : shown' = After(shown, u)]_shown
================================================================================

------------------------- MODULE MCWindowAdmission -------------------------
(* Small instances of WindowAdmission for TLC.                             *)
EXTENDS WindowAdmission

CONSTANTS a1, a2, w1, w2

(* w1 is of application a1, every other window of a2.                      *)
AppOfWindows == [w \in Windows |-> IF w = w1 THEN a1 ELSE a2]
=============================================================================

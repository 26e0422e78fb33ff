----------------------- MODULE MCWorkspaceActivation -----------------------
(* Small instances of WorkspaceActivation for TLC.                         *)
EXTENDS WorkspaceActivation

CONSTANTS w1, w2, w3

(* w2 is a dialog of w1; w3, where there is one, stands alone.             *)
DialogOf == [w \in Windows |-> IF w = w2 THEN <<w1>> ELSE <<>>]
=============================================================================

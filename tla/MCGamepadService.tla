-------------------------- MODULE MCGamepadService --------------------------
(* Instances of GamepadService for TLC. *)
EXTENDS GamepadService, TLC

MCIds == {0, 1}
=============================================================================

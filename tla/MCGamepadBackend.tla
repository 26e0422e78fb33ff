-------------------------- MODULE MCGamepadBackend --------------------------
(* Instances of GamepadBackend for TLC. *)
EXTENDS GamepadBackend

MCConfigs == {[auto |-> TRUE,  gated |-> TRUE,  grab |-> "exclusive"],
              [auto |-> FALSE, gated |-> FALSE, grab |-> "auto"]}
=============================================================================

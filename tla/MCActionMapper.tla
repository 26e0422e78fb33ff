--------------------------- MODULE MCActionMapper ---------------------------
(* Two profiles: the preset's bindings, and one that shares its actions    *)
(* among several sources, lets the stick go first and has a threshold of   *)
(* its own for it.                                                         *)
EXTENDS ActionMapper

CONSTANTS up, left, right, go

Nothing == [d \in Dirs |-> NoAction]
PresetProfile ==
    [dpad |-> [Nothing EXCEPT !["up"] = up, !["left"] = left],
     stick |-> [Nothing EXCEPT !["up"] = up, !["left"] = left, !["right"] = right],
     face |-> go, negative |-> NoAction, positive |-> NoAction,
     threshold |-> [X |-> NoThreshold, Y |-> NoThreshold, Z |-> NoThreshold],
     dpadFirst |-> {TRUE}, repeat |-> {}]
SharedProfile ==
    [PresetProfile EXCEPT !.face = up, !.positive = left, !.negative = NoAction,
                          !.dpad = [Nothing EXCEPT !["up"] = go, !["left"] = left],
                          !.threshold = [X |-> 2, Y |-> NoThreshold, Z |-> NoThreshold],
                          !.dpadFirst = {FALSE}]
MCProfiles == {PresetProfile, SharedProfile}

MCXValues == {-3, 0, 1, 3}
MCYValues == {-2, 0, 3}
MCZValues == {-3, 0, 3}
MCRepeats == {[enabled |-> TRUE, delay |-> TRUE, interval |-> TRUE],
              [enabled |-> TRUE, delay |-> FALSE, interval |-> TRUE]}
=============================================================================

---------------------------- MODULE CaptureGate ----------------------------
(***************************************************************************)
(* What the gamepad backend promises its receivers, whatever the kernel,   *)
(* logind and the retry timer do: a device is announced as connected only  *)
(* while the session gate lets input through, and the step that shuts the  *)
(* gate takes every device back.                                           *)
(***************************************************************************)
CONSTANT Ids            \* device identifiers

VARIABLES allowed,      \* the gate lets input through
          captured      \* the devices the receivers were told are connected

vars == <<allowed, captured>>

Init == /\ allowed \in BOOLEAN
        /\ captured = {}

(* One device is opened and announced; only behind an open gate. *)
Capture(i) == /\ allowed
              /\ i \notin captured
              /\ captured' = captured \cup {i}
              /\ UNCHANGED allowed

(* Devices are unplugged, fail, or the backend stops. *)
Release == /\ captured' \in SUBSET captured
           /\ UNCHANGED allowed

(* The gate shuts and nothing stays captured. *)
Shut == /\ allowed' = FALSE
        /\ captured' = {}

(* The gate opens; devices come back one by one. *)
Open == /\ allowed' = TRUE
        /\ UNCHANGED captured

Next == \/ \E i \in Ids : Capture(i)
        \/ Release
        \/ Shut
        \/ Open

Spec == Init /\ [][Next]_vars
=============================================================================

---------------------------- MODULE ActionMapper ----------------------------
(***************************************************************************)
(* DeckGamepadActionMapper: the directional buttons, the left stick, a     *)
(* further button and a further axis of a gamepad become actions, as a     *)
(* profile binds them.  The stick has a band between release and press, a  *)
(* policy for diagonals and a lock on one axis; directions of one source   *)
(* hide those of the other; held directions repeat on a timer.  Settings   *)
(* and profiles may change while anything is held.                         *)
(*                                                                         *)
(* All of it runs in one thread.  An axis is an integer of -Full..Full, of *)
(* which a threshold is a part.                                            *)
(***************************************************************************)
EXTENDS Integers

CONSTANTS
    Actions, NoAction,  \* action identifiers, and the empty one
    Full,               \* the value of an axis at its end, 1.0 in the code
    NoThreshold,        \* an axis binding without a threshold of its own
    Profiles,           \* the profiles that may be applied, the preset first
    Preset,
    XValues, YValues, ZValues,      \* values of the axes this instance explores
    Pads,               \* directional buttons this instance explores
    Deadzones, Hystereses, Repeats  \* settings this instance explores

Dirs == {"up", "down", "left", "right"}
Axes == {"X", "Y", "Z"}
Lock == {"None", "Horizontal", "Vertical"}
Policies == {"PreferCardinal", "AllowDiagonal"}
Bound == Actions \cup {NoAction}

Repeat == [enabled : BOOLEAN, delay : BOOLEAN, interval : BOOLEAN]

(* An ActionMappingProfile; Z is the further axis, face the further button.*)
(* What it says of priority and repeats are sets, empty if it says nothing.*)
Profile == [dpad : [Dirs -> Bound], stick : [Dirs -> Bound], face : Bound,
            negative : Bound, positive : Bound,
            threshold : [Axes -> (0..Full) \cup {NoThreshold}],
            dpadFirst : SUBSET BOOLEAN, repeat : SUBSET Repeat]

ASSUME ActionAssumption == NoAction \notin Actions
ASSUME FullAssumption == Full \in Nat \ {0} /\ NoThreshold \notin Int
ASSUME ProfileAssumption == Profiles \subseteq Profile /\ Preset \in Profiles
ASSUME ValueAssumption ==
    /\ XValues \cup YValues \cup ZValues \subseteq -Full..Full
    /\ Deadzones \cup Hystereses \subseteq 0..Full
    /\ Pads \subseteq Dirs /\ Repeats \subseteq Repeat

VARIABLES
    enabled,        \* m_enabled
    config,         \* m_deadzone, m_hysteresis, m_diagonalPolicy, m_releaseOnCenter
    repeat,         \* m_repeatEnabled, and whether delay and interval exceed 0
    profile,        \* m_buttonBindings, m_axisBindings
    dpadFirst,      \* m_navigationPriority is DpadOverLeftStick
    dpad,           \* m_dpadUp ... m_dpadRight, the ones that are true
    leftX, leftY,   \* m_leftX, m_leftY
    stick,          \* m_stickUp ... m_stickRight, the ones that are true
    lock,           \* m_stickLock
    zActive,        \* m_axisState of Z, the sides that are active
    out,            \* m_outUp ... m_outRight
    pressed,        \* m_actionPressed
    repeating,      \* m_repeatActiveDirections
    timer,          \* the repeat timer that runs: "off", "delay" or "interval"
    face, z,        \* the further button and axis of the gamepad itself
    mixed,          \* history: the policy changed while a direction of the
                    \* stick was held, and the stick was not let go since
    zeroRead        \* history: the threshold of Z was 0 as it was last read

inputVars == <<face, z>>
stickVars == <<leftX, leftY, stick, lock, mixed>>
axisVars == <<zActive, zeroRead>>
outVars == <<out, pressed, repeating, timer>>
vars == <<enabled, config, repeat, profile, dpadFirst, dpad, stickVars, axisVars, outVars,
          inputVars>>

-----------------------------------------------------------------------------
(* Thresholds.                                                             *)

Abs(v) == IF v < 0 THEN -v ELSE v

ReleaseAt(c, axis) ==
    IF profile.threshold[axis] = NoThreshold THEN c.deadzone
    ELSE profile.threshold[axis]

PressAt(c, axis) ==
    LET sum == ReleaseAt(c, axis) + c.hysteresis
    IN IF sum > Full THEN Full ELSE sum

-----------------------------------------------------------------------------
(* The output: setActionPressed and the repeat timers.                     *)

(* Mutant of SetPressed: the empty identifier is entered as well.                 *)
SetPressedAlways(p, id, on) == [a \in DOMAIN p \cup {id} |-> IF a = id THEN on ELSE p[a]]

SetPressed(p, id, on) == IF id = NoAction THEN p ELSE [p EXCEPT ![id] = on]

(* The actions ids are pressed, repeatedly.                                *)
Ticked(p, ids) == [a \in Actions |-> p[a] \/ a \in ids]

MayRepeat(r, ids) == r.enabled /\ r.interval /\ ids # {}

(* stopRepeat, startRepeatIfConfigured *)
Restart(r, ids, p) ==
    /\ timer' = IF ~MayRepeat(r, ids) THEN "off"
                ELSE IF r.delay THEN "delay" ELSE "interval"
    /\ pressed' = IF MayRepeat(r, ids) /\ ~r.delay THEN Ticked(p, ids) ELSE p

(* Mutant of UpdateDirection: what the other source pressed stays pressed. *)
UpdateDirectionKeepsOld(s, d, id, on) ==
    [out |-> [s.out EXCEPT ![d] = [id |-> id, on |-> d \in on]],
     pressed |-> IF s.out[d] = [id |-> id, on |-> TRUE] <=> d \in on THEN s.pressed
                 ELSE SetPressed(s.pressed, id, d \in on)]

(* updateDirection; s has the outputs and actions so far, on the           *)
(* directions that are held                                                *)
UpdateDirection(s, d, id, on) ==
    LET old == s.out[d]
        kept == old.id = id
        released == IF ~kept /\ old.on THEN SetPressed(s.pressed, old.id, FALSE)
                    ELSE s.pressed
    IN [out |-> [s.out EXCEPT ![d] = [id |-> id, on |-> d \in on]],
        pressed |-> IF kept /\ old.on <=> d \in on THEN released
                    ELSE SetPressed(released, id, d \in on)]

BoundDirs(binding, dirs) == {d \in dirs : binding[d] # NoAction}

(* updateMergedNavigation: the source that counts and what is held of it,  *)
(* the four directions in their order, and the repeats.                    *)
Merged(newDpad, newStick) ==
    LET byDpad == BoundDirs(profile.dpad, newDpad)
        byStick == BoundDirs(profile.stick, newStick)
    IN IF byDpad # {} /\ (dpadFirst \/ byStick = {})
       THEN [id |-> profile.dpad, on |-> byDpad]
       ELSE [id |-> profile.stick, on |-> byStick]

UpdateDirections(s, id, on) ==
    LET s1 == UpdateDirection(s, "up", id["up"], on)
        s2 == UpdateDirection(s1, "down", id["down"], on)
        s3 == UpdateDirection(s2, "left", id["left"], on)
    IN UpdateDirection(s3, "right", id["right"], on)

HeldIds(o) == {o[d].id : d \in {e \in Dirs : o[e].on}}

Emit(s) ==
    /\ out' = s.out
    /\ repeating' = HeldIds(s.out)
    /\ IF HeldIds(s.out) # repeating THEN Restart(repeat, HeldIds(s.out), s.pressed)
       ELSE pressed' = s.pressed /\ UNCHANGED timer

UpdateMergedNavigation(newDpad, newStick) ==
    LET merged == Merged(newDpad, newStick)
    IN Emit(UpdateDirections([out |-> out, pressed |-> pressed], merged.id, merged.on))

-----------------------------------------------------------------------------
(* The left stick.                                                         *)

Horizontal == {"left", "right"}
Vertical == {"up", "down"}
SideX(v) == IF v < 0 THEN {"left"} ELSE IF v > 0 THEN {"right"} ELSE {}
SideY(v) == IF v < 0 THEN {"up"} ELSE IF v > 0 THEN {"down"} ELSE {}

(* Mutant of Kept: let go at the threshold of a press, without hysteresis. *)
KeptToPress(held, v, release) ==
    IF Abs(v) <= release + config.hysteresis THEN {} ELSE held

(* The directions that are held on, and the ones that may be taken up      *)
Kept(held, v, release) == IF Abs(v) <= release THEN {} ELSE held

Candidates(held, v, press, side) ==
    IF held = {} /\ Abs(v) >= press THEN side ELSE {}

(* Of an axis that is not locked out: a held direction may change its sign *)
(* within the lock.                                                        *)
Locked(kept, candidates, v, press, side) ==
    IF kept = {} THEN candidates
    ELSE IF Abs(v) >= press THEN side ELSE kept

UpdateFromLeftStick(c, x, y) ==
    LET heldX == stick \cap Horizontal
        heldY == stick \cap Vertical
        keptX == Kept(heldX, x, ReleaseAt(c, "X"))
        keptY == Kept(heldY, y, ReleaseAt(c, "Y"))
        candX == Candidates(heldX, x, PressAt(c, "X"), SideX(x))
        candY == Candidates(heldY, y, PressAt(c, "Y"), SideY(y))
        free == IF c.policy # config.policy THEN "None"
                ELSE IF \/ lock = "Horizontal" /\ heldX # {} /\ keptX = {}
                        \/ lock = "Vertical" /\ heldY # {} /\ keptY = {}
                THEN "None" ELSE lock
        taken == IF free # "None" THEN free
                 ELSE IF candX # {} /\ (candY = {} \/ Abs(x) >= Abs(y)) THEN "Horizontal"
                 ELSE IF candY # {} THEN "Vertical" ELSE "None"
        centered == /\ c.releaseOnCenter
                    /\ Abs(x) <= ReleaseAt(c, "X") /\ Abs(y) <= ReleaseAt(c, "Y")
        held == IF c.policy = "AllowDiagonal"
                THEN keptX \cup candX \cup keptY \cup candY
                ELSE CASE taken = "Horizontal" ->
                            Locked(keptX, candX, x, PressAt(c, "X"), SideX(x))
                       [] taken = "Vertical" ->
                            Locked(keptY, candY, y, PressAt(c, "Y"), SideY(y))
                       [] OTHER -> keptX \cup keptY
    IN /\ stick' = IF centered THEN {} ELSE held
       /\ lock' = IF centered THEN "None"
                  ELSE IF c.policy = "AllowDiagonal" THEN free ELSE taken
       /\ mixed' = (stick' # {} /\ (mixed \/ c.policy # config.policy))
       /\ UpdateMergedNavigation(dpad, stick')

-----------------------------------------------------------------------------
(* reset and the setters.                                                  *)

Idle == [d \in Dirs |-> [id |-> NoAction, on |-> FALSE]]

(* reset releases every action, whatever holds it.                         *)
Reset ==
    /\ dpad' = {}
    /\ leftX' = 0 /\ leftY' = 0 /\ stick' = {} /\ lock' = "None"
    /\ mixed' = FALSE
    /\ zActive' = {} /\ zeroRead' = FALSE
    /\ out' = Idle
    /\ pressed' = [a \in Actions |-> FALSE]
    /\ repeating' = {} /\ timer' = "off"

SetEnabled(on) ==
    /\ enabled # on
    /\ enabled' = on
    /\ IF on THEN UNCHANGED <<dpad, stickVars, axisVars, outVars>> ELSE Reset
    /\ UNCHANGED <<config, repeat, profile, dpadFirst, inputVars>>

(* setDeadzone, setHysteresis, setReleaseOnCenter and setDiagonalPolicy    *)
Settings ==
    {[config EXCEPT !.deadzone = v] : v \in Deadzones}
        \cup {[config EXCEPT !.hysteresis = v] : v \in Hystereses}
        \cup {[config EXCEPT !.releaseOnCenter = on] : on \in BOOLEAN}
        \cup {[config EXCEPT !.policy = p] : p \in Policies}

Configure(c) ==
    /\ config # c
    /\ config' = c
    /\ UpdateFromLeftStick(c, leftX, leftY)
    /\ UNCHANGED <<enabled, repeat, profile, dpadFirst, dpad, leftX, leftY, axisVars,
                   inputVars>>

(* setRepeatEnabled, setRepeatDelayMs and setRepeatIntervalMs              *)
SetRepeat(r) ==
    /\ repeat # r
    /\ repeat' = r
    /\ Restart(r, repeating, pressed)
    /\ UNCHANGED <<enabled, config, profile, dpadFirst, dpad, stickVars, axisVars, out,
                   repeating, inputVars>>

(* applyActionMappingProfile: what the profile does not say is kept.       *)
ApplyActionMappingProfile(p) ==
    /\ Reset
    /\ profile' = p
    /\ dpadFirst' \in IF p.dpadFirst = {} THEN {dpadFirst} ELSE p.dpadFirst
    /\ repeat' \in IF p.repeat = {} THEN {repeat} ELSE p.repeat
    /\ UNCHANGED <<enabled, config, inputVars>>

-----------------------------------------------------------------------------
(* processButton and processAxis; while the mapper is disabled they return *)
(* early.                                                                  *)

ProcessDpad(d, on) ==
    /\ enabled
    /\ dpad' = IF on THEN dpad \cup {d} ELSE dpad \ {d}
    /\ UpdateMergedNavigation(dpad', stick)
    /\ UNCHANGED <<enabled, config, repeat, profile, dpadFirst, stickVars, axisVars,
                   inputVars>>

ProcessFace ==
    /\ face' = ~face
    /\ pressed' = IF enabled THEN SetPressed(pressed, profile.face, face') ELSE pressed
    /\ UNCHANGED <<enabled, config, repeat, profile, dpadFirst, dpad, stickVars, axisVars,
                   out, repeating, timer, z>>

ProcessStick(x, y) ==
    /\ enabled
    /\ leftX' = x /\ leftY' = y
    /\ UpdateFromLeftStick(config, x, y)
    /\ UNCHANGED <<enabled, config, repeat, profile, dpadFirst, dpad, axisVars, inputVars>>

(* The sides of the further axis that are active: unlike the stick's, a    *)
(* side stays active at its threshold.                                     *)
NextActive(v) ==
    LET release == ReleaseAt(config, "Z")
        press == PressAt(config, "Z")
    IN {s \in {"negative", "positive"} :
            LET w == IF s = "negative" THEN -v ELSE v
            IN IF s \in zActive THEN w >= release ELSE w > press}

ProcessAxis(v) ==
    LET binding(s) == IF s = "negative" THEN profile.negative ELSE profile.positive
        changed(p, s) == IF s \in NextActive(v) <=> s \in zActive THEN p
                         ELSE SetPressed(p, binding(s), s \in NextActive(v))
    IN /\ z' = v
       /\ IF enabled /\ BoundDirs([s \in {"negative", "positive"} |-> binding(s)],
                                  {"negative", "positive"}) # {}
          THEN /\ zActive' = NextActive(v)
               /\ zeroRead' = (ReleaseAt(config, "Z") = 0)
               /\ pressed' = changed(changed(pressed, "negative"), "positive")
          ELSE UNCHANGED <<axisVars, pressed>>
       /\ UNCHANGED <<enabled, config, repeat, profile, dpadFirst, dpad, stickVars, out,
                      repeating, timer, face>>

-----------------------------------------------------------------------------
(* The repeat timers.                                                      *)

EmitRepeatTick ==
    pressed' = IF MayRepeat(repeat, repeating) THEN Ticked(pressed, repeating)
               ELSE pressed

DelayTimeout ==
    /\ timer = "delay"
    /\ EmitRepeatTick
    /\ timer' = IF MayRepeat(repeat, repeating) THEN "interval" ELSE "off"
    /\ UNCHANGED <<enabled, config, repeat, profile, dpadFirst, dpad, stickVars, axisVars,
                   out, repeating, inputVars>>

IntervalTimeout ==
    /\ timer = "interval"
    /\ EmitRepeatTick
    /\ UNCHANGED <<enabled, config, repeat, profile, dpadFirst, dpad, stickVars, axisVars,
                   out, repeating, timer, inputVars>>

-----------------------------------------------------------------------------
Init ==
    /\ enabled = TRUE
    /\ config \in [deadzone : Deadzones, hysteresis : Hystereses,
                   policy : {"PreferCardinal"}, releaseOnCenter : {TRUE}]
    /\ repeat = [enabled |-> FALSE, delay |-> TRUE, interval |-> TRUE]
    /\ profile = Preset /\ dpadFirst = TRUE
    /\ dpad = {} /\ leftX = 0 /\ leftY = 0 /\ stick = {} /\ lock = "None"
    /\ mixed = FALSE /\ zActive = {} /\ zeroRead = FALSE
    /\ out = Idle /\ pressed = [a \in Actions |-> FALSE]
    /\ repeating = {} /\ timer = "off"
    /\ face = FALSE /\ z = 0

Setters ==
    \/ \E on \in BOOLEAN : SetEnabled(on)
    \/ \E c \in Settings : Configure(c)
    \/ \E r \in Repeats : SetRepeat(r)
    \/ \E p \in Profiles : ApplyActionMappingProfile(p)

Inputs ==
    \/ \E d \in Pads, on \in BOOLEAN : ProcessDpad(d, on)
    \/ ProcessFace
    \/ \E x \in XValues : ProcessStick(x, leftY)
    \/ \E y \in YValues : ProcessStick(leftX, y)
    \/ \E v \in ZValues : ProcessAxis(v)

Timers == DelayTimeout \/ IntervalTimeout

Next == Setters \/ Inputs \/ Timers

Spec == Init /\ [][Next]_vars

-----------------------------------------------------------------------------
(* Properties.                                                             *)

TypeOK ==
    /\ enabled \in BOOLEAN
    /\ config \in [deadzone : Deadzones, hysteresis : Hystereses,
                   policy : Policies, releaseOnCenter : BOOLEAN]
    /\ repeat \in Repeat /\ profile \in Profiles /\ dpadFirst \in BOOLEAN
    /\ dpad \subseteq Dirs
    /\ leftX \in -Full..Full /\ leftY \in -Full..Full
    /\ stick \subseteq Dirs /\ lock \in Lock /\ mixed \in BOOLEAN
    /\ zActive \subseteq {"negative", "positive"} /\ zeroRead \in BOOLEAN
    /\ out \in [Dirs -> [id : Bound, on : BOOLEAN]]
    /\ pressed \in [Actions -> BOOLEAN]
    /\ repeating \subseteq Actions /\ timer \in {"off", "delay", "interval"}
    /\ face \in BOOLEAN /\ z \in -Full..Full

(* A pressed action is held by a direction, the button or the axis that    *)
(* the profile of the moment binds to it: none outlives a change of        *)
(* source, profile or settings, and no repeat presses one for nobody.      *)
HeldByAxis(a) ==
    \/ "negative" \in zActive /\ profile.negative = a
    \/ "positive" \in zActive /\ profile.positive = a

HeldBy(a) ==
    \/ \E d \in Dirs : out[d] = [id |-> a, on |-> TRUE]
    \/ face /\ profile.face = a
    \/ HeldByAxis(a)

PressedIsHeld == \A a \in Actions : pressed[a] => HeldBy(a)

(* When everything is let go nothing repeats and no action is pressed,     *)
(* whatever the thresholds were meanwhile; except one of a side of the     *)
(* further axis if its threshold was 0 as the axis came back: it is let go *)
(* below its threshold, and 0 is not below 0.                              *)
AtRest == dpad = {} /\ leftX = 0 /\ leftY = 0 /\ ~face /\ z = 0

NothingPressedAtRest ==
    AtRest => /\ \A a \in Actions : pressed[a] => zeroRead /\ HeldByAxis(a)
              /\ repeating = {} /\ timer = "off"

(* The repeat timers run exactly while a direction is held and repeats are *)
(* on, and they repeat the directions that are held.                       *)
RepeatsWhatIsHeld ==
    /\ repeating = HeldIds(out)
    /\ timer # "off" <=> MayRepeat(repeat, repeating)

OutputIsHeld == PressedIsHeld /\ NothingPressedAtRest /\ RepeatsWhatIsHeld

(* PreferCardinal: the stick holds one direction, which is none it has     *)
(* been taken back from or pushed past to the other side.                  *)
Side(d) == CASE d = "left" -> -leftX [] d = "right" -> leftX
             [] d = "up" -> -leftY [] d = "down" -> leftY

Cardinal ==
    config.policy = "PreferCardinal" /\ ~mixed =>
        \A d \in stick :
            LET axis == IF d \in Horizontal THEN "X" ELSE "Y"
            IN /\ stick = {d}
               /\ Abs(Side(d)) >= ReleaseAt(config, axis)
               /\ Side(d) > -PressAt(config, axis)

(* The lock goes over to the other axis only when the stick was taken back *)
(* on its own: no jitter of two axes flips the direction.                  *)
LockHolds ==
    [][ /\ lock = "Horizontal" /\ lock' = "Vertical" =>
            Abs(leftX') <= ReleaseAt(config', "X")
        /\ lock = "Vertical" /\ lock' = "Horizontal" =>
            Abs(leftY') <= ReleaseAt(config', "Y") ]_vars

(* What the policy promises: "outputs one direction only ... and locks an   *)
(* axis, so that jitter does not flip it".                                 *)
StickIsSteady == []Cardinal /\ LockHolds
=============================================================================

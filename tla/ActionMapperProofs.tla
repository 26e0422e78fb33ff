------------------------- MODULE ActionMapperProofs -------------------------
(***************************************************************************)
(* What the run of ActionMapper shows on a few values, proved for any      *)
(* actions, profiles, thresholds and axis values.  That only what is held  *)
(* is pressed is not inductive alone: it needs that directions that are on *)
(* have an action and a source, that the sources agree with the inputs,    *)
(* and that a disabled mapper is empty.  That the stick is steady needs in *)
(* addition that what it holds lies on the axis that is locked.            *)
(***************************************************************************)
EXTENDS ActionMapper, TLAPS

On(d) == out[d].on

(* The outputs follow the sources, and the sources the inputs.             *)
Backed ==
    /\ \A d \in Dirs : On(d) => out[d].id \in Actions /\ d \in dpad \cup stick
    /\ leftX = 0 /\ leftY = 0 => stick = {}
    /\ z = 0 /\ ~zeroRead => zActive = {}
    /\ profile.negative = NoAction /\ profile.positive = NoAction => zActive = {}

(* A disabled mapper holds nothing.                                        *)
Empty ==
    ~enabled => /\ dpad = {} /\ stick = {} /\ zActive = {}
                /\ leftX = 0 /\ leftY = 0
                /\ \A d \in Dirs : ~On(d)
                /\ \A a \in Actions : ~pressed[a]

IInv == TypeOK /\ PressedIsHeld /\ RepeatsWhatIsHeld /\ Backed /\ Empty

(* What holds an action beside the directions.                             *)
Others == {a \in Actions :
              \/ face /\ profile.face = a
              \/ HeldByAxis(a)}

Outs == [Dirs -> [id : Bound, on : BOOLEAN]]

(* Each action that p has pressed is in h or of a direction that is on.    *)
Covered(o, p, h) ==
    \A a \in Actions : p[a] => a \in h \/ \E d \in Dirs : o[d] = [id |-> a, on |-> TRUE]

(* setActionPressed changes the one action, if there is one.               *)
LEMMA SetOne ==
    ASSUME NEW p \in [Actions -> BOOLEAN], NEW id \in Bound, NEW on \in BOOLEAN
    PROVE  /\ SetPressed(p, id, on) \in [Actions -> BOOLEAN]
           /\ \A a \in Actions : SetPressed(p, id, on)[a] = IF a = id THEN on ELSE p[a]
<1> QED  BY ActionAssumption DEF SetPressed, Bound

(* updateDirection leaves no action pressed that nothing holds.            *)
LEMMA DirectionStep ==
    ASSUME NEW s, s.out \in Outs, s.pressed \in [Actions -> BOOLEAN],
           NEW d \in Dirs, NEW id \in Bound, NEW on, NEW h,
           Covered(s.out, s.pressed, h)
    PROVE  LET t == UpdateDirection(s, d, id, on)
           IN /\ t.out[d].id = id /\ (t.out[d].on <=> d \in on)
              /\ \A e \in Dirs \ {d} : t.out[e] = s.out[e]
              /\ t.out \in Outs /\ t.pressed \in [Actions -> BOOLEAN]
              /\ Covered(t.out, t.pressed, h)
<1> DEFINE t == UpdateDirection(s, d, id, on)
           oid == s.out[d].id
           oon == s.out[d].on
           p == s.pressed
           same == oid = id /\ oon <=> d \in on
           released == IF ~(oid = id) /\ oon THEN SetPressed(p, oid, FALSE) ELSE p
           q == IF same THEN released ELSE SetPressed(released, id, d \in on)
           n == [s.out EXCEPT ![d] = [id |-> id, on |-> d \in on]]
<1>1. t.out = n /\ t.pressed = q
  BY DEF UpdateDirection
<1>2. oid \in Bound /\ oon \in BOOLEAN /\ s.out[d] = [id |-> oid, on |-> oon]
  BY DEF Outs
<1>3. p \in [Actions -> BOOLEAN] /\ Covered(s.out, p, h)
  OBVIOUS
<1> HIDE DEF p, oid, oon
<1>4. /\ SetPressed(p, oid, FALSE) \in [Actions -> BOOLEAN]
      /\ \A a \in Actions : SetPressed(p, oid, FALSE)[a] = IF a = oid THEN FALSE ELSE p[a]
  BY <1>2, <1>3, SetOne
<1>5. /\ released \in [Actions -> BOOLEAN]
      /\ \A a \in Actions : released[a] =
                             IF oid # id /\ oon /\ a = oid THEN FALSE ELSE p[a]
  BY <1>3, <1>4
<1> HIDE DEF released
<1>6. /\ SetPressed(released, id, d \in on) \in [Actions -> BOOLEAN]
      /\ \A a \in Actions : SetPressed(released, id, d \in on)[a] =
                             IF a = id THEN d \in on ELSE released[a]
  BY <1>5, ActionAssumption DEF SetPressed, Bound
<1>7. /\ q \in [Actions -> BOOLEAN]
      /\ \A a \in Actions : q[a] = IF ~same /\ a = id THEN d \in on ELSE released[a]
  BY <1>5, <1>6
<1> HIDE DEF q
<1>8. n \in Outs /\ n[d] = [id |-> id, on |-> d \in on]
      /\ \A e \in Dirs \ {d} : n[e] = s.out[e]
  BY DEF Outs
<1> HIDE DEF n
<1>9. n[d].id = id /\ (n[d].on <=> d \in on)
  <2>1. CASE d \in on
    <3>1. n[d] = [id |-> id, on |-> TRUE]
      BY <1>8, <2>1
    <3> QED  BY <2>1, <3>1
  <2>2. CASE d \notin on
    <3>1. (d \in on) = FALSE
      BY <2>2
    <3>2. n[d] = [id |-> id, on |-> FALSE]
      BY <1>8, <3>1
    <3> QED  BY <2>2, <3>2
  <2> QED  BY <2>1, <2>2
<1>10. ASSUME NEW a \in Actions, q[a], a \notin h
      PROVE  \E e \in Dirs : n[e] = [id |-> a, on |-> TRUE]
  <2>1. CASE a = id /\ d \in on
    BY <1>8, <2>1
  <2>2. CASE ~(a = id /\ d \in on)
    <3>1. released[a] /\ (a = id => same)
      BY <1>7, <1>10, <2>2
    <3>2. p[a] /\ ~(oid # id /\ oon /\ a = oid)
      BY <1>5, <3>1
    <3>3. PICK e \in Dirs : s.out[e] = [id |-> a, on |-> TRUE]
      BY <1>3, <1>10, <3>2 DEF Covered
    <3>4. e # d
      <4>1. SUFFICES ASSUME e = d PROVE FALSE
        OBVIOUS
      <4>2. oon = TRUE /\ oid = a
        BY <1>2, <3>3, <4>1
      <4>3. a = id /\ d \notin on
        BY <2>2, <3>2, <4>2
      <4> QED  BY <3>1, <4>2, <4>3
    <3> QED  BY <1>8, <3>3, <3>4
  <2> QED  BY <2>1, <2>2
<1> QED  BY <1>1, <1>7, <1>8, <1>9, <1>10 DEF Covered

(* The four directions in their order.                                     *)
LEMMA DirectionsStep ==
    ASSUME NEW s, s.out \in Outs, s.pressed \in [Actions -> BOOLEAN],
           NEW id \in [Dirs -> Bound], NEW on \in SUBSET Dirs, NEW h,
           Covered(s.out, s.pressed, h)
    PROVE  LET t == UpdateDirections(s, id, on)
           IN /\ \A d \in Dirs : t.out[d].id = id[d] /\ (t.out[d].on <=> d \in on)
              /\ t.out \in Outs /\ t.pressed \in [Actions -> BOOLEAN]
              /\ Covered(t.out, t.pressed, h)
<1> DEFINE s1 == UpdateDirection(s, "up", id["up"], on)
           s2 == UpdateDirection(s1, "down", id["down"], on)
           s3 == UpdateDirection(s2, "left", id["left"], on)
           s4 == UpdateDirection(s3, "right", id["right"], on)
<1>1. UpdateDirections(s, id, on) = s4
  BY DEF UpdateDirections
<1>2. \A d \in {"up", "down", "left", "right"} :
        d \in Dirs /\ id[d] \in Bound
  BY DEF Dirs
<1>3. /\ s1.out["up"].id = id["up"] /\ (s1.out["up"].on <=> "up" \in on)
      /\ \A e \in Dirs \ {"up"} : s1.out[e] = s.out[e]
      /\ s1.out \in Outs /\ s1.pressed \in [Actions -> BOOLEAN]
      /\ Covered(s1.out, s1.pressed, h)
  BY <1>2, DirectionStep
<1>4. /\ s2.out["down"].id = id["down"] /\ (s2.out["down"].on <=> "down" \in on)
      /\ \A e \in Dirs \ {"down"} : s2.out[e] = s1.out[e]
      /\ s2.out \in Outs /\ s2.pressed \in [Actions -> BOOLEAN]
      /\ Covered(s2.out, s2.pressed, h)
  <2> HIDE DEF s1
  <2> QED  BY <1>2, <1>3, DirectionStep
<1>5. /\ s3.out["left"].id = id["left"] /\ (s3.out["left"].on <=> "left" \in on)
      /\ \A e \in Dirs \ {"left"} : s3.out[e] = s2.out[e]
      /\ s3.out \in Outs /\ s3.pressed \in [Actions -> BOOLEAN]
      /\ Covered(s3.out, s3.pressed, h)
  <2> HIDE DEF s2
  <2> QED  BY <1>2, <1>4, DirectionStep
<1>6. /\ s4.out["right"].id = id["right"] /\ (s4.out["right"].on <=> "right" \in on)
      /\ \A e \in Dirs \ {"right"} : s4.out[e] = s3.out[e]
      /\ s4.out \in Outs /\ s4.pressed \in [Actions -> BOOLEAN]
      /\ Covered(s4.out, s4.pressed, h)
  <2> HIDE DEF s3
  <2> QED  BY <1>2, <1>5, DirectionStep
<1> HIDE DEF s1, s2, s3, s4
<1>7. \A d \in Dirs : s4.out[d].id = id[d] /\ (s4.out[d].on <=> d \in on)
  BY <1>3, <1>4, <1>5, <1>6 DEF Dirs
<1> QED  BY <1>1, <1>6, <1>7


(* updateMergedNavigation and the repeats that follow it: what is on is of *)
(* one of the two sources, and has an action.                              *)
LEMMA MergedStep ==
    ASSUME TypeOK, NEW nd \in SUBSET Dirs, NEW ns \in SUBSET Dirs,
           NEW h, Covered(out, pressed, h),
           RepeatsWhatIsHeld, UpdateMergedNavigation(nd, ns), repeat' = repeat
    PROVE  /\ out' \in Outs /\ pressed' \in [Actions -> BOOLEAN]
           /\ \A d \in Dirs : On(d)' => out'[d].id \in Actions /\ d \in nd \cup ns
           /\ repeating' \subseteq Actions /\ timer' \in {"off", "delay", "interval"}
           /\ RepeatsWhatIsHeld'
           /\ Covered(out', pressed', h)
<1> DEFINE m == Merged(nd, ns)
           s == UpdateDirections([out |-> out, pressed |-> pressed], m.id, m.on)
           ids == HeldIds(s.out)
<1>1. Emit(s)
  BY DEF UpdateMergedNavigation
<1>2. /\ m.id \in [Dirs -> Bound] /\ m.on \in SUBSET Dirs
      /\ \A d \in m.on : d \in nd \cup ns /\ m.id[d] # NoAction
  <2>1. profile \in Profile
    BY ProfileAssumption DEF TypeOK
  <2> QED  BY <2>1 DEF Merged, Profile, BoundDirs
<1>3. /\ \A d \in Dirs : s.out[d].id = m.id[d] /\ (s.out[d].on <=> d \in m.on)
      /\ s.out \in Outs /\ s.pressed \in [Actions -> BOOLEAN]
      /\ Covered(s.out, s.pressed, h)
  <2>1. out \in Outs /\ pressed \in [Actions -> BOOLEAN]
    BY DEF TypeOK, Outs
  <2> DEFINE s0 == [out |-> out, pressed |-> pressed]
  <2>2. s0.out \in Outs /\ s0.pressed \in [Actions -> BOOLEAN] /\ Covered(s0.out, s0.pressed, h)
    BY <2>1
  <2> HIDE DEF s0, m
  <2> DEFINE id == m.id
             on == m.on
             t == UpdateDirections(s0, id, on)
  <2>3. s = t
    BY DEF s0
  <2>4. id \in [Dirs -> Bound] /\ on \in SUBSET Dirs
    BY <1>2
  <2> HIDE DEF s, id, on
  <2>5. /\ \A d \in Dirs : t.out[d].id = id[d] /\ (t.out[d].on <=> d \in on)
        /\ t.out \in Outs /\ t.pressed \in [Actions -> BOOLEAN]
        /\ Covered(t.out, t.pressed, h)
    BY <2>2, <2>4, DirectionsStep
  <2> HIDE DEF t
  <2> QED  BY <2>3, <2>5 DEF id, on
<1> HIDE DEF s, m
<1>4. \A d \in Dirs : s.out[d].on => s.out[d].id \in Actions /\ d \in nd \cup ns
  BY <1>2, <1>3 DEF Bound
<1>5. ids \subseteq Actions
  BY <1>4 DEF HeldIds
<1>6. out' = s.out /\ repeating' = ids
  BY <1>1 DEF Emit
<1>7. \A a \in ids : \E d \in Dirs : s.out[d] = [id |-> a, on |-> TRUE]
  BY <1>3 DEF HeldIds, Outs
<1> HIDE DEF ids
<1>8. /\ timer' \in {"off", "delay", "interval"}
      /\ timer' # "off" <=> MayRepeat(repeat, ids)
      /\ pressed' = s.pressed \/ pressed' = Ticked(s.pressed, ids)
  BY <1>1 DEF Emit, Restart, RepeatsWhatIsHeld, TypeOK, ids
<1>9. pressed' \in [Actions -> BOOLEAN] /\ Covered(s.out, pressed', h)
  <2>1. CASE pressed' = s.pressed
    BY <2>1, <1>3
  <2>2. CASE pressed' = Ticked(s.pressed, ids)
    BY <1>3, <1>7, <2>2 DEF Ticked, Covered
  <2> QED  BY <1>8, <2>1, <2>2
<1>10. RepeatsWhatIsHeld'
  BY <1>6, <1>8 DEF RepeatsWhatIsHeld, ids
<1> QED  BY <1>3, <1>4, <1>5, <1>6, <1>8, <1>9, <1>10 DEF On

(* The same for a mapper that satisfies the invariant.                     *)
LEMMA MergedHeld ==
    ASSUME IInv, NEW nd \in SUBSET Dirs, NEW ns \in SUBSET Dirs,
           UpdateMergedNavigation(nd, ns), UNCHANGED <<repeat, profile, face, zActive>>
    PROVE  /\ out' \in Outs /\ pressed' \in [Actions -> BOOLEAN]
           /\ \A d \in Dirs : On(d)' => out'[d].id \in Actions /\ d \in nd \cup ns
           /\ repeating' \subseteq Actions /\ timer' \in {"off", "delay", "interval"}
           /\ RepeatsWhatIsHeld' /\ PressedIsHeld'
           /\ (\A a \in Actions : ~pressed[a]) => Covered(out', pressed', {})
<1>1. Covered(out, pressed, Others)
  BY DEF IInv, PressedIsHeld, HeldBy, HeldByAxis, Covered, Others
<1>2. /\ out' \in Outs /\ pressed' \in [Actions -> BOOLEAN]
      /\ \A d \in Dirs : On(d)' => out'[d].id \in Actions /\ d \in nd \cup ns
      /\ repeating' \subseteq Actions /\ timer' \in {"off", "delay", "interval"}
      /\ RepeatsWhatIsHeld' /\ Covered(out', pressed', Others)
  BY <1>1, MergedStep DEF IInv
<1>3. PressedIsHeld'
  BY <1>2 DEF PressedIsHeld, HeldBy, HeldByAxis, Covered, Others
<1>4. ASSUME \A a \in Actions : ~pressed[a]
      PROVE  Covered(out', pressed', {})
  <2>1. Covered(out, pressed, {})
    BY <1>4 DEF Covered
  <2> QED  BY <2>1, MergedStep DEF IInv
<1> QED  BY <1>2, <1>3, <1>4

Configs == [deadzone : Deadzones, hysteresis : Hystereses, policy : Policies,
            releaseOnCenter : BOOLEAN]

LEMMA Thresholds ==
    ASSUME profile \in Profiles, NEW c \in Configs, NEW a \in Axes
    PROVE  ReleaseAt(c, a) \in 0..Full /\ PressAt(c, a) \in 0..Full
<1>1. profile \in Profile
  BY ProfileAssumption
<1>2. profile.threshold[a] \in (0..Full) \cup {NoThreshold}
  BY <1>1 DEF Profile
<1>3. c.deadzone \in 0..Full /\ c.hysteresis \in 0..Full
  BY ValueAssumption DEF Configs
<1> QED  BY <1>2, <1>3, FullAssumption DEF ReleaseAt, PressAt

(* updateFromLeftStick: a centered stick holds nothing.                    *)
LEMMA StickStep ==
    ASSUME TypeOK, NEW c \in Configs, NEW x \in -Full..Full, NEW y \in -Full..Full,
           UpdateFromLeftStick(c, x, y)
    PROVE  /\ stick' \subseteq Dirs /\ lock' \in Lock /\ mixed' \in BOOLEAN
           /\ x = 0 /\ y = 0 => stick' = {}
           /\ UpdateMergedNavigation(dpad, stick')
<1> DEFINE keptX == Kept(stick \cap Horizontal, x, ReleaseAt(c, "X"))
           keptY == Kept(stick \cap Vertical, y, ReleaseAt(c, "Y"))
           candX == Candidates(stick \cap Horizontal, x, PressAt(c, "X"), SideX(x))
           candY == Candidates(stick \cap Vertical, y, PressAt(c, "Y"), SideY(y))
           byX == Locked(keptX, candX, x, PressAt(c, "X"), SideX(x))
           byY == Locked(keptY, candY, y, PressAt(c, "Y"), SideY(y))
<1>1. ReleaseAt(c, "X") \in 0..Full /\ ReleaseAt(c, "Y") \in 0..Full
  BY Thresholds DEF TypeOK, Axes
<1>2. /\ keptX \subseteq Dirs /\ keptY \subseteq Dirs
      /\ candX \subseteq Dirs /\ candY \subseteq Dirs
  BY DEF Kept, Candidates, Horizontal, Vertical, SideX, SideY, Dirs
<1>3. byX \subseteq Dirs /\ byY \subseteq Dirs
  BY <1>2 DEF Locked, SideX, SideY, Dirs
<1>4. ASSUME x = 0 PROVE keptX = {} /\ candX = {} /\ byX = {}
  BY <1>1, <1>4 DEF Kept, Candidates, Locked, SideX, Abs
<1>5. ASSUME y = 0 PROVE keptY = {} /\ candY = {} /\ byY = {}
  BY <1>1, <1>5 DEF Kept, Candidates, Locked, SideY, Abs
<1> HIDE DEF byX, byY
<1>6. stick' \in {{}, keptX \cup candX \cup keptY \cup candY, byX, byY, keptX \cup keptY}
  BY DEF UpdateFromLeftStick, byX, byY
<1>7. lock' \in Lock /\ mixed' \in BOOLEAN /\ UpdateMergedNavigation(dpad, stick')
  BY DEF UpdateFromLeftStick, Lock, TypeOK
<1> HIDE DEF keptX, keptY, candX, candY
<1> QED  BY <1>2, <1>3, <1>4, <1>5, <1>6, <1>7

-----------------------------------------------------------------------------
(* The actions.                                                            *)

LEMMA ResetHolds ==
    ASSUME Reset, repeat' \in Repeat, profile' \in Profiles
    PROVE  /\ PressedIsHeld' /\ RepeatsWhatIsHeld' /\ Backed'
           /\ dpad' = {} /\ stick' = {} /\ zActive' = {} /\ leftX' = 0 /\ leftY' = 0
           /\ out' \in Outs /\ \A d \in Dirs : ~On(d)'
           /\ pressed' \in [Actions -> BOOLEAN] /\ \A a \in Actions : ~pressed'[a]
           /\ repeating' = {} /\ timer' = "off" /\ lock' \in Lock /\ mixed' = FALSE
           /\ zeroRead' = FALSE
<1>1. out' \in Outs /\ \A d \in Dirs : ~out'[d].on
  BY DEF Reset, Idle, Outs, Bound
<1>2. HeldIds(out') = {}
  BY <1>1 DEF HeldIds
<1>3. pressed' \in [Actions -> BOOLEAN] /\ \A a \in Actions : ~pressed'[a]
  BY DEF Reset
<1>4. RepeatsWhatIsHeld'
  BY <1>2 DEF RepeatsWhatIsHeld, MayRepeat, Reset
<1>5. PressedIsHeld'
  BY <1>3 DEF PressedIsHeld
<1>6. Backed'
  BY <1>1 DEF Backed, On, Reset
<1> QED  BY <1>1, <1>3, <1>4, <1>5, <1>6 DEF Reset, On, Lock

LEMMA SetEnabledHolds ==
    ASSUME IInv, NEW on \in BOOLEAN, SetEnabled(on)
    PROVE  IInv'
<1>1. CASE on
  <2>1. UNCHANGED <<dpad, leftX, leftY, stick, lock, mixed, zActive, zeroRead, out, pressed,
                    repeating, timer, config, repeat, profile, dpadFirst, face, z>>
        /\ enabled' = TRUE
    BY <1>1 DEF SetEnabled, stickVars, outVars, inputVars, axisVars
  <2>2. TypeOK'
    BY <2>1 DEF IInv, TypeOK
  <2>3. PressedIsHeld' /\ RepeatsWhatIsHeld' /\ Backed'
    BY <2>1 DEF IInv, PressedIsHeld, HeldBy, HeldByAxis, RepeatsWhatIsHeld, Backed, On
  <2> QED  BY <2>1, <2>2, <2>3 DEF IInv, Empty
<1>2. CASE ~on
  <2>1. /\ Reset /\ enabled' = on
        /\ UNCHANGED <<config, repeat, profile, dpadFirst, face, z>>
    BY <1>2 DEF SetEnabled, inputVars, axisVars
  <2>2. repeat' \in Repeat /\ profile' \in Profiles
    BY <2>1 DEF IInv, TypeOK
  <2>3. TypeOK'
    BY <2>1, <2>2, ResetHolds, FullAssumption DEF IInv, TypeOK, Outs
  <2> QED  BY <2>1, <2>2, <2>3, ResetHolds DEF IInv, Empty
<1> QED  BY <1>1, <1>2

LEMMA ApplyHolds ==
    ASSUME IInv, NEW p \in Profiles, ApplyActionMappingProfile(p)
    PROVE  IInv'
<1>1. /\ Reset /\ profile' \in Profiles
      /\ UNCHANGED <<enabled, config, face, z>>
  BY DEF ApplyActionMappingProfile, inputVars, axisVars
<1>2. dpadFirst' \in BOOLEAN /\ repeat' \in Repeat
  BY ProfileAssumption DEF ApplyActionMappingProfile, Profile, IInv, TypeOK
<1>3. TypeOK'
  BY <1>1, <1>2, ResetHolds, FullAssumption DEF IInv, TypeOK, Outs
<1> QED  BY <1>1, <1>2, <1>3, ResetHolds DEF IInv, Empty

LEMMA SettingsType ==
    ASSUME TypeOK, NEW c \in Settings
    PROVE  c \in Configs
<1> QED  BY DEF TypeOK, Settings, Configs

LEMMA ConfigureHolds ==
    ASSUME IInv, NEW c \in Settings, Configure(c)
    PROVE  IInv'
<1>1. /\ config' = c /\ UpdateFromLeftStick(c, leftX, leftY)
      /\ UNCHANGED <<enabled, repeat, profile, dpadFirst, dpad, leftX, leftY,
                     zActive, zeroRead, face, z>>
  BY DEF Configure, inputVars, axisVars
<1>2. c \in Configs /\ leftX \in -Full..Full /\ leftY \in -Full..Full /\ dpad \subseteq Dirs
  BY SettingsType DEF IInv, TypeOK
<1>3. /\ stick' \subseteq Dirs /\ lock' \in Lock /\ mixed' \in BOOLEAN
      /\ leftX = 0 /\ leftY = 0 => stick' = {}
      /\ UpdateMergedNavigation(dpad, stick')
  BY <1>1, <1>2, StickStep DEF IInv
<1>4. /\ out' \in Outs /\ pressed' \in [Actions -> BOOLEAN]
      /\ \A d \in Dirs : On(d)' => out'[d].id \in Actions /\ d \in dpad \cup stick'
      /\ repeating' \subseteq Actions /\ timer' \in {"off", "delay", "interval"}
      /\ RepeatsWhatIsHeld' /\ PressedIsHeld'
      /\ (\A a \in Actions : ~pressed[a]) => Covered(out', pressed', {})
  BY <1>1, <1>2, <1>3, MergedHeld
<1>5. TypeOK'
  BY <1>1, <1>2, <1>3, <1>4 DEF IInv, TypeOK, Outs, Configs
<1>6. Backed'
  BY <1>1, <1>3, <1>4 DEF IInv, Backed, On
<1>7. Empty'
  <2>1. ASSUME ~enabled
        PROVE  stick' = {} /\ (\A d \in Dirs : ~On(d)') /\ \A a \in Actions : ~pressed'[a]
    <3>1. dpad = {} /\ stick' = {}
      BY <1>3, <2>1 DEF IInv, Empty
    <3>2. \A d \in Dirs : ~On(d)'
      BY <1>4, <3>1
    <3>3. Covered(out', pressed', {})
      BY <1>4, <2>1 DEF IInv, Empty
    <3>4. \A a \in Actions, d \in Dirs : out'[d] # [id |-> a, on |-> TRUE]
      BY <3>2 DEF On
    <3> QED  BY <3>1, <3>2, <3>3, <3>4 DEF Covered
  <2> QED  BY <1>1, <2>1 DEF IInv, Empty
<1> QED  BY <1>4, <1>5, <1>6, <1>7 DEF IInv

LEMMA SetRepeatHolds ==
    ASSUME IInv, NEW r \in Repeats, SetRepeat(r)
    PROVE  IInv'
<1>1. /\ repeat' = r /\ Restart(r, repeating, pressed)
      /\ UNCHANGED <<enabled, config, profile, dpadFirst, dpad, leftX, leftY, stick, lock,
                     mixed, zActive, zeroRead, out, repeating, face, z>>
  BY DEF SetRepeat, stickVars, inputVars, axisVars
<1>2. r \in Repeat
  BY ValueAssumption
<1>3. /\ timer' \in {"off", "delay", "interval"}
      /\ timer' # "off" <=> MayRepeat(r, repeating)
      /\ pressed' = IF MayRepeat(r, repeating) /\ ~r.delay THEN Ticked(pressed, repeating)
                    ELSE pressed
  BY <1>1 DEF Restart
<1>4. RepeatsWhatIsHeld'
  BY <1>1, <1>3 DEF IInv, RepeatsWhatIsHeld
<1>5. pressed' \in [Actions -> BOOLEAN]
      /\ \A a \in Actions : pressed'[a] => pressed[a] \/ a \in repeating
  BY <1>3 DEF IInv, TypeOK, Ticked
<1>6. PressedIsHeld'
  BY <1>1, <1>5
     DEF IInv, TypeOK, PressedIsHeld, HeldBy, HeldByAxis, RepeatsWhatIsHeld, HeldIds
<1>7. TypeOK'
  BY <1>1, <1>2, <1>3, <1>5 DEF IInv, TypeOK
<1>8. Backed'
  BY <1>1 DEF IInv, Backed, On
<1>9. Empty'
  <2>1. ~enabled => repeating = {}
    BY DEF IInv, Empty, On, RepeatsWhatIsHeld, HeldIds
  <2> QED  BY <1>1, <1>5, <2>1 DEF IInv, Empty, On
<1> QED  BY <1>4, <1>6, <1>7, <1>8, <1>9 DEF IInv

LEMMA ProcessDpadHolds ==
    ASSUME IInv, NEW d \in Pads, NEW on \in BOOLEAN, ProcessDpad(d, on)
    PROVE  IInv'
<1>1. /\ enabled /\ dpad' = IF on THEN dpad \cup {d} ELSE dpad \ {d}
      /\ UpdateMergedNavigation(dpad', stick)
      /\ UNCHANGED <<enabled, config, repeat, profile, dpadFirst, leftX, leftY, stick, lock,
                     mixed, zActive, zeroRead, face, z>>
  BY DEF ProcessDpad, stickVars, inputVars, axisVars
<1>2. dpad' \subseteq Dirs /\ stick \subseteq Dirs
  BY <1>1, ValueAssumption DEF IInv, TypeOK
<1>3. /\ out' \in Outs /\ pressed' \in [Actions -> BOOLEAN]
      /\ \A e \in Dirs : On(e)' => out'[e].id \in Actions /\ e \in dpad' \cup stick
      /\ repeating' \subseteq Actions /\ timer' \in {"off", "delay", "interval"}
      /\ RepeatsWhatIsHeld' /\ PressedIsHeld'
  BY <1>1, <1>2, MergedHeld
<1>4. TypeOK'
  BY <1>1, <1>2, <1>3 DEF IInv, TypeOK, Outs
<1>5. Backed'
  BY <1>1, <1>3 DEF IInv, Backed, On
<1> QED  BY <1>1, <1>3, <1>4, <1>5 DEF IInv, Empty

LEMMA ProcessStickHolds ==
    ASSUME IInv, NEW x \in -Full..Full, NEW y \in -Full..Full, ProcessStick(x, y)
    PROVE  IInv'
<1>1. /\ enabled /\ leftX' = x /\ leftY' = y /\ UpdateFromLeftStick(config, x, y)
      /\ UNCHANGED <<enabled, config, repeat, profile, dpadFirst, dpad, zActive, zeroRead,
                     face, z>>
  BY DEF ProcessStick, inputVars, axisVars
<1>2. config \in Configs /\ dpad \subseteq Dirs
  BY DEF IInv, TypeOK, Configs
<1>3. /\ stick' \subseteq Dirs /\ lock' \in Lock /\ mixed' \in BOOLEAN
      /\ x = 0 /\ y = 0 => stick' = {}
      /\ UpdateMergedNavigation(dpad, stick')
  BY <1>1, <1>2, StickStep DEF IInv
<1>4. /\ out' \in Outs /\ pressed' \in [Actions -> BOOLEAN]
      /\ \A d \in Dirs : On(d)' => out'[d].id \in Actions /\ d \in dpad \cup stick'
      /\ repeating' \subseteq Actions /\ timer' \in {"off", "delay", "interval"}
      /\ RepeatsWhatIsHeld' /\ PressedIsHeld'
  BY <1>1, <1>2, <1>3, MergedHeld
<1>5. TypeOK'
  BY <1>1, <1>2, <1>3, <1>4 DEF IInv, TypeOK, Outs, Configs
<1>6. Backed'
  BY <1>1, <1>3, <1>4 DEF IInv, Backed, On
<1> QED  BY <1>1, <1>4, <1>5, <1>6 DEF IInv, Empty

LEMMA ProcessFaceHolds ==
    ASSUME IInv, ProcessFace
    PROVE  IInv'
<1>1. /\ face' = ~face
      /\ pressed' = IF enabled THEN SetPressed(pressed, profile.face, face') ELSE pressed
      /\ UNCHANGED <<enabled, config, repeat, profile, dpadFirst, dpad, leftX, leftY, stick,
                     lock, mixed, zActive, zeroRead, out, repeating, timer, z>>
  BY DEF ProcessFace, stickVars, axisVars
<1>2. pressed \in [Actions -> BOOLEAN] /\ face \in BOOLEAN
  BY DEF IInv, TypeOK
<1>3. ASSUME NEW a \in Actions
      PROVE  pressed'[a] => \/ face' /\ profile.face = a
                            \/ enabled /\ profile.face # a /\ pressed[a]
  BY <1>1, <1>2, ActionAssumption DEF SetPressed, IInv, Empty
<1>4. pressed' \in [Actions -> BOOLEAN] /\ face' \in BOOLEAN
  BY <1>1, <1>2, ActionAssumption DEF SetPressed
<1>5. PressedIsHeld'
  BY <1>1, <1>3 DEF IInv, PressedIsHeld, HeldBy, HeldByAxis
<1>6. TypeOK'
  BY <1>1, <1>4 DEF IInv, TypeOK
<1>7. RepeatsWhatIsHeld' /\ Backed'
  BY <1>1 DEF IInv, RepeatsWhatIsHeld, Backed, On
<1>8. Empty'
  BY <1>1 DEF IInv, Empty, On
<1> QED  BY <1>5, <1>6, <1>7, <1>8 DEF IInv

LEMMA TickHolds ==
    ASSUME IInv, DelayTimeout \/ IntervalTimeout
    PROVE  IInv'
<1>1. /\ EmitRepeatTick
      /\ timer # "off" /\ timer' \in {"off", "delay", "interval"}
      /\ timer' # "off" <=> MayRepeat(repeat, repeating)
      /\ UNCHANGED <<enabled, config, repeat, profile, dpadFirst, dpad, leftX, leftY, stick,
                     lock, mixed, zActive, zeroRead, out, repeating, face, z>>
  BY DEF DelayTimeout, IntervalTimeout, stickVars, inputVars, axisVars, IInv, RepeatsWhatIsHeld
<1>2. pressed' \in [Actions -> BOOLEAN]
      /\ \A a \in Actions : pressed'[a] => pressed[a] \/ a \in repeating
  BY <1>1 DEF EmitRepeatTick, IInv, TypeOK, Ticked
<1>3. PressedIsHeld'
  BY <1>1, <1>2
     DEF IInv, TypeOK, PressedIsHeld, HeldBy, HeldByAxis, RepeatsWhatIsHeld, HeldIds
<1>4. TypeOK'
  BY <1>1, <1>2 DEF IInv, TypeOK
<1>5. RepeatsWhatIsHeld' /\ Backed'
  BY <1>1 DEF IInv, RepeatsWhatIsHeld, Backed, On
<1>6. Empty'
  <2>1. ~enabled => repeating = {}
    BY DEF IInv, Empty, On, RepeatsWhatIsHeld, HeldIds
  <2> QED  BY <1>1, <1>2, <2>1 DEF IInv, Empty, On
<1> QED  BY <1>3, <1>4, <1>5, <1>6 DEF IInv

(* A side of the further axis presses its action as it gets active.        *)
LEMMA SideStep ==
    ASSUME NEW p \in [Actions -> BOOLEAN], NEW id \in Bound, NEW s, NEW next, NEW held
    PROVE  LET q == IF s \in next <=> s \in held THEN p ELSE SetPressed(p, id, s \in next)
           IN /\ q \in [Actions -> BOOLEAN]
              /\ \A a \in Actions :
                    q[a] => \/ s \in next /\ id = a
                            \/ p[a] /\ (id = a /\ s \in held => s \in next)
<1> DEFINE q == IF s \in next <=> s \in held THEN p ELSE SetPressed(p, id, s \in next)
<1>1. CASE s \in next <=> s \in held
  BY <1>1
<1>2. CASE s \in next /\ s \notin held
  <2>1. q = SetPressed(p, id, TRUE)
    <3>1. (s \in next) = TRUE
      BY <1>2
    <3>2. q = SetPressed(p, id, s \in next)
      BY <1>2
    <3> QED  BY <3>1, <3>2
  <2> HIDE DEF q
  <2>2. q \in [Actions -> BOOLEAN] /\ \A a \in Actions : q[a] = IF a = id THEN TRUE ELSE p[a]
    BY <2>1, ActionAssumption DEF SetPressed, Bound
  <2>3. \A a \in Actions : q[a] => s \in next /\ (id = a \/ p[a])
    BY <1>2, <2>2
  <2> QED  BY <2>2, <2>3 DEF q
<1>3. CASE s \notin next /\ s \in held
  <2>1. q = SetPressed(p, id, FALSE)
    <3>1. (s \in next) = FALSE
      BY <1>3
    <3>2. q = SetPressed(p, id, s \in next)
      BY <1>3
    <3> QED  BY <3>1, <3>2
  <2> HIDE DEF q
  <2>2. q \in [Actions -> BOOLEAN] /\ \A a \in Actions : q[a] = IF a = id THEN FALSE ELSE p[a]
    BY <2>1, ActionAssumption DEF SetPressed, Bound
  <2>3. \A a \in Actions : q[a] => id # a /\ p[a]
    BY <2>2
  <2> QED  BY <2>2, <2>3 DEF q
<1> QED  BY <1>1, <1>2, <1>3

LEMMA ProcessAxisHolds ==
    ASSUME IInv, NEW v \in -Full..Full, ProcessAxis(v)
    PROVE  IInv'
<1> DEFINE bound == profile.negative # NoAction \/ profile.positive # NoAction
           next == NextActive(v)
           one == IF "negative" \in next <=> "negative" \in zActive THEN pressed
                  ELSE SetPressed(pressed, profile.negative, "negative" \in next)
           two == IF "positive" \in next <=> "positive" \in zActive THEN one
                  ELSE SetPressed(one, profile.positive, "positive" \in next)
<1>1. /\ z' = v
      /\ UNCHANGED <<enabled, config, repeat, profile, dpadFirst, dpad, leftX, leftY, stick,
                     lock, mixed, out, repeating, timer, face>>
      /\ enabled /\ bound =>
            zActive' = next /\ pressed' = two /\ zeroRead' = (ReleaseAt(config, "Z") = 0)
      /\ ~(enabled /\ bound) => UNCHANGED <<zActive, zeroRead, pressed>>
  BY DEF ProcessAxis, BoundDirs, stickVars, axisVars
<1>2. pressed \in [Actions -> BOOLEAN] /\ profile \in Profiles /\ config \in Configs
      /\ zActive \subseteq {"negative", "positive"} /\ v \in Int
  BY DEF IInv, TypeOK, Configs
<1>3. profile.negative \in Bound /\ profile.positive \in Bound
  BY <1>2, ProfileAssumption DEF Profile
<1>4. next \subseteq {"negative", "positive"}
  BY DEF NextActive
<1>5. ASSUME v = 0, ReleaseAt(config, "Z") # 0 PROVE next = {}
  <2>1. ReleaseAt(config, "Z") \in 0..Full /\ PressAt(config, "Z") \in 0..Full
    BY <1>2, Thresholds DEF Axes
  <2> QED  BY <1>5, <2>1 DEF NextActive
<1> HIDE DEF next
<1>6. /\ one \in [Actions -> BOOLEAN]
      /\ \A a \in Actions : one[a] =>
            \/ "negative" \in next /\ profile.negative = a
            \/ pressed[a] /\ (profile.negative = a /\ "negative" \in zActive => "negative" \in next)
  BY <1>2, <1>3, SideStep
<1> HIDE DEF one
<1>7. /\ two \in [Actions -> BOOLEAN]
      /\ \A a \in Actions : two[a] =>
            \/ "positive" \in next /\ profile.positive = a
            \/ one[a] /\ (profile.positive = a /\ "positive" \in zActive => "positive" \in next)
  BY <1>3, <1>6, SideStep
<1> HIDE DEF two
<1>8. PressedIsHeld'
  <2>1. CASE enabled /\ bound
    BY <1>1, <1>6, <1>7, <2>1 DEF IInv, PressedIsHeld, HeldBy, HeldByAxis
  <2>2. CASE ~(enabled /\ bound)
    BY <1>1, <2>2 DEF IInv, PressedIsHeld, HeldBy, HeldByAxis
  <2> QED  BY <2>1, <2>2
<1>9. TypeOK'
  BY <1>1, <1>4, <1>7 DEF IInv, TypeOK
<1>10. RepeatsWhatIsHeld'
  BY <1>1 DEF IInv, RepeatsWhatIsHeld
<1>11. Backed' /\ Empty'
  <2>1. z' = 0 /\ ~zeroRead' => zActive' = {}
    BY <1>1, <1>5 DEF IInv, Empty, Backed
  <2> QED  BY <1>1, <2>1 DEF IInv, Backed, Empty, On
<1> QED  BY <1>8, <1>9, <1>10, <1>11 DEF IInv

LEMMA Inductive == IInv /\ [Next]_vars => IInv'
<1> SUFFICES ASSUME IInv, [Next]_vars PROVE IInv'
  OBVIOUS
<1>1. leftX \in -Full..Full /\ leftY \in -Full..Full
      /\ XValues \subseteq -Full..Full /\ YValues \subseteq -Full..Full
      /\ ZValues \subseteq -Full..Full
  BY ValueAssumption DEF IInv, TypeOK
<1>2. CASE \E on \in BOOLEAN : SetEnabled(on)
  BY <1>2, SetEnabledHolds
<1>3. CASE \E c \in Settings : Configure(c)
  BY <1>3, ConfigureHolds
<1>4. CASE \E r \in Repeats : SetRepeat(r)
  BY <1>4, SetRepeatHolds
<1>5. CASE \E p \in Profiles : ApplyActionMappingProfile(p)
  BY <1>5, ApplyHolds
<1>6. CASE \E d \in Pads, on \in BOOLEAN : ProcessDpad(d, on)
  BY <1>6, ProcessDpadHolds
<1>7. CASE ProcessFace
  BY <1>7, ProcessFaceHolds
<1>8. CASE \/ \E x \in XValues : ProcessStick(x, leftY)
           \/ \E y \in YValues : ProcessStick(leftX, y)
  BY <1>1, <1>8, ProcessStickHolds
<1>9. CASE \E v \in ZValues : ProcessAxis(v)
  BY <1>1, <1>9, ProcessAxisHolds
<1>10. CASE Timers
  BY <1>10, TickHolds DEF Timers
<1>11. CASE UNCHANGED vars
  BY <1>11 DEF vars, stickVars, outVars, inputVars, axisVars, IInv, TypeOK,
               PressedIsHeld, HeldBy, HeldByAxis, RepeatsWhatIsHeld, Backed, Empty, On
<1> QED  BY <1>2, <1>3, <1>4, <1>5, <1>6, <1>7, <1>8, <1>9, <1>10, <1>11
         DEF Next, Setters, Inputs

LEMMA Start == Init => IInv
<1> SUFFICES ASSUME Init PROVE IInv
  OBVIOUS
<1>1. TypeOK
  <2>1. config \in [deadzone : Deadzones, hysteresis : Hystereses,
                    policy : Policies, releaseOnCenter : BOOLEAN]
    BY DEF Init, Policies
  <2>2. repeat \in Repeat /\ profile \in Profiles /\ lock \in Lock
    BY ProfileAssumption DEF Init, Repeat, Lock
  <2>3. leftX \in -Full..Full /\ leftY \in -Full..Full /\ z \in -Full..Full
    BY FullAssumption DEF Init
  <2>4. out \in [Dirs -> [id : Bound, on : BOOLEAN]] /\ pressed \in [Actions -> BOOLEAN]
    BY DEF Init, Idle, Bound
  <2> QED  BY <2>1, <2>2, <2>3, <2>4 DEF Init, TypeOK
<1>2. \A d \in Dirs : ~On(d)
  BY DEF Init, Idle, On
<1>3. HeldIds(out) = {}
  BY <1>2 DEF HeldIds, On
<1> QED  BY <1>1, <1>2, <1>3
         DEF Init, IInv, PressedIsHeld, RepeatsWhatIsHeld, MayRepeat, Backed, Empty

-----------------------------------------------------------------------------
LEMMA Invariance == Spec => []IInv
<1> QED  BY Start, Inductive, PTL DEF Spec

(* The types of the mapper's state.                                        *)
THEOREM TypeCorrect == Spec => []TypeOK
<1>1. IInv => TypeOK
  BY DEF IInv
<1> QED  BY <1>1, Invariance, PTL

(* A pressed action is held by an input the profile of the moment binds to *)
(* it, the timers repeat exactly the directions that are held, and all let *)
(* go leaves nothing pressed but a side of the further axis that came back *)
(* at a threshold of 0.                                                    *)
THEOREM OutputCorrect == Spec => []OutputIsHeld
<1>1. IInv => OutputIsHeld
  <2> SUFFICES ASSUME IInv PROVE OutputIsHeld
    OBVIOUS
  <2>1. ASSUME AtRest
        PROVE  /\ \A a \in Actions : pressed[a] => zeroRead /\ HeldByAxis(a)
               /\ repeating = {} /\ timer = "off"
    <3>1. (zeroRead \/ zActive = {}) /\ ~face /\ \A d \in Dirs : ~out[d].on
      BY <2>1 DEF AtRest, IInv, Backed, On
    <3>2. repeating = {} /\ timer = "off"
      BY <3>1 DEF IInv, RepeatsWhatIsHeld, HeldIds, MayRepeat
    <3>3. \A a \in Actions : HeldBy(a) => zeroRead /\ HeldByAxis(a)
      BY <3>1 DEF HeldBy, HeldByAxis
    <3> QED  BY <3>2, <3>3 DEF IInv, PressedIsHeld
  <2> QED  BY <2>1 DEF OutputIsHeld, NothingPressedAtRest, IInv
<1> QED  BY <1>1, Invariance, PTL

-----------------------------------------------------------------------------
(* The stick.  Without a lock a stick of PreferCardinal holds nothing, and *)
(* AllowDiagonal never locks: so that a held direction is alone.           *)

OneOf(axis) == \E d \in axis : stick = {d}

Alone ==
    /\ config.policy = "AllowDiagonal" => lock = "None"
    /\ config.policy = "PreferCardinal" /\ ~mixed =>
            \/ stick = {}
            \/ lock = "Horizontal" /\ OneOf(Horizontal)
            \/ lock = "Vertical" /\ OneOf(Vertical)

(* s is what the axis of the sides neg and pos may hold at v.              *)
Good(s, v, release, press, neg, pos) ==
    s # {} => /\ Abs(v) >= release
              /\ (s = {neg} /\ v < press) \/ (s = {pos} /\ v > -press)

LEMMA PressAboveRelease ==
    ASSUME profile \in Profiles, NEW c \in Configs, NEW a \in Axes
    PROVE  ReleaseAt(c, a) <= PressAt(c, a)
<1>1. ReleaseAt(c, a) \in 0..Full
  BY Thresholds
<1>2. c.hysteresis \in 0..Full
  BY ValueAssumption DEF Configs
<1> QED  BY <1>1, <1>2, FullAssumption DEF PressAt

LEMMA AxisStep ==
    ASSUME NEW v \in Int, NEW release \in Nat, NEW press \in Nat, release <= press,
           NEW neg, NEW pos,
           NEW side, side = IF v < 0 THEN {neg} ELSE IF v > 0 THEN {pos} ELSE {},
           NEW held, held \in {{}, {neg}, {pos}},
           NEW kept, kept = Kept(held, v, release),
           NEW cand, cand = Candidates(held, v, press, side)
    PROVE  Good(Locked(kept, cand, v, press, side), v, release, press, neg, pos)
<1>1. Abs(v) >= press => Good(side, v, release, press, neg, pos)
  <2>1. CASE v < 0
    <3>1. side = {neg} /\ Abs(v) \in Int /\ v < press
      BY <2>1 DEF Abs
    <3> QED  BY <3>1 DEF Good
  <2>2. CASE v > 0
    <3>1. side = {pos} /\ Abs(v) \in Int /\ v > -press
      BY <2>2 DEF Abs
    <3> QED  BY <3>1 DEF Good
  <2>3. CASE v = 0
    BY <2>3 DEF Good
  <2> QED  BY <2>1, <2>2, <2>3
<1>2. Good(cand, v, release, press, neg, pos)
  BY <1>1 DEF Good, Candidates
<1>3. kept # {} /\ Abs(v) < press => Good(kept, v, release, press, neg, pos)
  BY DEF Good, Kept, Abs
<1>4. Abs(v) \in Int
  BY DEF Abs
<1> QED  BY <1>1, <1>2, <1>3, <1>4 DEF Locked

LEMMA StickHolds ==
    ASSUME TypeOK, Alone, NEW x \in -Full..Full, NEW y \in -Full..Full, config' \in Configs,
           UpdateFromLeftStick(config', x, y), leftX' = x, leftY' = y, profile' = profile
    PROVE  /\ Alone' /\ Cardinal'
           /\ lock = "Horizontal" /\ lock' = "Vertical" => Abs(x) <= ReleaseAt(config', "X")
           /\ lock = "Vertical" /\ lock' = "Horizontal" => Abs(y) <= ReleaseAt(config', "Y")
<1> DEFINE c == config'
           heldX == stick \cap Horizontal
           heldY == stick \cap Vertical
           keptX == Kept(heldX, x, ReleaseAt(c, "X"))
           keptY == Kept(heldY, y, ReleaseAt(c, "Y"))
           candX == Candidates(heldX, x, PressAt(c, "X"), SideX(x))
           candY == Candidates(heldY, y, PressAt(c, "Y"), SideY(y))
           byX == Locked(keptX, candX, x, PressAt(c, "X"), SideX(x))
           byY == Locked(keptY, candY, y, PressAt(c, "Y"), SideY(y))
           backX == lock = "Horizontal" /\ heldX # {} /\ keptX = {}
           backY == lock = "Vertical" /\ heldY # {} /\ keptY = {}
           free == IF c.policy # config.policy THEN "None"
                   ELSE IF backX \/ backY THEN "None" ELSE lock
           taken == IF free # "None" THEN free
                    ELSE IF candX # {} /\ (candY = {} \/ Abs(x) >= Abs(y)) THEN "Horizontal"
                    ELSE IF candY # {} THEN "Vertical" ELSE "None"
           centered == /\ c.releaseOnCenter
                       /\ Abs(x) <= ReleaseAt(c, "X") /\ Abs(y) <= ReleaseAt(c, "Y")
           diagonal == c.policy = "AllowDiagonal"
<1>1. /\ centered => stick' = {} /\ lock' = "None"
      /\ ~centered => lock' = IF diagonal THEN free ELSE taken
      /\ ~centered /\ ~diagonal =>
            stick' = CASE taken = "Horizontal" -> byX
                       [] taken = "Vertical" -> byY
                       [] OTHER -> keptX \cup keptY
      /\ mixed' = (stick' # {} /\ (mixed \/ c.policy # config.policy))
  BY DEF UpdateFromLeftStick
<1>2. c.policy \in Policies /\ config.policy \in Policies /\ lock \in Lock
      /\ mixed \in BOOLEAN /\ mixed' \in BOOLEAN
  BY <1>1 DEF TypeOK, Configs
<1>3. ASSUME stick \cap Horizontal \in {{}, {"left"}, {"right"}}
      PROVE  Good(byX, x, ReleaseAt(c, "X"), PressAt(c, "X"), "left", "right")
  <2>1. /\ ReleaseAt(c, "X") \in Nat /\ PressAt(c, "X") \in Nat
        /\ ReleaseAt(c, "X") <= PressAt(c, "X") /\ x \in Int
    BY Thresholds, PressAboveRelease DEF TypeOK, Axes
  <2> QED  BY <1>3, <2>1, AxisStep DEF SideX
<1>4. ASSUME stick \cap Vertical \in {{}, {"up"}, {"down"}}
      PROVE  Good(byY, y, ReleaseAt(c, "Y"), PressAt(c, "Y"), "up", "down")
  <2>1. /\ ReleaseAt(c, "Y") \in Nat /\ PressAt(c, "Y") \in Nat
        /\ ReleaseAt(c, "Y") <= PressAt(c, "Y") /\ y \in Int
    BY Thresholds, PressAboveRelease DEF TypeOK, Axes
  <2> QED  BY <1>4, <2>1, AxisStep DEF SideY
<1>5. /\ keptX \subseteq heldX /\ keptY \subseteq heldY
      /\ heldX # {} /\ keptX = {} => Abs(x) <= ReleaseAt(c, "X")
      /\ heldY # {} /\ keptY = {} => Abs(y) <= ReleaseAt(c, "Y")
  BY DEF Kept
<1> HIDE DEF byX, byY, keptX, keptY, candX, candY, centered
<1>6. /\ lock = "Horizontal" /\ lock' = "Vertical" => Abs(x) <= ReleaseAt(c, "X")
      /\ lock = "Vertical" /\ lock' = "Horizontal" => Abs(y) <= ReleaseAt(c, "Y")
  BY <1>1, <1>2, <1>5 DEF Alone, Policies, Lock
<1>7. c.policy = "AllowDiagonal" => lock' = "None"
  BY <1>1, <1>2 DEF Alone, Policies
<1>8. ASSUME c.policy = "PreferCardinal", ~mixed', stick' # {}
      PROVE  \/ lock' = "Horizontal" /\ stick' = byX /\ heldX \in {{}, {"left"}, {"right"}}
             \/ lock' = "Vertical" /\ stick' = byY /\ heldY \in {{}, {"up"}, {"down"}}
  <2>1. config.policy = "PreferCardinal" /\ ~mixed
    BY <1>1, <1>2, <1>8
  <2>2. /\ heldX \in {{}, {"left"}, {"right"}} /\ heldY \in {{}, {"up"}, {"down"}}
        /\ lock # "Horizontal" => heldX = {}
        /\ lock # "Vertical" => heldY = {}
    BY <2>1 DEF Alone, OneOf, Horizontal, Vertical
  <2>3. taken = "None" => keptX \cup keptY = {}
    BY <1>2, <1>5, <2>1, <2>2, <1>8 DEF Lock
  <2>4. taken \in Lock
    BY <1>2 DEF Lock
  <2> HIDE DEF taken
  <2> QED  BY <1>1, <1>8, <2>2, <2>3, <2>4 DEF Lock
<1>9. Alone'
  BY <1>3, <1>4, <1>7, <1>8 DEF Alone, OneOf, Good, Horizontal, Vertical
<1>10. Cardinal'
  <2> SUFFICES ASSUME c.policy = "PreferCardinal", ~mixed', NEW d \in stick'
               PROVE  LET axis == IF d \in Horizontal THEN "X" ELSE "Y"
                      IN /\ stick' = {d}
                         /\ Abs(Side(d))' >= ReleaseAt(c, axis)
                         /\ Side(d)' > -PressAt(c, axis)
    BY DEF Cardinal, ReleaseAt, PressAt
  <2>1. CASE stick' = byX /\ heldX \in {{}, {"left"}, {"right"}}
    <3>1. /\ stick' = {d} /\ d \in {"left", "right"} /\ Abs(x) >= ReleaseAt(c, "X")
          /\ IF d = "left" THEN x < PressAt(c, "X") ELSE x > -PressAt(c, "X")
      BY <1>3, <2>1 DEF Good
    <3>2. ReleaseAt(c, "X") \in Int /\ PressAt(c, "X") \in Int /\ x \in Int
      BY Thresholds DEF TypeOK, Axes
    <3>3. Side(d)' = IF d = "left" THEN -x ELSE x
      BY <3>1 DEF Side
    <3>4. Abs(Side(d))' = Abs(x) /\ Side(d)' > -PressAt(c, "X")
      BY <3>1, <3>2, <3>3 DEF Abs
    <3> QED  BY <3>1, <3>4 DEF Horizontal
  <2>2. CASE stick' = byY /\ heldY \in {{}, {"up"}, {"down"}}
    <3>1. /\ stick' = {d} /\ d \in {"up", "down"} /\ Abs(y) >= ReleaseAt(c, "Y")
          /\ IF d = "up" THEN y < PressAt(c, "Y") ELSE y > -PressAt(c, "Y")
      BY <1>4, <2>2 DEF Good
    <3>2. ReleaseAt(c, "Y") \in Int /\ PressAt(c, "Y") \in Int /\ y \in Int
      BY Thresholds DEF TypeOK, Axes
    <3>3. Side(d)' = IF d = "up" THEN -y ELSE y
      BY <3>1 DEF Side
    <3>4. Abs(Side(d))' = Abs(y) /\ Side(d)' > -PressAt(c, "Y")
      BY <3>1, <3>2, <3>3 DEF Abs
    <3> QED  BY <3>1, <3>4 DEF Horizontal
  <2> QED  BY <1>8, <2>1, <2>2
<1> QED  BY <1>6, <1>9, <1>10

(* A step that neither reads the stick nor resets leaves it as it is.      *)
Steady == Alone /\ Cardinal

LEMMA StickKept ==
    ASSUME Steady, UNCHANGED <<config, profile, leftX, leftY, stick, lock, mixed>>
    PROVE  Steady'
<1> QED  BY DEF Steady, Alone, OneOf, Cardinal, Side, ReleaseAt, PressAt

StickStepHolds ==
    /\ Steady'
    /\ lock = "Horizontal" /\ lock' = "Vertical" => Abs(leftX') <= ReleaseAt(config', "X")
    /\ lock = "Vertical" /\ lock' = "Horizontal" => Abs(leftY') <= ReleaseAt(config', "Y")

LEMMA StickReset ==
    ASSUME Reset
    PROVE  StickStepHolds
<1> QED  BY DEF StickStepHolds, Steady, Alone, OneOf, Cardinal, Reset

LEMMA StickInductive ==
    ASSUME IInv, Steady, [Next]_vars
    PROVE  StickStepHolds
<1>1. /\ leftX \in -Full..Full /\ leftY \in -Full..Full /\ lock \in Lock
      /\ XValues \subseteq -Full..Full /\ YValues \subseteq -Full..Full
  BY ValueAssumption DEF IInv, TypeOK
<1>2. CASE \E on \in BOOLEAN : SetEnabled(on)
  <2> PICK on \in BOOLEAN : SetEnabled(on)
    BY <1>2
  <2>1. CASE on
    BY <2>1, StickKept DEF SetEnabled, stickVars, StickStepHolds
  <2>2. CASE ~on
    BY <2>2, StickReset DEF SetEnabled
  <2> QED  BY <2>1, <2>2
<1>3. CASE \E c \in Settings : Configure(c)
  <2> PICK c \in Settings : Configure(c)
    BY <1>3
  <2>1. config' = c /\ c \in Configs /\ UNCHANGED <<leftX, leftY, profile>>
        /\ UpdateFromLeftStick(config', leftX, leftY)
    BY SettingsType DEF Configure, IInv
  <2> QED  BY <1>1, <2>1, StickHolds DEF IInv, Steady, StickStepHolds
<1>4. CASE \E p \in Profiles : ApplyActionMappingProfile(p)
  BY <1>4, StickReset DEF ApplyActionMappingProfile
<1>5. ASSUME NEW x \in -Full..Full, NEW y \in -Full..Full, ProcessStick(x, y)
      PROVE  StickStepHolds
  <2>1. config' = config /\ config \in Configs /\ leftX' = x /\ leftY' = y
        /\ profile' = profile /\ UpdateFromLeftStick(config', x, y)
    BY <1>5 DEF ProcessStick, IInv, TypeOK, Configs
  <2> QED  BY <2>1, StickHolds DEF IInv, Steady, StickStepHolds
<1>6. CASE \/ \E x \in XValues : ProcessStick(x, leftY)
           \/ \E y \in YValues : ProcessStick(leftX, y)
  BY <1>1, <1>5, <1>6
<1>7. CASE \/ \E r \in Repeats : SetRepeat(r)
           \/ \E d \in Pads, on \in BOOLEAN : ProcessDpad(d, on)
           \/ ProcessFace
           \/ \E v \in ZValues : ProcessAxis(v)
           \/ Timers
           \/ UNCHANGED vars
  <2>1. UNCHANGED <<config, profile, leftX, leftY, stick, lock, mixed>>
    BY <1>7 DEF SetRepeat, ProcessDpad, ProcessFace, ProcessAxis, Timers, DelayTimeout,
                IntervalTimeout, stickVars, vars
  <2> QED  BY <2>1, StickKept DEF StickStepHolds
<1> QED  BY <1>2, <1>3, <1>4, <1>6, <1>7 DEF Next, Setters, Inputs

(* The stick of PreferCardinal holds one direction, one it has not been    *)
(* taken back from, and its lock goes over to the other axis only when it  *)
(* was taken back on its own.                                              *)
THEOREM StickCorrect == Spec => StickIsSteady
<1>1. Init => Steady
  BY DEF Init, Steady, Alone, Cardinal
<1>2. IInv /\ Steady /\ [Next]_vars => Steady'
  BY StickInductive DEF StickStepHolds
<1>3. IInv /\ Steady /\ [Next]_vars =>
        /\ lock = "Horizontal" /\ lock' = "Vertical" => Abs(leftX') <= ReleaseAt(config', "X")
        /\ lock = "Vertical" /\ lock' = "Horizontal" => Abs(leftY') <= ReleaseAt(config', "Y")
  BY StickInductive DEF StickStepHolds
<1>4. Spec => []Steady
  BY <1>1, <1>2, Invariance, PTL DEF Spec
<1>5. Steady => Cardinal
  BY DEF Steady
<1> QED  BY <1>3, <1>4, <1>5, Invariance, PTL DEF Spec, StickIsSteady, LockHolds
=============================================================================

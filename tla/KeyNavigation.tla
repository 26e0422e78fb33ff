--------------------------- MODULE KeyNavigation ---------------------------
(***************************************************************************)
(* GamepadKeyNavigation: the actions of a gamepad become key events of the *)
(* object that has the focus, so that user interfaces need to know nothing *)
(* of gamepads.  The actions come by one of four routes: from an action    *)
(* source, here a ServiceActionRouter; from a GamepadActionRouter, which   *)
(* has a mapper that reads the Gamepad object; from the service directly;  *)
(* or from a mapper of the navigation's own that reads the Gamepad.  What  *)
(* was pressed is remembered with the object that received it.             *)
(*                                                                         *)
(* One Gamepad object, one router of each kind, everything in the main     *)
(* thread.                                                                 *)
(***************************************************************************)
CONSTANTS
    Actions, Keys, KeyOf,   \* deckGamepadQtKeyMappingForActionId
    Repeating,      \* actions of directions, which the service repeats
    Devices,
    Objects,        \* objects that may get key events
    TextInputs,     \* the ones that look like a text input
    Explicit,       \* objects that may be set as target
    NoObject,       \* null, and what is remembered of a key that is not pressed
    Gone            \* a QPointer whose object was destroyed

ASSUME KeyAssumption == KeyOf \in [Actions -> Keys] /\ Repeating \subseteq Actions
ASSUME ObjectAssumption ==
    /\ TextInputs \cup Explicit \subseteq Objects
    /\ NoObject \notin Objects /\ Gone \notin Objects /\ NoObject # Gone

VARIABLES
    active,         \* m_active
    gamepad,        \* m_gamepad is set
    actionSource,   \* m_actionSource is set, to the ServiceActionRouter
    actionRouter,   \* m_actionRouter is set, to the GamepadActionRouter
    legacy,         \* m_useLegacyMapper
    target,         \* m_target
    mapped,         \* the actions m_mapper holds pressed
    routed,         \* the actions the GamepadActionRouter's mapper holds pressed
    remembered,     \* m_pressedTargets
    live,           \* the routers that are active and whose m_gamepad is set
    deviceId,       \* Gamepad::m_deviceId
    buttons,        \* Gamepad::m_buttonStates: the buttons bound to these actions
    held,           \* actions the service's mapper of each device holds pressed
    focus,          \* the object that has the focus
    blocked,        \* the window is inactive, or the input method is visible
    down,           \* the keys each object saw pressed and not released
    detached        \* history: the ServiceActionRouter was taken off a device
                    \* whose keys are remembered still

settings == <<active, gamepad, actionSource, actionRouter, legacy, target>>
outside == <<live, deviceId, held, focus, blocked>>
vars == <<settings, mapped, routed, remembered, outside, buttons, down, detached>>

Routers == {"source", "router"}

-----------------------------------------------------------------------------
(* Where key events go, and when they are held back.                       *)

Resolve(t, f) == IF t # NoObject THEN t ELSE f
ResolveTarget == Resolve(target, focus)

ShouldSuppress(t, f) == t = NoObject \/ blocked \/ f \in TextInputs

(* The route updateSubscriptions has connected.                            *)
Route == IF ~active THEN "none"
         ELSE IF actionSource THEN "source"
         ELSE IF actionRouter THEN "router"
         ELSE IF ~gamepad THEN "none"
         ELSE IF legacy THEN "mapper" ELSE "service"

-----------------------------------------------------------------------------
(* Key events.  s has what is remembered and the keys that are down.       *)

Now == [remembered |-> remembered, down |-> down]
Nothing == [k \in Keys |-> NoObject]

(* To where the key was pressed, or to the target of now if that is gone.  *)
ReleaseAll(s, fallback) ==
    [remembered |-> Nothing,
     down |-> s.down \ {<<IF s.remembered[k] = Gone THEN fallback ELSE s.remembered[k], k>> :
                            k \in Keys}]

Press(s, t, k) ==
    [remembered |-> IF s.remembered[k] = NoObject THEN [s.remembered EXCEPT ![k] = t]
                    ELSE s.remembered,
     down |-> s.down \cup {<<t, k>>}]

(* Mutant of Release: it goes to the target of now, wherever the key went  *)
(* down.                                                                   *)
ReleaseHere(s, t, k) ==
    [remembered |-> [s.remembered EXCEPT ![k] = NoObject],
     down |-> s.down \ {<<t, k>>}]

ReleasedAt(s, t, k) == IF s.remembered[k] \in Objects THEN s.remembered[k] ELSE t

Release(s, t, k) ==
    [remembered |-> [s.remembered EXCEPT ![k] = NoObject],
     down |-> s.down \ {<<ReleasedAt(s, t, k), k>>}]

(* Mutant of Handle: nothing asks whether events are held back.            *)
HandleUnasked(s, t, f, a, on) ==
    IF on THEN Press(s, t, KeyOf[a]) ELSE Release(s, t, KeyOf[a])

(* handleAction, with the target t and focus f of the moment               *)
Handle(s, t, f, a, on) ==
    IF ShouldSuppress(t, f) THEN ReleaseAll(s, t)
    ELSE IF on THEN Press(s, t, KeyOf[a]) ELSE Release(s, t, KeyOf[a])

(* A mapper that is reset: each action it holds is handled as released, in *)
(* any order.  Of a key that two of them have the second release goes to   *)
(* t, as nothing is remembered by then.  KeyNavigationProofs shows that    *)
(* this is the loop of handleAction calls (ReleasesAreALoop).              *)
Shared(as) == {KeyOf[a] : a \in {b \in as : \E c \in as \ {b} : KeyOf[c] = KeyOf[b]}}

HandleReleases(s, t, f, as) ==
    IF as = {} THEN s
    ELSE IF ShouldSuppress(t, f) THEN ReleaseAll(s, t)
    ELSE LET keys == {KeyOf[a] : a \in as}
         IN [remembered |-> [k \in Keys |-> IF k \in keys THEN NoObject
                                            ELSE s.remembered[k]],
             down |-> s.down \ ({<<ReleasedAt(s, t, k), k>> : k \in keys}
                                  \cup {<<t, k>> : k \in Shared(as)})]

(* The end of a step, which leaves s.                                      *)
Deliver(s) ==
    /\ remembered' = s.remembered
    /\ down' = s.down

(* The ServiceActionRouter was moved in this step, or its Gamepad was:     *)
(* keys it brought may stay behind.                                        *)
Detach(moved) ==
    detached' = (remembered' # Nothing /\ (detached \/ (moved /\ Route = "source")))

-----------------------------------------------------------------------------
(* The setters.                                                            *)

(* updateSubscriptions, after s: a mapper that is switched off releases    *)
(* what it holds, and without a route everything is released.              *)
UpdateSubscriptions(s) ==
    LET t == Resolve(target', focus)
        lost == IF Route' = "mapper" THEN {} ELSE mapped
        r == IF active' THEN HandleReleases(s, t, focus, lost) ELSE s
    IN /\ mapped' = mapped \ lost
       /\ Deliver(IF Route' = "none" THEN ReleaseAll(r, t) ELSE r)
       /\ Detach(FALSE)
       /\ UNCHANGED <<routed, outside, buttons>>

SetActive(on) ==
    /\ active # on
    /\ active' = on
    /\ UNCHANGED <<gamepad, actionSource, actionRouter, legacy, target>>
    /\ UpdateSubscriptions(Now)

SetGamepad(on) ==
    /\ gamepad # on
    /\ gamepad' = on
    /\ UNCHANGED <<active, actionSource, actionRouter, legacy, target>>
    /\ UpdateSubscriptions(ReleaseAll(Now, ResolveTarget))

SetActionSource(on) ==
    /\ actionSource # on
    /\ actionSource' = on
    /\ UNCHANGED <<active, gamepad, actionRouter, legacy, target>>
    /\ UpdateSubscriptions(ReleaseAll(Now, ResolveTarget))

SetActionRouter(on) ==
    /\ actionRouter # on
    /\ actionRouter' = on
    /\ UNCHANGED <<active, gamepad, actionSource, legacy, target>>
    /\ UpdateSubscriptions(ReleaseAll(Now, ResolveTarget))

SetUseLegacyMapper(on) ==
    /\ legacy # on
    /\ legacy' = on
    /\ UNCHANGED <<active, gamepad, actionSource, actionRouter, target>>
    /\ UpdateSubscriptions(ReleaseAll(Now, ResolveTarget))

SetTarget(o) ==
    /\ target # o
    /\ target' = o
    /\ UNCHANGED <<active, gamepad, actionSource, actionRouter, legacy>>
    /\ UpdateSubscriptions(ReleaseAll(Now, ResolveTarget))

-----------------------------------------------------------------------------
(* The gamepad.                                                            *)

(* The actions of device d reach the navigation through the service.       *)
Hears(d) ==
    /\ d = deviceId
    /\ \/ Route = "service"
       \/ Route = "source" /\ "source" \in live

(* Nobody connected: a handler of the Gamepad's signals does nothing.      *)
GamepadConnected == active /\ gamepad

(* The GamepadActionRouter's mapper is reset.                              *)
RouterReleases(s) ==
    IF Route = "router" THEN HandleReleases(s, ResolveTarget, focus, routed) ELSE s

GamepadReleases(s) == IF GamepadConnected THEN ReleaseAll(s, ResolveTarget) ELSE s

(* Both hear of the Gamepad, the one first that connected first.           *)
Released(s) == {GamepadReleases(RouterReleases(s)), RouterReleases(GamepadReleases(s))}

(* The actions a mapper holds after one of them changed                    *)
Toggled(as, a, on) == IF on THEN as \cup {a} ELSE as \ {a}

(* A button, or the hat, of a device.  The Gamepad passes on what changes  *)
(* its own state, a mapper what changes its own.                           *)
Button(d, a) ==
    LET on == a \notin held[d]
        passed == d = deviceId /\ (a \in buttons) # on
        toMapper == passed /\ Route = "mapper" /\ (a \in mapped) # on
        toRouter == passed /\ "router" \in live /\ (a \in routed) # on
    IN /\ held' = [held EXCEPT ![d] = Toggled(@, a, on)]
       /\ buttons' = IF d = deviceId THEN Toggled(buttons, a, on) ELSE buttons
       /\ mapped' = IF toMapper THEN Toggled(mapped, a, on) ELSE mapped
       /\ routed' = IF toRouter THEN Toggled(routed, a, on) ELSE routed
       /\ Deliver(IF Hears(d) \/ toMapper \/ (toRouter /\ Route = "router")
                  THEN Handle(Now, ResolveTarget, focus, a, on) ELSE Now)
       /\ Detach(FALSE)
       /\ UNCHANGED <<settings, live, deviceId, focus, blocked>>

Repeat(a) ==
    /\ a \in Repeating
    /\ \/ a \in held[deviceId] /\ Hears(deviceId)
       \/ a \in routed /\ Route = "router"
    /\ Deliver(Handle(Now, ResolveTarget, focus, a, TRUE))
    /\ Detach(FALSE)
    /\ UNCHANGED <<settings, mapped, routed, outside, buttons>>

(* The service resets the mapper of the device, then the Gamepad says that *)
(* it is not connected, and forgets its state without a signal.            *)
Disconnect(d) ==
    LET s == IF Hears(d) THEN HandleReleases(Now, ResolveTarget, focus, held[d])
             ELSE Now
    IN /\ held[d] # {}
       /\ held' = [held EXCEPT ![d] = {}]
       /\ buttons' = IF d = deviceId THEN {} ELSE buttons
       /\ routed' = IF d = deviceId THEN {} ELSE routed
       /\ \E r \in IF d = deviceId THEN Released(s) ELSE {s} : Deliver(r)
       /\ Detach(FALSE)
       /\ UNCHANGED <<settings, mapped, live, deviceId, focus, blocked>>

(* Gamepad::setDeviceId                                                    *)
SetDeviceId(d) ==
    /\ deviceId # d
    /\ deviceId' = d
    /\ buttons' = {} /\ routed' = {}
    /\ \E r \in Released(Now) : Deliver(r)
    /\ Detach(TRUE)
    /\ UNCHANGED <<settings, mapped, live, held, focus, blocked>>

(* An inactive navigation or router has no connection and would keep the   *)
(* pointer: left out.                                                      *)
GamepadDestroyed ==
    /\ gamepad \/ live # {}
    /\ gamepad => active
    /\ gamepad' = FALSE
    /\ live' = {}
    /\ buttons' = {} /\ routed' = {}
    /\ UNCHANGED <<active, actionSource, actionRouter, legacy, target, deviceId, held,
                   focus, blocked>>
    /\ LET t == ResolveTarget
           lost == IF Route' = "mapper" THEN {} ELSE mapped
       IN /\ mapped' = mapped \ lost
          /\ \E s \in Released(Now) :
                LET r == HandleReleases(s, t, focus, lost)
                IN Deliver(IF gamepad /\ Route' = "none" THEN ReleaseAll(r, t) ELSE r)
    /\ Detach(TRUE)

(* GamepadManager::activeBackendChanged                                    *)
BackendChanged ==
    /\ Route # "none"
    /\ Deliver(ReleaseAll(Now, ResolveTarget))
    /\ Detach(FALSE)
    /\ UNCHANGED <<settings, mapped, routed, outside, buttons>>

-----------------------------------------------------------------------------
(* The routers, as they are activated and given the Gamepad.               *)

(* ServiceActionRouter forwards what the device of its Gamepad does and    *)
(* keeps nothing of it.                                                    *)
SetServiceActionRouter(on) ==
    /\ on # ("source" \in live)
    /\ live' = IF on THEN live \cup {"source"} ELSE live \ {"source"}
    /\ UNCHANGED <<remembered, down>>
    /\ Detach(TRUE)
    /\ UNCHANGED <<settings, mapped, routed, deviceId, held, focus, blocked, buttons>>

(* GamepadActionRouter resets its mapper when it stops.                    *)
SetGamepadActionRouter(on) ==
    /\ on # ("router" \in live)
    /\ live' = IF on THEN live \cup {"router"} ELSE live \ {"router"}
    /\ routed' = {}
    /\ Deliver(RouterReleases(Now))
    /\ Detach(FALSE)
    /\ UNCHANGED <<settings, mapped, deviceId, held, focus, blocked, buttons>>

(* The router of the route is destroyed: its mapper says nothing more.  Of *)
(* the one that is not on the route nobody hears, and the pointer would be *)
(* kept: left out.                                                         *)
RouterDestroyed ==
    /\ Route \in Routers
    /\ actionSource' = FALSE
    /\ actionRouter' = (actionRouter /\ Route # "router")
    /\ live' = live \ {Route}
    /\ routed' = IF Route = "router" THEN {} ELSE routed
    /\ UNCHANGED <<active, gamepad, legacy, target>>
    /\ LET s == ReleaseAll(Now, ResolveTarget)
       IN Deliver(IF Route' = "none" THEN ReleaseAll(s, ResolveTarget) ELSE s)
    /\ Detach(TRUE)
    /\ UNCHANGED <<mapped, deviceId, held, focus, blocked, buttons>>

-----------------------------------------------------------------------------
(* Focus.                                                                  *)

(* Mutant of FocusMoves: pressed keys are kept until the next action.      *)
FocusMovesUnseen(s, t, o) ==
    /\ focus' = o
    /\ Deliver(s)
    /\ Detach(FALSE)

(* The handler of focusObjectChanged and focusWindowChanged, s before it   *)
FocusMoves(s, t, o) ==
    /\ focus' = o
    /\ Deliver(IF ShouldSuppress(Resolve(t, o), o) THEN ReleaseAll(s, Resolve(t, o)) ELSE s)
    /\ Detach(FALSE)

FocusChanged(o) ==
    /\ focus # o
    /\ FocusMoves(Now, target, o)
    /\ UNCHANGED <<settings, mapped, routed, live, deviceId, held, blocked, buttons>>

(* The input method shows or hides, or the window becomes inactive: no     *)
(* handler, the next action finds it.                                      *)
Block ==
    /\ blocked' = ~blocked
    /\ UNCHANGED <<settings, mapped, routed, remembered, live, deviceId, held, focus,
                   buttons, down, detached>>

(* An object is destroyed; another one may come in its place.              *)
ObjectDestroyed(o) ==
    LET s == [remembered |-> [k \in Keys |-> IF remembered[k] = o THEN Gone
                                             ELSE remembered[k]],
              down |-> {p \in down : p[1] # o}]
        t == IF target = o THEN NoObject ELSE target
    IN /\ o \in {target, focus} \cup {remembered[k] : k \in Keys} \cup {p[1] : p \in down}
       /\ target' = t
       /\ IF focus = o THEN FocusMoves(s, t, NoObject)
          ELSE Deliver(s) /\ Detach(FALSE) /\ UNCHANGED focus
       /\ UNCHANGED <<active, gamepad, actionSource, actionRouter, legacy, mapped, routed,
                      live, deviceId, held, blocked, buttons>>

-----------------------------------------------------------------------------
Init ==
    /\ active = FALSE /\ gamepad = FALSE /\ legacy = FALSE
    /\ actionSource = FALSE /\ actionRouter = FALSE
    /\ target = NoObject
    /\ mapped = {} /\ routed = {} /\ remembered = Nothing
    /\ live = {}
    /\ deviceId \in Devices /\ buttons = {}
    /\ held = [d \in Devices |-> {}]
    /\ focus = NoObject /\ blocked = FALSE
    /\ down = {} /\ detached = FALSE

Setters ==
    \/ \E on \in BOOLEAN : \/ SetActive(on) \/ SetGamepad(on)
                           \/ SetActionSource(on) \/ SetActionRouter(on)
                           \/ SetUseLegacyMapper(on)
                           \/ SetServiceActionRouter(on) \/ SetGamepadActionRouter(on)
    \/ \E o \in Explicit \cup {NoObject} : SetTarget(o)
    \/ \E d \in Devices : SetDeviceId(d)

Next ==
    \/ Setters
    \/ \E d \in Devices, a \in Actions : Button(d, a)
    \/ \E a \in Actions : Repeat(a)
    \/ \E d \in Devices : Disconnect(d)
    \/ GamepadDestroyed \/ BackendChanged \/ RouterDestroyed
    \/ \E o \in Objects \cup {NoObject} : FocusChanged(o)
    \/ \E o \in Objects : ObjectDestroyed(o)
    \/ Block

Spec == Init /\ [][Next]_vars

-----------------------------------------------------------------------------
(* Properties.                                                             *)

TypeOK ==
    /\ active \in BOOLEAN /\ gamepad \in BOOLEAN
    /\ actionSource \in BOOLEAN /\ actionRouter \in BOOLEAN
    /\ legacy \in BOOLEAN /\ target \in Explicit \cup {NoObject}
    /\ mapped \subseteq Actions /\ routed \subseteq Actions
    /\ remembered \in [Keys -> Objects \cup {NoObject, Gone}]
    /\ live \subseteq Routers
    /\ deviceId \in Devices /\ buttons \subseteq Actions
    /\ held \in [Devices -> SUBSET Actions]
    /\ focus \in Objects \cup {NoObject} /\ blocked \in BOOLEAN
    /\ down \subseteq Objects \X Keys
    /\ detached \in BOOLEAN

(* What is remembered of a key is an object that saw it pressed; nothing   *)
(* is remembered without a route, and nothing once a text input has the    *)
(* focus, which would otherwise get keys meant for navigation.             *)
RememberedIsDown ==
    /\ \A k \in Keys : remembered[k] \in Objects => <<remembered[k], k>> \in down
    /\ Route = "none" \/ focus \in TextInputs => remembered = Nothing

(* A key is remembered only while the device or mapper of the route holds  *)
(* an action of it, through changes of route, gamepad and device: whatever *)
(* made it go down will make it go up.  A ServiceActionRouter that is      *)
(* taken off its device is the exception.                                  *)
Holding == CASE Route = "mapper" -> mapped
             [] Route = "router" -> routed
             [] OTHER -> held[deviceId]

RememberedIsHeld ==
    \A k \in Keys : remembered[k] # NoObject /\ ~detached =>
        \E a \in Holding : KeyOf[a] = k

RememberedIsReal == RememberedIsDown /\ RememberedIsHeld

(* What is no longer remembered came up where it went down, however the    *)
(* focus moved in between; and what goes down at an object is remembered,  *)
(* unless the key is already for another one.                              *)
NoStuckKey ==
    [][ /\ \A k \in Keys :
             remembered[k] \in Objects /\ remembered'[k] # remembered[k] =>
                 <<remembered[k], k>> \notin down'
        /\ \A o \in Objects, k \in Keys :
             <<o, k>> \in down' \ down =>
                 remembered'[k] = o \/ remembered[k] # NoObject ]_vars

(* Every key that is down is remembered: "when [focus or input method]     *)
(* change, pressed keys are released, so that no key gets stuck".          *)
KeysComeUp == \A p \in down : remembered[p[2]] # NoObject
=============================================================================

--------------------------- MODULE ExtSessionLock ---------------------------
(***************************************************************************)
(* The screen lock of the default build (DISABLE_DDM, EXT_SESSION_LOCK_V1):*)
(* LockScreen without a greeter, driven by clients of ext_session_lock_v1. *)
(* Helper::onExtSessionLock takes a lock and, after a grace time in which  *)
(* the client may draw, tells it that the session is locked; every output  *)
(* shows the client's lock surface or a plain fallback item.  Around it:   *)
(* outputs plugged and unplugged, clients that unlock, give up or die, and *)
(* the two overlays that share Helper::m_currentMode with the lock.        *)
(*                                                                         *)
(* One Qt event loop: an action is one event handler with all it calls.    *)
(* Signals of the WSessionLock (waylib) are external: its surfaces are     *)
(* removed before it ends, and it ends once.                               *)
(***************************************************************************)
EXTENDS Naturals, FiniteSets

CONSTANTS
    Locks,          \* the WSessionLock objects clients may create
    NoLock,         \* nullptr where a WSessionLock * is expected
    Outputs,        \* the output items that may be plugged in
    Uses            \* the optional interactions this instance explores

ASSUME LocksAssumption == NoLock \notin Locks
ASSUME UsesAssumption == Uses \subseteq {"Multitaskview"}

VARIABLES
    sessionLock,    \* LockScreen::m_sessionLock
    externalLockActive, \* LockScreen::m_externalLockActive
    shown,          \* LockScreen::isVisible()
    outputs,        \* the keys of m_lockSurfaces: the outputs plugged in
    lockSurface,    \* m_lockSurfaces: the lock each output's surface is of
    fallback,       \* the outputs with a fallback item
    graceFor,       \* the lock m_lockScreenGraceTimer runs for, or NoLock
    lockState,      \* what each lock's client has been told
    mode,           \* Helper::m_currentMode
    workspaceShown, \* Helper::setWorkspaceVisible
    taskSwitch,     \* Helper::m_taskSwitch exists
    multitask       \* the multitask view: "none", "active" or "exited"

lockVars == <<sessionLock, externalLockActive, shown, lockState>>
coverVars == <<outputs, lockSurface, fallback>>
deskVars == <<mode, workspaceShown, taskSwitch, multitask>>
vars == <<lockVars, coverVars, graceFor, deskVars>>

States == {"new", "waiting", "locked", "finished",
           "unlocked", "canceled", "abandoned"}
Modes == {"Normal", "LockScreen", "WindowSwitch", "Multitaskview"}

(* Mutant: only the outputs present at the start are entered in the map    *)
InitPluggedOnly ==
    /\ sessionLock = NoLock
    /\ externalLockActive = FALSE
    /\ shown = FALSE
    /\ outputs \in SUBSET Outputs
    /\ lockSurface = [o \in outputs |-> NoLock]
    /\ fallback = {}
    /\ graceFor = NoLock
    /\ lockState = [l \in Locks |-> "new"]
    /\ mode = "Normal"
    /\ workspaceShown = TRUE
    /\ taskSwitch = FALSE
    /\ multitask = "none"

Init ==
    /\ sessionLock = NoLock
    /\ externalLockActive = FALSE
    /\ shown = FALSE
    /\ outputs \in SUBSET Outputs
    /\ lockSurface = [o \in Outputs |-> NoLock]
    /\ fallback = {}
    /\ graceFor = NoLock
    /\ lockState = [l \in Locks |-> "new"]
    /\ mode = "Normal"
    /\ workspaceShown = TRUE
    /\ taskSwitch = FALSE
    /\ multitask = "none"

-----------------------------------------------------------------------------
(* Taking the lock.                                                        *)

CanAcceptExternalLock ==
    sessionLock = NoLock /\ (shown => externalLockActive)

(* LockScreen::onExternalLock                                              *)
OnExternalLock(l) ==
    /\ sessionLock' = l
    /\ externalLockActive' = TRUE
    /\ shown' = TRUE
    /\ fallback' = fallback \cup {o \in outputs : lockSurface[o] = NoLock}
    /\ UNCHANGED <<outputs, lockSurface>>

(* Mutant: the task switcher survives the lock                             *)
CloseMultitaskOnly ==
    /\ mode' = IF multitask # "none" THEN "Normal" ELSE "LockScreen"
    /\ multitask' = "none"
    /\ UNCHANGED taskSwitch

(* setCurrentMode(LockScreen), then immediatelyExit - which sets the mode  *)
(* to Normal where there is a multitask view - then deleteTaskSwitch.      *)
CloseOverlays ==
    /\ mode' = IF multitask # "none" THEN "Normal" ELSE "LockScreen"
    /\ multitask' = "none"
    /\ taskSwitch' = FALSE

OnExtSessionLock(l) ==
    /\ lockState[l] = "new"
    /\ IF CanAcceptExternalLock
       THEN /\ OnExternalLock(l)
            /\ CloseOverlays
            /\ workspaceShown' = FALSE
            /\ graceFor' = l
            /\ lockState' = [lockState EXCEPT ![l] = "waiting"]
       ELSE /\ lockState' = [lockState EXCEPT ![l] = "finished"]
            /\ UNCHANGED <<sessionLock, externalLockActive, shown, coverVars,
                           graceFor, deskVars>>

GraceTimeout ==
    /\ graceFor # NoLock
    /\ lockState' = [lockState EXCEPT ![graceFor] = "locked"]
    /\ graceFor' = NoLock
    /\ UNCHANGED <<sessionLock, externalLockActive, shown, coverVars, deskVars>>

-----------------------------------------------------------------------------
(* Lock surfaces and outputs.                                              *)

OnLockSurfaceAdded(l, o) ==
    /\ lockState[l] \in {"waiting", "locked"}
    /\ o \in outputs
    /\ lockSurface[o] # l           \* a second one is a protocol error
    /\ sessionLock # NoLock
    /\ fallback' = fallback \ {o}
    /\ lockSurface' = [lockSurface EXCEPT ![o] = l]
    /\ UNCHANGED <<lockVars, outputs, graceFor, deskVars>>

(* Mutant: the output of a removed surface is left bare                    *)
SurfaceRemovedBare(o) ==
    /\ lockSurface[o] # NoLock
    /\ sessionLock # NoLock
    /\ lockSurface' = [lockSurface EXCEPT ![o] = NoLock]
    /\ UNCHANGED <<lockVars, outputs, fallback, graceFor, deskVars>>

OnLockSurfaceRemoved(o) ==
    /\ lockSurface[o] # NoLock
    /\ sessionLock # NoLock
    /\ lockSurface' = [lockSurface EXCEPT ![o] = NoLock]
    /\ fallback' = IF shown THEN fallback \cup {o} ELSE fallback
    /\ UNCHANGED <<lockVars, outputs, graceFor, deskVars>>

(* A new item each time: the one of an unplugged output is deleted.        *)
AddOutput(o) ==
    /\ o \notin outputs
    /\ outputs' = outputs \cup {o}
    /\ lockSurface' = [lockSurface EXCEPT ![o] = NoLock]
    /\ fallback' = IF externalLockActive THEN fallback \cup {o} ELSE fallback
    /\ UNCHANGED <<lockVars, graceFor, deskVars>>

RemoveOutput(o) ==
    /\ o \in outputs
    /\ outputs' = outputs \ {o}
    /\ lockSurface' = [lockSurface EXCEPT ![o] = NoLock]
    /\ fallback' = fallback \ {o}
    /\ UNCHANGED <<lockVars, graceFor, deskVars>>

-----------------------------------------------------------------------------
(* The end of a lock.                                                      *)

(* The slot of LockScreen::unlock: the desktop is back.                    *)
UnlockHandler ==
    /\ mode' = "Normal"
    /\ workspaceShown' = TRUE
    /\ UNCHANGED <<taskSwitch, multitask>>

OnExternalUnlock ==
    IF sessionLock = NoLock \/ ~shown
    THEN UNCHANGED <<sessionLock, externalLockActive, shown, coverVars, deskVars>>
    ELSE /\ shown' = FALSE
         /\ lockSurface' = [o \in Outputs |-> NoLock]
         /\ fallback' = {}
         /\ sessionLock' = NoLock
         /\ externalLockActive' = FALSE
         /\ UNCHANGED outputs
         /\ UnlockHandler

(* WSessionLock::unlocked                                                  *)
Unlocked(l) ==
    /\ lockState[l] = "locked"
    /\ lockState' = [lockState EXCEPT ![l] = "unlocked"]
    /\ OnExternalUnlock
    /\ UNCHANGED graceFor

(* Mutant: the grace time of a lock that is gone runs on                   *)
CanceledStillTimed(l) ==
    /\ lockState[l] = "waiting"
    /\ lockState' = [lockState EXCEPT ![l] = "canceled"]
    /\ OnExternalUnlock
    /\ UNCHANGED graceFor

(* WSessionLock::canceled: the client gives the lock up, or goes away,     *)
(* before it was told that it holds it.  Its surfaces are removed first,   *)
(* which leaves fallback items that onExternalUnlock clears.               *)
Canceled(l) ==
    /\ lockState[l] = "waiting"
    /\ lockState' = [lockState EXCEPT ![l] = "canceled"]
    /\ OnExternalUnlock
    /\ graceFor' = NoLock

(* LockScreen::onExternalLockAbandoned without a greeter                   *)
OnExternalLockAbandoned ==
    IF sessionLock = NoLock \/ ~externalLockActive \/ ~shown
    THEN UNCHANGED <<sessionLock, lockSurface, fallback>>
    ELSE /\ sessionLock' = NoLock
         /\ lockSurface' = [o \in Outputs |-> NoLock]
         /\ fallback' = outputs

(* Mutant: a client that dies unlocks, as one that gives the lock up       *)
AbandonedUnlocks(l) ==
    /\ lockState[l] \in {"waiting", "locked"}
    /\ lockState' = [lockState EXCEPT ![l] = "abandoned"]
    /\ OnExternalUnlock
    /\ graceFor' = NoLock

(* WSessionLock::abandoned: the client died.  The handler stops the grace  *)
(* timer, so it may come before the client was told.                       *)
Abandoned(l) ==
    /\ lockState[l] \in {"waiting", "locked"}
    /\ lockState' = [lockState EXCEPT ![l] = "abandoned"]
    /\ OnExternalLockAbandoned
    /\ graceFor' = NoLock
    /\ UNCHANGED <<externalLockActive, shown, outputs, deskVars>>

-----------------------------------------------------------------------------
(* The overlays.                                                           *)

otherVars == <<lockVars, coverVars, graceFor, workspaceShown>>

(* ShortcutRunner::taskswitchAction                                        *)
TaskSwitchNext ==
    /\ mode \in {"Normal", "WindowSwitch"}
    /\ taskSwitch' = TRUE
    /\ mode' = "WindowSwitch"
    /\ UNCHANGED <<otherVars, multitask>>

(* Alt or Meta released: the switcher starts to fade.                      *)
TaskSwitchExit ==
    /\ taskSwitch
    /\ mode' = "Normal"
    /\ UNCHANGED <<otherVars, taskSwitch, multitask>>

(* switchOnChanged: it has faded, or a window was clicked.                 *)
TaskSwitchOff ==
    /\ taskSwitch
    /\ taskSwitch' = FALSE
    /\ UNCHANGED <<otherVars, mode, multitask>>

EnterMultitaskview == multitask' = "active" /\ mode' = "Multitaskview"
ExitMultitaskview == multitask' = "exited" /\ mode' = "Normal"

(* The shortcut and the request of the DDE shell, which asks no mode.      *)
ToggleMultitaskview ==
    /\ "Multitaskview" \in Uses
    /\ IF multitask = "active" THEN ExitMultitaskview ELSE EnterMultitaskview
    /\ UNCHANGED <<otherVars, taskSwitch>>

(* Fingers lifted at the end of an opening or of a closing gesture.        *)
FinishMultitaskGesture(opens) ==
    /\ "Multitaskview" \in Uses
    /\ IF opens \/ multitask = "none" THEN EnterMultitaskview ELSE ExitMultitaskview
    /\ UNCHANGED <<otherVars, taskSwitch>>

MultitaskviewGone ==
    /\ multitask = "exited"
    /\ multitask' = "none"
    /\ UNCHANGED <<otherVars, mode, taskSwitch>>

-----------------------------------------------------------------------------
Overlay ==
    \/ TaskSwitchNext \/ TaskSwitchExit \/ TaskSwitchOff
    \/ ToggleMultitaskview \/ MultitaskviewGone
    \/ \E opens \in BOOLEAN : FinishMultitaskGesture(opens)

Next ==
    \/ \E l \in Locks : \/ OnExtSessionLock(l)
                        \/ Unlocked(l) \/ Canceled(l) \/ Abandoned(l)
                        \/ \E o \in Outputs : OnLockSurfaceAdded(l, o)
    \/ \E o \in Outputs : \/ OnLockSurfaceRemoved(o)
                          \/ AddOutput(o) \/ RemoveOutput(o)
    \/ GraceTimeout
    \/ Overlay

(* A running QTimer fires.  Nothing is assumed of clients or users.        *)
Fairness == WF_vars(GraceTimeout)

Spec == Init /\ [][Next]_vars /\ Fairness

-----------------------------------------------------------------------------
(* Properties.                                                             *)

TypeOK ==
    /\ sessionLock \in Locks \cup {NoLock}
    /\ externalLockActive \in BOOLEAN
    /\ shown \in BOOLEAN
    /\ outputs \subseteq Outputs
    /\ lockSurface \in [Outputs -> Locks \cup {NoLock}]
    /\ fallback \subseteq Outputs
    /\ graceFor \in Locks \cup {NoLock}
    /\ lockState \in [Locks -> States]
    /\ mode \in Modes
    /\ workspaceShown \in BOOLEAN
    /\ taskSwitch \in BOOLEAN
    /\ multitask \in {"none", "active", "exited"}

Covered(o) == (lockSurface[o] # NoLock) # (o \in fallback)

(* While the screen is locked every output shows exactly one of a lock     *)
(* surface and a fallback item, whatever is plugged, drawn, withdrawn or   *)
(* dies meanwhile; while it is not, and for outputs that are gone, neither *)
(* is kept (LockScreen::m_lockSurfaces, m_fallbackItems).                  *)
OutputsCovered ==
    \A o \in Outputs :
        IF shown /\ o \in outputs THEN Covered(o)
        ELSE lockSurface[o] = NoLock /\ o \notin fallback

(* The grace timer runs only for the lock that is held and has not been    *)
(* told: it never calls lock() on a WSessionLock that is gone.             *)
GraceIsCurrent ==
    graceFor # NoLock => graceFor = sessionLock /\ lockState[graceFor] = "waiting"

(* Locked and the mode that keeps shortcuts and the task switcher off go   *)
(* together: the mode is never LockScreen on an open desktop, and only the *)
(* multitask view takes it off a locked one (onExtSessionLock sets it      *)
(* before immediatelyExit, which sets it back, and a gesture may end       *)
(* later); a fading task switcher does not.                                *)
LockHoldsMode ==
    [][/\ mode' = "LockScreen" => shown'
       /\ (shown => mode = "LockScreen") /\ multitask = "none" /\ multitask' = "none"
          => (shown' => mode' = "LockScreen")]_vars

(* The lock keeps the promise of ext_session_lock_v1: to be closed is to   *)
(* have the workspace hidden and every output covered.                     *)
Closed == shown /\ ~workspaceShown /\ \A o \in outputs : Covered(o)

Promise == INSTANCE SessionLockPromise WITH
    holder <- sessionLock, closed <- Closed, told <- lockState

KeepsPromise == Promise!Spec
=============================================================================

------------------------ MODULE ExtSessionLockProofs ------------------------
(***************************************************************************)
(* What ExtSessionLock's runs show on three locks and two outputs, proved  *)
(* for any of them.  The invariants are not inductive alone: that outputs  *)
(* are covered needs that only the lock that is held has surfaces, and     *)
(* that is held only while the screen is shown (Held).                     *)
(***************************************************************************)
EXTENDS ExtSessionLock, TLAPS

(* Who is told, who has surfaces and who holds the lock agree, and the     *)
(* desktop is hidden while the lock screen is shown.                       *)
Held ==
    /\ shown = externalLockActive
    /\ shown => ~workspaceShown
    /\ sessionLock # NoLock => /\ shown
                               /\ lockState[sessionLock] \in {"waiting", "locked"}
    /\ \A l \in Locks : lockState[l] \in {"waiting", "locked"} => l = sessionLock
    /\ \A o \in Outputs : lockSurface[o] # NoLock => lockSurface[o] = sessionLock

IInv == TypeOK /\ OutputsCovered /\ GraceIsCurrent /\ Held

(* At the start nothing is locked and nothing is kept.                     *)
LEMMA InitHolds == Init => IInv
<1>1. Init => TypeOK
  BY DEF Init, TypeOK, States, Modes
<1>2. Init => OutputsCovered /\ GraceIsCurrent /\ Held
  BY DEF Init, OutputsCovered, GraceIsCurrent, Held
<1> QED  BY <1>1, <1>2 DEF IInv

(* Taking or refusing a lock keeps the invariant.                          *)
LEMMA TakeKeeps ==
    ASSUME IInv, NEW l \in Locks, OnExtSessionLock(l)
    PROVE  IInv'
<1> USE LocksAssumption DEF IInv
<1>1. CASE CanAcceptExternalLock
  <2>1. /\ sessionLock' = l /\ externalLockActive' = TRUE /\ shown' = TRUE
        /\ fallback' = fallback \cup {o \in outputs : lockSurface[o] = NoLock}
        /\ UNCHANGED <<outputs, lockSurface>>
        /\ mode' \in Modes /\ multitask' = "none" /\ taskSwitch' = FALSE
        /\ workspaceShown' = FALSE /\ graceFor' = l
        /\ lockState' = [lockState EXCEPT ![l] = "waiting"]
    BY <1>1 DEF OnExtSessionLock, OnExternalLock, CloseOverlays, Modes
  <2>2. sessionLock = NoLock
    BY <1>1 DEF CanAcceptExternalLock
  <2>3. TypeOK'
    BY <2>1 DEF TypeOK, States
  <2>4. \A o \in Outputs : lockSurface[o] = NoLock
    BY <2>2 DEF Held
  <2>5. OutputsCovered'
    BY <2>1, <2>4 DEF OutputsCovered, Covered, TypeOK
  <2>6. GraceIsCurrent'
    BY <2>1 DEF GraceIsCurrent, TypeOK
  <2>7. Held'
    BY <2>1, <2>2, <2>4 DEF Held, TypeOK
  <2> QED  BY <2>3, <2>5, <2>6, <2>7
<1>2. CASE ~CanAcceptExternalLock
  <2>1. /\ lockState[l] = "new"
        /\ lockState' = [lockState EXCEPT ![l] = "finished"]
        /\ UNCHANGED <<sessionLock, externalLockActive, shown, outputs, lockSurface,
                       fallback, graceFor, mode, workspaceShown, taskSwitch, multitask>>
    BY <1>2 DEF OnExtSessionLock, coverVars, deskVars
  <2>2. TypeOK' /\ OutputsCovered'
    BY <2>1 DEF TypeOK, States, OutputsCovered, Covered
  <2>3. GraceIsCurrent' /\ Held'
    BY <2>1 DEF GraceIsCurrent, Held, TypeOK
  <2> QED  BY <2>2, <2>3
<1> QED  BY <1>1, <1>2

(* The grace timer tells the lock it runs for, which is the one held.      *)
LEMMA GraceKeeps ==
    ASSUME IInv, GraceTimeout
    PROVE  IInv'
<1> USE LocksAssumption DEF IInv
<1>1. /\ graceFor # NoLock /\ graceFor \in Locks /\ graceFor' = NoLock
      /\ lockState' = [lockState EXCEPT ![graceFor] = "locked"]
      /\ UNCHANGED <<sessionLock, externalLockActive, shown, outputs, lockSurface,
                     fallback, mode, workspaceShown, taskSwitch, multitask>>
  BY DEF GraceTimeout, coverVars, deskVars, TypeOK
<1>2. TypeOK' /\ OutputsCovered' /\ GraceIsCurrent'
  BY <1>1 DEF TypeOK, States, OutputsCovered, Covered, GraceIsCurrent
<1>3. Held'
  BY <1>1 DEF Held, GraceIsCurrent, TypeOK
<1> QED  BY <1>2, <1>3

(* Drawing and withdrawing a lock surface swaps it with the fallback item. *)
LEMMA SurfaceKeeps ==
    ASSUME IInv, NEW o \in Outputs,
           (\E l \in Locks : OnLockSurfaceAdded(l, o)) \/ OnLockSurfaceRemoved(o)
    PROVE  IInv'
<1> USE LocksAssumption DEF IInv
<1>1. ASSUME NEW l \in Locks, OnLockSurfaceAdded(l, o)
      PROVE  IInv'
  <2>1. /\ lockState[l] \in {"waiting", "locked"} /\ o \in outputs
        /\ sessionLock # NoLock
        /\ fallback' = fallback \ {o}
        /\ lockSurface' = [lockSurface EXCEPT ![o] = l]
        /\ UNCHANGED <<sessionLock, externalLockActive, shown, lockState, outputs,
                       graceFor, mode, workspaceShown, taskSwitch, multitask>>
    BY <1>1 DEF OnLockSurfaceAdded, lockVars, deskVars
  <2>2. l = sessionLock /\ shown
    BY <2>1 DEF Held
  <2>3. TypeOK' /\ GraceIsCurrent'
    BY <2>1 DEF TypeOK, GraceIsCurrent
  <2>4. OutputsCovered'
    BY <2>1, <2>2 DEF OutputsCovered, Covered, TypeOK
  <2>5. Held'
    BY <2>1, <2>2 DEF Held, TypeOK
  <2> QED  BY <2>3, <2>4, <2>5
<1>2. CASE OnLockSurfaceRemoved(o)
  <2>1. /\ lockSurface[o] # NoLock /\ sessionLock # NoLock
        /\ fallback' = (IF shown THEN fallback \cup {o} ELSE fallback)
        /\ lockSurface' = [lockSurface EXCEPT ![o] = NoLock]
        /\ UNCHANGED <<sessionLock, externalLockActive, shown, lockState, outputs,
                       graceFor, mode, workspaceShown, taskSwitch, multitask>>
    BY <1>2 DEF OnLockSurfaceRemoved, lockVars, deskVars
  <2>2. shown /\ o \in outputs
    BY <2>1 DEF Held, OutputsCovered
  <2>3. TypeOK' /\ GraceIsCurrent'
    BY <2>1 DEF TypeOK, GraceIsCurrent
  <2>4. OutputsCovered'
    BY <2>1, <2>2 DEF OutputsCovered, Covered, TypeOK
  <2>5. Held'
    BY <2>1 DEF Held, TypeOK
  <2> QED  BY <2>3, <2>4, <2>5
<1> QED  BY <1>1, <1>2

(* A new output is covered if the screen is locked; one that goes is       *)
(* forgotten.                                                              *)
LEMMA OutputKeeps ==
    ASSUME IInv, NEW o \in Outputs, AddOutput(o) \/ RemoveOutput(o)
    PROVE  IInv'
<1> USE LocksAssumption DEF IInv
<1>1. /\ lockSurface' = [lockSurface EXCEPT ![o] = NoLock]
      /\ UNCHANGED <<sessionLock, externalLockActive, shown, lockState,
                     graceFor, mode, workspaceShown, taskSwitch, multitask>>
  BY DEF AddOutput, RemoveOutput, lockVars, deskVars
<1>2. GraceIsCurrent' /\ Held'
  BY <1>1 DEF GraceIsCurrent, Held, TypeOK
<1>3. CASE AddOutput(o)
  <2>1. /\ outputs' = outputs \cup {o}
        /\ fallback' = (IF externalLockActive THEN fallback \cup {o} ELSE fallback)
    BY <1>3 DEF AddOutput
  <2>2. TypeOK' /\ OutputsCovered'
    BY <1>1, <2>1 DEF TypeOK, OutputsCovered, Covered, Held
  <2> QED  BY <1>2, <2>2
<1>4. CASE RemoveOutput(o)
  <2>1. outputs' = outputs \ {o} /\ fallback' = fallback \ {o}
    BY <1>4 DEF RemoveOutput
  <2>2. TypeOK' /\ OutputsCovered'
    BY <1>1, <2>1 DEF TypeOK, OutputsCovered, Covered
  <2> QED  BY <1>2, <2>2
<1> QED  BY <1>3, <1>4

(* The lock that is given up was the one held, so the slot runs to its end *)
(* and everything kept for it is dropped.                                  *)
LEMMA UnlockStep ==
    ASSUME IInv, NEW l \in Locks, lockState[l] \in {"waiting", "locked"},
           OnExternalUnlock
    PROVE  /\ l = sessionLock /\ shown
           /\ sessionLock' = NoLock /\ externalLockActive' = FALSE
           /\ shown' = FALSE /\ fallback' = {} /\ outputs' = outputs
           /\ lockSurface' = [o \in Outputs |-> NoLock]
           /\ mode' = "Normal" /\ workspaceShown' = TRUE
           /\ UNCHANGED <<taskSwitch, multitask>>
<1>1. l = sessionLock /\ sessionLock # NoLock /\ shown
  BY LocksAssumption DEF IInv, Held
<1> QED  BY <1>1 DEF OnExternalUnlock, UnlockHandler

(* Unlocking and giving up keep the invariant.                             *)
LEMMA GiveUpKeeps ==
    ASSUME IInv, NEW l \in Locks, Unlocked(l) \/ Canceled(l)
    PROVE  IInv'
<1> USE LocksAssumption DEF IInv
<1>1. /\ lockState[l] \in {"waiting", "locked"} /\ OnExternalUnlock
      /\ \E s \in {"unlocked", "canceled"} : lockState' = [lockState EXCEPT ![l] = s]
      /\ graceFor' \in {graceFor, NoLock}
      /\ lockState[l] = "locked" \/ graceFor' = NoLock
  BY DEF Unlocked, Canceled
<1>2. /\ l = sessionLock /\ shown
      /\ sessionLock' = NoLock /\ externalLockActive' = FALSE
      /\ shown' = FALSE /\ fallback' = {} /\ outputs' = outputs
      /\ lockSurface' = [o \in Outputs |-> NoLock]
      /\ mode' = "Normal" /\ workspaceShown' = TRUE
      /\ UNCHANGED <<taskSwitch, multitask>>
  BY <1>1, UnlockStep
<1>3. graceFor' = NoLock
  BY <1>1, <1>2 DEF GraceIsCurrent
<1>4. TypeOK'
  BY <1>1, <1>2, <1>3 DEF TypeOK, States, Modes
<1>5. OutputsCovered' /\ GraceIsCurrent'
  BY <1>2, <1>3 DEF OutputsCovered, GraceIsCurrent
<1>6. Held'
  BY <1>1, <1>2 DEF Held, TypeOK
<1> QED  BY <1>4, <1>5, <1>6

(* The holder that dies leaves the screen locked behind fallback items.    *)
LEMMA AbandonStep ==
    ASSUME IInv, NEW l \in Locks, Abandoned(l)
    PROVE  /\ l = sessionLock /\ shown
           /\ sessionLock' = NoLock /\ graceFor' = NoLock
           /\ lockSurface' = [o \in Outputs |-> NoLock]
           /\ fallback' = outputs
           /\ lockState' = [lockState EXCEPT ![l] = "abandoned"]
           /\ UNCHANGED <<externalLockActive, shown, outputs,
                          mode, workspaceShown, taskSwitch, multitask>>
<1>1. lockState[l] \in {"waiting", "locked"}
  BY DEF Abandoned
<1>2. l = sessionLock /\ sessionLock # NoLock /\ shown /\ externalLockActive
  BY <1>1, LocksAssumption DEF IInv, Held
<1> QED  BY <1>2 DEF Abandoned, OnExternalLockAbandoned, deskVars

(* Abandoning keeps the invariant.                                         *)
LEMMA AbandonKeeps ==
    ASSUME IInv, NEW l \in Locks, Abandoned(l)
    PROVE  IInv'
<1> USE LocksAssumption DEF IInv
<1>1. /\ l = sessionLock /\ shown
      /\ sessionLock' = NoLock /\ graceFor' = NoLock
      /\ lockSurface' = [o \in Outputs |-> NoLock]
      /\ fallback' = outputs
      /\ lockState' = [lockState EXCEPT ![l] = "abandoned"]
      /\ UNCHANGED <<externalLockActive, shown, outputs,
                     mode, workspaceShown, taskSwitch, multitask>>
  BY AbandonStep
<1>2. TypeOK'
  BY <1>1 DEF TypeOK, States
<1>3. OutputsCovered' /\ GraceIsCurrent'
  BY <1>1 DEF OutputsCovered, Covered, GraceIsCurrent, TypeOK
<1>4. Held'
  BY <1>1 DEF Held, TypeOK
<1> QED  BY <1>2, <1>3, <1>4

(* The overlays touch the mode and their own items only.                   *)
LEMMA OverlayStep ==
    ASSUME IInv, Overlay
    PROVE  /\ UNCHANGED otherVars
           /\ mode' \in Modes /\ taskSwitch' \in BOOLEAN
           /\ multitask' \in {"none", "active", "exited"}
<1>1. UNCHANGED otherVars
  BY DEF Overlay, TaskSwitchNext, TaskSwitchExit, TaskSwitchOff,
         ToggleMultitaskview, MultitaskviewGone, FinishMultitaskGesture
<1>2. /\ mode' \in Modes /\ taskSwitch' \in BOOLEAN
      /\ multitask' \in {"none", "active", "exited"}
  BY DEF IInv, TypeOK, Modes, Overlay, TaskSwitchNext, TaskSwitchExit, TaskSwitchOff,
         ToggleMultitaskview, MultitaskviewGone, FinishMultitaskGesture,
         EnterMultitaskview, ExitMultitaskview
<1> QED  BY <1>1, <1>2

(* A step that leaves the lock, the outputs and the workspace alone keeps  *)
(* the invariant.                                                          *)
LEMMA OtherKeeps ==
    ASSUME IInv, UNCHANGED otherVars,
           mode' \in Modes, taskSwitch' \in BOOLEAN,
           multitask' \in {"none", "active", "exited"}
    PROVE  IInv'
<1> USE DEF IInv, otherVars, lockVars, coverVars
<1>1. TypeOK' /\ GraceIsCurrent'
  BY DEF TypeOK, GraceIsCurrent
<1>2. OutputsCovered' /\ Held'
  BY DEF OutputsCovered, Covered, Held
<1> QED  BY <1>1, <1>2

(* Every step keeps the invariant: one case per action.                    *)
LEMMA NextKeeps == IInv /\ [Next]_vars => IInv'
<1> SUFFICES ASSUME IInv, [Next]_vars PROVE IInv'
  OBVIOUS
<1>1. ASSUME NEW l \in Locks, OnExtSessionLock(l) PROVE IInv'
  BY <1>1, TakeKeeps
<1>2. ASSUME NEW l \in Locks, Unlocked(l) \/ Canceled(l) PROVE IInv'
  BY <1>2, GiveUpKeeps
<1>3. ASSUME NEW l \in Locks, Abandoned(l) PROVE IInv'
  BY <1>3, AbandonKeeps
<1>4. ASSUME NEW o \in Outputs,
             (\E l \in Locks : OnLockSurfaceAdded(l, o)) \/ OnLockSurfaceRemoved(o)
      PROVE  IInv'
  BY <1>4, SurfaceKeeps
<1>5. ASSUME NEW o \in Outputs, AddOutput(o) \/ RemoveOutput(o) PROVE IInv'
  BY <1>5, OutputKeeps
<1>6. CASE GraceTimeout
  BY <1>6, GraceKeeps
<1>7. CASE Overlay
  BY <1>7, OverlayStep, OtherKeeps
<1>8. CASE UNCHANGED vars
  <2>1. /\ UNCHANGED otherVars
        /\ mode' \in Modes /\ taskSwitch' \in BOOLEAN
        /\ multitask' \in {"none", "active", "exited"}
    BY <1>8 DEF vars, otherVars, lockVars, coverVars, deskVars, IInv, TypeOK
  <2> QED  BY <2>1, OtherKeeps
<1> QED  BY <1>1, <1>2, <1>3, <1>4, <1>5, <1>6, <1>7, <1>8 DEF Next

(* The inductive invariant holds throughout.                               *)
LEMMA Inductive == Spec => []IInv
<1> QED  BY InitHolds, NextKeeps, PTL DEF Spec

(* The state stays well formed for any locks, outputs and overlays.        *)
THEOREM TypeCorrect == Spec => []TypeOK
<1>1. IInv => TypeOK
  BY DEF IInv
<1> QED  BY <1>1, Inductive, PTL

(* While locked every output shows one of lock surface and fallback item;  *)
(* otherwise none is kept.                                                 *)
THEOREM AlwaysCovered == Spec => []OutputsCovered
<1>1. IInv => OutputsCovered
  BY DEF IInv
<1> QED  BY <1>1, Inductive, PTL

(* The grace timer never outlives the lock it was started for.             *)
THEOREM GraceCurrent == Spec => []GraceIsCurrent
<1>1. IInv => GraceIsCurrent
  BY DEF IInv
<1> QED  BY <1>1, Inductive, PTL

-----------------------------------------------------------------------------
(* The mode.  The task switcher, which sets the mode to Normal when it     *)
(* fades, is not there in the lock's mode, and only a lock sets that mode. *)

MInv == IInv /\ (mode = "LockScreen" => shown /\ ~taskSwitch)

MStep ==
    /\ mode' = "LockScreen" => shown'
    /\ (shown => mode = "LockScreen") /\ multitask = "none" /\ multitask' = "none"
       => (shown' => mode' = "LockScreen")

(* Every step keeps lock and mode together.                                *)
LEMMA ModeKeeps ==
    ASSUME MInv, [Next]_vars
    PROVE  MInv' /\ MStep
<1> USE DEF MInv
<1>1. IInv'
  BY NextKeeps
<1> DEFINE MPart == mode = "LockScreen" => shown /\ ~taskSwitch
<1> SUFFICES MPart' /\ MStep
  BY <1>1
<1>2. ASSUME UNCHANGED <<shown, deskVars>> PROVE MPart' /\ MStep
  BY <1>2 DEF MStep, deskVars
<1>3. ASSUME NEW l \in Locks, OnExtSessionLock(l) PROVE MPart' /\ MStep
  <2>1. CASE CanAcceptExternalLock
    BY <1>3, <2>1 DEF OnExtSessionLock, OnExternalLock, CloseOverlays, MStep
  <2>2. CASE ~CanAcceptExternalLock
    BY <1>2, <1>3, <2>2 DEF OnExtSessionLock
  <2> QED  BY <2>1, <2>2
<1>4. ASSUME NEW l \in Locks, Unlocked(l) \/ Canceled(l) PROVE MPart' /\ MStep
  <2>1. lockState[l] \in {"waiting", "locked"} /\ OnExternalUnlock
    BY <1>4 DEF Unlocked, Canceled
  <2>2. shown' = FALSE /\ mode' = "Normal" /\ UNCHANGED <<taskSwitch, multitask>>
    BY <2>1, UnlockStep
  <2> QED  BY <2>2 DEF MStep
<1>5. ASSUME NEW l \in Locks, Abandoned(l) PROVE MPart' /\ MStep
  BY <1>2, <1>5 DEF Abandoned
<1>6. ASSUME NEW o \in Outputs,
             \/ (\E l \in Locks : OnLockSurfaceAdded(l, o)) \/ OnLockSurfaceRemoved(o)
             \/ AddOutput(o) \/ RemoveOutput(o)
      PROVE  MPart' /\ MStep
  BY <1>2, <1>6 DEF OnLockSurfaceAdded, OnLockSurfaceRemoved, AddOutput, RemoveOutput,
                    lockVars
<1>7. CASE GraceTimeout
  BY <1>2, <1>7 DEF GraceTimeout
<1>8. CASE Overlay
  <2>1. shown' = shown
    BY <1>8, OverlayStep DEF otherVars, lockVars
  <2>2. CASE TaskSwitchNext \/ TaskSwitchExit
    BY <2>1, <2>2 DEF TaskSwitchNext, TaskSwitchExit, MStep
  <2>3. CASE TaskSwitchOff \/ MultitaskviewGone
    BY <2>1, <2>3 DEF TaskSwitchOff, MultitaskviewGone, MStep
  <2>4. CASE ToggleMultitaskview \/ (\E opens \in BOOLEAN : FinishMultitaskGesture(opens))
    BY <2>1, <2>4 DEF ToggleMultitaskview, FinishMultitaskGesture, EnterMultitaskview,
                      ExitMultitaskview, MStep
  <2> QED  BY <1>8, <2>2, <2>3, <2>4 DEF Overlay
<1>9. CASE UNCHANGED vars
  BY <1>2, <1>9 DEF vars, lockVars, deskVars
<1> QED  BY <1>3, <1>4, <1>5, <1>6, <1>7, <1>8, <1>9 DEF Next

(* Whatever locks and outputs there are: the mode that blocks shortcuts    *)
(* and activation is on only while the lock screen is shown, and nothing   *)
(* but the multitask view takes it off a locked session (helper.cpp        *)
(* onExtSessionLock, the unlock handler, deleteTaskSwitch).                *)
THEOREM ModeIsLock == Spec => LockHoldsMode
<1>1. Init => MInv
  BY InitHolds DEF MInv, Init
<1>2. MInv /\ [Next]_vars => MInv' /\ MStep
  BY ModeKeeps
<1> QED  BY <1>1, <1>2, PTL DEF Spec, LockHoldsMode, MStep

-----------------------------------------------------------------------------
(* The promise.                                                            *)

(* Where the invariant holds, the desktop is closed iff the lock is shown. *)
LEMMA ClosedIsShown == IInv => Closed = shown
<1> QED  BY DEF IInv, TypeOK, OutputsCovered, Held, Closed, Covered

(* Every step is a step of the promise, or none.                           *)
LEMMA StepKeepsPromise ==
    ASSUME IInv, [Next]_vars
    PROVE  [Promise!Next]_(Promise!vars)
<1> USE LocksAssumption
<1>1. Closed = shown
  BY ClosedIsShown
<1>2. IInv'
  BY NextKeeps
<1>3. Closed' = shown'
  BY <1>2 DEF IInv, TypeOK, OutputsCovered, Held, Closed, Covered
<1>4. ASSUME UNCHANGED <<sessionLock, shown, lockState>>
      PROVE  UNCHANGED Promise!vars
  BY <1>1, <1>3, <1>4 DEF Promise!vars
<1>5. ASSUME NEW l \in Locks, OnExtSessionLock(l)
      PROVE  Promise!Take(l) \/ Promise!Refuse(l)
  <2>1. CASE CanAcceptExternalLock
    BY <1>3, <1>5, <2>1 DEF OnExtSessionLock, OnExternalLock, CanAcceptExternalLock,
                            Promise!Take
  <2>2. CASE ~CanAcceptExternalLock
    <3>1. sessionLock # NoLock
      BY <2>2 DEF CanAcceptExternalLock, IInv, Held
    <3> QED  BY <1>1, <1>3, <1>5, <2>2, <3>1 DEF OnExtSessionLock, Promise!Refuse
  <2> QED  BY <2>1, <2>2
<1>6. ASSUME NEW l \in Locks, Unlocked(l) \/ Canceled(l)
      PROVE  Promise!Unlock(l) \/ Promise!Cancel(l)
  <2>1. lockState[l] \in {"waiting", "locked"} /\ OnExternalUnlock
    BY <1>6 DEF Unlocked, Canceled
  <2>2. l = sessionLock /\ sessionLock' = NoLock /\ shown' = FALSE
    BY <2>1, UnlockStep
  <2> QED  BY <1>3, <1>6, <2>2 DEF Unlocked, Canceled, Promise!Unlock, Promise!Cancel
<1>7. ASSUME NEW l \in Locks, Abandoned(l)
      PROVE  Promise!Die(l)
  BY <1>1, <1>3, <1>7, AbandonStep DEF Promise!Die
<1>8. CASE GraceTimeout
  <2>1. /\ graceFor \in Locks /\ graceFor = sessionLock
        /\ lockState[graceFor] = "waiting" /\ shown
        /\ lockState' = [lockState EXCEPT ![graceFor] = "locked"]
        /\ UNCHANGED <<sessionLock, shown>>
    BY <1>8 DEF GraceTimeout, IInv, TypeOK, GraceIsCurrent, Held
  <2>2. Promise!Confirm(graceFor)
    BY <1>1, <1>3, <2>1 DEF Promise!Confirm
  <2> QED  BY <2>1, <2>2 DEF Promise!Next
<1>9. ASSUME NEW o \in Outputs,
             \/ (\E l \in Locks : OnLockSurfaceAdded(l, o)) \/ OnLockSurfaceRemoved(o)
             \/ AddOutput(o) \/ RemoveOutput(o)
      PROVE  UNCHANGED Promise!vars
  BY <1>4, <1>9 DEF OnLockSurfaceAdded, OnLockSurfaceRemoved, AddOutput, RemoveOutput,
                    lockVars
<1>10. CASE Overlay
  BY <1>4, <1>10, OverlayStep DEF otherVars, lockVars
<1>11. CASE UNCHANGED vars
  BY <1>4, <1>11 DEF vars, lockVars
<1> QED  BY <1>5, <1>6, <1>7, <1>8, <1>9, <1>10, <1>11 DEF Next, Promise!Next

(* The lock screen implements the promise's safety: one holder, refusals   *)
(* only meanwhile, told only once closed, opened only by the holder. That  *)
(* the holder is told in the end needs fairness and is left to TLC.        *)
THEOREM PromiseSafe == Spec => Promise!SafeSpec
<1>1. Init => Promise!Init
  BY DEF Init, Promise!Init, Closed
<1>2. IInv /\ [Next]_vars => [Promise!Next]_(Promise!vars)
  BY StepKeepsPromise
<1> QED  BY <1>1, <1>2, Inductive, PTL DEF Spec, Promise!SafeSpec
=============================================================================

-------------------------- MODULE GreeterLockProofs --------------------------
(***************************************************************************)
(* What the run of GreeterLock shows on two sessions and two requests,     *)
(* proved for any sessions and any number of requests under way.           *)
(* GreeterShown and DesktopBack are not inductive: what an animation does  *)
(* when it ends depends on what was asked for while it ran.  LockedScreen  *)
(* says that nothing takes the screen of a locked greeter away,            *)
(* FadingScreen what holds while the screen of an unlocked one fades.      *)
(***************************************************************************)
EXTENDS GreeterLock, TLAPS

(* A locked greeter's view is not on its way out; unless an external lock  *)
(* was there, too, no shutdown view is open over it and no client of       *)
(* ext_session_lock_v1 may hide it.                                        *)
LockedScreen ==
    isLocked => /\ ~hiding
                /\ overlap \/ (~shutdownView /\ ~external)

(* While the lock screen fades out it is still shown, and nobody else can  *)
(* hide it; once the delay is over as well the desktop is back.            *)
FadingScreen ==
    (hiding /\ fading /\ ~overlap) =>
        /\ shown /\ ~shutdownView /\ ~external
        /\ (~delay /\ ~missed) => (mode = "Normal" /\ workspaceShown)

ScreenInv ==
    /\ GreeterShown
    /\ DesktopBack
    /\ LockedScreen
    /\ FadingScreen

ScreenTypes ==
    /\ mode \in {"Normal", "LockScreen"} /\ workspaceShown \in BOOLEAN
    /\ shown \in BOOLEAN /\ delay \in BOOLEAN
    /\ missed \in BOOLEAN /\ overlap \in BOOLEAN
    /\ isLocked \in BOOLEAN /\ shutdownView \in BOOLEAN
    /\ hiding \in BOOLEAN /\ fading \in BOOLEAN

SessionTypes ==
    /\ external \in BOOLEAN
    /\ alive \subseteq Sessions
    /\ activeSession \in alive \cup {NoSession} /\ currentUser \in Sessions

RequestTypes ==
    /\ socket \in BOOLEAN /\ lost \in BOOLEAN
    /\ ddm \in Seq(Request)
    /\ tasks \subseteq Request
    /\ posted \in Seq(Call)

IInv == ScreenTypes /\ SessionTypes /\ RequestTypes /\ ScreenInv

LEMMA TypesSplit == TypeOK <=> ScreenTypes /\ SessionTypes /\ RequestTypes
  BY DEF TypeOK, ScreenTypes, SessionTypes, RequestTypes

(* At the start the desktop is in use and nothing is asked for.            *)
LEMMA InitHolds == Init => IInv
<1> SUFFICES ASSUME Init PROVE IInv
  OBVIOUS
<1>1. ScreenTypes /\ ScreenInv
  BY DEF Init, ScreenTypes, ScreenInv, GreeterShown, DesktopBack, LockedScreen,
         FadingScreen
<1>2. SessionTypes
  BY DEF Init, SessionTypes
<1>3. RequestTypes
  <2>1. <<>> \in Seq(Request) /\ <<>> \in Seq(Call)
    OBVIOUS
  <2> QED  BY <2>1 DEF Init, RequestTypes
<1> QED  BY <1>1, <1>2, <1>3 DEF IInv

-----------------------------------------------------------------------------
(* What the handlers keep.                                                 *)

(* Nothing on the screen changes, at most the client leaves.                *)
LEMMA ScreenUnchanged ==
  ASSUME ScreenTypes, ScreenInv, UNCHANGED <<screenVars, greeterVars>>,
         external \in BOOLEAN, external' \in {external, FALSE}
  PROVE  ScreenTypes' /\ ScreenInv'
<1> USE DEF screenVars, greeterVars, ScreenTypes, ScreenInv
<1>1. ScreenTypes' /\ GreeterShown' /\ DesktopBack'
  BY DEF GreeterShown, DesktopBack
<1>2. LockedScreen'
  BY DEF LockedScreen
<1>3. FadingScreen'
  BY DEF FadingScreen
<1> QED  BY <1>1, <1>2, <1>3

(* GreeterProxy::setLock, with or without the client of                    *)
(* ext_session_lock_v1 leaving in the same step.                           *)
LEMMA SetLockKeeps ==
  ASSUME ScreenTypes, external \in BOOLEAN, ScreenInv,
         NEW on \in BOOLEAN, SetLock(on), external' \in {external, FALSE}
  PROVE  ScreenTypes' /\ ScreenInv'
<1> USE DEF ScreenTypes, ScreenInv, GreeterShown, DesktopBack, LockedScreen,
            FadingScreen
<1>1. CASE on /\ ~isLocked
  <2>1. Locked
    BY <1>1 DEF SetLock
  <2>2. ScreenTypes'
    BY <2>1 DEF Locked, GreeterLocked
  <2>3. GreeterShown' /\ DesktopBack'
    BY <2>1 DEF Locked, GreeterLocked
  <2>4. LockedScreen'
    BY <2>1 DEF Locked, GreeterLocked
  <2>5. FadingScreen'
    BY <2>1 DEF Locked, GreeterLocked
  <2> QED  BY <2>2, <2>3, <2>4, <2>5
<1>2. CASE ~on /\ isLocked
  <2>1. Released
    BY <1>2 DEF SetLock
  <2>2. ScreenTypes'
    BY <2>1 DEF Released, UnlockHandler
  <2>3. GreeterShown' /\ DesktopBack' /\ LockedScreen'
    BY <2>1 DEF Released
  <2>4. FadingScreen'
    BY <2>1, <1>2 DEF Released, UnlockHandler
  <2> QED  BY <2>2, <2>3, <2>4
<1>3. CASE on = isLocked /\ shutdownView
  <2>1. ShutdownViewClosed
    BY <1>3 DEF SetLock
  <2> QED  BY <2>1, <1>3 DEF ShutdownViewClosed
<1>4. CASE on = isLocked /\ ~shutdownView
  <2>1. UNCHANGED <<screenVars, greeterVars>>
    BY <1>4 DEF SetLock
  <2> QED  BY <2>1, ScreenUnchanged
<1> QED  BY <1>1, <1>2, <1>3, <1>4

(* The hidden lock screen is shown, with the greeter or before it.         *)
LEMMA ShowKeeps ==
  ASSUME ScreenTypes, external \in BOOLEAN, ScreenInv, ~shown,
         NEW q, Show(q), mode' = "LockScreen", workspaceShown' = FALSE,
         missed' \in BOOLEAN, external' = external
  PROVE  ScreenTypes' /\ ScreenInv'
<1> USE DEF ScreenTypes, ScreenInv, GreeterShown, DesktopBack, LockedScreen,
            FadingScreen
<1>1. CASE UNCHANGED <<greeterVars, overlap>>
  BY <1>1 DEF Show, greeterVars
<1>2. CASE GreeterLocked
  BY <1>2 DEF Show, GreeterLocked
<1> QED  BY <1>1, <1>2 DEF Show

(* Requests to lock are sent for users' sessions only.                     *)
LEMMA SendLockTypes ==
  ASSUME SessionTypes, RequestTypes, activeSession # NoSession,
         NEW q \in Seq(Request), SendLock(q)
  PROVE  ddm' \in Seq(Request) /\ lost' \in BOOLEAN
<1>1. [kind |-> "Lock", id |-> activeSession] \in Request
  BY DEF SessionTypes, Request
<1>2. Append(q, [kind |-> "Lock", id |-> activeSession]) \in Seq(Request)
  BY <1>1
<1> QED  BY <1>2 DEF SendLock, RequestTypes

LEMMA ShowTypes ==
  ASSUME SessionTypes, RequestTypes, NEW q \in Seq(Request), Show(q)
  PROVE  ddm' \in Seq(Request) /\ lost' \in BOOLEAN
  BY SendLockTypes DEF Show, RequestTypes

LEMMA GreeterProxyLockKeeps ==
  ASSUME IInv, GreeterProxyLock, external' \in {external, FALSE}
  PROVE  /\ ScreenTypes' /\ ScreenInv'
         /\ ddm' \in Seq(Request) /\ lost' \in BOOLEAN
<1> USE DEF IInv
<1>1. CASE activeSession = NoSession
  <2>1. SetLock(TRUE) /\ UNCHANGED requests
    BY <1>1 DEF GreeterProxyLock
  <2>2. ScreenTypes' /\ ScreenInv'
    BY <2>1, SetLockKeeps DEF SessionTypes
  <2> QED  BY <2>1, <2>2 DEF requests, RequestTypes
<1>2. CASE activeSession # NoSession
  <2>1. SendLock(ddm) /\ UNCHANGED <<screenVars, greeterVars>>
    BY <1>2 DEF GreeterProxyLock
  <2>2. ddm' \in Seq(Request) /\ lost' \in BOOLEAN
    BY <1>2, <2>1, SendLockTypes DEF RequestTypes
  <2>3. ScreenTypes' /\ ScreenInv'
    BY <2>1, ScreenUnchanged DEF SessionTypes
  <2> QED  BY <2>2, <2>3
<1> QED  BY <1>1, <1>2

-----------------------------------------------------------------------------
(* One lemma per handler, in the order of the module.                      *)

LEMMA DelayTimeoutKeeps == IInv /\ DelayTimeout => IInv'
<1> SUFFICES ASSUME IInv, DelayTimeout PROVE IInv'
  OBVIOUS
<1>1. ScreenTypes' /\ ScreenInv'
  BY DEF IInv, DelayTimeout, UnlockHandler, ScreenTypes, ScreenInv, GreeterShown,
         DesktopBack, LockedScreen, FadingScreen, greeterVars, sessionVars
<1>2. SessionTypes' /\ RequestTypes'
  BY DEF IInv, DelayTimeout, SessionTypes, RequestTypes, sessionVars, busVars,
         requests
<1> QED  BY <1>1, <1>2 DEF IInv

LEMMA AnimationStoppedKeeps == IInv /\ AnimationStopped => IInv'
<1> SUFFICES ASSUME IInv, AnimationStopped PROVE IInv'
  OBVIOUS
<1>1. ScreenTypes' /\ ScreenInv'
  BY DEF IInv, AnimationStopped, ScreenTypes, ScreenInv, GreeterShown,
         DesktopBack, LockedScreen, FadingScreen, sessionVars
<1>2. SessionTypes' /\ RequestTypes'
  BY DEF IInv, AnimationStopped, SessionTypes, RequestTypes, sessionVars,
         busVars, requests
<1> QED  BY <1>1, <1>2 DEF IInv

LEMMA ShowLockScreenKeeps == IInv /\ ShowLockScreen => IInv'
<1> SUFFICES ASSUME IInv, ShowLockScreen PROVE IInv'
  OBVIOUS
<1> USE DEF IInv, ShowLockScreen
<1>1. ScreenTypes' /\ ScreenInv'
  BY ShowKeeps DEF SessionTypes, sessionVars, ScreenTypes
<1>2. ddm' \in Seq(Request) /\ lost' \in BOOLEAN
  BY ShowTypes DEF RequestTypes
<1>3. SessionTypes' /\ RequestTypes'
  BY <1>2 DEF SessionTypes, RequestTypes, sessionVars
<1> QED  BY <1>1, <1>3

LEMMA ClientLockKeeps == IInv /\ ClientLock => IInv'
<1> SUFFICES ASSUME IInv, ClientLock PROVE IInv'
  OBVIOUS
<1> USE DEF IInv, ClientLock
<1>1. CASE shown
  <2>1. ScreenTypes' /\ ScreenInv'
    BY <1>1 DEF ScreenTypes, ScreenInv, GreeterShown, DesktopBack,
       LockedScreen, FadingScreen, greeterVars, sessionVars
  <2>2. SessionTypes' /\ RequestTypes'
    BY <1>1 DEF SessionTypes, RequestTypes, sessionVars, requests
  <2> QED  BY <2>1, <2>2
<1>2. CASE ~shown
  <2>1. Show(ddm) /\ missed' \in BOOLEAN /\ external' = external
    BY <1>2 DEF ScreenTypes, sessionVars
  <2>2. ScreenTypes' /\ ScreenInv'
    BY <1>2, <2>1, ShowKeeps DEF SessionTypes
  <2>3. ddm' \in Seq(Request) /\ lost' \in BOOLEAN
    BY <2>1, ShowTypes DEF RequestTypes
  <2>4. SessionTypes' /\ RequestTypes'
    BY <2>3 DEF SessionTypes, RequestTypes, sessionVars
  <2> QED  BY <2>2, <2>4
<1> QED  BY <1>1, <1>2 DEF ScreenTypes

LEMMA SwitchUserKeeps == IInv /\ SwitchUser => IInv'
<1> SUFFICES ASSUME IInv, SwitchUser PROVE IInv'
  OBVIOUS
<1> USE DEF IInv, SwitchUser
<1>1. CASE shown
  <2>1. ScreenTypes' /\ ScreenInv'
    BY <1>1 DEF ScreenTypes, ScreenInv, GreeterShown, DesktopBack,
       LockedScreen, FadingScreen, greeterVars, sessionVars
  <2>2. SessionTypes' /\ RequestTypes'
    BY <1>1 DEF SessionTypes, RequestTypes, sessionVars, requests
  <2> QED  BY <2>1, <2>2
<1>2. CASE ~shown
  <2>1. ScreenTypes' /\ ScreenInv'
    <3>1. CASE UNCHANGED <<overlap, greeterVars>>
      BY <1>2, <3>1 DEF ScreenTypes, ScreenInv, GreeterShown, DesktopBack,
         LockedScreen, FadingScreen, greeterVars, sessionVars
    <3>2. CASE GreeterLocked
      BY <1>2, <3>2 DEF ScreenTypes, ScreenInv, GreeterShown, DesktopBack,
         LockedScreen, FadingScreen, GreeterLocked, sessionVars
    <3> QED  BY <1>2, <3>1, <3>2
  <2>3. ddm' \in Seq(Request) /\ lost' \in BOOLEAN
    BY <1>2, SendLockTypes DEF RequestTypes, requests
  <2>4. SessionTypes' /\ RequestTypes'
    BY <2>3 DEF SessionTypes, RequestTypes, sessionVars
  <2> QED  BY <2>1, <2>4
<1> QED  BY <1>1, <1>2 DEF ScreenTypes

LEMMA ShutdownMenuKeeps == IInv /\ ShutdownMenu => IInv'
<1> SUFFICES ASSUME IInv, ShutdownMenu PROVE IInv'
  OBVIOUS
<1>1. ScreenTypes' /\ ScreenInv'
  BY DEF IInv, ShutdownMenu, ScreenTypes, ScreenInv, GreeterShown,
         DesktopBack, LockedScreen, FadingScreen, sessionVars
<1>2. SessionTypes' /\ RequestTypes'
  BY DEF IInv, ShutdownMenu, SessionTypes, RequestTypes, sessionVars,
         busVars, requests
<1> QED  BY <1>1, <1>2 DEF IInv

LEMMA DismissShutdownViewKeeps == IInv /\ DismissShutdownView => IInv'
<1> SUFFICES ASSUME IInv, DismissShutdownView PROVE IInv'
  OBVIOUS
<1>1. ScreenTypes' /\ ScreenInv'
  BY DEF IInv, DismissShutdownView, ShutdownViewClosed, ScreenTypes, ScreenInv,
         GreeterShown, DesktopBack, LockedScreen, FadingScreen, sessionVars
<1>2. SessionTypes' /\ RequestTypes'
  BY DEF IInv, DismissShutdownView, SessionTypes, RequestTypes, sessionVars,
         busVars, requests
<1> QED  BY <1>1, <1>2 DEF IInv

LEMMA LockGreeterKeeps == IInv /\ LockGreeter => IInv'
<1> SUFFICES ASSUME IInv, LockGreeter PROVE IInv'
  OBVIOUS
<1>1. ScreenTypes' /\ ScreenInv' /\ ddm' \in Seq(Request) /\ lost' \in BOOLEAN
  BY GreeterProxyLockKeeps DEF LockGreeter, sessionVars
<1>2. SessionTypes' /\ RequestTypes'
  BY <1>1 DEF IInv, LockGreeter, SessionTypes, RequestTypes, sessionVars
<1> QED  BY <1>1, <1>2 DEF IInv

LEMMA UnlockKeeps == IInv /\ Unlock => IInv'
<1> SUFFICES ASSUME IInv, Unlock PROVE IInv'
  OBVIOUS
<1>1. external \in BOOLEAN /\ external' = external
  BY DEF IInv, Unlock, SessionTypes, sessionVars
<1>2. CASE socket
  <2>1. [kind |-> "Unlock", id |-> currentUser] \in Request
    BY DEF IInv, SessionTypes, Request
  <2>2. ddm' \in Seq(Request)
    BY <1>2, <2>1 DEF IInv, Unlock, RequestTypes
  <2>3. ScreenTypes' /\ ScreenInv'
    BY <1>1, <1>2, ScreenUnchanged DEF IInv, Unlock
  <2>4. SessionTypes' /\ RequestTypes'
    BY <1>2, <2>2 DEF IInv, Unlock, SessionTypes, RequestTypes, sessionVars
  <2> QED  BY <2>3, <2>4 DEF IInv
<1>3. CASE ~socket
  <2>1. ScreenTypes' /\ ScreenInv'
    BY <1>1, <1>3, SetLockKeeps DEF IInv, Unlock
  <2>2. SessionTypes' /\ RequestTypes'
    BY <1>3 DEF IInv, Unlock, SessionTypes, RequestTypes, sessionVars, requests
  <2> QED  BY <2>1, <2>2 DEF IInv
<1> QED  BY <1>2, <1>3

LEMMA SelectUserKeeps ==
  ASSUME IInv, NEW s \in Sessions, SelectUser(s) PROVE IInv'
<1>1. ScreenTypes' /\ ScreenInv'
  BY ScreenUnchanged DEF IInv, SelectUser, SessionTypes
<1>2. SessionTypes' /\ RequestTypes'
  BY DEF IInv, SelectUser, SessionTypes, RequestTypes, busVars, requests
<1> QED  BY <1>1, <1>2 DEF IInv

LEMMA SessionNewKeeps ==
  ASSUME IInv, NEW s \in Sessions, SessionNew(s) PROVE IInv'
<1>1. external \in BOOLEAN /\ external' = external
  BY DEF IInv, SessionNew, SessionTypes
<1>2. ScreenTypes' /\ ScreenInv'
  <2>1. CASE currentUser = s
    BY <1>1, <2>1, SetLockKeeps DEF IInv, SessionNew
  <2>2. CASE currentUser # s
    BY <1>1, <2>2, ScreenUnchanged DEF IInv, SessionNew
  <2> QED  BY <2>1, <2>2
<1>3. lost' \in BOOLEAN
  BY DEF IInv, SessionNew, RequestTypes, ScreenTypes
<1>4. SessionTypes' /\ RequestTypes'
  BY <1>1, <1>3 DEF IInv, SessionNew, SessionTypes, RequestTypes
<1> QED  BY <1>2, <1>4 DEF IInv

LEMMA SessionRemovedKeeps ==
  ASSUME IInv, NEW s \in Sessions, SessionRemoved(s) PROVE IInv'
<1>1. external \in BOOLEAN /\ external' = external
  BY DEF IInv, SessionRemoved, SessionTypes
<1>2. ScreenTypes' /\ ScreenInv'
  <2>1. CASE activeSession = s
    BY <1>1, <2>1, SetLockKeeps DEF IInv, SessionRemoved
  <2>2. CASE activeSession # s
    BY <1>1, <2>2, ScreenUnchanged DEF IInv, SessionRemoved
  <2> QED  BY <2>1, <2>2
<1>3. SessionTypes' /\ RequestTypes'
  BY <1>1 DEF IInv, SessionRemoved, SessionTypes, RequestTypes, busVars, requests
<1> QED  BY <1>2, <1>3 DEF IInv

LEMMA LockSignalKeeps == IInv /\ LockSignal => IInv'
<1> SUFFICES ASSUME IInv, LockSignal PROVE IInv'
  OBVIOUS
<1>1. Head(ddm) \in Request /\ Tail(ddm) \in Seq(Request)
  BY DEF IInv, RequestTypes, LockSignal
<1>2. tasks' \subseteq Request
  BY <1>1 DEF IInv, LockSignal, RequestTypes
<1>3. external \in BOOLEAN /\ external' = external
  BY DEF IInv, LockSignal, SessionTypes, sessionVars
<1>4. CASE Head(ddm).id \in alive /\ ~shown
  <2>1. /\ Show(Tail(ddm)) /\ mode' = "LockScreen" /\ workspaceShown' = FALSE
        /\ missed' \in BOOLEAN
    BY <1>4 DEF IInv, LockSignal, ScreenTypes
  <2>2. ScreenTypes' /\ ScreenInv'
    BY <1>3, <1>4, <2>1, ShowKeeps DEF IInv
  <2>3. ddm' \in Seq(Request) /\ lost' \in BOOLEAN
    BY <1>1, <2>1, ShowTypes DEF IInv
  <2>4. SessionTypes' /\ RequestTypes'
    BY <1>2, <2>3 DEF IInv, LockSignal, SessionTypes, RequestTypes, sessionVars
  <2> QED  BY <2>2, <2>4 DEF IInv
<1>5. CASE ~(Head(ddm).id \in alive /\ ~shown)
  <2>1. ScreenTypes' /\ ScreenInv'
    BY <1>3, <1>5, ScreenUnchanged DEF IInv, LockSignal
  <2>2. SessionTypes' /\ RequestTypes'
    BY <1>1, <1>2, <1>5 DEF IInv, LockSignal, SessionTypes, RequestTypes,
       sessionVars
  <2> QED  BY <2>1, <2>2 DEF IInv
<1> QED  BY <1>4, <1>5

LEMMA UnlockSignalKeeps == IInv /\ UnlockSignal => IInv'
<1> SUFFICES ASSUME IInv, UnlockSignal PROVE IInv'
  OBVIOUS
<1>1. Head(ddm) \in Request /\ Tail(ddm) \in Seq(Request)
  BY DEF IInv, RequestTypes, UnlockSignal
<1>2. tasks' \subseteq Request
  BY <1>1 DEF IInv, UnlockSignal, RequestTypes
<1>3. ScreenTypes' /\ ScreenInv'
  BY DEF IInv, UnlockSignal, UnlockHandler, ScreenTypes, ScreenInv, GreeterShown,
         DesktopBack, LockedScreen, FadingScreen, greeterVars, sessionVars
<1>4. SessionTypes' /\ RequestTypes'
  BY <1>1, <1>2 DEF IInv, UnlockSignal, SessionTypes, RequestTypes, sessionVars
<1> QED  BY <1>3, <1>4 DEF IInv

LEMMA UnlockRefusedKeeps == IInv /\ UnlockRefused => IInv'
<1> SUFFICES ASSUME IInv, UnlockRefused PROVE IInv'
  OBVIOUS
<1>1. Tail(ddm) \in Seq(Request)
  BY DEF IInv, RequestTypes, UnlockRefused
<1>2. ScreenTypes' /\ ScreenInv'
  BY ScreenUnchanged DEF IInv, UnlockRefused, SessionTypes, sessionVars
<1>3. SessionTypes' /\ RequestTypes'
  BY <1>1 DEF IInv, UnlockRefused, SessionTypes, RequestTypes, sessionVars
<1> QED  BY <1>2, <1>3 DEF IInv

LEMMA PoolKeeps == IInv /\ Pool => IInv'
<1> SUFFICES ASSUME IInv, NEW t \in Request, TaskRuns(t) PROVE IInv'
  BY DEF Pool
<1>1. ScreenTypes' /\ ScreenInv'
  BY ScreenUnchanged DEF IInv, TaskRuns, SessionTypes, sessionVars
<1>2. \A k \in {t.kind, "LockBack"} : [kind |-> k, id |-> t.id] \in Call
  BY DEF Request, Call
<1>3. posted' \in Seq(Call)
  <2>1. posted \in Seq(Call)
    BY DEF IInv, RequestTypes
  <2>2. \A c \in Call : Append(posted, c) \in Seq(Call)
    BY <2>1
  <2> QED  BY <1>2, <2>1, <2>2 DEF TaskRuns
<1>4. SessionTypes' /\ RequestTypes'
  BY <1>3 DEF IInv, TaskRuns, SessionTypes, RequestTypes, sessionVars, requests
<1> QED  BY <1>1, <1>4 DEF IInv

LEMMA DeliverPostedKeeps == IInv /\ DeliverPosted => IInv'
<1> SUFFICES ASSUME IInv, DeliverPosted PROVE IInv'
  OBVIOUS
<1>1. Head(posted) \in Call /\ Tail(posted) \in Seq(Call)
  BY DEF IInv, RequestTypes, DeliverPosted
<1>2. external \in BOOLEAN /\ external' = external
  BY DEF IInv, DeliverPosted, SessionTypes, sessionVars
<1>3. ScreenTypes' /\ ScreenInv' /\ ddm' \in Seq(Request)
  <2>1. CASE Head(posted).kind = "Lock"
    <3>1. SetLock(TRUE) /\ UNCHANGED ddm
      BY <2>1 DEF DeliverPosted
    <3> QED  BY <1>2, <3>1, SetLockKeeps DEF IInv, RequestTypes
  <2>2. CASE Head(posted).kind = "Unlock"
    <3>1. SetLock(FALSE) /\ UNCHANGED ddm
      BY <2>2 DEF DeliverPosted
    <3> QED  BY <1>2, <3>1, SetLockKeeps DEF IInv, RequestTypes
  <2>3. CASE Head(posted).kind = "LockBack"
    <3>1. /\ ddm' = IF socket THEN Append(ddm, [kind |-> "Lock",
                                                id |-> Head(posted).id])
                     ELSE ddm
          /\ UNCHANGED <<screenVars, greeterVars>>
      BY <2>3 DEF DeliverPosted
    <3>2. [kind |-> "Lock", id |-> Head(posted).id] \in Request
      BY <1>1 DEF Call, Request
    <3>3. ddm' \in Seq(Request)
      BY <3>1, <3>2 DEF IInv, RequestTypes
    <3>4. ScreenTypes' /\ ScreenInv'
      BY <1>2, <3>1, ScreenUnchanged DEF IInv
    <3> QED  BY <3>3, <3>4
  <2> QED  BY <1>1, <2>1, <2>2, <2>3 DEF Call
<1>4. SessionTypes' /\ RequestTypes'
  BY <1>1, <1>3 DEF IInv, DeliverPosted, SessionTypes, RequestTypes, sessionVars
<1> QED  BY <1>3, <1>4 DEF IInv

LEMMA SocketChangesKeeps == IInv /\ SocketChanges => IInv'
<1> SUFFICES ASSUME IInv, SocketChanges PROVE IInv'
  OBVIOUS
<1>1. ScreenTypes' /\ ScreenInv'
  BY ScreenUnchanged DEF IInv, SocketChanges, SessionTypes, sessionVars
<1>2. SessionTypes' /\ RequestTypes'
  BY DEF IInv, SocketChanges, SessionTypes, RequestTypes, sessionVars, requests
<1> QED  BY <1>1, <1>2 DEF IInv

(* A client may lock only where the lock screen is hidden, that is where   *)
(* no greeter is locked and none is fading.                                *)
LEMMA ExternalLockKeeps == IInv /\ ExternalLock => IInv'
<1> SUFFICES ASSUME IInv, ExternalLock PROVE IInv'
  OBVIOUS
<1>1. ScreenTypes' /\ ScreenInv'
  BY DEF IInv, ExternalLock, ScreenTypes, ScreenInv, GreeterShown, DesktopBack,
         LockedScreen, FadingScreen, greeterVars
<1>2. SessionTypes' /\ RequestTypes'
  BY DEF IInv, ExternalLock, SessionTypes, RequestTypes, busVars, requests
<1> QED  BY <1>1, <1>2 DEF IInv

LEMMA ExternalUnlockKeeps == IInv /\ ExternalUnlock => IInv'
<1> SUFFICES ASSUME IInv, ExternalUnlock PROVE IInv'
  OBVIOUS
<1>1. ScreenTypes' /\ ScreenInv'
  BY DEF IInv, ExternalUnlock, UnlockHandler, ScreenTypes, ScreenInv,
         GreeterShown, DesktopBack, LockedScreen, FadingScreen, greeterVars
<1>2. SessionTypes' /\ RequestTypes'
  BY DEF IInv, ExternalUnlock, SessionTypes, RequestTypes, busVars, requests
<1> QED  BY <1>1, <1>2 DEF IInv

LEMMA ExternalAbandonedKeeps == IInv /\ ExternalAbandoned => IInv'
<1> SUFFICES ASSUME IInv, ExternalAbandoned PROVE IInv'
  OBVIOUS
<1>1. ScreenTypes' /\ ScreenInv' /\ ddm' \in Seq(Request) /\ lost' \in BOOLEAN
  BY GreeterProxyLockKeeps DEF ExternalAbandoned
<1>2. SessionTypes' /\ RequestTypes'
  BY <1>1 DEF IInv, ExternalAbandoned, SessionTypes, RequestTypes
<1> QED  BY <1>1, <1>2 DEF IInv

-----------------------------------------------------------------------------
LEMMA NextKeeps == IInv /\ [Next]_vars => IInv'
<1> SUFFICES ASSUME IInv, [Next]_vars PROVE IInv'
  OBVIOUS
<1>1. CASE Screen
  BY <1>1, DelayTimeoutKeeps, AnimationStoppedKeeps, ShowLockScreenKeeps,
     ClientLockKeeps, SwitchUserKeeps, ShutdownMenuKeeps DEF Screen
<1>2. CASE User
  BY <1>2, DismissShutdownViewKeeps, LockGreeterKeeps, UnlockKeeps,
     SelectUserKeeps DEF User
<1>3. CASE Logind
  BY <1>3, SessionNewKeeps, SessionRemovedKeeps, LockSignalKeeps,
     UnlockSignalKeeps, UnlockRefusedKeeps, PoolKeeps, DeliverPostedKeeps,
     SocketChangesKeeps DEF Logind, Signals
<1>4. CASE External
  BY <1>4, ExternalLockKeeps, ExternalUnlockKeeps, ExternalAbandonedKeeps
     DEF External
<1>5. CASE UNCHANGED vars
  <2>1. ScreenTypes' /\ ScreenInv'
    BY <1>5, ScreenUnchanged DEF IInv, vars, sessionVars, SessionTypes
  <2>2. SessionTypes' /\ RequestTypes'
    BY <1>5 DEF IInv, vars, SessionTypes, RequestTypes, sessionVars, busVars,
       requests
  <2> QED  BY <2>1, <2>2 DEF IInv
<1> QED  BY <1>1, <1>2, <1>3, <1>4, <1>5 DEF Next

THEOREM Invariance == Spec => []IInv
<1>1. Init => IInv
  BY InitHolds
<1>2. IInv /\ [Next]_vars => IInv'
  BY NextKeeps
<1> QED  BY <1>1, <1>2, PTL DEF Spec

(* The variables keep their types, whatever is asked for and answered.     *)
THEOREM TypeCorrect == Spec => []TypeOK
<1>1. IInv => TypeOK
  BY TypesSplit DEF IInv
<1> QED  BY <1>1, Invariance, PTL

(* A locked greeter is on the screen, in whatever order the requests,      *)
(* signals and ends of animations come.                                    *)
THEOREM LockedGreeterShown == Spec => []GreeterShown
<1>1. IInv => GreeterShown
  BY DEF IInv, ScreenInv
<1> QED  BY <1>1, Invariance, PTL

(* Without a lock screen the desktop is in use, or about to be, unless a   *)
(* request met the fading lock screen.                                     *)
THEOREM DesktopComesBack == Spec => []DesktopBack
<1>1. IInv => DesktopBack
  BY DEF IInv, ScreenInv
<1> QED  BY <1>1, Invariance, PTL
=============================================================================

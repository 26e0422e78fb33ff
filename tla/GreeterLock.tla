---------------------------- MODULE GreeterLock ----------------------------
(***************************************************************************)
(* The screen lock of the build with DDM: Helper, LockScreen, GreeterProxy *)
(* and the greeter's QML.  A lock is asked for by a shortcut, a client of  *)
(* the shell, DDM or logind; the lock screen is shown at once and the      *)
(* greeter is locked when logind's Lock signal comes back through DDM.  An *)
(* unlock fades the lock screen out while the desktop is already in use.   *)
(* LockScreen is the class of ExtSessionLock, which says what a client of  *)
(* ext_session_lock_v1 does to it; here such a client is only there or not.*)
(*                                                                         *)
(* The greeter hands each signal of logind to a thread pool and back, the  *)
(* rest is handlers of the main event loop.                                *)
(***************************************************************************)
EXTENDS Naturals, Sequences, FiniteSets

CONSTANTS
    Sessions,       \* the logind sessions users may have, one each
    NoSession,      \* no session, or the one of the user dde
    Uses,           \* the optional interactions this instance explores
    MaxRequests     \* bound: requests and calls under way when one more is made

ASSUME SessionAssumption == NoSession \notin Sessions
ASSUME RequestsAssumption == MaxRequests \in Nat
ASSUME UsesAssumption == Uses \subseteq {"external", "socket"}

VARIABLES
    \* Helper and LockScreen
    mode,           \* Helper::m_currentMode: "Normal" or "LockScreen"
    workspaceShown, \* Helper::setWorkspaceVisible
    shown,          \* LockScreen::isVisible()
    delay,          \* LockScreen::m_delayTimer is active
    missed,         \* history: a request found the lock screen still fading
    overlap,        \* history: the greeter was locked during an external lock
    lost,           \* history: a request to lock found no socket, or another
                    \* session became the active one before it was answered
    \* GreeterProxy and the greeter's QML
    isLocked,       \* GreeterProxy::m_isLocked
    shutdownView,   \* GreeterProxy::m_showShutdownView
    hiding,         \* LockView.state is Hide
    fading,         \* an animation of LockView runs
    \* sessions, and the client of ext_session_lock_v1
    alive,          \* SessionManager::m_sessions
    activeSession,  \* SessionManager::m_activeSession
    currentUser,    \* UserModel::currentUserName, by the user's session
    external,       \* LockScreen::m_sessionLock # nullptr
    \* DDM, logind and the thread pool
    socket,         \* m_socket is valid
    ddm,            \* requests sent to DDM whose signal of logind is to come
    tasks,          \* tasks of the pool that have not asked who is active
    posted          \* calls the tasks have posted to the main event loop

screenVars == <<mode, workspaceShown, shown, delay, missed, overlap>>
greeterVars == <<isLocked, shutdownView, hiding, fading>>
sessionVars == <<alive, activeSession, currentUser, external>>
requests == <<ddm, lost>>
busVars == <<socket, requests, tasks, posted>>
vars == <<screenVars, greeterVars, sessionVars, busVars>>

Request == [kind : {"Lock", "Unlock"}, id : Sessions]
Call == [kind : {"Lock", "Unlock", "LockBack"}, id : Sessions]

-----------------------------------------------------------------------------
(* LockScreen and its unlock signal.                                       *)

(* The slot of LockScreen::unlock: the desktop is back.                    *)
UnlockHandler ==
    /\ mode' = "Normal"
    /\ workspaceShown' = TRUE
    /\ missed' = FALSE

DelayTimeout ==
    /\ delay
    /\ delay' = FALSE
    /\ UnlockHandler
    /\ UNCHANGED <<shown, overlap, greeterVars, sessionVars, busVars>>

(* Mutant: a locked greeter's screen goes, too, when an animation ends     *)
AnimationStoppedHides ==
    /\ fading
    /\ fading' = FALSE
    /\ shown' = FALSE
    /\ UNCHANGED <<mode, workspaceShown, delay, missed, overlap,
                   isLocked, shutdownView, hiding, sessionVars, busVars>>

(* The end of LockView's animation: onAnimationPlayFinished                *)
AnimationStopped ==
    /\ fading
    /\ fading' = FALSE
    /\ shown' = (shown /\ ~hiding)
    /\ UNCHANGED <<mode, workspaceShown, delay, missed, overlap,
                   isLocked, shutdownView, hiding, sessionVars, busVars>>

-----------------------------------------------------------------------------
(* GreeterProxy::setLock, with the handlers of lockChanged and             *)
(* showShutdownViewChanged in Greeter.qml and LockView.qml.                *)

GreeterLocked ==
    /\ isLocked' = TRUE
    /\ hiding' = FALSE /\ fading' = TRUE
    /\ shutdownView' = FALSE
    /\ overlap' = (overlap \/ external)

Locked ==
    /\ GreeterLocked
    /\ shown' = TRUE
    /\ UNCHANGED <<mode, workspaceShown, delay, missed>>

(* Where the shutdown view was open its end hides the lock screen at once. *)
Released ==
    /\ isLocked' = FALSE
    /\ IF shown THEN UnlockHandler
       ELSE UNCHANGED <<mode, workspaceShown, missed>>
    /\ delay' = TRUE
    /\ hiding' = TRUE /\ fading' = TRUE
    /\ shown' = (shown /\ ~shutdownView)
    /\ shutdownView' = FALSE
    /\ UNCHANGED overlap

(* Mutant: no delay is started where there is no animation                 *)
ShutdownViewClosedAtOnce ==
    /\ shutdownView
    /\ shutdownView' = FALSE
    /\ shown' = (shown /\ isLocked)
    /\ UNCHANGED <<mode, workspaceShown, missed, overlap, isLocked, delay,
                   hiding, fading>>

(* Nothing to lock or to unlock: only the shutdown view is closed.         *)
ShutdownViewClosed ==
    /\ shutdownView
    /\ shutdownView' = FALSE
    /\ IF isLocked THEN UNCHANGED <<shown, delay>>
       ELSE shown' = FALSE /\ delay' = TRUE
    /\ UNCHANGED <<mode, workspaceShown, missed, overlap, isLocked,
                   hiding, fading>>

SetLock(on) ==
    CASE on /\ ~isLocked -> Locked
      [] ~on /\ isLocked -> Released
      [] on = isLocked /\ shutdownView -> ShutdownViewClosed
      [] OTHER -> UNCHANGED <<screenVars, greeterVars>>

(* GreeterProxy::lock: of a user's session by a request to DDM, which is   *)
(* lost while the socket is not valid.  q: the requests before it.         *)
SendLock(q) ==
    /\ ddm' = IF socket THEN Append(q, [kind |-> "Lock", id |-> activeSession])
              ELSE q
    /\ lost' = (lost \/ ~socket)

GreeterProxyLock ==
    IF activeSession = NoSession
    THEN SetLock(TRUE) /\ UNCHANGED requests
    ELSE SendLock(ddm) /\ UNCHANGED <<screenVars, greeterVars>>

Answering == Cardinality(tasks) + Len(posted)
Room == Len(ddm) + Answering < MaxRequests

-----------------------------------------------------------------------------
(* Requests for the lock screen.                                           *)

(* LockScreen::lock on a hidden lock screen, and GreeterProxy::lock.       *)
Show(q) ==
    /\ shown' = TRUE
    /\ UNCHANGED delay
    /\ IF isLocked \/ activeSession = NoSession
       THEN ddm' = q /\ UNCHANGED lost
       ELSE SendLock(q)
    /\ IF isLocked \/ activeSession # NoSession
       THEN UNCHANGED <<greeterVars, overlap>>
       ELSE GreeterLocked

(* Helper::showLockScreen: the shortcut in the mode Normal; DDM, logind    *)
(* and the switch to another VT in any.                                    *)
ShowLockScreen ==
    /\ ~shown /\ Room
    /\ mode' = "LockScreen" /\ workspaceShown' = FALSE
    /\ Show(ddm)
    /\ UNCHANGED <<missed, sessionVars, socket, tasks, posted>>

(* LockScreenInterface::lock: unlike showLockScreen it does not ask first  *)
(* whether the lock screen is shown; LockScreen::lock does.                *)
ClientLock ==
    /\ mode = "Normal" /\ Room
    /\ mode' = "LockScreen" /\ workspaceShown' = FALSE
    /\ missed' = (missed \/ shown)
    /\ IF shown THEN UNCHANGED <<shown, delay, overlap, greeterVars, requests>>
       ELSE Show(ddm)
    /\ UNCHANGED <<sessionVars, socket, tasks, posted>>

(* LockScreenInterface::switchUser, answered by switchUser of Greeter.qml  *)
SwitchUser ==
    /\ mode = "Normal" /\ Room
    /\ mode' = "LockScreen" /\ workspaceShown' = FALSE
    /\ missed' = (missed \/ shown)
    /\ UNCHANGED delay
    /\ IF shown THEN UNCHANGED <<shown, overlap, greeterVars, requests>>
       ELSE /\ shown' = TRUE
            /\ IF activeSession # NoSession
               THEN SendLock(ddm) /\ UNCHANGED <<overlap, greeterVars>>
               ELSE UNCHANGED requests
                    /\ IF isLocked THEN UNCHANGED <<overlap, greeterVars>>
                       ELSE GreeterLocked
    /\ UNCHANGED <<sessionVars, socket, tasks, posted>>

(* ShortcutAction::ShutdownMenu and LockScreenInterface::shutdown          *)
ShutdownMenu ==
    /\ mode = "Normal"
    /\ mode' = "LockScreen" /\ workspaceShown' = FALSE
    /\ missed' = (missed \/ shown)
    /\ shown' = TRUE
    /\ shutdownView' = (shutdownView \/ ~shown)
    /\ UNCHANGED <<delay, overlap, isLocked, hiding, fading,
                   sessionVars, busVars>>

-----------------------------------------------------------------------------
(* What the user does on the lock screen.                                  *)

(* A click beside the buttons of the shutdown view.                        *)
DismissShutdownView ==
    /\ shown
    /\ ShutdownViewClosed
    /\ UNCHANGED <<sessionVars, busVars>>

(* The buttons Lock and Switch user of the shutdown view, and DDM's        *)
(* messages SwitchToGreeter and UserActivateMessage: GreeterProxy::lock    *)
LockGreeter ==
    /\ Room
    /\ GreeterProxyLock
    /\ UNCHANGED <<sessionVars, socket, tasks, posted>>

(* The password of the selected user: sent to DDM or, while the socket is  *)
(* not valid, checked at once and found right.  unlock and login differ in *)
(* what DDM is sent: who has no session yet logs in, and DDM answers with  *)
(* a new session, of which SessionNew says when it comes.                  *)
Unlock ==
    /\ shown /\ isLocked
    /\ IF socket
       THEN /\ currentUser \in alive /\ Room
            /\ ddm' = Append(ddm, [kind |-> "Unlock", id |-> currentUser])
            /\ UNCHANGED <<lost, screenVars, greeterVars>>
       ELSE SetLock(FALSE) /\ UNCHANGED requests
    /\ UNCHANGED <<sessionVars, socket, tasks, posted>>

(* The user list of the greeter, and UserActivateMessage of DDM            *)
SelectUser(s) ==
    /\ currentUser' = s
    /\ UNCHANGED <<screenVars, greeterVars, alive, activeSession, external,
                   busVars>>

-----------------------------------------------------------------------------
(* logind, DDM and the thread pool.                                        *)

(* GreeterProxy::onSessionNew: a session of DDM becomes the active one.    *)
SessionNew(s) ==
    /\ s \notin alive
    /\ alive' = alive \cup {s}
    /\ activeSession' = s
    /\ lost' = (lost \/ (shown /\ ~isLocked))
    /\ UNCHANGED <<currentUser, external, socket, ddm, tasks, posted>>
    /\ IF currentUser = s THEN SetLock(FALSE)
       ELSE UNCHANGED <<screenVars, greeterVars>>

(* Mutant: the active session is removed and stays the active one          *)
SessionRemovedKept(s) ==
    /\ s \in alive
    /\ alive' = alive \ {s}
    /\ UNCHANGED <<currentUser, external, busVars, activeSession>>
    /\ IF activeSession = s THEN SetLock(TRUE)
       ELSE UNCHANGED <<screenVars, greeterVars>>

SessionRemoved(s) ==
    /\ s \in alive
    /\ alive' = alive \ {s}
    /\ activeSession' = IF activeSession = s THEN NoSession ELSE activeSession
    /\ UNCHANGED <<currentUser, external, busVars>>
    /\ IF activeSession = s THEN SetLock(TRUE)
       ELSE UNCHANGED <<screenVars, greeterVars>>

(* Mutant: a shown lock screen is taken for a locked greeter               *)
LockSignalHidden ==
    /\ ddm # <<>> /\ Head(ddm).kind = "Lock"
    /\ IF Head(ddm).id \in alive /\ ~shown
       THEN /\ Answering < MaxRequests
            /\ tasks' = tasks \cup {Head(ddm)}
            /\ mode' = "LockScreen" /\ workspaceShown' = FALSE
            /\ Show(Tail(ddm))
            /\ UNCHANGED missed
       ELSE ddm' = Tail(ddm) /\ UNCHANGED <<lost, tasks, screenVars, greeterVars>>
    /\ UNCHANGED <<sessionVars, socket, posted>>

(* DDM has logind lock a session: its Lock signal reaches                  *)
(* Helper::onSessionLock, whatever session it is of, and                   *)
(* GreeterProxy::onSessionLock.                                            *)
LockSignal ==
    /\ ddm # <<>> /\ Head(ddm).kind = "Lock"
    /\ IF Head(ddm).id \in alive
       THEN Answering < MaxRequests /\ tasks' = tasks \cup {Head(ddm)}
       ELSE UNCHANGED tasks
    /\ IF Head(ddm).id \in alive /\ ~shown
       THEN /\ mode' = "LockScreen" /\ workspaceShown' = FALSE
            /\ Show(Tail(ddm))
            /\ UNCHANGED missed
       ELSE ddm' = Tail(ddm) /\ UNCHANGED <<lost, screenVars, greeterVars>>
    /\ UNCHANGED <<sessionVars, socket, posted>>

(* It unlocks one whose password is right: Helper::onSessionUnlock emits   *)
(* LockScreen::unlock, whatever session the Unlock signal is of and        *)
(* whatever holds the lock screen.                                         *)
UnlockSignal ==
    /\ ddm # <<>> /\ Head(ddm).kind = "Unlock"
    /\ ddm' = Tail(ddm)
    /\ IF Head(ddm).id \in alive
       THEN /\ Answering < MaxRequests
            /\ tasks' = tasks \cup {Head(ddm)}
            /\ UnlockHandler
       ELSE UNCHANGED <<tasks, mode, workspaceShown, missed>>
    /\ UNCHANGED <<shown, delay, overlap, greeterVars, sessionVars, socket,
                   lost, posted>>

(* The password is refused: LoginFailed.                                   *)
UnlockRefused ==
    /\ ddm # <<>> /\ Head(ddm).kind = "Unlock"
    /\ ddm' = Tail(ddm)
    /\ UNCHANGED <<screenVars, greeterVars, sessionVars, socket, lost, tasks,
                   posted>>

Signals == LockSignal \/ UnlockSignal \/ UnlockRefused

(* A task asks who is active and posts a call: setLock or, for an Unlock   *)
(* of another session, a request to lock that one back.                    *)
TaskRuns(t) ==
    /\ t \in tasks
    /\ tasks' = tasks \ {t}
    /\ LET call == IF activeSession = t.id THEN t.kind ELSE "LockBack"
       IN IF \/ activeSession = NoSession
             \/ activeSession # t.id /\ t.kind = "Lock"
          THEN UNCHANGED posted
          ELSE posted' = Append(posted, [kind |-> call, id |-> t.id])
    /\ UNCHANGED <<screenVars, greeterVars, sessionVars, socket, requests>>

Pool == \E t \in Request : TaskRuns(t)

DeliverPosted ==
    /\ posted # <<>>
    /\ posted' = Tail(posted)
    /\ CASE Head(posted).kind = "Lock" -> SetLock(TRUE) /\ UNCHANGED ddm
         [] Head(posted).kind = "Unlock" -> SetLock(FALSE) /\ UNCHANGED ddm
         [] OTHER ->
              /\ ddm' = IF socket THEN Append(ddm, [kind |-> "Lock",
                                                   id |-> Head(posted).id])
                        ELSE ddm
              /\ UNCHANGED <<screenVars, greeterVars>>
    /\ UNCHANGED <<sessionVars, socket, lost, tasks>>

SocketChanges ==
    /\ "socket" \in Uses
    /\ socket' = ~socket
    /\ UNCHANGED <<screenVars, greeterVars, sessionVars, requests, tasks, posted>>

-----------------------------------------------------------------------------
(* A client of ext_session_lock_v1.  What it does finds the lock screen     *)
(* hidden where an animation of the greeter ended meanwhile, and is then   *)
(* ignored: m_sessionLock stays.                                           *)

ExternalLock ==
    /\ "external" \in Uses
    /\ ~external /\ ~shown
    /\ external' = TRUE
    /\ shown' = TRUE
    /\ mode' = "LockScreen" /\ workspaceShown' = FALSE
    /\ UNCHANGED <<delay, missed, overlap, greeterVars, alive, activeSession,
                   currentUser, busVars>>

ExternalUnlock ==
    /\ external /\ shown
    /\ external' = FALSE
    /\ shown' = FALSE
    /\ UnlockHandler
    /\ UNCHANGED <<delay, overlap, greeterVars, alive, activeSession,
                   currentUser, busVars>>

(* The client died: the greeter takes over.                                *)
ExternalAbandoned ==
    /\ external /\ shown /\ Room
    /\ external' = FALSE
    /\ GreeterProxyLock
    /\ UNCHANGED <<alive, activeSession, currentUser, socket, tasks,
                   posted>>

-----------------------------------------------------------------------------
(* A user's session is active and the desktop is in use.                   *)
Init ==
    /\ mode = "Normal" /\ workspaceShown = TRUE
    /\ shown = FALSE /\ delay = FALSE /\ external = FALSE
    /\ missed = FALSE /\ overlap = FALSE /\ lost = FALSE
    /\ isLocked = FALSE /\ shutdownView = FALSE
    /\ hiding = FALSE /\ fading = FALSE
    /\ \E s \in Sessions : alive = {s} /\ activeSession = s /\ currentUser = s
    /\ socket = TRUE
    /\ ddm = <<>> /\ tasks = {} /\ posted = <<>>

Screen == ShowLockScreen \/ ClientLock \/ SwitchUser \/ ShutdownMenu \/ DelayTimeout
          \/ AnimationStopped
User == \/ DismissShutdownView \/ LockGreeter \/ Unlock
        \/ \E s \in Sessions : SelectUser(s)
Logind == \/ \E s \in Sessions : SessionNew(s) \/ SessionRemoved(s)
          \/ Signals
          \/ Pool \/ DeliverPosted \/ SocketChanges
External == ExternalLock \/ ExternalUnlock \/ ExternalAbandoned

Next == Screen \/ User \/ Logind \/ External

(* Timers fire, animations end, posted calls and signals are delivered and *)
(* the pool runs its tasks; DDM and logind answer requests.                *)
Fairness ==
    /\ WF_vars(DelayTimeout) /\ WF_vars(AnimationStopped)
    /\ WF_vars(Signals)
    /\ WF_vars(Pool)
    /\ WF_vars(DeliverPosted)

Spec == Init /\ [][Next]_vars
FairSpec == Spec /\ Fairness

-----------------------------------------------------------------------------
(* Properties.                                                             *)

TypeOK ==
    /\ mode \in {"Normal", "LockScreen"} /\ workspaceShown \in BOOLEAN
    /\ shown \in BOOLEAN /\ delay \in BOOLEAN /\ external \in BOOLEAN
    /\ missed \in BOOLEAN /\ overlap \in BOOLEAN /\ lost \in BOOLEAN
    /\ isLocked \in BOOLEAN /\ shutdownView \in BOOLEAN
    /\ hiding \in BOOLEAN /\ fading \in BOOLEAN
    /\ alive \subseteq Sessions
    /\ activeSession \in alive \cup {NoSession} /\ currentUser \in Sessions
    /\ socket \in BOOLEAN
    /\ ddm \in Seq(Request)
    /\ tasks \subseteq Request /\ posted \in Seq(Call)

(* A locked greeter is on the screen, whatever fades, is dismissed, comes  *)
(* late or comes twice.  True as long as no client of ext_session_lock_v1  *)
(* holds the same lock screen.                                             *)
GreeterShown == isLocked /\ ~overlap => shown

(* Without a lock screen the desktop is in use again, or will be in a      *)
(* moment, unless a request came while the lock screen was fading.         *)
DesktopBack ==
    ~shown /\ ~delay /\ ~missed /\ ~overlap => mode = "Normal" /\ workspaceShown

(* A lock screen that is shown gets a greeter that can be unlocked, or a   *)
(* shutdown view that can be dismissed, or it goes.                        *)
LockScreenHasExit ==
    shown ~> (isLocked \/ shutdownView \/ ~shown \/ external \/ lost)

(* The desktop is displayed once the lock screen's animation and the delay *)
(* after it are over.                                                      *)
DesktopAfterLock == ~shown /\ ~delay => workspaceShown
=============================================================================

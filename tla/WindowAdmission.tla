-------------------------- MODULE WindowAdmission --------------------------
(***************************************************************************)
(* How ShellHandler admits toplevel windows: the splash shown before an    *)
(* application's window exists, the question to an external resolver which *)
(* application a new window belongs to, and the wrapper each window gets   *)
(* in the end, either the splash's own or a new one.                       *)
(*                                                                         *)
(* Everything runs on one event loop; what interleaves are its callbacks:  *)
(* the application's dconfig, the resolver's answers, timers, a queued QML *)
(* call, and the clients, which add and remove windows meanwhile.  The     *)
(* resolver itself and the DConfig library are external.                   *)
(***************************************************************************)
EXTENDS Naturals

CONSTANTS
    Apps,           \* application ids
    NoApp,          \* the empty id: the application is not known
    Windows,        \* the xdg and XWayland toplevel surfaces of the clients
    XWindows,       \* the XWayland ones, which may come and go repeatedly
    AppOf,          \* the application each window belongs to
    DdeWindows,     \* the xdg windows whose client binds a DDE shell surface
    MaxRequests,    \* bound: questions one resolver is asked
    MaxObjects      \* bound: splash objects launchers hold of an application

ASSUME AdmissionAssumption ==
    /\ NoApp \notin Apps
    /\ XWindows \subseteq Windows
    /\ DdeWindows \subseteq Windows \ XWindows
    /\ AppOf \in [Windows -> Apps]
    /\ MaxRequests \in Nat
    /\ MaxObjects \in Nat

VARIABLES
    splashObjects,  \* the SplashResource objects of each application
    config,         \* WindowConfigStore: the state of each AppConfig
    waiting,        \* apps with a callback connected to their AppConfig
    pendingPrelaunch, \* m_pendingPrelaunchAppIds
    prelaunch,      \* m_prelaunchWrappers: how many of each application
    closedSplash,   \* m_closedSplashAppIds
    resolver,       \* m_resolver exists
    nextRequestId,  \* AppIdResolver::m_nextRequestId
    requests,       \* what the resolver was asked (external)
    callbacks,      \* AppIdResolverManager::m_callbacks
    present,        \* the windows that exist now
    gone,           \* the xdg windows that are destroyed for good
    resolving,      \* m_pendingAppIdResolveToplevels
    told,           \* windows told to close in place of being admitted
    wrapped,        \* how many SurfaceWrappers each window has
    mapped,         \* the windows whose surface is mapped
    splashItem,     \* windows whose wrapper still has the splash's QML item
    hideQueued,     \* windows with a queued call of hideAndDestroy
    flagged,        \* windows with the flag ActiveControlState::MappedOrSplash
    ddeSurface,     \* windows with a DDEShellSurfaceInterface
    listening,      \* windows with a listener for a late DDE shell surface
    ddeHandled      \* windows whose DDE shell surface is connected

splashVars == <<splashObjects, config, waiting, pendingPrelaunch, prelaunch,
                closedSplash>>
askVars == <<resolver, nextRequestId, requests, callbacks>>
worldVars == <<present, gone>>
itemVars == <<splashItem, hideQueued, flagged>>
wrapperVars == <<told, wrapped>>
ddeVars == <<ddeSurface, listening, ddeHandled>>
vars == <<splashVars, askVars, worldVars, resolving, wrapperVars, mapped,
          itemVars, ddeVars>>

ConfigStates == {"none", "loading", "loaded", "failed"}
Questions == [id : 1 .. MaxRequests, window : Windows]

Init ==
    /\ splashObjects = [a \in Apps |-> 0]
    /\ config = [a \in Apps |-> "none"]
    /\ waiting = {}
    /\ pendingPrelaunch = {}
    /\ prelaunch = [a \in Apps |-> 0]
    /\ closedSplash = {}
    /\ resolver = FALSE
    /\ nextRequestId = 1
    /\ requests = {}
    /\ callbacks = {}
    /\ present = {}
    /\ gone = {}
    /\ resolving = {}
    /\ told = {}
    /\ wrapped = [w \in Windows |-> 0]
    /\ mapped = {}
    /\ splashItem = {}
    /\ hideQueued = {}
    /\ flagged = {}
    /\ ddeSurface = {}
    /\ listening = {}
    /\ ddeHandled = {}

-----------------------------------------------------------------------------
(* The splash of an application that is being launched.                    *)

(* createPrelaunchSplash, for an application that still waits              *)
CreateSplash(a) ==
    /\ prelaunch' = [prelaunch EXCEPT ![a] = @ + 1]
    /\ pendingPrelaunch' = pendingPrelaunch \ {a}

(* skipSplash: the request is given up, and with it any that waits         *)
SkipSplash(a) ==
    /\ pendingPrelaunch' = pendingPrelaunch \ {a}
    /\ UNCHANGED prelaunch

(* Mutant: a splash that is shown already does not count as a duplicate    *)
DuplicatePendingOnly(a) == a \in pendingPrelaunch

Duplicate(a) == prelaunch[a] > 0 \/ a \in pendingPrelaunch

(***************************************************************************)
(* withSplashConfigFor: a configuration that is read answers at once, one  *)
(* that is not is waited for.  wanted is the application's switch,         *)
(* enablePrelaunchSplash, at the time it is read.                          *)
(***************************************************************************)
WithSplashConfig(a, wanted) ==
    \/ /\ config[a] = "loaded"
       /\ IF wanted THEN CreateSplash(a) ELSE SkipSplash(a)
       /\ UNCHANGED <<config, waiting>>
    \/ /\ config[a] = "failed"
       /\ SkipSplash(a)
       /\ UNCHANGED <<config, waiting>>
    \/ /\ config[a] \in {"none", "loading"}
       /\ config' = [config EXCEPT ![a] = "loading"]
       /\ waiting' = waiting \cup {a}
       /\ pendingPrelaunch' = pendingPrelaunch \cup {a}
       /\ UNCHANGED prelaunch

(* A launcher asks for a splash; on is the switch for all applications     *)
RequestSplash(a, on, wanted) ==
    /\ splashObjects[a] < MaxObjects
    /\ splashObjects' = [splashObjects EXCEPT ![a] = @ + 1]
    /\ IF ~on \/ Duplicate(a)
       THEN SkipSplash(a) /\ UNCHANGED <<config, waiting>>
       ELSE WithSplashConfig(a, wanted)
    /\ UNCHANGED <<closedSplash, askVars, worldVars, resolving, wrapperVars,
                   mapped, itemVars, ddeVars>>

(* The configuration of an application has been read, or could not be      *)
ConfigInitialized(a, outcome, wanted) ==
    /\ config[a] = "loading"
    /\ config' = [config EXCEPT ![a] = outcome]
    /\ waiting' = waiting \ {a}
    /\ \/ /\ a \in waiting /\ outcome = "loaded" /\ wanted
          /\ a \in pendingPrelaunch
          /\ CreateSplash(a)
       \/ /\ a \in waiting /\ ~(outcome = "loaded" /\ wanted)
          /\ SkipSplash(a)
       \/ /\ a \notin waiting \/ a \notin pendingPrelaunch
          /\ UNCHANGED <<prelaunch, pendingPrelaunch>>
    /\ UNCHANGED <<splashObjects, closedSplash, askVars, worldVars, resolving,
                   wrapperVars, mapped, itemVars, ddeVars>>

(* A launcher destroys its splash object: handlePrelaunchSplashClosed      *)
LauncherClosesSplash(a) ==
    /\ splashObjects[a] > 0
    /\ splashObjects' = [splashObjects EXCEPT ![a] = @ - 1]
    /\ pendingPrelaunch' = pendingPrelaunch \ {a}
    /\ prelaunch' = [prelaunch EXCEPT ![a] = IF @ > 0 THEN @ - 1 ELSE 0]
    /\ UNCHANGED <<config, waiting, closedSplash, askVars, worldVars,
                   resolving, wrapperVars, mapped, itemVars, ddeVars>>

(* The user closes the splash: the window it announced is to be refused    *)
UserClosesSplash(a) ==
    /\ prelaunch[a] > 0
    /\ closedSplash' = closedSplash \cup {a}
    /\ prelaunch' = [prelaunch EXCEPT ![a] = @ - 1]
    /\ UNCHANGED <<splashObjects, config, waiting, pendingPrelaunch, askVars,
                   worldVars, resolving, wrapperVars, mapped, itemVars,
                   ddeVars>>

(* No window came in time                                                  *)
SplashTimeout(a) ==
    /\ prelaunch[a] > 0
    /\ prelaunch' = [prelaunch EXCEPT ![a] = @ - 1]
    /\ UNCHANGED <<splashObjects, config, waiting, pendingPrelaunch,
                   closedSplash, askVars, worldVars, resolving, wrapperVars,
                   mapped, itemVars, ddeVars>>

-----------------------------------------------------------------------------
(* The wrapper of a window.                                                *)

(* What every admitted window goes through: a DDE shell surface it has is  *)
(* connected, otherwise (xdg only) one that may come later is listened for *)
Connect(S) ==
    /\ ddeHandled' = ddeHandled \cup (S \cap ddeSurface)
    /\ listening' = listening \cup (S \ (ddeSurface \cup XWindows))
    /\ UNCHANGED ddeSurface

(* New wrappers for windows whose application is not known or has no splash *)
WrapNew(S) ==
    /\ wrapped' = [w \in Windows |->
                      IF w \in S THEN wrapped[w] + 1 ELSE wrapped[w]]
    /\ Connect(S)
    /\ UNCHANGED <<told, itemVars>>

(* Mutant: hideAndDestroy is left to the next change of mapped             *)
QueueOnMapOnly(w) == UNCHANGED hideQueued

(* hideAndDestroy is queued at once where the window is mapped already     *)
QueueOnTake(w) == hideQueued' = hideQueued \cup ({w} \cap mapped)

(* convertToNormalSurface: the window takes over the wrapper of the splash *)
TakeSplash(w) ==
    /\ wrapped' = [wrapped EXCEPT ![w] = @ + 1]
    /\ splashItem' = splashItem \cup {w}
    /\ flagged' = flagged \cup {w}
    /\ QueueOnTake(w)
    /\ Connect({w})
    /\ UNCHANGED told

(* One closed splash refuses one window                                    *)
UseUpClosed(a) == closedSplash' = closedSplash \ {a}

(* ensureXdgWrapper, ensureXwaylandWrapper for a window whose app is known *)
EnsureWrapper(w, a) ==
    \/ /\ a \in closedSplash
       /\ UseUpClosed(a)
       /\ told' = told \cup {w}
       /\ UNCHANGED <<pendingPrelaunch, prelaunch, wrapped, itemVars, ddeVars>>
    \/ /\ a \notin closedSplash
       /\ pendingPrelaunch' = pendingPrelaunch \ {a}
       /\ \/ /\ prelaunch[a] > 0
             /\ prelaunch' = [prelaunch EXCEPT ![a] = @ - 1]
             /\ TakeSplash(w)
          \/ /\ prelaunch[a] = 0
             /\ UNCHANGED prelaunch
             /\ WrapNew({w})
       /\ UNCHANGED closedSplash

-----------------------------------------------------------------------------
(* Windows and the resolver.                                               *)

SplashesInPlay == closedSplash # {} \/ \E a \in Apps : prelaunch[a] > 0

(* Mutant: the request id is not advanced                                  *)
SameId == UNCHANGED nextRequestId

AdvanceId == nextRequestId' = nextRequestId + 1

(* AppIdResolverManager::resolvePidfd, with a resolver that can be asked   *)
Ask(w) ==
    /\ nextRequestId <= MaxRequests
    /\ requests' = requests \cup {[id |-> nextRequestId, window |-> w]}
    /\ callbacks' = {c \in callbacks : c.id # nextRequestId}
                        \cup {[id |-> nextRequestId, window |-> w]}
    /\ AdvanceId
    /\ UNCHANGED resolver

(***************************************************************************)
(* onXdgToplevelSurfaceAdded, notify_associate.  usable: the client's pidfd *)
(* is there and can be duplicated.                                         *)
(***************************************************************************)
WindowAdded(w, usable) ==
    /\ w \notin present \cup gone
    /\ present' = present \cup {w}
    /\ IF SplashesInPlay /\ resolver /\ usable
       THEN /\ Ask(w)
            /\ resolving' = resolving \cup {w}
            /\ UNCHANGED <<wrapperVars, itemVars, ddeVars>>
       ELSE /\ WrapNew({w})
            /\ UNCHANGED <<askVars, resolving>>
    /\ UNCHANGED <<splashVars, gone, mapped>>

(* saveLastSize reads the configuration of the application                 *)
SaveLastSize(a) ==
    \/ UNCHANGED config
    \/ config' = [config EXCEPT ![a] = IF @ = "none" THEN "loading" ELSE @]

(* Mutant: a window that goes while it is resolved stays on the list       *)
KeepResolve(w) == UNCHANGED resolving

(* m_pendingAppIdResolveToplevels.removeOne(surface)                       *)
CancelResolve(w) == resolving' = resolving \ {w}

(* onXdgToplevelSurfaceRemoved, notify_dissociate                          *)
WindowRemoved(w) ==
    /\ w \in present
    /\ present' = present \ {w}
    /\ gone' = IF w \in XWindows THEN gone ELSE gone \cup {w}
    /\ mapped' = mapped \ {w}
    /\ told' = told \ {w}
    /\ ddeSurface' = ddeSurface \ {w}
    /\ \/ /\ wrapped[w] = 0
          /\ CancelResolve(w)
          /\ UNCHANGED <<config, wrapped, itemVars, ddeHandled>>
       \/ /\ wrapped[w] > 0
          /\ wrapped' = [wrapped EXCEPT ![w] = @ - 1]
          /\ SaveLastSize(AppOf[w])
          /\ splashItem' = splashItem \ {w}
          /\ hideQueued' = hideQueued \ {w}
          /\ flagged' = flagged \ {w}
          /\ ddeHandled' = ddeHandled \ {w}
          /\ UNCHANGED resolving
    /\ UNCHANGED <<splashObjects, waiting, pendingPrelaunch, prelaunch,
                   closedSplash, askVars, listening>>

(* A client binds the one resolver there may be                            *)
ResolverBound ==
    /\ ~resolver
    /\ resolver' = TRUE
    /\ nextRequestId' = 1
    /\ requests' = {}
    /\ UNCHANGED <<callbacks, splashVars, worldVars, resolving, wrapperVars,
                   mapped, itemVars, ddeVars>>

(* Mutant: a callback acts for any window, on the list or not              *)
AlwaysPending(w) == w \in Windows

(* A callback acts only for a window that is still on the list             *)
StillPending(w) == w \in resolving

(***************************************************************************)
(* The resolver answers question q with application a: handleResolved and  *)
(* the callback, which belongs to the window that asked under this id.     *)
(***************************************************************************)
Answer(q, a) ==
    /\ resolver
    /\ q \in requests
    /\ \E c \in callbacks :
          /\ c.id = q.id
          /\ callbacks' = callbacks \ {c}
          /\ resolving' = resolving \ {c.window}
          /\ \/ /\ ~StillPending(c.window)
                /\ UNCHANGED <<pendingPrelaunch, prelaunch, closedSplash,
                               wrapperVars, itemVars, ddeVars>>
             \/ /\ StillPending(c.window)
                /\ a = NoApp
                /\ WrapNew({c.window})
                /\ UNCHANGED <<pendingPrelaunch, prelaunch, closedSplash>>
             \/ /\ StillPending(c.window)
                /\ a # NoApp
                /\ EnsureWrapper(c.window, a)
    /\ UNCHANGED <<splashObjects, config, waiting, resolver, nextRequestId,
                   requests, worldVars, mapped>>

(* Mutant: the callbacks are dropped without being called                  *)
ResolverGoneSilently ==
    /\ resolver
    /\ resolver' = FALSE
    /\ nextRequestId' = 1
    /\ requests' = {}
    /\ callbacks' = {}
    /\ UNCHANGED <<splashVars, worldVars, resolving, wrapperVars, mapped,
                   itemVars, ddeVars>>

(* resolverGone: whoever waits is admitted as a window of an unknown app   *)
ResolverGone ==
    LET asked == {c.window : c \in callbacks} \cap resolving
    IN  /\ resolver
        /\ resolver' = FALSE
        /\ nextRequestId' = 1
        /\ requests' = {}
        /\ callbacks' = {}
        /\ WrapNew(asked)
        /\ resolving' = resolving \ asked
        /\ UNCHANGED <<splashVars, worldVars, mapped>>

-----------------------------------------------------------------------------
(* The surfaces of the windows.                                            *)

(* SurfaceWrapper::onMappedChanged; without a wrapper nobody listens       *)
SurfaceMapped(w) ==
    /\ w \in present \ mapped
    /\ mapped' = mapped \cup {w}
    /\ flagged' = IF wrapped[w] > 0 THEN flagged \cup {w} ELSE flagged
    /\ hideQueued' = hideQueued \cup (splashItem \cap {w})
    /\ UNCHANGED <<splashVars, askVars, worldVars, resolving, wrapperVars,
                   splashItem, ddeVars>>

SurfaceUnmapped(w) ==
    /\ w \in mapped
    /\ mapped' = mapped \ {w}
    /\ flagged' = flagged \ {w}
    /\ hideQueued' = hideQueued \cup (splashItem \cap {w})
    /\ UNCHANGED <<splashVars, askVars, worldVars, resolving, wrapperVars,
                   splashItem, ddeVars>>

(* hideAndDestroy and onPrelaunchSplashDestroyRequested                    *)
HideSplash(w) ==
    /\ w \in hideQueued
    /\ hideQueued' = hideQueued \ {w}
    /\ \/ /\ w \in splashItem
          /\ splashItem' = splashItem \ {w}
          /\ flagged' = IF w \in mapped THEN flagged \cup {w} ELSE flagged \ {w}
       \/ /\ w \notin splashItem
          /\ UNCHANGED <<splashItem, flagged>>
    /\ UNCHANGED <<splashVars, askVars, worldVars, resolving, wrapperVars,
                   mapped, ddeVars>>

(***************************************************************************)
(* surfaceCreated of the DDE shell manager.  The listener of this window   *)
(* connects it and then disconnects every listener of the shell handler:   *)
(* disconnect(ddeShellManager, &surfaceCreated, this, nullptr).            *)
(***************************************************************************)
DdeSurfaceCreated(w) ==
    /\ w \in (present \cap DdeWindows) \ ddeSurface
    /\ ddeSurface' = ddeSurface \cup {w}
    /\ \/ /\ w \in listening
          /\ ddeHandled' = ddeHandled \cup {w}
          /\ listening' = {}
       \/ /\ w \notin listening
          /\ UNCHANGED <<ddeHandled, listening>>
    /\ UNCHANGED <<splashVars, askVars, worldVars, resolving, wrapperVars,
                   mapped, itemVars>>

-----------------------------------------------------------------------------
SplashStep ==
    \E a \in Apps :
        \/ \E on, wanted \in BOOLEAN : RequestSplash(a, on, wanted)
        \/ \E outcome \in {"loaded", "failed"}, wanted \in BOOLEAN :
              ConfigInitialized(a, outcome, wanted)
        \/ LauncherClosesSplash(a)
        \/ UserClosesSplash(a)
        \/ SplashTimeout(a)

WindowStep ==
    \E w \in Windows :
        \/ \E usable \in BOOLEAN : WindowAdded(w, usable)
        \/ WindowRemoved(w)
        \/ SurfaceMapped(w)
        \/ SurfaceUnmapped(w)
        \/ HideSplash(w)
        \/ DdeSurfaceCreated(w)

AnswerTo(w) ==
    \E q \in requests : q.window = w /\ \E a \in {NoApp, AppOf[w]} : Answer(q, a)

ResolverStep ==
    \/ ResolverBound
    \/ ResolverGone
    \/ \E w \in Windows : AnswerTo(w)

Next == SplashStep \/ WindowStep \/ ResolverStep

(***************************************************************************)
(* A queued call runs, and the resolver (external; nothing bounds its time *)
(* in this code) answers what it is asked as long as it is there.          *)
(***************************************************************************)
Fairness ==
    \A w \in Windows : WF_vars(HideSplash(w)) /\ WF_vars(AnswerTo(w))

SafeSpec == Init /\ [][Next]_vars
Spec == SafeSpec /\ Fairness

-----------------------------------------------------------------------------
(* Types and ranges of all variables of the shell handler.                 *)
TypeOK ==
    /\ splashObjects \in [Apps -> 0 .. MaxObjects]
    /\ config \in [Apps -> ConfigStates]
    /\ waiting \subseteq Apps
    /\ pendingPrelaunch \subseteq Apps
    /\ prelaunch \in [Apps -> Nat]
    /\ closedSplash \subseteq Apps
    /\ resolver \in BOOLEAN
    /\ nextRequestId \in 1 .. MaxRequests + 1
    /\ requests \subseteq Questions
    /\ callbacks \subseteq Questions
    /\ present \subseteq Windows
    /\ gone \subseteq Windows \ present
    /\ resolving \subseteq present
    /\ told \subseteq present
    /\ wrapped \in [Windows -> Nat]
    /\ mapped \subseteq present
    /\ splashItem \subseteq present
    /\ hideQueued \subseteq present
    /\ flagged \subseteq present
    /\ ddeSurface \subseteq present \cap DdeWindows
    /\ listening \subseteq Windows \ XWindows
    /\ ddeHandled \subseteq ddeSurface

(***************************************************************************)
(* An application has at most one splash, and none while a request for one *)
(* waits for its configuration, however requests, closings, timeouts and   *)
(* windows follow each other.                                              *)
(***************************************************************************)
OneSplashPerApp ==
    \A a \in Apps :
        /\ prelaunch[a] <= 1
        /\ a \in pendingPrelaunch => prelaunch[a] = 0 /\ a \in waiting

(***************************************************************************)
(* Every window there is has one wrapper, or was told to close, or is on   *)
(* the list of those to be resolved and has a callback that will be called: *)
(* no order of answers, departures and returns forgets one or wraps one    *)
(* twice.                                                                  *)
(***************************************************************************)
Admitted(w) == wrapped[w] = 1 /\ w \notin resolving \cup told
Refused(w) == wrapped[w] = 0 /\ w \in told \ resolving
Asking(w) ==
    /\ wrapped[w] = 0
    /\ w \in resolving \ told
    /\ \E c \in callbacks : c.window = w

NobodyForgotten ==
    \A w \in Windows :
        IF w \in present THEN Admitted(w) \/ Refused(w) \/ Asking(w)
        ELSE wrapped[w] = 0

(***************************************************************************)
(* The callback kept under an id is that of the window the resolver was    *)
(* asked about under this id, also over the loss of one resolver and the   *)
(* binding of another: no window is given another one's application.       *)
(***************************************************************************)
AnswersMatch ==
    /\ callbacks \subseteq requests
    /\ \A q, r \in requests : q.id = r.id => q = r
    /\ ~resolver => requests = {}

(***************************************************************************)
(* A wrapper that took over a splash counts as mapped or splash only while *)
(* it is one of the two, and a mapped one has its splash taken away.       *)
(***************************************************************************)
FlagIsTrue ==
    /\ flagged \subseteq mapped \cup splashItem
    /\ splashItem \cap mapped \subseteq hideQueued \cap flagged

(***************************************************************************)
(* A window is told to close only where the user closed a splash of its    *)
(* own application, and each closed splash refuses one window.             *)
(***************************************************************************)
RefusesOnlyCancelled ==
    [][\A w \in told' \ told :
          AppOf[w] \in closedSplash \ closedSplash']_vars

(***************************************************************************)
(* Every window that waits for the resolver is admitted, refused or gone   *)
(* in the end, and every splash that a mapped window took over disappears. *)
(***************************************************************************)
EverybodyDecided ==
    \A w \in Windows :
        /\ w \in resolving ~> w \notin resolving
        /\ w \in splashItem \cap mapped ~> w \notin splashItem

(***************************************************************************)
(* What the comment in handlePrelaunchSplashRequested says of a waiting    *)
(* request: it becomes a splash "if pending still exists; otherwise a real *)
(* window appeared and cleared it" (or the launcher withdrew it, or the    *)
(* configuration said no).                                                 *)
(***************************************************************************)
PendingClearedByWindow ==
    [][\A a \in pendingPrelaunch \ pendingPrelaunch' :
          \/ prelaunch'[a] > prelaunch[a]
          \/ \E w \in Windows : AppOf[w] = a /\ wrapped'[w] > wrapped[w]
          \/ splashObjects'[a] < splashObjects[a]
          \/ config'[a] # config[a]]_vars

(***************************************************************************)
(* What the comment in ensureXdgWrapper says of a window without a DDE     *)
(* shell surface: one that is created late is handled.                     *)
(***************************************************************************)
LateDdeHandled ==
    \A w \in ddeSurface : wrapped[w] > 0 => w \in ddeHandled

=============================================================================

# DeckShell: TLA+ models of the compositor and the gamepad library

DeckShell is a Wayland compositor (`compositor/`, derived from treeland: Qt,
QML, Waylib over wlroots) with a gamepad input library (`lib/gamepad/`), a
client library for its DDE shell protocol and small auxiliary programs. This
directory keeps the TLA+ modules that model its control logic, the TLC
configurations that check them on small instances, and the proofs of the
theorems that hold for every size.

Contents

1. [The system](#1-the-system): components, state, operations, hazards
2. [Plan](#2-plan): modules, order, compositions, theorems
3. [The modules](#3-the-modules): how state and actions correspond to the code
4. [Runs](#4-runs): what each shows, bounds, fairness
5. [Proofs](#5-proofs): theorems, assumptions, invariants
6. [What the models say about the code](#6-what-the-models-say-about-the-code)
7. [Not modelled](#7-not-modelled)

Paths below are relative to `src/compositor/src/` unless they begin with `lib/`
(then `src/lib/`).

## 1. The system

The compositor is one process with one Qt event loop. Wayland requests, input
events, timers, D-Bus signals and QML signals are delivered one at a time; a
handler runs to its end with every slot it calls directly. There are no data
races between handlers; what interleaves are the handlers, and what goes wrong
goes wrong *between* them: state kept across two callbacks, calls queued to a
later turn of the loop, timers, answers of other processes, and nested signals
that re-enter a component in the middle of an update. The exceptions are named
below: the greeter's thread pool and the gamepad device thread.

| Component | State | Operations | Interacts with |
|---|---|---|---|
| **Workspaces and activation**: `workspace/*`, `seat/helper.cpp`, `surface/surfacewrapper.cpp`, `core/shellhandler.cpp` | ordered workspace models with an activation history each, current index, per window its workspace, hidden flag and three capability flags, the activated window, the mode | open, map, minimize, close, click, force-activate, switch, swipe, create, remove, reorder, move to a workspace or to all | overlays block activation; session removal clears histories |
| **Session lock**: `core/lockscreen.cpp`, `Helper::onExtSessionLock` | held lock, shown, per output a lock surface or a fallback item, grace timer, mode | lock, draw, withdraw, unlock, cancel, abandon, (un)plug output, grace timeout | task switcher and multitask view share the mode |
| **Greeter and DDM** (build with DDM): `greeter/*`, lock screen QML | greeter lock flag, socket, sessions, fades and delay timer | lock, login, unlock, switch user, shut down, logind signals | lock screen, sessions |
| **Shell handler and splash**: `core/shellhandler.cpp`, `modules/app-id-resolver`, `modules/prelaunch-splash`, `core/windowconfigstore.cpp` | pending and shown splashes, closed splashes, windows being resolved, callbacks by request id | request / close splash, window added / removed, resolver bound / answers / lost, configuration read | wrappers of the activation model |
| **Surface states, show desktop**: `surface/*` | state, previous state, pending state, running animations | maximize, tile, fullscreen, minimize, show desktop | activation |
| **Sessions**: `session/session.cpp` | sessions, active session, sockets, XWayland | ensure, activate, remove | activation, greeter |
| **Outputs**: `output/*`, `core/rootsurfacecontainer.cpp` | outputs, copy/extension mode, configuration | plug, unplug, commit, mirror | lock screen, windows |
| **Foreign toplevels**, **capture**, **shortcuts**, **wallpaper**, **DDE shell**, other protocol modules: `modules/*` | handle and session objects of clients | protocol requests and events | all of the above |
| **Gamepad backend**: `lib/gamepad/src/backend` | known and open devices, availability, last error, retry times, session gate | hotplug, open, grab, retry, gate, close | runs on the device thread |
| **Gamepad provider and service**: `providers/evdev`, `service` | caches, coalesced events, mappers, players | start, stop, queued signals, flush | queue from the device thread |
| **Gamepad mapping**, **Wayland client**, **QML wrappers**: `extras`, `treeland`, `qml` | pressed actions, repeats, handles | process button/axis/hat, repeats, focus | service |

What makes each correct:

* *Activation*: the activated window is on the current workspace, capable, and
  the most recent of it; histories are complete and hold nothing else; nothing
  takes the activation behind an overlay.
* *Session lock*: while locked every output is covered, shortcuts and activation
  are off, and only the holder opens the desktop; a holder is told in the end.
* *Splash and admission*: one splash per application; every window is decided
  exactly once and by its own answer; nobody waits for ever.
* *Greeter*: locked exactly as logind and DDM were last told; no unlock of an
  external lock.
* *Surface states*: the state and the previous state agree with what is shown,
  whatever animation is cut short.
* *Gamepad backend*: what is signalled equals what is; a device that can be
  opened is opened in the end; retries back off.
* *Gamepad service*: no event of a device after its removal; caches agree with
  the device thread once the queue is empty.
* *Gamepad mapping*: every press is released once; no repeat without a press.

`PROJECT.json` lists all components with their status and the hazards of this
code at their lines, with the properties that look after them.

## 2. Plan

| # | Modules | Subject | State |
|---|---|---|---|
| 1 | `WorkspaceActivation`, `WorkspaceActivationProofs`, `MCWorkspaceActivation` | activation | done |
| 2 | `SessionLockPromise` (abstract), `ExtSessionLock`, `ExtSessionLockProofs` | session lock implements its promise | done |
| 3 | `WindowAdmission`, `WindowAdmissionProofs`, `MCWindowAdmission` | splash, resolver, wrappers | done |
| 4 | `CaptureGate` (abstract), `GamepadBackend`, `GamepadBackendProofs`, `MCGamepadBackend` | discovery, open, grab, retry and session gate of devices | done |
| 5 | `GamepadService`, `GamepadServiceProofs`, `MCGamepadService` | queue, snapshot, stop, coalescing, players; the device thread in outline | done |
| 6 | `ActionMapper`, `ActionMapperProofs`, `MCActionMapper`; `KeyNavigation`, `KeyNavigationProofs`, `MCKeyNavigation` | presses, hysteresis, repeats; key events and focus | done |
| 7 | `GreeterLock`, `GreeterLockProofs` | lock and unlock through DDM and logind, sessions, fades | done |
| 8 | `ShowDesktop`, later surface states | composed with 1 | |
| 9 | capture selection, foreign toplevels, the gamepad client over Wayland | | |
| 10 | wallpaper production, output life cycle with copy mode | composed with 2 | |

Compositions: `GamepadService` contains the device thread as the messages it
sends and the table they are about, an outline of 4; `GreeterLock` contains a
client of `ext_session_lock_v1` as a flag, an outline of 2; `KeyNavigation`
contains the service's mapper as the actions it holds, an outline of 6, and a
mapper of its own of the same class. 8 will add the flag of show desktop to the
desk of 1, 10 copy mode to the outputs of 2.

Theorems: every invariant and every action property that a passing run checks is
proved (section 5), and the safety of both refinements. To come, with modules 8
to 10: that show desktop keeps the activation within what it shows, and that a
foreign toplevel handle tells its client what the wrapper is.

## 3. The modules

Conventions: variables, modes and flags keep the source's names; an action is
one handler with everything it calls; a comment names the method where the names
differ. `PROJECT.json` "map" gives each definition its lines. Operators with the
comment *Mutant* are plausible mistakes in the definition that follows them;
they are used by no action and serve to show that the properties can fail.

### WorkspaceActivation

The methods of activation call each other deeply (`activateSurface` →
`setActivatedSurface` → `pushActivedSurface`; `setActivate(false)` emits
`requestInactive`, which activates again), so each is an operator from a *desk*,
the record of all variables, to a desk, and an action applies one to the present
desk (`Become`).

| TLA+ | Code |
|---|---|
| `models`, `currentIndex`, `nextId` | `Workspace::m_models`, `m_currentIndex`, `nextWorkspaceId` |
| `history` | `WorkspaceModel::m_activedSurfaceHistory`, also of the show-on-all model |
| `ws`, `hidden`, `caps` | `SurfaceWrapper::m_workspaceId`, `m_hideByWorkspace`, `m_hasActiveCapability` |
| `activated`, `flagged`, `mode` | `Helper::m_activatedSurface`, `m_isActivated`, `Helper::m_currentMode` |
| `ActivateSurface`, `ForceActivateSurface`, `SetActivatedSurface` | the methods of `Helper` |
| `RequestActive`, `RequestInactive` | `ShellHandler::setupSurfaceActiveWatcher` |
| `DoRemoveModel` | `Workspace::doRemoveModel`; the histories are merged in any order the unordered sets may give |

`Uses` selects the optional interactions of an instance (pinning to all
workspaces, swipes, popups, session removal, the overlays); the properties
differ in which of them they survive (section 4).

Simplifications: activation of a removed wrapper that still has a history entry
does nothing (the code would use a wrapper about to be deleted);
`removeActivedSurface` removes the first entry, which `HistoryNoDup` justifies
and the proofs establish; windows that never accept activation, keyboard focus
of layer surfaces, previews and show desktop are left out. The dialogs of a
window are given by the constant `Ancestors`.

### SessionLockPromise and ExtSessionLock

`SessionLockPromise` states what a locking client and the user may rely on:
one holder, refusal only meanwhile, the holder told only once the desktop is
closed and told in the end unless it goes, and a closed desktop opened by the
holder only. `ExtSessionLock` is the code: `LockScreen`, the handler of
`Helper::onExtSessionLock` with its grace timer, the unlock handler, lock
surfaces and fallback items per output, and the two overlays that share
`m_currentMode`. The refinement maps `holder` to `sessionLock`, `told` to
`lockState`, and `closed` to: lock screen shown, workspace hidden, every output
covered.

`WSessionLock` belongs to Waylib, which is not in this repository; from its use
the model assumes that the surfaces of a lock are removed before it ends, that it
ends once, and that it may be abandoned before or after its client was told.

`Cancel` in the promise records what the code does: a lock that is given up
before its client was told opens the desktop, even if it had taken over from an
abandoned one.

### WindowAdmission

| TLA+ | Code |
|---|---|
| `pendingPrelaunch`, `prelaunch`, `closedSplash` | `m_pendingPrelaunchAppIds`, `m_prelaunchWrappers` (a count per application), `m_closedSplashAppIds` |
| `config`, `waiting` | the state of each `AppConfig` and the callbacks connected to it |
| `resolver`, `nextRequestId`, `callbacks` | `AppIdResolverManager`, `AppIdResolver` |
| `requests` | what the external resolver knows |
| `resolving` | `m_pendingAppIdResolveToplevels` |
| `wrapped` | number of wrappers of each window; the properties say it is 0 or 1 |
| `told` | windows sent `close()` in place of being admitted |
| `splashItem`, `hideQueued`, `flagged` | `m_prelaunchSplash` of a wrapper, the queued call of `hideAndDestroy`, the flag `MappedOrSplash` |
| `listening`, `ddeHandled` | listeners for DDE shell surfaces that come late |

An XWayland window may associate again after it dissociates; an xdg window is
gone for good. The resolver answers a question with the window's application or
with the empty id, in any order, and may answer twice. A request of a
launcher reads the global switch and the application's own (`on`, `wanted`)
freely, since both may change at any time.

### CaptureGate and GamepadBackend

`CaptureGate` is what the receivers of the backend's signals may rely on: a
device is announced as connected only while the session gate lets input
through, and the step that shuts the gate takes every device back.
`GamepadBackend` is the code, mapped to it by `allowed <- InputAllowed`
(`SessionGate::isActive`) and `captured <- connected`.

| TLA+ | Code |
|---|---|
| `known` | `m_knownDevices` and its inverse `m_devicePaths`; `recoverable` is that of `lastError`, `step` and `wait` stand for `retryAttempt` and `nextRetryWallclockMs` |
| `devices` | `m_devices`; a device in it is `live`, or `dead` once its descriptor fails |
| `timer` | `m_retryTimer`: time left, `Stopped`, or `Missing` before the first `start()` |
| `gateEnabled`, `gateActive` | `SessionGate::m_enabled`, `m_active` |
| `config`, `running`, `monitor` | `m_runtimeConfig`, `m_running`, whether `m_udevMonitor` exists |
| `connected`, `announced` | what the receivers of `gamepadConnected`, `gamepadDisconnected` and `deviceAvailabilityChanged` believe; the provider clears both after `stop()` |
| `TryOpen` | `tryOpenGamepad` with the four ways it ends |
| `Schedule`, `NextDelay`, `Rearmed` | `scheduleNextRetry` |
| `handler` | what is left of a handler that walks over several devices |

The backend lives on one event loop, so handlers do not interleave with each
other; but opening a node takes time and may fail, and between two nodes of one
handler (`Probe`, `Retry`) the kernel, logind and the clock go on. Those
handlers are therefore one step per device, with `handler` holding the devices
left; every other handler is one step. `plugged`, `uevents`, `sessionActive`
and `propsPending` are the world outside: the nodes that exist, the events the
monitor's socket holds for each of them, the session as logind sees it, and its
message on the way.

Simplifications: a node is a udev candidate or not in `Paths` at all; a failed
open is recoverable or not as the ways of `DeviceAccessBroker` leave it
(`enableAutoRetryOpen`, or always); `openWithFd` always succeeds, since it only
refuses a negative descriptor, and a failed `udev_new` or a refused
`setRuntimeConfig` change nothing in the model. The wall clock runs evenly, its jumps
are not modelled, and events of different nodes are read in any order.

### GamepadService

The main thread: `DeckGamepadService` and `EvdevProvider`. The backend's signals
are queued connections, so that each waits in `mail` until the event loop
delivers it; `start()`, the snapshot after it and `stop()` are blocking calls
that overtake what is queued.

| TLA+ | Code |
|---|---|
| `active`, `table`, `input` | the backend: started, what it knows of each device, the controls the device last reported as pressed |
| `mail` | the queue between the threads: "unavailable" and "removed" stand for the availability and info signals, "connected", "disconnected", "input" |
| `known`, `connected` | `EvdevProvider::m_knownIds`, `m_connectedIds` |
| `state`, `coalesce` | `m_state` ("Starting" between the two calls of `start()`), the sources with a coalesce interval |
| `mappers`, `held` | `m_actionMapperByDevice` and what its mappers reported as pressed |
| `pending`, `timers` | `m_pendingAxisEvents`, `m_pendingHatEvents` and their timers |
| `assigned`, `playerOf` | `m_playerAssignments`, `m_playerIndexByDevice` |

`tainted` is a history variable: signals of an earlier run were delivered, or
wait to be. `stop()` empties caches and mappers but not the queue, and the code
gives no guarantee for what comes then; the properties except such runs.

### ActionMapper

`DeckGamepadActionMapper`, entire: every setter, button, stick, further axis,
profile and both repeat timers. An axis is an integer of `-Full..Full`; the
thresholds are parts of it, and `PressAt` is clamped as `clamp01` does. `out` is
the state of each direction (the action it was pressed with, and whether it is),
`pressed` is `m_actionPressed`; the profile's bindings are functions from
directions to actions, so that sources may share one. `UpdateMergedNavigation`
chooses the source (`Merged`), goes over the directions in the code's order
(`UpdateDirections`) and sets outputs and repeats (`Emit`). Two history variables:
`mixed`, the policy was changed while the stick held a direction; `zeroRead`, the
threshold of the further axis was 0 when the axis was last read. The order of
directions in a repeat tick and what a slot does to the mapper within it are left
out.

### KeyNavigation

`GamepadKeyNavigation` with one `Gamepad` object, a `ServiceActionRouter` as its
`actionSource` and a `GamepadActionRouter` as its `actionRouter`.

| TLA+ | Code |
|---|---|
| `Route` | the branch of `updateSubscriptions`: the source, which goes before the router, the navigation's own mapper, the service, or none |
| `actionSource`, `actionRouter` | `m_actionSource`, `m_actionRouter` are set |
| `live`, `routed` | the routers that are active and have the Gamepad; what the mapper of the `GamepadActionRouter` holds |
| `remembered` | `m_pressedTargets`; `Gone` is a `QPointer` whose object died |
| `mapped`, `buttons` | actions held by `m_mapper`, and `Gamepad::m_buttonStates` which it reads |
| `held` | what the service's mapper of each device holds: the actions it announces |
| `focus`, `blocked` | the focus object; the window is inactive or the input method visible |
| `down` | the world: which object saw which key pressed and not released |

`HandleReleases` is a mapper that resets: each action it holds is released
through `handleAction`, in any order. It is written in closed form, since the
order does not matter; `ReleasesAreALoop` proves that it is the loop. Where the
`GamepadActionRouter` and the navigation both hear a signal of the Gamepad, the
model takes either order (`Released`): it is the order in which they connected.
`detached` is a history variable: the `ServiceActionRouter`, which unlike the other
remembers nothing that it could release, was taken off a device with keys
remembered.

Simplifications: destruction of a `Gamepad` the navigation or a router holds while
inactive, or of a router that is not on the route, is left out (the raw pointer is
kept without a connection); the text of `suppressionReason`, the service being
destroyed, and axes in the mappers of the navigation and the router are left out.

### GreeterLock

`Helper`, `LockScreen`, `GreeterProxy` and the greeter's QML in the build with
DDM. A request shows the lock screen at once; the greeter is locked later, when
the request has gone to DDM (`ddm`), logind's signal has come back, a task of the
thread pool has asked for the active session (`tasks`) and its call has been
posted to the main loop (`posted`).

| TLA+ | Code |
|---|---|
| `shown`, `delay` | `LockScreen::isVisible()`, `m_delayTimer` |
| `isLocked`, `shutdownView` | `GreeterProxy::m_isLocked`, `m_showShutdownView` |
| `hiding`, `fading` | state and animation of `LockView` |
| `alive`, `activeSession`, `currentUser` | `SessionManager`, `UserModel` |
| `external` | `LockScreen::m_sessionLock` |

`missed`, `overlap` and `lost` are history variables for the situations in which
the properties fail; section 6 describes them. Simplifications: one greeter and
`LockView`; `ddm` stands for DDM and logind up to the signal, other senders of
such signals are left out; the overlays that `showLockScreen` closes are left to
`ExtSessionLock`; the user `dde` counts as no session. `Unlock` stands for `unlock`
and for `login` of a user without a session: with a valid socket DDM answers the
latter with a new session, which may come at any time (`SessionNew`).

## 4. Runs

| Run | Instance | States | Shows |
|---|---|---|---|
| `desk` | 3 windows, one a dialog of another, 2 to 3 workspaces, the multitask view | 604,172 | histories hold exactly the capable windows a workspace shows; the activated window is the latest of the current one |
| `desk_overlays` | 2 windows, all overlays, popups, swipes, session removal | 391,428 | steps activate only capable windows on the current workspace; nothing takes over behind an overlay |
| `desk_pin` | 2 windows, pinning and swipes | 746,143 | visibility and unique history entries survive pinning |
| `desk_assert` | 2 windows, pinning | (violation) | the assertion of `setActivatedSurface` fails, see section 6 |
| `lock_promise` | 3 locks, 2 outputs, task switcher, multitask view | 29,454 | outputs covered, grace timer current, mode and lock together, the promise with its liveness |
| `admission` | 2 applications, an xdg and an XWayland window, 2 questions | 508,502 | one splash per application, every window decided once, by its own answer, and in the end |
| `pads` | 2 nodes, 2 identifiers, 3 configurations besides the default, 1 fault | 144,060 | tables, receivers and timer agree; the gate is kept; nodes are found and forgotten; what is there is opened in the end |
| `service` | 2 devices, 1 player slot, one axis, 3 queued signals | 651,261 | caches and players follow the backend; no press without its release; slots become free |
| `greeter` | 2 sessions, 2 requests, an external client, a socket that comes and goes | 2,032,640 | a locked greeter is on the screen; the desktop comes back; a lock screen can be left |
| `mapper` | 1 pad direction, 4 x 3 stick positions, a button, an axis, 2 profiles | 187,356 | nothing pressed or repeated that is not held; a steady stick |
| `keynav` | 2 actions on 1 key, 2 devices, 3 objects of which one is a text input, 4 routes | 1,162,048 | what is remembered is down and held; no stuck key, other than the next |
| `keynav_stuck` | the same | (violation) | a repeat after the focus moved leaves a key down |

**Why the bounds are enough.** *Windows*: an activation involves the window, the
one it replaces and the one fallen back to; `desk` has three, with a dialog;
the interactions that need only two windows are explored with two. *Workspaces*
(`NumWorkspace = 2`, `MaxId = 3`): ids grow and models are removed, created and
moved, so that every index shifts both ways. *Locks*: three, for one that holds,
one that is refused or dies and one that takes over; *outputs*: two, one with
and one without a surface. *Admission*: two windows are enough for two answers
to be swapped; `MaxRequests = 2` questions per resolver, `MaxObjects = 2` splash
objects a launcher holds, so that requests repeat while one waits and ids are
used again by the next resolver. Windows `w1` and `w2` differ in kind and
application on purpose, so no symmetry is used. *Gamepads*: two nodes, for one
that fails while the timer runs for the other; two uevents of a node may wait
(`MaxEvents = 2`), enough for a remove and an add of a quick replug; one node
may refuse to open or break (`MaxFaults = 1`, two where a retry must fail
again), beside the failures of nodes that are gone, which are not bounded. Times
are ticks: `BackoffMin = 1`, `BackoffMax = 2` and `MaxFactor = 2` let the backoff
grow once and reach its limit, `PollInterval = 1` makes the poll come before the
longest backoff. The configurations are exclusive grab, no gate, and no retries
without a gate and with automatic grab.

*Service*: two devices compete for
one slot; three queued signals hold a disconnect, a removal and a new device
under the same identifier, or a press between them; one source, which may be
merged or not, since sources do not interact. *Greeter*: two sessions, so that
another one becomes active under way; two requests, so that a lock and an unlock
overtake each other. *Mapper*: `Full = 3` with a deadzone of 0 or 1 and a
hysteresis of 1 has values at, below and above each threshold; the second
profile binds one action to a direction and the button and another to a direction
and the axis, gives the stick a threshold of its own and leaves the axis the
deadzone, which may be 0. *Key navigation*: two actions share a key, one of them
repeats; either router may be on the route, stopped, moved or destroyed; of the
objects one may be the explicit target, one suppresses events.

**Deadlock** is checked in every run.

**Which interactions a property survives.** `HistoryExact` and `ActivatedIsLatest`
are checked with the multitask view only, because they fail with most others:
pinning breaks `HistoryExact` and `ActivatesOnCurrent`, swipes break
`ActivatedIsLatest`, popups together with an overlay, the task switcher, the lock
screen and the removal of a session break `HistoryExact`. Section 5 says why the
multitask view does not, and for which `Uses` they are proved.
`LockHoldsMode` excepts the steps of the multitask view; `GamepadService`,
`GreeterLock`, `ActionMapper` and `KeyNavigation` name their exceptions in history
variables. These
failures are part of the picture and described in section 6.

**Fairness.** `WorkspaceActivation` states none and claims no liveness.
`ExtSessionLock` assumes `WF(GraceTimeout)`: a single-shot `QTimer` that runs
fires. `WindowAdmission` assumes `WF(HideSplash)`, a queued call is delivered,
and `WF(AnswerTo)`, the external resolver answers what it is asked as long as it
is there. The latter is an assumption on another program: `ShellHandler` has no
timeout of its own, so `EverybodyDecided` says that nothing *in the compositor*
loses a window, in particular not the loss of the resolver. `GamepadBackend`
assumes that the clock advances and that a handler which began is carried on
(weak fairness), and that the event loop serves each source that is ready again
and again between handlers (strong fairness for udev events, failed
descriptors, logind's message and the retry timer): Qt's loop polls all sockets
and timers in each round, so none is starved by another. Nothing is assumed of
the kernel, logind, the user or the application. `EndsUpOpen` asks for a device
only where retries are enabled and the gate stays open. `GamepadService` assumes
`WF(Deliver)`, the main loop delivers queued signals, and `WF(Snapshot)`, `start()`
goes on. `GreeterLock` assumes that running timers and animations end, that DDM
and logind answer a request they were sent, and that tasks of the pool and
posted calls run; nothing of users, clients and sessions. `LockScreenHasExit`
rests on DDM and logind answering: a request that finds no socket is lost, which
the property excepts. `ActionMapper` and `KeyNavigation` claim no liveness.

## 5. Proofs

All leaves are proved by SMT or Zenon, the temporal steps by PTL; assumptions are
the named `ASSUME`s on constants: windows, outputs and applications are sets of
any size (the windows of `WorkspaceActivation` and the nodes of `GamepadBackend`
finitely many), their sentinels no members, bounds natural numbers, `Uses` any subset.

**WorkspaceActivationProofs** proves all that the runs of activation check, by four
inductive invariants of which each rests on those before it. They are stated for
a desk, not for the state, since handlers nest: each operator is shown to keep
them, and each action follows from the operators it is made of.

* `GoodDesk`, for every `Uses`: types with at least one model and a valid current
  index; a window hidden exactly if its workspace is not visible; only the
  current model visible. From it `TypeCorrect`, `HistoryUnique`, `HiddenCorrect`.
  `HistoryNoDup` needs the types, since pushing removes the window's first entry;
  `HiddenIffElsewhere` needs that the visible models are exactly the current one,
  which `doRemoveModel` and `moveModelTo` restore in two different ways.
* `Fit`, for every `Uses`: the activated window is told so, and a window that is
  going away has lost its container flag, so that it is not capable any more.
  `ActivatedWasTold` and `OnlyAllowedActivated`. A window being removed ignores
  `setActivate`; that it is never the one activated is the point.
* `Placed`, without pinning: a window is in the history of its own workspace only.
  `ActivatedOnCurrent`. With pinning this is false, and run `desk_assert` shows it.
* `Exact`, for the instances `Calm` names (popups and swipes, or swipes and the
  multitask view): each history holds exactly the capable windows of its
  workspace, and, where nobody swipes, the activated window is the latest of the
  current one. `HistoryIsExact` and `LatestIsActivated`. The multitask view blocks
  activation like the other overlays, and is harmless because it takes the
  activation away first: no window is activated that could lose its capability
  meanwhile. Behind the task switcher or the lock screen one can: it is
  minimized, stays `m_activatedSurface`, and when it is restored its activation
  ends early and is not recorded.

`ActivatedOnCurrent`, `HistoryIsExact` and `LatestIsActivated` state the restriction
of `Uses` as a hypothesis; it is the one under which the code has the property.

**ExtSessionLockProofs** proves `TypeCorrect`, `AlwaysCovered`, `GraceCurrent`,
`ModeIsLock` and `PromiseSafe`, the safety
part of the refinement. `OutputsCovered` is not inductive: it needs that a lock
surface belongs to the lock that is held, that a held lock is waiting or locked,
and that the workspace is hidden exactly while the lock screen is shown. The mode
needs an invariant of its own: only a lock sets the mode LockScreen, and in that
mode there is no task switcher left whose fading would set it back.

**WindowAdmissionProofs** proves all safety properties of `admission`:
`TypeCorrect`, `OneSplash`, `NoneForgotten`, `AnswersRight`, `FlagTrue` and
`RefusalsRight`. Two facts are added to make them inductive: the next question
has an id of its own (`IdsBelow`), else it would replace the callback of another;
and items, flags and connections belong to a window with a wrapper, listeners to
one with a wrapper or gone (`Wrappered`). Splash steps leave the windows alone
and windows only use splashes up, so the proof treats the two halves apart.

**GamepadBackendProofs** proves `TypeCorrect`, `ReceiversAreTold`,
`NodesAreNotDoubled`, `RetriesAreArmed`, `PluggedKnown` and `PromiseIsKept`, the
whole refinement of `CaptureGate`, for any nodes, any number of identifiers and any times.
`RetryIsArmed` is not inductive. It needs `Recoverables` (no error of an
unavailable device rules its retry out while retries are enabled), `AtRest` (the
timer exists once `start()` is over, handlers that retry run only with retries
enabled, a backend at rest knows nothing and hears nothing) and, for the
promise, `Gated` (a device is open only behind an open gate). All the ways to
open a device are summarised once, in `Touched`, which every handler that opens
one then uses. `scheduleNextRetry` takes a minimum over all devices; that it
exists is the lemma `Least`, from the well-foundedness of the naturals.
`KnowsWhatIsPlugged` needs `Watched`: of each node the last event that waits says
whether it is there, so that a stale remove has an add behind it; during
`start()` the nodes still to be probed stand for events. That an identifier is
free for a new node is the pigeonhole principle, from `OneIdPerNode`.

**GamepadServiceProofs** proves `TypeCorrect`, `TablesFollow` and `NothingStaysHeld`.
The properties speak of the moment when no news of a device waits; the invariant
says what each message on its way is good for. `DeviceInv` relates queue and
tables: the last message about a device says what the backend's table says
(`LinkFollows`, `SightFollows`); a device that is connected, or will be, is open
or has its end later in the queue (`LinkEnds`); a source that is held, or will be,
is pressed or has its release later in the queue (`PressEnds`). `MergedWait` says
that only coalesced sources wait for a timer, `Quiet` that a stopped service holds
nothing. These three are claimed only while `tainted` is false; `Lifecycle` and
`SlotsInverse` hold always. The positions of the queue are quantified over, so
posting and delivering are lemmas about `Append` and `Tail`.

**GreeterLockProofs** proves `TypeCorrect`, `LockedGreeterShown` and
`DesktopComesBack`. What the end of an animation does depends on what was asked
for while it ran: `LockedScreen` says that nothing is about to take the screen of a
locked greeter away, `FadingScreen` that a lock screen which fades is still shown,
nobody else can hide it, and the desktop is back once the delay is over.
`GreeterProxy::setLock`, `showLockScreen` and the unlock handler each have a lemma,
which logind's signals, the tasks' posted calls and the user's requests cite.

**KeyNavigationProofs** proves `TypeCorrect`, `RememberedReal`, `NoKeyStuck` and
`ReleasesAreALoop`. `Sound` says that a remembered key is down at its object;
`RememberedIsHeld` needs that the navigation's own mapper holds actions on its own
route only (`MappedRoute`), that nothing is remembered without a route or while a
text input has the focus (`Silent`), and that keys stay behind only where a
`ServiceActionRouter` was moved (`RouterAway`). That the `GamepadActionRouter` leaves
none behind needs no exception: it resets its mapper, and what the mapper of the
route holds covers what is remembered (`AllForgotten`). `NoStuckKey` is a property of steps: `Clean` says it
of any two states of key handling, `Releasing` of those between which keys only
come up, and both are composed over the sequence of calls a handler makes.

**ActionMapperProofs** proves `TypeCorrect`, `OutputCorrect` and `StickCorrect`, all
that `mapper` checks, from the types of the constants alone. `PressedIsHeld` is not
inductive: it needs `Backed` (a direction that is on has an action and a source, a
centered axis leaves no side active unless its threshold was 0 when it was read) and `Empty` (a disabled mapper holds nothing: inputs of the gamepad go on
while it does not listen). `DirectionStep` says what one `updateDirection` may leave
pressed, `MergedStep` adds up the four and the repeat tick, and every handler of
the navigation follows from it. `Cardinal` needs `Alone`: what the stick holds lies
on the axis that is locked, and AllowDiagonal never locks.

**Only model-checked**: liveness, which rests on fairness and ENABLED and is out of
the prover's reach: the liveness in `KeepsPromise` of `ExtSessionLock`,
`EverybodyDecided`, `EndsUpOpen`, `SlotsAreFreed` and `LockScreenHasExit`. What the
two violation runs refute is a counterexample, not a theorem.

## 6. What the models say about the code

Shown by a violation run, with the text of the repository that says otherwise:

* **A window un-pinned from all workspaces stays in their histories**
  (`workspace/workspace.cpp`, `moveSurfaceTo` from the show-on-all model): a
  later switch falls back to it and `Q_ASSERT(showOnWorkspace)` of
  `Helper::setActivatedSurface` fails. Run `desk_assert`.
* **A key stays down at an object that gets a repeat after the focus moved**
  (`lib/gamepad/qml/gamepadkeynavigation.cpp:472`): the press goes to the object
  of the moment, the release to the one remembered, and the handler of focus
  changes releases only what is suppressed afterwards, against its comment "on a
  change release what is pressed, to avoid stuck keys". Run `keynav_stuck`.

Stated by a property of its module that TLC refutes; a line in a `.cfg` with the
constants of the module's run shows the trace:

* `PendingClearedByWindow`: a repeated splash request withdraws the waiting one
  (`core/shellhandler.cpp:121`; lines 134-135 say only a window does).
* `LateDdeHandled`: the first late DDE shell surface disconnects the listeners of
  all windows (`core/shellhandler.cpp:442`; needs two xdg windows in `DdeWindows`).
* `RetriesBackOff`: a failed grab is retried without pause
  (`lib/gamepad/src/backend/deckgamepadbackend.cpp:1123`, the same at 1156): no
  retry time is set, so the delay is 0, against "with backoff, no busy loop" of
  the option (needs two faults).
* `OnlyActiveSession`: the session gate forgets an inactive session when it is
  switched off (`lib/gamepad/src/backend/sessiongate.cpp:40`) and does not ask
  logind when it is switched on again: devices are opened in an inactive session.
* `GoneHoldNothing`: an event that waits for the coalesce timer outlives its device
  (`lib/gamepad/src/service/deckgamepadservice.cpp:859`): the flush makes a mapper
  for a device that is gone and presses an action that nobody releases;
  `test_multi_device_hotplug_stress.cpp:149` expects otherwise, with coalescing off.
* `DesktopAfterLock`: a request for the lock screen or the shutdown menu between the
  end of the delay and the end of the fade is hidden by the fade: no lock screen, no
  workspace, no timer (`core/lockscreen.cpp:34` displays the desktop after the
  animation).

Found while modelling, true of the models, contradicted by no text:

* `finishWorkspaceSwipe` sets the index without activating: after a swipe the
  activated window is one of the workspace left.
* While activation is blocked, `requestInactive` leaves `m_activatedSurface`
  unchanged; the unlock handler then gives the focus to a window that may be gone.
* `onExtSessionLock` sets the mode before the multitask view exits, which sets it
  back to Normal: locked, with shortcuts on. The gesture's end and the DDE shell's
  request reach the multitask view without looking at the mode. No property
  catches this: `LockHoldsMode` excepts the steps of the multitask view.
* A popup, or a move begun, activates a window that cannot be activated; blocked
  by an overlay it stays in the history.
* Alt+Tab pressed again while the switcher fades leaves the mode `WindowSwitch`
  after the switcher is gone.
* A second client that takes over an abandoned lock and goes away within the
  grace time opens the desktop.
* A window that appears while its application's configuration is read leaves the
  request pending, so that a splash follows the window; the entry of a closed
  splash never expires and refuses the window of the next launch.
* A surface that is mapped while its window is being resolved does not get the
  flag `MappedOrSplash` and cannot be activated until it is mapped again.
* Removing a session clears all histories; windows that stay do not return to
  them until activated by hand.
* A session that becomes active again opens its gamepads only where retries are
  enabled; without them they stay closed until they are plugged in again.
* `deviceAvailabilityChanged` is not emitted when a device becomes available, or
  is lost: the value is set before the setter that compares it (lines 1162 and
  1188 of the backend). No module models the value.
* With all identifiers in use a further gamepad is dropped, and is not looked for
  again when an identifier becomes free, unless the monitor is missing.
* `lib/gamepad/EVENT_FLOW.md:269` says that the grab mode Auto treats a failed grab as
  an error; the code falls back to shared access.
* A listener for a late DDE shell surface outlives its window and reads the
  deleted surface when the next one is created; the model lets it match nothing.
* A popup whose toplevel is being resolved, or was refused, finds no wrapper of
  its parent (`core/shellhandler.cpp:505`).
* Activating a window while the desktop is shown ends that state and shows this
  window only (`seat/helper.cpp:1993`).
* Greeter: the mode is Normal while the greeter is locked after the active session
  is removed (`greeter/greeterproxy.cpp:325`) and after an Unlock signal of another
  session. An external lock taken while the greeter's lock fades out is hidden by
  the fade, its unlock is then ignored and `m_sessionLock` never cleared; the
  delayed unlock sets the mode Normal under it. A request to lock is lost when the
  socket is not valid; the lock screen is then shown without a greeter to unlock.
* Gamepad service: after `stop()` queued signals of the old run fill the caches
  again and press actions of a stopped service.
* Action mapper: a change to PreferCardinal while a diagonal is held keeps both
  directions until the stick moves; with AllowDiagonal a direction pushed to the
  other side in one event does not flip; a further axis whose threshold is 0 stays
  active at rest (`lib/gamepad/src/extras/deckgamepadactionmapper.cpp:347`; the one
  exception of `NothingPressedAtRest`, without which TLC refutes it); a profile that names no priority or repeats keeps those of the
  one before; sources that share an action release it for each other, and a
  repeat tick presses it again.
* Key navigation: a `ServiceActionRouter` that is taken off its device, or
  deactivated, between press and release leaves the key down; a router that is
  destroyed while the navigation is inactive, or while another source goes before
  it, is not forgotten; after a disconnect or a new device id the
  navigation's own mapper keeps its actions, so that the next press is lost
  (`Gamepad::resetState` emits no `buttonChanged`).

## 7. Not modelled

* Rendering, effects, geometry, decorations, stacking and animations (except
  where their end is an event a component waits for): scene graph work with
  no protocol to check.
* Outputs in copy mode: the lock model knows outputs in extension mode only.
* Reading and normalising input events of gamepads, vibration, calibration, mapping
  files and the editor for them.
* Serialisation: mapping files, configuration, window themes, wallpaper files.
* Generated protocol glue and D-Bus adaptors; vendored code; the previous
  generation kept in `compositor-bak`; examples and tests.
* The clients: any request the protocols allow may come at any time.
* Everything in section 2 not marked done.

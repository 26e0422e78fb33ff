--------------------------- MODULE GamepadBackend ---------------------------
(***************************************************************************)
(* The backend of the gamepad library: DeckGamepadBackend with its         *)
(* SessionGate and DeviceAccessBroker.  It discovers device nodes through  *)
(* udev, opens them, closes them while the session is inactive and retries *)
(* the ones it could not open.                                             *)
(*                                                                         *)
(* Everything runs on one event loop.  A handler that walks over several   *)
(* devices is split into one step per device; "handler" says what is left  *)
(* of it, and no other handler starts before it has ended.  The kernel,    *)
(* logind and the clock do not wait for it.                                *)
(***************************************************************************)
EXTENDS Integers, Sequences, FiniteSets

CONSTANTS
  Paths,        \* device nodes of gamepads (udev candidates, "/js" excluded)
  NoPath,       \* the path of an identifier nobody uses
  MaxGamepads,  \* MAX_GAMEPADS
  BackoffMin,   \* retryBackoffMinMs, in ticks of the clock
  BackoffMax,   \* retryBackoffMaxMs
  MaxFactor,    \* 1 << 10: what the backoff is multiplied by at most
  PollInterval, \* the period of the rescan that replaces the udev monitor
  Configs,      \* runtime configurations: [auto, gated, grab]
  MaxEvents,    \* bound: uevents of one node that wait to be read
  MaxFaults     \* bound: device nodes that refuse to open or break

Ids == 0 .. MaxGamepads - 1

Grabs == {"shared", "exclusive", "auto"}

ASSUME ConstantsAssumption ==
  /\ IsFiniteSet(Paths)
  /\ NoPath \notin Paths
  /\ MaxGamepads \in Nat \ {0}
  /\ BackoffMin \in Nat /\ BackoffMax \in Nat
  /\ MaxFactor \in Nat \ {0}
  /\ PollInterval \in Nat
  /\ Configs \subseteq [auto : BOOLEAN, gated : BOOLEAN, grab : Grabs]
  /\ MaxEvents \in Nat /\ MaxFaults \in Nat

VARIABLES
  \* the kernel, udevd, logind and the clock
  plugged,       \* the nodes that exist
  uevents,       \* uevents[p]: what the monitor's socket holds about p
  sessionActive, \* logind: the session is active
  propsPending,  \* a PropertiesChanged message is on its way to the gate
  faults,        \* how many more nodes may refuse to open or break
  \* SessionGate
  gateEnabled,   \* m_enabled
  gateActive,    \* m_active
  \* DeckGamepadBackend
  config,        \* m_runtimeConfig
  running,       \* m_running
  monitor,       \* m_udevMonitor exists
  known,         \* m_knownDevices with m_devicePaths, its inverse
  devices,       \* m_devices: closed, live, or dead (its descriptor fails)
  timer,         \* m_retryTimer: time left, Stopped or Missing
  handler,       \* what is left of the handler that runs
  \* what the receivers of the signals believe
  connected,     \* gamepadConnected and not gamepadDisconnected since
  announced      \* deviceAvailabilityChanged, and not Removed since

kernel == <<plugged, uevents, sessionActive, propsPending>>
gate   == <<gateEnabled, gateActive>>
signals == <<connected, announced>>
vars == <<kernel, faults, gate, config, running, monitor, known, devices,
          timer, handler, signals>>

-----------------------------------------------------------------------------
(* Values *)

Stopped == -1      \* a timer that is not active
Missing == -2      \* a timer that was not created yet
Unset   == -1      \* nextRetryWallclockMs = 0

Blank == [path |-> NoPath, available |-> FALSE, recoverable |-> FALSE,
          step |-> BackoffMin, wait |-> Unset]

Idle == [doing |-> "idle", probe |-> {}, open |-> {}]

DefaultConfig == [auto |-> TRUE, gated |-> TRUE, grab |-> "shared"]

Smaller(a, b) == IF a <= b THEN a ELSE b
Larger(a, b)  == IF a <= b THEN b ELSE a

KnownIds == {i \in Ids : known[i].path # NoPath}
OpenIds  == {i \in Ids : devices[i] # "closed"}

(* Mutant: a node is looked up among the open devices only. *)
IdsOfOpen(p) == {i \in Ids : known[i].path = p /\ known[i].available}

(* The identifiers m_devicePaths holds for a node: at most one. *)
IdsOf(p) == {i \in Ids : known[i].path = p}

(* enabled() && !isActive() is what refuses input. *)
InputAllowed == gateEnabled => gateActive

-----------------------------------------------------------------------------
(* The retry timer *)

(* The devices scheduleNextRetry and retryUnavailableDevices consider. *)
Waiting(k) == {i \in Ids : /\ k[i].path # NoPath
                           /\ ~ k[i].available
                           /\ k[i].recoverable}

(* Mutant: the number of doublings is not limited. *)
UnlimitedStep(step) == 2 * step

(* The delay of the next attempt, base << qMin(attempt, 10): kept as "step"
   in the place of retryAttempt. *)
NextStep(step) == Smaller(2 * step, BackoffMin * MaxFactor)

(* The delay after a failed open. *)
Backoff(step) == Smaller(Larger(BackoffMin, BackoffMax), step)

(* The delay to the next retry, or Stopped when nothing waits.  A device
   without a retry time is due at once, except that without a monitor the
   poll replaces it. *)
NextDelay(k) ==
  LET waits   == {k[i].wait : i \in Waiting(k)}
      atOnce  == Unset \in waits
      soonest == CHOOSE w \in waits : \A v \in waits : w <= v
  IN  IF waits = {} THEN IF monitor THEN Stopped ELSE PollInterval
      ELSE IF monitor THEN Larger(0, soonest)
      ELSE IF atOnce THEN PollInterval
      ELSE Smaller(PollInterval, soonest)

(* Mutant: an active timer is left alone. *)
KeptRunning(t, delay) == IF delay # Stopped /\ t # Stopped THEN t ELSE delay

(* An active timer is only ever brought forward. *)
Rearmed(t, delay) ==
  IF delay # Stopped /\ t # Stopped /\ t <= delay THEN t ELSE delay

(* scheduleNextRetry over the devices k with the timer t. *)
Schedule(k, t) ==
  IF config.auto /\ t # Missing /\ InputAllowed
    THEN Rearmed(t, NextDelay(k)) ELSE t

-----------------------------------------------------------------------------
(* Opening a device *)

(* The gate refuses. *)
OpenGated(k, i) ==
  /\ ~ InputAllowed
  /\ known' = [k EXCEPT ![i].available = FALSE, ![i].recoverable = TRUE]
  /\ UNCHANGED <<devices, timer, connected, faults>>

(* The broker finds no node, or none of its ways to open it works.  Whether
   the error is recoverable depends on the way that failed last. *)
OpenFails(k, i) ==
  /\ InputAllowed
  /\ \/ k[i].path \notin plugged /\ UNCHANGED faults
     \/ k[i].path \in plugged /\ faults > 0 /\ faults' = faults - 1
  /\ \E recoverable \in {TRUE, config.auto} :
       LET failed == [k EXCEPT ![i].available = FALSE,
                               ![i].recoverable = recoverable]
           backed == [failed EXCEPT
                        ![i].wait = Backoff(k[i].step),
                        ![i].step = NextStep(@)]
       IN  IF config.auto /\ recoverable
             THEN known' = backed /\ timer' = Schedule(backed, timer)
             ELSE known' = failed /\ UNCHANGED timer
  /\ UNCHANGED <<devices, connected>>

(* EVIOCGRAB fails in exclusive mode; no retry time is set. *)
GrabFails(k, i) ==
  /\ InputAllowed
  /\ config.grab = "exclusive"
  /\ k[i].path \in plugged
  /\ faults > 0 /\ faults' = faults - 1
  /\ LET failed == [k EXCEPT ![i].available = FALSE,
                             ![i].recoverable = config.auto]
     IN  known' = failed /\ timer' = Schedule(failed, timer)
  /\ UNCHANGED <<devices, connected>>

(* Mutant: a device is opened without asking the gate. *)
OpenUngated(k, i) ==
  /\ k[i].path \in plugged
  /\ known' = [k EXCEPT ![i].available = TRUE, ![i].recoverable = FALSE,
                        ![i].step = BackoffMin, ![i].wait = Unset]
  /\ devices' = [devices EXCEPT ![i] = "live"]
  /\ connected' = connected \cup {i}
  /\ UNCHANGED <<timer, faults>>

(* The device opens; in auto mode also when it could not be grabbed. *)
OpenSucceeds(k, i) ==
  /\ InputAllowed
  /\ k[i].path \in plugged
  /\ known' = [k EXCEPT ![i].available = TRUE, ![i].recoverable = FALSE,
                        ![i].step = BackoffMin, ![i].wait = Unset]
  /\ devices' = [devices EXCEPT ![i] = "live"]
  /\ connected' = connected \cup {i}
  /\ UNCHANGED <<timer, faults>>

AlreadyOpen(k, i) ==
  /\ known' = k
  /\ UNCHANGED <<devices, timer, connected, faults>>

TryOpen(k, i) == IF i \in OpenIds THEN AlreadyOpen(k, i)
                 ELSE \/ OpenGated(k, i)
                      \/ OpenFails(k, i)
                      \/ GrabFails(k, i)
                      \/ OpenSucceeds(k, i)

(* A node that udev reports: known already, or given the smallest unused
   identifier and announced as unavailable before it is opened. *)
OpenGamepad(p) ==
  LET unused == {i \in Ids : known[i].path = NoPath /\ devices[i] = "closed"}
  IN  IF IdsOf(p) # {}
        THEN /\ \E i \in IdsOf(p) : TryOpen(known, i)
             /\ UNCHANGED announced
      ELSE IF unused = {}
        THEN UNCHANGED <<known, devices, timer, faults, signals>>
      ELSE \E i \in unused :
             /\ \A j \in unused : i <= j
             /\ announced' = announced \cup {i}
             /\ TryOpen([known EXCEPT ![i] = [Blank EXCEPT !.path = p]], i)

-----------------------------------------------------------------------------
(* The kernel, logind and the clock *)

Queued(p, event) == IF monitor THEN [uevents EXCEPT ![p] = Append(@, event)]
                    ELSE uevents

Plug(p) ==
  /\ p \notin plugged
  /\ Len(uevents[p]) < MaxEvents
  /\ plugged' = plugged \cup {p}
  /\ uevents' = Queued(p, "add")
  /\ UNCHANGED <<sessionActive, propsPending, faults, gate, config, running,
                 monitor, known, devices, timer, handler, signals>>

Unplug(p) ==
  /\ p \in plugged
  /\ Len(uevents[p]) < MaxEvents
  /\ plugged' = plugged \ {p}
  /\ uevents' = Queued(p, "remove")
  /\ devices' = [i \in Ids |-> IF known[i].path = p /\ devices[i] = "live"
                               THEN "dead" ELSE devices[i]]
  /\ UNCHANGED <<sessionActive, propsPending, faults, gate, config, running,
                 monitor, known, timer, handler, signals>>

(* A descriptor fails although the node is there: an I/O error, or logind
   revoked it. *)
Break(i) ==
  /\ devices[i] = "live"
  /\ faults > 0
  /\ faults' = faults - 1
  /\ devices' = [devices EXCEPT ![i] = "dead"]
  /\ UNCHANGED <<kernel, gate, config, running, monitor, known, timer,
                 handler, signals>>

(* One message at a time; a second switch waits for the first to arrive. *)
SwitchSession ==
  /\ ~ propsPending
  /\ sessionActive' = ~ sessionActive
  /\ propsPending' = TRUE
  /\ UNCHANGED <<plugged, uevents, faults, gate, config, running, monitor,
                 known, devices, timer, handler, signals>>

Tick ==
  /\ timer > 0 \/ \E i \in Ids : known[i].wait > 0
  /\ timer' = IF timer > 0 THEN timer - 1 ELSE timer
  /\ known' = [i \in Ids |-> IF known[i].wait > 0
                             THEN [known[i] EXCEPT !.wait = @ - 1]
                             ELSE known[i]]
  /\ UNCHANGED <<kernel, faults, gate, config, running, monitor, devices,
                 handler, signals>>

-----------------------------------------------------------------------------
(* Configuration, start and stop *)

(* SessionGate::setEnabled: switching it off forgets an inactive session. *)
EnableGate(on) ==
  /\ gateEnabled' = on
  /\ gateActive' = (gateActive \/ (gateEnabled /\ ~ on))

(* While the backend runs the call is refused and changes nothing. *)
SetRuntimeConfig(c) ==
  /\ handler = Idle
  /\ ~ running
  /\ config' = c
  /\ EnableGate(c.gated)
  /\ UNCHANGED <<kernel, faults, running, monitor, known, devices, timer,
                 handler, signals>>

(* The monitor may be unavailable; then start() goes on without it. *)
Start ==
  /\ handler = Idle
  /\ ~ running
  /\ EnableGate(config.gated)
  /\ monitor' \in BOOLEAN
  /\ handler' = [Idle EXCEPT !.doing = "start", !.probe = plugged]
  /\ UNCHANGED <<kernel, faults, config, running, known, devices, timer,
                 signals>>

(* probeGamepads reaches one node of its list; udev may already have lost a
   node that is gone. *)
Probe(p) ==
  /\ p \in handler.probe
  /\ handler' = [handler EXCEPT !.probe = @ \ {p}]
  /\ \/ OpenGamepad(p)
     \/ /\ p \notin plugged
        /\ UNCHANGED <<known, devices, timer, faults, signals>>
  /\ UNCHANGED <<kernel, gate, config, running, monitor>>

StartEnds ==
  /\ handler.doing = "start"
  /\ handler.probe = {}
  /\ timer' = Schedule(known, IF config.auto THEN Larger(timer, Stopped)
                              ELSE timer)
  /\ running' = TRUE
  /\ handler' = Idle
  /\ UNCHANGED <<kernel, faults, gate, config, monitor, known, devices,
                 signals>>

(* stop() tells nobody; the provider drops its own tables after it. *)
Stop ==
  /\ handler = Idle
  /\ running
  /\ running' = FALSE
  /\ monitor' = FALSE
  /\ uevents' = [p \in Paths |-> <<>>]
  /\ known' = [i \in Ids |-> Blank]
  /\ devices' = [i \in Ids |-> "closed"]
  /\ timer' = Smaller(timer, Stopped)
  /\ connected' = {}
  /\ announced' = {}
  /\ UNCHANGED <<plugged, sessionActive, propsPending, faults, gate, config,
                 handler>>

-----------------------------------------------------------------------------
(* Handlers of the event loop *)

(* retryUnavailableDevices from its second line on; without a monitor it
   first rescans. *)
Rescan == [doing |-> "rescan", probe |-> IF monitor THEN {} ELSE plugged,
           open |-> {}]

UdevAdd(p) ==
  /\ handler = Idle
  /\ uevents[p] # <<>> /\ Head(uevents[p]) = "add"
  /\ uevents' = [uevents EXCEPT ![p] = Tail(@)]
  /\ OpenGamepad(p)
  /\ UNCHANGED <<plugged, sessionActive, propsPending, gate, config, running,
                 monitor, handler>>

(* Mutant: a node that is not open keeps its identifier. *)
UdevRemoveOpen(p) ==
  /\ handler = Idle
  /\ uevents[p] # <<>> /\ Head(uevents[p]) = "remove"
  /\ uevents' = [uevents EXCEPT ![p] = Tail(@)]
  /\ IF IdsOf(p) \cap OpenIds = {}
       THEN UNCHANGED <<known, devices, timer, signals>>
       ELSE LET left == [i \in Ids |-> IF i \in IdsOf(p) THEN Blank
                                       ELSE known[i]]
            IN  /\ known' = left
                /\ devices' = [i \in Ids |-> IF i \in IdsOf(p) THEN "closed"
                                             ELSE devices[i]]
                /\ connected' = connected \ IdsOf(p)
                /\ announced' = announced \ IdsOf(p)
                /\ timer' = Schedule(left, timer)
  /\ UNCHANGED <<plugged, sessionActive, propsPending, faults, gate, config,
                 running, monitor, handler>>

(* The identifier of the node is closed, announced as removed and freed. *)
UdevRemove(p) ==
  /\ handler = Idle
  /\ uevents[p] # <<>> /\ Head(uevents[p]) = "remove"
  /\ uevents' = [uevents EXCEPT ![p] = Tail(@)]
  /\ IF IdsOf(p) = {}
       THEN UNCHANGED <<known, devices, timer, signals>>
       ELSE LET left == [i \in Ids |-> IF i \in IdsOf(p) THEN Blank
                                       ELSE known[i]]
            IN  /\ known' = left
                /\ devices' = [i \in Ids |-> IF i \in IdsOf(p) THEN "closed"
                                             ELSE devices[i]]
                /\ connected' = connected \ IdsOf(p)
                /\ announced' = announced \ IdsOf(p)
                /\ timer' = Schedule(left, timer)
  /\ UNCHANGED <<plugged, sessionActive, propsPending, faults, gate, config,
                 running, monitor, handler>>

(* A read fails: closeForIoError, and the backend hears "disconnected". *)
DeviceLost(i) ==
  /\ handler = Idle
  /\ devices[i] = "dead"
  /\ devices' = [devices EXCEPT ![i] = "closed"]
  /\ LET lost == [known EXCEPT ![i].available = FALSE,
                               ![i].recoverable = config.auto]
     IN  known' = lost /\ timer' = Schedule(lost, timer)
  /\ connected' = connected \ {i}
  /\ UNCHANGED <<kernel, faults, gate, config, running, monitor, handler,
                 announced>>

(* Mutant: the receivers are not told of devices the gate closes. *)
CloseAllSilently ==
  /\ known' = [i \in Ids |-> IF i \in OpenIds
                             THEN [known[i] EXCEPT !.available = FALSE,
                                                   !.recoverable = TRUE]
                             ELSE known[i]]
  /\ devices' = [i \in Ids |-> "closed"]
  /\ UNCHANGED <<connected, handler>>

(* The gate closes every open device; no retry is scheduled. *)
CloseAll ==
  /\ known' = [i \in Ids |-> IF i \in OpenIds
                             THEN [known[i] EXCEPT !.available = FALSE,
                                                   !.recoverable = TRUE]
                             ELSE known[i]]
  /\ devices' = [i \in Ids |-> "closed"]
  /\ connected' = connected \ OpenIds
  /\ UNCHANGED handler

(* The session is back: one round of retries, if retries are enabled. *)
Resume ==
  /\ handler' = IF config.auto THEN Rescan ELSE Idle
  /\ UNCHANGED <<known, devices, connected>>

(* The message arrives; a gate that is switched off ignores it. *)
PropertiesChanged ==
  /\ handler = Idle
  /\ propsPending
  /\ propsPending' = FALSE
  /\ gateActive' = IF gateEnabled THEN sessionActive ELSE gateActive
  /\ IF ~ running \/ gateActive' = gateActive
       THEN UNCHANGED <<known, devices, connected, handler>>
     ELSE IF gateActive' THEN Resume ELSE CloseAll
  /\ UNCHANGED <<plugged, uevents, sessionActive, faults, gateEnabled, config,
                 running, monitor, timer, announced>>

(* The single-shot timer fires; behind a shut gate it does nothing and is
   not started again. *)
TimerFires ==
  /\ handler = Idle
  /\ timer = 0
  /\ timer' = Stopped
  /\ handler' = IF config.auto /\ InputAllowed THEN Rescan ELSE Idle
  /\ UNCHANGED <<kernel, faults, gate, config, running, monitor, known,
                 devices, signals>>

(* Mutant: a device whose retry time is now is passed over. *)
RescanEndsLate ==
  /\ handler.doing = "rescan"
  /\ handler.probe = {}
  /\ handler' = [Idle EXCEPT !.doing = "retry",
                             !.open = {i \in Waiting(known) :
                                         known[i].wait < 0}]
  /\ UNCHANGED <<kernel, faults, gate, config, running, monitor, known,
                 devices, timer, signals>>

(* The devices that are due are tried, one by one. *)
RescanEnds ==
  /\ handler.doing = "rescan"
  /\ handler.probe = {}
  /\ handler' = [Idle EXCEPT !.doing = "retry",
                             !.open = {i \in Waiting(known) :
                                         known[i].wait <= 0}]
  /\ UNCHANGED <<kernel, faults, gate, config, running, monitor, known,
                 devices, timer, signals>>

Retry(i) ==
  /\ i \in handler.open
  /\ handler' = [handler EXCEPT !.open = @ \ {i}]
  /\ TryOpen(known, i)
  /\ UNCHANGED <<kernel, gate, config, running, monitor, announced>>

RetryEnds ==
  /\ handler.doing = "retry"
  /\ handler.open = {}
  /\ handler' = Idle
  /\ timer' = Schedule(known, timer)
  /\ UNCHANGED <<kernel, faults, gate, config, running, monitor, known,
                 devices, signals>>

-----------------------------------------------------------------------------
Init ==
  /\ plugged \in SUBSET Paths
  /\ uevents = [p \in Paths |-> <<>>]
  /\ sessionActive \in BOOLEAN
  /\ propsPending = FALSE
  /\ faults = MaxFaults
  /\ gateEnabled = TRUE
  /\ gateActive = sessionActive
  /\ config = DefaultConfig
  /\ running = FALSE
  /\ monitor = FALSE
  /\ known = [i \in Ids |-> Blank]
  /\ devices = [i \in Ids |-> "closed"]
  /\ timer = Missing
  /\ handler = Idle
  /\ connected = {}
  /\ announced = {}

EnvNext == \/ \E p \in Paths : Plug(p) \/ Unplug(p)
           \/ \E i \in Ids : Break(i)
           \/ SwitchSession

ApiNext == \/ \E c \in Configs : SetRuntimeConfig(c)
           \/ Start
           \/ Stop

LoopNext == \/ \E p \in Paths : Probe(p) \/ UdevAdd(p) \/ UdevRemove(p)
            \/ \E i \in Ids : DeviceLost(i) \/ Retry(i)
            \/ StartEnds
            \/ PropertiesChanged
            \/ TimerFires
            \/ RescanEnds
            \/ RetryEnds

Next == EnvNext \/ ApiNext \/ LoopNext \/ Tick

(* The clock advances, a handler that started runs to its end, and the event
   loop serves every source that is ready again and again between handlers:
   sockets and timers do not starve each other. *)
Fairness ==
  /\ WF_vars(Tick)
  /\ \A p \in Paths : WF_vars(Probe(p)) /\ SF_vars(UdevAdd(p) \/ UdevRemove(p))
  /\ \A i \in Ids : WF_vars(Retry(i)) /\ SF_vars(DeviceLost(i))
  /\ WF_vars(StartEnds) /\ WF_vars(RescanEnds) /\ WF_vars(RetryEnds)
  /\ SF_vars(PropertiesChanged) /\ SF_vars(TimerFires)

Spec == Init /\ [][Next]_vars
FairSpec == Spec /\ Fairness

-----------------------------------------------------------------------------
(* Properties *)

DeviceType == [path : Paths \cup {NoPath}, available : BOOLEAN,
               recoverable : BOOLEAN,
               step : 0 .. BackoffMin * MaxFactor,
               wait : Nat \cup {Unset}]

(* Every variable keeps its type; the timer is never set to a negative
   delay. *)
TypeOK ==
  /\ plugged \in SUBSET Paths
  /\ uevents \in [Paths -> Seq({"add", "remove"})]
  /\ sessionActive \in BOOLEAN /\ propsPending \in BOOLEAN
  /\ faults \in 0 .. MaxFaults
  /\ gateEnabled \in BOOLEAN /\ gateActive \in BOOLEAN
  /\ config \in Configs \cup {DefaultConfig}
  /\ running \in BOOLEAN /\ monitor \in BOOLEAN
  /\ known \in [Ids -> DeviceType]
  /\ devices \in [Ids -> {"closed", "live", "dead"}]
  /\ timer \in Nat \cup {Stopped, Missing}
  /\ handler \in [doing : {"idle", "start", "rescan", "retry"},
                  probe : SUBSET Paths, open : SUBSET Ids]
  /\ connected \in SUBSET Ids /\ announced \in SUBSET Ids

(* The receivers of the signals believe what the tables say: the devices
   reported as connected are the ones that are open, and the identifiers
   reported at all are the known ones, on every path that opens, closes,
   loses, gates or forgets a device. *)
ReceiversKnow == /\ connected = OpenIds
                 /\ announced = KnownIds
                 /\ \A i \in Ids : known[i].available <=> i \in OpenIds

(* A node has one identifier, however often udev, the probe of start() and
   the rescans report it: it is never read twice, and each event of it
   reaches the application once. *)
OneIdPerNode == \A i, j \in KnownIds : known[i].path = known[j].path => i = j

(* With retries enabled and input allowed, no unavailable device is left
   behind: the timer runs and fires no later than the retry time of the
   device, or without a monitor no later than the next poll. *)
RetryIsArmed ==
  running /\ handler = Idle /\ config.auto /\ InputAllowed =>
    \A i \in KnownIds :
      ~ known[i].available =>
        /\ timer >= 0
        /\ timer <= Larger(known[i].wait, IF monitor THEN 0 ELSE PollInterval)

(* With a monitor the backend knows exactly the nodes that are plugged in,
   once their uevents were read: none escapes it, as long as there are
   identifiers enough, and the identifier of a node that is gone is freed. *)
NodesDiscovered ==
  /\ Cardinality(Paths) <= MaxGamepads
  /\ running /\ handler = Idle /\ monitor
  =>
    \A p \in plugged : \/ IdsOf(p) # {}
                       \/ \E n \in 1 .. Len(uevents[p]) :
                            uevents[p][n] = "add"

GoneAreForgotten ==
  running /\ monitor =>
    \A i \in KnownIds :
      \/ known[i].path \in plugged
      \/ \E n \in 1 .. Len(uevents[known[i].path]) :
           uevents[known[i].path][n] = "remove"

KnowsWhatIsPlugged == NodesDiscovered /\ GoneAreForgotten

(* The backend keeps the promise of its receivers. *)
Promise == INSTANCE CaptureGate WITH allowed <- InputAllowed,
                                     captured <- connected
KeepsPromise == Promise!Spec

(* A device that is there, and that no longer refuses to open, is opened in
   the end: through a failed open, a lost descriptor, a session that was
   inactive in between, a stale remove event. *)
EndsUpOpen ==
  \A p \in Paths :
    (running /\ config.auto /\ InputAllowed /\ p \in plugged)
      ~> \/ \E i \in IdsOf(p) : devices[i] = "live"
         \/ p \notin plugged \/ ~ running \/ ~ InputAllowed

(* A retry that fails sets the next retry to a later time: the option
   promises a backoff and no busy loop. *)
RetriesBackOff ==
  [][\A i \in handler.open \ handler'.open :
       ~ known'[i].available => known'[i].wait > 0]_vars

(* Under the policy ActiveSessionOnly nothing is captured while the session
   is inactive, once logind has told the gate. *)
OnlyActiveSession ==
  config.gated /\ ~ sessionActive /\ ~ propsPending => OpenIds = {}
=============================================================================

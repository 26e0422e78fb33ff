------------------------ MODULE GamepadBackendProofs ------------------------
(***************************************************************************)
(* What the runs of GamepadBackend show on two nodes, proved for any       *)
(* number of nodes and identifiers, any backoff and any configuration.     *)
(* That the retry timer is armed needs more than itself: that every error  *)
(* of an unavailable device is recoverable while retries are enabled, that *)
(* the timer exists once start() is over, and that a backend which does    *)
(* not run knows no device.  That it knows what is plugged in needs the    *)
(* invariant Watched, node by node: the last event that waits tells the    *)
(* truth, and whatever the backend has not found or not forgotten yet has  *)
(* an event of its own behind it, or is still to be probed.                *)
(***************************************************************************)
EXTENDS GamepadBackend, FiniteSetTheorems, SequenceTheorems,
        WellFoundedInduction, TLAPS

DeviceStates == {"closed", "live", "dead"}
Timers == Nat \cup {Stopped, Missing}

(* A device is open only behind an open gate, and only if it is known. *)
Gated ==
  /\ InputAllowed \/ OpenIds = {}
  /\ \A i \in Ids : known[i].path = NoPath => devices[i] = "closed"

(* Handlers end as they began, retries happen only while the backend runs
   with them, and a backend at rest knows nothing and hears nothing. *)
AtRest ==
  /\ handler.doing = "idle" => handler = Idle
  /\ handler.doing \in {"rescan", "retry"} => running /\ config.auto
  /\ handler = Idle /\ ~ running =>
       /\ \A i \in Ids : known[i].path = NoPath
       /\ \A p \in Paths : uevents[p] = <<>>
       /\ ~ monitor /\ timer < 0
  /\ running /\ config.auto => timer # Missing

(* No error of an unavailable device rules its retry out. *)
Recoverables ==
  config.auto => \A i \in KnownIds : ~ known[i].available
                                       => known[i].recoverable

IInv == /\ TypeOK /\ ReceiversKnow /\ OneIdPerNode /\ RetryIsArmed
        /\ Gated /\ AtRest /\ Recoverables

-----------------------------------------------------------------------------
(* The retry timer *)

(* Retry times have a least one: shifted by one they are naturals. *)
LEMMA Least ==
  ASSUME NEW S \in SUBSET (Nat \cup {Unset}), S # {}
  PROVE  \E w \in S : \A v \in S : w <= v
<1> DEFINE R == OpToRel(<, Nat)
           T == {w + 1 : w \in S}
<1>1. IsWellFoundedOn(R, Nat)
  BY NatLessThanWellFounded, Zenon DEF R
<1> HIDE DEF R
<1>2. T \subseteq Nat /\ T # {}
  <2>1. \A w \in S : w + 1 \in Nat
    BY SMT DEF Unset
  <2>2. PICK s : s \in S
    OBVIOUS
  <2>3. s + 1 \in T
    BY <2>2
  <2> QED  BY <2>1, <2>3, Zenon
<1>3. PICK x \in T : \A y \in T : ~ (<<y, x>> \in R)
  BY <1>1, <1>2, WFMin, Zenon
<1>4. \A y \in T : ~ (y < x)
  BY <1>2, <1>3, Zenon DEF R, OpToRel
<1>5. PICK w \in S : x = w + 1
  OBVIOUS
<1>6. \A v \in S : w <= v
  <2> TAKE v \in S
  <2>1. ~ (v + 1 < x)
    BY <1>4
  <2> QED  BY <2>1, <1>5 DEF Unset
<1> QED  BY <1>6

(* The delay is one QTimer accepts, and no device waits longer for it than
   its retry time, or than the poll where there is no monitor. *)
LEMMA NextDelayBound ==
  ASSUME ConstantsAssumption, monitor \in BOOLEAN,
         NEW k \in [Ids -> DeviceType]
  PROVE  /\ NextDelay(k) \in Nat \cup {Stopped}
         /\ \A i \in Waiting(k) :
              /\ NextDelay(k) \in Nat
              /\ NextDelay(k) <= Larger(k[i].wait,
                                        IF monitor THEN 0 ELSE PollInterval)
<1> DEFINE waits == {k[i].wait : i \in Waiting(k)}
           soonest == CHOOSE w \in waits : \A v \in waits : w <= v
<1>1. waits \in SUBSET (Nat \cup {Unset})
  BY DEF Waiting, DeviceType
<1>2. PollInterval \in Nat
  BY DEF ConstantsAssumption
<1>3. CASE waits = {}
  <2>1. Waiting(k) = {}
    <3>1. \A i \in Waiting(k) : k[i].wait \in waits
      OBVIOUS
    <3> HIDE DEF waits
    <3> QED  BY <1>3, <3>1
  <2>2. NextDelay(k) = IF monitor THEN Stopped ELSE PollInterval
    BY <1>3 DEF NextDelay
  <2> QED  BY <1>2, <2>1, <2>2
<1>4. CASE waits # {}
  <2>1. /\ soonest \in waits
        /\ \A v \in waits : soonest <= v
    <3>1. \E w \in waits : \A v \in waits : w <= v
      BY <1>1, <1>4, Least
    <3> HIDE DEF waits
    <3> QED  BY <3>1
  <2>2. NextDelay(k) = IF monitor THEN Larger(0, soonest)
                       ELSE IF Unset \in waits THEN PollInterval
                       ELSE Smaller(PollInterval, soonest)
    BY <1>4 DEF NextDelay
  <2>3. \A i \in Waiting(k) : k[i].wait \in waits
    OBVIOUS
  <2> HIDE DEF waits, soonest
  <2>4. soonest \in Nat \cup {Unset}
    BY <1>1, <2>1
  <2>5. NextDelay(k) \in Nat
    BY <1>2, <2>1, <2>2, <2>4 DEF Larger, Smaller, Unset
  <2>6. ASSUME NEW i \in Waiting(k)
        PROVE  NextDelay(k) <= Larger(k[i].wait,
                                      IF monitor THEN 0 ELSE PollInterval)
    <3>1. soonest <= k[i].wait /\ k[i].wait \in Nat \cup {Unset}
      BY <1>1, <2>1, <2>3
    <3> QED  BY <1>2, <2>2, <2>4, <3>1 DEF Larger, Smaller, Unset
  <2> QED  BY <2>5, <2>6
<1> QED  BY <1>3, <1>4

(* A timer that exists is neither lost nor armed too late. *)
LEMMA ScheduleBound ==
  ASSUME ConstantsAssumption, monitor \in BOOLEAN,
         NEW k \in [Ids -> DeviceType], NEW t \in Timers
  PROVE  /\ Schedule(k, t) \in Timers
         /\ t # Missing => Schedule(k, t) # Missing
         /\ config.auto /\ t # Missing /\ InputAllowed =>
              \A i \in Waiting(k) :
                /\ Schedule(k, t) >= 0
                /\ Schedule(k, t) <= Larger(k[i].wait,
                                       IF monitor THEN 0 ELSE PollInterval)
<1> DEFINE delay == NextDelay(k)
           bound(i) == Larger(k[i].wait, IF monitor THEN 0 ELSE PollInterval)
<1>1. /\ delay \in Nat \cup {Stopped}
      /\ \A i \in Waiting(k) : delay \in Nat /\ delay <= bound(i)
  BY NextDelayBound
<1>2. \A i \in Waiting(k) : bound(i) \in Int
  BY DEF ConstantsAssumption, Larger, Waiting, DeviceType, Unset
<1>3. CASE config.auto /\ t # Missing /\ InputAllowed
  <2>1. Schedule(k, t) = IF delay # Stopped /\ t # Stopped /\ t <= delay
                         THEN t ELSE delay
    BY <1>3 DEF Schedule, Rearmed
  <2> HIDE DEF delay, bound
  <2>2. t \in Nat \cup {Stopped}
    BY <1>3 DEF Timers
  <2>3. Schedule(k, t) \in Nat \cup {Stopped}
    BY <1>1, <2>1, <2>2
  <2>4. \A i \in Waiting(k) : Schedule(k, t) >= 0 /\ Schedule(k, t) <= bound(i)
    BY <1>1, <1>2, <2>1, <2>2 DEF Stopped
  <2> QED  BY <2>3, <2>4 DEF Timers, Stopped, Missing, bound
<1>4. CASE ~ (config.auto /\ t # Missing /\ InputAllowed)
  <2>1. Schedule(k, t) = t
    BY <1>4 DEF Schedule
  <2> QED  BY <1>4, <2>1
<1> QED  BY <1>3, <1>4

-----------------------------------------------------------------------------
(* Opening a device *)

(* What a step that opens, or fails to open, the device i does to the
   tables: everything else it leaves alone. *)
Touched(i) ==
  /\ known' \in [Ids -> DeviceType]
  /\ devices' \in [Ids -> DeviceStates]
  /\ \A j \in Ids \ {i} : known'[j] = known[j] /\ devices'[j] = devices[j]
  /\ known'[i].available <=> devices'[i] # "closed"
  /\ known[i].path # NoPath => known'[i].path = known[i].path
  /\ known'[i].path = NoPath => devices'[i] = "closed"
  /\ \A j \in Ids \ {i} : known'[i].path # NoPath
                            => known[j].path # known'[i].path
  /\ devices[i] # "closed" => devices'[i] # "closed"
  /\ devices'[i] # "closed" => InputAllowed
  /\ connected' = connected \cup {j \in {i} : devices'[j] # "closed"}
  /\ announced' = announced \cup {j \in {i} : known'[j].path # NoPath}
  /\ config.auto /\ known'[i].path # NoPath /\ ~ known'[i].available
       => known'[i].recoverable
  /\ faults' \in 0 .. MaxFaults
  /\ \/ timer' = Schedule(known', timer)
     \/ /\ timer' = timer
        /\ config.auto /\ InputAllowed => known'[i].available

(* tryOpenGamepad, whichever way it ends. *)
LEMMA TryOpenOutcome ==
  ASSUME ConstantsAssumption, TypeOK,
         NEW k \in [Ids -> DeviceType], NEW i \in Ids,
         k[i].available <=> devices[i] # "closed",
         devices[i] # "closed" => InputAllowed,
         i \in connected <=> devices[i] # "closed",
         TryOpen(k, i)
  PROVE  /\ known' \in [Ids -> DeviceType]
         /\ devices' \in [Ids -> DeviceStates]
         /\ \A j \in Ids \ {i} : known'[j] = k[j] /\ devices'[j] = devices[j]
         /\ known'[i].path = k[i].path
         /\ known'[i].available <=> devices'[i] # "closed"
         /\ devices[i] # "closed" => devices'[i] # "closed"
         /\ devices'[i] # "closed" => InputAllowed
         /\ devices[i] = "closed" /\ devices'[i] # "closed"
              => k[i].path \in plugged
         /\ connected' = connected \cup {j \in {i} : devices'[j] # "closed"}
         /\ config.auto /\ ~ known'[i].available => known'[i].recoverable
         /\ faults' \in 0 .. MaxFaults
         /\ \/ timer' = Schedule(known', timer)
            \/ /\ timer' = timer
               /\ config.auto /\ InputAllowed => known'[i].available
<1> USE DEF DeviceStates
<1>0. /\ devices \in [Ids -> DeviceStates] /\ faults \in 0 .. MaxFaults
      /\ config.auto \in BOOLEAN
      /\ BackoffMin \in Nat /\ BackoffMax \in Nat /\ MaxFactor \in Nat \ {0}
      /\ MaxFaults \in Nat
  <2>1. config \in [auto : BOOLEAN, gated : BOOLEAN, grab : Grabs]
    <3>1. DefaultConfig \in [auto : BOOLEAN, gated : BOOLEAN, grab : Grabs]
      BY DEF DefaultConfig, Grabs
    <3> QED  BY <3>1 DEF TypeOK, ConstantsAssumption
  <2> QED  BY <2>1 DEF TypeOK, ConstantsAssumption
<1>1. CASE i \in OpenIds
  <2>1. /\ known' = k
        /\ UNCHANGED <<devices, timer, connected, faults>>
    BY <1>1 DEF TryOpen, AlreadyOpen
  <2>2. devices[i] # "closed"
    BY <1>1 DEF OpenIds
  <2> QED  BY <1>0, <2>1, <2>2
<1>2. CASE i \notin OpenIds
  <2>0. devices[i] = "closed" /\ i \notin connected
    BY <1>2 DEF OpenIds
  <2>1. CASE OpenGated(k, i)
    <3>1. /\ ~ InputAllowed
          /\ known' = [k EXCEPT ![i].available = FALSE, ![i].recoverable = TRUE]
          /\ UNCHANGED <<devices, timer, connected, faults>>
      BY <2>1 DEF OpenGated
    <3>2. /\ known' \in [Ids -> DeviceType]
          /\ \A j \in Ids \ {i} : known'[j] = k[j]
          /\ known'[i].path = k[i].path
          /\ ~ known'[i].available /\ known'[i].recoverable
      BY <3>1 DEF DeviceType
    <3> QED  BY <1>0, <2>0, <3>1, <3>2
  <2>2. CASE OpenFails(k, i)
    <3>1. PICK recoverable \in {TRUE, config.auto} :
            LET failed == [k EXCEPT ![i].available = FALSE,
                                    ![i].recoverable = recoverable]
                backed == [failed EXCEPT
                             ![i].wait = Backoff(k[i].step),
                             ![i].step = NextStep(@)]
            IN  IF config.auto /\ recoverable
                  THEN known' = backed /\ timer' = Schedule(backed, timer)
                  ELSE known' = failed /\ UNCHANGED timer
      BY <2>2 DEF OpenFails
    <3>2. /\ InputAllowed
          /\ faults' = faults \/ (faults > 0 /\ faults' = faults - 1)
          /\ UNCHANGED <<devices, connected>>
      BY <2>2 DEF OpenFails
    <3>3. Backoff(k[i].step) \in Nat
      BY <1>0 DEF Backoff, Smaller, Larger, DeviceType
    <3>4. NextStep(k[i].step) \in 0 .. BackoffMin * MaxFactor
      BY <1>0 DEF NextStep, Smaller, DeviceType
    <3>5. CASE config.auto /\ recoverable
      <4> DEFINE backed ==
                   [k EXCEPT ![i] = [k[i] EXCEPT
                      !.available = FALSE, !.recoverable = recoverable,
                      !.wait = Backoff(k[i].step),
                      !.step = NextStep(k[i].step)]]
      <4>1. known' = backed /\ timer' = Schedule(known', timer)
        <5> DEFINE failed == [k EXCEPT ![i].available = FALSE,
                                       ![i].recoverable = recoverable]
                   late == [failed EXCEPT ![i].wait = Backoff(k[i].step),
                                          ![i].step = NextStep(@)]
        <5>1. known' = late /\ timer' = Schedule(late, timer)
          BY <3>1, <3>5
        <5>2. /\ failed[i].step = k[i].step
              /\ \A j \in Ids \ {i} : failed[j] = k[j]
              /\ failed[i] = [k[i] EXCEPT !.available = FALSE,
                                          !.recoverable = recoverable]
              /\ DOMAIN failed = Ids
          BY DEF DeviceType
        <5>3. late = [failed EXCEPT ![i] = [failed[i] EXCEPT
                        !.wait = Backoff(k[i].step),
                        !.step = NextStep(failed[i].step)]]
          OBVIOUS
        <5>4. late = [j \in Ids |->
                        IF j = i THEN [failed[i] EXCEPT
                                         !.wait = Backoff(k[i].step),
                                         !.step = NextStep(k[i].step)]
                        ELSE k[j]]
          <6> HIDE DEF failed
          <6> QED  BY <5>2, <5>3
        <5>5. late = backed
          <6> HIDE DEF late
          <6>1. failed[i] = [k[i] EXCEPT !.available = FALSE,
                                         !.recoverable = recoverable]
            BY <5>2
          <6> HIDE DEF failed
          <6> QED  BY <5>4, <6>1 DEF DeviceType
        <5> HIDE DEF late, backed
        <5> QED  BY <5>1, <5>5
      <4>2. backed \in [Ids -> DeviceType]
        BY <3>3, <3>4, <3>5, <1>0 DEF DeviceType
      <4>3. /\ \A j \in Ids \ {i} : known'[j] = k[j]
            /\ known'[i].path = k[i].path
            /\ ~ known'[i].available /\ known'[i].recoverable
        BY <4>1, <3>5 DEF DeviceType
      <4> HIDE DEF backed
      <4> QED  BY <1>0, <2>0, <3>2, <4>1, <4>2, <4>3
    <3>6. CASE ~ (config.auto /\ recoverable)
      <4>1. /\ known' = [k EXCEPT ![i].available = FALSE,
                                  ![i].recoverable = recoverable]
            /\ timer' = timer
            /\ ~ config.auto
        BY <3>1, <3>6, <1>0
      <4>2. /\ known' \in [Ids -> DeviceType]
            /\ \A j \in Ids \ {i} : known'[j] = k[j]
            /\ known'[i].path = k[i].path
            /\ ~ known'[i].available
        BY <1>0, <4>1 DEF DeviceType
      <4> QED  BY <1>0, <2>0, <3>2, <4>1, <4>2
    <3> QED  BY <3>5, <3>6
  <2>3. CASE GrabFails(k, i)
    <3>1. /\ InputAllowed
          /\ faults > 0 /\ faults' = faults - 1
          /\ known' = [k EXCEPT ![i].available = FALSE,
                                ![i].recoverable = config.auto]
          /\ timer' = Schedule(known', timer)
          /\ UNCHANGED <<devices, connected>>
      BY <2>3 DEF GrabFails
    <3>2. /\ known' \in [Ids -> DeviceType]
          /\ \A j \in Ids \ {i} : known'[j] = k[j]
          /\ known'[i].path = k[i].path
          /\ ~ known'[i].available /\ known'[i].recoverable = config.auto
      BY <1>0, <3>1 DEF DeviceType
    <3> QED  BY <1>0, <2>0, <3>1, <3>2
  <2>4. CASE OpenSucceeds(k, i)
    <3>1. /\ InputAllowed /\ k[i].path \in plugged
          /\ known' = [k EXCEPT ![i].available = TRUE,
                                ![i].recoverable = FALSE,
                                ![i].step = BackoffMin, ![i].wait = Unset]
          /\ devices' = [devices EXCEPT ![i] = "live"]
          /\ connected' = connected \cup {i}
          /\ UNCHANGED <<timer, faults>>
      BY <2>4 DEF OpenSucceeds
    <3>2. BackoffMin \in 0 .. BackoffMin * MaxFactor
      BY <1>0
    <3>3. known' = [k EXCEPT ![i] = [k[i] EXCEPT
                      !.available = TRUE, !.recoverable = FALSE,
                      !.step = BackoffMin, !.wait = Unset]]
      BY <3>1 DEF DeviceType
    <3>4. /\ known' \in [Ids -> DeviceType]
          /\ \A j \in Ids \ {i} : known'[j] = k[j]
          /\ known'[i].path = k[i].path
          /\ known'[i].available
      BY <3>2, <3>3 DEF DeviceType
    <3>5. /\ devices' \in [Ids -> DeviceStates]
          /\ \A j \in Ids \ {i} : devices'[j] = devices[j]
          /\ devices'[i] = "live"
      BY <1>0, <3>1
    <3> QED  BY <1>0, <3>1, <3>4, <3>5
  <2> QED  BY <1>2, <2>1, <2>2, <2>3, <2>4 DEF TryOpen
<1> QED  BY <1>1, <1>2

(* A device the tables hold is tried again: the tables stay consistent. *)
LEMMA KnownTouched ==
  ASSUME ConstantsAssumption, IInv, NEW i \in Ids, TryOpen(known, i),
         UNCHANGED announced
  PROVE  Touched(i)
<1>1. /\ known \in [Ids -> DeviceType] /\ TypeOK
      /\ known[i].available <=> devices[i] # "closed"
      /\ devices[i] # "closed" => InputAllowed
      /\ i \in connected <=> devices[i] # "closed"
      /\ announced = KnownIds
  BY DEF IInv, TypeOK, ReceiversKnow, OpenIds, Gated
<1>2. /\ known' \in [Ids -> DeviceType]
      /\ devices' \in [Ids -> DeviceStates]
      /\ \A j \in Ids \ {i} : known'[j] = known[j] /\ devices'[j] = devices[j]
      /\ known'[i].path = known[i].path
      /\ known'[i].available <=> devices'[i] # "closed"
      /\ devices[i] # "closed" => devices'[i] # "closed"
      /\ devices'[i] # "closed" => InputAllowed
      /\ devices[i] = "closed" /\ devices'[i] # "closed"
           => known[i].path \in plugged
      /\ connected' = connected \cup {j \in {i} : devices'[j] # "closed"}
      /\ config.auto /\ ~ known'[i].available => known'[i].recoverable
      /\ faults' \in 0 .. MaxFaults
      /\ \/ timer' = Schedule(known', timer)
         \/ /\ timer' = timer
            /\ config.auto /\ InputAllowed => known'[i].available
  BY <1>1, TryOpenOutcome
<1>3. known'[i].path = NoPath => devices'[i] = "closed"
  <2>1. NoPath \notin plugged
    BY <1>1 DEF TypeOK, ConstantsAssumption
  <2>2. known[i].path = NoPath => devices[i] = "closed"
    BY DEF IInv, Gated
  <2> QED  BY <1>2, <2>1, <2>2
<1>4. \A j \in Ids \ {i} : known'[i].path # NoPath
                             => known[j].path # known'[i].path
  BY <1>2 DEF IInv, OneIdPerNode, KnownIds
<1>5. announced' = announced \cup {j \in {i} : known'[j].path # NoPath}
  BY <1>1, <1>2 DEF KnownIds
<1> QED  BY <1>2, <1>3, <1>4, <1>5 DEF Touched

(* A node that udev reports is tried under the identifier it has, or under
   one nobody uses; if there is none nothing happens. *)
LEMMA OpenGamepadTouches ==
  ASSUME ConstantsAssumption, IInv, NEW p \in Paths, OpenGamepad(p)
  PROVE  \/ \E i \in Ids : Touched(i)
         \/ UNCHANGED <<known, devices, timer, faults, signals>>
<1> DEFINE unused == {i \in Ids : known[i].path = NoPath
                                  /\ devices[i] = "closed"}
<1>1. CASE IdsOf(p) # {}
  <2>1. PICK i \in IdsOf(p) : TryOpen(known, i)
    BY <1>1 DEF OpenGamepad
  <2>2. i \in Ids /\ UNCHANGED announced
    BY <1>1 DEF OpenGamepad, IdsOf
  <2> QED  BY <2>1, <2>2, KnownTouched
<1>2. CASE IdsOf(p) = {} /\ unused = {}
  BY <1>2 DEF OpenGamepad
<1>3. CASE IdsOf(p) = {} /\ unused # {}
  <2>1. PICK i \in unused :
          /\ announced' = announced \cup {i}
          /\ TryOpen([known EXCEPT ![i] = [Blank EXCEPT !.path = p]], i)
    BY <1>3 DEF OpenGamepad
  <2> DEFINE k == [known EXCEPT ![i] = [Blank EXCEPT !.path = p]]
  <2>2. /\ known \in [Ids -> DeviceType] /\ TypeOK
        /\ i \in Ids /\ known[i].path = NoPath /\ devices[i] = "closed"
        /\ i \notin connected
    BY DEF IInv, TypeOK, ReceiversKnow, OpenIds
  <2>3. /\ k \in [Ids -> DeviceType]
        /\ k[i].path = p /\ ~ k[i].available
        /\ \A j \in Ids \ {i} : k[j] = known[j]
    <3>1. BackoffMin \in 0 .. BackoffMin * MaxFactor
      BY DEF ConstantsAssumption
    <3>2. [Blank EXCEPT !.path = p] \in DeviceType
      BY <3>1 DEF Blank, DeviceType
    <3>3. ~ [Blank EXCEPT !.path = p].available
          /\ [Blank EXCEPT !.path = p].path = p
      BY DEF Blank
    <3> QED  BY <2>2, <3>2, <3>3
  <2>4. TryOpen(k, i)
    BY <2>1
  <2> HIDE DEF k
  <2>5. /\ known' \in [Ids -> DeviceType]
        /\ devices' \in [Ids -> DeviceStates]
        /\ \A j \in Ids \ {i} : known'[j] = k[j] /\ devices'[j] = devices[j]
        /\ known'[i].path = k[i].path
        /\ known'[i].available <=> devices'[i] # "closed"
        /\ devices'[i] # "closed" => InputAllowed
        /\ connected' = connected \cup {j \in {i} : devices'[j] # "closed"}
        /\ config.auto /\ ~ known'[i].available => known'[i].recoverable
        /\ faults' \in 0 .. MaxFaults
        /\ \/ timer' = Schedule(known', timer)
           \/ /\ timer' = timer
              /\ config.auto /\ InputAllowed => known'[i].available
    BY <2>2, <2>3, <2>4, TryOpenOutcome
  <2>6. p # NoPath /\ \A j \in Ids : known[j].path # p
    BY <1>3 DEF IdsOf, ConstantsAssumption
  <2>7. Touched(i)
    BY <2>1, <2>2, <2>3, <2>5, <2>6 DEF Touched
  <2> QED  BY <2>2, <2>7
<1> QED  BY <1>1, <1>2, <1>3

-----------------------------------------------------------------------------
(* The invariant *)

(* RetryIsArmed without the handler: true between two handlers. *)
Armed ==
  running /\ config.auto /\ InputAllowed =>
    \A i \in KnownIds :
      ~ known[i].available =>
        /\ timer >= 0
        /\ timer <= Larger(known[i].wait, IF monitor THEN 0 ELSE PollInterval)

(* The part of the invariant that only the tables are in. *)
Tables == ReceiversKnow /\ OneIdPerNode /\ Gated /\ Recoverables

(* Touching a device keeps the tables and the timer in order. *)
LEMMA TouchKeeps ==
  ASSUME ConstantsAssumption, IInv, NEW i \in Ids, Touched(i),
         UNCHANGED <<gate, config, running, monitor>>
  PROVE  /\ Tables'
         /\ timer' \in Timers
         /\ connected' \in SUBSET Ids /\ announced' \in SUBSET Ids
         /\ running /\ config.auto => timer' # Missing
         /\ Armed => Armed'
<1> USE DEF IInv
<1>1. /\ known \in [Ids -> DeviceType] /\ timer \in Timers
      /\ monitor \in BOOLEAN /\ known' \in [Ids -> DeviceType]
  BY DEF TypeOK, Timers, Touched
<1>2. InputAllowed' = InputAllowed /\ config' = config /\ running' = running
      /\ monitor' = monitor
  BY DEF gate, InputAllowed
<1>3. ReceiversKnow'
  <2>1. OpenIds' = OpenIds \cup {j \in {i} : devices'[j] # "closed"}
    BY DEF Touched, OpenIds
  <2>2. KnownIds' = KnownIds \cup {j \in {i} : known'[j].path # NoPath}
    BY DEF Touched, KnownIds
  <2>3. \A j \in Ids : known'[j].available <=> j \in OpenIds'
    BY DEF Touched, OpenIds, ReceiversKnow
  <2> QED  BY <2>1, <2>2, <2>3 DEF Touched, ReceiversKnow
<1>4. OneIdPerNode'
  BY DEF Touched, OneIdPerNode, KnownIds
<1>5. Gated'
  BY <1>2 DEF Touched, Gated, OpenIds
<1>6. Recoverables'
  BY <1>2 DEF Touched, Recoverables, KnownIds
<1>7. timer' \in Timers /\ (running /\ config.auto => timer' # Missing)
  <2>1. /\ Schedule(known', timer) \in Timers
        /\ timer # Missing => Schedule(known', timer) # Missing
    BY <1>1, ScheduleBound
  <2> QED  BY <1>1, <2>1 DEF Touched, AtRest
<1>8. ASSUME Armed, running, config.auto, InputAllowed,
             NEW j \in KnownIds', ~ known'[j].available
      PROVE  /\ timer' >= 0
             /\ timer' <= Larger(known'[j].wait,
                                 IF monitor THEN 0 ELSE PollInterval)
  <2>0. j \in Ids /\ known'[j].path # NoPath
    BY DEF KnownIds
  <2>1. CASE timer' = Schedule(known', timer)
    <3>1. timer # Missing
      BY <1>8 DEF AtRest
    <3>2. known'[j].recoverable
      BY <1>2, <1>6, <1>8 DEF Recoverables
    <3>3. j \in Waiting(known')
      BY <1>8, <2>0, <3>2 DEF Waiting
    <3> QED  BY <1>1, <1>8, <2>1, <3>1, <3>3, ScheduleBound
  <2>2. CASE timer' # Schedule(known', timer)
    <3>1. timer' = timer /\ known'[i].available
      BY <1>8, <2>2 DEF Touched
    <3>2. j # i /\ known'[j] = known[j]
      BY <1>8, <2>0, <3>1 DEF Touched
    <3>3. j \in KnownIds /\ ~ known[j].available
      BY <1>8, <2>0, <3>2 DEF KnownIds
    <3> QED  BY <1>8, <3>1, <3>2, <3>3 DEF Armed
  <2> QED  BY <2>1, <2>2
<1>9. Armed => Armed'
  BY <1>2, <1>8 DEF Armed
<1>10. connected' \in SUBSET Ids /\ announced' \in SUBSET Ids
  BY DEF Touched, TypeOK
<1> QED  BY <1>3, <1>4, <1>5, <1>6, <1>7, <1>9, <1>10 DEF Tables

(* The invariant from its parts. *)
LEMMA Parts ==
  /\ IInv <=> TypeOK /\ Tables /\ RetryIsArmed /\ AtRest
  /\ RetryIsArmed <=> (handler = Idle => Armed)
BY DEF IInv, Tables, RetryIsArmed, Armed

(* Nothing is known and nothing is open when the program starts. *)
LEMMA InitHolds == ConstantsAssumption /\ Init => IInv
<1> SUFFICES ASSUME ConstantsAssumption, Init PROVE IInv
  OBVIOUS
<1>1. TypeOK
  <2>1. Blank \in DeviceType
    <3>1. BackoffMin \in 0 .. BackoffMin * MaxFactor
      BY DEF ConstantsAssumption
    <3> QED  BY <3>1 DEF Blank, DeviceType
  <2>2. Idle \in [doing : {"idle", "start", "rescan", "retry"},
                  probe : SUBSET Paths, open : SUBSET Ids]
    BY DEF Idle
  <2>3. MaxFaults \in 0 .. MaxFaults
    BY DEF ConstantsAssumption
  <2>4. timer \in Nat \cup {Stopped, Missing}
    BY DEF Init
  <2>5. uevents \in [Paths -> Seq({"add", "remove"})]
    BY DEF Init
  <2> QED  BY <2>1, <2>2, <2>3, <2>4, <2>5 DEF Init, TypeOK
<1>2. Tables
  BY DEF Init, Tables, ReceiversKnow, OneIdPerNode, Gated, Recoverables,
         OpenIds, KnownIds, Blank
<1>3. RetryIsArmed /\ AtRest
  BY DEF Init, RetryIsArmed, AtRest, KnownIds, Blank, Idle, Missing
<1> QED  BY <1>1, <1>2, <1>3, Parts

(* The kernel changes which nodes exist and which descriptors still work,
   not which devices the backend holds. *)
LEMMA KernelKeeps ==
  ASSUME ConstantsAssumption, IInv,
         \/ \E p \in Paths : Plug(p) \/ Unplug(p)
         \/ \E i \in Ids : Break(i)
         \/ SwitchSession
  PROVE  IInv'
<1>1. /\ UNCHANGED <<gate, config, running, monitor, known, timer, handler,
                     signals>>
      /\ \A i \in Ids : devices'[i] = "closed" <=> devices[i] = "closed"
      /\ devices' \in [Ids -> DeviceStates]
      /\ plugged' \in SUBSET Paths /\ faults' \in 0 .. MaxFaults
      /\ sessionActive' \in BOOLEAN /\ propsPending' \in BOOLEAN
      /\ uevents' \in [Paths -> Seq({"add", "remove"})]
      /\ ~ monitor => uevents' = uevents
  <2>0. /\ devices \in [Ids -> DeviceStates] /\ faults \in 0 .. MaxFaults
        /\ uevents \in [Paths -> Seq({"add", "remove"})]
        /\ plugged \in SUBSET Paths
        /\ sessionActive \in BOOLEAN /\ propsPending \in BOOLEAN
        /\ MaxFaults \in Nat
    BY DEF IInv, TypeOK, DeviceStates, ConstantsAssumption
  <2>1. ASSUME NEW p \in Paths, NEW event \in {"add", "remove"}
        PROVE  /\ Queued(p, event) \in [Paths -> Seq({"add", "remove"})]
               /\ ~ monitor => Queued(p, event) = uevents
    BY <2>0 DEF Queued
  <2>2. ASSUME NEW p \in Paths, Plug(p)
        PROVE  <1>1!:
    BY <2>0, <2>1, <2>2 DEF Plug, DeviceStates
  <2>3. ASSUME NEW p \in Paths, Unplug(p)
        PROVE  <1>1!:
    BY <2>0, <2>1, <2>3 DEF Unplug, DeviceStates
  <2>4. ASSUME NEW i \in Ids, Break(i)
        PROVE  <1>1!:
    BY <2>0, <2>4 DEF Break, DeviceStates, kernel
  <2>5. CASE SwitchSession
    BY <2>0, <2>5 DEF SwitchSession
  <2> QED  BY <2>2, <2>3, <2>4, <2>5
<1>2. /\ InputAllowed' = InputAllowed /\ Armed' = Armed
      /\ OpenIds' = OpenIds /\ KnownIds' = KnownIds
  BY <1>1 DEF gate, InputAllowed, Armed, OpenIds, KnownIds
<1>3. TypeOK'
  BY <1>1 DEF IInv, TypeOK, gate, signals, DeviceStates
<1>4. Tables'
  BY <1>1, <1>2 DEF IInv, Tables, ReceiversKnow, OneIdPerNode, Gated,
                    Recoverables, signals
<1>5. AtRest'
  BY <1>1 DEF IInv, AtRest
<1>6. RetryIsArmed'
  BY <1>1, <1>2, Parts DEF IInv, RetryIsArmed, Armed
<1> QED  BY <1>3, <1>4, <1>5, <1>6 DEF IInv, Tables

(* Time passes for the timer and for the retry times alike. *)
LEMMA TickKeeps ==
  ASSUME ConstantsAssumption, IInv, Tick
  PROVE  IInv'
<1>1. /\ known \in [Ids -> DeviceType] /\ timer \in Timers
      /\ PollInterval \in Nat /\ monitor \in BOOLEAN
  BY DEF IInv, TypeOK, Timers, ConstantsAssumption
<1>2. /\ timer' = IF timer > 0 THEN timer - 1 ELSE timer
      /\ known' = [i \in Ids |-> IF known[i].wait > 0
                                 THEN [known[i] EXCEPT !.wait = @ - 1]
                                 ELSE known[i]]
      /\ UNCHANGED <<plugged, uevents, sessionActive, propsPending, faults,
                     gateEnabled, gateActive, config, running, monitor,
                     devices, handler, connected, announced>>
  BY DEF Tick, kernel, gate, signals
<1>3. /\ known' \in [Ids -> DeviceType]
      /\ \A i \in Ids : /\ known'[i].path = known[i].path
                        /\ known'[i].available = known[i].available
                        /\ known'[i].recoverable = known[i].recoverable
                        /\ known'[i].wait = IF known[i].wait > 0
                                            THEN known[i].wait - 1
                                            ELSE known[i].wait
  BY <1>1, <1>2 DEF DeviceType, Unset
<1>4. timer' \in Timers /\ (timer # Missing => timer' # Missing)
  BY <1>1, <1>2 DEF Timers, Stopped, Missing
<1>5. TypeOK'
  BY <1>2, <1>3, <1>4 DEF IInv, TypeOK, Timers
<1>6. KnownIds' = KnownIds /\ OpenIds' = OpenIds
      /\ InputAllowed' = InputAllowed
  BY <1>2, <1>3 DEF KnownIds, OpenIds, InputAllowed
<1>7. Tables'
  <2>1. ReceiversKnow' /\ Gated'
    BY <1>2, <1>3, <1>6 DEF IInv, ReceiversKnow, Gated
  <2>2. OneIdPerNode' /\ Recoverables'
    BY <1>2, <1>3, <1>6 DEF IInv, OneIdPerNode, Recoverables, KnownIds
  <2> QED  BY <2>1, <2>2 DEF Tables
<1>8. AtRest'
  BY <1>1, <1>2, <1>3, <1>4 DEF IInv, AtRest, Timers, Stopped, Missing
<1>9. RetryIsArmed'
  <2>1. ASSUME handler = Idle, running, config.auto, InputAllowed,
               NEW i \in KnownIds, ~ known[i].available
        PROVE  /\ timer' >= 0
               /\ timer' <= Larger(known'[i].wait,
                                   IF monitor THEN 0 ELSE PollInterval)
    <3>1. /\ timer >= 0
          /\ timer <= Larger(known[i].wait,
                             IF monitor THEN 0 ELSE PollInterval)
      BY <2>1 DEF IInv, RetryIsArmed
    <3>2. known[i].wait \in Nat \cup {Unset} /\ i \in Ids
      BY <1>1 DEF DeviceType, KnownIds
    <3>3. timer \in Nat
      BY <1>1, <3>1 DEF Timers, Stopped, Missing
    <3>4. known'[i].wait = IF known[i].wait > 0 THEN known[i].wait - 1
                           ELSE known[i].wait
      BY <1>3, <3>2
    <3> QED  BY <1>1, <1>2, <3>1, <3>2, <3>3, <3>4 DEF Larger, Unset
  <2> QED  BY <1>2, <1>3, <1>6, <2>1 DEF RetryIsArmed, KnownIds
<1> QED  BY <1>5, <1>7, <1>8, <1>9 DEF IInv, Tables

(* Where the tables and their receivers do not change, only the gate, the
   timer and the handler can break the invariant. *)
LEMMA TablesKept ==
  ASSUME IInv, UNCHANGED <<known, devices, signals>>,
         InputAllowed' \/ OpenIds = {},
         config'.auto = config.auto
  PROVE  /\ Tables'
         /\ KnownIds' = KnownIds /\ OpenIds' = OpenIds
<1>1. KnownIds' = KnownIds /\ OpenIds' = OpenIds
  BY DEF KnownIds, OpenIds
<1>2. ReceiversKnow' /\ OneIdPerNode' /\ Gated'
  BY <1>1 DEF IInv, ReceiversKnow, OneIdPerNode, Gated, signals
<1>3. Recoverables'
  BY <1>1 DEF IInv, Recoverables
<1> QED  BY <1>1, <1>2, <1>3 DEF Tables

(* A configuration is taken only while nothing is known. *)
LEMMA ConfigKeeps ==
  ASSUME ConstantsAssumption, IInv, NEW c \in Configs, SetRuntimeConfig(c)
  PROVE  IInv'
<1>1. /\ handler = Idle /\ ~ running
      /\ config' = c /\ gateEnabled' = c.gated
      /\ gateActive' = (gateActive \/ (gateEnabled /\ ~ c.gated))
      /\ UNCHANGED <<plugged, uevents, sessionActive, propsPending, faults,
                     running, monitor, known, devices, timer, handler,
                     connected, announced>>
  BY DEF SetRuntimeConfig, EnableGate, kernel, signals
<1>2. KnownIds = {} /\ OpenIds = {}
  BY <1>1 DEF IInv, AtRest, Gated, KnownIds, OpenIds
<1>3. c.gated \in BOOLEAN
  BY DEF ConstantsAssumption
<1>4. TypeOK'
  <2>1. gateActive' \in BOOLEAN
    BY <1>1, <1>3 DEF IInv, TypeOK
  <2> QED  BY <1>1, <1>3, <2>1 DEF IInv, TypeOK
<1>5. Tables'
  <2>1. KnownIds' = {} /\ OpenIds' = {}
    BY <1>1, <1>2 DEF KnownIds, OpenIds
  <2> QED  BY <1>1, <1>2, <2>1 DEF IInv, Tables, ReceiversKnow, OneIdPerNode,
                                   Gated, Recoverables
<1>6. AtRest' /\ RetryIsArmed'
  BY <1>1 DEF IInv, AtRest, RetryIsArmed, Idle
<1> QED  BY <1>4, <1>5, <1>6 DEF IInv, Tables

(* start() begins with the gate and ends with the timer. *)
LEMMA StartKeeps ==
  ASSUME ConstantsAssumption, IInv, Start
  PROVE  IInv'
<1>1. /\ handler = Idle /\ ~ running /\ monitor' \in BOOLEAN
      /\ gateEnabled' = config.gated
      /\ gateActive' = (gateActive \/ (gateEnabled /\ ~ config.gated))
      /\ handler' = [Idle EXCEPT !.doing = "start", !.probe = plugged]
      /\ UNCHANGED <<plugged, uevents, sessionActive, propsPending, faults,
                     config, running, known, devices, timer, connected,
                     announced>>
  BY DEF Start, EnableGate, kernel, signals
<1>2. OpenIds = {}
  BY <1>1 DEF IInv, AtRest, Gated, OpenIds
<1>3. config.gated \in BOOLEAN
  <2>1. DefaultConfig.gated \in BOOLEAN
    BY DEF DefaultConfig
  <2> QED  BY <2>1 DEF IInv, TypeOK, ConstantsAssumption
<1>4. /\ handler'.doing = "start"
      /\ handler' \in [doing : {"idle", "start", "rescan", "retry"},
                       probe : SUBSET Paths, open : SUBSET Ids]
  BY <1>1 DEF IInv, TypeOK, Idle
<1>5. TypeOK'
  <2>1. gateActive' \in BOOLEAN
    BY <1>1, <1>3 DEF IInv, TypeOK
  <2> QED  BY <1>1, <1>3, <1>4, <2>1 DEF IInv, TypeOK
<1>6. Tables'
  BY <1>1, <1>2, TablesKept DEF signals
<1>7. AtRest' /\ RetryIsArmed'
  BY <1>1, <1>4 DEF AtRest, RetryIsArmed, Idle
<1> QED  BY <1>5, <1>6, <1>7 DEF IInv, Tables

(* Scheduling over the devices that are known arms the timer. *)
LEMMA ScheduleArms ==
  ASSUME ConstantsAssumption, IInv, NEW t \in Timers,
         config.auto /\ InputAllowed => t # Missing
  PROVE  /\ Schedule(known, t) \in Timers
         /\ t # Missing => Schedule(known, t) # Missing
         /\ config.auto /\ InputAllowed =>
              \A i \in KnownIds :
                ~ known[i].available =>
                  /\ Schedule(known, t) >= 0
                  /\ Schedule(known, t) <= Larger(known[i].wait,
                                             IF monitor THEN 0
                                             ELSE PollInterval)
<1>1. monitor \in BOOLEAN /\ known \in [Ids -> DeviceType]
  BY DEF IInv, TypeOK
<1>2. ASSUME config.auto, NEW i \in KnownIds, ~ known[i].available
      PROVE  i \in Waiting(known)
  BY <1>2 DEF IInv, Recoverables, Waiting, KnownIds
<1> QED  BY <1>1, <1>2, ScheduleBound

LEMMA StartEndsKeeps ==
  ASSUME ConstantsAssumption, IInv, StartEnds
  PROVE  IInv'
<1> DEFINE t == IF config.auto THEN Larger(timer, Stopped) ELSE timer
<1>1. /\ timer' = Schedule(known, t)
      /\ running' = TRUE /\ handler' = Idle
      /\ UNCHANGED <<plugged, uevents, sessionActive, propsPending, faults,
                     gateEnabled, gateActive, config, monitor, known, devices,
                     connected, announced>>
  BY DEF StartEnds, kernel, gate, signals
<1>2. t \in Timers /\ (config.auto => t # Missing)
  BY DEF IInv, TypeOK, Timers, Larger, Stopped, Missing
<1> HIDE DEF t
<1>3. /\ timer' \in Timers /\ (config.auto => timer' # Missing)
      /\ config.auto /\ InputAllowed =>
           \A i \in KnownIds :
             ~ known[i].available =>
               /\ timer' >= 0
               /\ timer' <= Larger(known[i].wait,
                                   IF monitor THEN 0 ELSE PollInterval)
  BY <1>1, <1>2, ScheduleArms
<1>4. InputAllowed' = InputAllowed
  BY <1>1 DEF InputAllowed
<1>5. Tables' /\ KnownIds' = KnownIds
  BY <1>1, <1>4, TablesKept DEF signals, IInv, Gated
<1>6. TypeOK'
  <2>1. handler' \in [doing : {"idle", "start", "rescan", "retry"},
                      probe : SUBSET Paths, open : SUBSET Ids]
    BY <1>1 DEF Idle
  <2> QED  BY <1>1, <1>3, <2>1 DEF IInv, TypeOK, Timers
<1>7. AtRest'
  BY <1>1, <1>3 DEF AtRest, Idle
<1>8. RetryIsArmed'
  BY <1>1, <1>3, <1>4, <1>5 DEF RetryIsArmed
<1> QED  BY <1>5, <1>6, <1>7, <1>8 DEF IInv, Tables

(* stop() empties the tables and tells the timer, not the receivers. *)
LEMMA StopKeeps ==
  ASSUME ConstantsAssumption, IInv, Stop
  PROVE  IInv'
<1>1. /\ handler = Idle /\ running' = FALSE /\ monitor' = FALSE
      /\ uevents' = [p \in Paths |-> <<>>]
      /\ known' = [i \in Ids |-> Blank]
      /\ devices' = [i \in Ids |-> "closed"]
      /\ timer' = Smaller(timer, Stopped)
      /\ connected' = {} /\ announced' = {}
      /\ UNCHANGED <<plugged, sessionActive, propsPending, faults,
                     gateEnabled, gateActive, config, handler>>
  BY DEF Stop, gate
<1>2. Blank \in DeviceType
  <2>1. BackoffMin \in 0 .. BackoffMin * MaxFactor
    BY DEF ConstantsAssumption
  <2> QED  BY <2>1 DEF Blank, DeviceType
<1>3. timer' \in Timers
  BY <1>1 DEF IInv, TypeOK, Smaller, Timers, Stopped, Missing
<1>4. TypeOK'
  <2>1. uevents' \in [Paths -> Seq({"add", "remove"})]
    BY <1>1
  <2> QED  BY <1>1, <1>2, <1>3, <2>1 DEF IInv, TypeOK, Timers
<1>5. /\ KnownIds' = {} /\ OpenIds' = {}
      /\ \A i \in Ids : known'[i].path = NoPath /\ ~ known'[i].available
  BY <1>1 DEF KnownIds, OpenIds, Blank
<1>6. Tables'
  BY <1>1, <1>5 DEF Tables, ReceiversKnow, OneIdPerNode, Gated, Recoverables
<1>7. AtRest' /\ RetryIsArmed'
  <2>1. timer' < 0
    BY <1>1 DEF IInv, TypeOK, Smaller, Stopped, Missing
  <2> QED  BY <1>1, <1>5, <2>1 DEF IInv, AtRest, RetryIsArmed, Idle
<1> QED  BY <1>4, <1>6, <1>7 DEF IInv, Tables

(* A step of a handler that touches at most one device. *)
LEMMA StepKeeps ==
  ASSUME ConstantsAssumption, IInv,
         \/ \E i \in Ids : Touched(i)
         \/ UNCHANGED <<known, devices, timer, faults, signals>>,
         UNCHANGED <<plugged, sessionActive, propsPending, gate, config,
                     running, monitor>>,
         uevents' \in [Paths -> Seq({"add", "remove"})],
         running \/ handler # Idle,
         handler' \in [doing : {"idle", "start", "rescan", "retry"},
                       probe : SUBSET Paths, open : SUBSET Ids],
         handler'.doing = handler.doing,
         handler = Idle => handler' = Idle
  PROVE  IInv'
<1>1. /\ Tables' /\ (Armed => Armed')
      /\ timer' \in Timers /\ (running /\ config.auto => timer' # Missing)
      /\ known' \in [Ids -> DeviceType] /\ devices' \in [Ids -> DeviceStates]
      /\ connected' \in SUBSET Ids /\ announced' \in SUBSET Ids
      /\ faults' \in 0 .. MaxFaults
  <2>1. ASSUME NEW i \in Ids, Touched(i)
        PROVE  <1>1!:
    BY <2>1, TouchKeeps DEF Touched
  <2>2. ASSUME UNCHANGED <<known, devices, timer, faults, signals>>
        PROVE  <1>1!:
    <3>1. InputAllowed' = InputAllowed
      BY DEF gate, InputAllowed
    <3>2. Tables' /\ KnownIds' = KnownIds
      BY <2>2, <3>1, TablesKept DEF IInv, Gated
    <3>3. Armed => Armed'
      BY <2>2, <3>1, <3>2 DEF Armed
    <3> QED  BY <2>2, <3>2, <3>3 DEF IInv, TypeOK, AtRest, DeviceStates,
                                     Timers, signals
  <2> QED  BY <2>1, <2>2
<1>2. TypeOK'
  BY <1>1 DEF IInv, TypeOK, gate, DeviceStates, Timers
<1>3. handler' = Idle => handler = Idle
  BY DEF IInv, AtRest, Idle
<1>4. AtRest'
  BY <1>1, <1>3 DEF IInv, AtRest
<1>5. RetryIsArmed'
  BY <1>1, <1>3, Parts DEF RetryIsArmed, Armed
<1> QED  BY <1>1, <1>2, <1>4, <1>5 DEF IInv, Tables

LEMMA ProbeKeeps ==
  ASSUME ConstantsAssumption, IInv, NEW p \in Paths, Probe(p)
  PROVE  IInv'
<1>1. /\ handler # Idle
      /\ handler' = [handler EXCEPT !.probe = @ \ {p}]
      /\ UNCHANGED <<plugged, uevents, sessionActive, propsPending, gate,
                     config, running, monitor>>
  BY DEF Probe, Idle, kernel
<1>2. \/ \E i \in Ids : Touched(i)
      \/ UNCHANGED <<known, devices, timer, faults, signals>>
  BY OpenGamepadTouches DEF Probe
<1>3. /\ handler' \in [doing : {"idle", "start", "rescan", "retry"},
                       probe : SUBSET Paths, open : SUBSET Ids]
      /\ handler'.doing = handler.doing
      /\ uevents' \in [Paths -> Seq({"add", "remove"})]
  BY <1>1 DEF IInv, TypeOK
<1> QED  BY <1>1, <1>2, <1>3, StepKeeps

LEMMA RetryKeeps ==
  ASSUME ConstantsAssumption, IInv, NEW i \in Ids, Retry(i)
  PROVE  IInv'
<1>1. /\ handler # Idle
      /\ handler' = [handler EXCEPT !.open = @ \ {i}]
      /\ TryOpen(known, i)
      /\ UNCHANGED <<plugged, uevents, sessionActive, propsPending, gate,
                     config, running, monitor, announced>>
  BY DEF Retry, Idle, kernel
<1>2. Touched(i)
  BY <1>1, KnownTouched
<1>3. /\ handler' \in [doing : {"idle", "start", "rescan", "retry"},
                       probe : SUBSET Paths, open : SUBSET Ids]
      /\ handler'.doing = handler.doing
      /\ uevents' \in [Paths -> Seq({"add", "remove"})]
  BY <1>1 DEF IInv, TypeOK
<1> QED  BY <1>1, <1>2, <1>3, StepKeeps

LEMMA UdevAddKeeps ==
  ASSUME ConstantsAssumption, IInv, NEW p \in Paths, UdevAdd(p)
  PROVE  IInv'
<1>1. /\ handler = Idle /\ handler' = Idle
      /\ uevents[p] # <<>>
      /\ uevents' = [uevents EXCEPT ![p] = Tail(@)]
      /\ OpenGamepad(p)
      /\ UNCHANGED <<plugged, sessionActive, propsPending, gate, config,
                     running, monitor>>
  BY DEF UdevAdd
<1>2. running
  BY <1>1 DEF IInv, AtRest
<1>3. /\ uevents' \in [Paths -> Seq({"add", "remove"})]
      /\ handler' \in [doing : {"idle", "start", "rescan", "retry"},
                       probe : SUBSET Paths, open : SUBSET Ids]
  BY <1>1 DEF IInv, TypeOK
<1>4. \/ \E i \in Ids : Touched(i)
      \/ UNCHANGED <<known, devices, timer, faults, signals>>
  BY <1>1, OpenGamepadTouches
<1> QED  BY <1>1, <1>2, <1>3, <1>4, StepKeeps

(* Handlers that take something from the tables and schedule the rest. *)
LEMMA ScheduledKeeps ==
  ASSUME ConstantsAssumption, IInv, running, handler = Idle, handler' = Idle,
         known' \in [Ids -> DeviceType], devices' \in [Ids -> DeviceStates],
         connected' \in SUBSET Ids, announced' \in SUBSET Ids,
         uevents' \in [Paths -> Seq({"add", "remove"})],
         Tables', timer' = Schedule(known', timer),
         UNCHANGED <<plugged, sessionActive, propsPending, faults, gate,
                     config, running, monitor>>
  PROVE  IInv'
<1>1. /\ InputAllowed' = InputAllowed /\ timer \in Timers
      /\ monitor \in BOOLEAN /\ (config.auto => timer # Missing)
  BY DEF gate, InputAllowed, IInv, TypeOK, Timers, AtRest
<1>2. /\ timer' \in Timers /\ (timer # Missing => timer' # Missing)
      /\ config.auto /\ timer # Missing /\ InputAllowed =>
           \A i \in Waiting(known') :
             /\ timer' >= 0
             /\ timer' <= Larger(known'[i].wait,
                                 IF monitor THEN 0 ELSE PollInterval)
  BY <1>1, ScheduleBound
<1>3. TypeOK'
  BY <1>2 DEF IInv, TypeOK, gate, DeviceStates, Timers
<1>4. AtRest'
  BY <1>1, <1>2 DEF AtRest, Idle
<1>5. RetryIsArmed'
  <2>1. ASSUME config.auto, NEW i \in KnownIds', ~ known'[i].available
        PROVE  i \in Waiting(known')
    BY <2>1 DEF Tables, Recoverables, Waiting, KnownIds
  <2> QED  BY <1>1, <1>2, <2>1 DEF RetryIsArmed
<1> QED  BY <1>3, <1>4, <1>5 DEF IInv, Tables

LEMMA UdevRemoveKeeps ==
  ASSUME ConstantsAssumption, IInv, NEW p \in Paths, UdevRemove(p)
  PROVE  IInv'
<1>1. /\ handler = Idle /\ handler' = Idle /\ uevents[p] # <<>>
      /\ uevents' = [uevents EXCEPT ![p] = Tail(@)]
      /\ UNCHANGED <<plugged, sessionActive, propsPending, faults, gate,
                     config, running, monitor>>
  BY DEF UdevRemove
<1>2. running
  BY <1>1 DEF IInv, AtRest
<1>3. /\ uevents' \in [Paths -> Seq({"add", "remove"})]
      /\ handler' \in [doing : {"idle", "start", "rescan", "retry"},
                       probe : SUBSET Paths, open : SUBSET Ids]
  BY <1>1 DEF IInv, TypeOK
<1>4. CASE IdsOf(p) = {}
  <2>1. UNCHANGED <<known, devices, timer, faults, signals>>
    BY <1>1, <1>4 DEF UdevRemove
  <2> QED  BY <1>1, <1>2, <1>3, <2>1, StepKeeps
<1>5. CASE IdsOf(p) # {}
  <2>1. /\ known' = [i \in Ids |-> IF i \in IdsOf(p) THEN Blank
                                   ELSE known[i]]
        /\ devices' = [i \in Ids |-> IF i \in IdsOf(p) THEN "closed"
                                     ELSE devices[i]]
        /\ connected' = connected \ IdsOf(p)
        /\ announced' = announced \ IdsOf(p)
        /\ timer' = Schedule(known', timer)
    BY <1>5 DEF UdevRemove
  <2>2. Blank \in DeviceType /\ Blank.path = NoPath /\ ~ Blank.available
    <3>1. BackoffMin \in 0 .. BackoffMin * MaxFactor
      BY DEF ConstantsAssumption
    <3> QED  BY <3>1 DEF Blank, DeviceType
  <2>3. /\ known' \in [Ids -> DeviceType] /\ devices' \in [Ids -> DeviceStates]
        /\ connected' \in SUBSET Ids /\ announced' \in SUBSET Ids
    BY <2>1, <2>2 DEF IInv, TypeOK, DeviceStates
  <2>4. /\ KnownIds' = KnownIds \ IdsOf(p) /\ OpenIds' = OpenIds \ IdsOf(p)
        /\ InputAllowed' = InputAllowed
    BY <1>1, <2>1, <2>2 DEF KnownIds, OpenIds, gate, InputAllowed
  <2>5. ReceiversKnow'
    BY <2>1, <2>2, <2>4 DEF IInv, ReceiversKnow
  <2>6. OneIdPerNode' /\ Recoverables'
    BY <1>1, <2>1, <2>4 DEF IInv, OneIdPerNode, Recoverables, KnownIds
  <2>7. Gated'
    BY <2>1, <2>4 DEF IInv, Gated
  <2>8. Tables'
    BY <2>5, <2>6, <2>7 DEF Tables
  <2> QED  BY <1>1, <1>2, <1>3, <2>1, <2>3, <2>8, ScheduledKeeps
<1> QED  BY <1>4, <1>5

LEMMA DeviceLostKeeps ==
  ASSUME ConstantsAssumption, IInv, NEW i \in Ids, DeviceLost(i)
  PROVE  IInv'
<1>1. /\ handler = Idle /\ handler' = Idle /\ devices[i] = "dead"
      /\ devices' = [devices EXCEPT ![i] = "closed"]
      /\ known' = [known EXCEPT ![i].available = FALSE,
                                ![i].recoverable = config.auto]
      /\ timer' = Schedule(known', timer)
      /\ connected' = connected \ {i} /\ announced' = announced
      /\ UNCHANGED <<plugged, uevents, sessionActive, propsPending, faults,
                     gate, config, running, monitor>>
  BY DEF DeviceLost, kernel
<1>2. running
  BY <1>1 DEF IInv, AtRest, Gated
<1>3. /\ known \in [Ids -> DeviceType] /\ config.auto \in BOOLEAN
      /\ devices \in [Ids -> DeviceStates]
  <2>1. DefaultConfig.auto \in BOOLEAN
    BY DEF DefaultConfig
  <2> QED  BY <2>1 DEF IInv, TypeOK, ConstantsAssumption, DeviceStates
<1>4. /\ known' \in [Ids -> DeviceType] /\ devices' \in [Ids -> DeviceStates]
      /\ \A j \in Ids \ {i} : known'[j] = known[j] /\ devices'[j] = devices[j]
      /\ known'[i].path = known[i].path /\ devices'[i] = "closed"
      /\ ~ known'[i].available /\ known'[i].recoverable = config.auto
  BY <1>1, <1>3 DEF DeviceType, DeviceStates
<1>5. /\ KnownIds' = KnownIds /\ OpenIds' = OpenIds \ {i}
      /\ InputAllowed' = InputAllowed
  BY <1>1, <1>4 DEF KnownIds, OpenIds, gate, InputAllowed
<1>6. ReceiversKnow'
  BY <1>1, <1>4, <1>5 DEF IInv, ReceiversKnow
<1>7. OneIdPerNode' /\ Recoverables'
  BY <1>1, <1>4, <1>5 DEF IInv, OneIdPerNode, Recoverables, KnownIds
<1>8. Gated'
  BY <1>4, <1>5 DEF IInv, Gated
<1>9. Tables'
  BY <1>6, <1>7, <1>8 DEF Tables
<1>10. /\ connected' \in SUBSET Ids /\ announced' \in SUBSET Ids
       /\ uevents' \in [Paths -> Seq({"add", "remove"})]
  BY <1>1 DEF IInv, TypeOK
<1> QED  BY <1>1, <1>2, <1>4, <1>9, <1>10, ScheduledKeeps

LEMMA PropertiesKeep ==
  ASSUME ConstantsAssumption, IInv, PropertiesChanged
  PROVE  IInv'
<1>1. /\ handler = Idle /\ propsPending' = FALSE
      /\ gateActive' = IF gateEnabled THEN sessionActive ELSE gateActive
      /\ UNCHANGED <<plugged, uevents, sessionActive, faults, gateEnabled,
                     config, running, monitor, timer, announced>>
  BY DEF PropertiesChanged
<1>2. gateActive' \in BOOLEAN
  BY <1>1 DEF IInv, TypeOK
<1>3. CASE ~ running \/ gateActive' = gateActive
  <2>1. UNCHANGED <<known, devices, connected, handler>>
    BY <1>3 DEF PropertiesChanged
  <2>2. InputAllowed' \/ OpenIds = {}
    BY <1>1, <1>3 DEF IInv, AtRest, Gated, InputAllowed, OpenIds
  <2>3. Tables' /\ KnownIds' = KnownIds
    BY <1>1, <2>1, <2>2, TablesKept DEF signals
  <2>4. TypeOK'
    BY <1>1, <1>2, <2>1 DEF IInv, TypeOK
  <2>5. AtRest'
    BY <1>1, <2>1 DEF IInv, AtRest
  <2>6. RetryIsArmed'
    BY <1>1, <1>3, <2>1, <2>3 DEF IInv, RetryIsArmed, InputAllowed
  <2> QED  BY <2>3, <2>4, <2>5, <2>6 DEF IInv, Tables
<1>4. CASE running /\ gateActive' # gateActive /\ gateActive'
  <2>1. Resume
    BY <1>4 DEF PropertiesChanged
  <2>2. /\ UNCHANGED <<known, devices, connected>>
        /\ handler' = IF config.auto THEN Rescan ELSE Idle
    BY <2>1 DEF Resume
  <2>3. InputAllowed'
    BY <1>4 DEF InputAllowed
  <2>4. Tables'
    BY <1>1, <2>2, <2>3, TablesKept DEF signals
  <2>5. handler' \in [doing : {"idle", "start", "rescan", "retry"},
                      probe : SUBSET Paths, open : SUBSET Ids]
    BY <2>2 DEF IInv, TypeOK, Rescan, Idle
  <2>6. TypeOK'
    BY <1>1, <1>2, <2>2, <2>5 DEF IInv, TypeOK
  <2>7. AtRest' /\ RetryIsArmed'
    BY <1>1, <1>4, <2>2 DEF IInv, AtRest, RetryIsArmed, Rescan, Idle
  <2> QED  BY <2>4, <2>6, <2>7 DEF IInv, Tables
<1>5. CASE running /\ gateActive' # gateActive /\ ~ gateActive'
  <2>1. CloseAll
    BY <1>5 DEF PropertiesChanged
  <2>2. /\ known' = [i \in Ids |-> IF i \in OpenIds
                                   THEN [known[i] EXCEPT !.available = FALSE,
                                                         !.recoverable = TRUE]
                                   ELSE known[i]]
        /\ devices' = [i \in Ids |-> "closed"]
        /\ connected' = connected \ OpenIds
        /\ handler' = handler
    BY <2>1 DEF CloseAll
  <2>3. ~ InputAllowed'
    BY <1>1, <1>2, <1>5 DEF InputAllowed, IInv, TypeOK
  <2>4. /\ known' \in [Ids -> DeviceType]
        /\ \A i \in Ids : /\ known'[i].path = known[i].path
                          /\ ~ known'[i].available
                          /\ known'[i].recoverable \/ i \notin OpenIds
                          /\ i \notin OpenIds
                               => known'[i].recoverable = known[i].recoverable
    <3>1. known \in [Ids -> DeviceType]
      BY DEF IInv, TypeOK
    <3>2. \A i \in Ids : known[i].available <=> i \in OpenIds
      BY DEF IInv, ReceiversKnow
    <3>3. ASSUME NEW i \in Ids
          PROVE  [known[i] EXCEPT !.available = FALSE, !.recoverable = TRUE]
                   \in DeviceType
      BY <3>1 DEF DeviceType
    <3>4. known' \in [Ids -> DeviceType]
      BY <2>2, <3>1, <3>3
    <3>5. ASSUME NEW i \in OpenIds
          PROVE  known'[i].path = known[i].path
                 /\ ~ known'[i].available /\ known'[i].recoverable
      BY <2>2, <3>1 DEF DeviceType, OpenIds
    <3>6. ASSUME NEW i \in Ids \ OpenIds
          PROVE  known'[i] = known[i]
      BY <2>2
    <3> QED  BY <3>2, <3>4, <3>5, <3>6
  <2>5. OpenIds' = {} /\ KnownIds' = KnownIds
    BY <2>2, <2>4 DEF OpenIds, KnownIds
  <2>6. ReceiversKnow' /\ Gated'
    BY <1>1, <2>2, <2>4, <2>5 DEF IInv, ReceiversKnow, Gated
  <2>7. OneIdPerNode' /\ Recoverables'
    BY <1>1, <2>4, <2>5 DEF IInv, OneIdPerNode, Recoverables, KnownIds,
                            ReceiversKnow
  <2>8. TypeOK'
    BY <1>1, <1>2, <2>2, <2>4 DEF IInv, TypeOK
  <2>9. AtRest' /\ RetryIsArmed'
    BY <1>1, <1>5, <2>2, <2>3 DEF IInv, AtRest, RetryIsArmed
  <2> QED  BY <2>6, <2>7, <2>8, <2>9 DEF IInv
<1> QED  BY <1>2, <1>3, <1>4, <1>5

LEMMA TimerKeeps ==
  ASSUME ConstantsAssumption, IInv, TimerFires
  PROVE  IInv'
<1>1. /\ handler = Idle /\ timer = 0 /\ timer' = Stopped
      /\ handler' = IF config.auto /\ InputAllowed THEN Rescan ELSE Idle
      /\ UNCHANGED <<plugged, uevents, sessionActive, propsPending, faults,
                     gateEnabled, gateActive, config, running, monitor, known,
                     devices, connected, announced>>
  BY DEF TimerFires, kernel, gate, signals
<1>2. running
  BY <1>1 DEF IInv, AtRest
<1>3. InputAllowed' = InputAllowed
  BY <1>1 DEF InputAllowed
<1>4. Tables'
  BY <1>1, <1>3, TablesKept DEF signals, IInv, Gated
<1>5. TypeOK'
  <2>1. handler' \in [doing : {"idle", "start", "rescan", "retry"},
                      probe : SUBSET Paths, open : SUBSET Ids]
    BY <1>1 DEF IInv, TypeOK, Rescan, Idle
  <2> QED  BY <1>1, <2>1 DEF IInv, TypeOK
<1>6. AtRest' /\ RetryIsArmed'
  BY <1>1, <1>2, <1>3 DEF AtRest, RetryIsArmed, Rescan, Idle, Stopped, Missing
<1> QED  BY <1>4, <1>5, <1>6 DEF IInv, Tables

LEMMA RescanEndsKeeps ==
  ASSUME ConstantsAssumption, IInv, RescanEnds
  PROVE  IInv'
<1>1. /\ handler.doing = "rescan"
      /\ handler' = [Idle EXCEPT !.doing = "retry",
                                 !.open = {i \in Waiting(known) :
                                             known[i].wait <= 0}]
      /\ UNCHANGED <<plugged, uevents, sessionActive, propsPending, faults,
                     gateEnabled, gateActive, config, running, monitor, known,
                     devices, timer, connected, announced>>
  BY DEF RescanEnds, kernel, gate, signals
<1>2. InputAllowed' = InputAllowed
  BY <1>1 DEF InputAllowed
<1>3. Tables'
  BY <1>1, <1>2, TablesKept DEF signals, IInv, Gated
<1>4. /\ handler' \in [doing : {"idle", "start", "rescan", "retry"},
                       probe : SUBSET Paths, open : SUBSET Ids]
      /\ handler'.doing = "retry"
  BY <1>1 DEF Idle, Waiting
<1>5. TypeOK'
  BY <1>1, <1>4 DEF IInv, TypeOK
<1>6. AtRest' /\ RetryIsArmed'
  BY <1>1, <1>4 DEF IInv, AtRest, RetryIsArmed, Idle
<1> QED  BY <1>3, <1>5, <1>6 DEF IInv, Tables

LEMMA RetryEndsKeeps ==
  ASSUME ConstantsAssumption, IInv, RetryEnds
  PROVE  IInv'
<1>1. /\ handler.doing = "retry" /\ handler' = Idle
      /\ timer' = Schedule(known, timer)
      /\ UNCHANGED <<plugged, uevents, sessionActive, propsPending, faults,
                     gateEnabled, gateActive, config, running, monitor, known,
                     devices, connected, announced>>
  BY DEF RetryEnds, kernel, gate, signals
<1>2. /\ running /\ config.auto /\ timer \in Timers /\ timer # Missing
  BY <1>1 DEF IInv, AtRest, TypeOK, Timers
<1>3. InputAllowed' = InputAllowed
  BY <1>1 DEF InputAllowed
<1>4. Tables' /\ KnownIds' = KnownIds
  BY <1>1, <1>3, TablesKept DEF signals, IInv, Gated
<1>5. /\ timer' \in Timers /\ timer' # Missing
      /\ InputAllowed =>
           \A i \in KnownIds :
             ~ known[i].available =>
               /\ timer' >= 0
               /\ timer' <= Larger(known[i].wait,
                                   IF monitor THEN 0 ELSE PollInterval)
  BY <1>1, <1>2, ScheduleArms
<1>6. TypeOK'
  <2>1. handler' \in [doing : {"idle", "start", "rescan", "retry"},
                      probe : SUBSET Paths, open : SUBSET Ids]
    BY <1>1 DEF Idle
  <2> QED  BY <1>1, <1>5, <2>1 DEF IInv, TypeOK, Timers
<1>7. AtRest'
  BY <1>1, <1>2, <1>5 DEF AtRest, Idle
<1>8. RetryIsArmed'
  BY <1>1, <1>3, <1>4, <1>5 DEF RetryIsArmed
<1> QED  BY <1>4, <1>6, <1>7, <1>8 DEF IInv, Tables

LEMMA StutterKeeps == IInv /\ UNCHANGED vars => IInv'
<1> SUFFICES ASSUME IInv, UNCHANGED vars PROVE IInv'
  OBVIOUS
<1>1. UNCHANGED <<plugged, uevents, sessionActive, propsPending, faults,
                  gateEnabled, gateActive, config, running, monitor, known,
                  devices, timer, handler, connected, announced>>
  BY DEF vars, kernel, gate, signals
<1>2. InputAllowed' = InputAllowed
  BY <1>1 DEF InputAllowed
<1>3. Tables' /\ KnownIds' = KnownIds
  BY <1>1, <1>2, TablesKept DEF signals, IInv, Gated
<1>4. TypeOK' /\ AtRest'
  BY <1>1 DEF IInv, TypeOK, AtRest
<1>5. RetryIsArmed'
  BY <1>1, <1>2, <1>3 DEF IInv, RetryIsArmed
<1> QED  BY <1>3, <1>4, <1>5 DEF IInv, Tables

(* Every step keeps the invariant. *)
LEMMA NextKeeps == ConstantsAssumption /\ IInv /\ [Next]_vars => IInv'
<1> SUFFICES ASSUME ConstantsAssumption, IInv, [Next]_vars PROVE IInv'
  OBVIOUS
<1>1. CASE EnvNext
  BY <1>1, KernelKeeps DEF EnvNext
<1>2. CASE ApiNext
  BY <1>2, ConfigKeeps, StartKeeps, StopKeeps DEF ApiNext
<1>3. CASE LoopNext
  <2>1. ASSUME NEW p \in Paths, Probe(p) \/ UdevAdd(p) \/ UdevRemove(p)
        PROVE  IInv'
    BY <2>1, ProbeKeeps, UdevAddKeeps, UdevRemoveKeeps
  <2>2. ASSUME NEW i \in Ids, DeviceLost(i) \/ Retry(i)
        PROVE  IInv'
    BY <2>2, DeviceLostKeeps, RetryKeeps
  <2>3. CASE StartEnds
    BY <2>3, StartEndsKeeps
  <2>4. CASE PropertiesChanged
    BY <2>4, PropertiesKeep
  <2>5. CASE TimerFires
    BY <2>5, TimerKeeps
  <2>6. CASE RescanEnds
    BY <2>6, RescanEndsKeeps
  <2>7. CASE RetryEnds
    BY <2>7, RetryEndsKeeps
  <2> QED  BY <1>3, <2>1, <2>2, <2>3, <2>4, <2>5, <2>6, <2>7 DEF LoopNext
<1>4. CASE Tick
  BY <1>4, TickKeeps
<1>5. CASE UNCHANGED vars
  BY <1>5, StutterKeeps
<1> QED  BY <1>1, <1>2, <1>3, <1>4, <1>5 DEF Next

(* The inductive invariant holds in every reachable state. *)
THEOREM Invariant == Spec => []IInv
<1>1. Init => IInv
  BY InitHolds, ConstantsAssumption
<1>2. IInv /\ [Next]_vars => IInv'
  BY NextKeeps, ConstantsAssumption
<1> QED  BY <1>1, <1>2, PTL DEF Spec

(* Every variable keeps its type; the retry timer is never started with a
   negative delay, whatever the backoff and the poll interval are. *)
THEOREM TypeCorrect == Spec => []TypeOK
<1>1. IInv => TypeOK
  BY DEF IInv
<1> QED  BY <1>1, Invariant, PTL

(* The receivers of gamepadConnected, gamepadDisconnected and of the
   availability signals believe what the tables say. *)
THEOREM ReceiversAreTold == Spec => []ReceiversKnow
<1>1. IInv => ReceiversKnow
  BY DEF IInv
<1> QED  BY <1>1, Invariant, PTL

(* No node is ever open under two identifiers. *)
THEOREM NodesAreNotDoubled == Spec => []OneIdPerNode
<1>1. IInv => OneIdPerNode
  BY DEF IInv
<1> QED  BY <1>1, Invariant, PTL

(* No unavailable device is left without a timer that fires in time: the
   safety half of the retries. *)
THEOREM RetriesAreArmed == Spec => []RetryIsArmed
<1>1. IInv => RetryIsArmed
  BY DEF IInv
<1> QED  BY <1>1, Invariant, PTL

-----------------------------------------------------------------------------
(* The promise *)

(* A backend that does not run between handlers holds no device. *)
LEMMA NothingHeld ==
  ASSUME IInv, handler = Idle, ~ running
  PROVE  connected = {}
BY DEF IInv, AtRest, Gated, ReceiversKnow, OpenIds

(* Where nothing is captured the gate may do what it likes. *)
LEMMA EmptyMaps ==
  ASSUME connected = {}, connected' = {}
  PROVE  Promise!Next
<1>1. InputAllowed' \in BOOLEAN
  BY DEF InputAllowed
<1>2. CASE InputAllowed'
  <2>1. Promise!Open
    BY <1>1, <1>2 DEF Promise!Open
  <2> QED  BY <2>1 DEF Promise!Next
<1>3. CASE ~ InputAllowed'
  <2>1. Promise!Shut
    BY <1>1, <1>3 DEF Promise!Shut
  <2> QED  BY <2>1 DEF Promise!Next
<1> QED  BY <1>2, <1>3

(* Touching a device captures it or changes nothing the receivers see. *)
LEMMA TouchMaps ==
  ASSUME IInv, UNCHANGED gate,
         \/ \E i \in Ids : Touched(i)
         \/ UNCHANGED <<known, devices, timer, faults, signals>>
  PROVE  [Promise!Next]_(Promise!vars)
<1>1. InputAllowed' = InputAllowed
  BY DEF gate, InputAllowed
<1>2. CASE UNCHANGED <<known, devices, timer, faults, signals>>
  BY <1>1, <1>2 DEF signals, Promise!vars
<1>3. ASSUME NEW i \in Ids, Touched(i)
      PROVE  [Promise!Next]_(Promise!vars)
  <2>1. /\ connected' = connected \cup {j \in {i} : devices'[j] # "closed"}
        /\ devices'[i] # "closed" => InputAllowed
    BY <1>3 DEF Touched
  <2>2. CASE connected' = connected
    BY <1>1, <2>2 DEF Promise!vars
  <2>3. CASE connected' # connected
    <3>1. /\ connected' = connected \cup {i} /\ i \notin connected
          /\ InputAllowed
      BY <2>1, <2>3
    <3>2. Promise!Capture(i)
      BY <1>1, <3>1 DEF Promise!Capture
    <3> QED  BY <3>2 DEF Promise!Next
  <2> QED  BY <2>2, <2>3
<1> QED  BY <1>2, <1>3

(* Taking devices back is what the promise allows at any time. *)
LEMMA ReleaseMaps ==
  ASSUME InputAllowed' = InputAllowed, connected' \in SUBSET connected
  PROVE  Promise!Next
<1>1. Promise!Release
  BY DEF Promise!Release
<1> QED  BY <1>1 DEF Promise!Next

(* logind's answer shuts the gate with every device, or opens it with none
   lost. *)
LEMMA PropertiesMap ==
  ASSUME IInv, PropertiesChanged
  PROVE  [Promise!Next]_(Promise!vars)
<1>1. /\ handler = Idle
      /\ gateActive' = IF gateEnabled THEN sessionActive ELSE gateActive
      /\ UNCHANGED <<gateEnabled, running>>
  BY DEF PropertiesChanged
<1>2. CASE ~ running
  <2>1. connected = {} /\ connected' = connected
    BY <1>1, <1>2, NothingHeld DEF PropertiesChanged
  <2> QED  BY <2>1, EmptyMaps
<1>3. CASE gateActive' = gateActive
  <2>1. InputAllowed' = InputAllowed /\ connected' = connected
    BY <1>1, <1>3 DEF PropertiesChanged, InputAllowed
  <2> QED  BY <2>1 DEF Promise!vars
<1>4. CASE running /\ gateActive' # gateActive /\ gateActive'
  <2>1. Resume
    BY <1>4 DEF PropertiesChanged
  <2>2. InputAllowed' = TRUE /\ connected' = connected
    BY <1>4, <2>1 DEF Resume, InputAllowed
  <2>3. Promise!Open
    BY <2>2 DEF Promise!Open
  <2> QED  BY <2>3 DEF Promise!Next
<1>5. CASE running /\ gateActive' # gateActive /\ ~ gateActive'
  <2>1. CloseAll
    BY <1>5 DEF PropertiesChanged
  <2>2. connected' = {}
    BY <2>1 DEF CloseAll, IInv, ReceiversKnow
  <2>3. gateEnabled
    BY <1>1, <1>5
  <2>4. InputAllowed' = FALSE
    BY <1>1, <1>5, <2>3 DEF InputAllowed
  <2>5. Promise!Shut
    BY <2>2, <2>4 DEF Promise!Shut
  <2> QED  BY <2>5 DEF Promise!Next
<1> QED  BY <1>2, <1>3, <1>4, <1>5

(* Every step is a step of the promise or changes nothing in it. *)
LEMMA StepMaps ==
  ConstantsAssumption /\ IInv /\ [Next]_vars => [Promise!Next]_(Promise!vars)
<1> SUFFICES ASSUME ConstantsAssumption, IInv, [Next]_vars
             PROVE  [Promise!Next]_(Promise!vars)
  OBVIOUS
<1>1. ASSUME UNCHANGED <<gateEnabled, gateActive, connected>>
      PROVE  [Promise!Next]_(Promise!vars)
  BY <1>1 DEF InputAllowed, Promise!vars
<1>2. CASE EnvNext
  BY <1>1, <1>2 DEF EnvNext, Plug, Unplug, Break, SwitchSession, gate, signals
<1>3. CASE ApiNext
  <2>1. ASSUME NEW c \in Configs, SetRuntimeConfig(c)
        PROVE  Promise!Next
    BY <2>1, NothingHeld, EmptyMaps DEF SetRuntimeConfig, signals
  <2>2. CASE Start
    <3>1. Promise!Next
      BY <2>2, NothingHeld, EmptyMaps DEF Start, signals
    <3> QED  BY <3>1
  <2>3. CASE Stop
    <3>1. InputAllowed' = InputAllowed /\ connected' = {}
      BY <2>3 DEF Stop, gate, InputAllowed
    <3> QED  BY <3>1, ReleaseMaps
  <2> QED  BY <1>3, <2>1, <2>2, <2>3 DEF ApiNext
<1>4. CASE LoopNext
  <2>1. ASSUME NEW p \in Paths, Probe(p)
        PROVE  [Promise!Next]_(Promise!vars)
    BY <2>1, OpenGamepadTouches, TouchMaps DEF Probe
  <2>2. ASSUME NEW p \in Paths, UdevAdd(p)
        PROVE  [Promise!Next]_(Promise!vars)
    BY <2>2, OpenGamepadTouches, TouchMaps DEF UdevAdd
  <2>3. ASSUME NEW p \in Paths, UdevRemove(p)
        PROVE  Promise!Next
    <3>1. InputAllowed' = InputAllowed /\ connected' \in SUBSET connected
      BY <2>3 DEF UdevRemove, gate, signals, InputAllowed
    <3> QED  BY <3>1, ReleaseMaps
  <2>4. ASSUME NEW i \in Ids, DeviceLost(i)
        PROVE  Promise!Next
    <3>1. InputAllowed' = InputAllowed /\ connected' \in SUBSET connected
      BY <2>4 DEF DeviceLost, gate, InputAllowed
    <3> QED  BY <3>1, ReleaseMaps
  <2>5. ASSUME NEW i \in Ids, Retry(i)
        PROVE  [Promise!Next]_(Promise!vars)
    BY <2>5, KnownTouched, TouchMaps DEF Retry
  <2>6. CASE PropertiesChanged
    BY <2>6, PropertiesMap
  <2>7. CASE StartEnds \/ TimerFires \/ RescanEnds \/ RetryEnds
    BY <1>1, <2>7 DEF StartEnds, TimerFires, RescanEnds, RetryEnds, gate,
                      signals
  <2> QED  BY <1>4, <2>1, <2>2, <2>3, <2>4, <2>5, <2>6, <2>7 DEF LoopNext
<1>5. CASE Tick
  BY <1>1, <1>5 DEF Tick, gate, signals
<1>6. CASE UNCHANGED vars
  BY <1>1, <1>6 DEF vars, gate, signals
<1> QED  BY <1>2, <1>3, <1>4, <1>5, <1>6 DEF Next

(* The backend keeps its promise: a device is captured only behind an open
   gate, and the step that shuts the gate takes every device back. *)
THEOREM PromiseIsKept == Spec => KeepsPromise
<1>1. Init => Promise!Init
  <2>1. ASSUME Init PROVE Promise!Init
    <3>1. connected = {} /\ InputAllowed \in BOOLEAN
      BY <2>1 DEF Init, InputAllowed
    <3> QED  BY <3>1 DEF Promise!Init
  <2> QED  BY <2>1
<1>2. IInv /\ [Next]_vars => [Promise!Next]_(Promise!vars)
  BY StepMaps, ConstantsAssumption
<1> QED  BY <1>1, <1>2, Invariant, PTL DEF Spec, KeepsPromise, Promise!Spec

-----------------------------------------------------------------------------
(* What is plugged in                                                      *)
(*                                                                         *)
(* The monitor's socket keeps the backend's picture of a node right: the   *)
(* last event about it says whether the node is there, so that a remove    *)
(* which is read late, for a node that is back, always has an add behind   *)
(* it.  During start() the nodes still to be probed take the place of      *)
(* events.                                                                 *)

Noted(p) == IdsOf(p) # {}
Waits(p, e) == \E n \in 1 .. Len(uevents[p]) : uevents[p][n] = e
Room == Cardinality(Paths) <= MaxGamepads

Watch(p) ==
  /\ uevents[p] # <<>> =>
       /\ monitor
       /\ uevents[p][Len(uevents[p])] = IF p \in plugged THEN "add" ELSE "remove"
  /\ monitor /\ p \in plugged /\ Room =>
       Noted(p) \/ Waits(p, "add") \/ p \in handler.probe
  /\ monitor /\ p \notin plugged /\ (Noted(p) \/ p \in handler.probe) =>
       Waits(p, "remove")

Watched ==
  /\ \A p \in Paths : Watch(p)
  /\ handler.doing = "retry" => handler.probe = {}

(* A node nothing happens to is watched as before. *)
LEMMA WatchSame ==
  ASSUME NEW p \in Paths, Watch(p), uevents'[p] = uevents[p],
         monitor' = monitor, p \in plugged' <=> p \in plugged,
         Noted(p)' <=> Noted(p),
         monitor => (p \in handler'.probe <=> p \in handler.probe)
  PROVE  Watch(p)'
BY DEF Watch, Waits

(* Steps that no node and no identifier takes part in. *)
LEMMA QuietKeeps ==
  ASSUME Watched, UNCHANGED <<plugged, uevents, monitor>>,
         \A i \in Ids : known'[i].path = known[i].path,
         monitor => handler'.probe = handler.probe,
         handler'.doing = "retry" => handler'.probe = {}
  PROVE  Watched'
<1>1. ASSUME NEW p \in Paths PROVE Watch(p)'
  <2>1. Noted(p)' <=> Noted(p)
    BY DEF Noted, IdsOf
  <2> QED  BY <2>1, WatchSame DEF Watched
<1> QED  BY <1>1 DEF Watched

(* With fewer nodes than identifiers one is always free for a new node. *)
LEMMA RoomLeft ==
  ASSUME ConstantsAssumption, IInv, Room, NEW p \in Paths, ~ Noted(p)
  PROVE  \E i \in Ids : known[i].path = NoPath /\ devices[i] = "closed"
<1> SUFFICES ASSUME \A i \in Ids : known[i].path # NoPath
             PROVE  FALSE
  BY DEF IInv, Gated
<1> DEFINE f == [i \in Ids |-> known[i].path]
           others == Paths \ {p}
<1>1. f \in [Ids -> others]
  <2>1. \A i \in Ids : known[i].path \in Paths /\ known[i].path # p
    BY DEF IInv, TypeOK, DeviceType, Noted, IdsOf
  <2> QED  BY <2>1
<1>2. IsFiniteSet(Ids) /\ Cardinality(Ids) = MaxGamepads
  BY FS_Interval DEF Ids, ConstantsAssumption
<1>3. IsFiniteSet(others) /\ Cardinality(others) < MaxGamepads
  <2>1. IsFiniteSet(Paths) /\ Cardinality(Paths) \in Nat
    BY FS_CardinalityType DEF ConstantsAssumption
  <2>2. IsFiniteSet(others) /\ Cardinality(others) = Cardinality(Paths) - 1
    BY <2>1, FS_RemoveElement
  <2> QED  BY <2>1, <2>2 DEF Room, ConstantsAssumption
<1> HIDE DEF f, others
<1>4. PICK i \in Ids, j \in Ids : i # j /\ f[i] = f[j]
  BY <1>1, <1>2, <1>3, FS_PigeonHole
<1>5. i \in KnownIds /\ j \in KnownIds /\ known[i].path = known[j].path
  BY <1>4 DEF KnownIds, f
<1> QED  BY <1>4, <1>5 DEF IInv, OneIdPerNode

(* Opening a device, or failing to, moves no path. *)
LEMMA TryOpenPaths ==
  ASSUME ConstantsAssumption, IInv, NEW k \in [Ids -> DeviceType],
         NEW i \in Ids, k[i].available <=> devices[i] # "closed",
         TryOpen(k, i)
  PROVE  \A j \in Ids : known'[j].path = k[j].path
<1>1. /\ TypeOK /\ (devices[i] # "closed" => InputAllowed)
      /\ i \in connected <=> devices[i] # "closed"
  BY DEF IInv, Gated, ReceiversKnow, OpenIds
<1>2. /\ \A j \in Ids \ {i} : known'[j] = k[j]
      /\ known'[i].path = k[i].path
  BY <1>1, TryOpenOutcome
<1> QED  BY <1>2

(* A node that is reported is known afterwards, if there is room for it;   *)
(* no other node is found or forgotten by it. *)
LEMMA OpenGamepadPaths ==
  ASSUME ConstantsAssumption, IInv, NEW p \in Paths, OpenGamepad(p)
  PROVE  /\ \A q \in Paths \ {p} : Noted(q)' <=> Noted(q)
         /\ Room => Noted(p)'
<1> DEFINE unused == {i \in Ids : known[i].path = NoPath
                                  /\ devices[i] = "closed"}
<1>0. /\ known \in [Ids -> DeviceType] /\ NoPath \notin Paths
      /\ \A i \in Ids : known[i].available <=> devices[i] # "closed"
  BY DEF IInv, TypeOK, ReceiversKnow, OpenIds, ConstantsAssumption
<1>1. CASE IdsOf(p) # {}
  <2>1. PICK i \in IdsOf(p) : TryOpen(known, i)
    BY <1>1 DEF OpenGamepad
  <2>2. \A j \in Ids : known'[j].path = known[j].path
    <3>1. i \in Ids
      BY DEF IdsOf
    <3> QED  BY <1>0, <2>1, <3>1, TryOpenPaths
  <2> QED  BY <1>1, <2>2 DEF Noted, IdsOf
<1>2. CASE IdsOf(p) = {} /\ unused = {}
  <2>1. known' = known
    BY <1>2 DEF OpenGamepad
  <2>2. ~ Room
    BY <1>2, RoomLeft DEF Noted
  <2> QED  BY <2>1, <2>2 DEF Noted, IdsOf
<1>3. CASE IdsOf(p) = {} /\ unused # {}
  <2>1. PICK i \in unused : TryOpen([known EXCEPT ![i] = [Blank EXCEPT !.path = p]], i)
    BY <1>3 DEF OpenGamepad
  <2> DEFINE b == [Blank EXCEPT !.path = p]
             k == [known EXCEPT ![i] = b]
  <2>2. b \in DeviceType /\ b.path = p /\ ~ b.available
    <3>1. BackoffMin \in 0 .. BackoffMin * MaxFactor
      BY DEF ConstantsAssumption
    <3> QED  BY <3>1 DEF Blank, DeviceType
  <2>3. TryOpen(k, i)
    BY <2>1
  <2> HIDE DEF b
  <2>4. /\ k \in [Ids -> DeviceType] /\ ~ k[i].available /\ k[i].path = p
        /\ \A j \in Ids \ {i} : k[j] = known[j]
    BY <1>0, <2>2
  <2> HIDE DEF k
  <2>5. \A j \in Ids : known'[j].path = k[j].path
    BY <2>3, <2>4, TryOpenPaths
  <2>6. known[i].path = NoPath /\ known'[i].path = p
    BY <2>4, <2>5
  <2> QED  BY <1>0, <2>4, <2>5, <2>6 DEF Noted, IdsOf
<1> QED  BY <1>1, <1>2, <1>3

(* The kernel's changes are reported by the monitor, if there is one. *)
LEMMA KernelWatched ==
  ASSUME IInv, Watched, NEW p \in Paths, Plug(p) \/ Unplug(p)
  PROVE  Watched'
<1>1. PICK e \in {"add", "remove"} :
        /\ plugged' = IF e = "add" THEN plugged \cup {p} ELSE plugged \ {p}
        /\ uevents' = Queued(p, e)
  BY DEF Plug, Unplug
<1>2. /\ UNCHANGED <<monitor, known, handler>>
      /\ uevents \in [Paths -> Seq({"add", "remove"})]
  BY DEF Plug, Unplug, IInv, TypeOK
<1>3. ASSUME NEW q \in Paths \ {p} PROVE Watch(q)'
  <2>1. /\ uevents'[q] = uevents[q] /\ (q \in plugged' <=> q \in plugged)
        /\ Noted(q)' <=> Noted(q)
    BY <1>1, <1>2 DEF Queued, Noted, IdsOf
  <2> QED  BY <1>2, <2>1, WatchSame DEF Watched
<1>4. Watch(p)'
  <2>1. CASE monitor
    <3>1. uevents'[p] = Append(uevents[p], e)
      BY <1>1, <1>2, <2>1 DEF Queued
    <3>2. /\ uevents'[p] # <<>> /\ Len(uevents'[p]) = Len(uevents[p]) + 1
          /\ uevents'[p][Len(uevents[p]) + 1] = e /\ Len(uevents[p]) \in Nat
      BY <1>2, <3>1, AppendProperties, LenProperties
    <3>3. Waits(p, e)'
      BY <3>2 DEF Waits
    <3> QED  BY <1>1, <1>2, <2>1, <3>2, <3>3 DEF Watch
  <2>2. CASE ~ monitor
    <3>1. uevents'[p] = <<>>
      BY <1>1, <2>2 DEF Queued, Watched, Watch
    <3> QED  BY <1>2, <2>2, <3>1 DEF Watch
  <2> QED  BY <2>1, <2>2
<1> QED  BY <1>2, <1>3, <1>4 DEF Watched

(* Reading an event leaves the last one, unless it was the last. *)
LEMMA ReadEvent ==
  ASSUME IInv, NEW p \in Paths, uevents[p] # <<>>,
         uevents' = [uevents EXCEPT ![p] = Tail(@)]
  PROVE  /\ \A q \in Paths \ {p} : uevents'[q] = uevents[q]
         /\ uevents'[p] # <<>> =>
              uevents'[p][Len(uevents'[p])] = uevents[p][Len(uevents[p])]
         /\ \A e : /\ e = uevents[p][Len(uevents[p])]
                  /\ e # Head(uevents[p])
                    => \E n \in 1 .. Len(uevents'[p]) : uevents'[p][n] = e
<1> DEFINE s == uevents[p]
           t == Tail(s)
           Events == {"add", "remove"}
<1>1. /\ uevents'[p] = t /\ s \in Seq(Events) /\ s # <<>>
      /\ \A q \in Paths \ {p} : uevents'[q] = uevents[q]
  BY DEF IInv, TypeOK
<1> HIDE DEF s
<1>2. /\ t \in Seq(Events) /\ Len(t) = Len(s) - 1 /\ Len(s) \in Nat \ {0}
      /\ \A i \in 1 .. Len(t) : t[i] = s[i + 1]
  BY <1>1, HeadTailProperties, EmptySeq
<1> HIDE DEF t
<1>3. t # <<>> => Len(t) \in Nat \ {0} /\ t[Len(t)] = s[Len(s)]
  BY <1>2, EmptySeq
<1>4. Head(s) = s[1]
  BY <1>1
<1>5. ASSUME s[Len(s)] # Head(s)
      PROVE  \E n \in 1 .. Len(t) : t[n] = s[Len(s)]
  <2>1. Len(s) # 1
    BY <1>4, <1>5
  <2>2. Len(t) \in 1 .. Len(t) /\ t[Len(t)] = s[Len(s)]
    BY <1>2, <2>1
  <2> QED  BY <2>2
<1> QED  BY <1>1, <1>3, <1>5 DEF s

LEMMA UdevAddWatched ==
  ASSUME ConstantsAssumption, IInv, Watched, NEW p \in Paths, UdevAdd(p)
  PROVE  Watched'
<1>1. /\ handler = Idle /\ uevents[p] # <<>> /\ Head(uevents[p]) = "add"
      /\ uevents' = [uevents EXCEPT ![p] = Tail(@)] /\ OpenGamepad(p)
      /\ UNCHANGED <<plugged, monitor, handler>>
  BY DEF UdevAdd
<1>2. /\ \A q \in Paths \ {p} : Noted(q)' <=> Noted(q)
      /\ Room => Noted(p)'
  BY <1>1, OpenGamepadPaths
<1>3. ASSUME NEW q \in Paths \ {p} PROVE Watch(q)'
  <2>1. uevents'[q] = uevents[q]
    BY <1>1, ReadEvent
  <2> QED  BY <1>1, <1>2, <2>1, WatchSame DEF Watched
<1>4. Watch(p)'
  <2>1. /\ monitor
        /\ uevents[p][Len(uevents[p])] = IF p \in plugged THEN "add"
                                         ELSE "remove"
    BY <1>1 DEF Watched, Watch
  <2>2. uevents'[p] # <<>> =>
          uevents'[p][Len(uevents'[p])] = uevents[p][Len(uevents[p])]
    BY <1>1, ReadEvent
  <2>3. p \notin plugged =>
          \E n \in 1 .. Len(uevents'[p]) : uevents'[p][n] = "remove"
    BY <1>1, <2>1, ReadEvent
  <2> QED  BY <1>1, <1>2, <2>1, <2>2, <2>3 DEF Watch, Waits, Room
<1> QED  BY <1>1, <1>3, <1>4 DEF Watched

LEMMA UdevRemoveWatched ==
  ASSUME ConstantsAssumption, IInv, Watched, NEW p \in Paths, UdevRemove(p)
  PROVE  Watched'
<1>1. /\ handler = Idle /\ uevents[p] # <<>> /\ Head(uevents[p]) = "remove"
      /\ uevents' = [uevents EXCEPT ![p] = Tail(@)]
      /\ UNCHANGED <<plugged, monitor, handler>>
  BY DEF UdevRemove
<1>2. (\A q \in Paths \ {p} : Noted(q)' <=> Noted(q)) /\ ~ Noted(p)'
  <2>0. NoPath \notin Paths
    BY DEF ConstantsAssumption
  <2>1. CASE IdsOf(p) = {}
    <3>1. known' = known
      BY <2>1 DEF UdevRemove
    <3> QED  BY <2>1, <3>1 DEF Noted, IdsOf
  <2>2. CASE IdsOf(p) # {}
    <3>1. known' = [i \in Ids |-> IF i \in IdsOf(p) THEN Blank ELSE known[i]]
      BY <2>2 DEF UdevRemove
    <3>2. /\ \A i \in IdsOf(p) : known'[i].path = NoPath
          /\ \A i \in Ids \ IdsOf(p) : known'[i].path = known[i].path
      BY <3>1 DEF Blank, IdsOf
    <3>3. IdsOf(p) = {i \in Ids : known[i].path = p}
      BY DEF IdsOf
    <3> QED  BY <2>0, <3>2, <3>3 DEF Noted, IdsOf
  <2> QED  BY <2>1, <2>2
<1>3. ASSUME NEW q \in Paths \ {p} PROVE Watch(q)'
  <2>1. uevents'[q] = uevents[q]
    BY <1>1, ReadEvent
  <2> QED  BY <1>1, <1>2, <2>1, WatchSame DEF Watched
<1>4. Watch(p)'
  <2>1. /\ monitor
        /\ uevents[p][Len(uevents[p])] = IF p \in plugged THEN "add"
                                         ELSE "remove"
    BY <1>1 DEF Watched, Watch
  <2>2. uevents'[p] # <<>> =>
          uevents'[p][Len(uevents'[p])] = uevents[p][Len(uevents[p])]
    BY <1>1, ReadEvent
  <2>3. p \in plugged =>
          \E n \in 1 .. Len(uevents'[p]) : uevents'[p][n] = "add"
    BY <1>1, <2>1, ReadEvent
  <2>4. p \notin handler.probe
    BY <1>1 DEF Idle
  <2> QED  BY <1>1, <1>2, <2>1, <2>2, <2>3, <2>4 DEF Watch, Waits
<1> QED  BY <1>1, <1>3, <1>4 DEF Watched

(* A node leaves the list of the probe when it was opened or is gone. *)
LEMMA ProbeWatched ==
  ASSUME ConstantsAssumption, IInv, Watched, NEW p \in Paths, Probe(p)
  PROVE  Watched'
<1>1. /\ p \in handler.probe /\ UNCHANGED <<plugged, uevents, monitor>>
      /\ handler' = [handler EXCEPT !.probe = @ \ {p}]
  BY DEF Probe, kernel
<1>2. /\ handler'.probe = handler.probe \ {p}
      /\ handler'.doing = handler.doing
  BY <1>1 DEF IInv, TypeOK
<1>3. /\ \A q \in Paths \ {p} : Noted(q)' <=> Noted(q)
      /\ p \in plugged /\ Room => Noted(p)'
  <2>1. CASE OpenGamepad(p)
    BY <2>1, OpenGamepadPaths
  <2>2. CASE p \notin plugged /\ known' = known
    BY <2>2 DEF Noted, IdsOf
  <2> QED  BY <2>1, <2>2 DEF Probe
<1>4. ASSUME NEW q \in Paths \ {p} PROVE Watch(q)'
  <2>1. uevents'[q] = uevents[q] /\ (q \in handler'.probe <=> q \in handler.probe)
    BY <1>1, <1>2
  <2> QED  BY <1>1, <1>3, <2>1, WatchSame DEF Watched
<1>5. Watch(p)'
  <2>1. Watch(p)
    BY DEF Watched
  <2> QED  BY <1>1, <1>3, <2>1 DEF Watch, Waits, Room
<1> QED  BY <1>1, <1>2, <1>4, <1>5 DEF Watched

(* start() probes every node there is, and stop() ends the monitor. *)
LEMMA StartWatched ==
  ASSUME IInv, Start
  PROVE  Watched'
<1>1. /\ \A i \in Ids : known[i].path = NoPath
      /\ \A p \in Paths : uevents[p] = <<>>
  BY DEF Start, IInv, AtRest
<1>2. /\ UNCHANGED <<plugged, uevents, known>>
      /\ handler' = [Idle EXCEPT !.doing = "start", !.probe = plugged]
  BY DEF Start, kernel
<1>3. handler'.probe = plugged /\ handler'.doing = "start"
  BY <1>2 DEF Idle
<1>4. ASSUME NEW p \in Paths PROVE Watch(p)'
  <2>1. uevents'[p] = <<>> /\ (p \in plugged => p \in handler'.probe)
    BY <1>1, <1>2, <1>3
  <2>2. p \notin plugged => p \notin handler'.probe /\ ~ Noted(p)'
    <3>1. p \in Paths /\ NoPath \notin Paths
      BY ConstantsAssumption DEF ConstantsAssumption
    <3> QED  BY <1>1, <1>2, <1>3, <3>1 DEF Noted, IdsOf
  <2> QED  BY <1>2, <2>1, <2>2 DEF Watch
<1> QED  BY <1>3, <1>4 DEF Watched

LEMMA StopWatched ==
  ASSUME Stop
  PROVE  Watched'
<1>1. /\ ~ monitor' /\ uevents' = [p \in Paths |-> <<>>]
      /\ handler' = Idle
  BY DEF Stop
<1>2. ASSUME NEW p \in Paths PROVE Watch(p)'
  <2>1. uevents'[p] = <<>>
    BY <1>1
  <2> QED  BY <1>1, <2>1 DEF Watch
<1> QED  BY <1>1, <1>2 DEF Watched, Idle

LEMMA EnvironmentWatched ==
  ASSUME IInv, Watched,
         Tick \/ SwitchSession \/ (\E i \in Ids : Break(i))
         \/ (\E c \in Configs : SetRuntimeConfig(c)) \/ UNCHANGED vars
  PROVE  Watched'
<1>1. UNCHANGED <<plugged, uevents, monitor, handler>>
  BY DEF Tick, SwitchSession, Break, SetRuntimeConfig, vars, kernel
<1>2. \A i \in Ids : known'[i].path = known[i].path
  <2>1. CASE Tick
    BY <2>1 DEF Tick, IInv, TypeOK, DeviceType
  <2>2. CASE ~ Tick
    <3>1. known' = known
      BY <2>2 DEF SwitchSession, Break, SetRuntimeConfig, vars
    <3> QED  BY <3>1
  <2> QED  BY <2>1, <2>2
<1>3. handler'.doing = "retry" => handler'.probe = {}
  BY <1>1 DEF Watched
<1> QED  BY <1>1, <1>2, <1>3, QuietKeeps

(* Handlers that find and forget no node. *)
LEMMA LoopWatched ==
  ASSUME ConstantsAssumption, IInv, Watched,
         StartEnds \/ PropertiesChanged \/ TimerFires \/ RescanEnds
         \/ RetryEnds \/ (\E i \in Ids : DeviceLost(i) \/ Retry(i))
  PROVE  Watched'
<1>1. UNCHANGED <<plugged, uevents, monitor>>
  BY DEF StartEnds, PropertiesChanged, TimerFires, RescanEnds, RetryEnds,
         DeviceLost, Retry, kernel
<1>2. \A i \in Ids : known'[i].path = known[i].path
  <2>0. known \in [Ids -> DeviceType]
    BY DEF IInv, TypeOK
  <2>1. CASE StartEnds \/ TimerFires \/ RescanEnds \/ RetryEnds
    <3>1. known' = known
      BY <2>1 DEF StartEnds, TimerFires, RescanEnds, RetryEnds
    <3> QED  BY <3>1
  <2>2. CASE PropertiesChanged
    <3>1. known' = known \/ CloseAll
      BY <2>2 DEF PropertiesChanged, Resume
    <3>2. CASE CloseAll
      BY <2>0, <3>2 DEF CloseAll, DeviceType
    <3> QED  BY <3>1, <3>2
  <2>3. ASSUME NEW i \in Ids, DeviceLost(i)
        PROVE  \A j \in Ids : known'[j].path = known[j].path
    <3>1. known' = [known EXCEPT ![i].available = FALSE,
                                 ![i].recoverable = config.auto]
      BY <2>3 DEF DeviceLost
    <3> QED  BY <2>0, <3>1 DEF DeviceType
  <2>4. ASSUME NEW i \in Ids, Retry(i)
        PROVE  \A j \in Ids : known'[j].path = known[j].path
    <3>1. TryOpen(known, i) /\ (known[i].available <=> devices[i] # "closed")
      BY <2>4 DEF Retry, IInv, ReceiversKnow, OpenIds
    <3> QED  BY <2>0, <3>1, TryOpenPaths
  <2> QED  BY <2>1, <2>2, <2>3, <2>4
<1>3. /\ monitor => handler'.probe = handler.probe
      /\ handler'.doing = "retry" => handler'.probe = {}
  <2>0. /\ handler \in [doing : {"idle", "start", "rescan", "retry"},
                         probe : SUBSET Paths, open : SUBSET Ids]
        /\ handler.doing = "retry" => handler.probe = {}
        /\ Idle.probe = {} /\ Idle.doing = "idle"
        /\ Rescan.doing = "rescan" /\ (monitor => Rescan.probe = {})
    BY DEF IInv, TypeOK, Watched, Idle, Rescan
  <2>1. CASE StartEnds \/ RetryEnds
    BY <2>0, <2>1 DEF StartEnds, RetryEnds
  <2>2. CASE RescanEnds
    <3>1. handler.probe = {} /\ handler'.probe = {}
      BY <2>2 DEF RescanEnds, Idle
    <3> QED  BY <3>1
  <2>3. CASE PropertiesChanged \/ TimerFires
    <3>1. handler = Idle /\ handler' \in {Idle, Rescan}
      BY <2>3 DEF PropertiesChanged, TimerFires, Resume, CloseAll
    <3> QED  BY <2>0, <3>1
  <2>4. ASSUME NEW i \in Ids, DeviceLost(i)
        PROVE  /\ monitor => handler'.probe = handler.probe
               /\ handler'.doing = "retry" => handler'.probe = {}
    BY <2>0, <2>4 DEF DeviceLost
  <2>5. ASSUME NEW i \in Ids, Retry(i)
        PROVE  /\ monitor => handler'.probe = handler.probe
               /\ handler'.doing = "retry" => handler'.probe = {}
    BY <2>0, <2>5 DEF Retry
  <2> QED  BY <2>1, <2>2, <2>3, <2>4, <2>5
<1> QED  BY <1>1, <1>2, <1>3, QuietKeeps

LEMMA InitWatched == ConstantsAssumption /\ Init => Watched
<1> SUFFICES ASSUME ConstantsAssumption, Init PROVE Watched
  OBVIOUS
<1>1. /\ \A p \in Paths : uevents[p] = <<>> /\ ~ monitor
      /\ handler.doing = "idle"
  BY DEF Init, Idle
<1> QED  BY <1>1 DEF Watched, Watch

LEMMA StepWatched ==
  ConstantsAssumption /\ IInv /\ Watched /\ [Next]_vars => Watched'
<1> SUFFICES ASSUME ConstantsAssumption, IInv, Watched, [Next]_vars
             PROVE  Watched'
  OBVIOUS
<1>1. ASSUME NEW p \in Paths, Plug(p) \/ Unplug(p) PROVE Watched'
  BY <1>1, KernelWatched
<1>2. ASSUME NEW p \in Paths, Probe(p) \/ UdevAdd(p) \/ UdevRemove(p)
      PROVE  Watched'
  BY <1>2, ProbeWatched, UdevAddWatched, UdevRemoveWatched
<1>3. CASE Start
  BY <1>3, StartWatched
<1>4. CASE Stop
  BY <1>4, StopWatched
<1>5. CASE \/ Tick \/ SwitchSession \/ \E i \in Ids : Break(i)
           \/ \E c \in Configs : SetRuntimeConfig(c)
           \/ UNCHANGED vars
  BY <1>5, EnvironmentWatched
<1>6. CASE \/ StartEnds \/ PropertiesChanged \/ TimerFires \/ RescanEnds
           \/ RetryEnds \/ \E i \in Ids : DeviceLost(i) \/ Retry(i)
  BY <1>6, LoopWatched
<1> QED
  BY <1>1, <1>2, <1>3, <1>4, <1>5, <1>6 DEF Next, EnvNext, ApiNext, LoopNext

(* With a monitor no node escapes the backend and no identifier outlives   *)
(* its node, but for events that wait to be read: the probe of start(),    *)
(* stale and repeated events, failed opens and rescans lose none. *)
THEOREM PluggedKnown == Spec => []KnowsWhatIsPlugged
<1>1. ConstantsAssumption
  BY ConstantsAssumption
<1>2. Init => IInv /\ Watched
  BY <1>1, InitHolds, InitWatched
<1>3. IInv /\ Watched /\ [Next]_vars => (IInv /\ Watched)'
  BY <1>1, NextKeeps, StepWatched
<1>4. IInv /\ Watched => KnowsWhatIsPlugged
  <2> SUFFICES ASSUME IInv, Watched PROVE KnowsWhatIsPlugged
    OBVIOUS
  <2>1. NodesDiscovered
    <3> SUFFICES ASSUME Room, handler = Idle, monitor,
                        NEW p \in plugged, IdsOf(p) = {}
                 PROVE  Waits(p, "add")
      BY DEF NodesDiscovered, Room, Waits
    <3>1. p \in Paths /\ p \notin handler.probe
      BY DEF IInv, TypeOK, Idle
    <3> QED  BY <3>1 DEF Watched, Watch, Noted
  <2>2. GoneAreForgotten
    <3> SUFFICES ASSUME monitor, NEW i \in KnownIds,
                        known[i].path \notin plugged
                 PROVE  Waits(known[i].path, "remove")
      BY DEF GoneAreForgotten, Waits
    <3>1. known[i].path \in Paths /\ i \in IdsOf(known[i].path)
      BY DEF IInv, TypeOK, DeviceType, KnownIds, IdsOf
    <3> QED  BY <3>1 DEF Watched, Watch, Noted
  <2> QED  BY <2>1, <2>2 DEF KnowsWhatIsPlugged
<1> QED  BY <1>2, <1>3, <1>4, PTL DEF Spec
=============================================================================

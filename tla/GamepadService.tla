--------------------------- MODULE GamepadService ---------------------------
(***************************************************************************)
(* The main thread of the gamepad library: DeckGamepadService and the      *)
(* EvdevProvider below it.  The backend (module GamepadBackend) runs on a  *)
(* thread of its own.  Its signals are queued connections: a message waits *)
(* in the queue of the main thread until its event loop delivers it.       *)
(* Start, snapshot and stop call the backend and wait for it, past the     *)
(* messages in the queue.                                                  *)
(***************************************************************************)
EXTENDS Integers, Sequences, FiniteSets

CONSTANTS
  Ids,       \* device identifiers
  MaxSlots,  \* kMaxPlayerSlots
  Sources,   \* controls of a device: "button", "axis", "hat"
  MaxMail    \* bound: messages that wait for the main thread

Slots    == 0 .. MaxSlots - 1
NoSlot   == -1
NoDevice == -1

(* The sources whose events the service may hold back and merge. *)
Coalescable == Sources \cap {"axis", "hat"}

ASSUME ConstantsAssumption ==
  /\ NoDevice \notin Ids
  /\ MaxSlots \in Nat
  /\ Sources \subseteq {"button", "axis", "hat"}
  /\ MaxMail \in Nat

VARIABLES
  \* the backend's thread
  active,     \* the backend is started
  table,      \* table[i]: "gone", "known" (it could not be opened) or "open"
  input,      \* input[i]: sources the open device last reported as pressed
  mail,       \* signals of the backend on their way to the provider
  \* EvdevProvider
  known,      \* m_knownIds
  connected,  \* m_connectedIds
  \* DeckGamepadService
  state,      \* m_state; "Starting" inside start(), before the snapshot
  coalesce,   \* sources with a coalesce interval above 0 in m_runtimeConfig
  mappers,    \* keys of m_actionMapperByDevice
  held,       \* held[i]: sources the mapper of i reported as pressed
  pending,    \* m_pendingAxisEvents, m_pendingHatEvents: <<i, source, on>>
  timers,     \* sources whose coalesce timer runs
  assigned,   \* m_playerAssignments
  playerOf,   \* m_playerIndexByDevice
  \* history
  tainted     \* signals of an earlier run were delivered, or wait to be

backend  == <<active, table, input>>
provider == <<known, connected>>
events   == <<mappers, held, pending, timers>>
players  == <<assigned, playerOf>>
vars == <<backend, mail, provider, state, coalesce, events, players, tainted>>

-----------------------------------------------------------------------------
(* Messages *)

About(kind, i) == [kind |-> kind, id |-> i, source |-> "none", on |-> FALSE]
InputOf(i, s, on) == [kind |-> "input", id |-> i, source |-> s, on |-> on]

Message == [kind : {"unavailable", "connected", "disconnected", "removed",
                    "input"},
            id : Ids, source : Sources \cup {"none"}, on : BOOLEAN]

Post(messages) == /\ Len(mail) + Len(messages) <= MaxMail
                  /\ mail' = mail \o messages

(* No message about the device itself is on its way. *)
NoNews(i) == \A n \in 1 .. Len(mail) :
               mail[n].id = i => mail[n].kind = "input"

-----------------------------------------------------------------------------
(* The backend's thread *)

(* A device is found and announced; opening it comes next and may fail. *)
Find(i) ==
  /\ active /\ table[i] = "gone"
  /\ table' = [table EXCEPT ![i] = "known"]
  /\ Post(<<About("unavailable", i)>>)
  /\ UNCHANGED <<active, input, provider, state, coalesce, events, players,
                 tainted>>

Open(i) ==
  /\ active /\ table[i] = "known"
  /\ table' = [table EXCEPT ![i] = "open"]
  /\ Post(<<About("connected", i)>>)
  /\ UNCHANGED <<active, input, provider, state, coalesce, events, players,
                 tainted>>

(* The descriptor fails, which is not announced as unavailable, or the
   session is inactive, which is. *)
Close(i) ==
  /\ active /\ table[i] = "open"
  /\ table' = [table EXCEPT ![i] = "known"]
  /\ input' = [input EXCEPT ![i] = {}]
  /\ \/ Post(<<About("disconnected", i)>>)
     \/ Post(<<About("disconnected", i), About("unavailable", i)>>)
  /\ UNCHANGED <<active, provider, state, coalesce, events, players, tainted>>

Remove(i) ==
  /\ active /\ table[i] # "gone"
  /\ table' = [table EXCEPT ![i] = "gone"]
  /\ input' = [input EXCEPT ![i] = {}]
  /\ Post(IF table[i] = "open"
            THEN <<About("disconnected", i), About("removed", i)>>
            ELSE <<About("removed", i)>>)
  /\ UNCHANGED <<active, provider, state, coalesce, events, players, tainted>>

Report(i, s) ==
  LET on == s \notin input[i]
  IN  /\ active /\ table[i] = "open"
      /\ input' = [input EXCEPT ![i] = IF on THEN @ \cup {s} ELSE @ \ {s}]
      /\ Post(<<InputOf(i, s, on)>>)
      /\ UNCHANGED <<active, table, provider, state, coalesce, events,
                     players, tainted>>

-----------------------------------------------------------------------------
(* Mappers and coalescing *)

(* The mapper of a device, made when it is needed, processes one event. *)
Pressed(h, i, s, on) == [h EXCEPT ![i] = IF on THEN @ \cup {s} ELSE @ \ {s}]

(* Each key keeps its last event. *)
Coalesced(i, s, on) ==
  {e \in pending : e[1] # i \/ e[2] # s} \cup {<<i, s, on>>}

DeliverInput ==
  /\ state # "Starting"
  /\ mail # <<>> /\ Head(mail).kind = "input"
  /\ mail' = Tail(mail)
  /\ LET i == Head(mail).id
         s == Head(mail).source
         on == Head(mail).on
     IN  IF s \in coalesce
           THEN /\ pending' = Coalesced(i, s, on)
                /\ timers' = timers \cup {s}
                /\ UNCHANGED <<mappers, held>>
           ELSE /\ mappers' = mappers \cup {i}
                /\ held' = Pressed(held, i, s, on)
                /\ UNCHANGED <<pending, timers>>
  /\ UNCHANGED <<backend, provider, state, coalesce, players, tainted>>

(* The coalesce timer of a source: what is pending goes to the mappers. *)
Flush(s) ==
  /\ state # "Starting"
  /\ s \in timers
  /\ timers' = timers \ {s}
  /\ LET flushed == {e \in pending : e[2] = s}
     IN  /\ pending' = pending \ flushed
         /\ mappers' = mappers \cup {e[1] : e \in flushed}
         /\ held' = [i \in Ids |->
                       IF <<i, s, TRUE>> \in flushed THEN held[i] \cup {s}
                       ELSE IF <<i, s, FALSE>> \in flushed THEN held[i] \ {s}
                       ELSE held[i]]
  /\ UNCHANGED <<backend, mail, provider, state, coalesce, players, tainted>>

-----------------------------------------------------------------------------
(* Players *)

(* Mutant: the search for a free slot goes one too far. *)
FreeSlotsAndOne == {n \in 0 .. MaxSlots : n = MaxSlots \/ assigned[n] = NoDevice}

(* The smallest one is taken. *)
FreeSlots == {n \in Slots : assigned[n] = NoDevice}

AssignPlayer(i) ==
  /\ state # "Starting"
  /\ playerOf[i] = NoSlot
  /\ i \in connected
  /\ \E n \in FreeSlots :
       /\ \A k \in FreeSlots : n <= k
       /\ assigned' = [assigned EXCEPT ![n] = i]
       /\ playerOf' = [playerOf EXCEPT ![i] = n]
  /\ UNCHANGED <<backend, mail, provider, state, coalesce, events, tainted>>

Freed(i) ==
  /\ playerOf' = [playerOf EXCEPT ![i] = NoSlot]
  /\ assigned' = [n \in Slots |-> IF assigned[n] = i THEN NoDevice
                                  ELSE assigned[n]]

UnassignPlayer(i) ==
  /\ state # "Starting"
  /\ playerOf[i] # NoSlot
  /\ Freed(i)
  /\ UNCHANGED <<backend, mail, provider, state, coalesce, events, tainted>>

-----------------------------------------------------------------------------
(* The provider's handlers, with what the service makes of each signal *)

(* Mutant: a removed device is only taken from the connected ones. *)
DeliverAvailabilityKept ==
  /\ state # "Starting"
  /\ mail # <<>> /\ Head(mail).kind \in {"unavailable", "removed"}
  /\ mail' = Tail(mail)
  /\ LET i == Head(mail).id
     IN  IF Head(mail).kind = "removed"
           THEN connected' = connected \ {i} /\ UNCHANGED known
           ELSE known' = known \cup {i} /\ UNCHANGED connected
  /\ UNCHANGED <<backend, state, coalesce, events, players, tainted>>

DeliverAvailability ==
  /\ state # "Starting"
  /\ mail # <<>> /\ Head(mail).kind \in {"unavailable", "removed"}
  /\ mail' = Tail(mail)
  /\ LET i == Head(mail).id
     IN  IF Head(mail).kind = "removed"
           THEN known' = known \ {i} /\ connected' = connected \ {i}
           ELSE known' = known \cup {i} /\ UNCHANGED connected
  /\ UNCHANGED <<backend, state, coalesce, events, players, tainted>>

DeliverConnected ==
  /\ state # "Starting"
  /\ mail # <<>> /\ Head(mail).kind = "connected"
  /\ mail' = Tail(mail)
  /\ known' = known \cup {Head(mail).id}
  /\ connected' = connected \cup {Head(mail).id}
  /\ UNCHANGED <<backend, state, coalesce, events, players, tainted>>

(* Mutant: the mapper stays. *)
DeliverDisconnectedMapped ==
  /\ state # "Starting"
  /\ mail # <<>> /\ Head(mail).kind = "disconnected"
  /\ mail' = Tail(mail)
  /\ LET i == Head(mail).id
     IN  connected' = connected \ {i} /\ Freed(i)
  /\ UNCHANGED <<backend, known, state, coalesce, events, tainted>>

(* Mutant: the player stays. *)
DeliverDisconnectedAssigned ==
  /\ state # "Starting"
  /\ mail # <<>> /\ Head(mail).kind = "disconnected"
  /\ mail' = Tail(mail)
  /\ LET i == Head(mail).id
     IN  /\ connected' = connected \ {i}
         /\ mappers' = mappers \ {i}
         /\ held' = [held EXCEPT ![i] = {}]
  /\ UNCHANGED <<backend, known, state, coalesce, pending, timers, players,
                 tainted>>

(* The mapper releases what it holds and goes, the player slot is freed;
   pending events of the device stay. *)
DeliverDisconnected ==
  /\ state # "Starting"
  /\ mail # <<>> /\ Head(mail).kind = "disconnected"
  /\ mail' = Tail(mail)
  /\ LET i == Head(mail).id
     IN  /\ connected' = connected \ {i}
         /\ mappers' = mappers \ {i}
         /\ held' = [held EXCEPT ![i] = {}]
         /\ Freed(i)
  /\ UNCHANGED <<backend, known, state, coalesce, pending, timers, tainted>>

-----------------------------------------------------------------------------
(* Configuration, start and stop *)

(* Refused unless stopped. *)
SetRuntimeConfig(c) ==
  /\ state = "Stopped"
  /\ coalesce' = c
  /\ UNCHANGED <<backend, mail, provider, state, events, players, tainted>>

(* start() up to the return of the backend's start: the caches are empty and
   the backend's thread goes on by itself, while the main thread waits for
   the snapshot. *)
StartBackend ==
  /\ state \in {"Stopped", "Failed"}
  /\ known' = {} /\ connected' = {}
  /\ active' = TRUE
  /\ state' = "Starting"
  /\ UNCHANGED <<table, input, mail, coalesce, events, players, tainted>>

StartFails ==
  /\ state \in {"Stopped", "Failed"}
  /\ known' = {} /\ connected' = {}
  /\ state' = "Failed"
  /\ UNCHANGED <<backend, mail, coalesce, events, players, tainted>>

(* The snapshot replaces the caches. *)
Snapshot ==
  /\ state = "Starting"
  /\ known' = {i \in Ids : table[i] # "gone"}
  /\ connected' = {i \in Ids : table[i] = "open"}
  /\ state' = "Running"
  /\ UNCHANGED <<backend, mail, coalesce, events, players, tainted>>

(* The backend tells nobody that its devices go, and what waits in the queue
   will be delivered all the same. *)
ProviderStop ==
  /\ active' = FALSE
  /\ table' = [i \in Ids |-> "gone"]
  /\ input' = [i \in Ids |-> {}]
  /\ known' = {} /\ connected' = {}
  /\ tainted' = (mail # <<>>)

ClearActionMappers ==
  /\ mappers' = {}
  /\ held' = [i \in Ids |-> {}]

ClearPlayerAssignments ==
  /\ assigned' = [n \in Slots |-> NoDevice]
  /\ playerOf' = [i \in Ids |-> IF \E n \in Slots : assigned[n] = i
                                THEN NoSlot ELSE playerOf[i]]

(* Pending events are flushed before the mappers go.  A provider that failed
   to start does nothing when it is stopped and keeps its caches. *)
Stop ==
  /\ state \in {"Running", "Failed"}
  /\ state' = "Stopped"
  /\ IF state = "Running" THEN ProviderStop
     ELSE UNCHANGED <<backend, provider, tainted>>
  /\ pending' = {}
  /\ ClearActionMappers
  /\ ClearPlayerAssignments
  /\ UNCHANGED <<mail, coalesce, timers>>

-----------------------------------------------------------------------------
Init ==
  /\ active = FALSE
  /\ table = [i \in Ids |-> "gone"]
  /\ input = [i \in Ids |-> {}]
  /\ mail = <<>>
  /\ known = {} /\ connected = {}
  /\ state = "Stopped"
  /\ coalesce = {}
  /\ mappers = {}
  /\ held = [i \in Ids |-> {}]
  /\ pending = {}
  /\ timers = {}
  /\ assigned = [n \in Slots |-> NoDevice]
  /\ playerOf = [i \in Ids |-> NoSlot]
  /\ tainted = FALSE

Deliver == \/ DeliverInput \/ DeliverAvailability
           \/ DeliverConnected \/ DeliverDisconnected

Next == \/ \E i \in Ids : \/ Find(i) \/ Open(i) \/ Close(i) \/ Remove(i)
                          \/ \E s \in Sources : Report(i, s)
                          \/ AssignPlayer(i) \/ UnassignPlayer(i)
        \/ Deliver
        \/ \E s \in Sources : Flush(s)
        \/ \E c \in SUBSET Coalescable : SetRuntimeConfig(c)
        \/ StartBackend \/ StartFails \/ Snapshot \/ Stop

(* The event loop delivers posted events and start() returns. *)
Fairness == WF_vars(Deliver) /\ WF_vars(Snapshot)

Spec == Init /\ [][Next]_vars
FairSpec == Spec /\ Fairness

-----------------------------------------------------------------------------
(* Properties *)

TypeOK ==
  /\ active \in BOOLEAN
  /\ table \in [Ids -> {"gone", "known", "open"}]
  /\ input \in [Ids -> SUBSET Sources]
  /\ mail \in Seq(Message)
  /\ known \in SUBSET Ids /\ connected \in SUBSET Ids
  /\ state \in {"Stopped", "Starting", "Running", "Failed"}
  /\ coalesce \in SUBSET Coalescable
  /\ mappers \in SUBSET Ids
  /\ held \in [Ids -> SUBSET Sources]
  /\ pending \in SUBSET (Ids \X Coalescable \X BOOLEAN)
  /\ timers \in SUBSET Coalescable
  /\ assigned \in [Slots -> Ids \cup {NoDevice}]
  /\ playerOf \in [Ids -> Slots \cup {NoSlot}]
  /\ tainted \in BOOLEAN

(* The caches of the provider are the tables of the backend for every device
   no news of which is on its way, although the snapshot of start()
   overtakes the messages in the queue. *)
CachesAgree ==
  state = "Running" /\ ~ tainted =>
    \A i \in Ids :
      NoNews(i) => /\ i \in connected <=> table[i] = "open"
                   /\ i \in known <=> table[i] # "gone"

(* A player slot belongs to one open device, or news of the device is on its
   way; and the two tables of the assignment are each other's inverse. *)
PlayersBacked ==
  /\ \A i \in Ids, n \in Slots : playerOf[i] = n <=> assigned[n] = i
  /\ ~ tainted =>
       \A i \in Ids : playerOf[i] # NoSlot => ~ NoNews(i) \/ table[i] = "open"

TablesAgree == CachesAgree /\ PlayersBacked

(* What waits to be delivered releases source s of device i. *)
ReleaseUnderWay(i, s) ==
  \E n \in 1 .. Len(mail) :
    /\ mail[n].id = i
    /\ \/ mail[n].kind = "disconnected"
       \/ mail[n].source = s /\ ~ mail[n].on

(* An action is held only while the device reports its source as pressed, or
   its release waits to be delivered: through closing, removal, restart and
   reuse of the identifier no press is left without its release.  The
   sources that are merged are the exception. *)
NothingStuck ==
  ~ tainted =>
    \A i \in Ids : \A s \in held[i] \ coalesce :
      s \in input[i] \/ ReleaseUnderWay(i, s)

(* The slot of a device that is gone becomes free. *)
SlotsAreFreed ==
  \A i \in Ids :
    (state = "Running" /\ ~ tainted /\ playerOf[i] # NoSlot
       /\ table[i] # "open") ~> playerOf[i] = NoSlot

(* Nothing is held for a device that was disconnected. *)
GoneHoldNothing ==
  ~ tainted => \A i \in Ids : i \notin connected /\ NoNews(i) => held[i] = {}
=============================================================================

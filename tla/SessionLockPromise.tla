------------------------- MODULE SessionLockPromise -------------------------
(***************************************************************************)
(* What the lock screen promises a locking client and the user: one client *)
(* holds the lock at a time and another is refused only meanwhile; the     *)
(* holder is told so once the desktop is closed, and is told so in the end *)
(* unless it goes away; a closed desktop opens only when the holder        *)
(* unlocks, or goes away before it was told - never because it died later. *)
(* ExtSessionLock implements it.                                           *)
(***************************************************************************)
CONSTANTS
    Locks,          \* the locks clients may ask for
    NoLock          \* nobody holds the lock

VARIABLES
    holder,         \* the lock that is held, or NoLock
    closed,         \* the desktop can be neither seen nor used
    told            \* l -> what its client knows

vars == <<holder, closed, told>>

Init ==
    /\ holder = NoLock
    /\ closed = FALSE
    /\ told = [l \in Locks |-> "new"]

Take(l) ==
    /\ told[l] = "new"
    /\ holder = NoLock
    /\ holder' = l
    /\ closed' = TRUE
    /\ told' = [told EXCEPT ![l] = "waiting"]

Refuse(l) ==
    /\ told[l] = "new"
    /\ holder # NoLock
    /\ told' = [told EXCEPT ![l] = "finished"]
    /\ UNCHANGED <<holder, closed>>

Confirm(l) ==
    /\ told[l] = "waiting"
    /\ holder = l
    /\ closed
    /\ told' = [told EXCEPT ![l] = "locked"]
    /\ UNCHANGED <<holder, closed>>

Unlock(l) ==
    /\ told[l] = "locked"
    /\ holder = l
    /\ holder' = NoLock
    /\ closed' = FALSE
    /\ told' = [told EXCEPT ![l] = "unlocked"]

Cancel(l) ==
    /\ told[l] = "waiting"
    /\ holder = l
    /\ holder' = NoLock
    /\ closed' = FALSE
    /\ told' = [told EXCEPT ![l] = "canceled"]

Die(l) ==
    /\ holder = l
    /\ holder' = NoLock
    /\ told' = [told EXCEPT ![l] = "abandoned"]
    /\ UNCHANGED closed

Next ==
    \E l \in Locks :
        Take(l) \/ Refuse(l) \/ Confirm(l) \/ Unlock(l) \/ Cancel(l) \/ Die(l)

Fairness == \A l \in Locks : WF_vars(Confirm(l))

SafeSpec == Init /\ [][Next]_vars
Spec == SafeSpec /\ Fairness
=============================================================================

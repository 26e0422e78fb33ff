------------------------ MODULE GamepadServiceProofs ------------------------
(***************************************************************************)
(* What the run of GamepadService shows on two devices, one player and     *)
(* three messages, proved for any of them.  The properties speak of the    *)
(* moment when no news of a device waits in the queue.  They hold then     *)
(* because of what the queue held before: the invariant relates every      *)
(* message on its way with the backend's tables (Follows, Ends), also      *)
(* while the snapshot of start() is ahead of the queue.                    *)
(***************************************************************************)
EXTENDS GamepadService, TLAPS

(* Messages that decide whether a device is connected, and whether it is   *)
(* known.                                                                  *)
Link  == {"connected", "disconnected", "removed"}
Sight == {"unavailable", "connected", "removed"}

Is(m, i, K) == m.id = i /\ m.kind \in K

(* On delivery m takes source s of device i from what is held.             *)
Releases(m, i, s) ==
  m.id = i /\ (m.kind = "disconnected" \/ (m.source = s /\ ~ m.on))

Presses(m, i, s) == m.id = i /\ m.source = s /\ m.on

WellFormed(m) ==
  /\ m.kind = "input" => m.source \in Sources
  /\ m.kind # "input" => m.source = "none"

Positions == 1 .. Len(mail)

LastOf(p, i, K) == /\ Is(mail[p], i, K)
                   /\ \A r \in Positions : r > p => ~ Is(mail[r], i, K)

(* What was posted last about a device is what the backend's table says;   *)
(* with nothing on its way the caches say it.                              *)
LinkFollows(i) ==
  /\ \A p \in Positions :
       LastOf(p, i, Link) => (mail[p].kind = "connected" <=> table[i] = "open")
  /\ (\A p \in Positions : ~ Is(mail[p], i, Link)) =>
       (i \in connected <=> table[i] = "open")

SightFollows(i) ==
  /\ \A p \in Positions :
       LastOf(p, i, Sight) => (mail[p].kind # "removed" <=> table[i] # "gone")
  /\ (\A p \in Positions : ~ Is(mail[p], i, Sight)) =>
       (i \in known <=> table[i] # "gone")

(* A device that counts as connected, or will, is open or its end comes    *)
(* later in the queue.                                                     *)
Ends(i, p) ==
  \/ table[i] = "open"
  \/ \E r \in Positions : r > p /\ Is(mail[r], i, {"disconnected"})

LinkEnds(i) ==
  /\ i \in connected \/ playerOf[i] # NoSlot => Ends(i, 0)
  /\ \A p \in Positions : Is(mail[p], i, {"connected"}) => Ends(i, p)

(* A source that is held, or will be, is pressed or its release comes      *)
(* later in the queue.                                                     *)
Released(i, s, p) ==
  \/ s \in input[i]
  \/ \E r \in Positions : r > p /\ Releases(mail[r], i, s)

PressEnds(i, s) ==
  /\ s \in held[i] /\ s \notin coalesce => Released(i, s, 0)
  /\ \A p \in Positions : Presses(mail[p], i, s) => Released(i, s, p)

(* A backend that was stopped, with an empty queue, has left nothing.      *)
Quiet ==
  ~ active => /\ mail = <<>> /\ known = {} /\ connected = {}
              /\ pending = {}
              /\ \A i \in Ids : held[i] = {}

MergedWait == \A e \in pending : e[2] \in coalesce

DeviceInv ==
  \A i \in Ids : /\ LinkFollows(i) /\ SightFollows(i) /\ LinkEnds(i)
                 /\ \A s \in Sources : PressEnds(i, s)

(* True until signals of an earlier run are delivered.                     *)
Fresh == Quiet /\ MergedWait /\ DeviceInv

(* True in every run.                                                      *)
Lifecycle ==
  /\ active <=> state \in {"Starting", "Running"}
  /\ \A i \in Ids : /\ table[i] # "open" => input[i] = {}
                    /\ ~ active => table[i] = "gone"
  /\ \A p \in Positions : WellFormed(mail[p])

SlotsInverse == \A i \in Ids, n \in Slots : playerOf[i] = n <=> assigned[n] = i

IInv == TypeOK /\ Lifecycle /\ SlotsInverse /\ (~ tainted => Fresh)

-----------------------------------------------------------------------------
(* The queue.                                                              *)

LEMMA PostedOne ==
  ASSUME mail \in Seq(Message), NEW m \in Message, Post(<<m>>)
  PROVE  /\ mail' \in Seq(Message)
         /\ Len(mail') = Len(mail) + 1
         /\ \A p \in Positions : mail'[p] = mail[p]
         /\ mail'[Len(mail) + 1] = m
  BY DEF Post, Positions

LEMMA PostedTwo ==
  ASSUME mail \in Seq(Message), NEW m \in Message, NEW n \in Message,
         Post(<<m, n>>)
  PROVE  /\ mail' \in Seq(Message)
         /\ Len(mail') = Len(mail) + 2
         /\ \A p \in Positions : mail'[p] = mail[p]
         /\ mail'[Len(mail) + 1] = m
         /\ mail'[Len(mail) + 2] = n
  BY DEF Post, Positions

LEMMA Taken ==
  ASSUME mail \in Seq(Message), mail # <<>>, mail' = Tail(mail)
  PROVE  /\ mail' \in Seq(Message)
         /\ Len(mail) \in Nat /\ Len(mail) >= 1
         /\ Len(mail') = Len(mail) - 1
         /\ Head(mail) = mail[1] /\ mail[1] \in Message
         /\ \A p \in Positions' : p + 1 \in Positions /\ mail'[p] = mail[p + 1]
         /\ \A p \in Positions : p = 1 \/ (p - 1 \in Positions' /\ mail'[p - 1] = mail[p])
  BY DEF Positions

LEMMA Messages ==
  ASSUME NEW i \in Ids
  PROVE  /\ \A k \in {"unavailable", "connected", "disconnected", "removed"} :
              /\ About(k, i) \in Message /\ WellFormed(About(k, i))
              /\ About(k, i).kind = k /\ About(k, i).id = i
              /\ \A s \in Sources : About(k, i).source # s
         /\ \A s \in Sources, on \in BOOLEAN :
              /\ InputOf(i, s, on) \in Message /\ WellFormed(InputOf(i, s, on))
              /\ InputOf(i, s, on).kind = "input" /\ InputOf(i, s, on).id = i
              /\ InputOf(i, s, on).source = s
              /\ InputOf(i, s, on).on <=> on
<1> "none" \notin Sources
  BY ConstantsAssumption
<1> QED  BY DEF About, InputOf, Message, WellFormed

(* The queue is extended: its old positions keep their messages.           *)
Extended ==
  /\ mail \in Seq(Message) /\ mail' \in Seq(Message)
  /\ Len(mail') >= Len(mail)
  /\ \A p \in Positions : mail'[p] = mail[p]

New == Positions' \ Positions

LEMMA ExtendedPositions ==
  ASSUME Extended
  PROVE  /\ Positions \subseteq Positions'
         /\ \A p \in New, q \in Positions : p > q
         /\ \A p \in New : p > 0
         /\ \A p \in Positions : mail'[p] = mail[p]
  BY DEF Extended, New, Positions

(* New messages that are well-formed leave the queue so.                   *)
LEMMA StillWellFormed ==
  ASSUME Extended, \A p \in New : WellFormed(mail'[p]),
         \A p \in Positions : WellFormed(mail[p])
  PROVE  \A p \in Positions' : WellFormed(mail'[p])
  BY DEF Extended, New

(* News of other devices leave a device as it is.                          *)
LEMMA Bystander ==
  ASSUME Extended, NEW i \in Ids, \A p \in New : mail'[p].id # i,
         table'[i] = table[i], input'[i] = input[i],
         UNCHANGED <<known, connected, held, coalesce, playerOf>>,
         LinkFollows(i), SightFollows(i), LinkEnds(i),
         \A s \in Sources : PressEnds(i, s)
  PROVE  /\ LinkFollows(i)' /\ SightFollows(i)' /\ LinkEnds(i)'
         /\ \A s \in Sources : PressEnds(i, s)'
<1>1. /\ Positions \subseteq Positions'
      /\ \A p \in Positions : mail'[p] = mail[p]
      /\ \A p \in Positions' : p \in Positions \/ mail'[p].id # i
  BY ExtendedPositions DEF New
<1>2. \A K : \A p \in Positions' : Is(mail'[p], i, K) => p \in Positions /\ Is(mail[p], i, K)
  BY <1>1 DEF Is
<1>3. \A K : \A p \in Positions : Is(mail[p], i, K) => p \in Positions' /\ Is(mail'[p], i, K)
  BY <1>1 DEF Is
<1>4. \A K : \A p \in Positions' : LastOf(p, i, K)' => p \in Positions /\ LastOf(p, i, K)
  BY <1>1, <1>2, <1>3 DEF LastOf
<1>5. LinkFollows(i)'
  BY <1>1, <1>2, <1>3, <1>4 DEF LinkFollows
<1>6. SightFollows(i)'
  BY <1>1, <1>2, <1>3, <1>4 DEF SightFollows
<1>7. \A p : Ends(i, p) => Ends(i, p)'
  BY <1>3 DEF Ends
<1>8. LinkEnds(i)'
  BY <1>2, <1>7 DEF LinkEnds
<1>9. ASSUME NEW s \in Sources PROVE PressEnds(i, s)'
  <2>1. \A p : Released(i, s, p) => Released(i, s, p)'
    BY <1>1 DEF Released
  <2>2. \A p \in Positions' : Presses(mail'[p], i, s) => p \in Positions /\ Presses(mail[p], i, s)
    BY <1>1 DEF Presses
  <2>3. PressEnds(i, s)
    OBVIOUS
  <2> QED  BY <2>1, <2>2, <2>3 DEF PressEnds
<1> QED  BY <1>5, <1>6, <1>8, <1>9

-----------------------------------------------------------------------------
(* What a delivery does to the caches, the players and what is held, in    *)
(* terms of the message delivered.                                         *)
LEMMA Delivered ==
  ASSUME mail \in Seq(Message), mail # <<>>, mail' = Tail(mail),
         NEW i \in Ids, UNCHANGED <<table, input, coalesce>>,
         NEW m \in Message, m = Head(mail),
         Is(m, i, Link) => (i \in connected' <=> m.kind = "connected"),
         ~ Is(m, i, Link) => (i \in connected' <=> i \in connected),
         Is(m, i, Sight) => (i \in known' <=> m.kind # "removed"),
         ~ Is(m, i, Sight) => (i \in known' <=> i \in known),
         playerOf'[i] # NoSlot =>
           playerOf[i] # NoSlot /\ ~ Is(m, i, {"disconnected"}),
         \A s \in Sources : s \in held'[i] /\ s \notin coalesce =>
           Presses(m, i, s) \/ (s \in held[i] /\ ~ Releases(m, i, s)),
         LinkFollows(i), SightFollows(i), LinkEnds(i),
         \A s \in Sources : PressEnds(i, s)
  PROVE  /\ LinkFollows(i)' /\ SightFollows(i)' /\ LinkEnds(i)'
         /\ \A s \in Sources : PressEnds(i, s)'
<1> DEFINE n == Len(mail)
<1>1. /\ n \in Nat /\ n >= 1 /\ m = mail[1]
      /\ \A p \in Positions' : p + 1 \in Positions /\ mail'[p] = mail[p + 1]
      /\ \A p \in Positions :
           p = 1 \/ (p - 1 \in Positions' /\ mail'[p - 1] = mail[p])
      /\ 1 \in Positions
      /\ \A p \in Positions : p \in Int /\ p >= 1
      /\ \A p \in Positions' : p \in Int /\ p >= 1
  BY Taken DEF Positions
<1>2. \A K : \A p \in Positions' : LastOf(p, i, K)' => LastOf(p + 1, i, K)
  <2> SUFFICES ASSUME NEW K, NEW p \in Positions', LastOf(p, i, K)',
                      NEW r \in Positions, r > p + 1, Is(mail[r], i, K)
               PROVE  FALSE
    BY <1>1 DEF LastOf
  <2>1. r # 1 /\ r - 1 > p
    BY <1>1
  <2>2. r - 1 \in Positions' /\ mail'[r - 1] = mail[r]
    BY <1>1, <2>1
  <2> QED  BY <2>1, <2>2 DEF LastOf
<1>3. ASSUME NEW K, \A p \in Positions' : ~ Is(mail'[p], i, K)
      PROVE  /\ Is(m, i, K) => LastOf(1, i, K)
             /\ ~ Is(m, i, K) => \A p \in Positions : ~ Is(mail[p], i, K)
  <2>1. \A p \in Positions : p = 1 \/ ~ Is(mail[p], i, K)
    BY <1>1, <1>3
  <2> QED  BY <1>1, <2>1 DEF LastOf
<1>4. LinkFollows(i)'
  <2>1. ASSUME NEW p \in Positions', LastOf(p, i, Link)'
        PROVE  mail'[p].kind = "connected" <=> table'[i] = "open"
    BY <1>1, <1>2, <2>1 DEF LinkFollows
  <2>2. ASSUME \A p \in Positions' : ~ Is(mail'[p], i, Link)
        PROVE  i \in connected' <=> table'[i] = "open"
    <3>1. CASE Is(m, i, Link)
      BY <1>1, <1>3, <2>2, <3>1 DEF LinkFollows
    <3>2. CASE ~ Is(m, i, Link)
      BY <1>3, <2>2, <3>2 DEF LinkFollows
    <3> QED  BY <3>1, <3>2
  <2> QED  BY <2>1, <2>2 DEF LinkFollows
<1>5. SightFollows(i)'
  <2>1. ASSUME NEW p \in Positions', LastOf(p, i, Sight)'
        PROVE  mail'[p].kind # "removed" <=> table'[i] # "gone"
    BY <1>1, <1>2, <2>1 DEF SightFollows
  <2>2. ASSUME \A p \in Positions' : ~ Is(mail'[p], i, Sight)
        PROVE  i \in known' <=> table'[i] # "gone"
    <3>1. CASE Is(m, i, Sight)
      BY <1>1, <1>3, <2>2, <3>1 DEF SightFollows
    <3>2. CASE ~ Is(m, i, Sight)
      BY <1>3, <2>2, <3>2 DEF SightFollows
    <3> QED  BY <3>1, <3>2
  <2> QED  BY <2>1, <2>2 DEF SightFollows
<1>6. LinkEnds(i)'
  <2>1. \A p \in Positions : Ends(i, p) => Ends(i, p - 1)'
    <3> SUFFICES ASSUME NEW p \in Positions, NEW r \in Positions, r > p,
                        Is(mail[r], i, {"disconnected"})
                 PROVE  \E q \in Positions' : q > p - 1 /\ Is(mail'[q], i, {"disconnected"})
      BY DEF Ends
    <3>1. r # 1 /\ r - 1 > p - 1
      BY <1>1
    <3>2. r - 1 \in Positions' /\ mail'[r - 1] = mail[r]
      BY <1>1, <3>1
    <3> QED  BY <3>1, <3>2
  <2>2. ASSUME NEW p \in Positions', Is(mail'[p], i, {"connected"})
        PROVE  Ends(i, p)'
    <3>1. Ends(i, p + 1)
      BY <1>1, <2>2 DEF LinkEnds
    <3>2. p + 1 \in Positions /\ (p + 1) - 1 = p
      BY <1>1
    <3> QED  BY <2>1, <3>1, <3>2
  <2>3. ASSUME i \in connected' \/ playerOf'[i] # NoSlot
        PROVE  Ends(i, 0)'
    <3>1. CASE Is(m, i, {"connected"})
      <4>1. Ends(i, 1)
        BY <1>1, <3>1 DEF LinkEnds
      <4> QED  BY <1>1, <2>1, <4>1
    <3>2. CASE ~ Is(m, i, {"connected"})
      <4>1. ~ Is(m, i, {"disconnected"}) /\ (i \in connected \/ playerOf[i] # NoSlot)
        BY <2>3, <3>2 DEF Is, Link
      <4>2. Ends(i, 0)
        BY <4>1 DEF LinkEnds
      <4>3. Ends(i, 1)
        <5> SUFFICES ASSUME NEW r \in Positions, Is(mail[r], i, {"disconnected"})
                     PROVE  r > 1
          BY <4>2 DEF Ends
        <5> QED  BY <1>1, <4>1
      <4> QED  BY <1>1, <2>1, <4>3
    <3> QED  BY <3>1, <3>2
  <2> QED  BY <2>2, <2>3 DEF LinkEnds
<1>7. ASSUME NEW s \in Sources PROVE PressEnds(i, s)'
  <2> PressEnds(i, s)
    OBVIOUS
  <2>1. \A p \in Positions : Released(i, s, p) => Released(i, s, p - 1)'
    <3> SUFFICES ASSUME NEW p \in Positions, NEW r \in Positions, r > p,
                        Releases(mail[r], i, s)
                 PROVE  \E q \in Positions' : q > p - 1 /\ Releases(mail'[q], i, s)
      BY DEF Released
    <3>1. r # 1 /\ r - 1 > p - 1
      BY <1>1
    <3>2. r - 1 \in Positions' /\ mail'[r - 1] = mail[r]
      BY <1>1, <3>1
    <3> QED  BY <3>1, <3>2
  <2>2. ASSUME NEW p \in Positions', Presses(mail'[p], i, s)
        PROVE  Released(i, s, p)'
    <3>1. Released(i, s, p + 1)
      BY <1>1, <2>2 DEF PressEnds
    <3>2. p + 1 \in Positions /\ (p + 1) - 1 = p
      BY <1>1
    <3> QED  BY <2>1, <3>1, <3>2
  <2>3. ASSUME s \in held'[i], s \notin coalesce'
        PROVE  Released(i, s, 0)'
    <3>1. CASE Presses(m, i, s)
      <4>1. Released(i, s, 1)
        BY <1>1, <3>1 DEF PressEnds
      <4> QED  BY <1>1, <2>1, <4>1
    <3>2. CASE ~ Presses(m, i, s)
      <4>1. s \in held[i] /\ s \notin coalesce /\ ~ Releases(m, i, s)
        BY <2>3, <3>2
      <4>2. Released(i, s, 0)
        BY <4>1 DEF PressEnds
      <4>3. Released(i, s, 1)
        <5> SUFFICES ASSUME NEW r \in Positions, Releases(mail[r], i, s)
                     PROVE  r > 1
          BY <4>2 DEF Released
        <5> QED  BY <1>1, <4>1
      <4> QED  BY <1>1, <2>1, <4>3
    <3> QED  BY <3>1, <3>2
  <2> QED  BY <2>2, <2>3 DEF PressEnds
<1> QED  BY <1>4, <1>5, <1>6, <1>7
-----------------------------------------------------------------------------
(* What a post does to the device it is about.                             *)

LEMMA LastKept ==
  ASSUME Extended, NEW i, NEW K, \A p \in New : ~ Is(mail'[p], i, K)
  PROVE  /\ \A p \in Positions' :
              LastOf(p, i, K)' => p \in Positions /\ LastOf(p, i, K)
         /\ (\A p \in Positions' : ~ Is(mail'[p], i, K)) =>
              \A p \in Positions : ~ Is(mail[p], i, K)
<1> USE ExtendedPositions
<1>1. \A p \in Positions' : Is(mail'[p], i, K) => p \in Positions
  BY DEF New
<1>2. \A p \in Positions : Is(mail'[p], i, K) <=> Is(mail[p], i, K)
  OBVIOUS
<1> QED  BY <1>1, <1>2 DEF LastOf

LEMMA LastNew ==
  ASSUME mail' \in Seq(Message), NEW i, NEW K, NEW k \in Positions',
         Is(mail'[k], i, K), \A r \in Positions' : r > k => ~ Is(mail'[r], i, K)
  PROVE  \A p \in Positions' : LastOf(p, i, K)' => p = k
  BY DEF LastOf, Positions

(* Ends and releases that were on their way still are.                     *)
LEMMA EndsKept ==
  ASSUME Extended, NEW i, NEW p, Ends(i, p),
         table'[i] = "open" \/ table[i] # "open"
  PROVE  Ends(i, p)'
  BY ExtendedPositions DEF Ends

LEMMA ReleasedKept ==
  ASSUME Extended, NEW i, NEW s, NEW p, Released(i, s, p),
         s \in input'[i] \/ s \notin input[i]
  PROVE  Released(i, s, p)'
  BY ExtendedPositions DEF Released

(* Where neither the caches nor what is held changes it is enough to look  *)
(* at the messages posted.                                                 *)
LEMMA LinkEndsKept ==
  ASSUME Extended, NEW i \in Ids, LinkEnds(i), UNCHANGED <<connected, playerOf>>,
         table'[i] = "open" \/ table[i] # "open",
         \A p \in New : Is(mail'[p], i, {"connected"}) => Ends(i, p)'
  PROVE  LinkEnds(i)'
<1>1. ASSUME NEW p \in Positions', Is(mail'[p], i, {"connected"}) PROVE Ends(i, p)'
  <2>1. CASE p \in Positions
    <3>1. Is(mail[p], i, {"connected"})
      BY <1>1, <2>1, ExtendedPositions
    <3>2. Ends(i, p)
      BY <2>1, <3>1 DEF LinkEnds
    <3> QED  BY <3>2, EndsKept
  <2>2. CASE p \notin Positions
    BY <1>1, <2>2 DEF New
  <2> QED  BY <2>1, <2>2
<1>2. i \in connected \/ playerOf[i] # NoSlot => Ends(i, 0)'
  BY EndsKept DEF LinkEnds
<1> QED  BY <1>1, <1>2 DEF LinkEnds

LEMMA PressEndsKept ==
  ASSUME Extended, NEW i \in Ids, NEW s, PressEnds(i, s), UNCHANGED <<held, coalesce>>,
         s \in input'[i] \/ s \notin input[i],
         \A p \in New : Presses(mail'[p], i, s) => Released(i, s, p)'
  PROVE  PressEnds(i, s)'
<1>1. ASSUME NEW p \in Positions', Presses(mail'[p], i, s) PROVE Released(i, s, p)'
  <2>1. CASE p \in Positions
    <3>1. Presses(mail[p], i, s)
      BY <1>1, <2>1, ExtendedPositions
    <3>2. Released(i, s, p)
      BY <2>1, <3>1 DEF PressEnds
    <3> QED  BY <3>2, ReleasedKept
  <2>2. CASE p \notin Positions
    BY <1>1, <2>2 DEF New
  <2> QED  BY <2>1, <2>2
<1>2. s \in held[i] /\ s \notin coalesce => Released(i, s, 0)'
  BY ReleasedKept DEF PressEnds
<1> QED  BY <1>1, <1>2 DEF PressEnds

(* A disconnection that is posted ends and releases all before it.         *)
LEMMA DisconnectionPosted ==
  ASSUME Extended, NEW i \in Ids, NEW k \in New,
         Is(mail'[k], i, {"disconnected"}),
         \A p \in New : ~ Is(mail'[p], i, {"connected"}),
         \A p \in New, s \in Sources : ~ Presses(mail'[p], i, s)
  PROVE  LinkEnds(i)' /\ \A s \in Sources : PressEnds(i, s)'
<1>1. \A p \in Positions \cup {0} : Ends(i, p)' /\ \A s \in Sources : Released(i, s, p)'
  BY ExtendedPositions DEF Ends, Released, Releases, Is, New
<1>2. \A p \in Positions' : p \in Positions \/ p \in New
  BY DEF New
<1> QED  BY <1>1, <1>2 DEF LinkEnds, PressEnds
(* One message is posted, or two.                                          *)
LEMMA ExtendedByOne ==
  ASSUME mail \in Seq(Message), NEW m \in Message, Post(<<m>>)
  PROVE  /\ Extended
         /\ New = {Len(mail) + 1}
         /\ mail'[Len(mail) + 1] = m
  BY PostedOne DEF Extended, New, Positions

LEMMA ExtendedByTwo ==
  ASSUME mail \in Seq(Message), NEW m \in Message, NEW n \in Message,
         Post(<<m, n>>)
  PROVE  /\ Extended
         /\ New = {Len(mail) + 1, Len(mail) + 2}
         /\ mail'[Len(mail) + 1] = m
         /\ mail'[Len(mail) + 2] = n
         /\ Len(mail) + 2 > Len(mail) + 1
         /\ \A p \in Positions' : p > Len(mail) + 1 => p = Len(mail) + 2
         /\ \A p \in Positions' : ~ (p > Len(mail) + 2)
  BY PostedTwo DEF Extended, New, Positions

(* Every device's part is kept when a post keeps that of its own.          *)
LEMMA PostKeeps ==
  ASSUME Extended, DeviceInv, NEW i \in Ids, \A p \in New : mail'[p].id = i,
         \A j \in Ids \ {i} : table'[j] = table[j] /\ input'[j] = input[j],
         UNCHANGED <<known, connected, held, coalesce, playerOf>>,
         LinkFollows(i)', SightFollows(i)', LinkEnds(i)',
         \A s \in Sources : PressEnds(i, s)'
  PROVE  DeviceInv'
<1> SUFFICES ASSUME NEW j \in Ids
             PROVE  /\ LinkFollows(j)' /\ SightFollows(j)' /\ LinkEnds(j)'
                    /\ \A s \in Sources : PressEnds(j, s)'
  BY DEF DeviceInv
<1>1. CASE j = i
  BY <1>1
<1>2. CASE j # i
  <2>1. \A p \in New : mail'[p].id # j
    BY <1>2
  <2>2. table'[j] = table[j] /\ input'[j] = input[j]
    BY <1>2
  <2>3. /\ LinkFollows(j) /\ SightFollows(j) /\ LinkEnds(j)
        /\ \A s \in Sources : PressEnds(j, s)
    BY DEF DeviceInv
  <2> QED  BY <2>1, <2>2, <2>3, Bystander
<1> QED  BY <1>1, <1>2

LEMMA FindKeepsDevices ==
  ASSUME TypeOK, DeviceInv, NEW i \in Ids, Find(i) PROVE DeviceInv'
<1> DEFINE m == About("unavailable", i)
<1>1. /\ m \in Message /\ m.kind = "unavailable" /\ m.id = i
      /\ \A s \in Sources : m.source # s
  BY Messages
<1>2. /\ table[i] = "gone" /\ table'[i] = "known"
      /\ \A j \in Ids \ {i} : table'[j] = table[j]
      /\ UNCHANGED <<input, known, connected, held, coalesce, playerOf>>
      /\ mail \in Seq(Message)
  BY DEF TypeOK, Find, provider, events, players
<1>3. Post(<<m>>)
  BY DEF Find
<1> HIDE DEF m
<1>4. /\ Extended /\ New = {Len(mail) + 1} /\ mail'[Len(mail) + 1] = m
  BY <1>1, <1>2, <1>3, ExtendedByOne
<1>5. /\ LinkFollows(i) /\ SightFollows(i) /\ LinkEnds(i)
      /\ \A s \in Sources : PressEnds(i, s)
  BY DEF DeviceInv
<1>6. LinkFollows(i)'
  <2>1. \A p \in New : ~ Is(mail'[p], i, Link)
    BY <1>1, <1>4 DEF Is, Link
  <2> QED  BY <1>2, <1>4, <1>5, <2>1, LastKept, ExtendedPositions DEF LinkFollows
<1>7. SightFollows(i)'
  <2>1. Is(mail'[Len(mail) + 1], i, Sight)
    BY <1>1, <1>4 DEF Is, Sight
  <2>2. Len(mail) + 1 \in Positions' /\ \A r \in Positions' : ~ (r > Len(mail) + 1)
    BY <1>1, <1>2, <1>3, PostedOne DEF Positions
  <2>3. \A p \in Positions' : LastOf(p, i, Sight)' => p = Len(mail) + 1
    BY <1>4, <2>1, <2>2, LastNew DEF Extended
  <2> QED  BY <1>1, <1>2, <1>4, <2>1, <2>2, <2>3 DEF SightFollows
<1>8. LinkEnds(i)'
  <2>1. \A p \in New : ~ Is(mail'[p], i, {"connected"})
    BY <1>1, <1>4 DEF Is
  <2> QED  BY <1>2, <1>4, <1>5, <2>1, LinkEndsKept
<1>9. ASSUME NEW s \in Sources PROVE PressEnds(i, s)'
  <2>1. \A p \in New : ~ Presses(mail'[p], i, s)
    BY <1>1, <1>4 DEF Presses
  <2> QED  BY <1>2, <1>4, <1>5, <2>1, PressEndsKept
<1>10. \A p \in New : mail'[p].id = i
  BY <1>1, <1>4
<1> QED  BY <1>2, <1>4, <1>6, <1>7, <1>8, <1>9, <1>10, PostKeeps
LEMMA OpenKeepsDevices ==
  ASSUME TypeOK, DeviceInv, NEW i \in Ids, Open(i) PROVE DeviceInv'
<1> DEFINE m == About("connected", i)
<1>1. /\ m \in Message /\ m.kind = "connected" /\ m.id = i
      /\ \A s \in Sources : m.source # s
  BY Messages
<1>2. /\ table'[i] = "open"
      /\ \A j \in Ids \ {i} : table'[j] = table[j]
      /\ UNCHANGED <<input, known, connected, held, coalesce, playerOf>>
      /\ mail \in Seq(Message)
  BY DEF TypeOK, Open, provider, events, players
<1>3. Post(<<m>>)
  BY DEF Open
<1> HIDE DEF m
<1>4. /\ Extended /\ New = {Len(mail) + 1} /\ mail'[Len(mail) + 1] = m
  BY <1>1, <1>2, <1>3, ExtendedByOne
<1>5. \A s \in Sources : PressEnds(i, s)
  BY DEF DeviceInv
<1>6. ASSUME NEW K, "connected" \in K
      PROVE  /\ \A p \in Positions' : LastOf(p, i, K)' => mail'[p].kind = "connected"
             /\ \E p \in Positions' : Is(mail'[p], i, K)
  <2>1. Is(mail'[Len(mail) + 1], i, K)
    BY <1>1, <1>4, <1>6 DEF Is
  <2>2. Len(mail) + 1 \in Positions' /\ \A r \in Positions' : ~ (r > Len(mail) + 1)
    BY <1>1, <1>2, <1>3, PostedOne DEF Positions
  <2>3. \A p \in Positions' : LastOf(p, i, K)' => p = Len(mail) + 1
    BY <1>4, <2>1, <2>2, LastNew DEF Extended
  <2> QED  BY <1>1, <1>4, <2>1, <2>2, <2>3
<1>7. LinkFollows(i)'
  <2> "connected" \in Link
    BY DEF Link
  <2> QED  BY <1>2, <1>6 DEF LinkFollows
<1>8. SightFollows(i)'
  <2> "connected" \in Sight
    BY DEF Sight
  <2> QED  BY <1>2, <1>6 DEF SightFollows
<1>9. LinkEnds(i)'
  BY <1>2 DEF LinkEnds, Ends
<1>10. ASSUME NEW s \in Sources PROVE PressEnds(i, s)'
  <2>1. \A p \in New : ~ Presses(mail'[p], i, s)
    BY <1>1, <1>4 DEF Presses
  <2> QED  BY <1>2, <1>4, <1>5, <2>1, PressEndsKept
<1>11. \A p \in New : mail'[p].id = i
  BY <1>1, <1>4
<1> QED  BY <1>2, <1>4, <1>7, <1>8, <1>9, <1>10, <1>11, PostKeeps

(* Close with one message or two.                                          *)
LEMMA CloseKeepsDevices ==
  ASSUME TypeOK, DeviceInv, NEW i \in Ids, Close(i) PROVE DeviceInv'
<1> DEFINE m == About("disconnected", i)
           n == About("unavailable", i)
<1>1. /\ m \in Message /\ m.kind = "disconnected" /\ m.id = i
      /\ \A s \in Sources : m.source # s
      /\ n \in Message /\ n.kind = "unavailable" /\ n.id = i
      /\ \A s \in Sources : n.source # s
  BY Messages
<1>2. /\ table[i] = "open" /\ table'[i] = "known"
      /\ \A j \in Ids \ {i} : table'[j] = table[j] /\ input'[j] = input[j]
      /\ UNCHANGED <<known, connected, held, coalesce, playerOf>>
      /\ mail \in Seq(Message)
  BY DEF TypeOK, Close, provider, events, players
<1>3. Post(<<m>>) \/ Post(<<m, n>>)
  BY DEF Close
<1> HIDE DEF m, n
<1> DEFINE k == Len(mail) + 1
<1>4. /\ Extended /\ k \in New /\ mail'[k] = m /\ k > 0
      /\ \A p \in New : p = k \/ mail'[p] = n
      /\ \A r \in Positions' : r > k => r \in New /\ mail'[r] = n
      /\ \A p \in New : p \in Positions'
  <2>1. CASE Post(<<m>>)
    BY <1>1, <1>2, <2>1, ExtendedByOne, PostedOne DEF Positions, New
  <2>2. CASE Post(<<m, n>>)
    BY <1>1, <1>2, <2>2, ExtendedByTwo, PostedTwo DEF Positions, New
  <2> QED  BY <1>3, <2>1, <2>2
<1> HIDE DEF k
<1>5. SightFollows(i)
  BY DEF DeviceInv
<1>6. LinkFollows(i)'
  <2>1. Is(mail'[k], i, Link) /\ k \in Positions'
    BY <1>1, <1>4 DEF Is, Link
  <2>2. \A r \in Positions' : r > k => ~ Is(mail'[r], i, Link)
    BY <1>1, <1>4 DEF Is, Link
  <2>3. \A p \in Positions' : LastOf(p, i, Link)' => p = k
    BY <1>4, <2>1, <2>2, LastNew DEF Extended
  <2> QED  BY <1>1, <1>2, <1>4, <2>1, <2>3 DEF LinkFollows
<1>7. SightFollows(i)'
  <2>1. CASE \A p \in New : ~ Is(mail'[p], i, Sight)
    BY <1>2, <1>4, <1>5, <2>1, LastKept, ExtendedPositions DEF SightFollows
  <2>2. CASE \E p \in New : Is(mail'[p], i, Sight)
    <3>1. PICK p \in New : Is(mail'[p], i, Sight)
      BY <2>2
    <3>2. \A r \in New : Is(mail'[r], i, Sight) => mail'[r] = n
      BY <1>1, <1>4 DEF Is, Sight
    <3>3. p \in Positions'
      BY <1>4
    <3>4. \A r \in Positions' : LastOf(r, i, Sight)' => r \in New
      BY <1>4, <3>1, <3>3, ExtendedPositions DEF LastOf, New
    <3>5. \A r \in Positions' : LastOf(r, i, Sight)' => mail'[r] = n
      BY <3>2, <3>4 DEF LastOf
    <3> QED  BY <1>1, <1>2, <3>1, <3>3, <3>5 DEF SightFollows
  <2> QED  BY <2>1, <2>2
<1>8. LinkEnds(i)' /\ \A s \in Sources : PressEnds(i, s)'
  <2>1. /\ Is(mail'[k], i, {"disconnected"})
        /\ \A p \in New : ~ Is(mail'[p], i, {"connected"})
        /\ \A p \in New, s \in Sources : ~ Presses(mail'[p], i, s)
    BY <1>1, <1>4 DEF Is, Presses
  <2> QED  BY <1>4, <2>1, DisconnectionPosted
<1>9. \A p \in New : mail'[p].id = i
  BY <1>1, <1>4
<1> QED  BY <1>2, <1>4, <1>6, <1>7, <1>8, <1>9, PostKeeps

LEMMA RemoveKeepsDevices ==
  ASSUME TypeOK, Lifecycle, DeviceInv, NEW i \in Ids, Remove(i) PROVE DeviceInv'
<1> DEFINE m == About("disconnected", i)
           n == About("removed", i)
<1>1. /\ m \in Message /\ m.kind = "disconnected" /\ m.id = i
      /\ \A s \in Sources : m.source # s
      /\ n \in Message /\ n.kind = "removed" /\ n.id = i
      /\ \A s \in Sources : n.source # s
  BY Messages
<1>2. /\ table'[i] = "gone"
      /\ \A j \in Ids \ {i} : table'[j] = table[j] /\ input'[j] = input[j]
      /\ UNCHANGED <<known, connected, held, coalesce, playerOf>>
      /\ mail \in Seq(Message)
  BY DEF TypeOK, Remove, provider, events, players
<1>3. /\ table[i] = "open" => Post(<<m, n>>)
      /\ table[i] # "open" => Post(<<n>>)
  BY DEF Remove
<1> HIDE DEF m, n
<1>4. \E k \in Positions' :
        /\ Extended /\ k \in New /\ mail'[k] = n
        /\ \A r \in Positions' : ~ (r > k)
        /\ \A p \in New : mail'[p] = n \/ mail'[p] = m
  <2>1. CASE table[i] # "open"
    <3>1. Len(mail) + 1 \in Positions'
      BY <1>1, <1>2, <1>3, <2>1, ExtendedByOne DEF New
    <3> WITNESS Len(mail) + 1 \in Positions'
    <3> QED  BY <1>1, <1>2, <1>3, <2>1, ExtendedByOne, PostedOne DEF Positions, New
  <2>2. CASE table[i] = "open"
    <3>1. Len(mail) + 2 \in Positions'
      BY <1>1, <1>2, <1>3, <2>2, ExtendedByTwo DEF New
    <3> WITNESS Len(mail) + 2 \in Positions'
    <3> QED  BY <1>1, <1>2, <1>3, <2>2, ExtendedByTwo, PostedTwo DEF Positions, New
  <2> QED  BY <2>1, <2>2
<1>5. PICK k \in Positions' :
        /\ Extended /\ k \in New /\ mail'[k] = n
        /\ \A r \in Positions' : ~ (r > k)
        /\ \A p \in New : mail'[p] = n \/ mail'[p] = m
  BY <1>4
<1>6. ASSUME NEW K, "removed" \in K
      PROVE  /\ \A p \in Positions' : LastOf(p, i, K)' => mail'[p].kind = "removed"
             /\ \E p \in Positions' : Is(mail'[p], i, K)
  <2>1. Is(mail'[k], i, K)
    BY <1>1, <1>5, <1>6 DEF Is
  <2>2. \A p \in Positions' : LastOf(p, i, K)' => p = k
    BY <1>5, <2>1, LastNew DEF Extended
  <2> QED  BY <1>1, <1>5, <2>1, <2>2
<1>7. LinkFollows(i)'
  <2> "removed" \in Link
    BY DEF Link
  <2> QED  BY <1>2, <1>6 DEF LinkFollows
<1>8. SightFollows(i)'
  <2> "removed" \in Sight
    BY DEF Sight
  <2> QED  BY <1>2, <1>6 DEF SightFollows
<1>9. LinkEnds(i)' /\ \A s \in Sources : PressEnds(i, s)'
  <2>1. /\ \A p \in New : ~ Is(mail'[p], i, {"connected"})
        /\ \A p \in New, s \in Sources : ~ Presses(mail'[p], i, s)
    BY <1>1, <1>5 DEF Is, Presses
  <2>2. CASE table[i] = "open"
    <3>1. Len(mail) + 1 \in New /\ mail'[Len(mail) + 1] = m
      BY <1>1, <1>2, <1>3, <2>2, ExtendedByTwo
    <3>2. Is(mail'[Len(mail) + 1], i, {"disconnected"})
      BY <1>1, <3>1 DEF Is
    <3> QED  BY <1>5, <2>1, <3>1, <3>2, DisconnectionPosted
  <2>3. CASE table[i] # "open"
    <3>1. input'[i] = input[i]
      BY <2>3 DEF Remove, Lifecycle, TypeOK
    <3>2. LinkEnds(i) /\ \A s \in Sources : PressEnds(i, s)
      BY DEF DeviceInv
    <3>3. LinkEnds(i)'
      BY <1>2, <1>5, <2>1, <2>3, <3>2, LinkEndsKept
    <3>4. ASSUME NEW s \in Sources PROVE PressEnds(i, s)'
      BY <1>2, <1>5, <2>1, <3>1, <3>2, PressEndsKept
    <3> QED  BY <3>3, <3>4
  <2> QED  BY <2>2, <2>3
<1>10. \A p \in New : mail'[p].id = i
  BY <1>1, <1>5
<1> QED  BY <1>2, <1>5, <1>7, <1>8, <1>9, <1>10, PostKeeps

LEMMA ReportKeepsDevices ==
  ASSUME TypeOK, DeviceInv, NEW i \in Ids, NEW s \in Sources, Report(i, s)
  PROVE  DeviceInv'
<1>0. PICK on \in BOOLEAN : (on <=> s \notin input[i]) /\ Post(<<InputOf(i, s, on)>>)
  <2>1. CASE s \in input[i]
    <3>1. Post(<<InputOf(i, s, FALSE)>>)
      BY <2>1 DEF Report
    <3> QED  BY <2>1, <3>1
  <2>2. CASE s \notin input[i]
    <3>1. Post(<<InputOf(i, s, TRUE)>>)
      BY <2>2 DEF Report
    <3> QED  BY <2>2, <3>1
  <2> QED  BY <2>1, <2>2
<1> DEFINE m == InputOf(i, s, on)
<1>1. /\ m \in Message /\ m.kind = "input" /\ m.id = i /\ m.source = s
      /\ m.on <=> s \notin input[i]
  BY <1>0, Messages
<1>2. /\ UNCHANGED <<table, known, connected, held, coalesce, playerOf>>
      /\ \A j \in Ids \ {i} : input'[j] = input[j]
      /\ \A t \in Sources : t # s => (t \in input'[i] <=> t \in input[i])
      /\ s \in input'[i] <=> s \notin input[i]
      /\ mail \in Seq(Message)
  BY DEF TypeOK, Report, provider, events, players
<1>3. Post(<<m>>)
  BY <1>0
<1> HIDE DEF m
<1>4. /\ Extended /\ New = {Len(mail) + 1} /\ mail'[Len(mail) + 1] = m
  BY <1>1, <1>2, <1>3, ExtendedByOne
<1>5. /\ LinkFollows(i) /\ SightFollows(i) /\ LinkEnds(i)
      /\ \A t \in Sources : PressEnds(i, t)
  BY DEF DeviceInv
<1>6. \A p \in New : \A K \in {Link, Sight, {"connected"}} : ~ Is(mail'[p], i, K)
  BY <1>1, <1>4 DEF Is, Link, Sight
<1>7. LinkFollows(i)'
  BY <1>2, <1>4, <1>5, <1>6, LastKept, ExtendedPositions DEF LinkFollows
<1>8. SightFollows(i)'
  BY <1>2, <1>4, <1>5, <1>6, LastKept, ExtendedPositions DEF SightFollows
<1>9. LinkEnds(i)'
  BY <1>2, <1>4, <1>5, <1>6, LinkEndsKept
<1>10. ASSUME NEW t \in Sources PROVE PressEnds(i, t)'
  <2>1. CASE t # s
    <3>1. \A p \in New : ~ Presses(mail'[p], i, t)
      BY <1>1, <1>4, <2>1 DEF Presses
    <3> QED  BY <1>2, <1>4, <1>5, <2>1, <3>1, PressEndsKept
  <2>2. CASE t = s /\ s \notin input[i]
    <3>1. \A p \in New : Released(i, t, p)'
      BY <1>2, <2>2 DEF Released
    <3> QED  BY <1>2, <1>4, <1>5, <2>2, <3>1, PressEndsKept
  <2>3. CASE t = s /\ s \in input[i]
    <3>1. Releases(mail'[Len(mail) + 1], i, t)
      BY <1>1, <1>4, <2>3 DEF Releases
    <3>2. \A p \in Positions \cup {0} : Released(i, t, p)'
      BY <1>4, <3>1, ExtendedPositions DEF Released, New
    <3>3. \A p \in New : ~ Presses(mail'[p], i, t)
      BY <1>1, <1>4, <2>3 DEF Presses
    <3>4. \A p \in Positions' : p \in Positions \/ p \in New
      BY DEF New
    <3> QED  BY <3>2, <3>3, <3>4 DEF PressEnds
  <2> QED  BY <2>1, <2>2, <2>3
<1>11. \A p \in New : mail'[p].id = i
  BY <1>1, <1>4
<1> QED  BY <1>2, <1>4, <1>7, <1>8, <1>9, <1>10, <1>11, PostKeeps
-----------------------------------------------------------------------------
(* The steps of the backend's thread.                                      *)

LEMMA PostingKeeps ==
  ASSUME IInv, active, Extended, \A p \in New : WellFormed(mail'[p]),
         UNCHANGED <<active, provider, state, coalesce, events, players, tainted>>,
         table' \in [Ids -> {"gone", "known", "open"}],
         input' \in [Ids -> SUBSET Sources],
         \A i \in Ids : table'[i] # "open" => input'[i] = {},
         DeviceInv => DeviceInv'
  PROVE  IInv'
<1> USE DEF IInv
<1>1. TypeOK'
  BY DEF TypeOK, Extended, provider, events, players
<1>2. Lifecycle'
  <2>1. \A p \in Positions' : WellFormed(mail'[p])
    BY StillWellFormed DEF Lifecycle
  <2> QED  BY <2>1 DEF Lifecycle
<1>3. SlotsInverse'
  BY DEF SlotsInverse, players
<1>4. ~ tainted' => Fresh'
  BY DEF Fresh, Quiet, MergedWait, events
<1> QED  BY <1>1, <1>2, <1>3, <1>4

LEMMA FindKeeps == ASSUME IInv, NEW i \in Ids, Find(i) PROVE IInv'
<1>1. mail \in Seq(Message) /\ TypeOK /\ active
  BY DEF IInv, TypeOK, Find
<1>2. /\ About("unavailable", i) \in Message
      /\ WellFormed(About("unavailable", i))
      /\ Post(<<About("unavailable", i)>>)
  BY Messages DEF Find
<1>3. Extended /\ \A p \in New : WellFormed(mail'[p])
  BY <1>1, <1>2, ExtendedByOne
<1>4. DeviceInv => DeviceInv'
  BY <1>1, FindKeepsDevices
<1>5. /\ table' \in [Ids -> {"gone", "known", "open"}]
      /\ input' \in [Ids -> SUBSET Sources]
      /\ \A d \in Ids : table'[d] # "open" => input'[d] = {}
  BY DEF IInv, TypeOK, Lifecycle, Find
<1> QED  BY <1>1, <1>3, <1>4, <1>5, PostingKeeps DEF Find

LEMMA OpenKeeps == ASSUME IInv, NEW i \in Ids, Open(i) PROVE IInv'
<1>1. mail \in Seq(Message) /\ TypeOK /\ active
  BY DEF IInv, TypeOK, Open
<1>2. /\ About("connected", i) \in Message
      /\ WellFormed(About("connected", i))
      /\ Post(<<About("connected", i)>>)
  BY Messages DEF Open
<1>3. Extended /\ \A p \in New : WellFormed(mail'[p])
  BY <1>1, <1>2, ExtendedByOne
<1>4. DeviceInv => DeviceInv'
  BY <1>1, OpenKeepsDevices
<1>5. /\ table' \in [Ids -> {"gone", "known", "open"}]
      /\ input' \in [Ids -> SUBSET Sources]
      /\ \A d \in Ids : table'[d] # "open" => input'[d] = {}
  BY DEF IInv, TypeOK, Lifecycle, Open
<1> QED  BY <1>1, <1>3, <1>4, <1>5, PostingKeeps DEF Open

LEMMA CloseKeeps == ASSUME IInv, NEW i \in Ids, Close(i) PROVE IInv'
<1>1. mail \in Seq(Message) /\ TypeOK /\ active
  BY DEF IInv, TypeOK, Close
<1>2. /\ About("disconnected", i) \in Message /\ About("unavailable", i) \in Message
      /\ WellFormed(About("disconnected", i)) /\ WellFormed(About("unavailable", i))
  BY Messages
<1>3. Extended /\ \A p \in New : WellFormed(mail'[p])
  <2>1. CASE Post(<<About("disconnected", i)>>)
    BY <1>1, <1>2, <2>1, ExtendedByOne
  <2>2. CASE Post(<<About("disconnected", i), About("unavailable", i)>>)
    BY <1>1, <1>2, <2>2, ExtendedByTwo
  <2> QED  BY <2>1, <2>2 DEF Close
<1>4. DeviceInv => DeviceInv'
  BY <1>1, CloseKeepsDevices
<1>5. /\ table' \in [Ids -> {"gone", "known", "open"}]
      /\ input' \in [Ids -> SUBSET Sources]
      /\ \A d \in Ids : table'[d] # "open" => input'[d] = {}
  BY DEF IInv, TypeOK, Lifecycle, Close
<1> QED  BY <1>1, <1>3, <1>4, <1>5, PostingKeeps DEF Close

LEMMA RemoveKeeps == ASSUME IInv, NEW i \in Ids, Remove(i) PROVE IInv'
<1>1. mail \in Seq(Message) /\ TypeOK /\ Lifecycle /\ active
  BY DEF IInv, TypeOK, Remove
<1>2. /\ About("disconnected", i) \in Message /\ About("removed", i) \in Message
      /\ WellFormed(About("disconnected", i)) /\ WellFormed(About("removed", i))
  BY Messages
<1>3. Extended /\ \A p \in New : WellFormed(mail'[p])
  <2>1. CASE Post(<<About("removed", i)>>)
    BY <1>1, <1>2, <2>1, ExtendedByOne
  <2>2. CASE Post(<<About("disconnected", i), About("removed", i)>>)
    BY <1>1, <1>2, <2>2, ExtendedByTwo
  <2> QED  BY <2>1, <2>2 DEF Remove
<1>4. DeviceInv => DeviceInv'
  BY <1>1, RemoveKeepsDevices
<1>5. /\ table' \in [Ids -> {"gone", "known", "open"}]
      /\ input' \in [Ids -> SUBSET Sources]
      /\ \A d \in Ids : table'[d] # "open" => input'[d] = {}
  BY DEF IInv, TypeOK, Lifecycle, Remove
<1> QED  BY <1>1, <1>3, <1>4, <1>5, PostingKeeps DEF Remove

LEMMA ReportKeeps ==
  ASSUME IInv, NEW i \in Ids, NEW s \in Sources, Report(i, s) PROVE IInv'
<1>1. mail \in Seq(Message) /\ TypeOK /\ active
  BY DEF IInv, TypeOK, Report
<1>2. PICK on \in BOOLEAN : Post(<<InputOf(i, s, on)>>)
  BY DEF Report
<1>3. Extended /\ \A p \in New : WellFormed(mail'[p])
  BY <1>1, <1>2, Messages, ExtendedByOne
<1>4. DeviceInv => DeviceInv'
  BY <1>1, ReportKeepsDevices
<1>5. /\ table' \in [Ids -> {"gone", "known", "open"}]
      /\ input' \in [Ids -> SUBSET Sources]
      /\ \A d \in Ids : table'[d] # "open" => input'[d] = {}
  BY DEF IInv, TypeOK, Lifecycle, Report
<1> QED  BY <1>1, <1>3, <1>4, <1>5, PostingKeeps DEF Report

-----------------------------------------------------------------------------
(* The deliveries.                                                         *)

ProviderTypes == known \in SUBSET Ids /\ connected \in SUBSET Ids

EventTypes ==
  /\ mappers \in SUBSET Ids
  /\ held \in [Ids -> SUBSET Sources]
  /\ pending \in SUBSET (Ids \X Coalescable \X BOOLEAN)
  /\ timers \in SUBSET Coalescable

PlayerTypes ==
  /\ assigned \in [Slots -> Ids \cup {NoDevice}]
  /\ playerOf \in [Ids -> Slots \cup {NoSlot}]

LEMMA DeliveryKeeps ==
  ASSUME IInv, mail # <<>>, mail' = Tail(mail),
         UNCHANGED <<backend, state, coalesce, tainted>>,
         ProviderTypes', EventTypes', PlayerTypes', SlotsInverse',
         MergedWait => MergedWait',
         NEW m \in Message, m = Head(mail),
         \A i \in Ids :
           /\ Is(m, i, Link) => (i \in connected' <=> m.kind = "connected")
           /\ ~ Is(m, i, Link) => (i \in connected' <=> i \in connected)
           /\ Is(m, i, Sight) => (i \in known' <=> m.kind # "removed")
           /\ ~ Is(m, i, Sight) => (i \in known' <=> i \in known)
           /\ playerOf'[i] # NoSlot =>
                playerOf[i] # NoSlot /\ ~ Is(m, i, {"disconnected"})
           /\ \A s \in Sources : s \in held'[i] /\ s \notin coalesce =>
                Presses(m, i, s) \/ (s \in held[i] /\ ~ Releases(m, i, s))
  PROVE  IInv'
<1> USE DEF IInv
<1>1. TypeOK'
  <2>1. mail' \in Seq(Message)
    BY Taken DEF TypeOK
  <2> QED  BY <2>1 DEF TypeOK, backend, ProviderTypes, EventTypes, PlayerTypes
<1>2. Lifecycle'
  <2>1. \A p \in Positions' : p + 1 \in Positions /\ mail'[p] = mail[p + 1]
    BY Taken DEF TypeOK
  <2> QED  BY <2>1 DEF Lifecycle, backend
<1>3. ASSUME ~ tainted' PROVE Fresh'
  <2>1. Fresh
    BY <1>3
  <2>2. Quiet'
    BY <2>1 DEF Fresh, Quiet, backend
  <2>3. ASSUME NEW i \in Ids
        PROVE  /\ LinkFollows(i)' /\ SightFollows(i)' /\ LinkEnds(i)'
               /\ \A s \in Sources : PressEnds(i, s)'
    <3>1. /\ LinkFollows(i) /\ SightFollows(i) /\ LinkEnds(i)
          /\ \A s \in Sources : PressEnds(i, s)
      BY <2>1 DEF Fresh, DeviceInv
    <3>2. mail \in Seq(Message) /\ UNCHANGED <<table, input, coalesce>>
      BY DEF TypeOK, backend
    <3> QED  BY <3>1, <3>2, Delivered
  <2> QED  BY <2>1, <2>2, <2>3 DEF Fresh, DeviceInv
<1> QED  BY <1>1, <1>2, <1>3

LEMMA HeadKnown ==
  ASSUME IInv, mail # <<>>
  PROVE  Head(mail) \in Message /\ WellFormed(Head(mail))
<1>1. 1 \in Positions /\ Head(mail) = mail[1] /\ mail[1] \in Message
  BY DEF IInv, TypeOK, Positions
<1> QED  BY <1>1 DEF IInv, Lifecycle

LEMMA DeliverInputKeeps == IInv /\ DeliverInput => IInv'
<1> SUFFICES ASSUME IInv, DeliverInput PROVE IInv'
  OBVIOUS
<1> DEFINE m == Head(mail)
<1>1. /\ m \in Message /\ m.kind = "input" /\ m.source \in Sources /\ m.id \in Ids
      /\ m.on \in BOOLEAN
  BY HeadKnown DEF DeliverInput, WellFormed, Message
<1>2. /\ mail # <<>> /\ mail' = Tail(mail)
      /\ UNCHANGED <<backend, provider, state, coalesce, players, tainted>>
      /\ IF m.source \in coalesce
           THEN /\ pending' = Coalesced(m.id, m.source, m.on)
                /\ timers' = timers \cup {m.source}
                /\ UNCHANGED <<mappers, held>>
           ELSE /\ mappers' = mappers \cup {m.id}
                /\ held' = Pressed(held, m.id, m.source, m.on)
                /\ UNCHANGED <<pending, timers>>
  BY DEF DeliverInput
<1> HIDE DEF m
<1>3. ProviderTypes' /\ PlayerTypes' /\ SlotsInverse'
  BY <1>2 DEF IInv, TypeOK, ProviderTypes, PlayerTypes, SlotsInverse, provider, players
<1>4. EventTypes' /\ (MergedWait => MergedWait')
  <2>1. CASE m.source \in coalesce
    <3>1. <<m.id, m.source, m.on>> \in Ids \X Coalescable \X BOOLEAN
      BY <1>1, <2>1 DEF IInv, TypeOK
    <3>2. <<m.id, m.source, m.on>>[2] = m.source
      OBVIOUS
    <3>3. EventTypes'
      BY <1>1, <1>2, <2>1, <3>1 DEF Coalesced, IInv, TypeOK, EventTypes
    <3>4. ASSUME MergedWait PROVE MergedWait'
      BY <1>2, <2>1, <3>2, <3>4 DEF Coalesced, MergedWait
    <3> QED  BY <3>3, <3>4
  <2>2. CASE m.source \notin coalesce
    BY <1>1, <1>2, <2>2 DEF Pressed, IInv, TypeOK, EventTypes, MergedWait
  <2> QED  BY <2>1, <2>2
<1>5. ASSUME NEW i \in Ids
      PROVE  /\ ~ Is(m, i, Link) /\ ~ Is(m, i, Sight) /\ ~ Is(m, i, {"disconnected"})
             /\ \A s \in Sources : s \in held'[i] /\ s \notin coalesce =>
                  Presses(m, i, s) \/ (s \in held[i] /\ ~ Releases(m, i, s))
  <2>1. ~ Is(m, i, Link) /\ ~ Is(m, i, Sight) /\ ~ Is(m, i, {"disconnected"})
    BY <1>1 DEF Is, Link, Sight
  <2>2. ASSUME NEW s \in Sources, s \in held'[i], s \notin coalesce
        PROVE  Presses(m, i, s) \/ (s \in held[i] /\ ~ Releases(m, i, s))
    <3>1. held \in [Ids -> SUBSET Sources]
      BY DEF IInv, TypeOK
    <3>2. CASE m.source \in coalesce
      BY <1>1, <1>2, <2>2, <3>2 DEF Releases
    <3>3. CASE m.source \notin coalesce
      BY <1>1, <1>2, <2>2, <3>1, <3>3 DEF Pressed, Releases, Presses
    <3> QED  BY <3>2, <3>3
  <2> QED  BY <2>1, <2>2
<1>6. connected' = connected /\ known' = known /\ playerOf' = playerOf /\ m = Head(mail)
  BY <1>2 DEF provider, players, m
<1> QED  BY <1>1, <1>2, <1>3, <1>4, <1>5, <1>6, DeliveryKeeps
(* A message about a device other than input has no source.                *)
LEMMA NewsIsNoInput ==
  ASSUME NEW m \in Message, WellFormed(m), m.kind # "input",
         NEW i \in Ids, NEW s \in Sources
  PROVE  /\ ~ Presses(m, i, s)
         /\ Releases(m, i, s) => Is(m, i, {"disconnected"})
  BY ConstantsAssumption DEF WellFormed, Presses, Releases, Is

LEMMA DeliverAvailabilityKeeps == IInv /\ DeliverAvailability => IInv'
<1> SUFFICES ASSUME IInv, DeliverAvailability PROVE IInv'
  OBVIOUS
<1> DEFINE m == Head(mail)
<1>1. /\ m \in Message /\ WellFormed(m) /\ m.kind \in {"unavailable", "removed"}
      /\ m.id \in Ids
  BY HeadKnown DEF DeliverAvailability, Message
<1>2. /\ mail # <<>> /\ mail' = Tail(mail)
      /\ UNCHANGED <<backend, state, coalesce, events, players, tainted>>
      /\ IF m.kind = "removed"
           THEN known' = known \ {m.id} /\ connected' = connected \ {m.id}
           ELSE known' = known \cup {m.id} /\ UNCHANGED connected
  BY DEF DeliverAvailability
<1>3. m = Head(mail)
  OBVIOUS
<1> HIDE DEF m
<1>4. ProviderTypes' /\ EventTypes' /\ PlayerTypes' /\ SlotsInverse'
  BY <1>1, <1>2 DEF IInv, TypeOK, ProviderTypes, EventTypes, PlayerTypes,
     SlotsInverse, events, players
<1>5. MergedWait => MergedWait'
  BY <1>2 DEF MergedWait, events
<1>6. held' = held /\ playerOf' = playerOf
  BY <1>2 DEF events, players
<1>7. ASSUME NEW i \in Ids
      PROVE  /\ Is(m, i, Link) => (i \in connected' <=> m.kind = "connected")
             /\ ~ Is(m, i, Link) => (i \in connected' <=> i \in connected)
             /\ Is(m, i, Sight) => (i \in known' <=> m.kind # "removed")
             /\ ~ Is(m, i, Sight) => (i \in known' <=> i \in known)
             /\ ~ Is(m, i, {"disconnected"})
             /\ \A s \in Sources : ~ Releases(m, i, s)
  <2>1. ~ Is(m, i, {"disconnected"})
    BY <1>1 DEF Is
  <2>2. \A s \in Sources : ~ Releases(m, i, s)
    BY <1>1, <2>1, NewsIsNoInput
  <2>3. CASE m.kind = "removed"
    BY <1>2, <2>1, <2>2, <2>3 DEF Is, Link, Sight
  <2>4. CASE m.kind = "unavailable"
    BY <1>2, <2>1, <2>2, <2>4 DEF Is, Link, Sight
  <2> QED  BY <1>1, <2>3, <2>4
<1> QED  BY <1>1, <1>2, <1>3, <1>4, <1>5, <1>6, <1>7, DeliveryKeeps

LEMMA DeliverConnectedKeeps == IInv /\ DeliverConnected => IInv'
<1> SUFFICES ASSUME IInv, DeliverConnected PROVE IInv'
  OBVIOUS
<1> DEFINE m == Head(mail)
<1>1. /\ m \in Message /\ WellFormed(m) /\ m.kind = "connected" /\ m.id \in Ids
  BY HeadKnown DEF DeliverConnected, Message
<1>2. /\ mail # <<>> /\ mail' = Tail(mail)
      /\ UNCHANGED <<backend, state, coalesce, events, players, tainted>>
      /\ known' = known \cup {m.id} /\ connected' = connected \cup {m.id}
  BY DEF DeliverConnected
<1>3. m = Head(mail)
  OBVIOUS
<1> HIDE DEF m
<1>4. ProviderTypes' /\ EventTypes' /\ PlayerTypes' /\ SlotsInverse'
  BY <1>1, <1>2 DEF IInv, TypeOK, ProviderTypes, EventTypes, PlayerTypes,
     SlotsInverse, events, players
<1>5. MergedWait => MergedWait'
  BY <1>2 DEF MergedWait, events
<1>6. held' = held /\ playerOf' = playerOf
  BY <1>2 DEF events, players
<1>7. ASSUME NEW i \in Ids
      PROVE  /\ Is(m, i, Link) => (i \in connected' <=> m.kind = "connected")
             /\ ~ Is(m, i, Link) => (i \in connected' <=> i \in connected)
             /\ Is(m, i, Sight) => (i \in known' <=> m.kind # "removed")
             /\ ~ Is(m, i, Sight) => (i \in known' <=> i \in known)
             /\ ~ Is(m, i, {"disconnected"})
             /\ \A s \in Sources : ~ Releases(m, i, s)
  <2>1. ~ Is(m, i, {"disconnected"})
    BY <1>1 DEF Is
  <2>2. \A s \in Sources : ~ Releases(m, i, s)
    BY <1>1, <2>1, NewsIsNoInput
  <2> QED  BY <1>1, <1>2, <2>1, <2>2 DEF Is, Link, Sight
<1> QED  BY <1>1, <1>2, <1>3, <1>4, <1>5, <1>6, <1>7, DeliveryKeeps

(* Freeing the slot of a device keeps the two tables each other's inverse. *)
LEMMA FreedKeeps ==
  ASSUME PlayerTypes, SlotsInverse, NEW i \in Ids, Freed(i)
  PROVE  /\ PlayerTypes' /\ SlotsInverse' /\ playerOf'[i] = NoSlot
         /\ \A j \in Ids : playerOf'[j] # NoSlot => j # i /\ playerOf[j] # NoSlot
<1>1. NoDevice \notin Ids /\ NoSlot \notin Slots
  BY ConstantsAssumption DEF NoSlot, Slots
<1> QED  BY <1>1 DEF PlayerTypes, SlotsInverse, Freed

LEMMA DeliverDisconnectedKeeps == IInv /\ DeliverDisconnected => IInv'
<1> SUFFICES ASSUME IInv, DeliverDisconnected PROVE IInv'
  OBVIOUS
<1> DEFINE m == Head(mail)
<1>1. /\ m \in Message /\ WellFormed(m) /\ m.kind = "disconnected" /\ m.id \in Ids
  BY HeadKnown DEF DeliverDisconnected, Message
<1>2. /\ mail # <<>> /\ mail' = Tail(mail)
      /\ UNCHANGED <<backend, known, state, coalesce, pending, timers, tainted>>
      /\ connected' = connected \ {m.id}
      /\ mappers' = mappers \ {m.id}
      /\ held' = [held EXCEPT ![m.id] = {}]
      /\ Freed(m.id)
  BY DEF DeliverDisconnected
<1>3. m = Head(mail)
  OBVIOUS
<1> HIDE DEF m
<1>4. ProviderTypes' /\ EventTypes'
  BY <1>1, <1>2 DEF IInv, TypeOK, ProviderTypes, EventTypes
<1>5. /\ PlayerTypes' /\ SlotsInverse'
      /\ \A j \in Ids : playerOf'[j] # NoSlot => j # m.id /\ playerOf[j] # NoSlot
  BY <1>1, <1>2, FreedKeeps DEF IInv, TypeOK, PlayerTypes
<1>6. MergedWait => MergedWait'
  BY <1>2 DEF MergedWait
<1>7. ASSUME NEW i \in Ids
      PROVE  /\ Is(m, i, Link) => (i \in connected' <=> m.kind = "connected")
             /\ ~ Is(m, i, Link) => (i \in connected' <=> i \in connected)
             /\ ~ Is(m, i, Sight)
             /\ playerOf'[i] # NoSlot =>
                  playerOf[i] # NoSlot /\ ~ Is(m, i, {"disconnected"})
             /\ \A s \in Sources : s \in held'[i] =>
                  s \in held[i] /\ ~ Releases(m, i, s)
  <2>1. /\ Is(m, i, Link) => (i \in connected' <=> m.kind = "connected")
        /\ ~ Is(m, i, Link) => (i \in connected' <=> i \in connected)
        /\ ~ Is(m, i, Sight)
    BY <1>1, <1>2 DEF Is, Link, Sight
  <2>2. playerOf'[i] # NoSlot => playerOf[i] # NoSlot /\ ~ Is(m, i, {"disconnected"})
    BY <1>5 DEF Is
  <2>3. \A s \in Sources : s \in held'[i] => s \in held[i] /\ i # m.id
    BY <1>1, <1>2 DEF IInv, TypeOK
  <2>4. \A s \in Sources : i # m.id => ~ Releases(m, i, s)
    BY DEF Releases
  <2> QED  BY <2>1, <2>2, <2>3, <2>4
<1>8. \A i \in Ids : i \in known' <=> i \in known
  BY <1>2
<1> QED  BY <1>1, <1>2, <1>3, <1>4, <1>5, <1>6, <1>7, <1>8, DeliveryKeeps

-----------------------------------------------------------------------------
(* What changes neither queue nor backend: the devices' part is kept when  *)
(* caches, players and held sources stay or become fewer.                  *)
LEMMA LocalStepKeeps ==
  ASSUME IInv, UNCHANGED <<backend, mail, state, coalesce, provider, tainted>>,
         EventTypes', PlayerTypes', SlotsInverse',
         MergedWait => MergedWait',
         ~ tainted /\ ~ active => pending' = {} /\ held' = held,
         \A i \in Ids : playerOf'[i] # NoSlot => playerOf[i] # NoSlot \/ i \in connected,
         ~ tainted => \A i \in Ids, s \in Sources :
           s \in held'[i] /\ s \notin coalesce => s \in held[i]
  PROVE  IInv'
<1> USE DEF IInv
<1>1. TypeOK'
  BY DEF TypeOK, backend, provider, EventTypes, PlayerTypes
<1>2. Lifecycle'
  BY DEF Lifecycle, backend, Positions
<1>3. ASSUME ~ tainted' PROVE Fresh'
  <2>1. Fresh /\ ~ tainted
    BY <1>3
  <2>2. Quiet'
    BY <2>1 DEF Fresh, Quiet, backend, provider
  <2>3. ASSUME NEW i \in Ids
        PROVE  /\ LinkFollows(i)' /\ SightFollows(i)' /\ LinkEnds(i)'
               /\ \A s \in Sources : PressEnds(i, s)'
    <3>1. /\ LinkFollows(i) /\ SightFollows(i) /\ LinkEnds(i)
          /\ \A s \in Sources : PressEnds(i, s)
      BY <2>1 DEF Fresh, DeviceInv
    <3>2. /\ Positions' = Positions /\ mail' = mail /\ table' = table /\ input' = input
          /\ known' = known /\ connected' = connected /\ coalesce' = coalesce
      BY DEF Positions, backend, provider
    <3>3. LinkFollows(i)' /\ SightFollows(i)'
      BY <3>1, <3>2 DEF LinkFollows, SightFollows, LastOf
    <3>4. \A p : Ends(i, p)' <=> Ends(i, p)
      BY <3>2 DEF Ends
    <3>5. LinkEnds(i)'
      BY <3>1, <3>2, <3>4 DEF LinkEnds
    <3>6. ASSUME NEW s \in Sources PROVE PressEnds(i, s)'
      <4>1. \A p : Released(i, s, p)' <=> Released(i, s, p)
        BY <3>2 DEF Released
      <4>2. PressEnds(i, s)
        BY <3>1
      <4>3. s \in held'[i] /\ s \notin coalesce => s \in held[i]
        BY <2>1
      <4> QED  BY <3>2, <4>1, <4>2, <4>3 DEF PressEnds
    <3> QED  BY <3>3, <3>5, <3>6
  <2> QED  BY <2>1, <2>2, <2>3 DEF Fresh, DeviceInv
<1> QED  BY <1>1, <1>2, <1>3

LEMMA FlushKeeps == ASSUME IInv, NEW s \in Sources, Flush(s) PROVE IInv'
<1> DEFINE flushed == {e \in pending : e[2] = s}
<1>1. /\ UNCHANGED <<backend, mail, provider, state, coalesce, players, tainted>>
      /\ timers' = timers \ {s}
      /\ pending' = pending \ flushed
      /\ mappers' = mappers \cup {e[1] : e \in flushed}
      /\ held' = [i \in Ids |->
                    IF <<i, s, TRUE>> \in flushed THEN held[i] \cup {s}
                    ELSE IF <<i, s, FALSE>> \in flushed THEN held[i] \ {s}
                    ELSE held[i]]
  BY DEF Flush
<1>2. \A e \in pending : e[1] \in Ids /\ e[2] \in Coalescable
  BY DEF IInv, TypeOK
<1>3. EventTypes'
  <2>1. mappers' \in SUBSET Ids
    BY <1>1, <1>2 DEF IInv, TypeOK
  <2>2. held' \in [Ids -> SUBSET Sources]
    BY <1>1 DEF IInv, TypeOK
  <2> QED  BY <1>1, <2>1, <2>2 DEF IInv, TypeOK, EventTypes
<1>4. PlayerTypes' /\ SlotsInverse' /\ playerOf' = playerOf
  BY <1>1 DEF IInv, TypeOK, PlayerTypes, SlotsInverse, players
<1>5. MergedWait => MergedWait'
  BY <1>1 DEF MergedWait
<1>6. ASSUME ~ tainted
      PROVE  \A i \in Ids, t \in Sources :
               t \in held'[i] /\ t \notin coalesce => t \in held[i]
  <2>1. \A e \in flushed : s \in coalesce
    BY <1>6 DEF IInv, Fresh, MergedWait
  <2>2. ASSUME NEW i \in Ids, NEW t \in Sources, t \in held'[i], t \notin coalesce
        PROVE  t \in held[i]
    <3>1. CASE <<i, s, TRUE>> \in flushed
      BY <1>1, <2>1, <2>2, <3>1
    <3>2. CASE <<i, s, TRUE>> \notin flushed
      BY <1>1, <2>2, <3>2
    <3> QED  BY <3>1, <3>2
  <2> QED  BY <2>2
<1>7. ASSUME ~ tainted, ~ active PROVE pending' = {} /\ held' = held
  <2>1. pending = {}
    BY <1>7 DEF IInv, Fresh, Quiet
  <2>2. \A i \in Ids : held'[i] = held[i]
    BY <1>1, <2>1
  <2> QED  BY <1>1, <2>1, <2>2 DEF IInv, TypeOK
<1> HIDE DEF flushed
<1> QED  BY <1>1, <1>3, <1>4, <1>5, <1>6, <1>7, LocalStepKeeps

LEMMA AssignPlayerKeeps == ASSUME IInv, NEW i \in Ids, AssignPlayer(i) PROVE IInv'
<1>1. PICK n \in FreeSlots : /\ assigned' = [assigned EXCEPT ![n] = i]
                             /\ playerOf' = [playerOf EXCEPT ![i] = n]
  BY DEF AssignPlayer
<1>2. /\ UNCHANGED <<backend, mail, provider, state, coalesce, events, tainted>>
      /\ playerOf[i] = NoSlot /\ i \in connected
  BY DEF AssignPlayer
<1>3. n \in Slots /\ assigned[n] = NoDevice
  BY <1>1 DEF FreeSlots
<1>4. NoDevice \notin Ids /\ NoSlot \notin Slots
  BY ConstantsAssumption DEF NoSlot, Slots
<1>5. PlayerTypes'
  BY <1>1, <1>3 DEF IInv, TypeOK, PlayerTypes
<1>6. SlotsInverse'
  BY <1>1, <1>2, <1>3, <1>4 DEF IInv, TypeOK, SlotsInverse
<1>7. EventTypes' /\ held' = held /\ (MergedWait => MergedWait') /\ pending' = pending
  BY <1>2 DEF IInv, TypeOK, EventTypes, MergedWait, events
<1>8. ~ tainted /\ ~ active => pending' = {}
  BY <1>7 DEF IInv, Fresh, Quiet
<1>9. \A j \in Ids : playerOf'[j] # NoSlot => playerOf[j] # NoSlot \/ j \in connected
  BY <1>1, <1>2 DEF IInv, TypeOK
<1> QED  BY <1>2, <1>5, <1>6, <1>7, <1>8, <1>9, LocalStepKeeps

LEMMA UnassignPlayerKeeps ==
  ASSUME IInv, NEW i \in Ids, UnassignPlayer(i) PROVE IInv'
<1>1. /\ UNCHANGED <<backend, mail, provider, state, coalesce, events, tainted>>
      /\ Freed(i)
  BY DEF UnassignPlayer
<1>2. /\ PlayerTypes' /\ SlotsInverse'
      /\ \A j \in Ids : playerOf'[j] # NoSlot => playerOf[j] # NoSlot
  BY <1>1, FreedKeeps DEF IInv, TypeOK, PlayerTypes
<1>3. EventTypes' /\ held' = held /\ (MergedWait => MergedWait') /\ pending' = pending
  BY <1>1 DEF IInv, TypeOK, EventTypes, MergedWait, events
<1>4. ~ tainted /\ ~ active => pending' = {}
  BY <1>3 DEF IInv, Fresh, Quiet
<1> QED  BY <1>1, <1>2, <1>3, <1>4, LocalStepKeeps
-----------------------------------------------------------------------------
(* Configuration, start and stop.                                          *)

LEMMA DevicesSame ==
  ASSUME DeviceInv,
         UNCHANGED <<table, input, mail, known, connected, held, coalesce, playerOf>>
  PROVE  DeviceInv'
<1> SUFFICES ASSUME NEW i \in Ids
             PROVE  /\ LinkFollows(i)' /\ SightFollows(i)' /\ LinkEnds(i)'
                    /\ \A s \in Sources : PressEnds(i, s)'
  BY DEF DeviceInv
<1>1. /\ LinkFollows(i) /\ SightFollows(i) /\ LinkEnds(i)
      /\ \A s \in Sources : PressEnds(i, s)
  BY DEF DeviceInv
<1>2. Positions' = Positions
  BY DEF Positions
<1>3. LinkFollows(i)' /\ SightFollows(i)'
  BY <1>1, <1>2 DEF LinkFollows, SightFollows, LastOf
<1>4. LinkEnds(i)'
  BY <1>1, <1>2 DEF LinkEnds, Ends
<1>5. \A s \in Sources : PressEnds(i, s)'
  BY <1>1, <1>2 DEF PressEnds, Released
<1> QED  BY <1>3, <1>4, <1>5

LEMMA SetRuntimeConfigKeeps ==
  ASSUME IInv, NEW c \in SUBSET Coalescable, SetRuntimeConfig(c) PROVE IInv'
<1>1. /\ state = "Stopped" /\ coalesce' = c
      /\ UNCHANGED <<active, table, input, mail, known, connected, state, mappers,
                     held, pending, timers, assigned, playerOf, tainted>>
      /\ Positions' = Positions
  BY DEF SetRuntimeConfig, backend, provider, events, players, Positions
<1>2. TypeOK' /\ SlotsInverse' /\ Lifecycle'
  <2>1. TypeOK'
    BY <1>1 DEF IInv, TypeOK
  <2>2. SlotsInverse' /\ Lifecycle'
    BY <1>1 DEF IInv, SlotsInverse, Lifecycle
  <2> QED  BY <2>1, <2>2
<1>3. ASSUME ~ tainted' PROVE Fresh'
  <2>1. Fresh /\ ~ active
    BY <1>1, <1>3 DEF IInv, Lifecycle
  <2>2. /\ mail = <<>> /\ pending = {} /\ \A i \in Ids : held[i] = {}
        /\ Quiet'
    BY <1>1, <2>1 DEF Fresh, Quiet
  <2>3. Positions = {}
    BY <2>2 DEF Positions
  <2>4. ASSUME NEW i \in Ids
        PROVE  /\ LinkFollows(i)' /\ SightFollows(i)' /\ LinkEnds(i)'
               /\ \A s \in Sources : PressEnds(i, s)'
    <3>1. LinkFollows(i) /\ SightFollows(i) /\ LinkEnds(i)
      BY <2>1 DEF Fresh, DeviceInv
    <3>2. LinkFollows(i)' /\ SightFollows(i)'
      BY <1>1, <2>3, <3>1 DEF LinkFollows, SightFollows
    <3>3. LinkEnds(i)'
      BY <1>1, <2>3, <3>1 DEF LinkEnds, Ends
    <3>4. \A s \in Sources : PressEnds(i, s)'
      BY <1>1, <2>2, <2>3 DEF PressEnds
    <3> QED  BY <3>2, <3>3, <3>4
  <2> QED  BY <1>1, <2>2, <2>4 DEF Fresh, DeviceInv, MergedWait
<1> QED  BY <1>2, <1>3 DEF IInv

(* Both outcomes of start() up to the snapshot.                            *)
LEMMA StartKeeps ==
  ASSUME IInv, StartBackend \/ StartFails PROVE IInv'
<1>1. /\ state \in {"Stopped", "Failed"} /\ known' = {} /\ connected' = {}
      /\ \/ active' = TRUE /\ state' = "Starting"
         \/ active' = active /\ state' = "Failed"
      /\ UNCHANGED <<table, input, mail, coalesce, mappers, held, pending, timers,
                     assigned, playerOf, tainted>>
      /\ Positions' = Positions
  BY DEF StartBackend, StartFails, backend, events, players, Positions
<1>2. ~ active
  BY <1>1 DEF IInv, Lifecycle
<1>3. TypeOK' /\ SlotsInverse' /\ Lifecycle'
  <2>1. TypeOK'
    BY <1>1, <1>2 DEF IInv, TypeOK
  <2>2. SlotsInverse' /\ Lifecycle'
    BY <1>1, <1>2 DEF IInv, SlotsInverse, Lifecycle
  <2> QED  BY <2>1, <2>2
<1>4. ASSUME ~ tainted' PROVE Fresh'
  <2>1. Fresh /\ known = {} /\ connected = {} /\ Quiet'
    BY <1>1, <1>2, <1>4 DEF IInv, Fresh, Quiet
  <2>2. DeviceInv'
    BY <1>1, <2>1, DevicesSame DEF Fresh
  <2> QED  BY <1>1, <2>1, <2>2 DEF Fresh, MergedWait
<1> QED  BY <1>3, <1>4 DEF IInv

(* The snapshot is what the queue still says.                              *)
LEMMA SnapshotKeeps == IInv /\ Snapshot => IInv'
<1> SUFFICES ASSUME IInv, Snapshot PROVE IInv'
  OBVIOUS
<1>1. /\ state = "Starting" /\ state' = "Running"
      /\ known' = {i \in Ids : table[i] # "gone"}
      /\ connected' = {i \in Ids : table[i] = "open"}
      /\ UNCHANGED <<active, table, input, mail, coalesce, mappers, held, pending,
                     timers, assigned, playerOf, tainted>>
      /\ Positions' = Positions
  BY DEF Snapshot, backend, events, players, Positions
<1>2. active /\ active'
  BY <1>1 DEF IInv, Lifecycle
<1>3. TypeOK' /\ SlotsInverse' /\ Lifecycle'
  <2>1. TypeOK'
    BY <1>1 DEF IInv, TypeOK
  <2>2. SlotsInverse' /\ Lifecycle'
    BY <1>1 DEF IInv, SlotsInverse, Lifecycle
  <2> QED  BY <2>1, <2>2
<1>4. ASSUME ~ tainted' PROVE Fresh'
  <2>1. Fresh
    BY <1>1, <1>4 DEF IInv
  <2>2. ASSUME NEW i \in Ids
        PROVE  /\ LinkFollows(i)' /\ SightFollows(i)' /\ LinkEnds(i)'
               /\ \A s \in Sources : PressEnds(i, s)'
    <3>1. /\ LinkFollows(i) /\ SightFollows(i) /\ LinkEnds(i)
          /\ \A s \in Sources : PressEnds(i, s)
      BY <2>1 DEF Fresh, DeviceInv
    <3>2. /\ i \in connected' <=> table[i] = "open"
          /\ i \in known' <=> table[i] # "gone"
      BY <1>1
    <3>3. LinkFollows(i)' /\ SightFollows(i)'
      BY <1>1, <3>1, <3>2 DEF LinkFollows, SightFollows, LastOf
    <3>4. LinkEnds(i)'
      BY <1>1, <3>1, <3>2 DEF LinkEnds, Ends
    <3>5. \A s \in Sources : PressEnds(i, s)'
      BY <1>1, <3>1 DEF PressEnds, Released
    <3> QED  BY <3>3, <3>4, <3>5
  <2> QED  BY <1>1, <1>2, <2>1, <2>2 DEF Fresh, DeviceInv, Quiet, MergedWait
<1> QED  BY <1>3, <1>4 DEF IInv

LEMMA StopKeeps == IInv /\ Stop => IInv'
<1> SUFFICES ASSUME IInv, Stop PROVE IInv'
  OBVIOUS
<1>1. /\ state \in {"Running", "Failed"} /\ state' = "Stopped"
      /\ pending' = {} /\ mappers' = {}
      /\ held' = [i \in Ids |-> {}]
      /\ assigned' = [n \in Slots |-> NoDevice]
      /\ playerOf' = [i \in Ids |-> IF \E n \in Slots : assigned[n] = i
                                    THEN NoSlot ELSE playerOf[i]]
      /\ UNCHANGED <<mail, coalesce, timers>>
      /\ Positions' = Positions
  BY DEF Stop, ClearActionMappers, ClearPlayerAssignments, Positions
<1>2. /\ active' = FALSE
      /\ \A i \in Ids : table'[i] = "gone" /\ input'[i] = {}
      /\ table' \in [Ids -> {"gone", "known", "open"}]
      /\ input' \in [Ids -> SUBSET Sources]
      /\ known' \in SUBSET Ids /\ connected' \in SUBSET Ids
      /\ tainted' \in BOOLEAN
      /\ ~ tainted' => mail = <<>> /\ known' = {} /\ connected' = {}
  <2>1. CASE state = "Running"
    BY <2>1 DEF Stop, ProviderStop
  <2>2. CASE state = "Failed"
    <3>1. ~ active /\ UNCHANGED <<active, table, input, known, connected, tainted>>
      BY <2>2 DEF Stop, IInv, Lifecycle, backend, provider
    <3>2. \A i \in Ids : table[i] = "gone" /\ input[i] = {}
      BY <3>1 DEF IInv, Lifecycle
    <3>3. ~ tainted => mail = <<>> /\ known = {} /\ connected = {}
      BY <3>1 DEF IInv, Fresh, Quiet
    <3> QED  BY <3>1, <3>2, <3>3 DEF IInv, TypeOK
  <2> QED  BY <1>1, <2>1, <2>2
<1>3. \A i \in Ids : playerOf'[i] = NoSlot
  BY <1>1 DEF IInv, TypeOK, SlotsInverse
<1>4. TypeOK'
  BY <1>1, <1>2 DEF IInv, TypeOK
<1>5. SlotsInverse'
  <2>1. NoDevice \notin Ids /\ NoSlot \notin Slots
    BY ConstantsAssumption DEF NoSlot, Slots
  <2> QED  BY <1>1, <1>3, <2>1 DEF SlotsInverse
<1>6. Lifecycle'
  BY <1>1, <1>2 DEF IInv, Lifecycle
<1>7. ASSUME ~ tainted' PROVE Fresh'
  <2>1. Positions' = {}
    BY <1>1, <1>2, <1>7 DEF Positions
  <2>2. DeviceInv'
    BY <1>1, <1>2, <1>3, <1>7, <2>1
       DEF DeviceInv, LinkFollows, SightFollows, LinkEnds, PressEnds
  <2> QED  BY <1>1, <1>2, <1>7, <2>2 DEF Fresh, Quiet, MergedWait
<1> QED  BY <1>4, <1>5, <1>6, <1>7 DEF IInv

-----------------------------------------------------------------------------
LEMMA InitHolds == Init => IInv
<1> SUFFICES ASSUME Init PROVE IInv
  OBVIOUS
<1>1. Positions = {} /\ <<>> \in Seq(Message)
  BY DEF Init, Positions
<1>2. NoDevice \notin Ids /\ NoSlot \notin Slots
  BY ConstantsAssumption DEF NoSlot, Slots
<1>3. TypeOK
  BY <1>1 DEF Init, TypeOK
<1>4. Lifecycle /\ SlotsInverse
  BY <1>1, <1>2 DEF Init, Lifecycle, SlotsInverse
<1>5. DeviceInv
  BY <1>1 DEF Init, DeviceInv, LinkFollows, SightFollows, LinkEnds, PressEnds
<1>6. Quiet /\ MergedWait
  BY DEF Init, Quiet, MergedWait
<1> QED  BY <1>3, <1>4, <1>5, <1>6 DEF IInv, Fresh

LEMMA NextKeeps == IInv /\ [Next]_vars => IInv'
<1> SUFFICES ASSUME IInv, [Next]_vars PROVE IInv'
  OBVIOUS
<1>1. ASSUME NEW i \in Ids,
             \/ Find(i) \/ Open(i) \/ Close(i) \/ Remove(i)
             \/ \E s \in Sources : Report(i, s)
             \/ AssignPlayer(i) \/ UnassignPlayer(i)
      PROVE  IInv'
  BY <1>1, FindKeeps, OpenKeeps, CloseKeeps, RemoveKeeps, ReportKeeps,
     AssignPlayerKeeps, UnassignPlayerKeeps
<1>2. CASE Deliver
  BY <1>2, DeliverInputKeeps, DeliverAvailabilityKeeps, DeliverConnectedKeeps,
     DeliverDisconnectedKeeps DEF Deliver
<1>3. CASE \E s \in Sources : Flush(s)
  BY <1>3, FlushKeeps
<1>4. CASE \E c \in SUBSET Coalescable : SetRuntimeConfig(c)
  BY <1>4, SetRuntimeConfigKeeps
<1>5. CASE StartBackend \/ StartFails
  BY <1>5, StartKeeps
<1>6. CASE Snapshot
  BY <1>6, SnapshotKeeps
<1>7. CASE Stop
  BY <1>7, StopKeeps
<1>8. CASE UNCHANGED vars
  <2>1. /\ UNCHANGED <<active, table, input, mail, known, connected, state, coalesce,
                       mappers, held, pending, timers, assigned, playerOf, tainted>>
        /\ Positions' = Positions
    BY <1>8 DEF vars, backend, provider, events, players, Positions
  <2>2. DeviceInv => DeviceInv'
    BY <2>1, DevicesSame
  <2>3. TypeOK' /\ SlotsInverse'
    BY <2>1 DEF IInv, TypeOK, SlotsInverse
  <2>4. Lifecycle'
    BY <2>1 DEF IInv, Lifecycle
  <2>5. ~ tainted' => Fresh'
    BY <2>1, <2>2 DEF IInv, Fresh, Quiet, MergedWait
  <2> QED  BY <2>3, <2>4, <2>5 DEF IInv
<1> QED  BY <1>1, <1>2, <1>3, <1>4, <1>5, <1>6, <1>7, <1>8 DEF Next

THEOREM Invariance == Spec => []IInv
<1>1. Init => IInv
  BY InitHolds
<1>2. IInv /\ [Next]_vars => IInv'
  BY NextKeeps
<1> QED  BY <1>1, <1>2, PTL DEF Spec

(* The variables keep their types.                                         *)
THEOREM TypeCorrect == Spec => []TypeOK
<1>1. IInv => TypeOK
  BY DEF IInv
<1> QED  BY <1>1, Invariance, PTL

LEMMA QuietNews ==
  ASSUME NEW i, NoNews(i), \A p \in Positions : WellFormed(mail[p])
  PROVE  \A p \in Positions : \A K \in {Link, Sight, {"disconnected"}} :
           ~ Is(mail[p], i, K)
  BY DEF NoNews, Positions, Is, Link, Sight

(* Once no news of a device is on its way the caches of the provider are   *)
(* the backend's tables, and its player slot is backed by an open device,  *)
(* for any number of devices, slots and messages.                          *)
THEOREM TablesFollow == Spec => []TablesAgree
<1>1. IInv => TablesAgree
  <2> SUFFICES ASSUME IInv PROVE TablesAgree
    OBVIOUS
  <2>1. CachesAgree
    <3> SUFFICES ASSUME ~ tainted, NEW i \in Ids, NoNews(i)
                 PROVE  /\ i \in connected <=> table[i] = "open"
                        /\ i \in known <=> table[i] # "gone"
      BY DEF CachesAgree
    <3>1. LinkFollows(i) /\ SightFollows(i)
      BY DEF IInv, Fresh, DeviceInv
    <3>2. \A p \in Positions : ~ Is(mail[p], i, Link) /\ ~ Is(mail[p], i, Sight)
      BY QuietNews DEF IInv, Lifecycle
    <3> QED  BY <3>1, <3>2 DEF LinkFollows, SightFollows
  <2>2. PlayersBacked
    <3>1. \A i \in Ids, n \in Slots : playerOf[i] = n <=> assigned[n] = i
      BY DEF IInv, SlotsInverse
    <3>2. ASSUME ~ tainted, NEW i \in Ids, playerOf[i] # NoSlot, NoNews(i)
          PROVE  table[i] = "open"
      <4>1. Ends(i, 0)
        BY <3>2 DEF IInv, Fresh, DeviceInv, LinkEnds
      <4>2. \A p \in Positions : ~ Is(mail[p], i, {"disconnected"})
        BY <3>2, QuietNews DEF IInv, Lifecycle
      <4> QED  BY <4>1, <4>2 DEF Ends
    <3> QED  BY <3>1, <3>2 DEF PlayersBacked
  <2> QED  BY <2>1, <2>2 DEF TablesAgree
<1> QED  BY <1>1, Invariance, PTL

(* No press is left without its release, for any devices and sources: what *)
(* is held is pressed or its release is on its way.                        *)
THEOREM NothingStaysHeld == Spec => []NothingStuck
<1>1. IInv => NothingStuck
  <2> SUFFICES ASSUME IInv, ~ tainted, NEW i \in Ids, NEW s \in held[i] \ coalesce
               PROVE  s \in input[i] \/ ReleaseUnderWay(i, s)
    BY DEF NothingStuck
  <2>1. s \in Sources
    BY DEF IInv, TypeOK
  <2>2. Released(i, s, 0)
    BY <2>1 DEF IInv, Fresh, DeviceInv, PressEnds
  <2> QED  BY <2>2 DEF Released, Releases, ReleaseUnderWay, Positions
<1> QED  BY <1>1, Invariance, PTL
=============================================================================

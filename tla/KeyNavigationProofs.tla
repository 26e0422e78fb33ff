------------------------- MODULE KeyNavigationProofs -------------------------
(***************************************************************************)
(* What the run of KeyNavigation shows on one key, two actions, two        *)
(* devices and three objects, proved for any of them.  Two facts about     *)
(* where keys come from make the properties inductive: the navigation's    *)
(* own mapper holds actions on its route only (MappedRoute), and keys of   *)
(* the ServiceActionRouter's route stay behind only where that router was  *)
(* taken off its device (RouterAway).                                      *)
(***************************************************************************)
EXTENDS KeyNavigation, TLAPS

MappedRoute == mapped # {} => Route = "mapper"

RouterAway ==
    Route = "source" /\ "source" \notin live /\ remembered # Nothing => detached

(* No route, or a text input in focus: nothing is remembered.              *)
Silent == (Route = "none" \/ focus \in TextInputs) => remembered = Nothing

(* What key events leave behind: a remembered key is down at its object.   *)
Sound(s) ==
    /\ s.remembered \in [Keys -> Objects \cup {NoObject, Gone}]
    /\ s.down \in SUBSET (Objects \X Keys)
    /\ \A k \in Keys : s.remembered[k] \in Objects => <<s.remembered[k], k>> \in s.down

OutsideTypes ==
    /\ active \in BOOLEAN /\ gamepad \in BOOLEAN
    /\ actionSource \in BOOLEAN /\ actionRouter \in BOOLEAN
    /\ legacy \in BOOLEAN /\ target \in Explicit \cup {NoObject}
    /\ mapped \subseteq Actions /\ routed \subseteq Actions
    /\ live \subseteq Routers
    /\ deviceId \in Devices /\ buttons \subseteq Actions
    /\ held \in [Devices -> SUBSET Actions]
    /\ focus \in Objects \cup {NoObject} /\ blocked \in BOOLEAN
    /\ detached \in BOOLEAN

IInv ==
    /\ OutsideTypes
    /\ Sound(Now)
    /\ Silent
    /\ RememberedIsHeld
    /\ MappedRoute
    /\ RouterAway

-----------------------------------------------------------------------------
(* What sequences of key events do to what is remembered and down.         *)

(* From s to r: what is no longer remembered came up where it went down,   *)
(* and what goes down is remembered or replaces nothing.                   *)
Clean(s, r) ==
    /\ \A k \in Keys :
         s.remembered[k] \in Objects /\ r.remembered[k] # s.remembered[k] =>
             <<s.remembered[k], k>> \notin r.down
    /\ \A o \in Objects, k \in Keys :
         <<o, k>> \in r.down \ s.down =>
             r.remembered[k] = o \/ s.remembered[k] # NoObject

(* From s to r there were only releases.                                   *)
Releasing(s, r) ==
    /\ r.down \subseteq s.down
    /\ \A k \in Keys :
         /\ r.remembered[k] \in {s.remembered[k], NoObject}
         /\ s.remembered[k] \in Objects /\ r.remembered[k] # s.remembered[k] =>
                <<s.remembered[k], k>> \notin r.down

LEMMA ReleasingIsClean ==
  ASSUME NEW s, NEW r, Releasing(s, r) PROVE Clean(s, r)
  BY DEF Releasing, Clean

LEMMA ReleasingSame == ASSUME NEW s PROVE Releasing(s, s)
  BY DEF Releasing

LEMMA ReleasingTwice ==
  ASSUME NEW s, NEW r, NEW q, Releasing(s, r), Releasing(r, q)
  PROVE  Releasing(s, q)
  BY DEF Releasing

LEMMA ReleaseAllKeeps ==
  ASSUME NEW s, Sound(s), NEW t
  PROVE  /\ Sound(ReleaseAll(s, t))
         /\ Releasing(s, ReleaseAll(s, t))
         /\ ReleaseAll(s, t).remembered = Nothing
  BY ObjectAssumption DEF Sound, Releasing, ReleaseAll, Nothing

LEMMA ReleaseKeeps ==
  ASSUME NEW s, Sound(s), NEW t, NEW k \in Keys
  PROVE  /\ Sound(Release(s, t, k))
         /\ Releasing(s, Release(s, t, k))
         /\ Release(s, t, k).remembered = [s.remembered EXCEPT ![k] = NoObject]
<1>1. Release(s, t, k).remembered = [s.remembered EXCEPT ![k] = NoObject]
  BY DEF Release
<1>2. \A j \in Keys : j # k => \A o : <<o, j>> \in s.down <=> <<o, j>> \in Release(s, t, k).down
  BY DEF Release
<1>3. Release(s, t, k).down \subseteq s.down
  BY DEF Release
<1>4. s.remembered[k] \in Objects => <<s.remembered[k], k>> \notin Release(s, t, k).down
  BY DEF Release, ReleasedAt
<1> QED  BY <1>1, <1>2, <1>3, <1>4, ObjectAssumption DEF Sound, Releasing

LEMMA PressKeeps ==
  ASSUME NEW s, Sound(s), NEW t \in Objects, NEW k \in Keys
  PROVE  /\ Sound(Press(s, t, k))
         /\ Clean(s, Press(s, t, k))
         /\ \A j \in Keys \ {k} : Press(s, t, k).remembered[j] = s.remembered[j]
<1>1. /\ \A j \in Keys : Press(s, t, k).remembered[j] =
            IF j = k /\ s.remembered[k] = NoObject THEN t ELSE s.remembered[j]
      /\ Press(s, t, k).remembered \in [Keys -> Objects \cup {NoObject, Gone}]
  BY DEF Press, Sound
<1>2. Press(s, t, k).down = s.down \cup {<<t, k>>}
  BY DEF Press
<1> QED  BY <1>1, <1>2, ObjectAssumption DEF Sound, Clean

LEMMA HandleReleasesKeeps ==
  ASSUME NEW s, Sound(s), NEW t, NEW f, NEW as \in SUBSET Actions
  PROVE  /\ Sound(HandleReleases(s, t, f, as))
         /\ Releasing(s, HandleReleases(s, t, f, as))
         /\ \A a \in as : HandleReleases(s, t, f, as).remembered[KeyOf[a]] = NoObject
<1> DEFINE h == HandleReleases(s, t, f, as)
<1>1. CASE as = {}
  <2>1. h = s
    BY <1>1 DEF HandleReleases
  <2> QED  BY <1>1, <2>1, ReleasingSame
<1>2. CASE as # {} /\ ShouldSuppress(t, f)
  <2>1. h = ReleaseAll(s, t)
    BY <1>2 DEF HandleReleases
  <2>2. \A a \in as : KeyOf[a] \in Keys
    BY KeyAssumption
  <2>3. \A k \in Keys : Nothing[k] = NoObject
    BY DEF Nothing
  <2> QED  BY <2>1, <2>2, <2>3, ReleaseAllKeeps
<1>3. CASE as # {} /\ ~ShouldSuppress(t, f)
  <2> DEFINE keys == {KeyOf[a] : a \in as}
  <2>1. /\ h.remembered = [k \in Keys |-> IF k \in keys THEN NoObject
                                         ELSE s.remembered[k]]
        /\ h.down = s.down \ ({<<ReleasedAt(s, t, k), k>> : k \in keys}
                               \cup {<<t, k>> : k \in Shared(as)})
    BY <1>3 DEF HandleReleases
  <2>2. /\ keys \subseteq Keys /\ Shared(as) \subseteq keys
        /\ \A a \in as : KeyOf[a] \in keys
    BY KeyAssumption DEF Shared
  <2> HIDE DEF h, keys
  <2>3. /\ h.down \subseteq s.down
        /\ \A j \in Keys : j \notin keys => \A o : <<o, j>> \in s.down => <<o, j>> \in h.down
        /\ \A k \in keys : s.remembered[k] \in Objects => <<s.remembered[k], k>> \notin h.down
    <3>1. h.down \subseteq s.down
      BY <2>1
    <3>2. ASSUME NEW j \in Keys, j \notin keys, NEW o, <<o, j>> \in s.down
          PROVE  <<o, j>> \in h.down
      <4>1. \A k \in keys : <<ReleasedAt(s, t, k), k>> # <<o, j>>
        BY <3>2
      <4>2. \A k \in Shared(as) : <<t, k>> # <<o, j>>
        BY <2>2, <3>2
      <4> QED  BY <2>1, <3>2, <4>1, <4>2
    <3>3. ASSUME NEW k \in keys, s.remembered[k] \in Objects
          PROVE  <<s.remembered[k], k>> \notin h.down
      <4>1. <<ReleasedAt(s, t, k), k>> = <<s.remembered[k], k>>
        BY <3>3 DEF ReleasedAt
      <4> QED  BY <2>1, <4>1
    <3> QED  BY <3>1, <3>2, <3>3
  <2>4. Sound(h)
    <3>1. h.remembered \in [Keys -> Objects \cup {NoObject, Gone}]
      BY <2>1, <2>2 DEF Sound
    <3>2. \A k \in Keys : h.remembered[k] \in Objects =>
            k \notin keys /\ h.remembered[k] = s.remembered[k]
      BY <2>1, ObjectAssumption
    <3> QED  BY <2>3, <3>1, <3>2 DEF Sound
  <2>5. Releasing(s, h)
    BY <2>1, <2>2, <2>3, ObjectAssumption DEF Releasing, Sound
  <2>6. \A a \in as : h.remembered[KeyOf[a]] = NoObject
    BY <2>1, <2>2
  <2> QED  BY <2>4, <2>5, <2>6 DEF h
<1> QED  BY <1>1, <1>2, <1>3

(* The closed form is the loop of DeckGamepadActionMapper::reset: nothing  *)
(* for no action, and one more release for one more action.                *)
THEOREM ReleasesAreALoop ==
  ASSUME NEW s, Sound(s), NEW t \in Objects \cup {NoObject}, NEW f,
         NEW as \in SUBSET Actions, NEW a \in Actions \ as
  PROVE  /\ HandleReleases(s, t, f, {}) = s
         /\ HandleReleases(s, t, f, as \cup {a}) =
              Handle(HandleReleases(s, t, f, as), t, f, a, FALSE)
<1>1. HandleReleases(s, t, f, {}) = s
  BY DEF HandleReleases
<1> DEFINE h == HandleReleases(s, t, f, as)
           k == KeyOf[a]
           keys == {KeyOf[b] : b \in as}
<1>2. k \in Keys /\ keys \subseteq Keys /\ as \cup {a} # {}
  BY KeyAssumption
<1>3. CASE ShouldSuppress(t, f)
  <2>1. HandleReleases(s, t, f, as \cup {a}) = ReleaseAll(s, t)
    BY <1>2, <1>3 DEF HandleReleases
  <2>2. Handle(h, t, f, a, FALSE) = ReleaseAll(h, t)
    BY <1>3 DEF Handle
  <2>3. CASE as = {}
    BY <1>1, <2>1, <2>2, <2>3
  <2>4. CASE as # {}
    <3>1. h = ReleaseAll(s, t)
      BY <1>3, <2>4 DEF HandleReleases
    <3>2. /\ ReleaseAll(s, t).remembered = Nothing
          /\ ReleaseAll(s, t).down \subseteq Objects \X Keys
      BY ReleaseAllKeeps DEF Sound
    <3>3. ReleaseAll(h, t).down = ReleaseAll(s, t).down
      BY <3>1, <3>2, ObjectAssumption DEF ReleaseAll, Nothing
    <3>4. ReleaseAll(h, t) = [remembered |-> Nothing, down |-> ReleaseAll(h, t).down]
      BY DEF ReleaseAll
    <3>5. ReleaseAll(s, t) = [remembered |-> Nothing, down |-> ReleaseAll(s, t).down]
      BY DEF ReleaseAll
    <3> QED  BY <1>1, <2>1, <2>2, <3>3, <3>4, <3>5
  <2> QED  BY <2>3, <2>4
<1>4. CASE ~ShouldSuppress(t, f)
  <2>1. Handle(h, t, f, a, FALSE) = Release(h, t, k)
    BY <1>4 DEF Handle
  <2>2. {KeyOf[b] : b \in as \cup {a}} = keys \cup {k}
    OBVIOUS
  <2>3. HandleReleases(s, t, f, as \cup {a}) =
          [remembered |-> [j \in Keys |-> IF j \in keys \cup {k} THEN NoObject
                                          ELSE s.remembered[j]],
           down |-> s.down \ ({<<ReleasedAt(s, t, j), j>> : j \in keys \cup {k}}
                                \cup {<<t, j>> : j \in Shared(as \cup {a})})]
    BY <1>2, <1>4, <2>2 DEF HandleReleases
  <2>4. /\ h.remembered = [j \in Keys |-> IF j \in keys THEN NoObject
                                          ELSE s.remembered[j]]
        /\ h.down = s.down \ ({<<ReleasedAt(s, t, j), j>> : j \in keys}
                                \cup {<<t, j>> : j \in Shared(as)})
    <3>1. CASE as = {}
      <4>1. h = s /\ keys = {} /\ Shared(as) = {}
        BY <3>1 DEF HandleReleases, Shared
      <4> QED  BY <4>1 DEF Sound
    <3>2. CASE as # {}
      BY <1>4, <3>2 DEF HandleReleases
    <3> QED  BY <3>1, <3>2
  <2>5. Shared(as \cup {a}) = Shared(as) \cup (keys \cap {k})
    BY DEF Shared
  <2>6. h.remembered[k] = IF k \in keys THEN NoObject ELSE s.remembered[k]
    BY <1>2, <2>4
  <2> HIDE DEF h, k, keys
  <2>7. [h.remembered EXCEPT ![k] = NoObject] =
          [j \in Keys |-> IF j \in keys \cup {k} THEN NoObject ELSE s.remembered[j]]
    BY <1>2, <2>4
  <2>8. h.down \ {<<ReleasedAt(h, t, k), k>>} =
          s.down \ ({<<ReleasedAt(s, t, j), j>> : j \in keys \cup {k}}
                      \cup {<<t, j>> : j \in Shared(as \cup {a})})
    <3>1. CASE k \in keys
      <4>1. ReleasedAt(h, t, k) = t
        BY <2>6, <3>1, ObjectAssumption DEF ReleasedAt
      <4> QED  BY <2>4, <2>5, <3>1, <4>1
    <3>2. CASE k \notin keys
      <4>1. ReleasedAt(h, t, k) = ReleasedAt(s, t, k)
        BY <2>6, <3>2 DEF ReleasedAt
      <4>2. Shared(as \cup {a}) = Shared(as)
        BY <2>5, <3>2
      <4>3. {<<ReleasedAt(s, t, j), j>> : j \in keys \cup {k}} =
              {<<ReleasedAt(s, t, j), j>> : j \in keys} \cup {<<ReleasedAt(s, t, k), k>>}
        OBVIOUS
      <4> QED  BY <2>4, <4>1, <4>2, <4>3
    <3> QED  BY <3>1, <3>2
  <2>9. HandleReleases(s, t, f, as \cup {a}) = Release(h, t, k)
    BY <2>3, <2>7, <2>8 DEF Release
  <2> QED  BY <1>1, <2>1, <2>9 DEF h
<1> QED  BY <1>1, <1>3, <1>4

-----------------------------------------------------------------------------
(* One action is handled.                                                  *)

(* From s to r nothing but key k may have been pressed, and that only on.  *)
Touches(s, r, k, on) ==
    /\ \A j \in Keys : r.remembered[j] # NoObject =>
           s.remembered[j] # NoObject \/ (on /\ j = k)
    /\ ~on => r.remembered[k] = NoObject

LEMMA HandleKeeps ==
  ASSUME NEW s, Sound(s), NEW t \in Objects \cup {NoObject}, NEW f,
         NEW a \in Actions, NEW on \in BOOLEAN
  PROVE  /\ Sound(Handle(s, t, f, a, on))
         /\ Clean(s, Handle(s, t, f, a, on))
         /\ ShouldSuppress(t, f) => Handle(s, t, f, a, on).remembered = Nothing
         /\ Touches(s, Handle(s, t, f, a, on), KeyOf[a], on)
<1> DEFINE h == Handle(s, t, f, a, on)
<1>1. KeyOf[a] \in Keys /\ \A k \in Keys : Nothing[k] = NoObject
  BY KeyAssumption DEF Nothing
<1>2. CASE ShouldSuppress(t, f)
  <2>1. h = ReleaseAll(s, t)
    BY <1>2 DEF Handle
  <2> QED  BY <1>1, <2>1, ReleaseAllKeeps, ReleasingIsClean DEF Touches
<1>3. CASE ~ShouldSuppress(t, f) /\ on
  <2>1. h = Press(s, t, KeyOf[a]) /\ t \in Objects
    BY <1>3 DEF Handle, ShouldSuppress
  <2> HIDE DEF h
  <2>2. /\ Sound(h) /\ Clean(s, h)
        /\ \A k \in Keys \ {KeyOf[a]} : h.remembered[k] = s.remembered[k]
    BY <1>1, <2>1, PressKeeps
  <2> QED  BY <1>3, <2>2 DEF h, Touches
<1>4. CASE ~ShouldSuppress(t, f) /\ ~on
  <2>1. h = Release(s, t, KeyOf[a])
    BY <1>4 DEF Handle
  <2> HIDE DEF h
  <2>2. /\ Sound(h) /\ Clean(s, h)
        /\ h.remembered = [s.remembered EXCEPT ![KeyOf[a]] = NoObject]
    BY <1>1, <2>1, ReleaseKeeps, ReleasingIsClean
  <2>3. \A k \in Keys : h.remembered[k] = IF k = KeyOf[a] THEN NoObject ELSE s.remembered[k]
    BY <1>1, <2>2 DEF Sound
  <2> QED  BY <1>1, <1>4, <2>2, <2>3 DEF h, Touches
<1> QED  BY <1>2, <1>3, <1>4

-----------------------------------------------------------------------------
(* What a step delivers becomes what is remembered and down.               *)

LEMMA Delivered ==
  ASSUME NEW x, Sound(x), Clean(Now, x), Deliver(x)
  PROVE  Sound(Now)' /\ Clean(Now, Now')
  BY DEF Deliver, Sound, Clean, Now

LEMMA NowSame ==
  ASSUME Sound(Now), UNCHANGED <<remembered, down>>
  PROVE  Sound(Now)' /\ Clean(Now, Now')
  BY DEF Sound, Clean, Now

(* A step after which nothing is remembered.                               *)
LEMMA Forgotten ==
  ASSUME OutsideTypes', MappedRoute', NEW x, Sound(x), Releasing(Now, x),
         x.remembered = Nothing, Deliver(x)
  PROVE  IInv' /\ Clean(Now, Now')
<1>1. Sound(Now)' /\ Clean(Now, Now')
  BY Delivered, ReleasingIsClean
<1>2. remembered' = Nothing
  BY DEF Deliver
<1>3. Silent' /\ RouterAway'
  BY <1>2 DEF Silent, RouterAway
<1>4. RememberedIsHeld'
  BY <1>2 DEF RememberedIsHeld, Nothing
<1> QED  BY <1>1, <1>3, <1>4 DEF IInv

LEMMA DetachFalse ==
  ASSUME Detach(FALSE)
  PROVE  detached' \in BOOLEAN /\ (detached' <=> remembered' # Nothing /\ detached)
  BY DEF Detach

(* A router that was on the route is taken off.                            *)
LEMMA DetachTrue ==
  ASSUME Detach(TRUE)
  PROVE  /\ detached' \in BOOLEAN
         /\ (detached' <=> remembered' # Nothing /\ (detached \/ Route = "source"))
  BY DEF Detach

LEMMA TargetType ==
  ASSUME OutsideTypes
  PROVE  ResolveTarget \in Objects \cup {NoObject}
  BY ObjectAssumption DEF OutsideTypes, ResolveTarget, Resolve

(* updateSubscriptions, where nothing is remembered before it or nobody is *)
(* active after it.                                                        *)
LEMMA UpdateSubscriptionsKeeps ==
  ASSUME IInv, NEW s, Sound(s), Releasing(Now, s),
         s.remembered = Nothing \/ Route' = "none", UpdateSubscriptions(s),
         active' \in BOOLEAN, gamepad' \in BOOLEAN,
         actionSource' \in BOOLEAN, actionRouter' \in BOOLEAN,
         legacy' \in BOOLEAN, target' \in Explicit \cup {NoObject}
  PROVE  IInv' /\ Clean(Now, Now')
<1> DEFINE t == Resolve(target', focus)
           lost == IF Route' = "mapper" THEN {} ELSE mapped
           r == IF active' THEN HandleReleases(s, t, focus, lost) ELSE s
           x == IF Route' = "none" THEN ReleaseAll(r, t) ELSE r
<1>1. /\ mapped' = mapped \ lost
      /\ Deliver(x) /\ Detach(FALSE) /\ UNCHANGED <<routed, outside, buttons>>
  BY DEF UpdateSubscriptions
<1>2. lost \in SUBSET Actions /\ mapped' \subseteq Actions
  BY <1>1 DEF IInv, OutsideTypes
<1>3. OutsideTypes'
  BY <1>1, <1>2, DetachFalse DEF IInv, OutsideTypes, outside
<1>4. MappedRoute'
  BY <1>1 DEF MappedRoute
<1> HIDE DEF t, lost
<1>5. Sound(r) /\ Releasing(s, r)
  BY <1>2, HandleReleasesKeeps, ReleasingSame
<1> HIDE DEF r
<1>6. Sound(x) /\ Releasing(r, x) /\ (Route' = "none" => x.remembered = Nothing)
  BY <1>5, ReleaseAllKeeps, ReleasingSame
<1> HIDE DEF x
<1>7. Releasing(Now, x) /\ Releasing(s, x)
  BY <1>5, <1>6, ReleasingTwice
<1>8. x.remembered = Nothing
  <2>1. CASE Route' = "none"
    BY <1>6, <2>1
  <2>2. CASE s.remembered = Nothing
    <3>1. \A k \in Keys : x.remembered[k] = NoObject
      BY <1>7, <2>2 DEF Releasing, Nothing
    <3> QED  BY <1>6, <3>1 DEF Sound, Nothing
  <2> QED  BY <2>1, <2>2
<1> QED  BY <1>1, <1>3, <1>4, <1>6, <1>7, <1>8, Forgotten

LEMMA SetActiveKeeps ==
  ASSUME IInv, NEW on \in BOOLEAN, SetActive(on) PROVE IInv' /\ Clean(Now, Now')
<1>1. /\ active # on /\ active' = on
      /\ UNCHANGED <<gamepad, actionSource, actionRouter, legacy, target>>
      /\ UpdateSubscriptions(Now)
  BY DEF SetActive
<1>2. Now.remembered = Nothing \/ Route' = "none"
  BY <1>1 DEF IInv, OutsideTypes, Silent, Route, Now
<1>3. Sound(Now) /\ Releasing(Now, Now)
  BY ReleasingSame DEF IInv
<1> QED  BY <1>1, <1>2, <1>3, UpdateSubscriptionsKeeps DEF IInv, OutsideTypes

LEMMA SettersKeep ==
  ASSUME IInv, NEW on \in BOOLEAN, NEW o \in Explicit \cup {NoObject},
         \/ SetGamepad(on) \/ SetActionSource(on) \/ SetActionRouter(on)
         \/ SetUseLegacyMapper(on) \/ SetTarget(o)
  PROVE  IInv' /\ Clean(Now, Now')
<1> DEFINE s == ReleaseAll(Now, ResolveTarget)
<1>1. Sound(s) /\ Releasing(Now, s) /\ s.remembered = Nothing
  BY ReleaseAllKeeps DEF IInv
<1>2. UpdateSubscriptions(s)
  BY DEF SetGamepad, SetActionSource, SetActionRouter, SetUseLegacyMapper, SetTarget
<1>3. /\ active' \in BOOLEAN /\ gamepad' \in BOOLEAN
      /\ actionSource' \in BOOLEAN /\ actionRouter' \in BOOLEAN
      /\ legacy' \in BOOLEAN /\ target' \in Explicit \cup {NoObject}
  BY DEF SetGamepad, SetActionSource, SetActionRouter, SetUseLegacyMapper, SetTarget,
         IInv, OutsideTypes
<1> HIDE DEF s
<1> QED  BY <1>1, <1>2, <1>3, UpdateSubscriptionsKeeps

(* What a mapper holds after a button, if the button reached it.           *)
LEMMA ToggledHas ==
  ASSUME NEW as \in SUBSET Actions, NEW a \in Actions, NEW on \in BOOLEAN
  PROVE  /\ Toggled(as, a, on) \in SUBSET Actions
         /\ \A b \in Actions : b \in Toggled(as, a, on) <=>
                IF b = a THEN on ELSE b \in as
  BY DEF Toggled

(* A button: handled where the navigation hears it or a mapper on the      *)
(* route changes, and kept from it else.                                   *)
LEMMA ButtonKeeps ==
  ASSUME IInv, NEW d \in Devices, NEW a \in Actions, Button(d, a)
  PROVE  IInv' /\ Clean(Now, Now')
<1>1. PICK on \in BOOLEAN, toMapper \in BOOLEAN, toRouter \in BOOLEAN :
        /\ toMapper => Route = "mapper"
        /\ held' = [held EXCEPT ![d] = Toggled(@, a, on)]
        /\ buttons' = IF d = deviceId THEN Toggled(buttons, a, on) ELSE buttons
        /\ mapped' = IF toMapper THEN Toggled(mapped, a, on) ELSE mapped
        /\ routed' = IF toRouter THEN Toggled(routed, a, on) ELSE routed
        /\ Deliver(IF Hears(d) \/ toMapper \/ (toRouter /\ Route = "router")
                   THEN Handle(Now, ResolveTarget, focus, a, on) ELSE Now)
        /\ Detach(FALSE)
        /\ UNCHANGED <<settings, live, deviceId, focus, blocked>>
  <2> DEFINE on == a \notin held[d]
             passed == d = deviceId /\ (a \in buttons) # on
             toMapper == passed /\ Route = "mapper" /\ (a \in mapped) # on
             toRouter == passed /\ "router" \in live /\ (a \in routed) # on
  <2>1. /\ held' = [held EXCEPT ![d] = Toggled(@, a, on)]
        /\ buttons' = IF d = deviceId THEN Toggled(buttons, a, on) ELSE buttons
        /\ mapped' = IF toMapper THEN Toggled(mapped, a, on) ELSE mapped
        /\ routed' = IF toRouter THEN Toggled(routed, a, on) ELSE routed
        /\ Deliver(IF Hears(d) \/ toMapper \/ (toRouter /\ Route = "router")
                   THEN Handle(Now, ResolveTarget, focus, a, on) ELSE Now)
        /\ Detach(FALSE)
        /\ UNCHANGED <<settings, live, deviceId, focus, blocked>>
    BY DEF Button
  <2>2. toMapper => Route = "mapper"
    OBVIOUS
  <2>3. on \in BOOLEAN /\ toMapper \in BOOLEAN /\ toRouter \in BOOLEAN
    OBVIOUS
  <2> HIDE DEF on, toMapper, toRouter
  <2> QED  BY <2>1, <2>2, <2>3
<1> DEFINE handled == Hears(d) \/ toMapper \/ (toRouter /\ Route = "router")
           x == IF handled THEN Handle(Now, ResolveTarget, focus, a, on) ELSE Now
<1>2. /\ UNCHANGED <<active, gamepad, actionSource, actionRouter, legacy, target,
                     live, deviceId, focus>>
      /\ Route' = Route
      /\ mapped \subseteq Actions /\ routed \subseteq Actions
      /\ buttons \subseteq Actions /\ held \in [Devices -> SUBSET Actions]
      /\ deviceId \in Devices
      /\ detached' <=> remembered' # Nothing /\ detached
  BY <1>1, DetachFalse DEF settings, Route, IInv, OutsideTypes
<1>3. /\ mapped' \subseteq Actions
      /\ \A b \in Actions : b \in mapped' <=>
             IF toMapper /\ b = a THEN on ELSE b \in mapped
  BY <1>1, <1>2, ToggledHas
<1>4. /\ routed' \subseteq Actions
      /\ \A b \in Actions : b \in routed' <=>
             IF toRouter /\ b = a THEN on ELSE b \in routed
  BY <1>1, <1>2, ToggledHas
<1>5. Toggled(held[d], a, on) \in SUBSET Actions
  BY <1>2, ToggledHas
<1>6. /\ held' \in [Devices -> SUBSET Actions]
      /\ \A b \in Actions : b \in held'[deviceId] <=>
             IF d = deviceId /\ b = a THEN on ELSE b \in held[deviceId]
  <2>1. held'[deviceId] = IF d = deviceId THEN Toggled(held[d], a, on)
                          ELSE held[deviceId]
    BY <1>1, <1>2
  <2>2. held' \in [Devices -> SUBSET Actions]
    BY <1>1, <1>2, <1>5
  <2>3. held[d] \in SUBSET Actions
    BY <1>2
  <2> QED  BY <2>1, <2>2, <2>3, ToggledHas
<1>7. buttons' \subseteq Actions
  BY <1>1, <1>2, ToggledHas
<1>8. OutsideTypes'
  <2>1. detached' \in BOOLEAN
    BY <1>1, DetachFalse
  <2> QED  BY <1>1, <1>2, <1>3, <1>4, <1>6, <1>7, <2>1
           DEF IInv, OutsideTypes, settings
<1>9. /\ Holding \subseteq Actions /\ Holding' \subseteq Actions
      /\ \A b \in Actions \ {a} : b \in Holding => b \in Holding'
  BY <1>2, <1>3, <1>4, <1>6 DEF Holding
<1>10. Sound(Now)
  BY DEF IInv
<1>11. MappedRoute'
  BY <1>1, <1>2 DEF IInv, MappedRoute
<1>12. CASE handled
  <2>1. /\ Sound(x) /\ Clean(Now, x)
        /\ ShouldSuppress(ResolveTarget, focus) => x.remembered = Nothing
        /\ Touches(Now, x, KeyOf[a], on)
    <3>1. x = Handle(Now, ResolveTarget, focus, a, on)
      BY <1>12
    <3>2. ResolveTarget \in Objects \cup {NoObject}
      BY TargetType DEF IInv
    <3> HIDE DEF x
    <3> QED  BY <1>10, <3>1, <3>2, HandleKeeps
  <2>2. Deliver(x)
    BY <1>1
  <2> HIDE DEF x
  <2>3. Sound(Now)' /\ Clean(Now, Now')
    BY <2>1, <2>2, Delivered
  <2>4. /\ ShouldSuppress(ResolveTarget, focus) => remembered' = Nothing
        /\ \A k \in Keys : remembered'[k] # NoObject =>
               remembered[k] # NoObject \/ (on /\ k = KeyOf[a])
        /\ ~on => remembered'[KeyOf[a]] = NoObject
    BY <2>1, <2>2 DEF Deliver, Now, Touches
  <2>5. /\ Route # "none" /\ (Route = "source" => "source" \in live)
        /\ Hears(d) => d = deviceId /\ Route \in {"service", "source"}
    BY <1>1, <1>12 DEF Hears
  <2>6. Silent'
    BY <1>2, <2>4, <2>5 DEF Silent, ShouldSuppress
  <2>7. RememberedIsHeld'
    <3> SUFFICES ASSUME NEW k \in Keys, remembered'[k] # NoObject, ~detached'
                 PROVE  \E b \in Holding' : KeyOf[b] = k
      BY DEF RememberedIsHeld
    <3>1. ~detached
      BY <1>2 DEF Nothing
    <3>2. on => a \in Holding'
      BY <1>1, <1>2, <1>3, <1>4, <1>6, <1>12, <2>5 DEF Holding
    <3>3. CASE on /\ k = KeyOf[a]
      BY <3>2, <3>3
    <3>4. CASE ~(on /\ k = KeyOf[a])
      <4>1. PICK b \in Holding : KeyOf[b] = k
        BY <2>4, <3>1, <3>4 DEF IInv, RememberedIsHeld
      <4>2. b # a
        BY <2>4, <3>4, <4>1
      <4>3. b \in Holding'
        BY <1>9, <4>1, <4>2
      <4> QED  BY <4>1, <4>3
    <3> QED  BY <3>3, <3>4
  <2>8. RouterAway'
    BY <1>2, <2>5 DEF RouterAway
  <2> QED  BY <1>8, <1>11, <2>3, <2>6, <2>7, <2>8 DEF IInv
<1>13. CASE ~handled
  <2>1. remembered' = remembered /\ down' = down
    BY <1>1, <1>13 DEF Deliver, Now
  <2>2. Sound(Now)' /\ Clean(Now, Now')
    BY <1>10, <2>1, NowSame
  <2>3. Silent' /\ RouterAway'
    BY <1>2, <2>1 DEF IInv, Silent, RouterAway
  <2>4. RememberedIsHeld'
    <3> SUFFICES ASSUME NEW k \in Keys, remembered'[k] # NoObject, ~detached'
                 PROVE  \E b \in Holding' : KeyOf[b] = k
      BY DEF RememberedIsHeld
    <3>1. remembered # Nothing /\ ~detached
      BY <1>2, <2>1 DEF Nothing
    <3>2. PICK b \in Holding : KeyOf[b] = k
      BY <2>1, <3>1 DEF IInv, RememberedIsHeld
    <3>3. Route \in {"mapper", "router"} \/ d # deviceId
      <4>1. Route # "none"
        BY <3>1 DEF IInv, Silent
      <4>2. Route = "source" => "source" \in live
        BY <3>1 DEF IInv, RouterAway
      <4> QED  BY <1>13, <4>1, <4>2 DEF Hears, Route
    <3>4. Holding \subseteq Holding'
      BY <1>2, <1>3, <1>4, <1>6, <1>13, <3>3 DEF Holding
    <3> QED  BY <3>2, <3>4
  <2> QED  BY <1>8, <1>11, <2>2, <2>3, <2>4 DEF IInv
<1> QED  BY <1>12, <1>13

LEMMA RepeatKeeps ==
  ASSUME IInv, NEW a \in Actions, Repeat(a) PROVE IInv' /\ Clean(Now, Now')
<1> DEFINE x == Handle(Now, ResolveTarget, focus, a, TRUE)
<1>1. /\ \/ a \in held[deviceId] /\ Hears(deviceId)
         \/ a \in routed /\ Route = "router"
      /\ Deliver(x) /\ Detach(FALSE)
      /\ UNCHANGED <<settings, mapped, routed, outside, buttons>>
  BY DEF Repeat
<1>2. /\ Sound(x) /\ Clean(Now, x)
      /\ ShouldSuppress(ResolveTarget, focus) => x.remembered = Nothing
      /\ Touches(Now, x, KeyOf[a], TRUE)
  <2>1. Sound(Now) /\ ResolveTarget \in Objects \cup {NoObject} /\ TRUE \in BOOLEAN
    BY TargetType DEF IInv
  <2> QED  BY <2>1, HandleKeeps
<1> HIDE DEF x
<1>3. Sound(Now)' /\ Clean(Now, Now')
  BY <1>1, <1>2, Delivered
<1>4. /\ ShouldSuppress(ResolveTarget, focus) => remembered' = Nothing
      /\ \A k \in Keys : remembered'[k] # NoObject =>
             remembered[k] # NoObject \/ k = KeyOf[a]
  BY <1>1, <1>2 DEF Deliver, Now, Touches
<1>5. /\ Route' = Route /\ Holding' = Holding /\ Route # "none"
      /\ Route # "mapper" /\ a \in Holding
      /\ Route = "source" => "source" \in live
      /\ UNCHANGED <<focus, live, mapped>>
  BY <1>1 DEF settings, outside, Route, Holding, Hears
<1>6. detached' <=> remembered' # Nothing /\ detached
  BY <1>1, DetachFalse
<1>7. OutsideTypes'
  BY <1>1, DetachFalse DEF IInv, OutsideTypes, settings, outside
<1>8. Silent' /\ MappedRoute' /\ RouterAway'
  BY <1>4, <1>5 DEF IInv, Silent, MappedRoute, RouterAway, ShouldSuppress
<1>9. RememberedIsHeld'
  <2> SUFFICES ASSUME NEW k \in Keys, remembered'[k] # NoObject, ~detached'
               PROVE  \E b \in Holding' : KeyOf[b] = k
    BY DEF RememberedIsHeld
  <2>1. ~detached
    BY <1>6 DEF Nothing
  <2> QED  BY <1>4, <1>5, <2>1 DEF IInv, RememberedIsHeld
<1> QED  BY <1>3, <1>7, <1>8, <1>9 DEF IInv

-----------------------------------------------------------------------------
(* The steps that only release: three ways the invariant survives them.    *)

LEMMA CleanReleasing ==
  ASSUME NEW s, NEW r, NEW q, Clean(s, r), Releasing(r, q)
  PROVE  Clean(s, q)
  BY DEF Clean, Releasing

LEMMA NothingStays ==
  ASSUME NEW s, NEW r, Sound(r), Releasing(s, r), s.remembered = Nothing
  PROVE  r.remembered = Nothing
<1>1. \A k \in Keys : r.remembered[k] = NoObject
  BY DEF Releasing, Nothing
<1> QED  BY <1>1 DEF Sound, Nothing

(* Nothing is remembered, or the router was moved and its keys stay.       *)
LEMMA LeftBehind ==
  ASSUME OutsideTypes', MappedRoute', Silent', Sound(Now)', Clean(Now, Now'),
         remembered' = Nothing \/ detached'
  PROVE  IInv' /\ Clean(Now, Now')
  BY DEF IInv, RememberedIsHeld, RouterAway, Nothing

(* Who holds the keys is as before, and no key is remembered anew.         *)
LEMMA CarriedOn ==
  ASSUME IInv, OutsideTypes', Sound(Now)', Clean(Now, Now'),
         Route' = Route, Holding' = Holding, mapped' = mapped, live' = live,
         focus' \in TextInputs => focus \in TextInputs,
         \A k \in Keys : remembered'[k] # NoObject => remembered[k] # NoObject,
         detached' <=> remembered' # Nothing /\ detached
  PROVE  IInv' /\ Clean(Now, Now')
<1>1. remembered = Nothing => remembered' = Nothing
  BY DEF Sound, Now, Nothing
<1>2. Silent' /\ MappedRoute' /\ RouterAway'
  BY <1>1 DEF IInv, Silent, MappedRoute, RouterAway
<1>3. RememberedIsHeld'
  BY DEF IInv, RememberedIsHeld, Nothing
<1> QED  BY <1>2, <1>3 DEF IInv

(* The Gamepad says that its device went or changed: the router's mapper   *)
(* and the navigation release what they have, in either order.             *)
LEMMA RouterReleasesKeeps ==
  ASSUME OutsideTypes, NEW s, Sound(s)
  PROVE  /\ Sound(RouterReleases(s)) /\ Releasing(s, RouterReleases(s))
         /\ Route = "router" =>
                \A a \in routed : RouterReleases(s).remembered[KeyOf[a]] = NoObject
<1>1. routed \in SUBSET Actions
  BY DEF OutsideTypes
<1>2. CASE Route = "router"
  <2>1. RouterReleases(s) = HandleReleases(s, ResolveTarget, focus, routed)
    BY <1>2 DEF RouterReleases
  <2> QED  BY <1>1, <2>1, HandleReleasesKeeps
<1>3. CASE Route # "router"
  BY <1>3, ReleasingSame DEF RouterReleases
<1> QED  BY <1>2, <1>3

LEMMA GamepadReleasesKeeps ==
  ASSUME NEW s, Sound(s)
  PROVE  /\ Sound(GamepadReleases(s)) /\ Releasing(s, GamepadReleases(s))
         /\ GamepadConnected => GamepadReleases(s).remembered = Nothing
  BY ReleaseAllKeeps, ReleasingSame DEF GamepadReleases

LEMMA ReleasedKeeps ==
  ASSUME OutsideTypes, NEW s, Sound(s), NEW r \in Released(s)
  PROVE  /\ Sound(r) /\ Releasing(s, r)
         /\ GamepadConnected => r.remembered = Nothing
         /\ Route = "router" => \A a \in routed : r.remembered[KeyOf[a]] = NoObject
<1>1. \A a \in routed : KeyOf[a] \in Keys
  BY KeyAssumption DEF OutsideTypes
<1>2. CASE r = GamepadReleases(RouterReleases(s))
  <2> DEFINE q == RouterReleases(s)
  <2>1. /\ Sound(q) /\ Releasing(s, q)
        /\ Route = "router" => \A a \in routed : q.remembered[KeyOf[a]] = NoObject
    BY RouterReleasesKeeps
  <2>2. r = GamepadReleases(q)
    BY <1>2
  <2> HIDE DEF q
  <2>3. /\ Sound(r) /\ Releasing(q, r)
        /\ GamepadConnected => r.remembered = Nothing
    BY <2>1, <2>2, GamepadReleasesKeeps
  <2>4. Releasing(s, r)
    BY <2>1, <2>3, ReleasingTwice
  <2>5. Route = "router" => \A a \in routed : r.remembered[KeyOf[a]] = NoObject
    BY <1>1, <2>1, <2>3 DEF Releasing
  <2> QED  BY <2>3, <2>4, <2>5
<1>3. CASE r = RouterReleases(GamepadReleases(s))
  <2> DEFINE q == GamepadReleases(s)
  <2>1. /\ Sound(q) /\ Releasing(s, q)
        /\ GamepadConnected => q.remembered = Nothing
    BY GamepadReleasesKeeps
  <2>2. r = RouterReleases(q)
    BY <1>3
  <2> HIDE DEF q
  <2>3. /\ Sound(r) /\ Releasing(q, r)
        /\ Route = "router" => \A a \in routed : r.remembered[KeyOf[a]] = NoObject
    BY <2>1, <2>2, RouterReleasesKeeps
  <2>4. Releasing(s, r)
    BY <2>1, <2>3, ReleasingTwice
  <2>5. GamepadConnected => r.remembered = Nothing
    BY <2>1, <2>3, NothingStays
  <2> QED  BY <2>3, <2>4, <2>5
<1> QED  BY <1>2, <1>3 DEF Released

(* All that the holder of the keys holds is released.                      *)
LEMMA AllForgotten ==
  ASSUME IInv, ~detached, NEW r, Sound(r), Releasing(Now, r),
         \A a \in Holding : r.remembered[KeyOf[a]] = NoObject
  PROVE  r.remembered = Nothing
<1>1. ASSUME NEW k \in Keys PROVE r.remembered[k] = NoObject
  <2>1. CASE remembered[k] = NoObject
    BY <2>1 DEF Releasing, Now
  <2>2. CASE remembered[k] # NoObject
    BY <2>2 DEF IInv, RememberedIsHeld
  <2> QED  BY <2>1, <2>2
<1> QED  BY <1>1 DEF Sound, Nothing

LEMMA DisconnectKeeps ==
  ASSUME IInv, NEW d \in Devices, Disconnect(d) PROVE IInv' /\ Clean(Now, Now')
<1> DEFINE s == IF Hears(d) THEN HandleReleases(Now, ResolveTarget, focus, held[d])
                ELSE Now
<1>1. PICK x \in IF d = deviceId THEN Released(s) ELSE {s} :
        /\ Deliver(x)
        /\ held' = [held EXCEPT ![d] = {}]
        /\ buttons' = IF d = deviceId THEN {} ELSE buttons
        /\ routed' = IF d = deviceId THEN {} ELSE routed
        /\ Detach(FALSE)
        /\ UNCHANGED <<settings, mapped, live, deviceId, focus, blocked>>
  BY DEF Disconnect
<1>2. /\ Route' = Route /\ UNCHANGED <<mapped, live, deviceId, focus>>
      /\ Route \in {"source", "router", "none"} \/ (active /\ gamepad)
  BY <1>1 DEF Route, settings
<1>3. OutsideTypes'
  BY <1>1, DetachFalse DEF IInv, OutsideTypes, settings
<1>4. MappedRoute'
  BY <1>2 DEF IInv, MappedRoute
<1>5. Sound(Now) /\ held[d] \in SUBSET Actions /\ OutsideTypes
  BY DEF IInv, OutsideTypes
<1>6. /\ Sound(s) /\ Releasing(Now, s)
      /\ Hears(d) => \A a \in held[d] : s.remembered[KeyOf[a]] = NoObject
  <2>1. CASE Hears(d)
    BY <1>5, <2>1, HandleReleasesKeeps
  <2>2. CASE ~Hears(d)
    BY <1>5, <2>2, ReleasingSame
  <2> QED  BY <2>1, <2>2
<1> HIDE DEF s
<1>7. /\ Sound(x) /\ Releasing(s, x)
      /\ d = deviceId /\ GamepadConnected => x.remembered = Nothing
      /\ d = deviceId /\ Route = "router" =>
             \A a \in routed : x.remembered[KeyOf[a]] = NoObject
  <2>1. CASE d = deviceId
    BY <1>1, <1>5, <1>6, <2>1, ReleasedKeeps
  <2>2. CASE d # deviceId
    BY <1>1, <1>6, <2>2, ReleasingSame
  <2> QED  BY <2>1, <2>2
<1>8. Releasing(Now, x)
  BY <1>6, <1>7, ReleasingTwice
<1>9. /\ Sound(Now)' /\ Clean(Now, Now')
      /\ remembered' = x.remembered
      /\ \A k \in Keys : remembered'[k] # NoObject => remembered[k] # NoObject
  BY <1>1, <1>7, <1>8, Delivered, ReleasingIsClean DEF Deliver, Releasing, Now
<1>10. CASE d = deviceId /\ GamepadConnected
  BY <1>1, <1>3, <1>4, <1>7, <1>8, <1>10, Forgotten
<1>11. CASE d # deviceId
  <2>1. Holding' = Holding
    BY <1>1, <1>2, <1>11 DEF Holding
  <2> QED  BY <1>1, <1>2, <1>3, <1>9, <2>1, DetachFalse, CarriedOn
<1>12. CASE d = deviceId /\ ~GamepadConnected
  <2>1. Route \in {"source", "router", "none"}
    BY <1>2, <1>12 DEF GamepadConnected
  <2>2. remembered = Nothing => remembered' = Nothing
    BY <1>7, <1>8, <1>9, NothingStays DEF Now
  <2>3. Silent'
    BY <1>2, <2>2 DEF IInv, Silent
  <2>4. remembered' = Nothing \/ detached'
    <3>1. CASE remembered = Nothing
      BY <2>2, <3>1
    <3>2. CASE detached
      BY <1>1, <3>2, DetachFalse
    <3>3. CASE remembered # Nothing /\ ~detached
      <4>1. Route = "router" \/ (Route = "source" /\ Hears(d))
        BY <1>12, <2>1, <3>3 DEF IInv, Silent, RouterAway, Hears
      <4>2. Route = "router" => \A a \in Holding : x.remembered[KeyOf[a]] = NoObject
        BY <1>7, <1>12 DEF Holding
      <4>3. \A a \in held[d] : KeyOf[a] \in Keys
        BY <1>5, KeyAssumption
      <4>4. Route = "source" => \A a \in Holding : x.remembered[KeyOf[a]] = NoObject
        BY <1>6, <1>7, <1>12, <4>1, <4>3 DEF Holding, Releasing
      <4> QED  BY <1>7, <1>8, <1>9, <3>3, <4>1, <4>2, <4>4, AllForgotten
    <3> QED  BY <3>1, <3>2, <3>3
  <2> QED  BY <1>3, <1>4, <1>9, <2>3, <2>4, LeftBehind
<1> QED  BY <1>10, <1>11, <1>12

(* Of the Gamepad's keys none stays, of the ServiceActionRouter's some may *)
(* and it is noted, where the Gamepad is moved.                            *)
LEMMA MovedAway ==
  ASSUME IInv, NEW x \in Released(Now), Detach(TRUE), remembered' = x.remembered
  PROVE  /\ Sound(x) /\ Releasing(Now, x)
         /\ remembered = Nothing \/ GamepadConnected => remembered' = Nothing
         /\ Route \in {"source", "router", "none"} \/ GamepadConnected
         /\ remembered' = Nothing \/ detached'
<1>1. /\ Sound(x) /\ Releasing(Now, x)
      /\ GamepadConnected => x.remembered = Nothing
      /\ Route = "router" => \A a \in routed : x.remembered[KeyOf[a]] = NoObject
  BY ReleasedKeeps DEF IInv
<1>2. remembered = Nothing => remembered' = Nothing
  BY <1>1, NothingStays DEF Now
<1>3. Route \in {"source", "router", "none"} \/ GamepadConnected
  BY DEF Route, GamepadConnected
<1>4. remembered' = Nothing \/ detached'
  <2>1. CASE remembered = Nothing \/ GamepadConnected
    BY <1>1, <1>2, <2>1
  <2>2. CASE detached \/ Route = "source"
    BY <2>2, DetachTrue
  <2>3. CASE ~detached /\ Route = "router"
    <3>1. Holding = routed
      BY <2>3 DEF Holding
    <3> QED  BY <1>1, <2>3, <3>1, AllForgotten
  <2>4. CASE Route = "none"
    BY <1>2, <2>4 DEF IInv, Silent
  <2> QED  BY <1>3, <2>1, <2>2, <2>3, <2>4
<1> QED  BY <1>1, <1>2, <1>3, <1>4

LEMMA SetDeviceIdKeeps ==
  ASSUME IInv, NEW d \in Devices, SetDeviceId(d) PROVE IInv' /\ Clean(Now, Now')
<1>1. PICK x \in Released(Now) :
        /\ Deliver(x)
        /\ deviceId' = d /\ buttons' = {} /\ routed' = {} /\ Detach(TRUE)
        /\ UNCHANGED <<settings, mapped, live, held, focus, blocked>>
  BY DEF SetDeviceId
<1>2. Route' = Route /\ UNCHANGED <<mapped, live, focus>>
  BY <1>1 DEF Route, settings
<1>3. OutsideTypes' /\ MappedRoute'
  BY <1>1, <1>2, DetachTrue DEF IInv, OutsideTypes, MappedRoute, settings
<1>4. /\ remembered' = x.remembered
      /\ Sound(x) /\ Releasing(Now, x)
      /\ remembered = Nothing => remembered' = Nothing
      /\ remembered' = Nothing \/ detached'
  BY <1>1, MovedAway DEF Deliver
<1>5. Sound(Now)' /\ Clean(Now, Now')
  BY <1>1, <1>4, Delivered, ReleasingIsClean
<1>6. Silent'
  BY <1>2, <1>4 DEF IInv, Silent
<1> QED  BY <1>3, <1>4, <1>5, <1>6, LeftBehind

LEMMA SetServiceActionRouterKeeps ==
  ASSUME IInv, NEW on \in BOOLEAN, SetServiceActionRouter(on)
  PROVE  IInv' /\ Clean(Now, Now')
<1>1. /\ live' \subseteq live \cup {"source"}
      /\ UNCHANGED <<remembered, down>> /\ Detach(TRUE)
      /\ UNCHANGED <<settings, mapped, routed, deviceId, held, focus, blocked, buttons>>
  BY DEF SetServiceActionRouter
<1>2. Route' = Route /\ Holding' = Holding /\ UNCHANGED <<mapped, focus>>
  BY <1>1 DEF Route, Holding, settings
<1>3. OutsideTypes' /\ MappedRoute'
  BY <1>1, <1>2, DetachTrue DEF IInv, OutsideTypes, MappedRoute, Routers, settings
<1>4. Sound(Now)' /\ Clean(Now, Now')
  BY <1>1, NowSame DEF IInv
<1>5. Silent'
  BY <1>1, <1>2 DEF IInv, Silent
<1>6. CASE Route = "source"
  <2>1. remembered' = Nothing \/ detached'
    BY <1>1, <1>6, DetachTrue
  <2> QED  BY <1>3, <1>4, <1>5, <2>1, LeftBehind
<1>7. CASE Route # "source"
  <2>1. detached' <=> remembered' # Nothing /\ detached
    BY <1>1, <1>7, DetachTrue
  <2>2. RouterAway'
    BY <1>2, <1>7 DEF RouterAway
  <2>3. RememberedIsHeld'
    BY <1>1, <1>2, <2>1 DEF IInv, RememberedIsHeld, Nothing
  <2> QED  BY <1>3, <1>4, <1>5, <2>2, <2>3 DEF IInv
<1> QED  BY <1>6, <1>7

LEMMA SetGamepadActionRouterKeeps ==
  ASSUME IInv, NEW on \in BOOLEAN, SetGamepadActionRouter(on)
  PROVE  IInv' /\ Clean(Now, Now')
<1> DEFINE x == RouterReleases(Now)
<1>1. /\ live' \subseteq live \cup {"router"} /\ live \subseteq live' \cup {"router"}
      /\ routed' = {} /\ Deliver(x) /\ Detach(FALSE)
      /\ UNCHANGED <<settings, mapped, deviceId, held, focus, blocked, buttons>>
  BY DEF SetGamepadActionRouter
<1>2. Route' = Route /\ UNCHANGED <<mapped, held, deviceId, focus>>
  BY <1>1 DEF Route, settings
<1>3. OutsideTypes' /\ MappedRoute'
  BY <1>1, <1>2, DetachFalse DEF IInv, OutsideTypes, MappedRoute, Routers, settings
<1>4. /\ Sound(x) /\ Releasing(Now, x)
      /\ Route = "router" => \A a \in routed : x.remembered[KeyOf[a]] = NoObject
  BY RouterReleasesKeeps DEF IInv
<1>5. Route # "router" => x = Now
  BY DEF RouterReleases
<1> HIDE DEF x
<1>6. /\ Sound(Now)' /\ Clean(Now, Now')
      /\ remembered' = x.remembered
  BY <1>1, <1>4, Delivered, ReleasingIsClean DEF Deliver
<1>7. detached' <=> remembered' # Nothing /\ detached
  BY <1>1, DetachFalse
<1>8. Silent'
  <2>1. remembered = Nothing => remembered' = Nothing
    BY <1>4, <1>6, NothingStays DEF Now
  <2> QED  BY <1>2, <2>1 DEF IInv, Silent
<1>9. CASE Route = "router"
  <2>1. remembered' = Nothing \/ detached'
    <3>1. Holding = routed
      BY <1>9 DEF Holding
    <3> QED  BY <1>4, <1>6, <1>7, <1>9, <3>1, AllForgotten
  <2> QED  BY <1>3, <1>6, <1>8, <2>1, LeftBehind
<1>10. CASE Route # "router"
  <2>1. remembered' = remembered
    BY <1>5, <1>6, <1>10 DEF Now
  <2>2. Holding' = Holding
    BY <1>2, <1>10 DEF Holding
  <2>3. RouterAway'
    BY <1>1, <1>2, <1>7, <2>1 DEF IInv, RouterAway
  <2>4. RememberedIsHeld'
    BY <1>7, <2>1, <2>2 DEF IInv, RememberedIsHeld, Nothing
  <2> QED  BY <1>3, <1>6, <1>8, <2>3, <2>4 DEF IInv
<1> QED  BY <1>9, <1>10

LEMMA RouterDestroyedKeeps ==
  ASSUME IInv, RouterDestroyed PROVE IInv' /\ Clean(Now, Now')
<1> DEFINE s == ReleaseAll(Now, ResolveTarget)
           x == IF Route' = "none" THEN ReleaseAll(s, ResolveTarget) ELSE s
<1>1. /\ Route \in Routers /\ actionSource' = FALSE /\ actionRouter' \in BOOLEAN
      /\ live' \subseteq live /\ routed' \subseteq routed
      /\ Deliver(x) /\ Detach(TRUE)
      /\ UNCHANGED <<active, gamepad, legacy, target>>
      /\ UNCHANGED <<mapped, deviceId, held, focus, blocked, buttons>>
  BY DEF RouterDestroyed
<1>2. OutsideTypes'
  BY <1>1, DetachTrue DEF IInv, OutsideTypes
<1>3. MappedRoute'
  BY <1>1 DEF IInv, MappedRoute, Routers
<1>4. Sound(s) /\ Releasing(Now, s) /\ s.remembered = Nothing
  BY ReleaseAllKeeps DEF IInv
<1> HIDE DEF s
<1>5. Sound(x) /\ Releasing(Now, x) /\ x.remembered = Nothing
  BY <1>4, ReleaseAllKeeps, ReleasingTwice
<1> HIDE DEF x
<1> QED  BY <1>1, <1>2, <1>3, <1>5, Forgotten

LEMMA GamepadDestroyedKeeps ==
  ASSUME IInv, GamepadDestroyed PROVE IInv' /\ Clean(Now, Now')
<1> DEFINE t == ResolveTarget
           lost == IF Route' = "mapper" THEN {} ELSE mapped
<1>1. PICK s \in Released(Now) :
        LET r == HandleReleases(s, t, focus, lost)
        IN  Deliver(IF gamepad /\ Route' = "none" THEN ReleaseAll(r, t) ELSE r)
  BY DEF GamepadDestroyed
<1> DEFINE r == HandleReleases(s, t, focus, lost)
           x == IF gamepad /\ Route' = "none" THEN ReleaseAll(r, t) ELSE r
<1>2. /\ gamepad => active
      /\ gamepad' = FALSE /\ live' = {} /\ routed' = {}
      /\ buttons' = {} /\ mapped' = mapped \ lost
      /\ Deliver(x) /\ Detach(TRUE)
      /\ UNCHANGED <<active, actionSource, actionRouter, legacy, target, deviceId,
                     held, focus, blocked>>
  BY <1>1 DEF GamepadDestroyed
<1>3. lost \in SUBSET Actions /\ mapped' \subseteq Actions
  BY <1>2 DEF IInv, OutsideTypes
<1>4. OutsideTypes'
  BY <1>2, <1>3, DetachTrue DEF IInv, OutsideTypes
<1>5. MappedRoute'
  BY <1>2 DEF MappedRoute
<1>6. CASE gamepad
  <2>1. Sound(s) /\ Releasing(Now, s) /\ s.remembered = Nothing
    BY <1>2, <1>6, ReleasedKeeps DEF IInv, GamepadConnected
  <2> HIDE DEF t, lost
  <2>2. Sound(r) /\ Releasing(s, r)
    BY <1>3, <2>1, HandleReleasesKeeps
  <2>3. r.remembered = Nothing
    BY <2>1, <2>2, NothingStays
  <2>4. Releasing(Now, r)
    BY <2>1, <2>2, ReleasingTwice
  <2> HIDE DEF r
  <2>5. Sound(x) /\ Releasing(Now, x) /\ x.remembered = Nothing
    BY <2>2, <2>3, <2>4, ReleaseAllKeeps, ReleasingTwice
  <2> HIDE DEF x
  <2> QED  BY <1>2, <1>4, <1>5, <2>5, Forgotten
<1>7. CASE ~gamepad
  <2>1. Route \in {"source", "router", "none"} /\ Route' = Route
    BY <1>2, <1>7 DEF Route
  <2>2. lost = {}
    BY <2>1 DEF IInv, MappedRoute
  <2>3. x = s
    BY <1>7, <2>2 DEF HandleReleases
  <2>4. remembered' = s.remembered /\ Deliver(s)
    BY <1>2, <2>3 DEF Deliver
  <2>5. /\ Sound(s) /\ Releasing(Now, s)
        /\ remembered = Nothing => remembered' = Nothing
        /\ remembered' = Nothing \/ detached'
    BY <1>2, <2>4, MovedAway
  <2>6. Sound(Now)' /\ Clean(Now, Now')
    BY <2>4, <2>5, Delivered, ReleasingIsClean
  <2>7. Silent'
    BY <1>2, <2>1, <2>5 DEF IInv, Silent
  <2> QED  BY <1>4, <1>5, <2>5, <2>6, <2>7, LeftBehind
<1> QED  BY <1>6, <1>7

LEMMA BackendChangedKeeps ==
  ASSUME IInv, BackendChanged PROVE IInv' /\ Clean(Now, Now')
<1> DEFINE x == ReleaseAll(Now, ResolveTarget)
<1>1. /\ Deliver(x) /\ Detach(FALSE)
      /\ UNCHANGED <<settings, mapped, routed, outside, buttons>>
  BY DEF BackendChanged
<1>2. OutsideTypes' /\ MappedRoute'
  BY <1>1, DetachFalse DEF IInv, OutsideTypes, MappedRoute, Route, settings, outside
<1>3. Sound(x) /\ Releasing(Now, x) /\ x.remembered = Nothing
  BY ReleaseAllKeeps DEF IInv
<1> HIDE DEF x
<1> QED  BY <1>1, <1>2, <1>3, Forgotten

(* The handler of the focus, after s.                                      *)
LEMMA FocusMovesKeeps ==
  ASSUME IInv, OutsideTypes', NEW s, Sound(s), Clean(Now, s),
         \A k \in Keys : s.remembered[k] # NoObject => remembered[k] # NoObject,
         NEW t, NEW o, FocusMoves(s, t, o),
         Route' = Route, Holding' = Holding, mapped' = mapped, live' = live
  PROVE  IInv' /\ Clean(Now, Now')
<1> DEFINE x == IF ShouldSuppress(Resolve(t, o), o) THEN ReleaseAll(s, Resolve(t, o))
                ELSE s
<1>1. focus' = o /\ Deliver(x) /\ Detach(FALSE)
  BY DEF FocusMoves
<1>2. /\ Sound(x) /\ Releasing(s, x)
      /\ ShouldSuppress(Resolve(t, o), o) => x.remembered = Nothing
  BY ReleaseAllKeeps, ReleasingSame
<1> HIDE DEF x
<1>3. Clean(Now, x)
  BY <1>2, CleanReleasing
<1>4. /\ Sound(Now)' /\ Clean(Now, Now') /\ remembered' = x.remembered
      /\ \A k \in Keys : remembered'[k] # NoObject => remembered[k] # NoObject
  BY <1>1, <1>2, <1>3, Delivered DEF Deliver, Releasing
<1>5. CASE ShouldSuppress(Resolve(t, o), o)
  <2>1. remembered' = Nothing
    BY <1>2, <1>4, <1>5
  <2> QED  BY <1>4, <2>1, LeftBehind DEF IInv, MappedRoute, Silent
<1>6. CASE ~ShouldSuppress(Resolve(t, o), o)
  <2>1. focus' \notin TextInputs
    BY <1>1, <1>6 DEF ShouldSuppress
  <2> QED  BY <1>1, <1>4, <2>1, DetachFalse, CarriedOn
<1> QED  BY <1>5, <1>6

LEMMA FocusChangedKeeps ==
  ASSUME IInv, NEW o \in Objects \cup {NoObject}, FocusChanged(o)
  PROVE  IInv' /\ Clean(Now, Now')
<1>1. /\ FocusMoves(Now, target, o)
      /\ UNCHANGED <<settings, mapped, routed, live, deviceId, held, blocked, buttons>>
  BY DEF FocusChanged
<1>2. focus' = o /\ Detach(FALSE)
  BY <1>1 DEF FocusMoves
<1>3. OutsideTypes'
  BY <1>1, <1>2, DetachFalse DEF IInv, OutsideTypes, settings
<1>4. Route' = Route /\ Holding' = Holding /\ mapped' = mapped /\ live' = live
  BY <1>1 DEF Route, Holding, settings
<1>5. /\ Sound(Now) /\ Clean(Now, Now)
      /\ \A k \in Keys : Now.remembered[k] # NoObject => remembered[k] # NoObject
  BY DEF IInv, Clean, Now
<1> QED  BY <1>1, <1>3, <1>4, <1>5, FocusMovesKeeps

LEMMA StaysAsIs ==
  ASSUME IInv, OutsideTypes', Route' = Route, Holding' = Holding,
         UNCHANGED <<mapped, live, focus, remembered, down, detached>>
  PROVE  IInv' /\ Clean(Now, Now')
<1>1. Sound(Now)' /\ Clean(Now, Now')
  BY NowSame DEF IInv
<1>2. Silent' /\ MappedRoute' /\ RouterAway' /\ RememberedIsHeld'
  BY DEF IInv, Silent, MappedRoute, RouterAway, RememberedIsHeld
<1> QED  BY <1>1, <1>2 DEF IInv

LEMMA BlockKeeps ==
  ASSUME IInv, Block PROVE IInv' /\ Clean(Now, Now')
<1>1. OutsideTypes'
  BY DEF Block, IInv, OutsideTypes, settings
<1>2. Route' = Route /\ Holding' = Holding
  BY DEF Block, Route, Holding, settings
<1> QED  BY <1>1, <1>2, StaysAsIs DEF Block

LEMMA StutterKeeps ==
  ASSUME IInv, UNCHANGED vars PROVE IInv' /\ Clean(Now, Now')
<1>1. OutsideTypes'
  BY DEF vars, IInv, OutsideTypes, settings, outside
<1>2. Route' = Route /\ Holding' = Holding
  BY DEF vars, Route, Holding, settings, outside
<1> QED  BY <1>1, <1>2, StaysAsIs DEF vars, outside

LEMMA ObjectDestroyedKeeps ==
  ASSUME IInv, NEW o \in Objects, ObjectDestroyed(o)
  PROVE  IInv' /\ Clean(Now, Now')
<1> DEFINE s == [remembered |-> [k \in Keys |-> IF remembered[k] = o THEN Gone
                                                ELSE remembered[k]],
                 down |-> {p \in down : p[1] # o}]
           t == IF target = o THEN NoObject ELSE target
<1>1. /\ target' = t
      /\ IF focus = o THEN FocusMoves(s, t, NoObject)
         ELSE Deliver(s) /\ Detach(FALSE) /\ UNCHANGED focus
      /\ UNCHANGED <<active, gamepad, actionSource, actionRouter, legacy, mapped,
                     routed, live, deviceId, held, blocked, buttons>>
  BY DEF ObjectDestroyed
<1>2. Detach(FALSE) /\ focus' \in {focus, NoObject}
  BY <1>1 DEF FocusMoves
<1>3. OutsideTypes'
  BY <1>1, <1>2, DetachFalse DEF IInv, OutsideTypes
<1>4. Route' = Route /\ Holding' = Holding /\ mapped' = mapped /\ live' = live
  BY <1>1 DEF Route, Holding
<1>5. Sound(Now)
  BY DEF IInv
<1>6. /\ remembered \in [Keys -> Objects \cup {NoObject, Gone}]
      /\ down \in SUBSET (Objects \X Keys)
      /\ \A k \in Keys : remembered[k] \in Objects => <<remembered[k], k>> \in down
  BY <1>5 DEF Sound, Now
<1>7. /\ s.remembered \in [Keys -> Objects \cup {NoObject, Gone}]
      /\ \A k \in Keys : s.remembered[k] = IF remembered[k] = o THEN Gone ELSE remembered[k]
  BY <1>6
<1>8. /\ s.down \in SUBSET (Objects \X Keys)
      /\ s.down \subseteq down
      /\ \A k \in Keys : <<o, k>> \notin s.down
      /\ \A j \in Objects, k \in Keys : j # o /\ <<j, k>> \in down => <<j, k>> \in s.down
  BY <1>6
<1> HIDE DEF s, t
<1>9. Sound(s)
  BY <1>6, <1>7, <1>8, ObjectAssumption DEF Sound
<1>10. Clean(Now, s)
  BY <1>6, <1>7, <1>8, ObjectAssumption DEF Clean, Now
<1>11. \A k \in Keys : s.remembered[k] # NoObject => remembered[k] # NoObject
  BY <1>7, ObjectAssumption
<1>12. CASE focus = o
  BY <1>1, <1>3, <1>4, <1>9, <1>10, <1>11, <1>12, FocusMovesKeeps
<1>13. CASE focus # o
  <2>1. Deliver(s) /\ Detach(FALSE) /\ focus' = focus
    BY <1>1, <1>13
  <2>2. /\ Sound(Now)' /\ Clean(Now, Now')
        /\ \A k \in Keys : remembered'[k] # NoObject => remembered[k] # NoObject
    BY <1>9, <1>10, <1>11, <2>1, Delivered DEF Deliver
  <2> QED  BY <1>3, <1>4, <2>1, <2>2, DetachFalse, CarriedOn
<1> QED  BY <1>12, <1>13

-----------------------------------------------------------------------------
(* The theorems.                                                           *)

LEMMA InitHolds == ASSUME Init PROVE IInv
<1>1. OutsideTypes
  BY DEF Init, OutsideTypes
<1>2. Sound(Now)
  BY ObjectAssumption DEF Init, Sound, Now, Nothing
<1> QED  BY <1>1, <1>2 DEF Init, IInv, Silent, MappedRoute, RouterAway,
            RememberedIsHeld, Nothing

LEMMA NextKeeps ==
  ASSUME IInv, [Next]_vars PROVE IInv' /\ Clean(Now, Now')
<1>1. ASSUME NEW on \in BOOLEAN,
             \/ SetActive(on) \/ SetGamepad(on)
             \/ SetActionSource(on) \/ SetActionRouter(on)
             \/ SetUseLegacyMapper(on)
      PROVE  IInv' /\ Clean(Now, Now')
  <2>1. NoObject \in Explicit \cup {NoObject}
    OBVIOUS
  <2> QED  BY <1>1, <2>1, SetActiveKeeps, SettersKeep
<1>2. ASSUME NEW o \in Explicit \cup {NoObject}, SetTarget(o)
      PROVE  IInv' /\ Clean(Now, Now')
  <2>1. TRUE \in BOOLEAN
    OBVIOUS
  <2> QED  BY <1>2, <2>1, SettersKeep
<1>3. ASSUME NEW on \in BOOLEAN,
             SetServiceActionRouter(on) \/ SetGamepadActionRouter(on)
      PROVE  IInv' /\ Clean(Now, Now')
  BY <1>3, SetServiceActionRouterKeeps, SetGamepadActionRouterKeeps
<1>4. CASE \E d \in Devices : SetDeviceId(d)
  BY <1>4, SetDeviceIdKeeps
<1>5. CASE \E d \in Devices, a \in Actions : Button(d, a)
  BY <1>5, ButtonKeeps
<1>6. CASE \E a \in Actions : Repeat(a)
  BY <1>6, RepeatKeeps
<1>7. CASE \E d \in Devices : Disconnect(d)
  BY <1>7, DisconnectKeeps
<1>8. CASE GamepadDestroyed \/ BackendChanged \/ RouterDestroyed
  BY <1>8, GamepadDestroyedKeeps, BackendChangedKeeps, RouterDestroyedKeeps
<1>9. CASE \E o \in Objects \cup {NoObject} : FocusChanged(o)
  BY <1>9, FocusChangedKeeps
<1>10. CASE \E o \in Objects : ObjectDestroyed(o)
  BY <1>10, ObjectDestroyedKeeps
<1>11. CASE Block
  BY <1>11, BlockKeeps
<1>12. CASE UNCHANGED vars
  BY <1>12, StutterKeeps
<1>13. CASE Setters
  BY <1>1, <1>2, <1>3, <1>4, <1>13 DEF Setters
<1> QED  BY <1>5, <1>6, <1>7, <1>8, <1>9, <1>10, <1>11, <1>12, <1>13 DEF Next

THEOREM Invariance == Spec => []IInv
<1>1. Init => IInv
  BY InitHolds
<1>2. IInv /\ [Next]_vars => IInv'
  BY NextKeeps
<1> QED  BY <1>1, <1>2, PTL DEF Spec

(* Every variable keeps its type; of a key what is remembered is an        *)
(* object, none, or one that is gone.                                      *)
THEOREM TypeCorrect == Spec => []TypeOK
<1>1. IInv => TypeOK
  BY DEF IInv, OutsideTypes, Sound, Now, TypeOK
<1> QED  BY <1>1, Invariance, PTL

(* GamepadKeyNavigation: what m_pressedTargets remembers of a key is an    *)
(* object that saw it pressed, it is empty without a route and while a     *)
(* text input has the focus, and unless a ServiceActionRouter was taken    *)
(* off its device, the device or mapper of the route holds an action of    *)
(* the key.                                                                *)
THEOREM RememberedReal == Spec => []RememberedIsReal
<1>1. IInv => RememberedIsReal
  BY DEF IInv, Sound, Silent, Now, RememberedIsReal, RememberedIsDown
<1> QED  BY <1>1, Invariance, PTL

(* GamepadKeyNavigation: whatever step forgets a key, the key came up at   *)
(* the object where it went down; what goes down is remembered, unless the *)
(* key is down at another object already.                                  *)
THEOREM NoKeyStuck == Spec => NoStuckKey
<1> DEFINE A == /\ \A k \in Keys :
                     remembered[k] \in Objects /\ remembered'[k] # remembered[k] =>
                         <<remembered[k], k>> \notin down'
                /\ \A o \in Objects, k \in Keys :
                     <<o, k>> \in down' \ down =>
                         remembered'[k] = o \/ remembered[k] # NoObject
<1>1. IInv /\ [Next]_vars => [A]_vars
  BY NextKeeps DEF Clean, Now
<1> HIDE DEF A
<1>2. Spec => [][A]_vars
  BY <1>1, Invariance, PTL DEF Spec
<1> QED  BY <1>2 DEF NoStuckKey, A
=============================================================================

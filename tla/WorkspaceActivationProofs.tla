--------------------- MODULE WorkspaceActivationProofs ---------------------
(***************************************************************************)
(* Proofs about WorkspaceActivation, for any number of windows, models and *)
(* nesting of dialogs, with every optional interaction (Uses).             *)
(*                                                                         *)
(* The proof climbs by four inductive invariants, each relying on those    *)
(* before it:                                                              *)
(*   GoodDesk  types, a current workspace, who is hidden  (every instance) *)
(*   Fit       who may be activated and was told so       (every instance) *)
(*   Placed    histories stay at home                 (no pinned windows)  *)
(*   Exact     histories are complete                          (Calm only) *)
(* A handler is an operator from a desk to a desk, so each method of the   *)
(* code has a lemma for each of them; an action is then one application of *)
(* BecomeGood, BecomeFit, BecomePlaced or BecomeExact.  Between two        *)
(* methods of a handler OneShown may fail (doRemoveModel), and a window in *)
(* no model is exempt from Shown (moveSurfaceTo), hence the set S of       *)
(* Shown; likewise a window whose flag has just changed is not recorded    *)
(* yet, hence the set S of Recorded.                                       *)
(***************************************************************************)
EXTENDS WorkspaceActivation, SequenceTheorems, FiniteSetTheorems, TLAPS

(* No two positions of h hold the same value.                               *)
Injective(h) == \A i, j \in DOMAIN h : h[i] = h[j] => i = j

(* The part of the inductive invariant every handler keeps whatever is      *)
(* hidden: the types, a current workspace, distinct models, distinct        *)
(* histories.                                                               *)
OkDesk(d) ==
    /\ d \in Desks
    /\ Len(d.models) > 0
    /\ d.currentIndex \in 0 .. Len(d.models) - 1
    /\ \A i, j \in DOMAIN d.models : d.models[i] = d.models[j] => i = j
    /\ \A i \in DOMAIN d.models : d.models[i] < d.nextId
    /\ \A m \in DOMAIN d.history : Injective(d.history[m])

(* What activation leaves alone                                            *)
Same(d, e) ==
    /\ e.models = d.models /\ e.currentIndex = d.currentIndex
    /\ e.nextId = d.nextId /\ e.visible = d.visible
    /\ e.hidden = d.hidden /\ e.ws = d.ws /\ e.life = d.life

(* RemoveAt of the library drops position i and shifts the rest.            *)
LEMMA RemoveAtOk ==
    ASSUME NEW S, NEW s \in Seq(S), NEW i \in 1 .. Len(s)
    PROVE  /\ RemoveAt(s, i) \in Seq(S)
           /\ Len(RemoveAt(s, i)) = Len(s) - 1
           /\ \A j \in 1 .. Len(s) - 1 :
                 RemoveAt(s, i)[j] = s[IF j < i THEN j ELSE j + 1]
<1> DEFINE a == SubSeq(s, 1, i - 1)
           b == SubSeq(s, i + 1, Len(s))
<1>1. a \in Seq(S) /\ Len(a) = i - 1 /\ \A j \in 1 .. i - 1 : a[j] = s[j]
  BY SubSeqProperties
<1>2. b \in Seq(S) /\ Len(b) = Len(s) - i /\ \A j \in 1 .. Len(s) - i : b[j] = s[i + j]
  BY SubSeqProperties
<1>3. RemoveAt(s, i) = a \o b
  BY DEF RemoveAt
<1> HIDE DEF a, b
<1>4. Len(s) \in Nat
  BY LenProperties
<1>5. /\ a \o b \in Seq(S) /\ Len(a \o b) = Len(a) + Len(b)
      /\ \A j \in 1 .. Len(a) + Len(b) :
            (a \o b)[j] = IF j <= Len(a) THEN a[j] ELSE b[j - Len(a)]
  BY <1>1, <1>2, ConcatProperties
<1>6. ASSUME NEW j \in 1 .. Len(s) - 1
      PROVE  (a \o b)[j] = s[IF j < i THEN j ELSE j + 1]
  <2>1. CASE j < i
    BY <2>1, <1>1, <1>2, <1>4, <1>5
  <2>2. CASE ~(j < i)
    <3>1. j - (i - 1) \in 1 .. Len(s) - i /\ i + (j - (i - 1)) = j + 1
      BY <2>2, <1>4
    <3>2. b[j - (i - 1)] = s[i + (j - (i - 1))]
      BY <3>1, <1>2
    <3>3. (a \o b)[j] = b[j - (i - 1)]
      BY <2>2, <1>1, <1>2, <1>4, <1>5
    <3> QED BY <2>2, <3>1, <3>2, <3>3
  <2> QED BY <2>1, <2>2
<1> QED BY <1>1, <1>2, <1>3, <1>4, <1>5, <1>6

(* forward_list::remove: the window is gone from a history that held it     *)
(* once, and the history still holds no window twice.                       *)
LEMMA WithoutOk ==
    ASSUME NEW h \in Seq(Windows), Injective(h), NEW w \in Windows
    PROVE  /\ Without(h, w) \in Seq(Windows)
           /\ Injective(Without(h, w))
           /\ \A i \in DOMAIN Without(h, w) : Without(h, w)[i] # w
<1>1. CASE \E i \in 1 .. Len(h) : h[i] = w
  <2> DEFINE k == CHOOSE i \in 1 .. Len(h) : h[i] = w
  <2>1. k \in 1 .. Len(h) /\ h[k] = w
    BY <1>1
  <2>2. Without(h, w) = RemoveAt(h, k)
    BY <1>1 DEF Without
  <2> HIDE DEF k
  <2> DEFINE r == RemoveAt(h, k)
  <2>3. /\ r \in Seq(Windows) /\ Len(r) = Len(h) - 1
        /\ \A j \in 1 .. Len(h) - 1 : r[j] = h[IF j < k THEN j ELSE j + 1]
    BY <2>1, RemoveAtOk
  <2> HIDE DEF r
  <2>4. DOMAIN r = 1 .. Len(h) - 1 /\ DOMAIN h = 1 .. Len(h) /\ Len(h) \in Nat
    BY <2>3, LenProperties
  <2>5. Injective(r)
    <3> DEFINE q(j) == IF j < k THEN j ELSE j + 1
    <3>1. SUFFICES ASSUME NEW i \in 1 .. Len(h) - 1, NEW j \in 1 .. Len(h) - 1,
                          r[i] = r[j]
                   PROVE  i = j
      BY <2>4 DEF Injective
    <3>2. q(i) \in 1 .. Len(h) /\ q(j) \in 1 .. Len(h) /\ h[q(i)] = h[q(j)]
      BY <2>1, <2>3, <2>4, <3>1
    <3>3. q(i) = q(j)
      BY <2>4, <3>2 DEF Injective
    <3> QED BY <2>1, <2>4, <3>3
  <2>6. \A i \in DOMAIN r : r[i] # w
    BY <2>1, <2>3, <2>4 DEF Injective
  <2> QED BY <2>2, <2>3, <2>5, <2>6 DEF r
<1>2. CASE ~\E i \in 1 .. Len(h) : h[i] = w
  BY <1>2, LenProperties DEF Without
<1> QED BY <1>1, <1>2

(* Pushing a window in front after removing it keeps a history free of      *)
(* duplicates (WorkspaceModel::pushActivedSurface).                         *)
LEMMA PushOk ==
    ASSUME NEW h \in Seq(Windows), Injective(h), NEW w \in Windows
    PROVE  <<w>> \o Without(h, w) \in Seq(Windows) /\ Injective(<<w>> \o Without(h, w))
<1> DEFINE r == Without(h, w)
<1>1. r \in Seq(Windows) /\ Injective(r) /\ \A i \in DOMAIN r : r[i] # w
  BY WithoutOk
<1> HIDE DEF r
<1>2. /\ <<w>> \o r \in Seq(Windows) /\ Len(<<w>> \o r) = 1 + Len(r)
      /\ \A i \in 1 .. 1 + Len(r) : (<<w>> \o r)[i] = IF i <= 1 THEN w ELSE r[i - 1]
  BY <1>1, ConcatProperties
<1>3. Len(r) \in Nat /\ DOMAIN r = 1 .. Len(r) /\ DOMAIN (<<w>> \o r) = 1 .. 1 + Len(r)
  BY <1>1, <1>2, LenProperties
<1>4. Injective(<<w>> \o r)
  BY <1>1, <1>2, <1>3 DEF Injective
<1> QED BY <1>2, <1>4 DEF r

(* Workspace::pushActivedSurface changes only histories, and rightly.       *)
LEMMA PushActivedOk ==
    ASSUME NEW d, OkDesk(d), NEW w \in Windows
    PROVE  OkDesk(PushActivedSurface(d, w)) /\ Same(d, PushActivedSurface(d, w))
<1> DEFINE H == [m \in DOMAIN d.history |->
        IF m \in HistoriesOf(d, w) THEN <<w>> \o Without(d.history[m], w)
                                   ELSE d.history[m]]
<1>1. d \in Desks /\ d.history \in [Ids \cup {AllId} -> Seq(Windows)]
      /\ \A m \in DOMAIN d.history : Injective(d.history[m])
  BY DEF OkDesk, Desks
<1>2. H \in [Ids \cup {AllId} -> Seq(Windows)] /\ \A m \in DOMAIN H : Injective(H[m])
  BY <1>1, PushOk
<1>3. PushActivedSurface(d, w) = [d EXCEPT !.history = H]
  BY DEF PushActivedSurface
<1> HIDE DEF H
<1> QED BY <1>1, <1>2, <1>3 DEF OkDesk, Desks, Same

(* Workspace::removeActivedSurface changes only histories, and rightly.     *)
LEMMA RemoveActivedOk ==
    ASSUME NEW d, OkDesk(d), NEW w \in Windows
    PROVE  OkDesk(RemoveActivedSurface(d, w)) /\ Same(d, RemoveActivedSurface(d, w))
<1> DEFINE H == [m \in DOMAIN d.history |->
        IF m \in HistoriesOf(d, w) THEN Without(d.history[m], w)
                                   ELSE d.history[m]]
<1>1. d \in Desks /\ d.history \in [Ids \cup {AllId} -> Seq(Windows)]
      /\ \A m \in DOMAIN d.history : Injective(d.history[m])
  BY DEF OkDesk, Desks
<1>2. H \in [Ids \cup {AllId} -> Seq(Windows)] /\ \A m \in DOMAIN H : Injective(H[m])
  BY <1>1, WithoutOk
<1>3. RemoveActivedSurface(d, w) = [d EXCEPT !.history = H]
  BY DEF RemoveActivedSurface
<1> HIDE DEF H
<1> QED BY <1>1, <1>2, <1>3 DEF OkDesk, Desks, Same

(* latestActiveSurface is a window or none, of a current model that         *)
(* exists.                                                                  *)
LEMMA LatestOk ==
    ASSUME NEW d, OkDesk(d)
    PROVE  Current(d) \in Ids /\ LatestActiveSurface(d) \in Windows \cup {NoWindow}
<1>1. d.models \in Seq(Ids) /\ d.currentIndex + 1 \in 1 .. Len(d.models)
  BY LenProperties DEF OkDesk, Desks
<1>2. Current(d) \in Ids
  BY <1>1, ElementOfSeq DEF Current
<1>3. d.history[Current(d)] \in Seq(Windows)
  BY <1>2 DEF OkDesk, Desks
<1> QED BY <1>2, <1>3, HeadTailProperties DEF LatestActiveSurface

(* SurfaceWrapper::setActivate touches only who was told to be active.      *)
LEMMA SetActivateOk ==
    ASSUME NEW d, OkDesk(d), NEW w \in Windows, NEW on \in BOOLEAN
    PROVE  OkDesk(SetActivate(d, w, on)) /\ Same(d, SetActivate(d, w, on))
<1>1. CapableAncestors(d, w) \subseteq Windows
  BY AncestorsAssumption, ElementOfSeq DEF CapableAncestors
<1> DEFINE told == {w} \cup CapableAncestors(d, w)
           F == IF on THEN d.flagged \cup told ELSE d.flagged \ told
<1>2. d \in Desks /\ F \subseteq Windows
  BY <1>1 DEF OkDesk, Desks
<1>3. SetActivate(d, w, on) \in {d, [d EXCEPT !.flagged = F]}
  BY DEF SetActivate
<1> HIDE DEF F
<1> QED BY <1>2, <1>3 DEF OkDesk, Desks, Same

(* Helper::setActivatedSurface leaves models, places and visibility         *)
(* alone.                                                                   *)
LEMMA SetActivatedSurfaceOk ==
    ASSUME NEW d, OkDesk(d), NEW w \in Windows \cup {NoWindow}
    PROVE  OkDesk(SetActivatedSurface(d, w)) /\ Same(d, SetActivatedSurface(d, w))
<1> DEFINE off == IF d.activated = NoWindow THEN d
                  ELSE SetActivate(d, d.activated, FALSE)
           on == IF w = NoWindow THEN off
                 ELSE PushActivedSurface(SetActivate(off, w, TRUE), w)
<1>0. d.activated \in Windows \cup {NoWindow}
  BY DEF OkDesk, Desks
<1>1. OkDesk(off) /\ Same(d, off)
  BY <1>0, SetActivateOk DEF Same
<1> HIDE DEF off
<1>2. OkDesk(on) /\ Same(d, on)
  <2>1. CASE w = NoWindow
    BY <2>1, <1>1
  <2>2. CASE w # NoWindow
    <3>1. OkDesk(SetActivate(off, w, TRUE)) /\ Same(off, SetActivate(off, w, TRUE))
      BY <2>2, <1>1, SetActivateOk
    <3>2. /\ OkDesk(PushActivedSurface(SetActivate(off, w, TRUE), w))
          /\ Same(SetActivate(off, w, TRUE), PushActivedSurface(SetActivate(off, w, TRUE), w))
      BY <2>2, <3>1, PushActivedOk
    <3> QED BY <2>2, <1>1, <3>1, <3>2 DEF Same
  <2> QED BY <2>1, <2>2
<1> HIDE DEF on
<1>3. OkDesk([on EXCEPT !.activated = w]) /\ Same(d, [on EXCEPT !.activated = w])
  BY <1>2 DEF OkDesk, Desks, Same
<1>4. SetActivatedSurface(d, w) \in {d, [on EXCEPT !.activated = w]}
  BY DEF SetActivatedSurface, on, off
<1> QED BY <1>3, <1>4 DEF Same

(* Helper::activateSurface leaves models, places and visibility alone.      *)
LEMMA ActivateSurfaceOk ==
    ASSUME NEW d, OkDesk(d), NEW w \in Windows \cup {NoWindow}
    PROVE  OkDesk(ActivateSurface(d, w)) /\ Same(d, ActivateSurface(d, w))
<1>1. OkDesk(SetActivatedSurface(d, w)) /\ Same(d, SetActivatedSurface(d, w))
  BY SetActivatedSurfaceOk
<1>2. w # NoWindow =>
        OkDesk(PushActivedSurface(d, w)) /\ Same(d, PushActivedSurface(d, w))
  BY PushActivedOk
<1> QED BY <1>1, <1>2 DEF ActivateSurface, Same

(* So does the fallback to the latest window of the current workspace.      *)
LEMMA ActivateLatestOk ==
    ASSUME NEW d, OkDesk(d)
    PROVE  OkDesk(ActivateLatest(d)) /\ Same(d, ActivateLatest(d))
BY LatestOk, ActivateSurfaceOk DEF ActivateLatest

(* So does the slot of requestActive.                                       *)
LEMMA RequestActiveOk ==
    ASSUME NEW d, OkDesk(d), NEW w \in Windows
    PROVE  OkDesk(RequestActive(d, w)) /\ Same(d, RequestActive(d, w))
BY ActivateSurfaceOk, PushActivedOk DEF RequestActive

(* So does the slot of requestInactive.                                     *)
LEMMA RequestInactiveOk ==
    ASSUME NEW d, OkDesk(d), NEW w \in Windows
    PROVE  OkDesk(RequestInactive(d, w)) /\ Same(d, RequestInactive(d, w))
<1>1. OkDesk(RemoveActivedSurface(d, w)) /\ Same(d, RemoveActivedSurface(d, w))
  BY RemoveActivedOk
<1>2. /\ OkDesk(RequestInactive(d, w))
      /\ Same(RemoveActivedSurface(d, w), RequestInactive(d, w))
  BY <1>1, ActivateLatestOk DEF RequestInactive
<1> QED BY <1>1, <1>2 DEF Same

(* So does a change of one of the three capability flags.                   *)
LEMMA UpdateCapabilityOk ==
    ASSUME NEW d, OkDesk(d), NEW w \in Windows, NEW flag \in Full,
           NEW value \in BOOLEAN
    PROVE  /\ OkDesk(UpdateHasActiveCapability(d, w, flag, value))
           /\ Same(d, UpdateHasActiveCapability(d, w, flag, value))
<1> DEFINE e == [d EXCEPT !.caps[w] = IF value THEN @ \cup {flag} ELSE @ \ {flag}]
<1>1. OkDesk(e) /\ Same(d, e)
  <2>1. d \in Desks /\ d.caps \in [Windows -> SUBSET Full]
    BY DEF OkDesk, Desks
  <2> DEFINE C == [d.caps EXCEPT ![w] = IF value THEN d.caps[w] \cup {flag}
                                                ELSE d.caps[w] \ {flag}]
  <2>2. C \in [Windows -> SUBSET Full]
    BY <2>1
  <2>3. e = [d EXCEPT !.caps = C]
    BY <2>1 DEF Desks
  <2> HIDE DEF C, e
  <2> QED BY <2>1, <2>2, <2>3 DEF OkDesk, Desks, Same
<1> HIDE DEF e
<1>2. OkDesk(RequestActive(e, w)) /\ Same(e, RequestActive(e, w))
  BY <1>1, RequestActiveOk
<1>3. OkDesk(RequestInactive(e, w)) /\ Same(e, RequestInactive(e, w))
  BY <1>1, RequestInactiveOk
<1>4. UpdateHasActiveCapability(d, w, flag, value)
        \in {e, RequestActive(e, w), RequestInactive(e, w)}
  BY DEF UpdateHasActiveCapability, e
<1> QED BY <1>1, <1>2, <1>3, <1>4 DEF Same

-----------------------------------------------------------------------------
(* Workspaces.                                                             *)

(* Workspace::current() is one of the models.                               *)
LEMMA CurrentOk ==
    ASSUME NEW d, OkDesk(d)
    PROVE  /\ d.models \in Seq(Ids)
           /\ d.currentIndex + 1 \in 1 .. Len(d.models)
           /\ Len(d.models) \in Nat
           /\ ModelIds(d) = {d.models[i] : i \in 1 .. Len(d.models)}
           /\ ModelIds(d) \subseteq Ids
           /\ Current(d) \in ModelIds(d)
<1>1. d.models \in Seq(Ids) /\ Len(d.models) \in Nat /\ DOMAIN d.models = 1 .. Len(d.models)
  BY LenProperties DEF OkDesk, Desks
<1>2. d.currentIndex + 1 \in 1 .. Len(d.models)
  BY <1>1 DEF OkDesk
<1> QED BY <1>1, <1>2, ElementOfSeq DEF ModelIds, Range, Current

(* Setting the visibility of the models keeps the state well formed.        *)
LEMMA ShowOnlyCurrentOk ==
    ASSUME NEW d, OkDesk(d)
    PROVE  LET e == ShowOnlyCurrent(d)
           IN  /\ OkDesk(e)
               /\ e.models = d.models /\ e.currentIndex = d.currentIndex
               /\ e.ws = d.ws /\ e.life = d.life
<1> DEFINE shown == {Current(d)} \ d.visible
           gone == (d.visible \cap ModelIds(d)) \ {Current(d)}
           V == (d.visible \cup shown) \ gone
           H == {w \in Windows : \/ w \in d.hidden /\ d.ws[w] \notin shown
                                 \/ d.ws[w] \in gone}
<1>1. d \in Desks /\ V \subseteq Ids /\ H \subseteq Windows
  BY CurrentOk DEF OkDesk, Desks
<1>2. ShowOnlyCurrent(d) = [d EXCEPT !.visible = V, !.hidden = H]
  BY <1>1 DEF ShowOnlyCurrent, Desks
<1> HIDE DEF V, H
<1> QED BY <1>1, <1>2 DEF OkDesk, Desks

(* Workspace::setCurrentIndex keeps the state well formed, any argument.    *)
LEMMA SetCurrentIndexOk ==
    ASSUME NEW d, OkDesk(d), NEW i
    PROVE  OkDesk(SetCurrentIndex(d, i))
<1>1. CASE i \notin 0 .. Len(d.models) - 1 \/ i = d.currentIndex
  BY <1>1 DEF SetCurrentIndex
<1>2. CASE ~(i \notin 0 .. Len(d.models) - 1 \/ i = d.currentIndex)
  <2>0. d \in Desks /\ i \in Int /\ i \in 0 .. Len(d.models) - 1
    BY <1>2, CurrentOk DEF OkDesk
  <2>1. OkDesk([d EXCEPT !.currentIndex = i])
    BY <2>0 DEF OkDesk, Desks
  <2> QED BY <1>2, <2>1, ShowOnlyCurrentOk DEF SetCurrentIndex
<1> QED BY <1>1, <1>2

(* Workspace::switchTo keeps the state well formed, any argument.           *)
LEMMA SwitchToOk ==
    ASSUME NEW d, OkDesk(d), NEW i
    PROVE  OkDesk(SwitchTo(d, i))
BY SetCurrentIndexOk, ActivateLatestOk DEF SwitchTo

(* WorkspaceModel::addSurface keeps the state well formed.                  *)
LEMMA ModelAddOk ==
    ASSUME NEW d, OkDesk(d), NEW m \in Ids \cup {AllId}, NEW w \in Windows
    PROVE  OkDesk(ModelAddSurface(d, m, w))
<1> DEFINE W == [d.ws EXCEPT ![w] = m]
           H == IF m \in d.visible \cup {AllId} THEN d.hidden \ {w}
                                                ELSE d.hidden \cup {w}
<1>1. d \in Desks /\ W \in [Windows -> Ids \cup {AllId, NoId}] /\ H \subseteq Windows
  BY DEF OkDesk, Desks
<1>2. ModelAddSurface(d, m, w) = [d EXCEPT !.ws = W, !.hidden = H]
  BY <1>1 DEF ModelAddSurface, Desks
<1> HIDE DEF W, H
<1> QED BY <1>1, <1>2 DEF OkDesk, Desks

(* WorkspaceModel::removeSurface keeps the state well formed.               *)
LEMMA ModelRemoveOk ==
    ASSUME NEW d, OkDesk(d), NEW m, NEW w \in Windows
    PROVE  OkDesk(ModelRemoveSurface(d, m, w))
<1> DEFINE W == [d.ws EXCEPT ![w] = NoId]
           H == [d.history EXCEPT ![m] = Without(d.history[m], w)]
<1>1. /\ d \in Desks /\ W \in [Windows -> Ids \cup {AllId, NoId}]
      /\ d.history \in [Ids \cup {AllId} -> Seq(Windows)]
      /\ \A n \in DOMAIN d.history : Injective(d.history[n])
  BY DEF OkDesk, Desks
<1>2. H \in [Ids \cup {AllId} -> Seq(Windows)] /\ \A n \in DOMAIN H : Injective(H[n])
  BY <1>1, WithoutOk
<1>3. ModelRemoveSurface(d, m, w) = [d EXCEPT !.ws = W, !.hidden = d.hidden \ {w},
                                              !.history = H]
  BY <1>1 DEF ModelRemoveSurface, Desks
<1> DEFINE e == [d EXCEPT !.ws = W, !.hidden = d.hidden \ {w}, !.history = H]
<1> HIDE DEF W, H
<1>4. /\ e.models = d.models /\ e.currentIndex = d.currentIndex
      /\ e.nextId = d.nextId /\ e.history = H
  BY <1>1 DEF Desks
<1>5. e \in Desks
  BY <1>1, <1>2 DEF OkDesk, Desks
<1> HIDE DEF e
<1> QED BY <1>2, <1>3, <1>4, <1>5 DEF OkDesk, e

(* requestCancelMinimize leaves models, places and visibility alone.        *)
LEMMA CancelMinimizeOk ==
    ASSUME NEW d, OkDesk(d), NEW w \in Windows
    PROVE  OkDesk(RequestCancelMinimize(d, w)) /\ Same(d, RequestCancelMinimize(d, w))
BY UpdateCapabilityOk DEF RequestCancelMinimize, Full, Same

(* Helper::forceActivateSurface keeps the state well formed.                *)
LEMMA ForceActivateOk ==
    ASSUME NEW d, OkDesk(d), NEW w \in Windows \cup {NoWindow}
    PROVE  OkDesk(ForceActivateSurface(d, w))
<1>1. CASE w = NoWindow
  BY <1>1 DEF ForceActivateSurface
<1>2. CASE w # NoWindow
  <2> DEFINE c == RequestCancelMinimize(d, w)
             s == IF ShowOnWorkspace(c, w, Current(c)) THEN c
                  ELSE SwitchTo(c, ModelIndexOfSurface(c, w))
  <2>1. OkDesk(c)
    BY <1>2, CancelMinimizeOk
  <2>2. OkDesk(s)
    BY <2>1, SwitchToOk
  <2>3. OkDesk(ActivateSurface(s, w))
    BY <2>2, ActivateSurfaceOk
  <2> QED BY <2>1, <2>3 DEF ForceActivateSurface
<1> QED BY <1>1, <1>2

(* Workspace::moveSurfaceTo keeps the state well formed.                    *)
LEMMA MoveSurfaceOk ==
    ASSUME NEW d, OkDesk(d), NEW w \in Windows, NEW m \in Ids \cup {AllId}
    PROVE  OkDesk(MoveSurface(d, w, m))
<1> DEFINE r == ModelRemoveSurface(d, d.ws[w], w)
           f == IF w \in d.flagged THEN ActivateLatest(r) ELSE r
           t == ModelAddSurface(f, m, w)
<1>1. OkDesk(r)
  BY ModelRemoveOk
<1>2. OkDesk(f)
  BY <1>1, ActivateLatestOk
<1>3. OkDesk(t)
  BY <1>2, ModelAddOk
<1>4. OkDesk(RequestActive(t, w))
  BY <1>3, RequestActiveOk
<1> QED BY <1>3, <1>4 DEF MoveSurface

-----------------------------------------------------------------------------
(* Which windows are hidden.                                               *)

(* Of the windows S, the open ones are in a model that exists (or in        *)
(* all) and hidden exactly when it is not visible; a removed model is       *)
(* not visible.                                                             *)
Shown(d, S) ==
    /\ d.visible \subseteq ModelIds(d)
    /\ \A w \in S : d.life[w] = "open" =>
          /\ d.ws[w] \in ModelIds(d) \cup {AllId}
          /\ w \in d.hidden <=> d.ws[w] \notin d.visible \cup {AllId}

(* The current model, and no other, is visible.                             *)
OneShown(d) == d.visible = {Current(d)}

(* What activation leaves alone is all that visibility depends on.          *)
LEMMA SameShown ==
    ASSUME NEW d, NEW e, Same(d, e), NEW S
    PROVE  /\ Shown(d, S) => Shown(e, S)
           /\ OneShown(d) => OneShown(e)
BY DEF Same, Shown, OneShown, ModelIds, Current

(* After the models' visibilities are set only the current one shows,       *)
(* and its windows with it.                                                 *)
LEMMA ShowOnlyCurrentShown ==
    ASSUME NEW d, OkDesk(d), Shown(d, Windows)
    PROVE  Shown(ShowOnlyCurrent(d), Windows) /\ OneShown(ShowOnlyCurrent(d))
<1> DEFINE e == ShowOnlyCurrent(d)
           shown == {Current(d)} \ d.visible
           gone == (d.visible \cap ModelIds(d)) \ {Current(d)}
<1>1. /\ e.models = d.models /\ e.currentIndex = d.currentIndex
      /\ e.ws = d.ws /\ e.life = d.life
  BY ShowOnlyCurrentOk
<1>2. /\ e.visible = (d.visible \cup shown) \ gone
      /\ e.hidden = {w \in Windows : \/ w \in d.hidden /\ d.ws[w] \notin shown
                                     \/ d.ws[w] \in gone}
  BY DEF ShowOnlyCurrent, OkDesk, Desks
<1>3. Current(e) = Current(d) /\ ModelIds(e) = ModelIds(d)
  BY <1>1 DEF Current, ModelIds
<1>4. e.visible = {Current(d)}
  BY <1>2 DEF Shown
<1>5. Current(d) \in ModelIds(d) /\ AllId \notin ModelIds(d)
  BY CurrentOk DEF Ids, AllId
<1> HIDE DEF e
<1>6. ASSUME NEW w \in Windows, d.life[w] = "open"
      PROVE  w \in e.hidden <=> d.ws[w] \notin {Current(d), AllId}
  BY <1>2, <1>5, <1>6 DEF Shown
<1>7. Shown(e, Windows)
  BY <1>1, <1>3, <1>4, <1>5, <1>6 DEF Shown
<1> QED BY <1>3, <1>4, <1>7 DEF OneShown, e

(* Changing the current index moves the visibility with it.                 *)
LEMMA SetCurrentIndexShown ==
    ASSUME NEW d, OkDesk(d), Shown(d, Windows), OneShown(d), NEW i
    PROVE  Shown(SetCurrentIndex(d, i), Windows) /\ OneShown(SetCurrentIndex(d, i))
<1>1. CASE i \notin 0 .. Len(d.models) - 1 \/ i = d.currentIndex
  BY <1>1 DEF SetCurrentIndex
<1>2. CASE ~(i \notin 0 .. Len(d.models) - 1 \/ i = d.currentIndex)
  <2> DEFINE e == [d EXCEPT !.currentIndex = i]
  <2>0. d \in Desks /\ i \in Int /\ i \in 0 .. Len(d.models) - 1
    BY <1>2, CurrentOk DEF OkDesk
  <2>1. OkDesk(e)
    BY <2>0 DEF OkDesk, Desks
  <2>2. Shown(e, Windows)
    BY <2>0 DEF Shown, ModelIds, Desks
  <2> QED BY <1>2, <2>1, <2>2, ShowOnlyCurrentShown DEF SetCurrentIndex
<1> QED BY <1>1, <1>2

(* Switching workspaces does too.                                           *)
LEMMA SwitchToShown ==
    ASSUME NEW d, OkDesk(d), Shown(d, Windows), OneShown(d), NEW i
    PROVE  Shown(SwitchTo(d, i), Windows) /\ OneShown(SwitchTo(d, i))
<1>1. OkDesk(SetCurrentIndex(d, i))
  BY SetCurrentIndexOk
<1>2. Shown(SetCurrentIndex(d, i), Windows) /\ OneShown(SetCurrentIndex(d, i))
  BY SetCurrentIndexShown
<1> QED BY <1>1, <1>2, ActivateLatestOk, SameShown DEF SwitchTo

(* A window added to a model is hidden or shown as that model is.           *)
LEMMA ModelAddShown ==
    ASSUME NEW d, OkDesk(d), NEW w \in Windows, Shown(d, Windows \ {w}),
           OneShown(d), NEW m \in ModelIds(d) \cup {AllId}
    PROVE  /\ Shown(ModelAddSurface(d, m, w), Windows)
           /\ OneShown(ModelAddSurface(d, m, w))
<1> DEFINE e == ModelAddSurface(d, m, w)
<1>1. /\ e.models = d.models /\ e.currentIndex = d.currentIndex
      /\ e.visible = d.visible /\ e.life = d.life
      /\ e.ws = [d.ws EXCEPT ![w] = m]
      /\ e.hidden = IF m \in d.visible \cup {AllId} THEN d.hidden \ {w}
                                                   ELSE d.hidden \cup {w}
  BY DEF ModelAddSurface, OkDesk, Desks
<1>2. d.ws \in [Windows -> Ids \cup {AllId, NoId}]
  BY DEF OkDesk, Desks
<1> HIDE DEF e
<1>3. Current(e) = Current(d) /\ ModelIds(e) = ModelIds(d)
  BY <1>1 DEF Current, ModelIds
<1>4. Shown(e, Windows)
  BY <1>1, <1>2, <1>3 DEF Shown
<1> QED BY <1>1, <1>3, <1>4 DEF OneShown, e

(* Taking a window out of its model disturbs no other window.               *)
LEMMA ModelRemoveShown ==
    ASSUME NEW d, OkDesk(d), NEW w \in Windows, Shown(d, Windows \ {w}),
           OneShown(d), NEW m
    PROVE  LET e == ModelRemoveSurface(d, m, w)
           IN  /\ Shown(e, Windows \ {w}) /\ OneShown(e)
               /\ ModelIds(e) = ModelIds(d) /\ e.life = d.life
<1> DEFINE e == ModelRemoveSurface(d, m, w)
<1>1. /\ e.models = d.models /\ e.currentIndex = d.currentIndex
      /\ e.visible = d.visible /\ e.life = d.life
      /\ e.ws = [d.ws EXCEPT ![w] = NoId]
      /\ e.hidden = d.hidden \ {w}
  BY DEF ModelRemoveSurface, OkDesk, Desks
<1>2. d.ws \in [Windows -> Ids \cup {AllId, NoId}]
  BY DEF OkDesk, Desks
<1> HIDE DEF e
<1>3. Current(e) = Current(d) /\ ModelIds(e) = ModelIds(d)
  BY <1>1 DEF Current, ModelIds
<1>4. Shown(e, Windows \ {w})
  BY <1>1, <1>2, <1>3 DEF Shown
<1> QED BY <1>1, <1>3, <1>4 DEF OneShown, e

(* Raising a window switches to its workspace and keeps visibility          *)
(* right.                                                                   *)
LEMMA ForceActivateShown ==
    ASSUME NEW d, OkDesk(d), Shown(d, Windows), OneShown(d),
           NEW w \in Windows \cup {NoWindow}
    PROVE  /\ Shown(ForceActivateSurface(d, w), Windows)
           /\ OneShown(ForceActivateSurface(d, w))
<1>1. CASE w = NoWindow
  BY <1>1 DEF ForceActivateSurface
<1>2. CASE w # NoWindow
  <2> DEFINE c == RequestCancelMinimize(d, w)
             s == IF ShowOnWorkspace(c, w, Current(c)) THEN c
                  ELSE SwitchTo(c, ModelIndexOfSurface(c, w))
  <2>1. OkDesk(c) /\ Shown(c, Windows) /\ OneShown(c)
    BY <1>2, CancelMinimizeOk, SameShown
  <2>2. OkDesk(s) /\ Shown(s, Windows) /\ OneShown(s)
    BY <2>1, SwitchToOk, SwitchToShown
  <2>3. Shown(ActivateSurface(s, w), Windows) /\ OneShown(ActivateSurface(s, w))
    BY <2>2, ActivateSurfaceOk, SameShown
  <2> QED BY <2>1, <2>3 DEF ForceActivateSurface
<1> QED BY <1>1, <1>2

(* Moving a window between workspaces keeps visibility right.               *)
LEMMA MoveSurfaceShown ==
    ASSUME NEW d, OkDesk(d), Shown(d, Windows), OneShown(d),
           NEW w \in Windows, NEW m \in ModelIds(d) \cup {AllId}
    PROVE  Shown(MoveSurface(d, w, m), Windows) /\ OneShown(MoveSurface(d, w, m))
<1> DEFINE r == ModelRemoveSurface(d, d.ws[w], w)
           f == IF w \in d.flagged THEN ActivateLatest(r) ELSE r
           t == ModelAddSurface(f, m, w)
<1>0. m \in Ids \cup {AllId} /\ Shown(d, Windows \ {w})
  BY CurrentOk DEF Shown
<1>1. OkDesk(r) /\ Shown(r, Windows \ {w}) /\ OneShown(r) /\ ModelIds(r) = ModelIds(d)
  BY <1>0, ModelRemoveOk, ModelRemoveShown
<1> HIDE DEF r
<1>2. OkDesk(f) /\ Shown(f, Windows \ {w}) /\ OneShown(f) /\ ModelIds(f) = ModelIds(d)
  <2>1. OkDesk(ActivateLatest(r)) /\ Same(r, ActivateLatest(r))
    BY <1>1, ActivateLatestOk
  <2>2. /\ Shown(ActivateLatest(r), Windows \ {w}) /\ OneShown(ActivateLatest(r))
        /\ ModelIds(ActivateLatest(r)) = ModelIds(d)
    BY <1>1, <2>1, SameShown DEF Same, ModelIds
  <2> QED BY <1>1, <2>1, <2>2
<1> HIDE DEF f
<1>3. OkDesk(t) /\ Shown(t, Windows) /\ OneShown(t)
  BY <1>0, <1>2, ModelAddOk, ModelAddShown
<1> HIDE DEF t
<1>4. Shown(RequestActive(t, w), Windows) /\ OneShown(RequestActive(t, w))
  BY <1>3, RequestActiveOk, SameShown
<1> QED BY <1>3, <1>4 DEF MoveSurface, r, f, t

-----------------------------------------------------------------------------
(* Making, removing and moving models.                                     *)

(* indexOf finds a member.                                                  *)
LEMMA IndexOfOk ==
    ASSUME NEW S, NEW s \in Seq(S), NEW m \in Range(s)
    PROVE  IndexOf(s, m) \in 0 .. Len(s) - 1 /\ s[IndexOf(s, m) + 1] = m
<1>1. DOMAIN s = 1 .. Len(s) /\ Len(s) \in Nat
  BY LenProperties
<1>2. \E i \in 1 .. Len(s) : s[i] = m
  BY <1>1 DEF Range
<1> DEFINE k == CHOOSE i \in 1 .. Len(s) : s[i] = m
<1>3. k \in 1 .. Len(s) /\ s[k] = m
  BY <1>2
<1>4. IndexOf(s, m) = k - 1
  BY DEF IndexOf
<1> HIDE DEF k
<1> QED BY <1>1, <1>3, <1>4

(* Removing one of distinct entries leaves the others, still distinct.      *)
LEMMA RestOk ==
    ASSUME NEW S, NEW s \in Seq(S), Injective(s), NEW i \in 1 .. Len(s)
    PROVE  LET r == RemoveAt(s, i)
           IN  /\ r \in Seq(S) /\ Len(r) = Len(s) - 1 /\ Injective(r)
               /\ Range(r) = Range(s) \ {s[i]}
<1> DEFINE r == RemoveAt(s, i)
           q(j) == IF j < i THEN j ELSE j + 1
           p(k) == IF k < i THEN k ELSE k - 1
<1>1. /\ r \in Seq(S) /\ Len(r) = Len(s) - 1
      /\ \A j \in 1 .. Len(s) - 1 : r[j] = s[q(j)]
  BY RemoveAtOk
<1> HIDE DEF r
<1>2. DOMAIN s = 1 .. Len(s) /\ Len(s) \in Nat /\ DOMAIN r = 1 .. Len(s) - 1
  BY <1>1, LenProperties
<1>3. \A j \in 1 .. Len(s) - 1 : q(j) \in 1 .. Len(s) /\ q(j) # i
  BY <1>2
<1>4. \A k \in 1 .. Len(s) : k # i => p(k) \in 1 .. Len(s) - 1 /\ q(p(k)) = k
  BY <1>2
<1>5. \A j, k \in 1 .. Len(s) - 1 : q(j) = q(k) => j = k
  BY <1>2
<1>6. \A j, k \in 1 .. Len(s) : s[j] = s[k] => j = k
  BY <1>2 DEF Injective
<1> HIDE DEF q, p
<1>7. Injective(r)
  BY <1>1, <1>2, <1>3, <1>5, <1>6 DEF Injective
<1>8. Range(r) \subseteq Range(s) \ {s[i]}
  BY <1>1, <1>2, <1>3, <1>6 DEF Range
<1>9. Range(s) \ {s[i]} \subseteq Range(r)
  <2>1. SUFFICES ASSUME NEW k \in 1 .. Len(s), k # i
                 PROVE  s[k] \in Range(r)
    BY <1>2 DEF Range
  <2>2. p(k) \in DOMAIN r /\ r[p(k)] = s[k]
    BY <1>1, <1>2, <1>4, <2>1
  <2> QED BY <2>2 DEF Range
<1> QED BY <1>1, <1>7, <1>8, <1>9 DEF r

(* Workspace::moveRows only permutes the models.                            *)
LEMMA MoveRowOk ==
    ASSUME NEW S, NEW s \in Seq(S), Injective(s),
           NEW f \in 0 .. Len(s) - 1, NEW t \in 0 .. Len(s) - 1
    PROVE  LET r == MoveRow(s, f, t)
           IN  /\ r \in Seq(S) /\ Len(r) = Len(s) /\ Injective(r)
               /\ Range(r) = Range(s)
<1> DEFINE r == MoveRow(s, f, t)
           q(j) == IF j = t + 1 THEN f + 1
                   ELSE IF f < j /\ j <= t THEN j + 1
                   ELSE IF t + 1 < j /\ j <= f + 1 THEN j - 1 ELSE j
           p(k) == IF k = f + 1 THEN t + 1
                   ELSE IF f + 1 < k /\ k <= t + 1 THEN k - 1
                   ELSE IF t < k /\ k <= f THEN k + 1 ELSE k
<1>1. DOMAIN s = 1 .. Len(s) /\ Len(s) \in Nat /\ DOMAIN r = 1 .. Len(s)
  BY LenProperties DEF MoveRow
<1>2. \A j \in 1 .. Len(s) : q(j) \in 1 .. Len(s)
  BY <1>1
<1>3. \A j \in 1 .. Len(s) : r[j] = s[q(j)]
  BY <1>1 DEF MoveRow
<1>4. \A j, k \in 1 .. Len(s) : q(j) = q(k) => j = k
  BY <1>1
<1>5. \A k \in 1 .. Len(s) : p(k) \in 1 .. Len(s) /\ q(p(k)) = k
  BY <1>1
<1>6. \A j, k \in 1 .. Len(s) : s[j] = s[k] => j = k
  BY <1>1 DEF Injective
<1>7. r = [j \in 1 .. Len(s) |-> r[j]]
  BY DEF MoveRow
<1> HIDE DEF q, p, r
<1>8. r \in [1 .. Len(s) -> S]
  BY <1>2, <1>3, <1>7, ElementOfSeq
<1>9. r \in Seq(S) /\ Len(r) = Len(s)
  BY <1>1, <1>8, SeqDef, LenProperties
<1>10. Injective(r)
  BY <1>1, <1>2, <1>3, <1>4, <1>6 DEF Injective
<1>11. Range(r) \subseteq Range(s)
  BY <1>1, <1>2, <1>3 DEF Range
<1>12. Range(s) \subseteq Range(r)
  <2>1. SUFFICES ASSUME NEW k \in 1 .. Len(s)
                 PROVE  s[k] \in Range(r)
    BY <1>1 DEF Range
  <2>2. p(k) \in DOMAIN r /\ r[p(k)] = s[k]
    BY <1>1, <1>3, <1>5
  <2> QED BY <2>2 DEF Range
<1> QED BY <1>9, <1>10, <1>11, <1>12 DEF r

(* Moving a model keeps the current one current, so visibility stays        *)
(* right.                                                                   *)
LEMMA DoMoveModelOk ==
    ASSUME NEW d, OkDesk(d), Shown(d, Windows), OneShown(d),
           NEW f \in 0 .. Len(d.models) - 1, NEW t \in 0 .. Len(d.models) - 1
    PROVE  LET e == DoMoveModel(d, f, t)
           IN  OkDesk(e) /\ Shown(e, Windows) /\ OneShown(e)
<1> DEFINE e == DoMoveModel(d, f, t)
           r == MoveRow(d.models, f, t)
           c == IndexOf(r, Current(d))
<1>1. /\ d.models \in Seq(Ids) /\ Current(d) \in Range(d.models)
      /\ Injective(d.models) /\ \A i \in DOMAIN d.models : d.models[i] < d.nextId
  BY CurrentOk DEF ModelIds, OkDesk, Injective
<1>2. /\ r \in Seq(Ids) /\ Len(r) = Len(d.models) /\ Injective(r)
      /\ Range(r) = Range(d.models)
  BY <1>1, MoveRowOk
<1> HIDE DEF r
<1>3. c \in 0 .. Len(r) - 1 /\ r[c + 1] = Current(d)
  BY <1>1, <1>2, IndexOfOk
<1>4. \A i \in DOMAIN r : r[i] < d.nextId
  BY <1>1, <1>2 DEF Range
<1>5. e = [d EXCEPT !.models = r, !.currentIndex = c]
  BY DEF DoMoveModel, r
<1> HIDE DEF c, e
<1>6. /\ e.models = r /\ e.currentIndex = c /\ e.nextId = d.nextId
      /\ e.visible = d.visible /\ e.hidden = d.hidden /\ e.ws = d.ws
      /\ e.life = d.life /\ e.history = d.history
  BY <1>5 DEF OkDesk, Desks
<1>7. e \in Desks
  <2>1. c \in Int /\ d \in Desks
    BY <1>2, <1>3, LenProperties DEF OkDesk
  <2> QED BY <2>1, <1>2, <1>5 DEF Desks
<1>8. OkDesk(e)
  BY <1>2, <1>3, <1>4, <1>6, <1>7 DEF OkDesk, Injective
<1>9. Current(e) = Current(d) /\ ModelIds(e) = ModelIds(d)
  BY <1>2, <1>3, <1>6 DEF Current, ModelIds
<1> QED BY <1>6, <1>8, <1>9 DEF Shown, OneShown, e

(* The first half of doRemoveModel leaves a current model, possibly one     *)
(* not yet visible.                                                         *)
LEMMA WithoutModelOk ==
    ASSUME NEW d, OkDesk(d), Shown(d, Windows), Len(d.models) > 1,
           NEW i \in 0 .. Len(d.models) - 1
    PROVE  LET e == WithoutModel(d, i)
           IN  /\ OkDesk(e)
               /\ ModelIds(e) = ModelIds(d) \ {d.models[i + 1]}
               /\ e.visible = d.visible \ {d.models[i + 1]}
               /\ e.hidden = d.hidden /\ e.ws = d.ws /\ e.life = d.life
<1> DEFINE e == WithoutModel(d, i)
           gone == d.models[i + 1]
           r == RemoveAt(d.models, i + 1)
           V == d.visible \ {gone}
           H == [d.history EXCEPT ![gone] = <<>>]
           c == IF d.currentIndex # i THEN IndexOf(r, Current(d))
                ELSE IF d.currentIndex < Len(r) THEN d.currentIndex
                ELSE Len(r) - 1
<1>1. /\ d \in Desks /\ d.models \in Seq(Ids) /\ Len(d.models) \in Nat
      /\ d.currentIndex \in 0 .. Len(d.models) - 1
      /\ Injective(d.models) /\ \A j \in DOMAIN d.models : d.models[j] < d.nextId
      /\ i + 1 \in 1 .. Len(d.models)
      /\ DOMAIN d.models = 1 .. Len(d.models)
  BY CurrentOk, LenProperties DEF OkDesk, Injective
<1>2. /\ r \in Seq(Ids) /\ Len(r) = Len(d.models) - 1 /\ Injective(r)
      /\ Range(r) = Range(d.models) \ {gone}
  BY <1>1, RestOk
<1> HIDE DEF r
<1>3. c \in Int /\ c \in 0 .. Len(r) - 1
  <2>1. CASE d.currentIndex # i
    <3>1. Current(d) # gone
      BY <2>1, <1>1 DEF Current, Injective
    <3>2. Current(d) \in Range(r)
      BY <3>1, <1>2, CurrentOk DEF ModelIds
    <3>3. IndexOf(r, Current(d)) \in 0 .. Len(r) - 1
      BY <3>2, <1>2, IndexOfOk
    <3> QED BY <2>1, <3>3, <1>1, <1>2
  <2>2. CASE d.currentIndex = i
    BY <2>2, <1>1, <1>2
  <2> QED BY <2>1, <2>2
<1>4. \A j \in DOMAIN r : r[j] < d.nextId
  BY <1>1, <1>2 DEF Range
<1>5. H \in [Ids \cup {AllId} -> Seq(Windows)] /\ \A m \in DOMAIN H : Injective(H[m])
  <2>1. /\ d.history \in [Ids \cup {AllId} -> Seq(Windows)]
        /\ \A m \in DOMAIN d.history : Injective(d.history[m])
    BY DEF OkDesk, Desks
  <2>2. <<>> \in Seq(Windows) /\ DOMAIN <<>> = {}
    BY EmptySeq
  <2> QED BY <2>1, <2>2 DEF Injective
<1>6. e = [d EXCEPT !.models = r, !.visible = V, !.history = H, !.currentIndex = c]
  BY <1>1 DEF WithoutModel, r, Desks
<1>7. V \subseteq Ids
  BY <1>1 DEF Desks
<1>8. gone \in Ids
  BY <1>1, ElementOfSeq
<1> HIDE DEF c, e, H, V, gone
<1>9. /\ e.models = r /\ e.currentIndex = c /\ e.nextId = d.nextId
      /\ e.visible = V /\ e.hidden = d.hidden /\ e.ws = d.ws
      /\ e.life = d.life /\ e.history = H
  BY <1>1, <1>6 DEF Desks
<1>10. e \in Desks
  BY <1>1, <1>2, <1>3, <1>5, <1>6, <1>7 DEF Desks
<1>11. OkDesk(e)
  BY <1>1, <1>2, <1>3, <1>4, <1>5, <1>9, <1>10 DEF OkDesk, Injective
<1> QED BY <1>2, <1>9, <1>11 DEF ModelIds, e, V, gone

(* The middle of doRemoveModel: its windows are in the workspace that is    *)
(* current now, whose history is h.                                         *)
Resettled(d, i, h) ==
    LET gone == d.models[i + 1]
        moved == {w \in Windows : d.ws[w] = gone}
        e == WithoutModel(d, i)
        cur == Current(e)
    IN  [e EXCEPT !.ws = [w \in Windows |-> IF w \in moved THEN cur ELSE e.ws[w]],
                  !.hidden = IF cur \in e.visible THEN e.hidden \ moved
                                                  ELSE e.hidden \cup moved,
                  !.history = [e.history EXCEPT ![cur] = h]]

LEMMA ResettledOk ==
    ASSUME NEW d, OkDesk(d), Shown(d, Windows), Len(d.models) > 1,
           NEW i \in 0 .. Len(d.models) - 1,
           NEW h \in Orders
    PROVE  LET e == WithoutModel(d, i)
               cur == Current(e)
               g == Resettled(d, i, h)
           IN  /\ OkDesk(g) /\ Shown(g, Windows)
               /\ DoRemoveModel(d, i, h) = ShowOnlyCurrent(ActivateLatest(g))
               /\ g.models = e.models /\ Current(g) = cur /\ cur \in Ids
               /\ g.ws = [w \in Windows |-> IF d.ws[w] = d.models[i + 1] THEN cur
                                            ELSE d.ws[w]]
               /\ g.history = [e.history EXCEPT ![cur] = h]
               /\ g.life = d.life /\ g.caps = d.caps /\ g.mode = d.mode
               /\ g.activated = d.activated /\ g.flagged = d.flagged
<1> DEFINE gone == d.models[i + 1]
           moved == {w \in Windows : d.ws[w] = gone}
           e == WithoutModel(d, i)
           cur == Current(e)
           W == [w \in Windows |-> IF w \in moved THEN cur ELSE e.ws[w]]
           D == IF cur \in e.visible THEN e.hidden \ moved ELSE e.hidden \cup moved
           H == [e.history EXCEPT ![cur] = h]
           g == [e EXCEPT !.ws = W, !.hidden = D, !.history = H]
<1>1. /\ OkDesk(e) /\ ModelIds(e) = ModelIds(d) \ {gone}
      /\ e.visible = d.visible \ {gone}
      /\ e.hidden = d.hidden /\ e.ws = d.ws /\ e.life = d.life
  BY WithoutModelOk
<1>2. DoRemoveModel(d, i, h) = ShowOnlyCurrent(ActivateLatest(g))
  BY <1>1 DEF DoRemoveModel, OkDesk, Desks
<1>2a. g = Resettled(d, i, h)
  BY DEF Resettled
<1>2b. e.caps = d.caps /\ e.mode = d.mode /\ e.activated = d.activated
       /\ e.flagged = d.flagged
  BY DEF WithoutModel, OkDesk, Desks
<1>3. h \in Seq(Windows) /\ Injective(h)
  <2>1. PICK n \in Nat : h \in [1 .. n -> Windows]
    BY WindowsAssumption, FS_CardinalityType DEF Orders
  <2> QED BY <2>1, SeqDef DEF Orders, Injective
<1> HIDE DEF e
<1>4. e \in Desks /\ cur \in Ids /\ cur \in ModelIds(e)
  BY <1>1, CurrentOk DEF OkDesk
<1>5. W \in [Windows -> Ids \cup {AllId, NoId}] /\ D \subseteq Windows
  BY <1>4 DEF Desks
<1>6. H \in [Ids \cup {AllId} -> Seq(Windows)] /\ \A m \in DOMAIN H : Injective(H[m])
  <2>1. /\ e.history \in [Ids \cup {AllId} -> Seq(Windows)]
        /\ \A m \in DOMAIN e.history : Injective(e.history[m])
    BY <1>1 DEF OkDesk, Desks
  <2> QED BY <2>1, <1>3
<1> HIDE DEF W, D, H, cur
<1>7. /\ g.models = e.models /\ g.currentIndex = e.currentIndex
      /\ g.nextId = e.nextId /\ g.visible = e.visible /\ g.life = e.life
      /\ g.ws = W /\ g.hidden = D /\ g.history = H
      /\ g.caps = e.caps /\ g.mode = e.mode /\ g.activated = e.activated
      /\ g.flagged = e.flagged
  BY <1>4 DEF Desks
<1>8. g \in Desks
  BY <1>4, <1>5, <1>6 DEF Desks
<1> HIDE DEF g
<1>9. OkDesk(g)
  BY <1>1, <1>6, <1>7, <1>8 DEF OkDesk
<1>10. ModelIds(g) = ModelIds(e)
  BY <1>7 DEF ModelIds
<1>11. ASSUME NEW w \in Windows, g.life[w] = "open"
       PROVE  /\ g.ws[w] \in ModelIds(g) \cup {AllId}
              /\ w \in g.hidden <=> g.ws[w] \notin g.visible \cup {AllId}
  <2>0. /\ d.ws[w] \in ModelIds(d) \cup {AllId}
        /\ w \in d.hidden <=> d.ws[w] \notin d.visible \cup {AllId}
    BY <1>1, <1>7, <1>11 DEF Shown
  <2>1. CASE w \in moved
    BY <2>1, <1>1, <1>4, <1>7, <1>10 DEF W, D, Ids, AllId
  <2>2. CASE w \notin moved
    BY <2>0, <2>2, <1>1, <1>7, <1>10 DEF W, D
  <2> QED BY <2>1, <2>2
<1>12. Shown(g, Windows)
  BY <1>1, <1>4, <1>7, <1>10, <1>11 DEF Shown
<1>13. W = [w \in Windows |-> IF d.ws[w] = gone THEN cur ELSE d.ws[w]]
  BY <1>1 DEF W
<1>14. Current(g) = cur
  BY <1>7 DEF Current, cur
<1> QED BY <1>1, <1>2, <1>2a, <1>2b, <1>4, <1>7, <1>9, <1>12, <1>13, <1>14
       DEF H, e, cur

(* doRemoveModel as a whole: the windows move to the new current            *)
(* workspace and it is made visible.                                        *)
LEMMA DoRemoveModelOk ==
    ASSUME NEW d, OkDesk(d), Shown(d, Windows), OneShown(d), Len(d.models) > 1,
           NEW i \in 0 .. Len(d.models) - 1,
           NEW h \in Orders
    PROVE  LET e == DoRemoveModel(d, i, h)
           IN  OkDesk(e) /\ Shown(e, Windows) /\ OneShown(e)
<1> DEFINE g == Resettled(d, i, h)
<1>1. /\ OkDesk(g) /\ Shown(g, Windows)
      /\ DoRemoveModel(d, i, h) = ShowOnlyCurrent(ActivateLatest(g))
  BY ResettledOk
<1> HIDE DEF g
<1>2. OkDesk(ActivateLatest(g)) /\ Shown(ActivateLatest(g), Windows)
  BY <1>1, ActivateLatestOk, SameShown
<1> QED BY <1>1, <1>2, ShowOnlyCurrentOk, ShowOnlyCurrentShown

-----------------------------------------------------------------------------
(* The inductive invariant, and that every action keeps it.                *)

(* The inductive invariant, of a desk.                                      *)
GoodDesk(d) == OkDesk(d) /\ Shown(d, Windows) /\ OneShown(d)

(* The inductive invariant, of the state.                                   *)
Inv == GoodDesk(desk)

(* A handler that ends in a good desk keeps the invariant.                  *)
LEMMA BecomeGood ==
    ASSUME NEW d, GoodDesk(d), Become(d)
    PROVE  Inv'
<1>1. d \in Desks
  BY DEF GoodDesk, OkDesk
<1>2. desk' = d
  BY <1>1 DEF Become, desk, Desks
<1> QED BY <1>2 DEF Inv

(* The mode matters to nothing in the invariant.                            *)
LEMMA ModeGood ==
    ASSUME NEW d, GoodDesk(d), NEW n \in Modes
    PROVE  GoodDesk([d EXCEPT !.mode = n])
<1> DEFINE e == [d EXCEPT !.mode = n]
<1>1. OkDesk(e) /\ Same(d, e)
  BY DEF GoodDesk, OkDesk, Desks, Same
<1> QED BY <1>1, SameShown DEF GoodDesk

(* A change of a capability flag keeps the invariant.                       *)
LEMMA UpdateCapabilityGood ==
    ASSUME NEW d, GoodDesk(d), NEW w \in Windows, NEW flag \in Full,
           NEW value \in BOOLEAN
    PROVE  GoodDesk(UpdateHasActiveCapability(d, w, flag, value))
BY UpdateCapabilityOk, SameShown DEF GoodDesk

(* Activation keeps the invariant.                                          *)
LEMMA ActivateGood ==
    ASSUME NEW d, GoodDesk(d), NEW w \in Windows \cup {NoWindow}
    PROVE  GoodDesk(ActivateSurface(d, w)) /\ GoodDesk(ActivateLatest(d))
BY ActivateSurfaceOk, ActivateLatestOk, SameShown DEF GoodDesk

(* forceActivateSurface keeps the invariant.                                *)
LEMMA ForceActivateGood ==
    ASSUME NEW d, GoodDesk(d), NEW w \in Windows \cup {NoWindow}
    PROVE  GoodDesk(ForceActivateSurface(d, w))
BY ForceActivateOk, ForceActivateShown DEF GoodDesk

(* Multitaskview::exit keeps the invariant.                                 *)
LEMMA LeaveMultitaskviewGood ==
    ASSUME NEW d, GoodDesk(d), NEW w \in Windows \cup {NoWindow}
    PROVE  GoodDesk(LeaveMultitaskview(d, w))
<1> DEFINE n == [d EXCEPT !.mode = "Normal"]
<1>1. GoodDesk(n)
  BY ModeGood DEF Modes
<1> HIDE DEF n
<1>2. LatestActiveSurface(n) \in Windows \cup {NoWindow}
  BY <1>1, LatestOk DEF GoodDesk
<1> QED BY <1>1, <1>2, ForceActivateGood DEF LeaveMultitaskview, n

(* The models made at start satisfy the invariant.                          *)
LEMMA InitGood == Init => Inv
<1> SUFFICES ASSUME Init PROVE Inv
  OBVIOUS
<1>1. /\ models \in Seq(Ids) /\ Len(models) = NumWorkspace /\ Injective(models)
      /\ \A i \in DOMAIN models : models[i] < nextId
  <2>1. models \in [1 .. NumWorkspace -> Ids] /\ NumWorkspace \in Nat
    BY NumAssumption DEF Init, Ids
  <2>2. models \in Seq(Ids) /\ Len(models) = NumWorkspace
    BY <2>1, IsASeq, LenProperties
  <2> QED BY <2>1, <2>2, NumAssumption DEF Init, Injective
<1>2. currentIndex \in Int /\ currentIndex \in 0 .. Len(models) - 1 /\ Len(models) > 0
  BY <1>1, NumAssumption DEF Init
<1>3. /\ history \in [Ids \cup {AllId} -> Seq(Windows)]
      /\ \A m \in DOMAIN history : Injective(history[m])
  <2>1. <<>> \in Seq(Windows) /\ DOMAIN <<>> = {}
    BY EmptySeq
  <2> QED BY <2>1 DEF Init, Injective
<1>4. desk \in Desks
  <2>1. nextId \in 0 .. MaxId /\ visible \subseteq Ids
    BY <1>2, NumAssumption DEF Init, Ids
  <2>2. /\ hidden \subseteq Windows /\ flagged \subseteq Windows
        /\ activated \in Windows \cup {NoWindow} /\ mode \in Modes
        /\ ws \in [Windows -> Ids \cup {AllId, NoId}]
        /\ caps \in [Windows -> SUBSET Full]
        /\ life \in [Windows -> {"new", "open", "removed"}]
    BY DEF Init, Modes, Full
  <2> QED BY <1>1, <1>2, <1>3, <2>1, <2>2 DEF desk, Desks
<1>5. OkDesk(desk)
  BY <1>1, <1>2, <1>3, <1>4 DEF OkDesk, desk, Injective
<1>6. Current(desk) = currentIndex /\ currentIndex \in ModelIds(desk)
  BY <1>1, <1>2, NumAssumption DEF Current, ModelIds, Range, desk, Init
<1> QED BY <1>5, <1>6 DEF Inv, GoodDesk, Shown, OneShown, desk, Init

(* The actions of the clients keep the invariant.                           *)
LEMMA WindowsComeAndGo ==
    ASSUME Inv, NEW w \in Windows,
           \/ OpenWindow(w) \/ MapWindow(w) \/ UnmapWindow(w) \/ Minimize(w)
           \/ CancelMinimize(w) \/ RemoveWindow(w)
    PROVE  Inv'
<1> USE DEF Inv
<1>0. {"MappedOrSplash", "UnMinimized", "HasInitializeContainer"} \subseteq Full
  BY DEF Full
<1>1. CASE OpenWindow(w)
  <2> DEFINE a == ModelAddSurface(desk, Current(desk), w)
             e == [a EXCEPT !.life[w] = "open",
                            !.caps[w] = @ \cup {"HasInitializeContainer"}]
  <2>1. Current(desk) \in ModelIds(desk) \cup {AllId} /\ Current(desk) \in Ids \cup {AllId}
    BY CurrentOk DEF GoodDesk
  <2>2. OkDesk(a) /\ Shown(a, Windows) /\ OneShown(a)
    <3>1. Shown(desk, Windows \ {w})
      BY DEF GoodDesk, Shown
    <3> QED BY <2>1, <3>1, ModelAddOk, ModelAddShown DEF GoodDesk
  <2>3. /\ e.models = a.models /\ e.currentIndex = a.currentIndex
        /\ e.visible = a.visible /\ e.hidden = a.hidden /\ e.ws = a.ws
        /\ OkDesk(e) /\ \A v \in Windows \ {w} : e.life[v] = a.life[v]
    BY <1>0, <2>2 DEF OkDesk, Desks
  <2>4. /\ a.ws[w] = Current(desk) /\ w \notin a.hidden
        /\ a.visible = visible /\ ModelIds(a) = ModelIds(desk)
    BY DEF ModelAddSurface, desk, GoodDesk, OkDesk, Desks, OneShown, ModelIds
  <2>5. /\ ModelIds(e) = ModelIds(a) /\ Current(e) = Current(a)
        /\ visible = {Current(desk)}
    BY <2>3 DEF ModelIds, Current, GoodDesk, OneShown, desk
  <2>6. GoodDesk(e)
    BY <2>1, <2>2, <2>3, <2>4, <2>5 DEF GoodDesk, Shown, OneShown
  <2> QED BY <1>1, <2>6, BecomeGood DEF OpenWindow
<1>2. CASE MapWindow(w)
  BY <1>0, <1>2, UpdateCapabilityGood, BecomeGood DEF MapWindow
<1>3. CASE UnmapWindow(w)
  BY <1>0, <1>3, UpdateCapabilityGood, BecomeGood DEF UnmapWindow
<1>4. CASE Minimize(w)
  BY <1>0, <1>4, UpdateCapabilityGood, BecomeGood DEF Minimize
<1>5. CASE CancelMinimize(w)
  <2>1. GoodDesk(RequestCancelMinimize(desk, w))
    BY CancelMinimizeOk, SameShown DEF GoodDesk
  <2> QED BY <1>5, <2>1, BecomeGood DEF CancelMinimize
<1>6. CASE RemoveWindow(w)
  <2> DEFINE a == [desk EXCEPT !.life[w] = "removed"]
             r == UpdateHasActiveCapability(a, w, "HasInitializeContainer", FALSE)
             e == ModelRemoveSurface(r, ws[w], w)
  <2>1. GoodDesk(a) /\ a.life[w] = "removed"
    <3>1. /\ a.models = models /\ a.currentIndex = currentIndex
          /\ a.visible = visible /\ a.hidden = hidden /\ a.ws = ws
          /\ OkDesk(a) /\ a.life = [life EXCEPT ![w] = "removed"]
          /\ life \in [Windows -> {"new", "open", "removed"}]
      BY DEF OkDesk, Desks, GoodDesk, desk
    <3>2. ModelIds(a) = ModelIds(desk) /\ Current(a) = Current(desk)
      BY <3>1 DEF ModelIds, Current, desk
    <3> QED BY <3>1, <3>2 DEF GoodDesk, Shown, OneShown, desk
  <2> HIDE DEF a
  <2>2. GoodDesk(r) /\ r.life[w] = "removed"
    BY <1>0, <2>1, UpdateCapabilityOk, UpdateCapabilityGood DEF GoodDesk, Same
  <2> HIDE DEF r
  <2>3. Shown(r, Windows \ {w})
    BY <2>2 DEF GoodDesk, Shown
  <2>4. /\ OkDesk(e) /\ Shown(e, Windows \ {w}) /\ OneShown(e)
        /\ e.life[w] = "removed"
    BY <2>2, <2>3, ModelRemoveOk, ModelRemoveShown DEF GoodDesk
  <2>5. GoodDesk(e)
    BY <2>4 DEF GoodDesk, Shown
  <2> QED BY <1>6, <2>5, BecomeGood DEF RemoveWindow, e, r, a
<1> QED BY <1>1, <1>2, <1>3, <1>4, <1>5, <1>6

(* The actions that only activate keep the invariant.                       *)
LEMMA WindowsActivated ==
    ASSUME Inv, NEW w,
           \/ w \in Windows /\ (PopupActive(w) \/ ClickWindow(w) \/ ForceActivate(w))
           \/ LayerInactive \/ ClickEmpty \/ QuickSwitch \/ RemoveSession
    PROVE  Inv'
<1> USE DEF Inv
<1>1. CASE w \in Windows /\ (PopupActive(w) \/ ClickWindow(w))
  BY <1>1, ActivateGood, BecomeGood DEF PopupActive, ClickWindow
<1>2. CASE w \in Windows /\ ForceActivate(w)
  BY <1>2, ForceActivateGood, BecomeGood DEF ForceActivate
<1>3. CASE LayerInactive \/ ClickEmpty
  <2>1. GoodDesk(ActivateSurface(desk, NoWindow)) /\ GoodDesk(ActivateLatest(desk))
    BY ActivateGood
  <2> QED BY <1>3, <2>1, BecomeGood DEF LayerInactive, ClickEmpty
<1>4. CASE QuickSwitch
  <2>1. history[Current(desk)] \in Seq(Windows)
    BY LatestOk DEF GoodDesk, OkDesk, Desks, desk
  <2>2. history[Current(desk)][2] \in Windows
    BY <1>4, <2>1, ElementOfSeq, LenProperties DEF QuickSwitch
  <2> QED BY <1>4, <2>2, ForceActivateGood, BecomeGood DEF QuickSwitch
<1>5. CASE RemoveSession
  <2> DEFINE H == [m \in DOMAIN history |-> <<>>]
             c == [desk EXCEPT !.history = H]
  <2>1. H \in [Ids \cup {AllId} -> Seq(Windows)] /\ \A m \in DOMAIN H : Injective(H[m])
    <3>1. history \in [Ids \cup {AllId} -> Seq(Windows)]
      BY DEF GoodDesk, OkDesk, Desks, desk
    <3>2. <<>> \in Seq(Windows) /\ DOMAIN <<>> = {}
      BY EmptySeq
    <3> QED BY <3>1, <3>2 DEF Injective
  <2> HIDE DEF H
  <2>2. OkDesk(c) /\ Same(desk, c)
    BY <2>1 DEF GoodDesk, OkDesk, Desks, Same
  <2>3. GoodDesk(c)
    BY <2>2, SameShown DEF GoodDesk
  <2> QED BY <1>5, <2>3, ActivateGood, BecomeGood DEF RemoveSession, H
<1> QED BY <1>1, <1>2, <1>3, <1>4, <1>5

(* The actions on workspaces keep the invariant.                            *)
LEMMA WorkspacesChange ==
    ASSUME Inv, NEW i, NEW j, NEW w, NEW m,
           \/ SwitchWorkspace(i) \/ SwipeWorkspace(i) \/ CreateModel
           \/ RemoveModel(i) \/ MoveModelTo(i, j)
           \/ w \in Windows /\ MoveSurfaceTo(w, m)
    PROVE  Inv'
<1> USE DEF Inv
<1>1. CASE SwitchWorkspace(i)
  BY <1>1, SwitchToOk, SwitchToShown, BecomeGood DEF SwitchWorkspace, GoodDesk
<1>2. CASE SwipeWorkspace(i)
  BY <1>2, SetCurrentIndexOk, SetCurrentIndexShown, BecomeGood
     DEF SwipeWorkspace, GoodDesk
<1>3. CASE CreateModel
  <2> DEFINE M == Append(models, nextId)
             H == [history EXCEPT ![nextId] = history[AllId]]
             e == [desk EXCEPT !.models = M, !.nextId = nextId + 1, !.history = H]
  <2>1. /\ models \in Seq(Ids) /\ Len(models) \in Nat /\ DOMAIN models = 1 .. Len(models)
        /\ Injective(models) /\ \A k \in DOMAIN models : models[k] < nextId
        /\ nextId \in Ids /\ nextId + 1 \in 0 .. MaxId
        /\ \A k \in 1 .. Len(models) : models[k] \in Int
        /\ currentIndex \in 0 .. Len(models) - 1
    BY <1>3, NumAssumption, LenProperties, ElementOfSeq
       DEF CreateModel, GoodDesk, OkDesk, Desks, desk, Injective, Ids
  <2>2. /\ M \in Seq(Ids) /\ Len(M) = Len(models) + 1
        /\ \A k \in 1 .. Len(models) : M[k] = models[k]
        /\ M[Len(models) + 1] = nextId
        /\ DOMAIN M = 1 .. Len(models) + 1
    BY <2>1, AppendProperties, LenProperties
  <2>3. Injective(M) /\ \A k \in DOMAIN M : M[k] < nextId + 1
    <3>1. \A k \in DOMAIN M : k \in 1 .. Len(models) \/ k = Len(models) + 1
      BY <2>1, <2>2
    <3>2. nextId \in Int
      BY <2>1 DEF Ids
    <3>3. \A k \in DOMAIN M : M[k] < nextId + 1
      BY <2>1, <2>2, <3>1, <3>2
    <3>4. \A k \in 1 .. Len(models) : M[k] < nextId
      BY <2>1, <2>2
    <3>5. ASSUME NEW k \in DOMAIN M, NEW n \in DOMAIN M, M[k] = M[n]
          PROVE  k = n
      BY <2>1, <2>2, <3>1, <3>2, <3>4, <3>5 DEF Injective
    <3> QED BY <3>3, <3>5 DEF Injective
  <2> HIDE DEF M
  <2>4. /\ H \in [Ids \cup {AllId} -> Seq(Windows)]
        /\ \A n \in DOMAIN H : Injective(H[n])
    <3>1. /\ history \in [Ids \cup {AllId} -> Seq(Windows)]
          /\ \A n \in DOMAIN history : Injective(history[n])
      BY DEF GoodDesk, OkDesk, Desks, desk
    <3> QED BY <3>1
  <2> HIDE DEF H
  <2>5. /\ e.models = M /\ e.currentIndex = currentIndex /\ e.nextId = nextId + 1
        /\ e.visible = visible /\ e.hidden = hidden /\ e.ws = ws
        /\ e.life = life /\ e.history = H
    BY DEF GoodDesk, OkDesk, desk
  <2>6. e \in Desks
    BY <2>1, <2>2, <2>4 DEF GoodDesk, OkDesk, Desks, desk
  <2> HIDE DEF e
  <2>7. OkDesk(e)
    BY <2>1, <2>2, <2>3, <2>4, <2>5, <2>6 DEF OkDesk, Injective
  <2>8. Current(e) = Current(desk)
    BY <2>1, <2>2, <2>5 DEF Current, desk
  <2>9. ModelIds(e) = ModelIds(desk) \cup {nextId}
    <3>1. ModelIds(desk) = {models[k] : k \in 1 .. Len(models)}
      BY <2>1 DEF ModelIds, Range, desk
    <3>2. ModelIds(e) = {M[k] : k \in 1 .. Len(models) + 1}
      BY <2>2, <2>5 DEF ModelIds, Range
    <3> QED BY <2>1, <2>2, <3>1, <3>2
  <2>10. nextId \notin visible /\ nextId \notin ModelIds(desk)
    <3>1. nextId \notin ModelIds(desk)
      BY <2>1 DEF ModelIds, Range, desk, Ids
    <3> QED BY <3>1 DEF GoodDesk, Shown, desk
  <2>11. GoodDesk(e)
    BY <2>5, <2>7, <2>8, <2>9, <2>10 DEF GoodDesk, Shown, OneShown, desk
  <2>12. [desk EXCEPT !.models = Append(@, nextId), !.nextId = @ + 1,
                      !.history[nextId] = history[AllId]] = e
    BY DEF e, M, H, desk
  <2> QED BY <1>3, <2>11, <2>12, BecomeGood DEF CreateModel
<1>4. CASE RemoveModel(i)
  <2>1. Len(desk.models) > 1 /\ i \in 0 .. Len(desk.models) - 1
    BY <1>4 DEF RemoveModel, desk
  <2>2. PICK h \in Orders : Become(DoRemoveModel(desk, i, h))
    BY <1>4 DEF RemoveModel, PushedOver
  <2> QED BY <2>1, <2>2, DoRemoveModelOk, BecomeGood DEF GoodDesk
<1>5. CASE MoveModelTo(i, j)
  <2>1. i \in 0 .. Len(desk.models) - 1 /\ j \in 0 .. Len(desk.models) - 1
    BY <1>5 DEF MoveModelTo, desk
  <2> QED BY <1>5, <2>1, DoMoveModelOk, BecomeGood DEF MoveModelTo, GoodDesk
<1>6. CASE w \in Windows /\ MoveSurfaceTo(w, m)
  <2>1. m \in ModelIds(desk) \cup {AllId} /\ m \in Ids \cup {AllId}
    BY <1>6, CurrentOk DEF MoveSurfaceTo, GoodDesk
  <2> QED BY <1>6, <2>1, MoveSurfaceOk, MoveSurfaceShown, BecomeGood
         DEF MoveSurfaceTo, GoodDesk
<1> QED BY <1>1, <1>2, <1>3, <1>4, <1>5, <1>6

(* The changes of mode keep the invariant.                                  *)
LEMMA ModesChange ==
    ASSUME Inv, NEW w \in Windows \cup {NoWindow},
           \/ EnterWindowSwitch \/ (w \in Windows /\ ExitWindowSwitch(w))
           \/ EnterMultitaskview \/ ExitMultitaskview(w)
           \/ LockScreen \/ Unlock
    PROVE  Inv'
<1> USE DEF Inv
<1>0. Modes = {"Normal", "LockScreen", "WindowSwitch", "Multitaskview"}
  BY DEF Modes
<1>1. CASE EnterWindowSwitch \/ Unlock
  BY <1>0, <1>1, ModeGood, BecomeGood DEF EnterWindowSwitch, Unlock
<1>2. CASE w \in Windows /\ ExitWindowSwitch(w)
  BY <1>0, <1>2, ModeGood, ForceActivateGood, BecomeGood DEF ExitWindowSwitch
<1>3. CASE EnterMultitaskview
  BY <1>0, <1>3, ModeGood, ActivateGood, BecomeGood DEF EnterMultitaskview
<1>4. CASE ExitMultitaskview(w)
  BY <1>4, LeaveMultitaskviewGood, BecomeGood DEF ExitMultitaskview
<1>5. CASE LockScreen
  <2> DEFINE n == IF mode = "Multitaskview" THEN LeaveMultitaskview(desk, NoWindow)
                                            ELSE desk
  <2>1. GoodDesk(n)
    BY LeaveMultitaskviewGood
  <2> HIDE DEF n
  <2>2. GoodDesk([n EXCEPT !.mode = "LockScreen"])
    BY <1>0, <2>1, ModeGood
  <2> QED BY <1>5, <2>2, BecomeGood DEF LockScreen, n
<1> QED BY <1>1, <1>2, <1>3, <1>4, <1>5

-----------------------------------------------------------------------------
(* Every step of the specification keeps the invariant.                     *)
LEMMA StepGood == Inv /\ [Next]_vars => Inv'
<1> SUFFICES ASSUME Inv, [Next]_vars PROVE Inv'
  OBVIOUS
<1>1. ASSUME NEW w \in Windows,
             \/ OpenWindow(w) \/ MapWindow(w) \/ UnmapWindow(w) \/ Minimize(w)
             \/ CancelMinimize(w) \/ RemoveWindow(w)
      PROVE  Inv'
  BY <1>1, WindowsComeAndGo
<1>2. ASSUME NEW w,
             \/ w \in Windows /\ (PopupActive(w) \/ ClickWindow(w) \/ ForceActivate(w))
             \/ LayerInactive \/ ClickEmpty \/ QuickSwitch \/ RemoveSession
      PROVE  Inv'
  BY <1>2, WindowsActivated
<1>3. ASSUME NEW i, NEW j, NEW w, NEW m,
             \/ SwitchWorkspace(i) \/ SwipeWorkspace(i) \/ CreateModel
             \/ RemoveModel(i) \/ MoveModelTo(i, j)
             \/ w \in Windows /\ MoveSurfaceTo(w, m)
      PROVE  Inv'
  BY <1>3, WorkspacesChange
<1>4. ASSUME NEW w \in Windows \cup {NoWindow},
             \/ EnterWindowSwitch \/ (w \in Windows /\ ExitWindowSwitch(w))
             \/ EnterMultitaskview \/ ExitMultitaskview(w)
             \/ LockScreen \/ Unlock
      PROVE  Inv'
  BY <1>4, ModesChange
<1>5. CASE Next
  BY <1>1, <1>2, <1>3, <1>4, <1>5 DEF Next
<1>6. CASE UNCHANGED vars
  BY <1>6 DEF Inv, vars, desk
<1> QED BY <1>5, <1>6

(* The invariant holds of every reachable state.                            *)
LEMMA InvAlways == Spec => []Inv
<1>1. Init => Inv
  BY InitGood
<1>2. Inv /\ [Next]_vars => Inv'
  BY StepGood
<1> QED BY <1>1, <1>2, PTL DEF Spec

(* There is always a current workspace, and the state is well formed,      *)
(* whichever models, windows and interactions there are (workspace.cpp     *)
(* current(), doRemoveModel, moveModelTo, createModel).                    *)
THEOREM TypeCorrect == Spec => []TypeOK
<1>1. Inv => TypeOK
  BY DEF Inv, GoodDesk, OkDesk, TypeOK, desk
<1> QED BY <1>1, InvAlways, PTL

(* A window is in a history at most once, so that removing one entry of    *)
(* it removes it (workspacemodel.cpp pushActivedSurface).                  *)
THEOREM HistoryUnique == Spec => []HistoryNoDup
<1>1. Inv => HistoryNoDup
  BY DEF Inv, GoodDesk, OkDesk, HistoryNoDup, Injective, desk
<1> QED BY <1>1, InvAlways, PTL

(* An open window is hidden exactly when the workspace it belongs to is    *)
(* not the current one, after any sequence of switches, swipes, moves and  *)
(* removals (workspacemodel.cpp setVisible, addSurface, removeSurface).    *)
THEOREM HiddenCorrect == Spec => []HiddenIffElsewhere
<1>1. Inv => HiddenIffElsewhere
  BY DEF Inv, GoodDesk, Shown, OneShown, HiddenIffElsewhere, ShowOnWorkspace, desk
<1> QED BY <1>1, InvAlways, PTL

-----------------------------------------------------------------------------
(* Who is activated.  Fit is inductive along every path of the code, for   *)
(* all Uses: a window that is in no container or on its way out is never   *)
(* activated, and so SurfaceWrapper::setActivate never ignores the window  *)
(* Helper::setActivatedSurface has chosen.                                 *)

Fit(d) ==
    /\ \A w \in Windows :
          /\ "HasInitializeContainer" \in d.caps[w] <=> d.life[w] = "open"
          /\ d.life[w] = "new" => "MappedOrSplash" \notin d.caps[w]
    /\ d.activated # NoWindow => d.activated \in d.flagged

(* From d to e nothing was activated, or what the code asserts of it held. *)
Allowed(d, e) ==
    \/ e.activated \in {d.activated, NoWindow}
    \/ HasActiveCapability(e, e.activated) /\ e.mode = "Normal"

(* What a method that activates leaves of the rest                         *)
Kept(d, e) ==
    /\ e.caps = d.caps /\ e.mode = d.mode /\ e.life = d.life
    /\ Fit(e) /\ Allowed(d, e)

LEMMA KeptTwice ==
    ASSUME NEW d, NEW e, NEW f, Kept(d, e), Kept(e, f)
    PROVE  Kept(d, f)
BY DEF Kept, Allowed, HasActiveCapability

LEMMA KeptSame ==
    ASSUME NEW d, NEW e, Fit(d), e.caps = d.caps, e.mode = d.mode,
           e.life = d.life, e.activated = d.activated, e.flagged = d.flagged
    PROVE  Kept(d, e)
BY DEF Kept, Fit, Allowed

LEMMA PushKept ==
    ASSUME NEW d, OkDesk(d), Fit(d), NEW w
    PROVE  /\ Kept(d, PushActivedSurface(d, w))
           /\ Kept(d, RemoveActivedSurface(d, w))
<1>1. d \in Desks
  BY DEF OkDesk
<1>2. /\ PushActivedSurface(d, w).caps = d.caps
      /\ PushActivedSurface(d, w).mode = d.mode
      /\ PushActivedSurface(d, w).life = d.life
      /\ PushActivedSurface(d, w).activated = d.activated
      /\ PushActivedSurface(d, w).flagged = d.flagged
  BY <1>1 DEF PushActivedSurface, Desks
<1>3. /\ RemoveActivedSurface(d, w).caps = d.caps
      /\ RemoveActivedSurface(d, w).mode = d.mode
      /\ RemoveActivedSurface(d, w).life = d.life
      /\ RemoveActivedSurface(d, w).activated = d.activated
      /\ RemoveActivedSurface(d, w).flagged = d.flagged
  BY <1>1 DEF RemoveActivedSurface, Desks
<1> QED BY <1>2, <1>3, KeptSame

(* setActivate tells an open window.                                       *)
LEMMA SetActivateTells ==
    ASSUME NEW d, OkDesk(d), NEW w \in Windows, NEW on \in BOOLEAN
    PROVE  LET e == SetActivate(d, w, on)
           IN  /\ e.caps = d.caps /\ e.mode = d.mode /\ e.life = d.life
               /\ e.activated = d.activated
               /\ on /\ d.life[w] # "removed" => w \in e.flagged
BY DEF SetActivate, OkDesk, Desks

LEMMA SetActivatedSurfaceFit ==
    ASSUME NEW d, OkDesk(d), Fit(d), NEW w \in Windows \cup {NoWindow},
           w # NoWindow => HasActiveCapability(d, w)
    PROVE  LET e == SetActivatedSurface(d, w)
           IN  /\ e.caps = d.caps /\ e.mode = d.mode /\ e.life = d.life
               /\ e.activated = w /\ Fit(e)
<1> DEFINE off == IF d.activated = NoWindow THEN d
                  ELSE SetActivate(d, d.activated, FALSE)
           on == IF w = NoWindow THEN off
                 ELSE PushActivedSurface(SetActivate(off, w, TRUE), w)
           e == SetActivatedSurface(d, w)
<1>1. CASE d.activated = w
  BY <1>1 DEF SetActivatedSurface
<1>2. CASE d.activated # w
  <2>1. d.activated \in Windows \cup {NoWindow}
    BY DEF OkDesk, Desks
  <2>2. OkDesk(off)
    BY <2>1, SetActivateOk
  <2>3. /\ off.caps = d.caps /\ off.mode = d.mode /\ off.life = d.life
    <3>1. FALSE \in BOOLEAN
      OBVIOUS
    <3> QED BY <2>1, <3>1, SetActivateTells
  <2>4. e = [on EXCEPT !.activated = w]
    BY <1>2 DEF SetActivatedSurface
  <2> HIDE DEF off
  <2>5. /\ on \in Desks /\ on.caps = d.caps /\ on.mode = d.mode /\ on.life = d.life
        /\ w # NoWindow => w \in on.flagged
    <3>1. CASE w = NoWindow
      BY <2>2, <2>3, <3>1 DEF OkDesk
    <3>2. CASE w # NoWindow
      <4> DEFINE a == SetActivate(off, w, TRUE)
      <4>1. TRUE \in BOOLEAN /\ w \in Windows
        BY <3>2
      <4>2. off.life[w] # "removed"
        BY <2>3, <3>2, <4>1 DEF Fit, HasActiveCapability, Full
      <4>3. OkDesk(a)
        BY <2>2, <4>1, SetActivateOk
      <4>4. /\ a.caps = off.caps /\ a.mode = off.mode /\ a.life = off.life
            /\ w \in a.flagged
        BY <2>2, <4>1, <4>2, SetActivateTells
      <4> HIDE DEF a
      <4>5. OkDesk(PushActivedSurface(a, w))
        BY <4>1, <4>3, PushActivedOk
      <4>6. /\ PushActivedSurface(a, w).caps = a.caps
            /\ PushActivedSurface(a, w).mode = a.mode
            /\ PushActivedSurface(a, w).life = a.life
            /\ PushActivedSurface(a, w).flagged = a.flagged
        BY <4>3 DEF PushActivedSurface, OkDesk, Desks
      <4>7. on = PushActivedSurface(a, w)
        BY <3>2 DEF a
      <4> QED BY <2>3, <4>4, <4>5, <4>6, <4>7 DEF OkDesk
    <3> QED BY <3>1, <3>2
  <2> HIDE DEF on, e
  <2>6. /\ e.caps = on.caps /\ e.mode = on.mode /\ e.life = on.life
        /\ e.activated = w /\ e.flagged = on.flagged
    BY <2>4, <2>5 DEF Desks
  <2> QED BY <2>5, <2>6 DEF Fit, e
<1> QED BY <1>1, <1>2

LEMMA ActivateSurfaceKept ==
    ASSUME NEW d, OkDesk(d), Fit(d), NEW w \in Windows \cup {NoWindow}
    PROVE  Kept(d, ActivateSurface(d, w))
<1>1. CASE w = NoWindow
  BY <1>1, SetActivatedSurfaceFit DEF ActivateSurface, Kept, Allowed
<1>2. CASE w # NoWindow /\ Blocked(d)
  BY <1>2, PushKept DEF ActivateSurface
<1>3. CASE w # NoWindow /\ ~Blocked(d) /\ HasActiveCapability(d, w)
  <2> DEFINE e == SetActivatedSurface(d, w)
  <2>1. /\ e.caps = d.caps /\ e.mode = d.mode /\ e.life = d.life
        /\ e.activated = w /\ Fit(e)
    BY <1>3, SetActivatedSurfaceFit
  <2>2. ActivateSurface(d, w) = e
    BY <1>3 DEF ActivateSurface
  <2> HIDE DEF e
  <2> QED BY <1>3, <2>1, <2>2 DEF Kept, Allowed, HasActiveCapability, Blocked
<1>4. CASE w # NoWindow /\ ~Blocked(d) /\ ~HasActiveCapability(d, w)
  BY <1>4, KeptSame DEF ActivateSurface
<1> QED BY <1>1, <1>2, <1>3, <1>4

LEMMA ActivateLatestKept ==
    ASSUME NEW d, OkDesk(d), Fit(d)
    PROVE  Kept(d, ActivateLatest(d))
BY LatestOk, ActivateSurfaceKept DEF ActivateLatest

LEMMA RequestActiveKept ==
    ASSUME NEW d, OkDesk(d), Fit(d), NEW w \in Windows
    PROVE  Kept(d, RequestActive(d, w)) /\ Kept(d, RequestInactive(d, w))
<1>1. Kept(d, RequestActive(d, w))
  BY ActivateSurfaceKept, PushKept DEF RequestActive
<1>2. OkDesk(RemoveActivedSurface(d, w)) /\ Kept(d, RemoveActivedSurface(d, w))
  BY RemoveActivedOk, PushKept
<1>3. Kept(RemoveActivedSurface(d, w), RequestInactive(d, w))
  BY <1>2, ActivateLatestKept DEF RequestInactive, Kept
<1> QED BY <1>1, <1>2, <1>3, KeptTwice

(* Setting the current index activates nothing.                            *)
LEMMA SetCurrentIndexKept ==
    ASSUME NEW d, OkDesk(d), Fit(d), NEW i
    PROVE  Kept(d, ShowOnlyCurrent(d)) /\ Kept(d, SetCurrentIndex(d, i))
<1>1. ASSUME NEW b, b \in Desks
      PROVE  LET e == ShowOnlyCurrent(b)
             IN  /\ e.caps = b.caps /\ e.mode = b.mode /\ e.life = b.life
                 /\ e.activated = b.activated /\ e.flagged = b.flagged
  BY <1>1 DEF ShowOnlyCurrent, Desks
<1>2. Kept(d, ShowOnlyCurrent(d))
  BY <1>1, KeptSame DEF OkDesk
<1>3. CASE i \notin 0 .. Len(d.models) - 1 \/ i = d.currentIndex
  BY <1>2, <1>3, KeptSame DEF SetCurrentIndex
<1>4. CASE ~(i \notin 0 .. Len(d.models) - 1 \/ i = d.currentIndex)
  <2> DEFINE b == [d EXCEPT !.currentIndex = i]
  <2>1. /\ b.caps = d.caps /\ b.mode = d.mode /\ b.life = d.life
        /\ b.activated = d.activated /\ b.flagged = d.flagged
    BY DEF OkDesk, Desks
  <2>2. b \in Desks
    <3>1. d \in Desks /\ i \in Int
      BY <1>4, CurrentOk DEF OkDesk
    <3> QED BY <3>1 DEF Desks
  <2>3. SetCurrentIndex(d, i) = ShowOnlyCurrent(b)
    BY <1>4 DEF SetCurrentIndex
  <2> HIDE DEF b
  <2> QED BY <1>1, <1>2, <2>1, <2>2, <2>3, KeptSame
<1> QED BY <1>3, <1>4

LEMMA SwitchToKept ==
    ASSUME NEW d, OkDesk(d), Fit(d), NEW i
    PROVE  Kept(d, SwitchTo(d, i))
<1>1. CASE i \notin 0 .. Len(d.models) - 1 \/ i = d.currentIndex
  BY <1>1, KeptSame DEF SwitchTo
<1>2. CASE ~(i \notin 0 .. Len(d.models) - 1 \/ i = d.currentIndex)
  <2>1. OkDesk(SetCurrentIndex(d, i)) /\ Kept(d, SetCurrentIndex(d, i))
    BY SetCurrentIndexOk, SetCurrentIndexKept
  <2>2. Kept(SetCurrentIndex(d, i), ActivateLatest(SetCurrentIndex(d, i)))
    BY <2>1, ActivateLatestKept DEF Kept
  <2> QED BY <1>2, <2>1, <2>2, KeptTwice DEF SwitchTo
<1> QED BY <1>1, <1>2

LEMMA ModelKept ==
    ASSUME NEW d, OkDesk(d), Fit(d), NEW m, NEW w
    PROVE  /\ Kept(d, ModelAddSurface(d, m, w))
           /\ Kept(d, ModelRemoveSurface(d, m, w))
<1>1. d \in Desks
  BY DEF OkDesk
<1>2. LET e == ModelAddSurface(d, m, w)
      IN  /\ e.caps = d.caps /\ e.mode = d.mode /\ e.life = d.life
          /\ e.activated = d.activated /\ e.flagged = d.flagged
  BY <1>1 DEF ModelAddSurface, Desks
<1>3. LET e == ModelRemoveSurface(d, m, w)
      IN  /\ e.caps = d.caps /\ e.mode = d.mode /\ e.life = d.life
          /\ e.activated = d.activated /\ e.flagged = d.flagged
  BY <1>1 DEF ModelRemoveSurface, Desks
<1> QED BY <1>2, <1>3, KeptSame

(* As Kept, where a capability may have changed first.                     *)
Fits(d, e) ==
    /\ e.mode = d.mode /\ e.life = d.life
    /\ Fit(e) /\ Allowed(d, e)

LEMMA FitsKept ==
    ASSUME NEW d, NEW e, NEW f, Fits(d, e), Kept(e, f)
    PROVE  Fits(d, f)
BY DEF Fits, Kept, Allowed, HasActiveCapability

LEMMA KeptFits == ASSUME NEW d, NEW e, Kept(d, e) PROVE Fits(d, e)
BY DEF Fits, Kept

(* The window becomes capable, or loses it, and what follows from it.      *)
LEMMA UpdateCapabilityFits ==
    ASSUME NEW d, OkDesk(d), Fit(d), NEW w \in Windows, NEW flag \in Full,
           NEW value \in BOOLEAN,
           flag # "HasInitializeContainer",
           flag = "MappedOrSplash" => d.life[w] = "open"
    PROVE  LET e == UpdateHasActiveCapability(d, w, flag, value)
           IN  /\ Fits(d, e)
               /\ e.caps = [d.caps EXCEPT ![w] = IF value THEN @ \cup {flag}
                                                          ELSE @ \ {flag}]
<1> DEFINE C == [d.caps EXCEPT ![w] = IF value THEN @ \cup {flag} ELSE @ \ {flag}]
           b == [d EXCEPT !.caps[w] = IF value THEN @ \cup {flag} ELSE @ \ {flag}]
           e == UpdateHasActiveCapability(d, w, flag, value)
<1>1. d \in Desks /\ d.caps \in [Windows -> SUBSET Full]
  BY DEF OkDesk, Desks
<1>2. /\ C \in [Windows -> SUBSET Full]
      /\ \A v \in Windows :
            /\ "HasInitializeContainer" \in C[v] <=> d.life[v] = "open"
            /\ d.life[v] = "new" => "MappedOrSplash" \notin C[v]
  BY <1>1 DEF Fit
<1>3. b = [d EXCEPT !.caps = C]
  BY <1>1 DEF Desks
<1>4. e \in {b, RequestActive(b, w), RequestInactive(b, w)}
  BY DEF UpdateHasActiveCapability
<1> HIDE DEF b, C, e
<1>5. /\ b \in Desks /\ b.models = d.models /\ b.currentIndex = d.currentIndex
      /\ b.nextId = d.nextId /\ b.history = d.history /\ b.caps = C
      /\ b.mode = d.mode /\ b.life = d.life
      /\ b.activated = d.activated /\ b.flagged = d.flagged
  BY <1>1, <1>2, <1>3 DEF Desks
<1>6. OkDesk(b)
  BY <1>5 DEF OkDesk
<1>7. Fits(d, b) /\ Kept(b, b)
  BY <1>2, <1>5 DEF Fit, Fits, Allowed, Kept
<1>8. Kept(b, e)
  BY <1>4, <1>6, <1>7, RequestActiveKept DEF Fits
<1>9. Fits(d, e) /\ e.caps = C
  BY <1>5, <1>7, <1>8, FitsKept DEF Kept
<1> QED BY <1>9 DEF e, C

LEMMA CancelMinimizeFits ==
    ASSUME NEW d, OkDesk(d), Fit(d), NEW w \in Windows
    PROVE  Fits(d, RequestCancelMinimize(d, w))
<1>1. "UnMinimized" \in Full /\ TRUE \in BOOLEAN
  BY DEF Full
<1>2. Fits(d, UpdateHasActiveCapability(d, w, "UnMinimized", TRUE))
  BY <1>1, UpdateCapabilityFits
<1> QED BY <1>2, KeptSame, KeptFits DEF RequestCancelMinimize

LEMMA ForceActivateFits ==
    ASSUME NEW d, OkDesk(d), Fit(d), NEW w \in Windows \cup {NoWindow}
    PROVE  Fits(d, ForceActivateSurface(d, w))
<1>1. CASE w = NoWindow
  BY <1>1, KeptSame, KeptFits DEF ForceActivateSurface
<1>2. CASE w # NoWindow
  <2> DEFINE c == RequestCancelMinimize(d, w)
             s == IF ShowOnWorkspace(c, w, Current(c)) THEN c
                  ELSE SwitchTo(c, ModelIndexOfSurface(c, w))
  <2>1. OkDesk(c) /\ Fits(d, c)
    BY <1>2, CancelMinimizeOk, CancelMinimizeFits
  <2>2. Kept(c, c)
    BY <2>1, KeptSame DEF Fits
  <2>3. OkDesk(s) /\ Kept(c, s)
    BY <2>1, <2>2, SwitchToOk, SwitchToKept DEF Fits
  <2>4. Kept(s, ActivateSurface(s, w))
    BY <2>3, ActivateSurfaceKept DEF Kept
  <2>5. Kept(c, ActivateSurface(s, w))
    BY <2>3, <2>4, KeptTwice
  <2>6. Fits(d, ActivateSurface(s, w)) /\ Fits(d, d)
    BY <2>1, <2>5, FitsKept, KeptSame, KeptFits
  <2>7. ForceActivateSurface(d, w) \in {d, c, ActivateSurface(s, w)}
    BY DEF ForceActivateSurface
  <2> QED BY <2>1, <2>6, <2>7
<1> QED BY <1>1, <1>2

LEMMA MoveSurfaceKept ==
    ASSUME NEW d, OkDesk(d), Fit(d), NEW w \in Windows, NEW m \in Ids \cup {AllId}
    PROVE  Kept(d, MoveSurface(d, w, m))
<1> DEFINE r == ModelRemoveSurface(d, d.ws[w], w)
           f == IF w \in d.flagged THEN ActivateLatest(r) ELSE r
           t == ModelAddSurface(f, m, w)
<1>1. OkDesk(r) /\ Kept(d, r)
  BY ModelRemoveOk, ModelKept
<1> HIDE DEF r
<1>2. OkDesk(f) /\ Kept(r, f)
  BY <1>1, ActivateLatestOk, ActivateLatestKept, KeptSame DEF Kept
<1> HIDE DEF f
<1>3. OkDesk(t) /\ Kept(f, t)
  BY <1>2, ModelAddOk, ModelKept DEF Kept
<1> HIDE DEF t
<1>4. Kept(t, RequestActive(t, w))
  BY <1>3, RequestActiveKept DEF Kept
<1>5. Kept(d, t) /\ Kept(d, RequestActive(t, w))
  BY <1>1, <1>2, <1>3, <1>4, KeptTwice
<1>6. MoveSurface(d, w, m) \in {d, t, RequestActive(t, w)}
  BY DEF MoveSurface, t, f, r
<1> QED BY <1>5, <1>6, KeptSame

LEMMA DoRemoveModelKept ==
    ASSUME NEW d, OkDesk(d), Shown(d, Windows), Fit(d), Len(d.models) > 1,
           NEW i \in 0 .. Len(d.models) - 1, NEW h \in Orders
    PROVE  Kept(d, DoRemoveModel(d, i, h))
<1> DEFINE g == Resettled(d, i, h)
<1>1. /\ OkDesk(g)
      /\ DoRemoveModel(d, i, h) = ShowOnlyCurrent(ActivateLatest(g))
      /\ g.life = d.life /\ g.caps = d.caps /\ g.mode = d.mode
      /\ g.activated = d.activated /\ g.flagged = d.flagged
  BY ResettledOk
<1> HIDE DEF g
<1>2. Kept(d, g)
  BY <1>1, KeptSame
<1>3. OkDesk(ActivateLatest(g)) /\ Kept(g, ActivateLatest(g))
  BY <1>1, <1>2, ActivateLatestOk, ActivateLatestKept DEF Kept
<1>4. Kept(ActivateLatest(g), ShowOnlyCurrent(ActivateLatest(g)))
  BY <1>3, SetCurrentIndexKept DEF Kept
<1> QED BY <1>1, <1>2, <1>3, <1>4, KeptTwice

LEMMA ModeFit ==
    ASSUME NEW d, OkDesk(d), Fit(d), NEW n \in Modes
    PROVE  LET e == [d EXCEPT !.mode = n]
           IN  /\ OkDesk(e) /\ Fit(e) /\ e.caps = d.caps
               /\ e.activated = d.activated /\ e.mode = n
<1> DEFINE e == [d EXCEPT !.mode = n]
<1>1. /\ e \in Desks /\ e.models = d.models /\ e.currentIndex = d.currentIndex
      /\ e.nextId = d.nextId /\ e.history = d.history /\ e.caps = d.caps
      /\ e.mode = n /\ e.life = d.life
      /\ e.activated = d.activated /\ e.flagged = d.flagged
  BY DEF OkDesk, Desks
<1> HIDE DEF e
<1> QED BY <1>1 DEF OkDesk, Fit, e

(* destroyForSurface: a is the desk once the wrapper is marked, b the desk *)
(* once it has lost its container too.                                     *)
LEMMA ClosingOk ==
    ASSUME NEW d, OkDesk(d), Fit(d), NEW w \in Windows
    PROVE  LET flag == "HasInitializeContainer"
               a == [d EXCEPT !.life[w] = "removed"]
               b == [a EXCEPT !.caps[w] = @ \ {flag}]
           IN  /\ OkDesk(a) /\ OkDesk(b) /\ Fit(b) /\ ~HasActiveCapability(b, w)
               /\ a.caps = d.caps /\ a.history = d.history /\ b.history = d.history
               /\ a.models = d.models /\ b.models = d.models
               /\ a.currentIndex = d.currentIndex /\ b.currentIndex = d.currentIndex
               /\ a.ws = d.ws /\ b.ws = d.ws /\ a.mode = d.mode /\ b.mode = d.mode
               /\ a.activated = d.activated /\ b.activated = d.activated
               /\ a.life = [d.life EXCEPT ![w] = "removed"] /\ b.life = a.life
               /\ \A v \in Windows \ {w} : b.caps[v] = d.caps[v]
<1> DEFINE flag == "HasInitializeContainer"
           a == [d EXCEPT !.life[w] = "removed"]
           b == [a EXCEPT !.caps[w] = @ \ {flag}]
           C == [d.caps EXCEPT ![w] = @ \ {flag}]
<1>1. /\ d \in Desks /\ d.caps \in [Windows -> SUBSET Full]
      /\ d.life \in [Windows -> {"new", "open", "removed"}]
  BY DEF OkDesk, Desks
<1>2. /\ a \in Desks /\ a.models = d.models /\ a.currentIndex = d.currentIndex
      /\ a.nextId = d.nextId /\ a.history = d.history /\ a.caps = d.caps
      /\ a.mode = d.mode /\ a.activated = d.activated /\ a.flagged = d.flagged
      /\ a.life = [d.life EXCEPT ![w] = "removed"] /\ a.ws = d.ws
  BY <1>1 DEF Desks
<1> HIDE DEF a
<1>3. C \in [Windows -> SUBSET Full] /\ b = [a EXCEPT !.caps = C]
  BY <1>1, <1>2 DEF Desks
<1> HIDE DEF b
<1>4. /\ b \in Desks /\ b.models = a.models /\ b.currentIndex = a.currentIndex
      /\ b.nextId = a.nextId /\ b.history = a.history /\ b.caps = C
      /\ b.mode = a.mode /\ b.activated = a.activated /\ b.flagged = a.flagged
      /\ b.life = a.life /\ b.ws = a.ws
  BY <1>2, <1>3 DEF Desks
<1>5. OkDesk(a) /\ OkDesk(b)
  BY <1>2, <1>4 DEF OkDesk
<1>6. Fit(b) /\ ~HasActiveCapability(b, w)
  BY <1>1, <1>2, <1>4 DEF Fit, HasActiveCapability, Full
<1>7. \A v \in Windows \ {w} : b.caps[v] = d.caps[v]
  BY <1>1, <1>4
<1> QED BY <1>2, <1>4, <1>5, <1>6, <1>7 DEF a, b

(* A step that activates a window: one that may be, and behind no overlay  *)
(* unless it opens or closes one itself.                                   *)
Activates(d, e) ==
    \/ e.activated \in {d.activated, NoWindow}
    \/ /\ HasActiveCapability(e, e.activated)
       /\ e.mode = d.mode => e.mode = "Normal"

LEMMA FitsActivates ==
    ASSUME NEW d, NEW e, Fits(d, e) \/ Kept(d, e) PROVE Activates(d, e) /\ Fit(e)
BY DEF Fits, Kept, Allowed, Activates

LEMMA BecomeFit ==
    ASSUME NEW e, OkDesk(e), Fit(e), Activates(desk, e), Become(e)
    PROVE  Fit(desk') /\ Activates(desk, desk')
<1>1. e \in Desks
  BY DEF OkDesk
<1>2. desk' = e
  BY <1>1 DEF Become, desk, Desks
<1> QED BY <1>2

LEMMA ClientsFit ==
    ASSUME Inv, Fit(desk), NEW w \in Windows,
           \/ OpenWindow(w) \/ MapWindow(w) \/ UnmapWindow(w) \/ Minimize(w)
           \/ CancelMinimize(w) \/ RemoveWindow(w)
    PROVE  Fit(desk') /\ Activates(desk, desk')
<1>0. /\ OkDesk(desk) /\ TRUE \in BOOLEAN /\ FALSE \in BOOLEAN
      /\ {"MappedOrSplash", "UnMinimized", "HasInitializeContainer"} \subseteq Full
      /\ desk.life = life /\ desk.caps = caps
  BY DEF Inv, GoodDesk, Full, desk
<1>1. CASE OpenWindow(w)
  <2> DEFINE a == ModelAddSurface(desk, Current(desk), w)
             e == [a EXCEPT !.life[w] = "open",
                            !.caps[w] = @ \cup {"HasInitializeContainer"}]
  <2>1. OkDesk(a) /\ Kept(desk, a)
    BY <1>0, CurrentOk, ModelAddOk, ModelKept
  <2> HIDE DEF a
  <2>2. a \in Desks
    BY <2>1 DEF OkDesk
  <2>3. /\ a.caps \in [Windows -> SUBSET Full]
        /\ a.life \in [Windows -> {"new", "open", "removed"}]
    BY <2>2 DEF Desks
  <2>4. /\ e.models = a.models /\ e.currentIndex = a.currentIndex
        /\ e.nextId = a.nextId /\ e.history = a.history
        /\ e.activated = a.activated /\ e.flagged = a.flagged
        /\ e.mode = a.mode
        /\ e.life = [a.life EXCEPT ![w] = "open"]
        /\ e.caps = [a.caps EXCEPT ![w] = @ \cup {"HasInitializeContainer"}]
    BY <2>2 DEF Desks
  <2>5. e \in Desks
    <3>1. /\ [a.life EXCEPT ![w] = "open"] \in [Windows -> {"new", "open", "removed"}]
          /\ [a.caps EXCEPT ![w] = @ \cup {"HasInitializeContainer"}]
               \in [Windows -> SUBSET Full]
      BY <1>0, <2>3
    <3> QED BY <2>2, <3>1 DEF Desks
  <2>6. Become(e)
    BY <1>1 DEF OpenWindow, a
  <2> HIDE DEF e
  <2>7. OkDesk(e)
    BY <2>1, <2>4, <2>5 DEF OkDesk
  <2>8. Fit(e)
    BY <2>1, <2>3, <2>4 DEF Kept, Fit
  <2>9. Activates(desk, e)
    <3>1. \A v \in Windows : HasActiveCapability(a, v) => HasActiveCapability(e, v)
      BY <2>3, <2>4 DEF HasActiveCapability, Full
    <3>2. a.activated \in Windows \cup {NoWindow}
      BY <2>2 DEF Desks
    <3> QED BY <2>1, <2>4, <3>1, <3>2 DEF Kept, Allowed, Activates
  <2> QED BY <2>6, <2>7, <2>8, <2>9, BecomeFit
<1>2. ASSUME NEW flag \in {"MappedOrSplash", "UnMinimized"}, NEW value \in BOOLEAN,
             desk.life[w] = "open",
             Become(UpdateHasActiveCapability(desk, w, flag, value))
      PROVE  Fit(desk') /\ Activates(desk, desk')
  <2> DEFINE e == UpdateHasActiveCapability(desk, w, flag, value)
  <2>1. OkDesk(e) /\ Fits(desk, e)
    BY <1>0, <1>2, UpdateCapabilityOk, UpdateCapabilityFits
  <2> HIDE DEF e
  <2> QED BY <1>2, <2>1, FitsActivates, BecomeFit DEF e
<1>3. CASE MapWindow(w)
  BY <1>0, <1>2, <1>3 DEF MapWindow
<1>4. CASE UnmapWindow(w)
  BY <1>0, <1>2, <1>4 DEF UnmapWindow
<1>5. CASE Minimize(w)
  BY <1>0, <1>2, <1>5 DEF Minimize
<1>6. CASE CancelMinimize(w)
  <2>1. OkDesk(RequestCancelMinimize(desk, w)) /\ Fits(desk, RequestCancelMinimize(desk, w))
    BY <1>0, CancelMinimizeOk, CancelMinimizeFits
  <2> QED BY <1>6, <2>1, FitsActivates, BecomeFit DEF CancelMinimize
<1>7. CASE RemoveWindow(w)
  <2> DEFINE a == [desk EXCEPT !.life[w] = "removed"]
             r == UpdateHasActiveCapability(a, w, "HasInitializeContainer", FALSE)
             e == ModelRemoveSurface(r, ws[w], w)
  <2>1. Become(e)
    BY <1>7 DEF RemoveWindow
  <2> DEFINE flag == "HasInitializeContainer"
             b == [a EXCEPT !.caps[w] = @ \ {flag}]
  <2>2. /\ OkDesk(a) /\ OkDesk(b) /\ Fit(b)
        /\ b.mode = desk.mode /\ b.activated = desk.activated
    BY <1>0, ClosingOk
  <2>3. r \in {b, RequestActive(b, w), RequestInactive(b, w)}
    BY DEF UpdateHasActiveCapability
  <2> HIDE DEF a
  <2>7. OkDesk(r)
    BY <1>0, <2>2, UpdateCapabilityOk
  <2> HIDE DEF b, r
  <2>10. Kept(b, r)
    BY <2>2, <2>3, RequestActiveKept, KeptSame
  <2>11. OkDesk(e) /\ Kept(r, e)
    BY <2>7, <2>10, ModelRemoveOk, ModelKept DEF Kept
  <2> HIDE DEF e
  <2>12. Kept(b, e)
    BY <2>10, <2>11, KeptTwice
  <2>13. Activates(desk, e) /\ Fit(e)
    BY <2>2, <2>12 DEF Kept, Allowed, Activates
  <2> QED BY <2>1, <2>11, <2>13, BecomeFit
<1> QED BY <1>1, <1>3, <1>4, <1>5, <1>6, <1>7

LEMMA UsersFit ==
    ASSUME Inv, Fit(desk), NEW w,
           \/ w \in Windows /\ (PopupActive(w) \/ ClickWindow(w) \/ ForceActivate(w))
           \/ LayerInactive \/ ClickEmpty \/ QuickSwitch \/ RemoveSession
    PROVE  Fit(desk') /\ Activates(desk, desk')
<1>0. OkDesk(desk) /\ NoWindow \in Windows \cup {NoWindow}
  BY DEF Inv, GoodDesk
<1>1. ASSUME NEW v \in Windows \cup {NoWindow}, Become(ActivateSurface(desk, v))
      PROVE  Fit(desk') /\ Activates(desk, desk')
  BY <1>0, <1>1, ActivateSurfaceOk, ActivateSurfaceKept, FitsActivates, BecomeFit
<1>2. ASSUME NEW v \in Windows, Become(ForceActivateSurface(desk, v))
      PROVE  Fit(desk') /\ Activates(desk, desk')
  BY <1>0, <1>2, ForceActivateOk, ForceActivateFits, FitsActivates, BecomeFit
<1>3. CASE LayerInactive
  BY <1>0, <1>3, ActivateLatestOk, ActivateLatestKept, FitsActivates, BecomeFit
     DEF LayerInactive
<1>4. CASE QuickSwitch
  <2>1. history[Current(desk)] \in Seq(Windows)
    BY <1>0, LatestOk DEF OkDesk, Desks, desk
  <2>2. history[Current(desk)][2] \in Windows
    BY <1>4, <2>1, ElementOfSeq, LenProperties DEF QuickSwitch
  <2> QED BY <1>2, <1>4, <2>2 DEF QuickSwitch
<1>5. CASE RemoveSession
  <2> DEFINE H == [m \in DOMAIN history |-> <<>>]
             c == [desk EXCEPT !.history = H]
  <2>1. H \in [Ids \cup {AllId} -> Seq(Windows)] /\ \A m \in DOMAIN H : Injective(H[m])
    <3>1. history \in [Ids \cup {AllId} -> Seq(Windows)]
      BY <1>0 DEF OkDesk, Desks, desk
    <3>2. <<>> \in Seq(Windows) /\ DOMAIN <<>> = {}
      BY EmptySeq
    <3> QED BY <3>1, <3>2 DEF Injective
  <2> HIDE DEF H
  <2>2. /\ OkDesk(c) /\ c.caps = desk.caps /\ c.mode = desk.mode
        /\ c.life = desk.life /\ c.activated = desk.activated
        /\ c.flagged = desk.flagged
    BY <1>0, <2>1 DEF OkDesk, Desks
  <2>3. Become(ActivateSurface(c, NoWindow))
    BY <1>5 DEF RemoveSession, H
  <2> HIDE DEF c
  <2>4. Kept(desk, c)
    BY <2>2, KeptSame
  <2>5. OkDesk(ActivateSurface(c, NoWindow)) /\ Kept(c, ActivateSurface(c, NoWindow))
    BY <1>0, <2>2, <2>4, ActivateSurfaceOk, ActivateSurfaceKept DEF Kept
  <2> QED BY <2>3, <2>4, <2>5, KeptTwice, FitsActivates, BecomeFit
<1> QED BY <1>0, <1>1, <1>2, <1>3, <1>4, <1>5 DEF PopupActive, ClickWindow,
       ForceActivate, ClickEmpty

LEMMA WorkspacesFit ==
    ASSUME Inv, Fit(desk), NEW i, NEW j, NEW w, NEW m,
           \/ SwitchWorkspace(i) \/ SwipeWorkspace(i) \/ CreateModel
           \/ RemoveModel(i) \/ MoveModelTo(i, j)
           \/ w \in Windows /\ MoveSurfaceTo(w, m)
    PROVE  Fit(desk') /\ Activates(desk, desk')
<1>0. OkDesk(desk) /\ Shown(desk, Windows)
  BY DEF Inv, GoodDesk
<1>1. CASE SwitchWorkspace(i)
  BY <1>0, <1>1, SwitchToOk, SwitchToKept, FitsActivates, BecomeFit DEF SwitchWorkspace
<1>2. CASE SwipeWorkspace(i)
  BY <1>0, <1>2, SetCurrentIndexOk, SetCurrentIndexKept, FitsActivates, BecomeFit
     DEF SwipeWorkspace
<1>3. CASE CreateModel \/ MoveModelTo(i, j)
  <2>1. UNCHANGED <<caps, mode, life, activated, flagged>>
    BY <1>3 DEF CreateModel, MoveModelTo, Become, DoMoveModel, desk
  <2>2. /\ desk'.caps = desk.caps /\ desk'.mode = desk.mode
        /\ desk'.life = desk.life /\ desk'.activated = desk.activated
        /\ desk'.flagged = desk.flagged
    BY <2>1 DEF desk
  <2> QED BY <2>2 DEF Fit, Activates
<1>4. CASE RemoveModel(i)
  <2>1. Len(desk.models) > 1 /\ i \in 0 .. Len(desk.models) - 1
    BY <1>4 DEF RemoveModel, desk
  <2>2. PICK h \in Orders : Become(DoRemoveModel(desk, i, h))
    BY <1>4 DEF RemoveModel, PushedOver
  <2>3. OkDesk(DoRemoveModel(desk, i, h)) /\ Kept(desk, DoRemoveModel(desk, i, h))
    BY <2>1, DoRemoveModelOk, DoRemoveModelKept DEF Inv, GoodDesk
  <2> QED BY <2>2, <2>3, FitsActivates, BecomeFit
<1>5. CASE w \in Windows /\ MoveSurfaceTo(w, m)
  <2>1. m \in Ids \cup {AllId} /\ Become(MoveSurface(desk, w, m))
    BY <1>0, <1>5, CurrentOk DEF MoveSurfaceTo
  <2> QED BY <1>0, <1>5, <2>1, MoveSurfaceOk, MoveSurfaceKept, FitsActivates, BecomeFit
<1> QED BY <1>1, <1>2, <1>3, <1>4, <1>5

LEMMA LeaveMultitaskviewFit ==
    ASSUME NEW d, OkDesk(d), Fit(d), NEW w \in Windows \cup {NoWindow}
    PROVE  LET e == LeaveMultitaskview(d, w)
           IN  /\ OkDesk(e) /\ Fit(e) /\ e.mode = "Normal"
               /\ \/ e.activated \in {d.activated, NoWindow}
                  \/ HasActiveCapability(e, e.activated)
<1> DEFINE n == [d EXCEPT !.mode = "Normal"]
           v == IF w = NoWindow THEN LatestActiveSurface(n) ELSE w
           e == ForceActivateSurface(n, v)
<1>1. /\ OkDesk(n) /\ Fit(n) /\ n.mode = "Normal" /\ n.activated = d.activated
  BY ModeFit DEF Modes
<1> HIDE DEF n
<1>2. v \in Windows \cup {NoWindow}
  BY <1>1, LatestOk
<1> HIDE DEF v
<1>3. OkDesk(e) /\ Fits(n, e)
  BY <1>1, <1>2, ForceActivateOk, ForceActivateFits
<1>4. LeaveMultitaskview(d, w) = e
  BY DEF LeaveMultitaskview, v, n
<1> HIDE DEF e
<1> QED BY <1>1, <1>3, <1>4 DEF Fits, Allowed

LEMMA ModesFit ==
    ASSUME Inv, Fit(desk), NEW w \in Windows \cup {NoWindow},
           \/ EnterWindowSwitch \/ (w \in Windows /\ ExitWindowSwitch(w))
           \/ EnterMultitaskview \/ ExitMultitaskview(w)
           \/ LockScreen \/ Unlock
    PROVE  Fit(desk') /\ Activates(desk, desk')
<1>0. /\ Modes = {"Normal", "LockScreen", "WindowSwitch", "Multitaskview"}
      /\ OkDesk(desk) /\ desk.mode = mode /\ desk.activated = activated
      /\ NoWindow \in Windows \cup {NoWindow}
  BY DEF Modes, Inv, GoodDesk, desk
<1>1. CASE EnterWindowSwitch \/ Unlock
  <2>1. PICK n \in Modes : Become([desk EXCEPT !.mode = n])
    BY <1>0, <1>1 DEF EnterWindowSwitch, Unlock
  <2>2. LET e == [desk EXCEPT !.mode = n]
        IN  OkDesk(e) /\ Fit(e) /\ e.activated = desk.activated
    BY <1>0, ModeFit
  <2> QED BY <2>1, <2>2, BecomeFit DEF Activates
<1>2. CASE w \in Windows /\ ExitWindowSwitch(w)
  <2> DEFINE n == [desk EXCEPT !.mode = "Normal"]
             e == ForceActivateSurface(n, w)
  <2>1. OkDesk(n) /\ Fit(n) /\ n.mode = "Normal" /\ n.activated = desk.activated
    BY <1>0, ModeFit
  <2>2. Become(e)
    BY <1>2 DEF ExitWindowSwitch
  <2> HIDE DEF n
  <2>3. OkDesk(e) /\ Fits(n, e)
    BY <2>1, ForceActivateOk, ForceActivateFits
  <2> HIDE DEF e
  <2>4. Activates(desk, e) /\ Fit(e)
    BY <2>1, <2>3 DEF Fits, Allowed, Activates
  <2> QED BY <2>2, <2>3, <2>4, BecomeFit
<1>3. CASE EnterMultitaskview
  <2> DEFINE n == ActivateSurface(desk, NoWindow)
             e == [n EXCEPT !.mode = "Multitaskview"]
  <2>1. Become(e)
    BY <1>3 DEF EnterMultitaskview
  <2>2. OkDesk(n) /\ Kept(desk, n)
    BY <1>0, ActivateSurfaceOk, ActivateSurfaceKept
  <2>3. n.activated = NoWindow
    BY <1>0, SetActivatedSurfaceFit DEF ActivateSurface
  <2> HIDE DEF n
  <2>4. OkDesk(e) /\ Fit(e) /\ e.activated = n.activated
    BY <1>0, <2>2, ModeFit DEF Kept
  <2> HIDE DEF e
  <2> QED BY <2>1, <2>3, <2>4, BecomeFit DEF Activates
<1>4. CASE ExitMultitaskview(w)
  <2> DEFINE e == LeaveMultitaskview(desk, w)
  <2>1. Become(e) /\ mode = "Multitaskview"
    BY <1>4 DEF ExitMultitaskview
  <2>2. /\ OkDesk(e) /\ Fit(e) /\ e.mode = "Normal"
        /\ \/ e.activated \in {desk.activated, NoWindow}
           \/ HasActiveCapability(e, e.activated)
    BY <1>0, LeaveMultitaskviewFit
  <2> HIDE DEF e
  <2> QED BY <2>1, <2>2, BecomeFit DEF Activates
<1>5. CASE LockScreen
  <2> DEFINE n == IF mode = "Multitaskview" THEN LeaveMultitaskview(desk, NoWindow)
                                            ELSE desk
             e == [n EXCEPT !.mode = "LockScreen"]
  <2>1. Become(e) /\ mode # "LockScreen"
    BY <1>5 DEF LockScreen
  <2>2. /\ OkDesk(n) /\ Fit(n)
        /\ \/ n.activated \in {desk.activated, NoWindow}
           \/ HasActiveCapability(n, n.activated)
    BY <1>0, LeaveMultitaskviewFit
  <2> HIDE DEF n
  <2>3. /\ OkDesk(e) /\ Fit(e) /\ e.activated = n.activated /\ e.caps = n.caps
        /\ e.mode = "LockScreen"
    BY <1>0, <2>2, ModeFit
  <2> HIDE DEF e
  <2>4. Activates(desk, e)
    BY <1>0, <2>1, <2>2, <2>3 DEF Activates, HasActiveCapability
  <2> QED BY <2>1, <2>3, <2>4, BecomeFit
<1> QED BY <1>1, <1>2, <1>3, <1>4, <1>5

LEMMA StepFit == Inv /\ Fit(desk) /\ [Next]_vars => Fit(desk') /\ Activates(desk, desk')
<1> SUFFICES ASSUME Inv, Fit(desk), [Next]_vars
             PROVE  Fit(desk') /\ Activates(desk, desk')
  OBVIOUS
<1>1. ASSUME NEW w \in Windows,
             \/ OpenWindow(w) \/ MapWindow(w) \/ UnmapWindow(w) \/ Minimize(w)
             \/ CancelMinimize(w) \/ RemoveWindow(w)
      PROVE  Fit(desk') /\ Activates(desk, desk')
  BY <1>1, ClientsFit
<1>2. ASSUME NEW w,
             \/ w \in Windows /\ (PopupActive(w) \/ ClickWindow(w) \/ ForceActivate(w))
             \/ LayerInactive \/ ClickEmpty \/ QuickSwitch \/ RemoveSession
      PROVE  Fit(desk') /\ Activates(desk, desk')
  BY <1>2, UsersFit
<1>3. ASSUME NEW i, NEW j, NEW w, NEW m,
             \/ SwitchWorkspace(i) \/ SwipeWorkspace(i) \/ CreateModel
             \/ RemoveModel(i) \/ MoveModelTo(i, j)
             \/ w \in Windows /\ MoveSurfaceTo(w, m)
      PROVE  Fit(desk') /\ Activates(desk, desk')
  BY <1>3, WorkspacesFit
<1>4. ASSUME NEW w \in Windows \cup {NoWindow},
             \/ EnterWindowSwitch \/ (w \in Windows /\ ExitWindowSwitch(w))
             \/ EnterMultitaskview \/ ExitMultitaskview(w)
             \/ LockScreen \/ Unlock
      PROVE  Fit(desk') /\ Activates(desk, desk')
  BY <1>4, ModesFit
<1>5. CASE Next
  BY <1>1, <1>2, <1>3, <1>4, <1>5 DEF Next
<1>6. CASE UNCHANGED vars
  <2>1. desk' = desk
    BY <1>6 DEF vars, desk
  <2> QED BY <2>1 DEF Activates
<1> QED BY <1>5, <1>6

LEMMA FitAlways == Spec => [](Inv /\ Fit(desk))
<1>1. Init => Fit(desk)
  BY DEF Init, Fit, desk
<1>2. Inv /\ Fit(desk) /\ [Next]_vars => Fit(desk)'
  BY StepFit
<1> QED BY <1>1, <1>2, InvAlways, PTL DEF Spec

(* The activated window was told so: m_isActivated of the wrapper never    *)
(* disagrees with m_activatedSurface, however dialogs take and return the  *)
(* activation and windows go (surfacewrapper.cpp setActivate).             *)
THEOREM ActivatedWasTold == Spec => []ActivatedIsFlagged
<1>1. Fit(desk) => ActivatedIsFlagged
  BY DEF Fit, ActivatedIsFlagged, desk
<1> QED BY <1>1, FitAlways, PTL

(* No step activates a window that cannot be, nor any window behind an     *)
(* overlay, for all Uses (helper.cpp activateSurface; the assertion of     *)
(* SurfaceWrapper::setActivate).                                           *)
THEOREM OnlyAllowedActivated == Spec => ActivatesAllowed
<1> DEFINE A == activated' # activated /\ activated' # NoWindow
                   => /\ HasActiveCapability(desk', activated')
                      /\ mode' = mode => mode = "Normal"
<1>1. Inv /\ Fit(desk) /\ [Next]_vars => [A]_vars
  <2> SUFFICES ASSUME Inv, Fit(desk), [Next]_vars PROVE A
    OBVIOUS
  <2>1. Activates(desk, desk')
    BY StepFit
  <2> QED BY <2>1 DEF Activates, desk
<1> HIDE DEF A
<1>2. Spec => [][A]_vars
  BY <1>1, FitAlways, PTL DEF Spec
<1> QED BY <1>2 DEF ActivatesAllowed, A

-----------------------------------------------------------------------------
(* Where windows are activated.  While none is pinned, every history names *)
(* windows of its own workspace only (Placed), so whatever a handler falls *)
(* back to is on the workspace the user looks at.                          *)

Placed(d) ==
    /\ \A w \in Windows : /\ d.ws[w] \in ModelIds(d) \cup {NoId}
                          /\ d.life[w] = "new" => d.ws[w] = NoId
    /\ \A m \in Ids \cup {AllId} : \A w \in Range(d.history[m]) : d.ws[w] = m

(* Nothing was activated on the way from d to e, or what was is at home.   *)
AtHome(d, e) ==
    \/ e.activated \in {d.activated, NoWindow}
    \/ e.activated \in Windows /\ e.ws[e.activated] = Current(e)

(* What a method that only activates leaves behind                         *)
Stays(d, e) == Same(d, e) /\ Placed(e) /\ AtHome(d, e)

LEMMA StaysTwice ==
    ASSUME NEW d, NEW e, NEW f, Stays(d, e), Stays(e, f)
    PROVE  Stays(d, f)
BY DEF Stays, Same, AtHome, Current

LEMMA HomeTwice ==
    ASSUME NEW d, NEW e, NEW f, AtHome(d, e), Stays(e, f)
    PROVE  AtHome(d, f) /\ Placed(f)
BY DEF Stays, Same, AtHome, Current

(* The windows of a history after a push and after a removal               *)
LEMMA RangesOk ==
    ASSUME NEW h \in Seq(Windows), Injective(h), NEW w \in Windows
    PROVE  /\ Range(Without(h, w)) = Range(h) \ {w}
           /\ Range(<<w>> \o Without(h, w)) = Range(h) \cup {w}
           /\ Head(<<w>> \o Without(h, w)) = w
           /\ <<w>> \o Without(h, w) # <<>>
<1> DEFINE r == Without(h, w)
<1>1. DOMAIN h = 1 .. Len(h) /\ Len(h) \in Nat
  BY LenProperties
<1>2. Range(r) = Range(h) \ {w}
  <2>1. CASE \E i \in 1 .. Len(h) : h[i] = w
    <3> DEFINE k == CHOOSE i \in 1 .. Len(h) : h[i] = w
    <3>1. k \in 1 .. Len(h) /\ h[k] = w
      BY <2>1
    <3>2. r = RemoveAt(h, k)
      BY <2>1 DEF Without
    <3> HIDE DEF k, r
    <3> QED BY <3>1, <3>2, RestOk
  <2>2. CASE ~\E i \in 1 .. Len(h) : h[i] = w
    BY <1>1, <2>2 DEF Without, Range
  <2> QED BY <2>1, <2>2
<1>3. r \in Seq(Windows)
  BY WithoutOk
<1> HIDE DEF r
<1>4. /\ Len(<<w>> \o r) = 1 + Len(r)
      /\ \A i \in 1 .. 1 + Len(r) : (<<w>> \o r)[i] = IF i <= 1 THEN w ELSE r[i - 1]
      /\ <<w>> \o r \in Seq(Windows)
  BY <1>3, ConcatProperties
<1>5. Len(r) \in Nat /\ DOMAIN r = 1 .. Len(r) /\ DOMAIN (<<w>> \o r) = 1 .. 1 + Len(r)
  BY <1>3, <1>4, LenProperties
<1>6. Range(<<w>> \o r) = Range(r) \cup {w}
  <2>1. Range(<<w>> \o r) \subseteq Range(r) \cup {w}
    BY <1>4, <1>5 DEF Range
  <2>2. w \in Range(<<w>> \o r)
    BY <1>4, <1>5 DEF Range
  <2>3. ASSUME NEW i \in 1 .. Len(r) PROVE r[i] \in Range(<<w>> \o r)
    <3>1. i + 1 \in 1 .. 1 + Len(r) /\ (<<w>> \o r)[i + 1] = r[i]
      BY <1>4, <1>5
    <3> QED BY <1>5, <3>1 DEF Range
  <2> QED BY <1>5, <2>1, <2>2, <2>3 DEF Range
<1>7. w \in Range(h) \/ w \notin Range(h)
  OBVIOUS
<1>8. <<w>> \o r # <<>> /\ Head(<<w>> \o r) = w
  BY <1>4, <1>5, HeadTailProperties, EmptySeq
<1> QED BY <1>2, <1>6, <1>8 DEF r

(* Both history operations, seen as sets                                   *)
LEMMA PushRanges ==
    ASSUME NEW d, OkDesk(d), Placed(d), NEW w \in Windows,
           NEW m \in Ids \cup {AllId}
    PROVE  /\ Range(PushActivedSurface(d, w).history[m]) =
                IF m = d.ws[w] THEN Range(d.history[m]) \cup {w} ELSE Range(d.history[m])
           /\ Range(RemoveActivedSurface(d, w).history[m]) =
                IF m = d.ws[w] THEN Range(d.history[m]) \ {w} ELSE Range(d.history[m])
<1>1. /\ d \in Desks /\ d.history \in [Ids \cup {AllId} -> Seq(Windows)]
      /\ \A n \in DOMAIN d.history : Injective(d.history[n])
  BY DEF OkDesk, Desks
<1>2. HistoriesOf(d, w) = {d.ws[w]}
  <2>1. d.ws[w] # AllId
    BY CurrentOk DEF Placed, Ids, AllId, NoId
  <2> QED BY <2>1 DEF HistoriesOf, ShowOnAllWorkspace
<1>3. PushActivedSurface(d, w).history[m] =
        IF m = d.ws[w] THEN <<w>> \o Without(d.history[m], w) ELSE d.history[m]
  BY <1>1, <1>2 DEF PushActivedSurface, Desks
<1>4. RemoveActivedSurface(d, w).history[m] =
        IF m = d.ws[w] THEN Without(d.history[m], w) ELSE d.history[m]
  BY <1>1, <1>2 DEF RemoveActivedSurface, Desks
<1>5. d.history[m] \in Seq(Windows) /\ Injective(d.history[m])
  BY <1>1
<1> QED BY <1>3, <1>4, <1>5, RangesOk

LEMMA PushStays ==
    ASSUME NEW d, OkDesk(d), Placed(d), NEW w \in Windows
    PROVE  /\ Stays(d, PushActivedSurface(d, w))
           /\ Stays(d, RemoveActivedSurface(d, w))
           /\ PushActivedSurface(d, w).activated = d.activated
<1>1. /\ PushActivedSurface(d, w).activated = d.activated
      /\ RemoveActivedSurface(d, w).activated = d.activated
  BY DEF PushActivedSurface, RemoveActivedSurface, OkDesk, Desks
<1>2. /\ Same(d, PushActivedSurface(d, w))
      /\ Same(d, RemoveActivedSurface(d, w))
  BY PushActivedOk, RemoveActivedOk
<1>3. Placed(PushActivedSurface(d, w))
  <2> DEFINE e == PushActivedSurface(d, w)
  <2>1. \A m \in Ids \cup {AllId} : Range(e.history[m]) =
          IF m = d.ws[w] THEN Range(d.history[m]) \cup {w} ELSE Range(d.history[m])
    BY PushRanges
  <2> HIDE DEF e
  <2>2. e.ws = d.ws /\ e.life = d.life /\ ModelIds(e) = ModelIds(d)
    BY <1>2 DEF e, Same, ModelIds
  <2>3. ASSUME NEW m \in Ids \cup {AllId}, NEW v \in Range(e.history[m])
        PROVE  e.ws[v] = m
    <3>1. v \in Range(d.history[m]) \/ (v = w /\ m = d.ws[w])
      BY <2>1, <2>3
    <3> QED BY <2>2, <3>1 DEF Placed
  <2>4. Placed(e)
    BY <2>2, <2>3 DEF Placed
  <2> QED BY <2>4 DEF e
<1>4. Placed(RemoveActivedSurface(d, w))
  <2> DEFINE e == RemoveActivedSurface(d, w)
  <2>1. \A m \in Ids \cup {AllId} : Range(e.history[m]) =
          IF m = d.ws[w] THEN Range(d.history[m]) \ {w} ELSE Range(d.history[m])
    BY PushRanges
  <2> HIDE DEF e
  <2>2. e.ws = d.ws /\ e.life = d.life /\ ModelIds(e) = ModelIds(d)
    BY <1>2 DEF e, Same, ModelIds
  <2>3. ASSUME NEW m \in Ids \cup {AllId}, NEW v \in Range(e.history[m])
        PROVE  e.ws[v] = m
    <3>1. v \in Range(d.history[m]) \/ (v = w /\ m = d.ws[w])
      BY <2>1, <2>3
    <3> QED BY <2>2, <3>1 DEF Placed
  <2>4. Placed(e)
    BY <2>2, <2>3 DEF Placed
  <2> QED BY <2>4 DEF e
<1> QED BY <1>1, <1>2, <1>3, <1>4 DEF Stays, AtHome

(* A desk that differs in what Placed does not look at                     *)
LEMMA PlacedSame ==
    ASSUME NEW d, NEW e, Placed(d), Same(d, e), e.history = d.history
    PROVE  Placed(e)
BY DEF Placed, Same, ModelIds

LEMMA SetActivatedSurfaceStays ==
    ASSUME NEW d, OkDesk(d), Placed(d), NEW w \in Windows \cup {NoWindow}
    PROVE  /\ Placed(SetActivatedSurface(d, w)) /\ Same(d, SetActivatedSurface(d, w))
           /\ SetActivatedSurface(d, w).activated = w
<1> DEFINE off == IF d.activated = NoWindow THEN d
                  ELSE SetActivate(d, d.activated, FALSE)
           on == IF w = NoWindow THEN off
                 ELSE PushActivedSurface(SetActivate(off, w, TRUE), w)
           e == SetActivatedSurface(d, w)
<1>1. CASE d.activated = w
  BY <1>1 DEF SetActivatedSurface, Same
<1>2. CASE d.activated # w
  <2>0. /\ TRUE \in BOOLEAN /\ FALSE \in BOOLEAN
        /\ d.activated \in Windows \cup {NoWindow}
    BY DEF OkDesk, Desks
  <2>1. ASSUME NEW b, OkDesk(b), Placed(b), NEW v \in Windows, NEW o \in BOOLEAN
        PROVE  OkDesk(SetActivate(b, v, o)) /\ Placed(SetActivate(b, v, o))
    <3>1. SetActivate(b, v, o).history = b.history
      BY <2>1 DEF SetActivate, OkDesk, Desks
    <3> QED BY <2>1, <3>1, SetActivateOk, PlacedSame
  <2>2. OkDesk(off) /\ Placed(off)
    BY <2>0, <2>1
  <2> HIDE DEF off
  <2>3. OkDesk(on) /\ Placed(on)
    <3>1. CASE w = NoWindow
      BY <2>2, <3>1
    <3>2. CASE w # NoWindow
      <4>1. OkDesk(SetActivate(off, w, TRUE)) /\ Placed(SetActivate(off, w, TRUE))
        BY <2>0, <2>1, <2>2, <3>2
      <4> QED BY <3>2, <4>1, PushActivedOk, PushStays DEF Stays
    <3> QED BY <3>1, <3>2
  <2>4. e = [on EXCEPT !.activated = w]
    BY <1>2 DEF SetActivatedSurface, off
  <2>5. Same(d, e)
    BY SetActivatedSurfaceOk
  <2> HIDE DEF on, e
  <2>6. e.activated = w /\ e.history = on.history /\ Same(on, e)
    BY <2>3, <2>4 DEF OkDesk, Desks, Same
  <2> QED BY <2>3, <2>5, <2>6, PlacedSame DEF e
<1> QED BY <1>1, <1>2

LEMMA StaysSame ==
    ASSUME NEW d, Placed(d) PROVE Stays(d, d)
BY DEF Stays, Same, AtHome

LEMMA ActivateSurfaceStays ==
    ASSUME NEW d, OkDesk(d), Placed(d), NEW w \in Windows \cup {NoWindow},
           w # NoWindow => d.ws[w] = Current(d)
    PROVE  Stays(d, ActivateSurface(d, w))
<1> DEFINE e == SetActivatedSurface(d, w)
<1>1. Placed(e) /\ Same(d, e) /\ e.activated = w
  BY SetActivatedSurfaceStays
<1> HIDE DEF e
<1>2. Stays(d, e)
  BY <1>1 DEF Stays, AtHome, Same, Current
<1>3. w # NoWindow => Stays(d, PushActivedSurface(d, w)) /\ Stays(d, d)
  BY PushStays, StaysSame
<1> QED BY <1>2, <1>3, StaysSame DEF ActivateSurface, e

LEMMA LatestAtHome ==
    ASSUME NEW d, OkDesk(d), Placed(d)
    PROVE  LET w == LatestActiveSurface(d)
           IN  /\ w \in Windows \cup {NoWindow}
               /\ w # NoWindow => d.ws[w] = Current(d) /\ w \in Range(d.history[Current(d)])
<1> DEFINE h == d.history[Current(d)]
<1>1. Current(d) \in Ids /\ LatestActiveSurface(d) \in Windows \cup {NoWindow}
  BY LatestOk
<1>2. h \in Seq(Windows)
  BY <1>1 DEF OkDesk, Desks
<1>3. CASE h = <<>>
  BY <1>1, <1>3 DEF LatestActiveSurface
<1>4. CASE h # <<>>
  <2>1. Head(h) = h[1] /\ 1 \in DOMAIN h
    BY <1>2, <1>4, HeadTailProperties, LenProperties, EmptySeq
  <2>2. Head(h) \in Range(h)
    BY <2>1 DEF Range
  <2>3. d.ws[Head(h)] = Current(d)
    BY <1>1, <2>2 DEF Placed
  <2> QED BY <1>1, <1>4, <2>2, <2>3 DEF LatestActiveSurface
<1> QED BY <1>3, <1>4

LEMMA ActivateLatestStays ==
    ASSUME NEW d, OkDesk(d), Placed(d)
    PROVE  Stays(d, ActivateLatest(d))
<1> DEFINE w == LatestActiveSurface(d)
<1>1. w \in Windows \cup {NoWindow} /\ (w # NoWindow => d.ws[w] = Current(d))
  BY LatestAtHome
<1> HIDE DEF w
<1>2. Stays(d, ActivateSurface(d, w))
  BY <1>1, ActivateSurfaceStays
<1> QED BY <1>2 DEF ActivateLatest, w

LEMMA RequestActiveStays ==
    ASSUME NEW d, OkDesk(d), Placed(d), NEW w \in Windows
    PROVE  /\ Stays(d, RequestActive(d, w))
           /\ Stays(d, RequestInactive(d, w))
           /\ d.ws[w] # Current(d) => RequestActive(d, w).activated = d.activated
<1>1. d.ws[w] # AllId /\ Current(d) # AllId
  BY CurrentOk DEF Placed, Ids, AllId, NoId
<1>2. ShowOnWorkspace(d, w, Current(d)) <=> d.ws[w] = Current(d)
  BY <1>1 DEF ShowOnWorkspace
<1>3. d.ws[w] = Current(d) => Stays(d, ActivateSurface(d, w))
  BY ActivateSurfaceStays
<1>4. Stays(d, RequestActive(d, w))
  BY <1>2, <1>3, PushStays DEF RequestActive
<1>5. d.ws[w] # Current(d) => RequestActive(d, w).activated = d.activated
  BY <1>2, PushStays DEF RequestActive
<1> DEFINE r == RemoveActivedSurface(d, w)
<1>6. OkDesk(r) /\ Stays(d, r)
  BY RemoveActivedOk, PushStays
<1>7. RequestInactive(d, w) = ActivateLatest(r)
  BY DEF RequestInactive
<1> HIDE DEF r
<1>8. Stays(r, ActivateLatest(r))
  BY <1>6, ActivateLatestStays DEF Stays
<1> QED BY <1>4, <1>5, <1>6, <1>7, <1>8, StaysTwice

(* A desk with the windows where they were and the same histories          *)
LEMMA PlacedTwin ==
    ASSUME NEW d, NEW e, Placed(d), e.history = d.history, e.ws = d.ws,
           e.life = d.life, ModelIds(e) = ModelIds(d), e.activated = d.activated
    PROVE  Placed(e) /\ AtHome(d, e)
BY DEF Placed, AtHome

(* A window in no model joins one: no history knew it.                     *)
LEMMA PlacedJoin ==
    ASSUME NEW d, OkDesk(d), Placed(d), NEW w \in Windows, d.ws[w] = NoId,
           NEW e, NEW m \in ModelIds(d), e.ws = [d.ws EXCEPT ![w] = m],
           e.history = d.history, ModelIds(e) = ModelIds(d),
           e.life[w] # "new", \A v \in Windows \ {w} : e.life[v] = d.life[v]
    PROVE  Placed(e)
<1>1. d.ws \in [Windows -> Ids \cup {AllId, NoId}]
      /\ d.history \in [Ids \cup {AllId} -> Seq(Windows)]
  BY DEF OkDesk, Desks
<1>2. NoId \notin Ids \cup {AllId}
  BY DEF NoId, Ids, AllId
<1>3. \A v \in Windows : /\ e.ws[v] \in ModelIds(e) \cup {NoId}
                         /\ e.life[v] = "new" => e.ws[v] = NoId
  BY <1>1 DEF Placed
<1>4. ASSUME NEW n \in Ids \cup {AllId}, NEW v \in Range(e.history[n])
      PROVE  e.ws[v] = n
  <2>1. d.ws[v] = n
    BY <1>4 DEF Placed
  <2>2. v # w
    BY <1>2, <2>1
  <2> QED BY <1>1, <2>1, <2>2
<1> QED BY <1>3, <1>4 DEF Placed

(* A window leaves its model, and with it the history it was in.           *)
LEMMA ModelRemovePlaced ==
    ASSUME NEW d, OkDesk(d), Placed(d), NEW w \in Windows
    PROVE  LET e == ModelRemoveSurface(d, d.ws[w], w)
           IN  /\ Placed(e) /\ e.ws = [d.ws EXCEPT ![w] = NoId]
               /\ ModelIds(e) = ModelIds(d) /\ Current(e) = Current(d)
               /\ e.life = d.life /\ e.activated = d.activated
<1> DEFINE m == d.ws[w]
           e == ModelRemoveSurface(d, m, w)
<1>1. /\ d \in Desks /\ d.ws \in [Windows -> Ids \cup {AllId, NoId}]
      /\ d.history \in [Ids \cup {AllId} -> Seq(Windows)]
      /\ \A n \in DOMAIN d.history : Injective(d.history[n])
  BY DEF OkDesk, Desks
<1>2. /\ e.ws = [d.ws EXCEPT ![w] = NoId]
      /\ e.history = [d.history EXCEPT ![m] = Without(@, w)]
      /\ e.models = d.models /\ e.currentIndex = d.currentIndex
      /\ e.life = d.life /\ e.activated = d.activated
  BY <1>1 DEF ModelRemoveSurface, Desks
<1> HIDE DEF e
<1>3. ModelIds(e) = ModelIds(d) /\ Current(e) = Current(d)
  BY <1>2 DEF ModelIds, Current
<1>4. \A v \in Windows : /\ e.ws[v] \in ModelIds(e) \cup {NoId}
                         /\ e.life[v] = "new" => e.ws[v] = NoId
  BY <1>1, <1>2, <1>3 DEF Placed
<1>5. ASSUME NEW n \in Ids \cup {AllId}, NEW v \in Range(e.history[n])
      PROVE  e.ws[v] = n
  <2>1. d.history[n] \in Seq(Windows) /\ Injective(d.history[n])
    BY <1>1
  <2>2. Range(e.history[n]) = IF n = m THEN Range(d.history[n]) \ {w}
                                       ELSE Range(d.history[n])
    <3>1. e.history[n] = IF n = m THEN Without(d.history[n], w) ELSE d.history[n]
      BY <1>1, <1>2
    <3>2. Range(Without(d.history[n], w)) = Range(d.history[n]) \ {w}
      BY <2>1, RangesOk
    <3> QED BY <3>1, <3>2
  <2>3. v \in Range(d.history[n]) /\ (n = m => v # w)
    BY <1>5, <2>2
  <2>4. d.ws[v] = n
    BY <2>3 DEF Placed
  <2>5. v # w
    BY <2>3, <2>4
  <2> QED BY <1>1, <1>2, <2>4, <2>5
<1>6. Placed(e)
  BY <1>4, <1>5 DEF Placed
<1> QED BY <1>2, <1>3, <1>6 DEF e

LEMMA UpdateCapabilityStays ==
    ASSUME NEW d, OkDesk(d), Placed(d), NEW w \in Windows, NEW flag \in Full,
           NEW value \in BOOLEAN
    PROVE  LET e == UpdateHasActiveCapability(d, w, flag, value)
           IN  /\ Stays(d, e)
               /\ value /\ d.ws[w] # Current(d) => e.activated = d.activated
<1> DEFINE b == [d EXCEPT !.caps[w] = IF value THEN @ \cup {flag} ELSE @ \ {flag}]
           e == UpdateHasActiveCapability(d, w, flag, value)
<1>1. d \in Desks /\ d.caps \in [Windows -> SUBSET Full]
  BY DEF OkDesk, Desks
<1>2. /\ b.models = d.models /\ b.currentIndex = d.currentIndex
      /\ b.nextId = d.nextId /\ b.visible = d.visible /\ b.hidden = d.hidden
      /\ b.ws = d.ws /\ b.life = d.life /\ b.history = d.history
      /\ b.activated = d.activated
      /\ b.caps = [d.caps EXCEPT ![w] = IF value THEN @ \cup {flag} ELSE @ \ {flag}]
  BY <1>1 DEF Desks
<1>3. b \in Desks
  <2>1. b.caps \in [Windows -> SUBSET Full]
    BY <1>1, <1>2
  <2> QED BY <1>1, <1>2, <2>1 DEF Desks
<1>4. value => (HasActiveCapability(d, w) => HasActiveCapability(b, w))
  <2>1. d.caps[w] \subseteq Full /\ (value => b.caps[w] = d.caps[w] \cup {flag})
    BY <1>1, <1>2
  <2> QED BY <2>1 DEF HasActiveCapability
<1>5. /\ e \in {b, RequestActive(b, w), RequestInactive(b, w)}
      /\ value => e \in {b, RequestActive(b, w)}
  <2>1. e \in {b, RequestActive(b, w), RequestInactive(b, w)}
    BY DEF UpdateHasActiveCapability
  <2>2. CASE HasActiveCapability(b, w)
    BY <2>2 DEF UpdateHasActiveCapability
  <2>3. CASE ~HasActiveCapability(b, w)
    <3>1. value => (HasActiveCapability(d, w) <=> HasActiveCapability(b, w))
      BY <1>4, <2>3
    <3>2. value => e = b
      BY <3>1 DEF UpdateHasActiveCapability, HasActiveCapability
    <3> QED BY <2>1, <3>2
  <2> QED BY <2>1, <2>2, <2>3
<1> HIDE DEF b, e
<1>6. OkDesk(b)
  BY <1>2, <1>3 DEF OkDesk
<1>7. Stays(d, b) /\ Current(b) = Current(d)
  BY <1>2, PlacedSame DEF Stays, Same, AtHome, Current
<1>8. /\ Stays(b, RequestActive(b, w)) /\ Stays(b, RequestInactive(b, w))
      /\ b.ws[w] # Current(b) => RequestActive(b, w).activated = b.activated
  BY <1>6, <1>7, RequestActiveStays DEF Stays
<1>9. Stays(d, e)
  BY <1>5, <1>7, <1>8, StaysTwice
<1>10. value /\ d.ws[w] # Current(d) => e.activated = d.activated
  BY <1>2, <1>5, <1>7, <1>8
<1> QED BY <1>9, <1>10 DEF e

LEMMA CancelMinimizeStays ==
    ASSUME NEW d, OkDesk(d), Placed(d), NEW w \in Windows
    PROVE  LET e == RequestCancelMinimize(d, w)
           IN  /\ Stays(d, e)
               /\ d.ws[w] # Current(d) => e.activated = d.activated
<1>1. "UnMinimized" \in Full /\ TRUE \in BOOLEAN
  BY DEF Full
<1> DEFINE u == UpdateHasActiveCapability(d, w, "UnMinimized", TRUE)
<1>2. Stays(d, u) /\ (d.ws[w] # Current(d) => u.activated = d.activated)
  BY <1>1, UpdateCapabilityStays
<1>3. RequestCancelMinimize(d, w) \in {d, u}
  BY DEF RequestCancelMinimize
<1> HIDE DEF u
<1> QED BY <1>2, <1>3, StaysSame

LEMMA ShowOnlyCurrentPlaced ==
    ASSUME NEW d, d \in Desks, Placed(d)
    PROVE  LET e == ShowOnlyCurrent(d)
           IN  /\ Placed(e) /\ e.activated = d.activated /\ e.ws = d.ws
               /\ e.models = d.models /\ Current(e) = Current(d) /\ e.life = d.life
<1> DEFINE e == ShowOnlyCurrent(d)
<1>1. /\ e.activated = d.activated /\ e.ws = d.ws /\ e.models = d.models
      /\ e.currentIndex = d.currentIndex /\ e.life = d.life /\ e.history = d.history
  BY DEF ShowOnlyCurrent, Desks
<1> HIDE DEF e
<1>2. ModelIds(e) = ModelIds(d) /\ Current(e) = Current(d)
  BY <1>1 DEF ModelIds, Current
<1>3. Placed(e)
  BY <1>1, <1>2, PlacedTwin
<1> QED BY <1>1, <1>2, <1>3 DEF e

LEMMA SetCurrentIndexPlaced ==
    ASSUME NEW d, OkDesk(d), Placed(d), NEW i
    PROVE  LET e == SetCurrentIndex(d, i)
           IN  /\ Placed(e) /\ AtHome(d, e) /\ e.activated = d.activated
               /\ e.ws = d.ws /\ e.models = d.models /\ e.life = d.life
               /\ i \in 0 .. Len(d.models) - 1 => Current(e) = d.models[i + 1]
<1>1. CASE i \notin 0 .. Len(d.models) - 1 \/ i = d.currentIndex
  BY <1>1 DEF SetCurrentIndex, AtHome, Current
<1>2. CASE i \in 0 .. Len(d.models) - 1 /\ i # d.currentIndex
  <2> DEFINE b == [d EXCEPT !.currentIndex = i]
             e == ShowOnlyCurrent(b)
  <2>1. d \in Desks /\ i \in Int
    BY <1>2, CurrentOk DEF OkDesk
  <2>2. /\ b \in Desks /\ b.currentIndex = i /\ b.models = d.models
        /\ b.activated = d.activated /\ b.ws = d.ws /\ b.life = d.life
        /\ b.history = d.history
    BY <2>1 DEF Desks
  <2>3. SetCurrentIndex(d, i) = e
    BY <1>2 DEF SetCurrentIndex
  <2> HIDE DEF b
  <2>4. ModelIds(b) = ModelIds(d) /\ Current(b) = d.models[i + 1]
    BY <2>2 DEF ModelIds, Current
  <2>5. Placed(b)
    BY <2>2, <2>4, PlacedTwin
  <2>6. /\ Placed(e) /\ e.activated = b.activated /\ e.ws = b.ws
        /\ e.models = b.models /\ Current(e) = Current(b) /\ e.life = b.life
    BY <2>2, <2>5, ShowOnlyCurrentPlaced
  <2> HIDE DEF e
  <2> QED BY <2>2, <2>3, <2>4, <2>6 DEF AtHome
<1> QED BY <1>1, <1>2

LEMMA SwitchToPlaced ==
    ASSUME NEW d, OkDesk(d), Placed(d), NEW i
    PROVE  LET e == SwitchTo(d, i)
           IN  /\ Placed(e) /\ AtHome(d, e) /\ e.ws = d.ws
               /\ i \in 0 .. Len(d.models) - 1 => Current(e) = d.models[i + 1]
<1>1. CASE i \notin 0 .. Len(d.models) - 1 \/ i = d.currentIndex
  BY <1>1 DEF SwitchTo, AtHome, Current
<1>2. CASE i \in 0 .. Len(d.models) - 1 /\ i # d.currentIndex
  <2> DEFINE b == SetCurrentIndex(d, i)
             e == ActivateLatest(b)
  <2>1. /\ OkDesk(b) /\ Placed(b) /\ AtHome(d, b) /\ b.ws = d.ws
        /\ Current(b) = d.models[i + 1]
    BY <1>2, SetCurrentIndexOk, SetCurrentIndexPlaced
  <2>2. SwitchTo(d, i) = e
    BY <1>2 DEF SwitchTo
  <2> HIDE DEF b
  <2>3. Stays(b, e)
    BY <2>1, ActivateLatestStays
  <2>4. e.ws = b.ws /\ Current(e) = Current(b)
    BY <2>3 DEF Stays, Same, Current
  <2> HIDE DEF e
  <2> QED BY <2>1, <2>2, <2>3, <2>4, HomeTwice
<1> QED BY <1>1, <1>2

(* While no window is pinned, an open one is in a model that exists.       *)
LEMMA ShownInModel ==
    ASSUME NEW d, OkDesk(d), Placed(d), Shown(d, Windows), NEW w \in Windows,
           d.life[w] = "open"
    PROVE  d.ws[w] \in ModelIds(d)
BY CurrentOk DEF Placed, Shown, Ids, AllId, NoId

(* forceActivateSurface goes to the window's workspace first.              *)
LEMMA GoesToWindow ==
    ASSUME NEW c, OkDesk(c), Placed(c), NEW w \in Windows, c.ws[w] \in ModelIds(c)
    PROVE  LET i == ModelIndexOfSurface(c, w)
               s == IF ShowOnWorkspace(c, w, Current(c)) THEN c ELSE SwitchTo(c, i)
           IN  /\ OkDesk(s) /\ Placed(s) /\ AtHome(c, s) /\ s.ws[w] = Current(s)
               /\ c.ws[w] = Current(c) => s = c
<1> DEFINE i == ModelIndexOfSurface(c, w)
           s == IF ShowOnWorkspace(c, w, Current(c)) THEN c ELSE SwitchTo(c, i)
<1>1. ShowOnWorkspace(c, w, Current(c)) <=> c.ws[w] = Current(c)
  BY CurrentOk DEF ShowOnWorkspace, Ids, AllId
<1>2. CASE c.ws[w] = Current(c)
  BY <1>1, <1>2 DEF AtHome
<1>3. CASE c.ws[w] # Current(c)
  <2>1. i = IndexOf(c.models, c.ws[w])
    BY DEF ModelIndexOfSurface
  <2>2. c.models \in Seq(Ids) /\ c.ws[w] \in Range(c.models)
    BY DEF OkDesk, Desks, ModelIds
  <2>3. i \in 0 .. Len(c.models) - 1 /\ c.models[i + 1] = c.ws[w]
    BY <2>1, <2>2, IndexOfOk
  <2> HIDE DEF i
  <2>4. s = SwitchTo(c, i)
    BY <1>1, <1>3
  <2> HIDE DEF s
  <2>5. OkDesk(s)
    BY <2>4, SwitchToOk
  <2>6. Placed(s) /\ AtHome(c, s) /\ s.ws = c.ws /\ Current(s) = c.models[i + 1]
    BY <2>3, <2>4, SwitchToPlaced
  <2> QED BY <1>3, <2>3, <2>5, <2>6 DEF s, i
<1> QED BY <1>2, <1>3

(* Restoring a window that is elsewhere only records it.                   *)
LEMMA ForceActivatePlaced ==
    ASSUME NEW d, OkDesk(d), Placed(d), Shown(d, Windows),
           NEW w \in Windows \cup {NoWindow}
    PROVE  LET e == ForceActivateSurface(d, w) IN Placed(e) /\ AtHome(d, e)
<1> DEFINE e == ForceActivateSurface(d, w)
<1>0. Placed(d) /\ AtHome(d, d)
  BY DEF AtHome
<1>1. CASE w = NoWindow
  BY <1>0, <1>1 DEF ForceActivateSurface
<1>2. CASE w # NoWindow /\ d.life[w] # "open"
  BY <1>0, <1>2 DEF ForceActivateSurface
<1>3. CASE w \in Windows /\ d.life[w] = "open"
  <2> DEFINE c == RequestCancelMinimize(d, w)
             s == IF ShowOnWorkspace(c, w, Current(c)) THEN c
                  ELSE SwitchTo(c, ModelIndexOfSurface(c, w))
  <2>1. /\ OkDesk(c) /\ Stays(d, c)
        /\ d.ws[w] # Current(d) => c.activated = d.activated
    BY <1>3, CancelMinimizeOk, CancelMinimizeStays
  <2>2. e \in {c, d, ActivateSurface(s, w)}
    BY DEF ForceActivateSurface
  <2> HIDE DEF c, e
  <2>3. /\ Placed(c) /\ AtHome(d, c) /\ Current(c) = Current(d)
        /\ ModelIds(c) = ModelIds(d) /\ c.ws = d.ws
    BY <2>1 DEF Stays, Same, Current, ModelIds
  <2>4. c.ws[w] \in ModelIds(c)
    BY <1>3, <2>3, ShownInModel
  <2>5. /\ OkDesk(s) /\ Placed(s) /\ AtHome(c, s) /\ s.ws[w] = Current(s)
        /\ c.ws[w] = Current(c) => s = c
    BY <1>3, <2>1, <2>3, <2>4, GoesToWindow
  <2> HIDE DEF s
  <2>6. AtHome(d, s)
    BY <2>1, <2>3, <2>5 DEF AtHome
  <2>7. Stays(s, ActivateSurface(s, w))
    BY <1>3, <2>5, ActivateSurfaceStays
  <2>8. Placed(ActivateSurface(s, w)) /\ AtHome(d, ActivateSurface(s, w))
    BY <2>6, <2>7, HomeTwice
  <2> QED BY <1>0, <2>2, <2>3, <2>8 DEF e
<1> QED BY <1>1, <1>2, <1>3

(* A window that is moved is in no history until it is in its new model.   *)
LEMMA MoveSurfacePlaced ==
    ASSUME NEW d, OkDesk(d), Placed(d), NEW w \in Windows, d.life[w] = "open",
           NEW m \in ModelIds(d)
    PROVE  LET e == MoveSurface(d, w, m) IN Placed(e) /\ AtHome(d, e)
<1> DEFINE r == ModelRemoveSurface(d, d.ws[w], w)
           f == IF w \in d.flagged THEN ActivateLatest(r) ELSE r
           t == ModelAddSurface(f, m, w)
           a == RequestActive(t, w)
<1>0. MoveSurface(d, w, m) \in {d, t, a} /\ AtHome(d, d)
  BY DEF MoveSurface, AtHome
<1>1. /\ OkDesk(r) /\ Placed(r) /\ r.ws[w] = NoId
      /\ ModelIds(r) = ModelIds(d) /\ Current(r) = Current(d)
      /\ r.life = d.life /\ r.activated = d.activated
  <2>1. d.ws \in [Windows -> Ids \cup {AllId, NoId}]
    BY DEF OkDesk, Desks
  <2> QED BY <2>1, ModelRemoveOk, ModelRemovePlaced
<1> HIDE DEF r
<1>2. OkDesk(f) /\ Stays(r, f)
  BY <1>1, ActivateLatestOk, ActivateLatestStays, StaysSame
<1> HIDE DEF f
<1>3. /\ Placed(f) /\ AtHome(d, f) /\ f.ws[w] = NoId /\ f.life = d.life
      /\ ModelIds(f) = ModelIds(d) /\ Current(f) \in Ids
  <2>1. f.ws = r.ws /\ f.life = r.life /\ ModelIds(f) = ModelIds(r)
    BY <1>2 DEF Stays, Same, ModelIds
  <2>2. Current(f) \in Ids
    BY <1>2, CurrentOk
  <2> QED BY <1>1, <1>2, <2>1, <2>2 DEF Stays, AtHome
<1>4. m \in Ids
  BY CurrentOk
<1>5. OkDesk(t)
  BY <1>2, <1>4, ModelAddOk
<1>6. /\ f.ws \in [Windows -> Ids \cup {AllId, NoId}]
      /\ t.ws = [f.ws EXCEPT ![w] = m] /\ t.history = f.history
      /\ t.models = f.models /\ t.currentIndex = f.currentIndex
      /\ t.life = f.life /\ t.activated = f.activated
  BY <1>2 DEF ModelAddSurface, OkDesk, Desks
<1> HIDE DEF t
<1>7. ModelIds(t) = ModelIds(f) /\ Current(t) = Current(f)
  BY <1>6 DEF ModelIds, Current
<1>8. Placed(t)
  BY <1>2, <1>3, <1>6, <1>7, PlacedJoin
<1>9. AtHome(d, t)
  <2>1. NoId \notin Ids
    BY DEF NoId, Ids
  <2>2. CASE f.activated \in {d.activated, NoWindow}
    BY <2>2, <1>6 DEF AtHome
  <2>3. CASE f.activated \in Windows /\ f.ws[f.activated] = Current(f)
    BY <2>1, <2>3, <1>3, <1>6, <1>7 DEF AtHome
  <2> QED BY <1>3, <2>2, <2>3 DEF AtHome
<1>10. Stays(t, a)
  BY <1>5, <1>8, RequestActiveStays
<1> HIDE DEF a
<1>11. Placed(a) /\ AtHome(d, a)
  BY <1>9, <1>10, HomeTwice
<1> QED BY <1>0, <1>8, <1>9, <1>11

(* The windows of a removed model follow it to the workspace that is       *)
(* current then, and so do its capable windows into that one's history.    *)
Gathered(d, i, capable, g) ==
    LET gone == d.models[i + 1]
        cur == Current(WithoutModel(d, i))
    IN  /\ Placed(g) /\ cur \in Ids /\ cur # gone
        /\ \A n \in Ids \cup {AllId} : Range(g.history[n]) =
              IF n = cur THEN Range(d.history[cur]) \cup capable
              ELSE IF n = gone THEN {} ELSE Range(d.history[n])

LEMMA ResettledPlaced ==
    ASSUME NEW d, OkDesk(d), Placed(d), Shown(d, Windows), Len(d.models) > 1,
           NEW i \in 0 .. Len(d.models) - 1,
           NEW capable, \A v \in capable : v \in Windows /\ d.ws[v] = d.models[i + 1],
           NEW h \in PushedOver(WithoutModel(d, i).history[Current(WithoutModel(d, i))],
                                capable)
    PROVE  Gathered(d, i, capable, Resettled(d, i, h))
<1> DEFINE gone == d.models[i + 1]
           e == WithoutModel(d, i)
           cur == Current(e)
           g == Resettled(d, i, h)
<1>1. /\ h \in Orders /\ Range(h) = Range(e.history[cur]) \cup capable
  BY DEF PushedOver
<1>2. /\ OkDesk(e) /\ ModelIds(e) = ModelIds(d) \ {gone}
  BY WithoutModelOk
<1>3. e.history = [d.history EXCEPT ![gone] = <<>>]
  BY DEF WithoutModel, OkDesk, Desks
<1>4. gone \in Ids
  <2>1. d.models \in Seq(Ids) /\ i + 1 \in 1 .. Len(d.models)
    BY LenProperties DEF OkDesk, Desks
  <2> QED BY <2>1, ElementOfSeq
<1>5. /\ OkDesk(g) /\ DoRemoveModel(d, i, h) = ShowOnlyCurrent(ActivateLatest(g))
      /\ g.models = e.models /\ Current(g) = cur /\ cur \in Ids
      /\ g.ws = [w \in Windows |-> IF d.ws[w] = gone THEN cur ELSE d.ws[w]]
      /\ g.history = [e.history EXCEPT ![cur] = h]
      /\ g.life = d.life /\ g.activated = d.activated
  BY <1>1, ResettledOk
<1> HIDE DEF e, g
<1>6. cur \in ModelIds(e)
  BY <1>2, CurrentOk
<1> HIDE DEF cur, gone
<1>7. NoId \notin Ids /\ d.history \in [Ids \cup {AllId} -> Seq(Windows)] /\ Range(<<>>) = {}
  BY EmptySeq DEF NoId, Ids, OkDesk, Desks, Range
<1>8. ModelIds(g) = ModelIds(d) \ {gone}
  BY <1>2, <1>5 DEF ModelIds
<1>9. \A v \in Windows : /\ g.ws[v] \in ModelIds(g) \cup {NoId}
                         /\ g.life[v] = "new" => g.ws[v] = NoId
  BY <1>2, <1>4, <1>5, <1>6, <1>7, <1>8 DEF Placed
<1>10. ASSUME NEW n \in Ids \cup {AllId}, NEW v \in Range(g.history[n])
       PROVE  g.ws[v] = n
  <2>1. ASSUME NEW k \in Ids \cup {AllId}, NEW u \in Range(e.history[k])
        PROVE  u \in Windows /\ d.ws[u] = k /\ k # gone
    <3>1. k # gone
      BY <1>3, <1>4, <1>7, <2>1
    <3>2. u \in Range(d.history[k])
      BY <1>3, <1>4, <1>7, <2>1, <3>1
    <3>3. u \in Windows
      BY <1>7, <3>2, ElementOfSeq, LenProperties DEF Range
    <3> QED BY <3>1, <3>2, <3>3 DEF Placed
  <2>2. e.history \in [Ids \cup {AllId} -> Seq(Windows)]
    BY <1>2 DEF OkDesk, Desks
  <2>3. CASE n = cur
    <3>1. v \in Range(e.history[cur]) \cup capable
      BY <1>1, <1>5, <1>10, <2>2, <2>3
    <3>2. CASE v \in capable
      BY <1>5, <2>3, <3>2 DEF gone
    <3>3. CASE v \in Range(e.history[cur])
      <4>1. v \in Windows /\ d.ws[v] = cur /\ cur # gone
        BY <1>5, <2>1, <3>3
      <4> QED BY <1>5, <2>3, <4>1
    <3> QED BY <3>1, <3>2, <3>3
  <2>4. CASE n # cur
    <3>1. v \in Range(e.history[n])
      BY <1>5, <1>10, <2>2, <2>4
    <3>2. v \in Windows /\ d.ws[v] = n /\ n # gone
      BY <2>1, <3>1
    <3> QED BY <1>5, <3>2
  <2> QED BY <2>3, <2>4
<1>11. Placed(g)
  BY <1>9, <1>10 DEF Placed
<1>12. cur # gone /\ cur \in Ids
  BY <1>2, <1>5, <1>6
<1>13. ASSUME NEW n \in Ids \cup {AllId}
       PROVE  Range(g.history[n]) =
                IF n = cur THEN Range(d.history[cur]) \cup capable
                ELSE IF n = gone THEN {} ELSE Range(d.history[n])
  <2>1. e.history \in [Ids \cup {AllId} -> Seq(Windows)]
    BY <1>2 DEF OkDesk, Desks
  <2>2. e.history[cur] = d.history[cur]
    BY <1>3, <1>4, <1>7, <1>12
  <2>3. CASE n = cur
    BY <1>1, <1>5, <2>1, <2>2, <2>3
  <2>4. CASE n # cur
    <3>1. g.history[n] = e.history[n]
      BY <1>5, <2>1, <2>4
    <3>2. e.history[n] = IF n = gone THEN <<>> ELSE d.history[n]
      BY <1>3, <1>4, <1>7
    <3> QED BY <1>7, <2>4, <3>1, <3>2
  <2> QED BY <2>3, <2>4
<1> QED BY <1>11, <1>12, <1>13 DEF Gathered, g, cur, gone, e

LEMMA DoRemoveModelPlaced ==
    ASSUME NEW d, OkDesk(d), Placed(d), Shown(d, Windows), Len(d.models) > 1,
           NEW i \in 0 .. Len(d.models) - 1,
           NEW capable, \A v \in capable : v \in Windows /\ d.ws[v] = d.models[i + 1],
           NEW h \in PushedOver(WithoutModel(d, i).history[Current(WithoutModel(d, i))],
                                capable)
    PROVE  LET e == DoRemoveModel(d, i, h) IN Placed(e) /\ AtHome(d, e)
<1> DEFINE g == Resettled(d, i, h)
           a == ActivateLatest(g)
           s == ShowOnlyCurrent(a)
<1>1. h \in Orders
  BY DEF PushedOver
<1>2. OkDesk(g) /\ DoRemoveModel(d, i, h) = s /\ g.activated = d.activated
  BY <1>1, ResettledOk
<1>3. Placed(g)
  BY ResettledPlaced DEF Gathered
<1> HIDE DEF g
<1>4. OkDesk(a) /\ Stays(g, a)
  BY <1>2, <1>3, ActivateLatestOk, ActivateLatestStays
<1> HIDE DEF a
<1>5. Placed(a) /\ AtHome(d, a) /\ a \in Desks
  BY <1>2, <1>4 DEF Stays, AtHome, OkDesk
<1>6. /\ Placed(s) /\ s.activated = a.activated /\ s.ws = a.ws
      /\ Current(s) = Current(a)
  BY <1>5, ShowOnlyCurrentPlaced
<1> HIDE DEF s
<1> QED BY <1>2, <1>5, <1>6 DEF AtHome

LEMMA ModePlaced ==
    ASSUME NEW d, OkDesk(d), Placed(d), Shown(d, Windows), NEW n \in Modes
    PROVE  LET e == [d EXCEPT !.mode = n]
           IN  /\ OkDesk(e) /\ Placed(e) /\ Shown(e, Windows)
               /\ Current(e) = Current(d) /\ e.ws = d.ws /\ e.activated = d.activated
<1> DEFINE e == [d EXCEPT !.mode = n]
<1>1. /\ OkDesk(e) /\ Same(d, e) /\ e.history = d.history
      /\ e.activated = d.activated
  BY DEF OkDesk, Desks, Same
<1> HIDE DEF e
<1>2. Placed(e) /\ Shown(e, Windows)
  BY <1>1, PlacedSame, SameShown
<1> QED BY <1>1, <1>2 DEF Same, Current, e

LEMMA BecomePlaced ==
    ASSUME NEW e, OkDesk(e), Placed(e), AtHome(desk, e), Become(e)
    PROVE  Placed(desk') /\ AtHome(desk, desk')
<1>1. e \in Desks
  BY DEF OkDesk
<1>2. desk' = e
  BY <1>1 DEF Become, desk, Desks
<1> QED BY <1>2

LEMMA ClientsPlaced ==
    ASSUME Inv, Fit(desk), Placed(desk), NEW w \in Windows,
           \/ OpenWindow(w) \/ MapWindow(w) \/ UnmapWindow(w) \/ Minimize(w)
           \/ CancelMinimize(w) \/ RemoveWindow(w)
    PROVE  Placed(desk') /\ AtHome(desk, desk')
<1>0. /\ OkDesk(desk) /\ Shown(desk, Windows) /\ TRUE \in BOOLEAN /\ FALSE \in BOOLEAN
      /\ {"MappedOrSplash", "UnMinimized", "HasInitializeContainer"} \subseteq Full
      /\ desk.life = life /\ desk.caps = caps /\ desk.ws = ws
  BY DEF Inv, GoodDesk, Full, desk
<1>1. CASE OpenWindow(w)
  <2> DEFINE a == ModelAddSurface(desk, Current(desk), w)
             e == [a EXCEPT !.life[w] = "open",
                            !.caps[w] = @ \cup {"HasInitializeContainer"}]
  <2>1. /\ OkDesk(a) /\ a.models = desk.models /\ a.history = desk.history
        /\ a.ws = [desk.ws EXCEPT ![w] = Current(desk)] /\ a.life = desk.life
        /\ a.activated = desk.activated /\ a.currentIndex = desk.currentIndex
    <3>1. OkDesk(a)
      BY <1>0, CurrentOk, ModelAddOk
    <3> QED BY <1>0, <3>1 DEF ModelAddSurface, OkDesk, Desks
  <2> HIDE DEF a
  <2>2. /\ a \in Desks /\ a.caps \in [Windows -> SUBSET Full]
        /\ a.life \in [Windows -> {"new", "open", "removed"}]
    BY <2>1 DEF OkDesk, Desks
  <2>3. /\ e.models = a.models /\ e.history = a.history /\ e.ws = a.ws
        /\ e.activated = a.activated /\ e.life = [a.life EXCEPT ![w] = "open"]
        /\ e.currentIndex = a.currentIndex /\ e.nextId = a.nextId
    BY <2>2 DEF Desks
  <2>4. Become(e) /\ life[w] = "new"
    BY <1>1 DEF OpenWindow, a
  <2>5. OkDesk(e)
    <3>1. /\ [a.life EXCEPT ![w] = "open"] \in [Windows -> {"new", "open", "removed"}]
          /\ [a.caps EXCEPT ![w] = @ \cup {"HasInitializeContainer"}]
               \in [Windows -> SUBSET Full]
      BY <1>0, <2>2
    <3>2. e \in Desks
      BY <2>2, <3>1 DEF Desks
    <3> HIDE DEF e
    <3> QED BY <2>1, <2>3, <3>2 DEF OkDesk
  <2> HIDE DEF e
  <2>6. desk.ws[w] = NoId /\ Current(desk) \in ModelIds(desk)
    BY <1>0, <2>4, CurrentOk DEF Placed
  <2>7. ModelIds(e) = ModelIds(desk)
    BY <2>1, <2>3 DEF ModelIds
  <2>8. e.life[w] # "new" /\ \A v \in Windows \ {w} : e.life[v] = desk.life[v]
    BY <2>1, <2>2, <2>3
  <2>9. Placed(e)
    BY <1>0, <2>1, <2>3, <2>6, <2>7, <2>8, PlacedJoin
  <2>10. AtHome(desk, e)
    BY <2>1, <2>3 DEF AtHome
  <2> QED BY <2>4, <2>5, <2>9, <2>10, BecomePlaced
<1>2. ASSUME NEW flag \in {"MappedOrSplash", "UnMinimized"}, NEW value \in BOOLEAN,
             Become(UpdateHasActiveCapability(desk, w, flag, value))
      PROVE  Placed(desk') /\ AtHome(desk, desk')
  <2> DEFINE e == UpdateHasActiveCapability(desk, w, flag, value)
  <2>1. OkDesk(e) /\ Stays(desk, e)
    BY <1>0, UpdateCapabilityOk, UpdateCapabilityStays
  <2> HIDE DEF e
  <2> QED BY <1>2, <2>1, BecomePlaced DEF Stays, e
<1>3. CASE MapWindow(w)
  BY <1>0, <1>2, <1>3 DEF MapWindow
<1>4. CASE UnmapWindow(w)
  BY <1>0, <1>2, <1>4 DEF UnmapWindow
<1>5. CASE Minimize(w)
  BY <1>0, <1>2, <1>5 DEF Minimize
<1>6. CASE CancelMinimize(w)
  <2>1. OkDesk(RequestCancelMinimize(desk, w)) /\ Stays(desk, RequestCancelMinimize(desk, w))
    BY <1>0, CancelMinimizeOk, CancelMinimizeStays
  <2> QED BY <1>6, <2>1, BecomePlaced DEF CancelMinimize, Stays
<1>7. CASE RemoveWindow(w)
  <2> DEFINE flag == "HasInitializeContainer"
             a == [desk EXCEPT !.life[w] = "removed"]
             r == UpdateHasActiveCapability(a, w, flag, FALSE)
             e == ModelRemoveSurface(r, ws[w], w)
  <2>1. Become(e)
    BY <1>7 DEF RemoveWindow
  <2> DEFINE b == [a EXCEPT !.caps[w] = @ \ {flag}]
  <2>2. /\ OkDesk(a) /\ OkDesk(b) /\ Fit(b) /\ ~HasActiveCapability(b, w)
        /\ a.models = models /\ a.history = history /\ a.ws = ws
        /\ a.currentIndex = currentIndex /\ a.activated = activated
        /\ b.activated = activated /\ a.life = [life EXCEPT ![w] = "removed"]
    BY <1>0, ClosingOk DEF desk
  <2>3. r \in {b, RequestActive(b, w), RequestInactive(b, w)}
    BY DEF UpdateHasActiveCapability
  <2> HIDE DEF a
  <2>4. Placed(a)
    <3>1. life \in [Windows -> {"new", "open", "removed"}]
      BY <1>0 DEF OkDesk, Desks, desk
    <3> QED BY <2>2, <3>1 DEF Placed, ModelIds, desk
  <2>5. OkDesk(r) /\ Stays(a, r)
    BY <1>0, <2>2, <2>4, UpdateCapabilityOk, UpdateCapabilityStays
  <2> HIDE DEF b, r
  <2>6. r.activated \in {activated, NoWindow} \/ r.activated # w
    <3>1. Kept(b, r)
      BY <2>2, <2>3, RequestActiveKept, KeptSame
    <3> QED BY <2>2, <3>1 DEF Kept, Allowed, HasActiveCapability
  <2>7. /\ r.ws = ws /\ ws \in [Windows -> Ids \cup {AllId, NoId}]
    BY <1>0, <2>2, <2>5 DEF Stays, Same, OkDesk, Desks, desk
  <2>8. OkDesk(e)
    BY <2>5, ModelRemoveOk
  <2>9. /\ Placed(e) /\ e.ws = [r.ws EXCEPT ![w] = NoId]
        /\ Current(e) = Current(r) /\ e.activated = r.activated
    BY <2>5, <2>7, ModelRemovePlaced DEF Stays
  <2> HIDE DEF e
  <2>10. AtHome(a, r)
    BY <2>5 DEF Stays
  <2>11. AtHome(desk, e)
    BY <2>2, <2>6, <2>7, <2>9, <2>10 DEF AtHome, desk
  <2> QED BY <2>1, <2>8, <2>9, <2>11, BecomePlaced
<1> QED BY <1>1, <1>3, <1>4, <1>5, <1>6, <1>7

LEMMA UsersPlaced ==
    ASSUME Inv, Fit(desk), Placed(desk), NEW w,
           \/ w \in Windows /\ (PopupActive(w) \/ ClickWindow(w) \/ ForceActivate(w))
           \/ LayerInactive \/ ClickEmpty \/ QuickSwitch \/ RemoveSession
    PROVE  Placed(desk') /\ AtHome(desk, desk')
<1>0. /\ OkDesk(desk) /\ Shown(desk, Windows) /\ OneShown(desk)
      /\ NoWindow \in Windows \cup {NoWindow} /\ desk.hidden = hidden
      /\ Current(desk) \in Ids /\ ModelIds(desk) \subseteq Ids
      /\ AllId \notin Ids \cup {NoId}
  BY CurrentOk DEF Inv, GoodDesk, desk, AllId, NoId, Ids
<1>1. ASSUME NEW v \in Windows \cup {NoWindow}, Become(ActivateSurface(desk, v)),
             v # NoWindow => desk.ws[v] = Current(desk)
      PROVE  Placed(desk') /\ AtHome(desk, desk')
  <2>1. OkDesk(ActivateSurface(desk, v)) /\ Stays(desk, ActivateSurface(desk, v))
    BY <1>0, <1>1, ActivateSurfaceOk, ActivateSurfaceStays
  <2> QED BY <1>1, <2>1, BecomePlaced DEF Stays
<1>2. ASSUME NEW v \in Windows, Become(ForceActivateSurface(desk, v))
      PROVE  Placed(desk') /\ AtHome(desk, desk')
  BY <1>0, <1>2, ForceActivateOk, ForceActivatePlaced, BecomePlaced
<1>3. CASE w \in Windows /\ PopupActive(w)
  <2>1. desk.ws[w] # AllId
    BY <1>0, <1>3 DEF Placed
  <2> QED BY <1>1, <1>3, <2>1 DEF PopupActive, ShowOnWorkspace
<1>4. CASE w \in Windows /\ ClickWindow(w)
  <2>1. desk.life[w] = "open"
    BY <1>4 DEF ClickWindow, HasActiveCapability, Full, Fit
  <2>2. desk.ws[w] # AllId
    BY <1>0, <1>4 DEF Placed
  <2>3. desk.ws[w] = Current(desk)
    BY <1>0, <1>4, <2>1, <2>2 DEF ClickWindow, Shown, OneShown
  <2> QED BY <1>1, <1>4, <2>3 DEF ClickWindow
<1>5. CASE LayerInactive
  <2>1. OkDesk(ActivateLatest(desk)) /\ Stays(desk, ActivateLatest(desk))
    BY <1>0, ActivateLatestOk, ActivateLatestStays
  <2> QED BY <1>5, <2>1, BecomePlaced DEF LayerInactive, Stays
<1>6. CASE QuickSwitch
  <2>1. history[Current(desk)] \in Seq(Windows)
    BY <1>0, LatestOk DEF OkDesk, Desks, desk
  <2>2. history[Current(desk)][2] \in Windows
    BY <1>6, <2>1, ElementOfSeq, LenProperties DEF QuickSwitch
  <2> QED BY <1>2, <1>6, <2>2 DEF QuickSwitch
<1>7. CASE RemoveSession
  <2> DEFINE H == [m \in DOMAIN history |-> <<>>]
             c == [desk EXCEPT !.history = H]
  <2>1. H \in [Ids \cup {AllId} -> Seq(Windows)] /\ \A m \in DOMAIN H : Injective(H[m])
    <3>1. history \in [Ids \cup {AllId} -> Seq(Windows)]
      BY <1>0 DEF OkDesk, Desks, desk
    <3>2. <<>> \in Seq(Windows) /\ DOMAIN <<>> = {}
      BY EmptySeq
    <3> QED BY <3>1, <3>2 DEF Injective
  <2>2. \A m \in Ids \cup {AllId} : Range(H[m]) = {}
    <3>1. DOMAIN H = Ids \cup {AllId}
      BY <2>1
    <3>2. \A m \in Ids \cup {AllId} : H[m] = <<>>
      BY <3>1
    <3>3. Range(<<>>) = {}
      BY EmptySeq DEF Range
    <3> QED BY <3>2, <3>3
  <2> HIDE DEF H
  <2>3. /\ OkDesk(c) /\ c.history = H /\ c.ws = desk.ws /\ c.life = desk.life
        /\ c.models = desk.models /\ c.activated = desk.activated
    BY <1>0, <2>1 DEF OkDesk, Desks
  <2>4. Become(ActivateSurface(c, NoWindow))
    BY <1>7 DEF RemoveSession, H
  <2> HIDE DEF c
  <2>5. Placed(c) /\ AtHome(desk, c)
    BY <2>2, <2>3 DEF Placed, ModelIds, AtHome
  <2>6. OkDesk(ActivateSurface(c, NoWindow)) /\ Stays(c, ActivateSurface(c, NoWindow))
    BY <1>0, <2>3, <2>5, ActivateSurfaceOk, ActivateSurfaceStays
  <2> QED BY <2>4, <2>5, <2>6, HomeTwice, BecomePlaced
<1>8. CASE ClickEmpty
  BY <1>0, <1>1, <1>8 DEF ClickEmpty
<1> QED BY <1>2, <1>3, <1>4, <1>5, <1>6, <1>7, <1>8 DEF ForceActivate

LEMMA WorkspacesPlaced ==
    ASSUME "pin" \notin Uses, Inv, Placed(desk), NEW i, NEW j, NEW w, NEW m,
           \/ SwitchWorkspace(i) \/ SwipeWorkspace(i) \/ CreateModel
           \/ RemoveModel(i) \/ MoveModelTo(i, j)
           \/ w \in Windows /\ MoveSurfaceTo(w, m)
    PROVE  Placed(desk') /\ AtHome(desk, desk')
<1>0. OkDesk(desk) /\ Shown(desk, Windows) /\ OneShown(desk)
  BY DEF Inv, GoodDesk
<1>1. CASE SwitchWorkspace(i)
  BY <1>0, <1>1, SwitchToOk, SwitchToPlaced, BecomePlaced DEF SwitchWorkspace
<1>2. CASE SwipeWorkspace(i)
  BY <1>0, <1>2, SetCurrentIndexOk, SetCurrentIndexPlaced, BecomePlaced DEF SwipeWorkspace
<1>3. CASE CreateModel
  <2>1. /\ desk'.activated = desk.activated /\ desk'.ws = desk.ws /\ desk'.life = desk.life
        /\ desk'.models = Append(models, nextId)
        /\ desk'.history = [history EXCEPT ![nextId] = history[AllId]]
    BY <1>3 DEF CreateModel, Become, desk
  <2> HIDE DEF desk
  <2>2. /\ models \in Seq(Ids) /\ history \in [Ids \cup {AllId} -> Seq(Windows)]
        /\ nextId \in Ids /\ desk.models = models /\ desk.history = history
    BY <1>0, <1>3, NumAssumption DEF CreateModel, OkDesk, Desks, desk, Ids
  <2>3. ModelIds(desk) \subseteq ModelIds(desk')
    <3>1. /\ Len(Append(models, nextId)) = Len(models) + 1
          /\ \A k \in 1 .. Len(models) : Append(models, nextId)[k] = models[k]
          /\ Append(models, nextId) \in Seq(Ids) /\ Len(models) \in Nat
      BY <2>2, AppendProperties, LenProperties
    <3>2. DOMAIN models = 1 .. Len(models) /\ DOMAIN Append(models, nextId) = 1 .. Len(models) + 1
      BY <2>2, <3>1, LenProperties
    <3> QED BY <2>1, <2>2, <3>1, <3>2 DEF ModelIds, Range
  <2>4. Range(history[AllId]) = {}
    <3>1. ASSUME NEW v \in Range(history[AllId]) PROVE FALSE
      <4>1. desk.ws[v] = AllId
        BY <2>2, <3>1 DEF Placed
      <4>2. v \in Windows
        BY <2>2, <3>1, ElementOfSeq, LenProperties DEF Range
      <4>3. ModelIds(desk) \subseteq Ids
        BY <1>0, CurrentOk
      <4> QED BY <4>1, <4>2, <4>3 DEF Placed, Ids, AllId, NoId
    <3> QED BY <3>1
  <2>5. ASSUME NEW n \in Ids \cup {AllId}, NEW v \in Range(desk'.history[n])
        PROVE  desk.ws[v] = n
    <3>1. v \in Range(history[n])
      BY <2>1, <2>2, <2>4, <2>5
    <3> QED BY <2>2, <3>1 DEF Placed
  <2>6. \A v \in Windows : /\ desk.ws[v] \in ModelIds(desk') \cup {NoId}
                           /\ desk.life[v] = "new" => desk.ws[v] = NoId
    BY <2>3 DEF Placed
  <2>7. Placed(desk')
    BY <2>1, <2>5, <2>6 DEF Placed
  <2> QED BY <2>1, <2>7 DEF AtHome
<1>4. CASE RemoveModel(i)
  <2> DEFINE e == WithoutModel(desk, i)
             capable == {v \in Windows : /\ ws[v] = models[i + 1]
                                         /\ HasActiveCapability(desk, v)}
  <2>1. Len(desk.models) > 1 /\ i \in 0 .. Len(desk.models) - 1
    BY <1>4 DEF RemoveModel, desk
  <2>2. PICK h \in PushedOver(e.history[Current(e)], capable) :
            Become(DoRemoveModel(desk, i, h))
    BY <1>4 DEF RemoveModel
  <2>3. \A v \in capable : v \in Windows /\ desk.ws[v] = desk.models[i + 1]
    BY DEF desk
  <2>4. h \in Orders
    BY DEF PushedOver
  <2> HIDE DEF capable
  <2>5. OkDesk(DoRemoveModel(desk, i, h))
    BY <1>0, <2>1, <2>4, DoRemoveModelOk
  <2>6. Placed(DoRemoveModel(desk, i, h)) /\ AtHome(desk, DoRemoveModel(desk, i, h))
    BY <1>0, <2>1, <2>2, <2>3, DoRemoveModelPlaced
  <2> QED BY <2>2, <2>5, <2>6, BecomePlaced
<1>5. CASE MoveModelTo(i, j)
  <2> DEFINE e == DoMoveModel(desk, i, j)
  <2>1. i \in 0 .. Len(desk.models) - 1 /\ j \in 0 .. Len(desk.models) - 1
    BY <1>5 DEF MoveModelTo, desk
  <2>2. OkDesk(e)
    BY <1>0, <2>1, DoMoveModelOk
  <2>3. /\ e.history = desk.history /\ e.ws = desk.ws /\ e.life = desk.life
        /\ e.activated = desk.activated /\ e.models = MoveRow(desk.models, i, j)
    BY <1>0 DEF DoMoveModel, OkDesk, Desks
  <2>4. Become(e)
    BY <1>5 DEF MoveModelTo
  <2> HIDE DEF e
  <2>5. ModelIds(e) = ModelIds(desk)
    <3>1. desk.models \in Seq(Ids) /\ Injective(desk.models)
      BY <1>0 DEF OkDesk, Desks, Injective
    <3> QED BY <2>1, <2>3, <3>1, MoveRowOk DEF ModelIds
  <2> QED BY <2>2, <2>3, <2>4, <2>5, PlacedTwin, BecomePlaced
<1>6. CASE w \in Windows /\ MoveSurfaceTo(w, m)
  <2>1. m \in ModelIds(desk) /\ desk.life[w] = "open" /\ Become(MoveSurface(desk, w, m))
    BY <1>6 DEF MoveSurfaceTo, desk
  <2>2. m \in Ids \cup {AllId}
    BY <1>0, <2>1, CurrentOk
  <2> QED BY <1>0, <1>6, <2>1, <2>2, MoveSurfaceOk, MoveSurfacePlaced, BecomePlaced
<1> QED BY <1>1, <1>2, <1>3, <1>4, <1>5, <1>6

LEMMA LeaveMultitaskviewPlaced ==
    ASSUME NEW d, OkDesk(d), Placed(d), Shown(d, Windows),
           NEW w \in Windows \cup {NoWindow}
    PROVE  LET e == LeaveMultitaskview(d, w) IN OkDesk(e) /\ Placed(e) /\ AtHome(d, e)
<1> DEFINE n == [d EXCEPT !.mode = "Normal"]
           v == IF w = NoWindow THEN LatestActiveSurface(n) ELSE w
           e == ForceActivateSurface(n, v)
<1>1. /\ OkDesk(n) /\ Placed(n) /\ Shown(n, Windows) /\ n.activated = d.activated
  BY ModePlaced DEF Modes
<1> HIDE DEF n
<1>2. v \in Windows \cup {NoWindow}
  BY <1>1, LatestOk
<1> HIDE DEF v
<1>3. OkDesk(e) /\ Placed(e) /\ AtHome(n, e)
  BY <1>1, <1>2, ForceActivateOk, ForceActivatePlaced
<1>4. LeaveMultitaskview(d, w) = e
  BY DEF LeaveMultitaskview, v, n
<1> HIDE DEF e
<1> QED BY <1>1, <1>3, <1>4 DEF AtHome

LEMMA ModesPlaced ==
    ASSUME Inv, Placed(desk), NEW w \in Windows \cup {NoWindow},
           \/ EnterWindowSwitch \/ (w \in Windows /\ ExitWindowSwitch(w))
           \/ EnterMultitaskview \/ ExitMultitaskview(w)
           \/ LockScreen \/ Unlock
    PROVE  Placed(desk') /\ AtHome(desk, desk')
<1>0. /\ Modes = {"Normal", "LockScreen", "WindowSwitch", "Multitaskview"}
      /\ OkDesk(desk) /\ Shown(desk, Windows) /\ NoWindow \in Windows \cup {NoWindow}
  BY DEF Modes, Inv, GoodDesk
<1>1. ASSUME NEW b, OkDesk(b), Placed(b), Shown(b, Windows), AtHome(desk, b),
             NEW n \in Modes, Become([b EXCEPT !.mode = n])
      PROVE  Placed(desk') /\ AtHome(desk, desk')
  <2> DEFINE e == [b EXCEPT !.mode = n]
  <2>1. /\ OkDesk(e) /\ Placed(e) /\ Current(e) = Current(b) /\ e.ws = b.ws
        /\ e.activated = b.activated
    BY <1>1, ModePlaced
  <2>2. Become(e)
    BY <1>1
  <2> HIDE DEF e
  <2> QED BY <1>1, <2>1, <2>2, BecomePlaced DEF AtHome
<1>2. CASE EnterWindowSwitch \/ Unlock
  <2>1. AtHome(desk, desk)
    BY DEF AtHome
  <2>2. PICK n \in Modes : Become([desk EXCEPT !.mode = n])
    BY <1>0, <1>2 DEF EnterWindowSwitch, Unlock
  <2> QED BY <1>0, <1>1, <2>1, <2>2
<1>3. CASE w \in Windows /\ ExitWindowSwitch(w)
  <2> DEFINE n == [desk EXCEPT !.mode = "Normal"]
             e == ForceActivateSurface(n, w)
  <2>1. OkDesk(n) /\ Placed(n) /\ Shown(n, Windows) /\ n.activated = desk.activated
    BY <1>0, ModePlaced
  <2>2. Become(e)
    BY <1>3 DEF ExitWindowSwitch
  <2> HIDE DEF n
  <2>3. OkDesk(e) /\ Placed(e) /\ AtHome(n, e)
    BY <2>1, ForceActivateOk, ForceActivatePlaced
  <2> HIDE DEF e
  <2>4. AtHome(desk, e)
    BY <2>1, <2>3 DEF AtHome
  <2> QED BY <2>2, <2>3, <2>4, BecomePlaced
<1>4. CASE EnterMultitaskview
  <2> DEFINE n == ActivateSurface(desk, NoWindow)
  <2>1. OkDesk(n) /\ Stays(desk, n)
    BY <1>0, ActivateSurfaceOk, ActivateSurfaceStays
  <2>2. Become([n EXCEPT !.mode = "Multitaskview"])
    BY <1>4 DEF EnterMultitaskview
  <2> HIDE DEF n
  <2>3. Placed(n) /\ AtHome(desk, n) /\ Shown(n, Windows)
    BY <1>0, <2>1, SameShown DEF Stays
  <2> QED BY <1>0, <1>1, <2>1, <2>2, <2>3
<1>5. CASE ExitMultitaskview(w)
  BY <1>0, <1>5, LeaveMultitaskviewPlaced, BecomePlaced DEF ExitMultitaskview
<1>6. CASE LockScreen
  <2> DEFINE n == IF mode = "Multitaskview" THEN LeaveMultitaskview(desk, NoWindow)
                                            ELSE desk
  <2>1. Become([n EXCEPT !.mode = "LockScreen"])
    BY <1>6 DEF LockScreen
  <2>2. OkDesk(n) /\ Placed(n) /\ AtHome(desk, n)
    BY <1>0, LeaveMultitaskviewPlaced DEF AtHome
  <2>3. Shown(n, Windows)
    BY LeaveMultitaskviewGood DEF Inv, GoodDesk
  <2> HIDE DEF n
  <2> QED BY <1>0, <1>1, <2>1, <2>2, <2>3
<1> QED BY <1>2, <1>3, <1>4, <1>5, <1>6

LEMMA StepPlaced ==
    ASSUME "pin" \notin Uses
    PROVE  Inv /\ Fit(desk) /\ Placed(desk) /\ [Next]_vars
              => Placed(desk') /\ AtHome(desk, desk')
<1> SUFFICES ASSUME Inv, Fit(desk), Placed(desk), [Next]_vars
             PROVE  Placed(desk') /\ AtHome(desk, desk')
  OBVIOUS
<1>1. ASSUME NEW w \in Windows,
             \/ OpenWindow(w) \/ MapWindow(w) \/ UnmapWindow(w) \/ Minimize(w)
             \/ CancelMinimize(w) \/ RemoveWindow(w)
      PROVE  Placed(desk') /\ AtHome(desk, desk')
  BY <1>1, ClientsPlaced
<1>2. ASSUME NEW w,
             \/ w \in Windows /\ (PopupActive(w) \/ ClickWindow(w) \/ ForceActivate(w))
             \/ LayerInactive \/ ClickEmpty \/ QuickSwitch \/ RemoveSession
      PROVE  Placed(desk') /\ AtHome(desk, desk')
  BY <1>2, UsersPlaced
<1>3. ASSUME NEW i, NEW j, NEW w, NEW m,
             \/ SwitchWorkspace(i) \/ SwipeWorkspace(i) \/ CreateModel
             \/ RemoveModel(i) \/ MoveModelTo(i, j)
             \/ w \in Windows /\ MoveSurfaceTo(w, m)
      PROVE  Placed(desk') /\ AtHome(desk, desk')
  BY <1>3, WorkspacesPlaced
<1>4. ASSUME NEW w \in Windows \cup {NoWindow},
             \/ EnterWindowSwitch \/ (w \in Windows /\ ExitWindowSwitch(w))
             \/ EnterMultitaskview \/ ExitMultitaskview(w)
             \/ LockScreen \/ Unlock
      PROVE  Placed(desk') /\ AtHome(desk, desk')
  BY <1>4, ModesPlaced
<1>5. CASE Next
  BY <1>1, <1>2, <1>3, <1>4, <1>5 DEF Next
<1>6. CASE UNCHANGED vars
  <2>1. desk' = desk
    BY <1>6 DEF vars, desk
  <2> QED BY <2>1 DEF AtHome
<1> QED BY <1>5, <1>6

LEMMA PlacedAlways ==
    ASSUME "pin" \notin Uses
    PROVE  Spec => [](Inv /\ Fit(desk) /\ Placed(desk))
<1>1. Init => Placed(desk)
  <2> SUFFICES ASSUME Init PROVE Placed(desk)
    OBVIOUS
  <2>1. \A m \in Ids \cup {AllId} : Range(desk.history[m]) = {}
    <3>1. \A m \in Ids \cup {AllId} : desk.history[m] = <<>>
      BY DEF Init, desk
    <3>2. Range(<<>>) = {}
      BY EmptySeq DEF Range
    <3> QED BY <3>1, <3>2
  <2>2. \A w \in Windows : desk.ws[w] = NoId
    BY DEF Init, desk
  <2> QED BY <2>1, <2>2 DEF Placed
<1>2. Inv /\ Fit(desk) /\ Placed(desk) /\ [Next]_vars => Placed(desk)'
  BY StepPlaced
<1> QED BY <1>1, <1>2, FitAlways, PTL DEF Spec

(* setActivatedSurface's assertion, for every instance without windows on  *)
(* all workspaces: whatever is activated is on the workspace the user      *)
(* looks at when the handler ends.  With pinned windows the code breaks it *)
(* (run desk_assert).                                                      *)
THEOREM ActivatedOnCurrent ==
    ASSUME "pin" \notin Uses
    PROVE  Spec => ActivatesOnCurrent
<1> DEFINE A == activated' # activated /\ activated' # NoWindow
                   => ShowOnWorkspace(desk', activated', Current(desk'))
<1>1. Inv /\ Fit(desk) /\ Placed(desk) /\ [Next]_vars => [A]_vars
  <2> SUFFICES ASSUME Inv, Fit(desk), Placed(desk), [Next]_vars PROVE A
    OBVIOUS
  <2>1. AtHome(desk, desk')
    BY StepPlaced
  <2> QED BY <2>1 DEF AtHome, ShowOnWorkspace, desk
<1> HIDE DEF A
<1>2. Spec => [][A]_vars
  BY <1>1, PlacedAlways, PTL DEF Spec
<1> QED BY <1>2 DEF ActivatesOnCurrent, A

-----------------------------------------------------------------------------
(* What the histories say.  They are exact (Exact) as long as activation   *)
(* is blocked only while no window is activated, nothing is pinned and no  *)
(* session is removed: those are the interactions Calm leaves out.         *)

Calm == Uses \subseteq {"swipe", "popup"} \/ Uses \subseteq {"swipe", "Multitaskview"}

(* Every capable window of S in a model is in the history of that model.   *)
Recorded(d, S) ==
    \A w \in S : HasActiveCapability(d, w)
                    => d.ws[w] = NoId \/ w \in Range(d.history[d.ws[w]])

(* Every window of S in a history can be activated.                        *)
OnlyCapable(d, S) ==
    \A m \in Ids \cup {AllId} : \A w \in Range(d.history[m]) \cap S :
        HasActiveCapability(d, w)

(* Activation is blocked by the multitask view only, which takes the       *)
(* activation from the window that has it.                                 *)
Idle(d) == Blocked(d) => d.activated = NoWindow /\ "Multitaskview" \in Uses

Settled(d) ==
    Idle(d) /\ (d.activated # NoWindow => HasActiveCapability(d, d.activated))

(* The swipe is the one handler that leaves the old window activated.      *)
Fresh(d) ==
    "swipe" \in Uses \/ d.activated \in {NoWindow, LatestActiveSurface(d)}

Exact(d) ==
    Recorded(d, Windows) /\ OnlyCapable(d, Windows) /\ Settled(d) /\ Fresh(d)

(* What the methods keep in any case                                       *)
Steady(d) == OkDesk(d) /\ Placed(d) /\ Fit(d)

LEMMA HomeOk ==
    ASSUME NEW d, Steady(d), NEW w \in Windows
    PROVE  /\ d.ws[w] \in Ids \cup {NoId} /\ NoId \notin Ids \cup {AllId}
           /\ AllId \notin Ids \cup {NoId} /\ Current(d) \in Ids
BY CurrentOk DEF Steady, Placed, Ids, AllId, NoId

(* A desk with the same windows and histories                              *)
LEMMA ExactTwin ==
    ASSUME NEW d, NEW e, e.history = d.history, e.ws = d.ws, e.caps = d.caps, NEW S
    PROVE  /\ Recorded(d, S) => Recorded(e, S)
           /\ OnlyCapable(d, S) => OnlyCapable(e, S)
BY DEF Recorded, OnlyCapable, HasActiveCapability

LEMMA PushExact ==
    ASSUME NEW d, Steady(d), NEW w \in Windows, HasActiveCapability(d, w),
           NEW S \in SUBSET Windows, Recorded(d, S), OnlyCapable(d, Windows)
    PROVE  LET e == PushActivedSurface(d, w)
           IN  Recorded(e, S \cup {w}) /\ OnlyCapable(e, Windows)
<1> DEFINE e == PushActivedSurface(d, w)
<1>1. e.ws = d.ws /\ e.caps = d.caps
  BY PushActivedOk, PushKept DEF Steady, Same, Kept
<1>2. \A m \in Ids \cup {AllId} : Range(e.history[m]) =
          IF m = d.ws[w] THEN Range(d.history[m]) \cup {w} ELSE Range(d.history[m])
  BY PushRanges DEF Steady
<1> HIDE DEF e
<1>3. \A v \in Windows : HasActiveCapability(e, v) <=> HasActiveCapability(d, v)
  BY <1>1 DEF HasActiveCapability
<1>4. ASSUME NEW v \in S \cup {w}, HasActiveCapability(e, v)
      PROVE  e.ws[v] = NoId \/ v \in Range(e.history[e.ws[v]])
  <2>1. v \in Windows /\ HasActiveCapability(d, v)
    BY <1>3, <1>4
  <2>2. d.ws[v] \in Ids \cup {NoId}
    BY <2>1, HomeOk
  <2>3. CASE d.ws[v] \in Ids /\ v = w
    BY <1>1, <1>2, <2>3
  <2>4. CASE d.ws[v] \in Ids /\ v # w
    <3>1. d.ws[v] = NoId \/ v \in Range(d.history[d.ws[v]])
      BY <1>4, <2>1, <2>4 DEF Recorded
    <3> QED BY <1>1, <1>2, <2>4, <3>1
  <2> QED BY <1>1, <2>2, <2>3, <2>4
<1>5. ASSUME NEW m \in Ids \cup {AllId}, NEW v \in Range(e.history[m]) \cap Windows
      PROVE  HasActiveCapability(e, v)
  <2>1. v = w \/ v \in Range(d.history[m])
    BY <1>2, <1>5
  <2>2. HasActiveCapability(d, v)
    BY <1>5, <2>1 DEF OnlyCapable
  <2> QED BY <1>3, <1>5, <2>2
<1> QED BY <1>4, <1>5 DEF Recorded, OnlyCapable, e

(* setActivatedSurface records a new window as a push does.                *)
LEMMA SetActivatedHistory ==
    ASSUME NEW d, OkDesk(d), NEW w \in Windows \cup {NoWindow}
    PROVE  SetActivatedSurface(d, w).history =
             IF w \in {d.activated, NoWindow} THEN d.history
             ELSE PushActivedSurface(d, w).history
<1> DEFINE off == IF d.activated = NoWindow THEN d
                  ELSE SetActivate(d, d.activated, FALSE)
           on == IF w = NoWindow THEN off
                 ELSE PushActivedSurface(SetActivate(off, w, TRUE), w)
<1>0. /\ TRUE \in BOOLEAN /\ FALSE \in BOOLEAN
      /\ d.activated \in Windows \cup {NoWindow}
  BY DEF OkDesk, Desks
<1>1. CASE d.activated = w
  BY <1>1 DEF SetActivatedSurface
<1>2. CASE d.activated # w
  <2>1. ASSUME NEW b, OkDesk(b), NEW v \in Windows, NEW o \in BOOLEAN
        PROVE  LET s == SetActivate(b, v, o)
               IN  OkDesk(s) /\ Same(b, s) /\ s.history = b.history
    <3>1. SetActivate(b, v, o).history = b.history
      BY <2>1 DEF SetActivate, OkDesk, Desks
    <3> QED BY <2>1, <3>1, SetActivateOk
  <2>2. OkDesk(off) /\ off.ws = d.ws /\ off.models = d.models /\ off.history = d.history
    BY <1>0, <2>1 DEF Same
  <2>3. SetActivatedSurface(d, w) = [on EXCEPT !.activated = w]
    BY <1>2 DEF SetActivatedSurface
  <2> HIDE DEF off
  <2>4. CASE w = NoWindow
    BY <2>2, <2>3, <2>4 DEF OkDesk, Desks
  <2>5. CASE w # NoWindow
    <3> DEFINE a == SetActivate(off, w, TRUE)
    <3>1. /\ OkDesk(a) /\ a.ws = d.ws /\ a.models = d.models
          /\ a.history = d.history
      BY <1>0, <2>1, <2>2, <2>5 DEF Same
    <3> HIDE DEF a
    <3>2. HistoriesOf(a, w) = HistoriesOf(d, w)
      BY <3>1 DEF HistoriesOf, ShowOnAllWorkspace, ModelIds
    <3>3. PushActivedSurface(a, w).history = PushActivedSurface(d, w).history
      BY <3>1, <3>2 DEF PushActivedSurface, OkDesk, Desks
    <3>4. OkDesk(PushActivedSurface(a, w))
      BY <2>5, <3>1, PushActivedOk
    <3>5. [PushActivedSurface(a, w) EXCEPT !.activated = w].history
             = PushActivedSurface(a, w).history
      BY <3>4 DEF OkDesk, Desks
    <3> QED BY <1>2, <2>3, <2>5, <3>3, <3>5 DEF a
  <2> QED BY <2>4, <2>5
<1> QED BY <1>1, <1>2

(* The window pushed last is the one that is fallen back to, if it is of   *)
(* the current workspace; if not, nothing changes there.                   *)
LEMMA PushLatest ==
    ASSUME NEW d, Steady(d), NEW w \in Windows
    PROVE  LatestActiveSurface(PushActivedSurface(d, w)) =
             IF d.ws[w] = Current(d) THEN w ELSE LatestActiveSurface(d)
<1> DEFINE e == PushActivedSurface(d, w)
           m == Current(d)
<1>1. Current(e) = m
  BY PushActivedOk DEF Steady, Same, Current
<1>2. /\ d \in Desks /\ d.history \in [Ids \cup {AllId} -> Seq(Windows)]
      /\ \A n \in DOMAIN d.history : Injective(d.history[n])
  BY DEF Steady, OkDesk, Desks
<1>3. HistoriesOf(d, w) = {d.ws[w]} /\ m \in Ids
  BY HomeOk DEF HistoriesOf, ShowOnAllWorkspace
<1>4. e.history[m] = IF m = d.ws[w] THEN <<w>> \o Without(d.history[m], w)
                                    ELSE d.history[m]
  BY <1>2, <1>3 DEF PushActivedSurface, Desks
<1>5. /\ Head(<<w>> \o Without(d.history[m], w)) = w
      /\ <<w>> \o Without(d.history[m], w) # <<>>
  BY <1>2, <1>3, RangesOk
<1> QED BY <1>1, <1>4, <1>5 DEF LatestActiveSurface

(* activateSurface of a capable window of the current workspace, or of     *)
(* none, leaves exact histories if that window is the only one they may    *)
(* lack (the activated window is not pushed again).                        *)
LEMMA ActivateSurfaceExact ==
    ASSUME NEW d, Steady(d), NEW S \in SUBSET Windows, Recorded(d, S),
           OnlyCapable(d, Windows), Idle(d), NEW w \in Windows \cup {NoWindow},
           w # NoWindow => /\ HasActiveCapability(d, w)
                           /\ d.ws[w] = Current(d)
                           /\ Windows \subseteq S \cup {w}
                           /\ d.activated = w => w \in S /\ Fresh(d),
           w = NoWindow => S = Windows
    PROVE  LET e == ActivateSurface(d, w)
           IN  /\ Exact(e) /\ Steady(e) /\ Stays(d, e) /\ Kept(d, e)
               /\ e.activated = IF Blocked(d) THEN NoWindow ELSE w
<1> DEFINE e == ActivateSurface(d, w)
           p == PushActivedSurface(d, w)
           a == SetActivatedSurface(d, w)
<1>1. Steady(e) /\ Stays(d, e) /\ Kept(d, e)
  BY ActivateSurfaceOk, ActivateSurfaceStays, ActivateSurfaceKept
     DEF Steady, Stays, Kept
<1>2. e.ws = d.ws /\ e.caps = d.caps /\ e.mode = d.mode
  BY <1>1 DEF Stays, Same, Kept
<1>3. w \in Windows => /\ Recorded(p, Windows) /\ OnlyCapable(p, Windows)
                       /\ LatestActiveSurface(p) = w /\ p.activated = d.activated
                       /\ p.ws = d.ws /\ p.caps = d.caps /\ p.mode = d.mode
                       /\ p.models = d.models /\ p.currentIndex = d.currentIndex
  <2> SUFFICES ASSUME w \in Windows
               PROVE  /\ Recorded(p, Windows) /\ OnlyCapable(p, Windows)
                      /\ LatestActiveSurface(p) = w /\ p.activated = d.activated
                      /\ p.ws = d.ws /\ p.caps = d.caps /\ p.mode = d.mode
                      /\ p.models = d.models /\ p.currentIndex = d.currentIndex
    OBVIOUS
  <2>0. w # NoWindow
    BY WindowsAssumption
  <2>1. Recorded(p, S \cup {w}) /\ OnlyCapable(p, Windows)
    BY <2>0, PushExact
  <2>2. Recorded(p, Windows)
    BY <2>0, <2>1 DEF Recorded
  <2>3. LatestActiveSurface(p) = w
    BY <2>0, PushLatest
  <2>4. Same(d, p) /\ Kept(d, p) /\ p.activated = d.activated
    BY PushActivedOk, PushKept, PushStays DEF Steady
  <2> QED BY <2>1, <2>2, <2>3, <2>4 DEF Same, Kept
<1>4. /\ a.ws = d.ws /\ a.models = d.models /\ a.currentIndex = d.currentIndex
      /\ a.activated = w
  BY SetActivatedSurfaceStays DEF Steady, Same
<1>5. a.history = IF w \in {d.activated, NoWindow} THEN d.history ELSE p.history
  BY SetActivatedHistory DEF Steady
<1>6. CASE w = NoWindow
  <2>1. e = a
    BY <1>6 DEF ActivateSurface
  <2> HIDE DEF e, a
  <2>2. Recorded(e, Windows) /\ OnlyCapable(e, Windows)
    BY <1>2, <1>5, <1>6, <2>1, ExactTwin
  <2>3. Settled(e) /\ Fresh(e)
    BY <1>2, <1>4, <1>6, <2>1 DEF Settled, Idle, Blocked, Fresh
  <2> QED BY <1>1, <1>4, <1>6, <2>1, <2>2, <2>3 DEF Exact, e
<1>7. CASE w \in Windows /\ Blocked(d)
  <2>1. e = p
    BY <1>7, WindowsAssumption DEF ActivateSurface
  <2> HIDE DEF e, p
  <2>2. e.activated = NoWindow
    BY <1>3, <1>7, <2>1 DEF Idle
  <2> QED BY <1>1, <1>3, <1>7, <2>1, <2>2 DEF Exact, Settled, Idle, Fresh, e
<1>8. CASE w \in Windows /\ ~Blocked(d)
  <2>1. e = a /\ w # NoWindow /\ HasActiveCapability(d, w)
    BY <1>8, WindowsAssumption DEF ActivateSurface
  <2> HIDE DEF e, a, p
  <2>2. CASE d.activated = w
    <3>1. e.history = d.history /\ e.models = d.models /\ e.currentIndex = d.currentIndex
      BY <1>4, <1>5, <2>1, <2>2
    <3>2. S = Windows /\ Fresh(d)
      BY <1>8, <2>1, <2>2
    <3>3. Recorded(e, Windows) /\ OnlyCapable(e, Windows)
      BY <1>2, <3>1, <3>2, ExactTwin
    <3>4. LatestActiveSurface(e) = LatestActiveSurface(d)
      BY <3>1 DEF LatestActiveSurface, Current
    <3>5. Settled(e) /\ Fresh(e) /\ e.activated = w
      BY <1>2, <1>4, <1>8, <2>1, <2>2, <3>2, <3>4
         DEF Settled, Idle, Fresh, Blocked, HasActiveCapability
    <3> QED BY <1>1, <1>8, <3>3, <3>5 DEF Exact, e
  <2>3. CASE d.activated # w
    <3>1. e.history = p.history /\ e.models = p.models /\ e.currentIndex = p.currentIndex
      BY <1>3, <1>4, <1>5, <1>8, <2>1, <2>3
    <3>2. Recorded(e, Windows) /\ OnlyCapable(e, Windows)
      BY <1>2, <1>3, <1>8, <3>1, ExactTwin
    <3>3. LatestActiveSurface(e) = w
      BY <1>3, <1>8, <3>1 DEF LatestActiveSurface, Current
    <3>4. Settled(e) /\ Fresh(e) /\ e.activated = w
      BY <1>2, <1>4, <1>8, <2>1, <3>3
         DEF Settled, Idle, Fresh, Blocked, HasActiveCapability
    <3> QED BY <1>1, <1>8, <3>2, <3>4 DEF Exact, e
  <2> QED BY <2>2, <2>3
<1> QED BY <1>6, <1>7, <1>8

(* What a method that starts from exact histories leaves                   *)
Accurate(d, e) == Exact(e) /\ Steady(e) /\ Stays(d, e) /\ Kept(d, e)

LEMMA ActivateLatestExact ==
    ASSUME NEW d, Steady(d), Recorded(d, Windows), OnlyCapable(d, Windows), Idle(d)
    PROVE  /\ Accurate(d, ActivateLatest(d))
           /\ ActivateLatest(d).activated =
                IF Blocked(d) THEN NoWindow ELSE LatestActiveSurface(d)
<1> DEFINE w == LatestActiveSurface(d)
           e == ActivateSurface(d, w)
<1>1. /\ w \in Windows \cup {NoWindow}
      /\ w # NoWindow => d.ws[w] = Current(d) /\ w \in Range(d.history[Current(d)])
  BY LatestAtHome DEF Steady
<1>2. w # NoWindow => HasActiveCapability(d, w)
  <2>1. Current(d) \in Ids
    BY CurrentOk DEF Steady
  <2> QED BY <1>1, <2>1 DEF OnlyCapable
<1>3. d.activated = w => Fresh(d)
  BY DEF Fresh
<1> HIDE DEF w
<1>4. w # NoWindow => w \in Windows
  BY <1>1
<1>5. /\ Exact(e) /\ Steady(e) /\ Stays(d, e) /\ Kept(d, e)
      /\ e.activated = IF Blocked(d) THEN NoWindow ELSE w
  BY <1>1, <1>2, <1>3, <1>4, ActivateSurfaceExact
<1> QED BY <1>5 DEF Accurate, ActivateLatest, w

LEMMA RequestActiveExact ==
    ASSUME NEW d, Steady(d), NEW w \in Windows, HasActiveCapability(d, w),
           Recorded(d, Windows \ {w}), OnlyCapable(d, Windows), Settled(d),
           Fresh(d), d.activated # w
    PROVE  Accurate(d, RequestActive(d, w))
<1> DEFINE S == Windows \ {w}
           p == PushActivedSurface(d, w)
<1>1. S \in SUBSET Windows /\ Windows \subseteq S \cup {w} /\ w # NoWindow
  BY WindowsAssumption
<1>2. ShowOnWorkspace(d, w, Current(d)) <=> d.ws[w] = Current(d)
  BY HomeOk DEF ShowOnWorkspace
<1>3. CASE d.ws[w] = Current(d)
  <2>1. Accurate(d, ActivateSurface(d, w))
    BY <1>1, <1>3, ActivateSurfaceExact DEF Accurate, Settled
  <2> QED BY <1>2, <1>3, <2>1 DEF RequestActive
<1>4. CASE d.ws[w] # Current(d)
  <2>1. Recorded(p, S \cup {w}) /\ OnlyCapable(p, Windows)
    BY <1>1, PushExact
  <2>2. Recorded(p, Windows)
    BY <1>1, <2>1 DEF Recorded
  <2>3. LatestActiveSurface(p) = LatestActiveSurface(d)
    BY <1>4, PushLatest
  <2>4. OkDesk(p) /\ Stays(d, p) /\ Kept(d, p) /\ p.activated = d.activated
    BY PushActivedOk, PushKept, PushStays DEF Steady
  <2>5. p.caps = d.caps /\ p.mode = d.mode /\ Steady(p)
    BY <2>4 DEF Kept, Stays, Steady
  <2>6. RequestActive(d, w) = p
    BY <1>2, <1>4 DEF RequestActive
  <2> HIDE DEF p
  <2>7. Settled(p) /\ Fresh(p)
    BY <2>3, <2>4, <2>5 DEF Settled, Idle, Fresh, Blocked, HasActiveCapability
  <2> QED BY <2>1, <2>2, <2>4, <2>5, <2>6, <2>7 DEF Accurate, Exact
<1> QED BY <1>3, <1>4

LEMMA RequestInactiveExact ==
    ASSUME NEW d, Steady(d), NEW w \in Windows, ~HasActiveCapability(d, w),
           Recorded(d, Windows \ {w}), OnlyCapable(d, Windows \ {w}), Idle(d)
    PROVE  Accurate(d, RequestInactive(d, w))
<1> DEFINE r == RemoveActivedSurface(d, w)
<1>1. OkDesk(r) /\ Stays(d, r) /\ Kept(d, r)
  BY RemoveActivedOk, PushKept, PushStays DEF Steady
<1>2. \A m \in Ids \cup {AllId} : Range(r.history[m]) =
          IF m = d.ws[w] THEN Range(d.history[m]) \ {w} ELSE Range(d.history[m])
  BY PushRanges DEF Steady
<1>3. r.activated = d.activated
  BY DEF RemoveActivedSurface, Steady, OkDesk, Desks
<1>4. RequestInactive(d, w) = ActivateLatest(r)
  BY DEF RequestInactive
<1> HIDE DEF r
<1>5. /\ Steady(r) /\ r.ws = d.ws /\ r.caps = d.caps /\ Idle(r)
      /\ \A v \in Windows : HasActiveCapability(r, v) <=> HasActiveCapability(d, v)
  BY <1>1, <1>3 DEF Steady, Stays, Same, Kept, Idle, Blocked, HasActiveCapability
<1>6. Recorded(r, Windows)
  <2> SUFFICES ASSUME NEW v \in Windows, HasActiveCapability(r, v)
               PROVE  r.ws[v] = NoId \/ v \in Range(r.history[r.ws[v]])
    BY DEF Recorded
  <2>1. v # w /\ HasActiveCapability(d, v)
    BY <1>5
  <2>2. d.ws[v] = NoId \/ v \in Range(d.history[d.ws[v]])
    BY <2>1 DEF Recorded
  <2>3. d.ws[v] \in Ids \cup {NoId}
    BY HomeOk
  <2> QED BY <1>2, <1>5, <2>1, <2>2, <2>3
<1>7. OnlyCapable(r, Windows)
  <2> SUFFICES ASSUME NEW m \in Ids \cup {AllId}, NEW v \in Range(r.history[m]) \cap Windows
               PROVE  HasActiveCapability(r, v)
    BY DEF OnlyCapable
  <2>1. v \in Range(d.history[m]) /\ (m = d.ws[w] => v # w)
    BY <1>2
  <2>2. d.ws[v] = m
    BY <2>1 DEF Steady, Placed
  <2>3. v # w
    BY <2>1, <2>2
  <2> QED BY <1>5, <2>1, <2>3 DEF OnlyCapable
<1>8. Accurate(r, ActivateLatest(r))
  BY <1>5, <1>6, <1>7, ActivateLatestExact
<1> QED BY <1>1, <1>4, <1>8, StaysTwice, KeptTwice DEF Accurate

(* updateHasActiveCapability: d is the desk before the flag changed, b the *)
(* desk after it, e the one after the signal.                              *)
LEMMA CapabilityChanged ==
    ASSUME NEW d, NEW b, Steady(b), NEW w \in Windows,
           b.history = d.history, b.ws = d.ws, b.models = d.models,
           b.currentIndex = d.currentIndex, b.activated = d.activated,
           b.mode = d.mode, \A v \in Windows \ {w} : b.caps[v] = d.caps[v],
           Exact(d), NEW e,
           e = IF HasActiveCapability(d, w) = HasActiveCapability(b, w) THEN b
               ELSE IF HasActiveCapability(b, w) THEN RequestActive(b, w)
               ELSE RequestInactive(b, w)
    PROVE  Accurate(b, e)
<1>1. /\ \A v \in Windows \ {w} : HasActiveCapability(b, v) <=> HasActiveCapability(d, v)
      /\ Idle(b) /\ Fresh(b)
  BY DEF HasActiveCapability, Exact, Settled, Idle, Blocked, Fresh,
         LatestActiveSurface, Current
<1>2. Recorded(b, Windows \ {w}) /\ OnlyCapable(b, Windows \ {w})
  BY <1>1 DEF Exact, Recorded, OnlyCapable
<1>3. b.activated \in Windows \cup {NoWindow} /\ Stays(b, b) /\ Kept(b, b)
  BY StaysSame, KeptSame DEF Steady, OkDesk, Desks
<1>4. CASE HasActiveCapability(d, w) <=> HasActiveCapability(b, w)
  <2>1. e = b
    BY <1>4 DEF HasActiveCapability
  <2>2. Settled(b)
    BY <1>1, <1>3, <1>4 DEF Exact, Settled
  <2>3. Recorded(b, Windows) /\ OnlyCapable(b, Windows)
    BY <1>1, <1>4 DEF Exact, Recorded, OnlyCapable
  <2> QED BY <1>1, <1>3, <2>1, <2>2, <2>3 DEF Accurate, Exact
<1>5. CASE HasActiveCapability(b, w) /\ ~HasActiveCapability(d, w)
  <2>1. e = RequestActive(b, w)
    BY <1>5
  <2>2. b.activated # w
    BY <1>5, WindowsAssumption DEF Exact, Settled
  <2>3. Settled(b)
    BY <1>1, <1>3, <2>2 DEF Exact, Settled
  <2>4. OnlyCapable(b, Windows)
    BY <1>2, <1>5 DEF OnlyCapable
  <2>5. Accurate(b, RequestActive(b, w))
    BY <1>1, <1>2, <1>5, <2>2, <2>3, <2>4, RequestActiveExact
  <2> QED BY <2>1, <2>5
<1>6. CASE ~HasActiveCapability(b, w) /\ HasActiveCapability(d, w)
  <2>1. e = RequestInactive(b, w)
    BY <1>6
  <2>2. Accurate(b, RequestInactive(b, w))
    BY <1>1, <1>2, <1>6, RequestInactiveExact
  <2> QED BY <2>1, <2>2
<1> QED BY <1>4, <1>5, <1>6

LEMMA UpdateCapabilityExact ==
    ASSUME NEW d, Steady(d), Exact(d), NEW w \in Windows, NEW flag \in Full,
           NEW value \in BOOLEAN,
           flag # "HasInitializeContainer",
           flag = "MappedOrSplash" => d.life[w] = "open"
    PROVE  LET e == UpdateHasActiveCapability(d, w, flag, value)
           IN  Exact(e) /\ Steady(e) /\ Stays(d, e)
<1> DEFINE C == [d.caps EXCEPT ![w] = IF value THEN @ \cup {flag} ELSE @ \ {flag}]
           b == [d EXCEPT !.caps[w] = IF value THEN @ \cup {flag} ELSE @ \ {flag}]
           e == UpdateHasActiveCapability(d, w, flag, value)
<1>1. d \in Desks /\ d.caps \in [Windows -> SUBSET Full]
  BY DEF Steady, OkDesk, Desks
<1>2. /\ C \in [Windows -> SUBSET Full]
      /\ \A v \in Windows :
            /\ "HasInitializeContainer" \in C[v] <=> d.life[v] = "open"
            /\ d.life[v] = "new" => "MappedOrSplash" \notin C[v]
      /\ \A v \in Windows \ {w} : C[v] = d.caps[v]
  BY <1>1 DEF Fit, Steady
<1>3. b = [d EXCEPT !.caps = C]
  BY <1>1 DEF Desks
<1>4. e = IF HasActiveCapability(d, w) = HasActiveCapability(b, w) THEN b
          ELSE IF HasActiveCapability(b, w) THEN RequestActive(b, w)
          ELSE RequestInactive(b, w)
  BY DEF UpdateHasActiveCapability
<1>5. Stays(d, e) /\ OkDesk(e)
  BY UpdateCapabilityStays, UpdateCapabilityOk DEF Steady
<1> HIDE DEF b, C, e
<1>6. /\ b \in Desks /\ b.models = d.models /\ b.currentIndex = d.currentIndex
      /\ b.nextId = d.nextId /\ b.history = d.history /\ b.caps = C
      /\ b.mode = d.mode /\ b.life = d.life /\ b.ws = d.ws
      /\ b.activated = d.activated /\ b.flagged = d.flagged
  BY <1>1, <1>2, <1>3 DEF Desks
<1>7. Steady(b)
  <2>1. OkDesk(b)
    BY <1>6 DEF Steady, OkDesk
  <2>2. Fit(b)
    BY <1>2, <1>6 DEF Steady, Fit
  <2>3. ModelIds(b) = ModelIds(d)
    BY <1>6 DEF ModelIds
  <2>4. Placed(b)
    BY <1>6, <2>3, PlacedTwin DEF Steady
  <2> QED BY <2>1, <2>2, <2>4 DEF Steady
<1>8. Accurate(b, e)
  BY <1>2, <1>4, <1>6, <1>7, CapabilityChanged
<1> QED BY <1>5, <1>8 DEF Accurate, e

LEMMA CancelMinimizeExact ==
    ASSUME NEW d, Steady(d), Exact(d), NEW w \in Windows
    PROVE  LET e == RequestCancelMinimize(d, w)
           IN  /\ Exact(e) /\ Steady(e) /\ Stays(d, e)
               /\ "UnMinimized" \in e.caps[w]
               /\ "HasInitializeContainer" \in d.caps[w]
                     => "HasInitializeContainer" \in e.caps[w]
<1> DEFINE u == UpdateHasActiveCapability(d, w, "UnMinimized", TRUE)
<1>1. "UnMinimized" \in Full /\ TRUE \in BOOLEAN
  BY DEF Full
<1>2. Exact(u) /\ Steady(u) /\ Stays(d, u)
  BY <1>1, UpdateCapabilityExact
<1>3. u.caps = [d.caps EXCEPT ![w] = @ \cup {"UnMinimized"}]
  <2>1. PICK on \in BOOLEAN : on = TRUE
    OBVIOUS
  <2> DEFINE x == UpdateHasActiveCapability(d, w, "UnMinimized", on)
             C == [d.caps EXCEPT ![w] = IF on THEN @ \cup {"UnMinimized"}
                                             ELSE @ \ {"UnMinimized"}]
  <2>2. x.caps = C
    BY <1>1, UpdateCapabilityFits DEF Steady
  <2>3. C = [d.caps EXCEPT ![w] = @ \cup {"UnMinimized"}]
    BY <2>1
  <2> HIDE DEF C
  <2>4. x = u
    BY <2>1
  <2> QED BY <2>2, <2>3, <2>4
<1>4. d.caps \in [Windows -> SUBSET Full]
  BY DEF Steady, OkDesk, Desks
<1>5. CASE "UnMinimized" \in d.caps[w]
  BY <1>5, StaysSame DEF RequestCancelMinimize, Steady
<1>6. CASE "UnMinimized" \notin d.caps[w]
  <2>1. RequestCancelMinimize(d, w) = u
    BY <1>6 DEF RequestCancelMinimize
  <2> HIDE DEF u
  <2> QED BY <1>2, <1>3, <1>4, <2>1
<1> QED BY <1>5, <1>6

(* Changing the index changes no history; it alone may leave the latest    *)
(* window of the new workspace inactive.                                   *)
LEMMA SetCurrentIndexExact ==
    ASSUME NEW d, Steady(d), Exact(d), NEW i
    PROVE  LET e == SetCurrentIndex(d, i)
           IN  /\ Steady(e) /\ Recorded(e, Windows) /\ OnlyCapable(e, Windows)
               /\ Settled(e)
               /\ "swipe" \in Uses => Exact(e)
               /\ e.caps = d.caps
<1> DEFINE e == SetCurrentIndex(d, i)
<1>1. Steady(e) /\ e.activated = d.activated /\ e.ws = d.ws
  BY SetCurrentIndexOk, SetCurrentIndexPlaced, SetCurrentIndexKept DEF Steady, Kept
<1>2. e.caps = d.caps /\ e.mode = d.mode
  BY SetCurrentIndexKept DEF Steady, Kept
<1>3. e.history = d.history
  BY DEF SetCurrentIndex, ShowOnlyCurrent, Steady, OkDesk, Desks
<1> HIDE DEF e
<1>4. Recorded(e, Windows) /\ OnlyCapable(e, Windows)
  BY <1>1, <1>2, <1>3, ExactTwin DEF Exact
<1>5. Settled(e)
  BY <1>1, <1>2 DEF Exact, Settled, Idle, Blocked, HasActiveCapability
<1> QED BY <1>1, <1>2, <1>4, <1>5 DEF Exact, Fresh, e

LEMMA SwitchToExact ==
    ASSUME NEW d, Steady(d), Exact(d), NEW i
    PROVE  LET e == SwitchTo(d, i) IN Steady(e) /\ Exact(e) /\ e.caps = d.caps
<1>1. CASE i \notin 0 .. Len(d.models) - 1 \/ i = d.currentIndex
  BY <1>1 DEF SwitchTo
<1>2. CASE ~(i \notin 0 .. Len(d.models) - 1 \/ i = d.currentIndex)
  <2> DEFINE b == SetCurrentIndex(d, i)
  <2>1. /\ Steady(b) /\ Recorded(b, Windows) /\ OnlyCapable(b, Windows)
        /\ Settled(b) /\ b.caps = d.caps
    BY SetCurrentIndexExact
  <2>2. SwitchTo(d, i) = ActivateLatest(b)
    BY <1>2 DEF SwitchTo
  <2> HIDE DEF b
  <2>3. Accurate(b, ActivateLatest(b))
    BY <2>1, ActivateLatestExact DEF Settled
  <2> QED BY <2>1, <2>2, <2>3 DEF Accurate, Kept
<1> QED BY <1>1, <1>2

LEMMA ForceActivateExact ==
    ASSUME NEW d, Steady(d), Exact(d), Shown(d, Windows),
           NEW w \in Windows \cup {NoWindow}
    PROVE  LET e == ForceActivateSurface(d, w) IN Steady(e) /\ Exact(e)
<1>1. CASE w = NoWindow \/ d.life[w] # "open"
  BY <1>1 DEF ForceActivateSurface
<1>2. CASE w \in Windows /\ w # NoWindow /\ d.life[w] = "open"
  <2> DEFINE c == RequestCancelMinimize(d, w)
             i == ModelIndexOfSurface(c, w)
             s == IF ShowOnWorkspace(c, w, Current(c)) THEN c ELSE SwitchTo(c, i)
  <2>1. /\ Exact(c) /\ Steady(c) /\ Stays(d, c)
        /\ "UnMinimized" \in c.caps[w] /\ "HasInitializeContainer" \in c.caps[w]
    <3>1. "HasInitializeContainer" \in d.caps[w]
      BY <1>2 DEF Steady, Fit
    <3> QED BY <1>2, <3>1, CancelMinimizeExact
  <2>2. ForceActivateSurface(d, w) =
          IF "MappedOrSplash" \notin c.caps[w] THEN c ELSE ActivateSurface(s, w)
    BY <1>2 DEF ForceActivateSurface
  <2> HIDE DEF c
  <2>3. c.ws[w] \in ModelIds(c)
    <3>1. d.ws[w] \in ModelIds(d)
      BY <1>2, ShownInModel DEF Steady
    <3> QED BY <2>1, <3>1 DEF Stays, Same, ModelIds
  <2>4. s.ws[w] = Current(s)
    BY <1>2, <2>1, <2>3, GoesToWindow DEF Steady
  <2>5. Exact(s) /\ Steady(s) /\ s.caps = c.caps
    <3>1. Steady(SwitchTo(c, i)) /\ Exact(SwitchTo(c, i)) /\ SwitchTo(c, i).caps = c.caps
      BY <2>1, SwitchToExact
    <3> QED BY <2>1, <3>1
  <2> HIDE DEF s
  <2>6. CASE "MappedOrSplash" \in c.caps[w]
    <3>1. HasActiveCapability(s, w)
      <4>1. s.caps[w] \in SUBSET Full
        BY <1>2, <2>5 DEF Steady, OkDesk, Desks
      <4> QED BY <2>1, <2>5, <2>6, <4>1 DEF HasActiveCapability, Full
    <3>2. Exact(ActivateSurface(s, w)) /\ Steady(ActivateSurface(s, w))
      BY <1>2, <2>4, <2>5, <3>1, ActivateSurfaceExact DEF Exact, Settled
    <3> QED BY <2>2, <2>6, <3>2
  <2> QED BY <2>1, <2>2, <2>6
<1> QED BY <1>1, <1>2

(* Taking another window out of a history leaves its first one first.      *)
LEMMA HeadStays ==
    ASSUME NEW h \in Seq(Windows), Injective(h), NEW w \in Windows, h # <<>>,
           Head(h) # w
    PROVE  Without(h, w) # <<>> /\ Head(Without(h, w)) = Head(h)
<1>1. CASE \E i \in 1 .. Len(h) : h[i] = w
  <2> DEFINE k == CHOOSE i \in 1 .. Len(h) : h[i] = w
             r == RemoveAt(h, k)
  <2>1. k \in 1 .. Len(h) /\ h[k] = w
    BY <1>1
  <2>2. Without(h, w) = r
    BY <1>1 DEF Without
  <2> HIDE DEF k
  <2>3. /\ r \in Seq(Windows) /\ Len(r) = Len(h) - 1
        /\ \A j \in 1 .. Len(h) - 1 : r[j] = h[IF j < k THEN j ELSE j + 1]
    BY <2>1, RemoveAtOk
  <2> HIDE DEF r
  <2>4. Head(h) = h[1] /\ Len(h) \in Nat
    BY HeadTailProperties, LenProperties
  <2>5. k # 1
    BY <2>1, <2>4
  <2>6. 1 \in 1 .. Len(h) - 1 /\ 1 < k
    BY <2>1, <2>4, <2>5
  <2>7. r[1] = h[1] /\ Len(r) > 0
    BY <2>3, <2>4, <2>6
  <2>8. r # <<>> /\ Head(r) = r[1]
    BY <2>3, <2>7, EmptySeq, HeadTailProperties
  <2> QED BY <2>2, <2>4, <2>7, <2>8
<1>2. CASE ~\E i \in 1 .. Len(h) : h[i] = w
  BY <1>2 DEF Without
<1> QED BY <1>1, <1>2

(* A window leaves its model: it is forgotten, and the one to fall back to *)
(* is another one only if it was this one.                                 *)
LEMMA ModelRemoveExact ==
    ASSUME NEW d, Steady(d), NEW w \in Windows,
           Recorded(d, Windows), OnlyCapable(d, Windows)
    PROVE  LET e == ModelRemoveSurface(d, d.ws[w], w)
           IN  /\ Steady(e) /\ Recorded(e, Windows) /\ OnlyCapable(e, Windows)
               /\ e.ws = [d.ws EXCEPT ![w] = NoId] /\ e.caps = d.caps
               /\ e.mode = d.mode /\ e.activated = d.activated
               /\ e.flagged = d.flagged /\ e.life = d.life
               /\ ModelIds(e) = ModelIds(d)
               /\ LatestActiveSurface(d) \notin {w, NoWindow}
                     => LatestActiveSurface(e) = LatestActiveSurface(d)
<1> DEFINE m == d.ws[w]
           e == ModelRemoveSurface(d, m, w)
<1>1. /\ Placed(e) /\ e.ws = [d.ws EXCEPT ![w] = NoId]
      /\ ModelIds(e) = ModelIds(d) /\ Current(e) = Current(d)
      /\ e.life = d.life /\ e.activated = d.activated
  BY ModelRemovePlaced DEF Steady
<1>2. OkDesk(e) /\ Kept(d, e)
  BY ModelRemoveOk, ModelKept DEF Steady
<1>3. /\ e.history = [d.history EXCEPT ![m] = Without(@, w)]
      /\ e.flagged = d.flagged
  BY DEF ModelRemoveSurface, Steady, OkDesk, Desks
<1>4. /\ d.ws \in [Windows -> Ids \cup {AllId, NoId}]
      /\ d.history \in [Ids \cup {AllId} -> Seq(Windows)]
      /\ \A n \in DOMAIN d.history : Injective(d.history[n])
  BY DEF Steady, OkDesk, Desks
<1> HIDE DEF e
<1>5. e.caps = d.caps /\ e.mode = d.mode /\ Steady(e)
  BY <1>1, <1>2 DEF Kept, Steady
<1>6. \A n \in Ids \cup {AllId} : Range(e.history[n]) =
          IF n = m THEN Range(d.history[n]) \ {w} ELSE Range(d.history[n])
  <2> SUFFICES ASSUME NEW n \in Ids \cup {AllId}
               PROVE  Range(e.history[n]) =
                        IF n = m THEN Range(d.history[n]) \ {w} ELSE Range(d.history[n])
    OBVIOUS
  <2>1. e.history[n] = IF n = m THEN Without(d.history[n], w) ELSE d.history[n]
    BY <1>3, <1>4
  <2>2. Range(Without(d.history[n], w)) = Range(d.history[n]) \ {w}
    BY <1>4, RangesOk
  <2> QED BY <2>1, <2>2
<1>7. Recorded(e, Windows)
  <2> SUFFICES ASSUME NEW v \in Windows, HasActiveCapability(e, v)
               PROVE  e.ws[v] = NoId \/ v \in Range(e.history[e.ws[v]])
    BY DEF Recorded
  <2>1. CASE v = w
    BY <1>1, <1>4, <2>1
  <2>2. CASE v # w
    <3>1. d.ws[v] = NoId \/ v \in Range(d.history[d.ws[v]])
      BY <1>5 DEF Recorded, HasActiveCapability
    <3>2. d.ws[v] \in Ids \cup {NoId} /\ e.ws[v] = d.ws[v]
      BY <1>1, <1>4, <2>2, HomeOk
    <3> QED BY <1>6, <2>2, <3>1, <3>2
  <2> QED BY <2>1, <2>2
<1>8. OnlyCapable(e, Windows)
  BY <1>5, <1>6 DEF OnlyCapable, HasActiveCapability
<1>9. ASSUME LatestActiveSurface(d) \notin {w, NoWindow}
      PROVE  LatestActiveSurface(e) = LatestActiveSurface(d)
  <2> DEFINE h == d.history[Current(d)]
  <2>1. Current(d) \in Ids /\ h \in Seq(Windows) /\ Injective(h)
    BY <1>4, HomeOk
  <2>2. e.history[Current(d)] = IF Current(d) = m THEN Without(h, w) ELSE h
    BY <1>3, <1>4, <2>1
  <2>3. h # <<>> /\ Head(h) # w
    BY <1>9 DEF LatestActiveSurface
  <2>4. Without(h, w) # <<>> /\ Head(Without(h, w)) = Head(h)
    BY <2>1, <2>3, HeadStays
  <2> QED BY <1>1, <2>2, <2>3, <2>4 DEF LatestActiveSurface
<1> QED BY <1>1, <1>3, <1>5, <1>7, <1>8, <1>9 DEF e

LEMMA MoveSurfaceExact ==
    ASSUME NEW d, Steady(d), Exact(d), NEW w \in Windows, d.life[w] = "open",
           NEW m \in ModelIds(d)
    PROVE  LET e == MoveSurface(d, w, m) IN Steady(e) /\ Exact(e)
<1> DEFINE r == ModelRemoveSurface(d, d.ws[w], w)
           f == IF w \in d.flagged THEN ActivateLatest(r) ELSE r
           t == ModelAddSurface(f, m, w)
<1>0. MoveSurface(d, w, m) = IF d.ws[w] = m THEN d
                             ELSE IF HasActiveCapability(t, w) THEN RequestActive(t, w)
                             ELSE t
  BY DEF MoveSurface
<1>1. /\ Steady(r) /\ Recorded(r, Windows) /\ OnlyCapable(r, Windows)
      /\ r.ws = [d.ws EXCEPT ![w] = NoId] /\ r.caps = d.caps
      /\ r.mode = d.mode /\ r.activated = d.activated
      /\ r.flagged = d.flagged /\ r.life = d.life
      /\ ModelIds(r) = ModelIds(d)
      /\ LatestActiveSurface(d) \notin {w, NoWindow}
            => LatestActiveSurface(r) = LatestActiveSurface(d)
  BY ModelRemoveExact DEF Exact
<1> HIDE DEF r
<1>2. d.ws \in [Windows -> Ids \cup {AllId, NoId}] /\ w # NoWindow
  BY WindowsAssumption DEF Steady, OkDesk, Desks
<1>3. r.ws[w] = NoId /\ Settled(r) /\ Idle(r)
  BY <1>1, <1>2 DEF Exact, Settled, Idle, Blocked, HasActiveCapability
<1>4. /\ Exact(f) /\ Steady(f) /\ Stays(r, f) /\ Kept(r, f) /\ f.activated # w
  <2>1. CASE w \in d.flagged
    <3>1. f = ActivateLatest(r)
      BY <2>1
    <3>2. LatestActiveSurface(r) # w
      BY <1>1, <1>2, <1>3, LatestAtHome, HomeOk DEF Steady
    <3> HIDE DEF f
    <3>3. Accurate(r, f) /\ f.activated \in {NoWindow, LatestActiveSurface(r)}
      BY <1>1, <1>3, <3>1, ActivateLatestExact
    <3> QED BY <1>2, <3>2, <3>3 DEF Accurate
  <2>2. CASE w \notin d.flagged
    <3>1. f = r
      BY <2>2
    <3> HIDE DEF f
    <3>2. d.activated # w
      BY <1>2, <2>2 DEF Steady, Fit
    <3>3. Fresh(r)
      BY <1>1, <3>2 DEF Exact, Fresh
    <3>4. Stays(r, r) /\ Kept(r, r)
      BY <1>1, StaysSame, KeptSame DEF Steady
    <3> QED BY <1>1, <1>3, <3>1, <3>2, <3>3, <3>4 DEF Exact
  <2> QED BY <2>1, <2>2
<1> HIDE DEF f
<1>5. /\ f.ws[w] = NoId /\ ModelIds(f) = ModelIds(d) /\ f.life = d.life
      /\ f.ws \in [Windows -> Ids \cup {AllId, NoId}]
  BY <1>1, <1>3, <1>4 DEF Stays, Same, ModelIds, Steady, OkDesk, Desks
<1>6. m \in Ids /\ NoId \notin Ids
  BY CurrentOk DEF Steady, NoId, Ids
<1>7. /\ t.ws = [f.ws EXCEPT ![w] = m] /\ t.history = f.history
      /\ t.models = f.models /\ t.currentIndex = f.currentIndex
      /\ t.life = f.life /\ t.activated = f.activated
      /\ t.caps = f.caps /\ t.mode = f.mode
  BY <1>4 DEF ModelAddSurface, Steady, OkDesk, Desks
<1>8. OkDesk(t) /\ Kept(f, t)
  BY <1>4, <1>6, ModelAddOk, ModelKept DEF Steady
<1> HIDE DEF t
<1>9. ModelIds(t) = ModelIds(f) /\ LatestActiveSurface(t) = LatestActiveSurface(f)
  BY <1>7 DEF ModelIds, LatestActiveSurface, Current
<1>10. Placed(t)
  BY <1>4, <1>5, <1>7, <1>9, PlacedJoin DEF Steady
<1>11. Steady(t)
  BY <1>8, <1>10 DEF Steady, Kept
<1>12. /\ OnlyCapable(t, Windows) /\ Settled(t) /\ Fresh(t)
  BY <1>4, <1>7, <1>9 DEF Exact, OnlyCapable, Settled, Idle, Blocked, Fresh,
                          HasActiveCapability
<1>13. Recorded(t, Windows \ {w})
  BY <1>4, <1>5, <1>7 DEF Exact, Recorded, HasActiveCapability
<1>14. CASE HasActiveCapability(t, w)
  <2>1. Accurate(t, RequestActive(t, w))
    BY <1>4, <1>7, <1>11, <1>12, <1>13, <1>14, RequestActiveExact
  <2> QED BY <1>0, <1>14, <2>1 DEF Accurate
<1>15. CASE ~HasActiveCapability(t, w)
  <2>1. Recorded(t, Windows)
    BY <1>13, <1>15 DEF Recorded
  <2> QED BY <1>0, <1>11, <1>12, <1>15, <2>1 DEF Exact
<1> QED BY <1>14, <1>15

LEMMA DoRemoveModelExact ==
    ASSUME NEW d, Steady(d), Exact(d), Shown(d, Windows), Len(d.models) > 1,
           NEW i \in 0 .. Len(d.models) - 1, NEW capable,
           capable = {v \in Windows : /\ d.ws[v] = d.models[i + 1]
                                      /\ HasActiveCapability(d, v)},
           NEW h \in PushedOver(WithoutModel(d, i).history[Current(WithoutModel(d, i))],
                                capable)
    PROVE  LET e == DoRemoveModel(d, i, h) IN Steady(e) /\ Exact(e)
<1> DEFINE gone == d.models[i + 1]
           cur == Current(WithoutModel(d, i))
           g == Resettled(d, i, h)
           a == ActivateLatest(g)
           s == ShowOnlyCurrent(a)
<1>1. h \in Orders /\ \A v \in capable : v \in Windows /\ d.ws[v] = gone
  BY DEF PushedOver
<1>2. /\ OkDesk(g) /\ DoRemoveModel(d, i, h) = s
      /\ g.ws = [w \in Windows |-> IF d.ws[w] = gone THEN cur ELSE d.ws[w]]
      /\ g.life = d.life /\ g.caps = d.caps /\ g.mode = d.mode
      /\ g.activated = d.activated /\ g.flagged = d.flagged
  BY <1>1, ResettledOk DEF Steady
<1>3. /\ Placed(g) /\ cur \in Ids /\ cur # gone
      /\ \A n \in Ids \cup {AllId} : Range(g.history[n]) =
            IF n = cur THEN Range(d.history[cur]) \cup capable
            ELSE IF n = gone THEN {} ELSE Range(d.history[n])
  <2>1. OkDesk(d) /\ Placed(d) /\ \A v \in capable : v \in Windows /\ d.ws[v] = d.models[i + 1]
    BY DEF Steady
  <2>2. Gathered(d, i, capable, Resettled(d, i, h))
    BY <2>1, ResettledPlaced
  <2> QED BY <2>2 DEF Gathered
<1> HIDE DEF g, cur, gone
<1>4. \A v \in Windows : HasActiveCapability(g, v) <=> HasActiveCapability(d, v)
  BY <1>2 DEF HasActiveCapability
<1>5. Steady(g) /\ Idle(g)
  BY <1>2, <1>3 DEF Steady, Fit, Exact, Settled, Idle, Blocked
<1>6. Recorded(g, Windows)
  <2> SUFFICES ASSUME NEW v \in Windows, HasActiveCapability(g, v)
               PROVE  g.ws[v] = NoId \/ v \in Range(g.history[g.ws[v]])
    BY DEF Recorded
  <2>1. d.ws[v] = NoId \/ v \in Range(d.history[d.ws[v]])
    BY <1>4 DEF Exact, Recorded
  <2>2. d.ws[v] \in Ids \cup {NoId}
    BY HomeOk
  <2>3. CASE d.ws[v] = gone
    <3>1. v \in capable
      BY <1>4, <2>3 DEF gone
    <3> QED BY <1>2, <1>3, <2>3, <3>1
  <2>4. CASE d.ws[v] # gone
    <3>1. g.ws[v] = d.ws[v]
      BY <1>2, <2>4
    <3> QED BY <1>3, <2>1, <2>2, <2>4, <3>1
  <2> QED BY <2>3, <2>4
<1>7. OnlyCapable(g, Windows)
  <2> SUFFICES ASSUME NEW n \in Ids \cup {AllId}, NEW v \in Range(g.history[n]) \cap Windows
               PROVE  HasActiveCapability(d, v)
    BY <1>4 DEF OnlyCapable
  <2>1. v \in capable \/ v \in Range(d.history[n])
    BY <1>3
  <2> QED BY <2>1 DEF Exact, OnlyCapable
<1>8. Accurate(g, a)
  BY <1>5, <1>6, <1>7, ActivateLatestExact
<1> HIDE DEF a
<1>9. a \in Desks /\ Exact(a) /\ Steady(a)
  BY <1>8 DEF Accurate, Steady, OkDesk
<1>10. Steady(s)
  BY <1>9, ShowOnlyCurrentOk, ShowOnlyCurrentPlaced, SetCurrentIndexKept DEF Steady, Kept
<1>11. /\ s.history = a.history /\ s.ws = a.ws /\ s.caps = a.caps /\ s.mode = a.mode
       /\ s.activated = a.activated /\ s.models = a.models
       /\ s.currentIndex = a.currentIndex
  BY <1>9 DEF ShowOnlyCurrent, Desks
<1> HIDE DEF s
<1>12. Recorded(s, Windows) /\ OnlyCapable(s, Windows)
  BY <1>9, <1>11, ExactTwin DEF Exact
<1>13. Settled(s) /\ Fresh(s)
  BY <1>9, <1>11 DEF Exact, Settled, Idle, Blocked, HasActiveCapability, Fresh,
                     LatestActiveSurface, Current
<1> QED BY <1>2, <1>10, <1>12, <1>13 DEF Exact

LEMMA ModeExact ==
    ASSUME NEW d, Steady(d), Exact(d), Shown(d, Windows), NEW n \in Modes,
           n = "Normal" \/ (d.activated = NoWindow /\ "Multitaskview" \in Uses)
    PROVE  LET e == [d EXCEPT !.mode = n]
           IN  Steady(e) /\ Exact(e) /\ Shown(e, Windows)
<1> DEFINE e == [d EXCEPT !.mode = n]
<1>1. Steady(e) /\ Shown(e, Windows)
  BY ModeFit, ModePlaced DEF Steady
<1>2. /\ e.history = d.history /\ e.ws = d.ws /\ e.caps = d.caps /\ e.mode = n
      /\ e.activated = d.activated /\ e.models = d.models
      /\ e.currentIndex = d.currentIndex
  BY DEF Steady, OkDesk, Desks
<1> HIDE DEF e
<1>3. Recorded(e, Windows) /\ OnlyCapable(e, Windows)
  BY <1>2, ExactTwin DEF Exact
<1>4. Settled(e) /\ Fresh(e)
  BY <1>2 DEF Exact, Settled, Idle, Blocked, HasActiveCapability, Fresh,
              LatestActiveSurface, Current
<1> QED BY <1>1, <1>3, <1>4 DEF Exact, e

LEMMA BecomeExact ==
    ASSUME NEW e, Steady(e), Exact(e), Become(e)
    PROVE  Exact(desk')
<1>1. e \in Desks
  BY DEF Steady, OkDesk
<1>2. desk' = e
  BY <1>1 DEF Become, desk, Desks
<1> QED BY <1>2

(* A window that opens cannot be activated yet.                            *)
LEMMA OpenExact ==
    ASSUME Inv, Steady(desk), Exact(desk), NEW w \in Windows, OpenWindow(w)
    PROVE  Exact(desk')
<1> DEFINE d == desk
           a == ModelAddSurface(d, Current(d), w)
           e == [a EXCEPT !.life[w] = "open",
                          !.caps[w] = @ \cup {"HasInitializeContainer"}]
<1>1. Become(e) /\ d.life[w] = "new"
  BY DEF OpenWindow, desk
<1>2. d \in Desks /\ OkDesk(a) /\ Current(d) \in ModelIds(d) /\ Current(d) \in Ids
  BY CurrentOk, ModelAddOk DEF Inv, GoodDesk, OkDesk
<1> HIDE DEF d
<1>3. /\ a.models = d.models /\ a.history = d.history
      /\ a.ws = [d.ws EXCEPT ![w] = Current(d)] /\ a.caps = d.caps
      /\ a.activated = d.activated /\ a.currentIndex = d.currentIndex
      /\ a.mode = d.mode
  BY <1>2 DEF ModelAddSurface, Desks
<1> HIDE DEF a
<1>4. a \in Desks /\ a.caps \in [Windows -> SUBSET Full]
  BY <1>2 DEF OkDesk, Desks
<1>5. /\ e.models = a.models /\ e.history = a.history /\ e.ws = a.ws
      /\ e.activated = a.activated /\ e.currentIndex = a.currentIndex
      /\ e.caps = [a.caps EXCEPT ![w] = @ \cup {"HasInitializeContainer"}]
      /\ e.mode = a.mode
  BY <1>4 DEF Desks
<1>6. desk' = e
  <2>1. e \in Desks
    <3>1. /\ a.life \in [Windows -> {"new", "open", "removed"}]
          /\ [a.life EXCEPT ![w] = "open"] \in [Windows -> {"new", "open", "removed"}]
          /\ [a.caps EXCEPT ![w] = @ \cup {"HasInitializeContainer"}]
               \in [Windows -> SUBSET Full]
      BY <1>4 DEF Desks, Full
    <3> QED BY <1>4, <3>1 DEF Desks
  <2> HIDE DEF e
  <2> QED BY <1>1, <2>1 DEF Become, desk, Desks
<1> HIDE DEF e
<1>7. /\ \A v \in Windows : HasActiveCapability(e, v) => v # w
      /\ ~HasActiveCapability(d, w)
  <2>1. "MappedOrSplash" \notin d.caps[w]
    BY <1>1 DEF Steady, Fit, d
  <2>2. "MappedOrSplash" \notin e.caps[w]
    BY <1>3, <1>4, <1>5, <2>1
  <2> QED BY <2>1, <2>2 DEF HasActiveCapability, Full
<1>8. \A v \in Windows \ {w} : /\ HasActiveCapability(e, v) <=> HasActiveCapability(d, v)
                               /\ e.ws[v] = d.ws[v]
  <2>1. d.ws \in [Windows -> Ids \cup {AllId, NoId}]
    BY <1>2 DEF Desks
  <2> QED BY <1>3, <1>4, <1>5, <2>1 DEF HasActiveCapability
<1>9. Exact(d)
  BY DEF d
<1>10. Recorded(e, Windows)
  BY <1>3, <1>5, <1>7, <1>8, <1>9 DEF Exact, Recorded
<1>11. OnlyCapable(e, Windows)
  BY <1>3, <1>5, <1>7, <1>8, <1>9 DEF Exact, OnlyCapable
<1>12. Settled(e)
  <2>1. d.activated \in Windows \cup {NoWindow}
    BY <1>2 DEF Desks
  <2> QED BY <1>3, <1>5, <1>7, <1>8, <1>9, <2>1 DEF Exact, Settled, Idle, Blocked
<1>13. Fresh(e)
  BY <1>3, <1>5, <1>9 DEF Exact, Fresh, LatestActiveSurface, Current
<1> QED BY <1>6, <1>10, <1>11, <1>12, <1>13 DEF Exact

(* A window that closes is out of the histories before it leaves its       *)
(* model, and so is not fallen back to.                                    *)
LEMMA RemoveExact ==
    ASSUME Steady(desk), Exact(desk), NEW w \in Windows, RemoveWindow(w)
    PROVE  Exact(desk')
<1> DEFINE flag == "HasInitializeContainer"
           d == desk
           a == [d EXCEPT !.life[w] = "removed"]
           b == [a EXCEPT !.caps[w] = @ \ {flag}]
           r == UpdateHasActiveCapability(a, w, flag, FALSE)
           e == ModelRemoveSurface(r, d.ws[w], w)
<1>1. Become(e)
  BY DEF RemoveWindow, desk
<1>2. r = IF HasActiveCapability(a, w) = HasActiveCapability(b, w) THEN b
          ELSE IF HasActiveCapability(b, w) THEN RequestActive(b, w)
          ELSE RequestInactive(b, w)
  BY DEF UpdateHasActiveCapability
<1> HIDE DEF d, r, e
<1>3. /\ OkDesk(a) /\ OkDesk(b) /\ Fit(b) /\ ~HasActiveCapability(b, w)
      /\ a.caps = d.caps /\ a.history = d.history /\ b.history = d.history
      /\ a.models = d.models /\ b.models = d.models
      /\ a.currentIndex = d.currentIndex /\ b.currentIndex = d.currentIndex
      /\ a.ws = d.ws /\ b.ws = d.ws /\ a.mode = d.mode /\ b.mode = d.mode
      /\ a.activated = d.activated /\ b.activated = d.activated
      /\ a.life = [d.life EXCEPT ![w] = "removed"] /\ b.life = a.life
      /\ \A v \in Windows \ {w} : b.caps[v] = d.caps[v]
  BY ClosingOk DEF Steady, d
<1> HIDE DEF a, b
<1>4. Exact(d) /\ Placed(d) /\ d.life \in [Windows -> {"new", "open", "removed"}]
  BY DEF Steady, OkDesk, Desks, d
<1>5. Steady(b)
  <2>1. Placed(b)
    BY <1>3, <1>4 DEF Placed, ModelIds
  <2> QED BY <1>3, <2>1 DEF Steady
<1>6. Exact(a)
  <2>1. Recorded(a, Windows) /\ OnlyCapable(a, Windows)
    BY <1>3, <1>4, ExactTwin DEF Exact
  <2>2. Settled(a) /\ Fresh(a)
    BY <1>3, <1>4 DEF Exact, Settled, Idle, Blocked, HasActiveCapability, Fresh,
                      LatestActiveSurface, Current
  <2> QED BY <2>1, <2>2 DEF Exact
<1>7. Accurate(b, r)
  BY <1>2, <1>3, <1>5, <1>6, CapabilityChanged
<1>8. /\ Exact(r) /\ Steady(r) /\ r.ws = d.ws /\ ~HasActiveCapability(r, w)
  BY <1>3, <1>7 DEF Accurate, Stays, Same, Kept, HasActiveCapability
<1>9. e = ModelRemoveSurface(r, r.ws[w], w)
  BY <1>8 DEF e
<1>10. /\ Steady(e) /\ Recorded(e, Windows) /\ OnlyCapable(e, Windows)
       /\ e.caps = r.caps /\ e.mode = r.mode /\ e.activated = r.activated
       /\ LatestActiveSurface(r) \notin {w, NoWindow}
             => LatestActiveSurface(e) = LatestActiveSurface(r)
  BY <1>8, <1>9, ModelRemoveExact DEF Exact
<1>11. Settled(e)
  BY <1>8, <1>10 DEF Exact, Settled, Idle, Blocked, HasActiveCapability
<1>12. Fresh(e)
  <2>1. r.activated # w \/ w = NoWindow
    BY <1>8 DEF Exact, Settled
  <2> QED BY <1>8, <1>10, <2>1, WindowsAssumption DEF Exact, Fresh
<1> QED BY <1>1, <1>10, <1>11, <1>12, BecomeExact DEF Exact

LEMMA ClientsExact ==
    ASSUME Inv, Steady(desk), Exact(desk), NEW w \in Windows,
           \/ OpenWindow(w) \/ MapWindow(w) \/ UnmapWindow(w) \/ Minimize(w)
           \/ CancelMinimize(w) \/ RemoveWindow(w)
    PROVE  Exact(desk')
<1>0. /\ TRUE \in BOOLEAN /\ FALSE \in BOOLEAN /\ desk.life = life
      /\ {"MappedOrSplash", "UnMinimized"} \subseteq Full
  BY DEF Full, desk
<1>1. ASSUME NEW flag \in {"MappedOrSplash", "UnMinimized"}, NEW value \in BOOLEAN,
             life[w] = "open", Become(UpdateHasActiveCapability(desk, w, flag, value))
      PROVE  Exact(desk')
  <2> DEFINE e == UpdateHasActiveCapability(desk, w, flag, value)
  <2>1. Exact(e) /\ Steady(e)
    BY <1>0, <1>1, UpdateCapabilityExact
  <2> HIDE DEF e
  <2> QED BY <1>1, <2>1, BecomeExact DEF e
<1>2. CASE MapWindow(w)
  BY <1>0, <1>1, <1>2 DEF MapWindow
<1>3. CASE UnmapWindow(w)
  BY <1>0, <1>1, <1>3 DEF UnmapWindow
<1>4. CASE Minimize(w)
  BY <1>0, <1>1, <1>4 DEF Minimize
<1>5. CASE CancelMinimize(w)
  BY <1>5, CancelMinimizeExact, BecomeExact DEF CancelMinimize
<1> QED BY <1>2, <1>3, <1>4, <1>5, OpenExact, RemoveExact

LEMMA UsersExact ==
    ASSUME Calm, Inv, Steady(desk), Exact(desk), NEW w,
           \/ w \in Windows /\ (PopupActive(w) \/ ClickWindow(w) \/ ForceActivate(w))
           \/ LayerInactive \/ ClickEmpty \/ QuickSwitch \/ RemoveSession
    PROVE  Exact(desk')
<1>0. /\ OkDesk(desk) /\ Shown(desk, Windows) /\ OneShown(desk) /\ Placed(desk)
      /\ NoWindow \in Windows \cup {NoWindow} /\ desk.hidden = hidden
      /\ Current(desk) \in Ids /\ ModelIds(desk) \subseteq Ids
      /\ AllId \notin Ids \cup {NoId}
      /\ Recorded(desk, Windows) /\ OnlyCapable(desk, Windows) /\ Idle(desk)
      /\ Fresh(desk)
  BY CurrentOk DEF Inv, GoodDesk, desk, AllId, NoId, Ids, Steady, Exact, Settled
<1>1. ASSUME NEW v \in Windows \cup {NoWindow}, Become(ActivateSurface(desk, v)),
             v # NoWindow => /\ desk.ws[v] = Current(desk)
                             /\ HasActiveCapability(desk, v)
      PROVE  Exact(desk')
  <2>1. Exact(ActivateSurface(desk, v)) /\ Steady(ActivateSurface(desk, v))
    BY <1>0, <1>1, ActivateSurfaceExact
  <2> QED BY <1>1, <2>1, BecomeExact
<1>2. ASSUME NEW v \in Windows, Become(ForceActivateSurface(desk, v))
      PROVE  Exact(desk')
  BY <1>0, <1>2, ForceActivateExact, BecomeExact
<1>3. CASE w \in Windows /\ PopupActive(w)
  <2>1. desk.ws[w] = Current(desk)
    BY <1>0, <1>3 DEF PopupActive, ShowOnWorkspace, Placed
  <2>2. ~Blocked(desk)
    BY <1>0, <1>3 DEF PopupActive, Calm, Idle
  <2>3. CASE HasActiveCapability(desk, w)
    BY <1>1, <1>3, <2>1, <2>3 DEF PopupActive
  <2>4. CASE ~HasActiveCapability(desk, w)
    <3>1. ActivateSurface(desk, w) = desk
      BY <1>3, <2>2, <2>4, WindowsAssumption DEF ActivateSurface
    <3> QED BY <1>3, <3>1, BecomeExact DEF PopupActive
  <2> QED BY <2>3, <2>4
<1>4. CASE w \in Windows /\ ClickWindow(w)
  <2>1. desk.life[w] = "open"
    BY <1>4 DEF ClickWindow, HasActiveCapability, Full, Fit, Steady
  <2>2. desk.ws[w] # AllId
    BY <1>0, <1>4 DEF Placed
  <2>3. desk.ws[w] = Current(desk)
    BY <1>0, <1>4, <2>1, <2>2 DEF ClickWindow, Shown, OneShown
  <2> QED BY <1>1, <1>4, <2>3 DEF ClickWindow
<1>5. CASE LayerInactive
  <2>1. Accurate(desk, ActivateLatest(desk))
    BY <1>0, ActivateLatestExact
  <2> QED BY <1>5, <2>1, BecomeExact DEF LayerInactive, Accurate
<1>6. CASE QuickSwitch
  <2>1. history[Current(desk)] \in Seq(Windows)
    BY <1>0, LatestOk DEF OkDesk, Desks, desk
  <2>2. history[Current(desk)][2] \in Windows
    BY <1>6, <2>1, ElementOfSeq, LenProperties DEF QuickSwitch
  <2> QED BY <1>2, <1>6, <2>2 DEF QuickSwitch
<1>7. CASE RemoveSession
  BY <1>7 DEF RemoveSession, Calm
<1>8. CASE ClickEmpty
  BY <1>0, <1>1, <1>8 DEF ClickEmpty
<1> QED BY <1>2, <1>3, <1>4, <1>5, <1>6, <1>7, <1>8 DEF ForceActivate

(* A new model starts with an empty history.                               *)
LEMMA CreateExact ==
    ASSUME Steady(desk), Exact(desk), CreateModel
    PROVE  Exact(desk')
<1> DEFINE d == desk
           e == desk'
           n == nextId
<1>1. /\ e.activated = d.activated /\ e.ws = d.ws /\ e.caps = d.caps
      /\ e.models = Append(d.models, n) /\ e.mode = d.mode
      /\ e.history = [d.history EXCEPT ![n] = d.history[AllId]]
      /\ e.currentIndex = d.currentIndex /\ d.nextId = n
  BY DEF CreateModel, Become, desk
<1>2. /\ d.models \in Seq(Ids) /\ d.history \in [Ids \cup {AllId} -> Seq(Windows)]
      /\ n \in Ids /\ \A i \in DOMAIN d.models : d.models[i] < n
      /\ Exact(d) /\ Placed(d) /\ OkDesk(d)
  <2>1. d.nextId = nextId /\ nextId < MaxId
    BY DEF CreateModel, desk
  <2> HIDE DEF d
  <2>2. Steady(d) /\ Exact(d)
    BY DEF d
  <2> QED BY <2>1, <2>2, NumAssumption DEF Steady, OkDesk, Desks, Ids
<1> HIDE DEF d, e, n
<1>3. /\ d.currentIndex + 1 \in 1 .. Len(d.models) /\ Current(d) \in ModelIds(d)
      /\ n \notin ModelIds(d) /\ ModelIds(d) \subseteq Ids
  <2>1. n \notin ModelIds(d)
    BY <1>2 DEF ModelIds, Range, Ids
  <2> QED BY <1>2, <2>1, CurrentOk
<1>4. Current(e) = Current(d)
  BY <1>1, <1>2, <1>3, AppendProperties DEF Current
<1>5. Range(d.history[AllId]) = {}
  <2>1. ASSUME NEW v \in Range(d.history[AllId]) PROVE FALSE
    <3>1. d.ws[v] = AllId
      BY <1>2, <2>1 DEF Placed
    <3>2. v \in Windows
      BY <1>2, <2>1, ElementOfSeq, LenProperties DEF Range
    <3> QED BY <1>2, <1>3, <3>1, <3>2 DEF Placed, Ids, AllId, NoId
  <2> QED BY <2>1
<1>6. \A k \in (Ids \cup {AllId}) \ {n} : e.history[k] = d.history[k]
  BY <1>1, <1>2
<1>7. Range(e.history[n]) = {}
  BY <1>1, <1>2, <1>5
<1>8. OnlyCapable(e, Windows)
  BY <1>1, <1>2, <1>6, <1>7 DEF Exact, OnlyCapable, HasActiveCapability
<1>9. Recorded(e, Windows)
  <2> SUFFICES ASSUME NEW v \in Windows, HasActiveCapability(e, v)
               PROVE  e.ws[v] = NoId \/ v \in Range(e.history[e.ws[v]])
    BY DEF Recorded
  <2>1. d.ws[v] = NoId \/ v \in Range(d.history[d.ws[v]])
    BY <1>1, <1>2 DEF Exact, Recorded, HasActiveCapability
  <2>2. d.ws[v] \in ModelIds(d) \cup {NoId}
    BY <1>2 DEF Placed
  <2> QED BY <1>1, <1>3, <1>6, <2>1, <2>2
<1>10. Settled(e)
  BY <1>1, <1>2 DEF Exact, Settled, Idle, Blocked, HasActiveCapability
<1>11. Fresh(e)
  <2>1. LatestActiveSurface(e) = LatestActiveSurface(d)
    BY <1>3, <1>4, <1>6 DEF LatestActiveSurface
  <2> QED BY <1>1, <1>2, <2>1 DEF Exact, Fresh
<1>12. Exact(e)
  BY <1>8, <1>9, <1>10, <1>11 DEF Exact
<1> QED BY <1>12 DEF e

LEMMA WorkspacesExact ==
    ASSUME Calm, Inv, Steady(desk), Exact(desk), NEW i, NEW j, NEW w, NEW m,
           \/ SwitchWorkspace(i) \/ SwipeWorkspace(i) \/ CreateModel
           \/ RemoveModel(i) \/ MoveModelTo(i, j)
           \/ w \in Windows /\ MoveSurfaceTo(w, m)
    PROVE  Exact(desk')
<1>0. OkDesk(desk) /\ Shown(desk, Windows) /\ OneShown(desk)
  BY DEF Inv, GoodDesk
<1>1. CASE SwitchWorkspace(i)
  BY <1>1, SwitchToExact, BecomeExact DEF SwitchWorkspace
<1>2. CASE SwipeWorkspace(i)
  BY <1>2, SetCurrentIndexExact, BecomeExact DEF SwipeWorkspace
<1>3. CASE CreateModel
  BY <1>3, CreateExact
<1>4. CASE RemoveModel(i)
  <2> DEFINE e == WithoutModel(desk, i)
             capable == {v \in Windows : /\ ws[v] = models[i + 1]
                                         /\ HasActiveCapability(desk, v)}
  <2>1. Len(desk.models) > 1 /\ i \in 0 .. Len(desk.models) - 1
    BY <1>4 DEF RemoveModel, desk
  <2>2. PICK h \in PushedOver(e.history[Current(e)], capable) :
            Become(DoRemoveModel(desk, i, h))
    BY <1>4 DEF RemoveModel
  <2>3. capable = {v \in Windows : /\ desk.ws[v] = desk.models[i + 1]
                                   /\ HasActiveCapability(desk, v)}
    BY DEF desk
  <2> HIDE DEF capable
  <2>4. Steady(DoRemoveModel(desk, i, h)) /\ Exact(DoRemoveModel(desk, i, h))
    BY <1>0, <2>1, <2>2, <2>3, DoRemoveModelExact
  <2> QED BY <2>2, <2>4, BecomeExact
<1>5. CASE MoveModelTo(i, j)
  <2> DEFINE d == desk
             e == DoMoveModel(d, i, j)
             r == MoveRow(d.models, i, j)
             c == IndexOf(r, Current(d))
  <2>1. i \in 0 .. Len(d.models) - 1 /\ j \in 0 .. Len(d.models) - 1
    BY <1>5 DEF MoveModelTo, desk
  <2>2. Become(e)
    BY <1>5 DEF MoveModelTo
  <2>3. OkDesk(d) /\ Exact(d) /\ Steady(d)
    BY <1>0
  <2>4. OkDesk(e)
    BY <1>0, <2>1, DoMoveModelOk
  <2> HIDE DEF d
  <2>5. /\ d.models \in Seq(Ids) /\ Current(d) \in Range(d.models)
        /\ Injective(d.models)
    BY <2>3, CurrentOk DEF ModelIds, OkDesk, Injective
  <2>6. r \in Seq(Ids) /\ Range(r) = Range(d.models)
    BY <2>1, <2>5, MoveRowOk
  <2> HIDE DEF r
  <2>7. r[c + 1] = Current(d)
    BY <2>5, <2>6, IndexOfOk
  <2> HIDE DEF c
  <2>8. /\ e.history = d.history /\ e.ws = d.ws /\ e.caps = d.caps /\ e.mode = d.mode
        /\ e.activated = d.activated /\ e.models = r /\ e.currentIndex = c
        /\ e.life = d.life /\ e.flagged = d.flagged
    BY <2>3 DEF DoMoveModel, OkDesk, Desks, r, c
  <2> HIDE DEF e
  <2>9. Current(e) = Current(d) /\ ModelIds(e) = ModelIds(d)
    BY <2>6, <2>7, <2>8 DEF Current, ModelIds
  <2>10. Steady(e)
    <3>1. Placed(e)
      BY <2>3, <2>8, <2>9, PlacedTwin DEF Steady
    <3> QED BY <2>3, <2>4, <2>8, <3>1 DEF Steady, Fit
  <2>11. Recorded(e, Windows) /\ OnlyCapable(e, Windows)
    BY <2>3, <2>8, ExactTwin DEF Exact
  <2>12. Settled(e)
    BY <2>3, <2>8 DEF Exact, Settled, Idle, Blocked, HasActiveCapability
  <2>13. Fresh(e)
    BY <2>3, <2>8, <2>9 DEF Exact, Fresh, LatestActiveSurface
  <2> QED BY <2>2, <2>10, <2>11, <2>12, <2>13, BecomeExact DEF Exact
<1>6. CASE w \in Windows /\ MoveSurfaceTo(w, m)
  <2>1. m \in ModelIds(desk) /\ desk.life[w] = "open" /\ Become(MoveSurface(desk, w, m))
    BY <1>6 DEF MoveSurfaceTo, desk, Calm
  <2> QED BY <1>6, <2>1, MoveSurfaceExact, BecomeExact
<1> QED BY <1>1, <1>2, <1>3, <1>4, <1>5, <1>6

LEMMA ModesExact ==
    ASSUME Calm, Inv, Steady(desk), Exact(desk), NEW w \in Windows \cup {NoWindow},
           \/ EnterWindowSwitch \/ (w \in Windows /\ ExitWindowSwitch(w))
           \/ EnterMultitaskview \/ ExitMultitaskview(w)
           \/ LockScreen \/ Unlock
    PROVE  Exact(desk')
<1>0. /\ Modes = {"Normal", "LockScreen", "WindowSwitch", "Multitaskview"}
      /\ OkDesk(desk) /\ Shown(desk, Windows) /\ NoWindow \in Windows \cup {NoWindow}
  BY DEF Modes, Inv, GoodDesk
<1> DEFINE n == [desk EXCEPT !.mode = "Normal"]
<1>1. Steady(n) /\ Exact(n) /\ Shown(n, Windows)
  BY <1>0, ModeExact
<1> HIDE DEF n
<1>2. ASSUME NEW v \in Windows \cup {NoWindow}
      PROVE  Exact(ForceActivateSurface(n, v)) /\ Steady(ForceActivateSurface(n, v))
  BY <1>1, ForceActivateExact
<1>3. CASE Unlock
  BY <1>1, <1>3, BecomeExact DEF Unlock, n
<1>4. CASE w \in Windows /\ ExitWindowSwitch(w)
  BY <1>2, <1>4, BecomeExact DEF ExitWindowSwitch, n
<1>5. CASE ExitMultitaskview(w)
  <2>1. LatestActiveSurface(n) \in Windows \cup {NoWindow}
    BY <1>1, LatestOk DEF Steady
  <2> DEFINE v == IF w = NoWindow THEN LatestActiveSurface(n) ELSE w
  <2>2. Become(ForceActivateSurface(n, v))
    BY <1>5 DEF ExitMultitaskview, LeaveMultitaskview, n
  <2>3. v \in Windows \cup {NoWindow}
    BY <2>1
  <2> HIDE DEF v
  <2> QED BY <1>2, <2>2, <2>3, BecomeExact
<1>6. CASE EnterMultitaskview
  <2> DEFINE a == ActivateSurface(desk, NoWindow)
             e == [a EXCEPT !.mode = "Multitaskview"]
  <2>1. /\ Exact(a) /\ Steady(a) /\ Stays(desk, a)
        /\ a.activated = IF Blocked(desk) THEN NoWindow ELSE NoWindow
    BY <1>0, ActivateSurfaceExact DEF Exact, Settled
  <2>2. Become(e) /\ "Multitaskview" \in Uses
    BY <1>6 DEF EnterMultitaskview
  <2> HIDE DEF a
  <2>3. Shown(a, Windows)
    BY <1>0, <2>1, SameShown DEF Stays
  <2>4. Steady(e) /\ Exact(e)
    BY <1>0, <2>1, <2>2, <2>3, ModeExact
  <2> QED BY <2>2, <2>4, BecomeExact
<1>7. CASE EnterWindowSwitch \/ LockScreen
  BY <1>7 DEF EnterWindowSwitch, LockScreen, Calm
<1> QED BY <1>3, <1>4, <1>5, <1>6, <1>7

LEMMA StepExact ==
    ASSUME Calm
    PROVE  Inv /\ Steady(desk) /\ Exact(desk) /\ [Next]_vars => Exact(desk')
<1> SUFFICES ASSUME Inv, Steady(desk), Exact(desk), [Next]_vars
             PROVE  Exact(desk')
  OBVIOUS
<1>1. ASSUME NEW w \in Windows,
             \/ OpenWindow(w) \/ MapWindow(w) \/ UnmapWindow(w) \/ Minimize(w)
             \/ CancelMinimize(w) \/ RemoveWindow(w)
      PROVE  Exact(desk')
  BY <1>1, ClientsExact
<1>2. ASSUME NEW w,
             \/ w \in Windows /\ (PopupActive(w) \/ ClickWindow(w) \/ ForceActivate(w))
             \/ LayerInactive \/ ClickEmpty \/ QuickSwitch \/ RemoveSession
      PROVE  Exact(desk')
  BY <1>2, UsersExact
<1>3. ASSUME NEW i, NEW j, NEW w, NEW m,
             \/ SwitchWorkspace(i) \/ SwipeWorkspace(i) \/ CreateModel
             \/ RemoveModel(i) \/ MoveModelTo(i, j)
             \/ w \in Windows /\ MoveSurfaceTo(w, m)
      PROVE  Exact(desk')
  BY <1>3, WorkspacesExact
<1>4. ASSUME NEW w \in Windows \cup {NoWindow},
             \/ EnterWindowSwitch \/ (w \in Windows /\ ExitWindowSwitch(w))
             \/ EnterMultitaskview \/ ExitMultitaskview(w)
             \/ LockScreen \/ Unlock
      PROVE  Exact(desk')
  BY <1>4, ModesExact
<1>5. CASE Next
  BY <1>1, <1>2, <1>3, <1>4, <1>5 DEF Next
<1>6. CASE UNCHANGED vars
  <2>1. desk' = desk
    BY <1>6 DEF vars, desk
  <2> QED BY <2>1
<1> QED BY <1>5, <1>6

LEMMA ExactAlways ==
    ASSUME Calm
    PROVE  Spec => [](Inv /\ Fit(desk) /\ Placed(desk) /\ Exact(desk))
<1>1. Init => Exact(desk)
  <2> SUFFICES ASSUME Init PROVE Exact(desk)
    OBVIOUS
  <2>1. /\ desk.activated = NoWindow /\ desk.mode = "Normal"
        /\ \A w \in Windows : desk.ws[w] = NoId
        /\ \A m \in Ids \cup {AllId} : desk.history[m] = <<>>
    BY DEF Init, desk
  <2>2. Range(<<>>) = {}
    BY EmptySeq DEF Range
  <2> QED BY <2>1, <2>2 DEF Exact, Recorded, OnlyCapable, Settled, Idle, Blocked, Fresh
<1>2. Inv /\ Fit(desk) /\ Placed(desk) /\ Exact(desk) /\ [Next]_vars => Exact(desk)'
  BY StepExact DEF Steady, Inv, GoodDesk
<1>3. "pin" \notin Uses
  BY DEF Calm
<1> QED BY <1>1, <1>2, <1>3, PlacedAlways, PTL DEF Spec

(* Nothing that can be activated is forgotten and nothing else is fallen   *)
(* back to, for every number of windows and workspaces, as long as         *)
(* activation is blocked only while nothing is activated.                  *)
THEOREM HistoryIsExact ==
    ASSUME Calm
    PROVE  Spec => []HistoryExact
<1>1. Inv /\ Fit(desk) /\ Placed(desk) /\ Exact(desk) => HistoryExact
  <2> SUFFICES ASSUME Inv, Fit(desk), Placed(desk), Exact(desk),
                      NEW m \in ModelIds(desk)
               PROVE  Range(desk.history[m]) =
                        {w \in Windows : /\ HasActiveCapability(desk, w)
                                         /\ ShowOnWorkspace(desk, w, m)}
    BY DEF HistoryExact, desk
  <2> DEFINE d == desk
  <2>1. OkDesk(d) /\ Placed(d) /\ Recorded(d, Windows) /\ OnlyCapable(d, Windows)
    BY DEF Inv, GoodDesk, Exact
  <2> HIDE DEF d
  <2>2. /\ m \in Ids /\ ModelIds(d) \subseteq Ids
        /\ d.history \in [Ids \cup {AllId} -> Seq(Windows)]
    BY <2>1, CurrentOk DEF OkDesk, Desks, d
  <2>3. ASSUME NEW w \in Range(d.history[m])
        PROVE  w \in Windows /\ HasActiveCapability(d, w) /\ d.ws[w] = m
    <3>1. w \in Windows
      BY <2>2, <2>3, ElementOfSeq, LenProperties DEF Range
    <3> QED BY <2>1, <2>2, <3>1 DEF OnlyCapable, Placed
  <2>4. ASSUME NEW w \in Windows, HasActiveCapability(d, w), ShowOnWorkspace(d, w, m)
        PROVE  w \in Range(d.history[m])
    <3>1. d.ws[w] = m /\ m # NoId
      BY <2>1, <2>2, <2>4 DEF ShowOnWorkspace, Placed, Ids, AllId, NoId
    <3> QED BY <2>1, <2>4, <3>1 DEF Recorded
  <2>5. Range(d.history[m]) = {w \in Windows : /\ HasActiveCapability(d, w)
                                               /\ ShowOnWorkspace(d, w, m)}
    BY <2>3, <2>4 DEF ShowOnWorkspace
  <2> QED BY <2>5 DEF d
<1> QED BY <1>1, ExactAlways, PTL

(* The window with the activation is the most recent one of the current    *)
(* workspace; only the swipe leaves another one active.                    *)
THEOREM LatestIsActivated ==
    ASSUME Calm, "swipe" \notin Uses
    PROVE  Spec => []ActivatedIsLatest
<1>1. Exact(desk) => ActivatedIsLatest
  BY DEF Exact, Fresh, ActivatedIsLatest, desk
<1> QED BY <1>1, ExactAlways, PTL
=============================================================================

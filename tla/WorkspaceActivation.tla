------------------------ MODULE WorkspaceActivation ------------------------
(***************************************************************************)
(* Which window is the activated one: Helper::activateSurface with the     *)
(* most-recently-used history every Workspace model keeps, the three flags *)
(* that make a SurfaceWrapper capable of being activated, the signals      *)
(* requestActive / requestInactive wired by ShellHandler, and the modes    *)
(* (task switcher, multitask view, lock screen) that block activation.     *)
(*                                                                         *)
(* The compositor is one Qt event loop: an action is one event handler     *)
(* with every call it makes.  The handlers nest (activateSurface calls     *)
(* setActivatedSurface calls pushActivedSurface ...), so each method is an *)
(* operator from a desk - the record of all the variables - to a desk,     *)
(* and an action applies one to the present desk (see Become).             *)
(***************************************************************************)
EXTENDS Integers, Sequences, FiniteSets, SequencesExt

CONSTANTS
    Windows,        \* the toplevel windows that may be opened
    NoWindow,       \* nullptr where a SurfaceWrapper * is expected
    Ancestors,      \* w -> its transient parents, nearest first
    NumWorkspace,   \* config()->numWorkspace(): the models made at start
    MaxId,          \* bound on nextWorkspaceId: models ever made
    Uses            \* the optional interactions this instance explores

ASSUME WindowsAssumption == NoWindow \notin Windows /\ IsFiniteSet(Windows)
ASSUME AncestorsAssumption == Ancestors \in [Windows -> Seq(Windows)]
ASSUME NumAssumption ==
    /\ NumWorkspace \in Nat \ {0}
    /\ MaxId \in Nat
    /\ NumWorkspace <= MaxId
ASSUME UsesAssumption ==
    Uses \subseteq {"pin", "swipe", "session", "popup",
                    "LockScreen", "WindowSwitch", "Multitaskview"}

AllId == -2                 \* Workspace::ShowOnAllWorkspaceId
NoId == -1                  \* a wrapper in no model
Ids == 0 .. MaxId - 1
Full == {"MappedOrSplash", "UnMinimized", "HasInitializeContainer"}
Modes == {"Normal", "LockScreen", "WindowSwitch", "Multitaskview"}

VARIABLES
    models,         \* the ids of m_models, in the order of the switcher
    currentIndex,   \* m_currentIndex, from 0
    nextId,         \* globalWorkspaceId
    visible,        \* the models with m_visible
    hidden,         \* the windows with m_hideByWorkspace
    ws,             \* m_workspaceId of each window
    history,        \* m_activedSurfaceHistory of each model, front first
    caps,           \* m_hasActiveCapability of each window
    life,           \* "new", "open", then "removed" (markWrapperToRemoved)
    activated,      \* Helper::m_activatedSurface
    flagged,        \* the windows told they are activated (m_isActivated)
    mode            \* Helper::m_currentMode; any but Normal blocks activation

vars == <<models, currentIndex, nextId, visible, hidden, ws, history, caps,
          life, activated, flagged, mode>>

(* A desk: the values of all the variables at one point of a handler.      *)
Desks == [models : Seq(Ids), currentIndex : Int, nextId : 0 .. MaxId,
          visible : SUBSET Ids, hidden : SUBSET Windows,
          ws : [Windows -> Ids \cup {AllId, NoId}],
          history : [Ids \cup {AllId} -> Seq(Windows)],
          caps : [Windows -> SUBSET Full],
          life : [Windows -> {"new", "open", "removed"}],
          activated : Windows \cup {NoWindow},
          flagged : SUBSET Windows, mode : Modes]

desk == [models |-> models, currentIndex |-> currentIndex, nextId |-> nextId,
         visible |-> visible, hidden |-> hidden, ws |-> ws,
         history |-> history, caps |-> caps, life |-> life,
         activated |-> activated, flagged |-> flagged, mode |-> mode]

(* The handler that takes the present desk to d ends.                      *)
Become(d) ==
    /\ models' = d.models
    /\ currentIndex' = d.currentIndex
    /\ nextId' = d.nextId
    /\ visible' = d.visible
    /\ hidden' = d.hidden
    /\ ws' = d.ws
    /\ history' = d.history
    /\ caps' = d.caps
    /\ life' = d.life
    /\ activated' = d.activated
    /\ flagged' = d.flagged
    /\ mode' = d.mode

-----------------------------------------------------------------------------
(* Reading a desk.                                                         *)

Current(d) == d.models[d.currentIndex + 1]
ModelIds(d) == Range(d.models)

(* objects().indexOf(model), from 0                                        *)
IndexOf(s, m) == (CHOOSE i \in 1 .. Len(s) : s[i] = m) - 1

ModelIndexOfSurface(d, w) ==
    IF d.ws[w] \in ModelIds(d) THEN IndexOf(d.models, d.ws[w]) ELSE d.ws[w]

ShowOnAllWorkspace(d, w) == d.ws[w] = AllId
ShowOnWorkspace(d, w, m) == d.ws[w] \in {m, AllId}
HasActiveCapability(d, w) == d.caps[w] = Full
Blocked(d) == d.mode # "Normal"

LatestActiveSurface(d) ==
    LET h == d.history[Current(d)] IN IF h = <<>> THEN NoWindow ELSE Head(h)

(* The parents updateActiveState reaches from w: it stops at the first one *)
(* that is gone or cannot be activated.                                    *)
CapableAncestors(d, w) ==
    {Ancestors[w][i] : i \in {i \in 1 .. Len(Ancestors[w]) :
        \A j \in 1 .. i : /\ d.life[Ancestors[w][j]] = "open"
                          /\ HasActiveCapability(d, Ancestors[w][j])}}

-----------------------------------------------------------------------------
(* The history of a workspace.  forward_list::remove drops every copy; a   *)
(* history never holds two (HistoryNoDup), so the first is the only one.   *)

Without(h, w) ==
    IF \E i \in 1 .. Len(h) : h[i] = w
    THEN RemoveAt(h, CHOOSE i \in 1 .. Len(h) : h[i] = w)
    ELSE h

(* The models a window's activation is recorded in.                        *)
HistoriesOf(d, w) ==
    IF ShowOnAllWorkspace(d, w) THEN ModelIds(d) \cup {AllId} ELSE {d.ws[w]}

(* Mutant: pushes without removing the earlier entry first                 *)
PushWithoutRemove(d, w) ==
    [d EXCEPT !.history = [m \in DOMAIN d.history |->
        IF m \in HistoriesOf(d, w) THEN <<w>> \o d.history[m]
                                   ELSE d.history[m]]]

PushActivedSurface(d, w) ==
    [d EXCEPT !.history = [m \in DOMAIN d.history |->
        IF m \in HistoriesOf(d, w) THEN <<w>> \o Without(d.history[m], w)
                                   ELSE d.history[m]]]

RemoveActivedSurface(d, w) ==
    [d EXCEPT !.history = [m \in DOMAIN d.history |->
        IF m \in HistoriesOf(d, w) THEN Without(d.history[m], w)
                                   ELSE d.history[m]]]

-----------------------------------------------------------------------------
(* Activation.                                                             *)

(* SurfaceWrapper::setActivate; a wrapper about to be removed ignores it.  *)
SetActivate(d, w, on) ==
    IF d.life[w] = "removed" \/ (on <=> w \in d.flagged) THEN d
    ELSE LET told == {w} \cup CapableAncestors(d, w)
         IN  [d EXCEPT !.flagged = IF on THEN @ \cup told ELSE @ \ told]

(* Mutant: tells the new window before it untells the old one              *)
SetActivatedNewFirst(d, w) ==
    IF d.activated = w THEN d
    ELSE LET on == IF w = NoWindow THEN d
                   ELSE PushActivedSurface(SetActivate(d, w, TRUE), w)
             off == IF d.activated = NoWindow THEN on
                    ELSE SetActivate(on, d.activated, FALSE)
         IN  [off EXCEPT !.activated = w]

SetActivatedSurface(d, w) ==
    IF d.activated = w THEN d
    ELSE LET off == IF d.activated = NoWindow THEN d
                    ELSE SetActivate(d, d.activated, FALSE)
             on == IF w = NoWindow THEN off
                   ELSE PushActivedSurface(SetActivate(off, w, TRUE), w)
         IN  [on EXCEPT !.activated = w]

(* Mutant: activation is not blocked                                       *)
ActivateUnblocked(d, w) ==
    IF w = NoWindow \/ HasActiveCapability(d, w) THEN SetActivatedSurface(d, w)
    ELSE d

ActivateSurface(d, w) ==
    IF w = NoWindow THEN SetActivatedSurface(d, NoWindow)
    ELSE IF Blocked(d) THEN PushActivedSurface(d, w)
    ELSE IF HasActiveCapability(d, w) THEN SetActivatedSurface(d, w)
    ELSE d

ActivateLatest(d) == ActivateSurface(d, LatestActiveSurface(d))

(* Mutants: a capable window is activated wherever it is; an incapable one *)
(* stays in the history                                                    *)
RequestActiveAnywhere(d, w) == ActivateSurface(d, w)

RequestInactiveKeeps(d, w) == ActivateLatest(d)

(* The slots setupSurfaceActiveWatcher connects for a toplevel window.     *)
RequestActive(d, w) ==
    IF ShowOnWorkspace(d, w, Current(d)) THEN ActivateSurface(d, w)
    ELSE PushActivedSurface(d, w)

RequestInactive(d, w) == ActivateLatest(RemoveActivedSurface(d, w))

UpdateHasActiveCapability(d, w, flag, value) ==
    LET e == [d EXCEPT !.caps[w] = IF value THEN @ \cup {flag} ELSE @ \ {flag}]
    IN  IF HasActiveCapability(d, w) = HasActiveCapability(e, w) THEN e
        ELSE IF HasActiveCapability(e, w) THEN RequestActive(e, w)
        ELSE RequestInactive(e, w)

-----------------------------------------------------------------------------
(* Workspaces and the windows in them.                                     *)

(* WorkspaceModel::setVisible on every model: only the current one shows.  *)
(* A model whose visibility does not change leaves its windows alone.      *)
ShowOnlyCurrent(d) ==
    LET shown == {Current(d)} \ d.visible
        gone == (d.visible \cap ModelIds(d)) \ {Current(d)}
    IN  [d EXCEPT !.visible = (@ \cup shown) \ gone,
                  !.hidden = {w \in Windows : \/ w \in @ /\ d.ws[w] \notin shown
                                              \/ d.ws[w] \in gone}]

SetCurrentIndex(d, i) ==
    IF i \notin 0 .. Len(d.models) - 1 \/ i = d.currentIndex THEN d
    ELSE ShowOnlyCurrent([d EXCEPT !.currentIndex = i])

(* Mutant: as setCurrentIndex, nothing is activated                        *)
SwitchToSilently(d, i) == SetCurrentIndex(d, i)

SwitchTo(d, i) ==
    IF i \notin 0 .. Len(d.models) - 1 \/ i = d.currentIndex THEN d
    ELSE ActivateLatest(SetCurrentIndex(d, i))

(* Mutants: the window keeps its visibility; the model of all workspaces   *)
(* is taken for an invisible one                                           *)
ModelAddUnseen(d, m, w) == [d EXCEPT !.ws[w] = m]

ModelAddAllHidden(d, m, w) ==
    [d EXCEPT !.ws[w] = m,
              !.hidden = IF m \in d.visible THEN @ \ {w} ELSE @ \cup {w}]

(* WorkspaceModel::addSurface and removeSurface; the model of all          *)
(* workspaces is always visible.                                           *)
ModelAddSurface(d, m, w) ==
    [d EXCEPT !.ws[w] = m,
              !.hidden = IF m \in d.visible \cup {AllId} THEN @ \ {w}
                                                         ELSE @ \cup {w}]

ModelRemoveSurface(d, m, w) ==
    [d EXCEPT !.ws[w] = NoId, !.hidden = @ \ {w},
              !.history[m] = Without(@, w)]

(* Without show-desktop a window is minimized iff it lacks UnMinimized.    *)
RequestCancelMinimize(d, w) ==
    IF "UnMinimized" \in d.caps[w] THEN d
    ELSE UpdateHasActiveCapability(d, w, "UnMinimized", TRUE)

ForceActivateSurface(d, w) ==
    LET c == RequestCancelMinimize(d, w)
        s == IF ShowOnWorkspace(c, w, Current(c)) THEN c
             ELSE SwitchTo(c, ModelIndexOfSurface(c, w))
    IN  IF w = NoWindow \/ d.life[w] # "open" THEN d
        ELSE IF "MappedOrSplash" \notin c.caps[w] THEN c
        ELSE ActivateSurface(s, w)

MoveSurface(d, w, m) ==
    LET r == ModelRemoveSurface(d, d.ws[w], w)
        f == IF w \in d.flagged THEN ActivateLatest(r) ELSE r
        t == ModelAddSurface(f, m, w)
    IN  IF d.ws[w] = m THEN d
        ELSE IF HasActiveCapability(t, w) THEN RequestActive(t, w)
        ELSE t

(* The orders a history can have: the windows once each, in any order.     *)
Orders == {h \in UNION {[1 .. n -> Windows] : n \in 0 .. Cardinality(Windows)} :
              \A i, j \in DOMAIN h : h[i] = h[j] => i = j}

Before(h, x, y) == \E i, j \in DOMAIN h : i < j /\ h[i] = x /\ h[j] = y

(* old after the windows in moved were pushed on it in some order          *)
PushedOver(old, moved) ==
    {h \in Orders :
        /\ Range(h) = Range(old) \cup moved
        /\ \A x \in moved, y \in Range(old) \ moved : Before(h, x, y)
        /\ \A x, y \in Range(old) \ moved : Before(old, x, y) => Before(h, x, y)}

(* doRemoveModel: its windows go to the workspace that is current then, in *)
(* the order of the model's list; the capable ones are pushed there (h).   *)
WithoutModel(d, i) ==
    LET rest == RemoveAt(d.models, i + 1)
    IN  [d EXCEPT !.models = rest,
                  !.visible = @ \ {d.models[i + 1]},
                  !.history[d.models[i + 1]] = <<>>,
                  !.currentIndex = IF @ # i THEN IndexOf(rest, Current(d))
                                   ELSE IF @ < Len(rest) THEN @
                                   ELSE Len(rest) - 1]

DoRemoveModel(d, i, h) ==
    LET moved == {w \in Windows : d.ws[w] = d.models[i + 1]}
        e == WithoutModel(d, i)
        cur == Current(e)
        g == [e EXCEPT !.ws = [w \in Windows |-> IF w \in moved THEN cur ELSE @[w]],
                       !.hidden = IF cur \in e.visible THEN @ \ moved
                                                       ELSE @ \cup moved,
                       !.history[cur] = h]
    IN  ShowOnlyCurrent(ActivateLatest(g))

(* QList::move of the model at index f to index t                          *)
MoveRow(s, f, t) ==
    [j \in 1 .. Len(s) |-> IF j = t + 1 THEN s[f + 1]
                           ELSE IF f < j /\ j <= t THEN s[j + 1]
                           ELSE IF t + 1 < j /\ j <= f + 1 THEN s[j - 1]
                           ELSE s[j]]

DoMoveModel(d, f, t) ==
    LET moved == MoveRow(d.models, f, t)
    IN  [d EXCEPT !.models = moved, !.currentIndex = IndexOf(moved, Current(d))]

-----------------------------------------------------------------------------
(* Mutant: the configured index is one past the configured models          *)
InitPastTheEnd ==
    /\ models = [i \in 1 .. NumWorkspace |-> i - 1]
    /\ currentIndex = NumWorkspace
    /\ nextId = NumWorkspace
    /\ visible = {}
    /\ hidden = {}
    /\ ws = [w \in Windows |-> NoId]
    /\ history = [m \in Ids \cup {AllId} |-> <<>>]
    /\ caps = [w \in Windows |-> {"UnMinimized"}]
    /\ life = [w \in Windows |-> "new"]
    /\ activated = NoWindow
    /\ flagged = {}
    /\ mode = "Normal"

Init ==
    /\ models = [i \in 1 .. NumWorkspace |-> i - 1]
    /\ currentIndex \in 0 .. NumWorkspace - 1
    /\ nextId = NumWorkspace
    /\ visible = {currentIndex}
    /\ hidden = {}
    /\ ws = [w \in Windows |-> NoId]
    /\ history = [m \in Ids \cup {AllId} |-> <<>>]
    /\ caps = [w \in Windows |-> {"UnMinimized"}]
    /\ life = [w \in Windows |-> "new"]
    /\ activated = NoWindow
    /\ flagged = {}
    /\ mode = "Normal"

-----------------------------------------------------------------------------
(* Windows come, go, map and minimize, whatever the mode.                  *)

(* ensureXdgWrapper: the new wrapper joins the current workspace, then its *)
(* watcher is connected; the client has not mapped it yet.                 *)
OpenWindow(w) ==
    /\ life[w] = "new"
    /\ LET a == ModelAddSurface(desk, Current(desk), w)
       IN  Become([a EXCEPT !.life[w] = "open",
                            !.caps[w] = @ \cup {"HasInitializeContainer"}])

(* onMappedChanged, when the client maps or unmaps the surface             *)
MapWindow(w) ==
    /\ life[w] = "open" /\ "MappedOrSplash" \notin caps[w]
    /\ Become(UpdateHasActiveCapability(desk, w, "MappedOrSplash", TRUE))

UnmapWindow(w) ==
    /\ life[w] = "open" /\ "MappedOrSplash" \in caps[w]
    /\ Become(UpdateHasActiveCapability(desk, w, "MappedOrSplash", FALSE))

Minimize(w) ==
    /\ life[w] = "open" /\ "UnMinimized" \in caps[w]
    /\ Become(UpdateHasActiveCapability(desk, w, "UnMinimized", FALSE))

CancelMinimize(w) ==
    /\ life[w] = "open"
    /\ Become(RequestCancelMinimize(desk, w))

(* destroyForSurface: markWrapperToRemoved, then Workspace::removeSurface  *)
(* drops the container flag before it takes the window out of its model.   *)
RemoveWindow(w) ==
    /\ life[w] = "open"
    /\ LET r == UpdateHasActiveCapability([desk EXCEPT !.life[w] = "removed"],
                                          w, "HasInitializeContainer", FALSE)
       IN  Become(ModelRemoveSurface(r, ws[w], w))

(* A popup of w becomes capable: its toplevel is activated, capable or not *)
PopupActive(w) ==
    /\ "popup" \in Uses
    /\ life[w] = "open" /\ ShowOnWorkspace(desk, w, Current(desk))
    /\ Become(ActivateSurface(desk, w))

(* A layer surface (dock, launcher) that could be activated is unmapped    *)
LayerInactive == Become(ActivateLatest(desk))

-----------------------------------------------------------------------------
(* The user and the dock activate windows.                                 *)

(* The desktop takes pointer events: no overlay covers the windows.        *)
Desktop == mode \in {"Normal", "WindowSwitch"}

(* afterHandleEvent: a press on a window that is shown                     *)
ClickWindow(w) ==
    /\ Desktop
    /\ HasActiveCapability(desk, w) /\ w \notin hidden
    /\ Become(ActivateSurface(desk, w))

(* unacceptedEvent: a press no window took                                 *)
ClickEmpty == Desktop /\ Become(ActivateSurface(desk, NoWindow))

(* The dock or a foreign-toplevel client asks for the window, in any mode. *)
ForceActivate(w) ==
    /\ life[w] = "open"
    /\ Become(ForceActivateSurface(desk, w))

(* taskswitchAction within 150 ms of the key: the second of the history    *)
QuickSwitch ==
    /\ Desktop
    /\ Len(history[Current(desk)]) >= 2
    /\ Become(ForceActivateSurface(desk, history[Current(desk)][2]))

-----------------------------------------------------------------------------
(* The user changes workspaces.                                            *)

(* Shortcuts: not while the screen is locked (onActionTrigger)             *)
SwitchWorkspace(i) ==
    /\ mode # "LockScreen"
    /\ i \in 0 .. Len(models) - 1
    /\ Become(SwitchTo(desk, i))

(* finishWorkspaceSwipe sets the index in any mode and activates nothing   *)
SwipeWorkspace(i) ==
    /\ "swipe" \in Uses
    /\ i \in {currentIndex - 1, currentIndex + 1} \cap 0 .. Len(models) - 1
    /\ Become(SetCurrentIndex(desk, i))

(* The new model starts from the history of the on-all-workspaces model.   *)
CreateModel ==
    /\ mode # "LockScreen"
    /\ nextId < MaxId
    /\ Become([desk EXCEPT !.models = Append(@, nextId),
                           !.nextId = @ + 1,
                           !.history[nextId] = history[AllId]])

RemoveModel(i) ==
    /\ mode # "LockScreen"
    /\ Len(models) > 1 /\ i \in 0 .. Len(models) - 1
    /\ LET e == WithoutModel(desk, i)
           capable == {w \in Windows : /\ ws[w] = models[i + 1]
                                       /\ HasActiveCapability(desk, w)}
       IN  \E h \in PushedOver(e.history[Current(e)], capable) :
               Become(DoRemoveModel(desk, i, h))

MoveModelTo(f, t) ==
    /\ mode = "Multitaskview"
    /\ f \in 0 .. Len(models) - 1 /\ t \in 0 .. Len(models) - 1
    /\ Become(DoMoveModel(desk, f, t))

(* The window menu and the multitask view                                  *)
MoveSurfaceTo(w, m) ==
    /\ mode # "LockScreen"
    /\ life[w] = "open"
    /\ m \in ModelIds(desk) \cup (IF "pin" \in Uses THEN {AllId} ELSE {})
    /\ Become(MoveSurface(desk, w, m))

-----------------------------------------------------------------------------
(* Modes.  Locking, its callers and the overlays' own state are the        *)
(* subject of ScreenLock; here they only block and release activation.     *)

EnterWindowSwitch ==
    /\ "WindowSwitch" \in Uses /\ mode = "Normal"
    /\ Become([desk EXCEPT !.mode = "WindowSwitch"])

(* Releasing Alt or Meta: mode first, then the switcher activates its item *)
ExitWindowSwitch(w) ==
    /\ mode = "WindowSwitch"
    /\ w \in {v \in Windows : ShowOnWorkspace(desk, v, Current(desk))}
    /\ Become(ForceActivateSurface([desk EXCEPT !.mode = "Normal"], w))

EnterMultitaskview ==
    /\ "Multitaskview" \in Uses /\ mode \in {"Normal", "Multitaskview"}
    /\ LET n == ActivateSurface(desk, NoWindow)
       IN  Become([n EXCEPT !.mode = "Multitaskview"])

(* Multitaskview::exit unblocks activation before it activates.            *)
LeaveMultitaskview(d, w) ==
    LET n == [d EXCEPT !.mode = "Normal"]
    IN  ForceActivateSurface(n, IF w = NoWindow THEN LatestActiveSurface(n)
                                                ELSE w)

ExitMultitaskview(w) ==
    /\ mode = "Multitaskview"
    /\ Become(LeaveMultitaskview(desk, w))

(* showLockScreen: the multitask view is left before the mode is set       *)
LockScreen ==
    /\ "LockScreen" \in Uses /\ mode # "LockScreen"
    /\ LET n == IF mode = "Multitaskview" THEN LeaveMultitaskview(desk, NoWindow)
                                          ELSE desk
       IN  Become([n EXCEPT !.mode = "LockScreen"])

(* The unlock callback gives m_activatedSurface the focus, activates none. *)
Unlock ==
    /\ mode = "LockScreen"
    /\ Become([desk EXCEPT !.mode = "Normal"])

(* SessionManager::removeSession of the active session                     *)
RemoveSession ==
    /\ "session" \in Uses
    /\ LET c == [desk EXCEPT !.history = [m \in DOMAIN history |-> <<>>]]
       IN  Become(ActivateSurface(c, NoWindow))

-----------------------------------------------------------------------------
Next ==
    \/ \E w \in Windows :
          \/ OpenWindow(w)
          \/ MapWindow(w)
          \/ UnmapWindow(w)
          \/ Minimize(w)
          \/ CancelMinimize(w)
          \/ RemoveWindow(w)
          \/ PopupActive(w)
          \/ ClickWindow(w)
          \/ ForceActivate(w)
          \/ ExitWindowSwitch(w)
    \/ \E w \in Windows : \E m \in Ids \cup {AllId} : MoveSurfaceTo(w, m)
    \/ \E w \in Windows \cup {NoWindow} : ExitMultitaskview(w)
    \/ \E i \in Ids : SwitchWorkspace(i)
    \/ \E i \in Ids : SwipeWorkspace(i)
    \/ \E i \in Ids : RemoveModel(i)
    \/ \E f, t \in Ids : MoveModelTo(f, t)
    \/ CreateModel
    \/ LayerInactive
    \/ ClickEmpty
    \/ QuickSwitch
    \/ EnterWindowSwitch
    \/ EnterMultitaskview
    \/ LockScreen
    \/ Unlock
    \/ RemoveSession

Spec == Init /\ [][Next]_vars

-----------------------------------------------------------------------------
(* The state is well formed.  The part with content: there is always a     *)
(* current workspace, whatever models are removed or moved (the code       *)
(* dereferences current() without a test).                                 *)
TypeOK ==
    /\ desk \in Desks
    /\ Len(models) > 0
    /\ currentIndex \in 0 .. Len(models) - 1

(* No workspace is listed twice, and a removed or future one is not there. *)
ModelsDistinct ==
    /\ \A i, j \in DOMAIN models : models[i] = models[j] => i = j
    /\ \A i \in DOMAIN models : models[i] < nextId

(* A window is in a history at most once, so forward_list::remove and      *)
(* findNextActivedSurface see one entry per window.                        *)
HistoryNoDup ==
    \A m \in DOMAIN history : \A i, j \in DOMAIN history[m] :
        history[m][i] = history[m][j] => i = j

(* An open window is hidden exactly when it belongs to one workspace and   *)
(* that workspace is not the current one; setVisible, addSurface and       *)
(* removeSurface each keep their share of it.                              *)
HiddenIffElsewhere ==
    \A w \in Windows : life[w] = "open" =>
        (w \in hidden <=> ~ShowOnWorkspace(desk, w, Current(desk)))

(* The history of a workspace is exactly what it may fall back to: each    *)
(* window in it is shown there and can be activated, and no window that is *)
(* so is forgotten, whatever opened, moved or closed the others.           *)
HistoryExact ==
    \A m \in ModelIds(desk) :
        Range(history[m]) = {w \in Windows : /\ HasActiveCapability(desk, w)
                                             /\ ShowOnWorkspace(desk, w, m)}

(* While activation is never blocked, the activated window is the most     *)
(* recent of the current workspace: open, capable, and shown.              *)
ActivatedIsLatest ==
    activated # NoWindow => activated = LatestActiveSurface(desk)

(* The activated window was told so (its client draws it as active), even  *)
(* after its dialogs took and returned the activation.                     *)
ActivatedIsFlagged ==
    activated # NoWindow => activated \in flagged

(* helper.cpp setActivatedSurface: Q_ASSERT(showOnWorkspace(current)) -    *)
(* a window is only ever activated on the workspace the user looks at.     *)
ActivatesOnCurrent ==
    [][activated' # activated /\ activated' # NoWindow
          => ShowOnWorkspace(desk', activated', Current(desk'))]_vars

(* A window is activated only if it can be, which setActivate asserts      *)
(* (Q_ASSERT(!activate || hasActiveCapability())), and never behind an     *)
(* overlay: one mapped or raised behind the lock screen does not take over.*)
ActivatesAllowed ==
    [][activated' # activated /\ activated' # NoWindow
          => /\ HasActiveCapability(desk', activated')
             /\ mode' = mode => mode = "Normal"]_vars
=============================================================================

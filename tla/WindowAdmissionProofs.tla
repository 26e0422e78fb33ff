----------------------- MODULE WindowAdmissionProofs -----------------------
(***************************************************************************)
(* What the run of WindowAdmission shows on two windows, proved for any    *)
(* windows, applications and numbers of questions.  The invariants are not *)
(* inductive alone: a question must not replace the callback of another    *)
(* one (IdsBelow), and only a window with a wrapper has anything of one    *)
(* (Wrappered).                                                            *)
(***************************************************************************)
EXTENDS WindowAdmission, TLAPS

(* Splash items, flags and DDE connections are those of a wrapper; a       *)
(* listener is one of a wrapper or outlived it.                            *)
Wrappered ==
    LET wrappers == {w \in Windows : wrapped[w] > 0}
    IN  /\ splashItem \cup hideQueued \cup flagged \cup ddeHandled \subseteq wrappers
        /\ listening \subseteq wrappers \cup gone

(* The next question has an id of its own.                                 *)
IdsBelow == \A q \in requests : q.id < nextRequestId

IInv ==
    /\ TypeOK
    /\ OneSplashPerApp
    /\ NobodyForgotten
    /\ AnswersMatch
    /\ FlagIsTrue
    /\ Wrappered
    /\ IdsBelow

(* At the start there is neither window nor splash.                        *)
LEMMA InitHolds == Init => IInv
<1> SUFFICES ASSUME Init PROVE IInv
  OBVIOUS
<1> USE AdmissionAssumption
<1>1. TypeOK
  <2>1. /\ splashObjects \in [Apps -> 0 .. MaxObjects]
        /\ config \in [Apps -> ConfigStates]
        /\ prelaunch \in [Apps -> Nat]
        /\ wrapped \in [Windows -> Nat]
        /\ nextRequestId \in 1 .. MaxRequests + 1
    BY DEF Init, ConfigStates
  <2> QED  BY <2>1 DEF Init, TypeOK
<1>2. OneSplashPerApp /\ AnswersMatch /\ FlagIsTrue /\ Wrappered /\ IdsBelow
  BY DEF Init, OneSplashPerApp, AnswersMatch, FlagIsTrue, Wrappered, IdsBelow
<1>3. NobodyForgotten
  BY DEF Init, NobodyForgotten
<1> QED  BY <1>1, <1>2, <1>3 DEF IInv

-----------------------------------------------------------------------------
(* The types of the variables that splashes use, and of all others.        *)
SplashTypes ==
    /\ splashObjects \in [Apps -> 0 .. MaxObjects]
    /\ config \in [Apps -> ConfigStates]
    /\ waiting \subseteq Apps
    /\ pendingPrelaunch \subseteq Apps
    /\ prelaunch \in [Apps -> Nat]
    /\ closedSplash \subseteq Apps

WindowTypes ==
    /\ resolver \in BOOLEAN
    /\ nextRequestId \in 1 .. MaxRequests + 1
    /\ requests \subseteq Questions
    /\ callbacks \subseteq Questions
    /\ present \subseteq Windows
    /\ gone \subseteq Windows \ present
    /\ resolving \subseteq present
    /\ told \subseteq present
    /\ wrapped \in [Windows -> Nat]
    /\ mapped \subseteq present
    /\ splashItem \subseteq present
    /\ hideQueued \subseteq present
    /\ flagged \subseteq present
    /\ ddeSurface \subseteq present \cap DdeWindows
    /\ listening \subseteq Windows \ XWindows
    /\ ddeHandled \subseteq ddeSurface

LEMMA Types == TypeOK <=> SplashTypes /\ WindowTypes
BY DEF TypeOK, SplashTypes, WindowTypes

LEMMA TypesNext == TypeOK' <=> SplashTypes' /\ WindowTypes'
BY DEF TypeOK, SplashTypes, WindowTypes

(* What holds of windows, as one formula.                                  *)
WindowInv ==
    /\ WindowTypes
    /\ NobodyForgotten
    /\ AnswersMatch
    /\ FlagIsTrue
    /\ Wrappered
    /\ IdsBelow

(* A step that leaves the windows alone keeps what holds of them.          *)
LEMMA WindowsAlone ==
    ASSUME WindowInv,
           UNCHANGED <<askVars, worldVars, resolving, wrapperVars, mapped,
                       itemVars, ddeVars>>
    PROVE  WindowInv'
<1>1. WindowTypes'
  BY DEF WindowInv, WindowTypes, askVars, worldVars, wrapperVars, itemVars, ddeVars
<1>2. NobodyForgotten'
  BY DEF WindowInv, NobodyForgotten, Admitted, Refused, Asking, askVars,
         worldVars, wrapperVars
<1>3. AnswersMatch' /\ FlagIsTrue' /\ Wrappered' /\ IdsBelow'
  BY DEF WindowInv, AnswersMatch, FlagIsTrue, Wrappered, IdsBelow, askVars,
         worldVars, wrapperVars, itemVars, ddeVars
<1> QED  BY <1>1, <1>2, <1>3 DEF WindowInv

(* No order of requests, closings, timeouts and configurations makes a     *)
(* second splash of an application.                                        *)
LEMMA SplashKeeps ==
    ASSUME SplashTypes, OneSplashPerApp, SplashStep
    PROVE  SplashTypes' /\ OneSplashPerApp'
<1> USE DEF SplashTypes, OneSplashPerApp, ConfigStates
<1>1. PICK a \in Apps :
         \/ \E on, wanted \in BOOLEAN : RequestSplash(a, on, wanted)
         \/ \E outcome \in {"loaded", "failed"}, wanted \in BOOLEAN :
               ConfigInitialized(a, outcome, wanted)
         \/ LauncherClosesSplash(a)
         \/ UserClosesSplash(a)
         \/ SplashTimeout(a)
  BY DEF SplashStep
<1>2. ASSUME NEW on \in BOOLEAN, NEW wanted \in BOOLEAN,
             RequestSplash(a, on, wanted)
      PROVE  SplashTypes' /\ OneSplashPerApp'
  <2>1. splashObjects' \in [Apps -> 0 .. MaxObjects] /\ UNCHANGED closedSplash
    BY <1>2, AdmissionAssumption DEF RequestSplash
  <2>2. CASE ~on \/ Duplicate(a)
    BY <1>2, <2>1, <2>2 DEF RequestSplash, SkipSplash
  <2>3. CASE ~(~on \/ Duplicate(a))
    <3>1. prelaunch[a] = 0 /\ a \notin pendingPrelaunch
      BY <2>3 DEF Duplicate
    <3>2. WithSplashConfig(a, wanted)
      BY <1>2, <2>3 DEF RequestSplash
    <3> QED  BY <2>1, <3>1, <3>2 DEF WithSplashConfig, CreateSplash, SkipSplash
  <2> QED  BY <2>2, <2>3
<1>3. ASSUME NEW outcome \in {"loaded", "failed"}, NEW wanted \in BOOLEAN,
             ConfigInitialized(a, outcome, wanted)
      PROVE  SplashTypes' /\ OneSplashPerApp'
  <2>1. /\ config' = [config EXCEPT ![a] = outcome]
        /\ waiting' = waiting \ {a}
        /\ UNCHANGED <<splashObjects, closedSplash>>
        /\ \/ a \in pendingPrelaunch /\ CreateSplash(a)
           \/ SkipSplash(a)
           \/ /\ a \notin waiting \/ a \notin pendingPrelaunch
              /\ UNCHANGED <<prelaunch, pendingPrelaunch>>
    BY <1>3 DEF ConfigInitialized
  <2>2. CASE a \in pendingPrelaunch /\ CreateSplash(a)
    BY <2>1, <2>2 DEF CreateSplash
  <2>3. CASE SkipSplash(a)
    BY <2>1, <2>3 DEF SkipSplash
  <2>4. CASE /\ a \notin waiting \/ a \notin pendingPrelaunch
             /\ UNCHANGED <<prelaunch, pendingPrelaunch>>
    BY <2>1, <2>4
  <2> QED  BY <2>1, <2>2, <2>3, <2>4
<1>4. CASE LauncherClosesSplash(a)
  <2>1. /\ prelaunch' \in [Apps -> Nat] /\ prelaunch'[a] <= prelaunch[a]
        /\ \A b \in Apps \ {a} : prelaunch'[b] = prelaunch[b]
        /\ pendingPrelaunch' = pendingPrelaunch \ {a}
        /\ UNCHANGED <<config, waiting, closedSplash>>
    BY <1>4 DEF LauncherClosesSplash
  <2>2. splashObjects' \in [Apps -> 0 .. MaxObjects]
    BY <1>4, AdmissionAssumption DEF LauncherClosesSplash
  <2> QED  BY <2>1, <2>2
<1>5. CASE UserClosesSplash(a) \/ SplashTimeout(a)
  BY <1>5 DEF UserClosesSplash, SplashTimeout
<1> QED  BY <1>1, <1>2, <1>3, <1>4, <1>5

(* The splashes' steps leave the windows alone.                            *)
LEMMA SplashAlone ==
    ASSUME SplashStep
    PROVE  UNCHANGED <<askVars, worldVars, resolving, wrapperVars, mapped,
                       itemVars, ddeVars>>
BY DEF SplashStep, RequestSplash, ConfigInitialized, LauncherClosesSplash,
       UserClosesSplash, SplashTimeout

-----------------------------------------------------------------------------
(* A new wrapper for windows that are there and have none.                 *)
LEMMA WrapNewKeeps ==
    ASSUME WindowTypes, FlagIsTrue, Wrappered, NEW S \in SUBSET Windows,
           WrapNew(S), present' \subseteq Windows, S \subseteq present',
           present \subseteq present', UNCHANGED <<gone, mapped>>
    PROVE  /\ wrapped' \in [Windows -> Nat] /\ told' = told
           /\ \A w \in S : wrapped'[w] = wrapped[w] + 1
           /\ \A w \in Windows \ S : wrapped'[w] = wrapped[w]
           /\ ddeSurface' = ddeSurface
           /\ listening' \subseteq Windows \ XWindows
           /\ ddeHandled' \subseteq ddeSurface
           /\ FlagIsTrue' /\ Wrappered'
<1>1. /\ wrapped' \in [Windows -> Nat] /\ told' = told
      /\ \A w \in S : wrapped'[w] = wrapped[w] + 1
      /\ \A w \in Windows \ S : wrapped'[w] = wrapped[w]
      /\ ddeSurface' = ddeSurface
      /\ UNCHANGED <<splashItem, hideQueued, flagged>>
  BY DEF WrapNew, WindowTypes, Connect, itemVars
<1>2. /\ listening' \subseteq Windows \ XWindows
      /\ listening' \subseteq listening \cup S
      /\ ddeHandled' = ddeHandled \cup (S \cap ddeSurface)
  BY DEF WrapNew, WindowTypes, Connect
<1>3. FlagIsTrue'
  BY <1>1 DEF FlagIsTrue
<1>4. \A w \in Windows : wrapped[w] > 0 \/ w \in S => wrapped'[w] > 0
  BY <1>1 DEF WindowTypes
<1>5. Wrappered'
  BY <1>1, <1>2, <1>4 DEF Wrappered
<1> QED  BY <1>1, <1>2, <1>3, <1>5 DEF WindowTypes

(* A new window gets a wrapper or joins the list with a callback.          *)
LEMMA AddedKeeps ==
    ASSUME WindowInv, NEW w \in Windows, NEW usable \in BOOLEAN,
           WindowAdded(w, usable)
    PROVE  WindowInv'
<1> USE DEF WindowInv
<1>1. /\ w \notin present /\ w \notin gone
      /\ present' = present \cup {w}
      /\ UNCHANGED <<gone, mapped>>
  BY DEF WindowAdded
<1>2. wrapped[w] = 0
  BY <1>1 DEF NobodyForgotten
<1>3. CASE /\ resolver
           /\ Ask(w)
           /\ resolving' = resolving \cup {w}
           /\ UNCHANGED <<wrapperVars, itemVars, ddeVars>>
  <2> DEFINE q == [id |-> nextRequestId, window |-> w]
  <2>1. /\ nextRequestId <= MaxRequests
        /\ nextRequestId' = nextRequestId + 1
        /\ requests' = requests \cup {q}
        /\ callbacks' = {c \in callbacks : c.id # nextRequestId} \cup {q}
        /\ UNCHANGED resolver
    BY <1>3 DEF Ask, AdvanceId
  <2>2. callbacks' = callbacks \cup {q}
    BY <2>1 DEF AnswersMatch, IdsBelow, WindowTypes
  <2>3. q \in Questions
    BY <2>1 DEF WindowTypes, Questions
  <2>4. UNCHANGED <<told, wrapped, splashItem, hideQueued, flagged, ddeSurface,
                    listening, ddeHandled>>
    BY <1>3 DEF wrapperVars, itemVars, ddeVars
  <2>5. WindowTypes'
    <3>1. nextRequestId' \in 1 .. MaxRequests + 1
      BY <2>1, AdmissionAssumption DEF WindowTypes
    <3> QED  BY <1>1, <1>3, <2>1, <2>2, <2>3, <2>4, <3>1 DEF WindowTypes
  <2>6. NobodyForgotten'
    <3>1. callbacks \subseteq callbacks' /\ \E c \in callbacks' : c.window = w
      <4>1. q \in callbacks' /\ q.window = w
        BY <2>2
      <4> QED  BY <2>2, <4>1
    <3>2. w \notin told /\ told' = told /\ wrapped' = wrapped
      BY <1>1, <2>4 DEF WindowTypes
    <3>3. Asking(w)'
      BY <1>2, <1>3, <3>1, <3>2 DEF Asking
    <3>4. ASSUME NEW v \in present
          PROVE  Admitted(v)' \/ Refused(v)' \/ Asking(v)'
      <4>1. v # w /\ (v \in resolving' <=> v \in resolving)
        BY <1>1, <1>3
      <4> QED  BY <3>1, <3>2, <4>1 DEF NobodyForgotten, Admitted, Refused,
                  Asking, WindowTypes
    <3> QED  BY <1>1, <3>2, <3>3, <3>4 DEF NobodyForgotten
  <2>7. \A r \in requests : r.id # q.id
    BY <2>3 DEF IdsBelow, WindowTypes, Questions
  <2>8. resolver
    BY <1>3
  <2>9. AnswersMatch' /\ IdsBelow'
    BY <2>1, <2>2, <2>7, <2>8 DEF AnswersMatch, IdsBelow, WindowTypes, Questions
  <2>10. FlagIsTrue' /\ Wrappered'
    BY <1>1, <2>4 DEF FlagIsTrue, Wrappered
  <2> QED  BY <2>5, <2>6, <2>9, <2>10
<1>4. CASE WrapNew({w}) /\ UNCHANGED <<askVars, resolving>>
  <2>1. /\ wrapped' \in [Windows -> Nat] /\ told' = told
        /\ wrapped'[w] = wrapped[w] + 1
        /\ \A v \in Windows \ {w} : wrapped'[v] = wrapped[v]
        /\ ddeSurface' = ddeSurface
        /\ listening' \subseteq Windows \ XWindows
        /\ ddeHandled' \subseteq ddeSurface
        /\ FlagIsTrue' /\ Wrappered'
    BY <1>1, <1>4, WrapNewKeeps DEF WindowTypes
  <2>2. UNCHANGED <<splashItem, hideQueued, flagged>>
    BY <1>4 DEF WrapNew, itemVars
  <2>3. UNCHANGED <<resolver, nextRequestId, requests, callbacks, resolving>>
    BY <1>4 DEF askVars
  <2>4. WindowTypes'
    BY <1>1, <2>1, <2>2, <2>3 DEF WindowTypes
  <2>5. NobodyForgotten'
    <3>1. Admitted(w)'
      BY <1>1, <1>2, <2>1, <2>3 DEF Admitted, WindowTypes
    <3>2. ASSUME NEW v \in present
          PROVE  Admitted(v)' \/ Refused(v)' \/ Asking(v)'
      BY <1>1, <2>1, <2>3 DEF NobodyForgotten, Admitted, Refused, Asking,
         WindowTypes
    <3> QED  BY <1>1, <2>1, <3>1, <3>2 DEF NobodyForgotten
  <2>6. AnswersMatch' /\ IdsBelow'
    BY <2>3 DEF AnswersMatch, IdsBelow
  <2> QED  BY <2>1, <2>4, <2>5, <2>6
<1> QED  BY <1>3, <1>4 DEF WindowAdded

(* A window that goes takes its wrapper or its place on the list along.    *)
LEMMA RemovedKeeps ==
    ASSUME WindowInv, NEW w \in Windows, WindowRemoved(w)
    PROVE  WindowInv'
<1> USE DEF WindowInv
<1>1. /\ w \in present /\ present' = present \ {w}
      /\ gone' = IF w \in XWindows THEN gone ELSE gone \cup {w}
      /\ mapped' = mapped \ {w} /\ told' = told \ {w}
      /\ ddeSurface' = ddeSurface \ {w}
      /\ UNCHANGED <<resolver, nextRequestId, requests, callbacks, listening>>
  BY DEF WindowRemoved, askVars
<1>2. CASE wrapped[w] = 0 /\ CancelResolve(w)
           /\ UNCHANGED <<config, wrapped, itemVars, ddeHandled>>
  <2>1. /\ resolving' = resolving \ {w}
        /\ UNCHANGED <<wrapped, splashItem, hideQueued, flagged, ddeHandled>>
    BY <1>2 DEF CancelResolve, itemVars
  <2>2. w \notin splashItem \cup hideQueued \cup flagged \cup ddeHandled
    BY <1>2 DEF Wrappered
  <2>3. WindowTypes'
    BY <1>1, <2>1, <2>2 DEF WindowTypes
  <2>4. NobodyForgotten'
    BY <1>1, <1>2, <2>1 DEF NobodyForgotten, Admitted, Refused, Asking,
       WindowTypes
  <2>5. AnswersMatch' /\ IdsBelow' /\ FlagIsTrue' /\ Wrappered'
    BY <1>1, <2>1, <2>2 DEF AnswersMatch, IdsBelow, FlagIsTrue, Wrappered
  <2> QED  BY <2>3, <2>4, <2>5
<1>3. CASE /\ wrapped[w] > 0
           /\ wrapped' = [wrapped EXCEPT ![w] = @ - 1]
           /\ splashItem' = splashItem \ {w}
           /\ hideQueued' = hideQueued \ {w}
           /\ flagged' = flagged \ {w}
           /\ ddeHandled' = ddeHandled \ {w}
           /\ UNCHANGED resolving
  <2>1. wrapped[w] = 1 /\ w \notin resolving
    BY <1>1, <1>3 DEF NobodyForgotten, Admitted, Refused, Asking
  <2>2. wrapped' \in [Windows -> Nat] /\ wrapped'[w] = 0
        /\ \A v \in Windows \ {w} : wrapped'[v] = wrapped[v]
    BY <1>3, <2>1 DEF WindowTypes
  <2>3. WindowTypes'
    BY <1>1, <1>3, <2>1, <2>2 DEF WindowTypes
  <2>4. NobodyForgotten'
    BY <1>1, <1>3, <2>1, <2>2 DEF NobodyForgotten, Admitted, Refused, Asking,
       WindowTypes
  <2>5. AnswersMatch' /\ IdsBelow' /\ FlagIsTrue'
    BY <1>1, <1>3 DEF AnswersMatch, IdsBelow, FlagIsTrue
  <2>6. Wrappered'
    BY <1>1, <1>3, <2>2 DEF Wrappered, WindowTypes
  <2> QED  BY <2>3, <2>4, <2>5, <2>6
<1> QED  BY <1>2, <1>3 DEF WindowRemoved

-----------------------------------------------------------------------------
(* A callback belongs to the window the resolver was asked about.          *)
LEMMA AnswerIsForAsker ==
    ASSUME AnswersMatch, NEW q \in requests, NEW c \in callbacks, c.id = q.id
    PROVE  c = q
BY DEF AnswersMatch

(* What ensureXdgWrapper does to the windows, for any outcome.             *)
LEMMA EnsureOutcome ==
    ASSUME WindowInv, NEW w \in resolving, NEW a \in Apps,
           EnsureWrapper(w, a), UNCHANGED <<present, gone, mapped>>
    PROVE  /\ wrapped' \in [Windows -> Nat]
           /\ \A v \in Windows \ {w} : wrapped'[v] = wrapped[v]
           /\ \/ told' = told /\ wrapped'[w] = wrapped[w] + 1
              \/ told' = told \cup {w} /\ wrapped'[w] = wrapped[w]
           /\ splashItem' \cup hideQueued' \cup flagged' \subseteq present
           /\ ddeSurface' = ddeSurface
           /\ listening' \subseteq Windows \ XWindows
           /\ ddeHandled' \subseteq ddeSurface
           /\ FlagIsTrue' /\ Wrappered'
<1> USE DEF WindowInv
<1>1. CASE UNCHANGED <<wrapped, itemVars, ddeVars>> /\ told' = told \cup {w}
  BY <1>1 DEF WindowTypes, FlagIsTrue, Wrappered, itemVars, ddeVars
<1>2. CASE TakeSplash(w)
  <2>1. /\ wrapped' \in [Windows -> Nat] /\ wrapped'[w] = wrapped[w] + 1
        /\ \A v \in Windows \ {w} : wrapped'[v] = wrapped[v]
        /\ splashItem' = splashItem \cup {w}
        /\ flagged' = flagged \cup {w}
        /\ hideQueued' = hideQueued \cup ({w} \cap mapped)
        /\ told' = told
    BY <1>2 DEF TakeSplash, QueueOnTake, WindowTypes
  <2>2. /\ ddeSurface' = ddeSurface
        /\ listening' \subseteq Windows \ XWindows
        /\ listening' \subseteq listening \cup {w}
        /\ ddeHandled' = ddeHandled \cup ({w} \cap ddeSurface)
    BY <1>2 DEF TakeSplash, Connect, WindowTypes
  <2>3. FlagIsTrue'
    BY <2>1 DEF FlagIsTrue
  <2>4. \A v \in Windows : wrapped[v] > 0 \/ v = w => wrapped'[v] > 0
    BY <2>1 DEF WindowTypes
  <2>5. Wrappered'
    BY <2>1, <2>2, <2>4 DEF Wrappered, WindowTypes
  <2> QED  BY <2>1, <2>2, <2>3, <2>5 DEF WindowTypes
<1>3. CASE WrapNew({w})
  BY <1>3, WrapNewKeeps DEF WrapNew, itemVars, WindowTypes
<1> QED  BY <1>1, <1>2, <1>3 DEF EnsureWrapper

(* An answer admits or refuses the window that asked, or nobody.           *)
LEMMA AnswerKeeps ==
    ASSUME WindowInv, NEW q \in requests, NEW a \in Apps \cup {NoApp},
           Answer(q, a)
    PROVE  WindowInv'
<1> USE DEF WindowInv
<1>1. PICK c \in callbacks :
         /\ c.id = q.id
         /\ callbacks' = callbacks \ {c}
         /\ resolving' = resolving \ {c.window}
         /\ \/ /\ c.window \notin resolving
               /\ UNCHANGED <<wrapperVars, itemVars, ddeVars>>
            \/ /\ c.window \in resolving
               /\ WrapNew({c.window})
            \/ /\ c.window \in resolving
               /\ a # NoApp
               /\ EnsureWrapper(c.window, a)
  BY DEF Answer, StillPending
<1> DEFINE w == c.window
<1>2. /\ UNCHANGED <<resolver, nextRequestId, requests, present, gone, mapped>>
      /\ w \in Windows
  BY DEF Answer, worldVars, WindowTypes, Questions
<1>3. AnswersMatch' /\ IdsBelow'
  BY <1>1, <1>2 DEF AnswersMatch, IdsBelow
<1>4. /\ wrapped' \in [Windows -> Nat]
      /\ \A v \in Windows \ {w} : wrapped'[v] = wrapped[v]
      /\ \/ w \notin resolving /\ told' = told /\ wrapped'[w] = wrapped[w]
         \/ w \in resolving /\ told' = told /\ wrapped'[w] = wrapped[w] + 1
         \/ /\ w \in resolving
            /\ told' = told \cup {w} /\ wrapped'[w] = wrapped[w]
      /\ splashItem' \cup hideQueued' \cup flagged' \subseteq present
      /\ ddeSurface' = ddeSurface
      /\ listening' \subseteq Windows \ XWindows
      /\ ddeHandled' \subseteq ddeSurface
      /\ FlagIsTrue' /\ Wrappered'
  <2>1. CASE w \notin resolving /\ UNCHANGED <<wrapperVars, itemVars, ddeVars>>
    BY <1>2, <2>1 DEF WindowTypes, FlagIsTrue, Wrappered, wrapperVars, itemVars,
       ddeVars
  <2>2. CASE w \in resolving /\ WrapNew({w})
    BY <1>2, <2>2, WrapNewKeeps DEF WrapNew, itemVars, WindowTypes
  <2>3. CASE w \in resolving /\ a # NoApp /\ EnsureWrapper(w, a)
    BY <1>2, <2>3, EnsureOutcome
  <2> QED  BY <1>1, <2>1, <2>2, <2>3
<1>5. WindowTypes'
  BY <1>1, <1>2, <1>4 DEF WindowTypes
<1>6. NobodyForgotten'
  <2>1. ASSUME NEW v \in present, v # w
        PROVE  Admitted(v)' \/ Refused(v)' \/ Asking(v)'
    <3>1. /\ wrapped'[v] = wrapped[v]
          /\ v \in resolving' <=> v \in resolving
          /\ v \in told' <=> v \in told
      BY <1>1, <1>4, <2>1 DEF WindowTypes
    <3>2. (\E d \in callbacks : d.window = v)
             => \E d \in callbacks' : d.window = v
      BY <1>1, <2>1
    <3> QED  BY <2>1, <3>1, <3>2 DEF NobodyForgotten, Admitted, Refused,
                Asking, WindowTypes
  <2>2. ASSUME w \in present
        PROVE  Admitted(w)' \/ Refused(w)'
    <3>1. w \notin resolving'
      BY <1>1
    <3> QED  BY <1>4, <2>2, <3>1 DEF NobodyForgotten, Admitted, Refused,
                Asking, WindowTypes
  <2>3. ASSUME NEW v \in Windows, v \notin present
        PROVE  wrapped'[v] = 0
    BY <1>4, <2>3 DEF NobodyForgotten, WindowTypes
  <2> QED  BY <1>2, <2>1, <2>2, <2>3 DEF NobodyForgotten
<1> QED  BY <1>3, <1>4, <1>5, <1>6

(* A resolver that comes has no questions; one that goes leaves nobody     *)
(* waiting.                                                                *)
LEMMA ResolverKeeps ==
    ASSUME WindowInv, ResolverBound \/ ResolverGone
    PROVE  WindowInv'
<1> USE DEF WindowInv
<1>1. CASE ResolverBound
  <2>1. /\ ~resolver /\ resolver' = TRUE /\ nextRequestId' = 1 /\ requests' = {}
        /\ UNCHANGED <<callbacks, present, gone, resolving, told, wrapped, mapped,
                       splashItem, hideQueued, flagged, ddeSurface, listening,
                       ddeHandled>>
    BY <1>1 DEF ResolverBound, worldVars, wrapperVars, itemVars, ddeVars
  <2>2. callbacks = {}
    BY <2>1 DEF AnswersMatch
  <2>3. 1 \in 1 .. MaxRequests + 1
    BY AdmissionAssumption
  <2>4. WindowTypes'
    BY <2>1, <2>3 DEF WindowTypes
  <2>5. NobodyForgotten'
    BY <2>1 DEF NobodyForgotten, Admitted, Refused, Asking
  <2>6. AnswersMatch' /\ IdsBelow' /\ FlagIsTrue' /\ Wrappered'
    BY <2>1, <2>2 DEF AnswersMatch, IdsBelow, FlagIsTrue, Wrappered
  <2> QED  BY <2>4, <2>5, <2>6
<1>2. CASE ResolverGone
  <2> DEFINE asked == {c.window : c \in callbacks} \cap resolving
  <2>1. /\ resolver' = FALSE /\ nextRequestId' = 1 /\ requests' = {}
        /\ callbacks' = {} /\ WrapNew(asked)
        /\ resolving' = resolving \ asked
        /\ UNCHANGED <<present, gone, mapped>>
    BY <1>2 DEF ResolverGone, worldVars
  <2>2. asked \subseteq present /\ asked \in SUBSET Windows
    BY DEF WindowTypes
  <2>3. /\ wrapped' \in [Windows -> Nat] /\ told' = told
        /\ \A w \in asked : wrapped'[w] = wrapped[w] + 1
        /\ \A w \in Windows \ asked : wrapped'[w] = wrapped[w]
        /\ ddeSurface' = ddeSurface
        /\ listening' \subseteq Windows \ XWindows
        /\ ddeHandled' \subseteq ddeSurface
        /\ FlagIsTrue' /\ Wrappered'
    <3> HIDE DEF asked
    <3> QED  BY <2>1, <2>2, WrapNewKeeps DEF WindowTypes
  <2>4. UNCHANGED <<splashItem, hideQueued, flagged>>
    BY <2>1 DEF WrapNew, itemVars
  <2>5. 1 \in 1 .. MaxRequests + 1
    BY AdmissionAssumption
  <2>6. WindowTypes'
    BY <2>1, <2>3, <2>4, <2>5 DEF WindowTypes
  <2>7. NobodyForgotten'
    <3>1. ASSUME NEW w \in present
          PROVE  Admitted(w)' \/ Refused(w)'
      <4>1. w \in resolving => w \in asked
        BY <3>1 DEF NobodyForgotten, Admitted, Refused, Asking, WindowTypes
      <4>2. w \notin resolving'
        BY <2>1, <4>1
      <4> QED  BY <2>3, <4>1, <4>2 DEF NobodyForgotten, Admitted, Refused,
                  Asking, WindowTypes
    <3>2. ASSUME NEW w \in Windows, w \notin present
          PROVE  wrapped'[w] = 0
      BY <2>2, <2>3, <3>2 DEF NobodyForgotten
    <3> QED  BY <2>1, <3>1, <3>2 DEF NobodyForgotten
  <2>8. AnswersMatch' /\ IdsBelow'
    BY <2>1 DEF AnswersMatch, IdsBelow
  <2> QED  BY <2>3, <2>6, <2>7, <2>8
<1> QED  BY <1>1, <1>2

-----------------------------------------------------------------------------
(* Mapping, unmapping and the queued call keep a splash and its flag in    *)
(* step.                                                                   *)
LEMMA SurfaceKeeps ==
    ASSUME WindowInv, NEW w \in Windows,
           SurfaceMapped(w) \/ SurfaceUnmapped(w) \/ HideSplash(w)
    PROVE  WindowInv'
<1> USE DEF WindowInv
<1>1. UNCHANGED <<resolver, nextRequestId, requests, callbacks, present, gone,
                  resolving, told, wrapped, ddeSurface, listening, ddeHandled>>
  BY DEF SurfaceMapped, SurfaceUnmapped, HideSplash, askVars, worldVars,
         wrapperVars, ddeVars
<1>2. NobodyForgotten' /\ AnswersMatch' /\ IdsBelow'
  BY <1>1 DEF NobodyForgotten, Admitted, Refused, Asking, AnswersMatch, IdsBelow
<1>3. CASE SurfaceMapped(w)
  <2>1. w \in splashItem => wrapped[w] > 0
    BY DEF Wrappered
  <2>2. WindowTypes' /\ FlagIsTrue' /\ Wrappered'
    BY <1>1, <1>3, <2>1 DEF SurfaceMapped, WindowTypes, FlagIsTrue, Wrappered
  <2> QED  BY <1>2, <2>2
<1>4. CASE SurfaceUnmapped(w)
  BY <1>1, <1>2, <1>4 DEF SurfaceUnmapped, WindowTypes, FlagIsTrue, Wrappered
<1>5. CASE HideSplash(w)
  <2>1. /\ w \in hideQueued /\ hideQueued' = hideQueued \ {w}
        /\ splashItem' = splashItem \ {w} /\ mapped' = mapped
        /\ flagged' \subseteq flagged \cup (mapped \cap {w})
        /\ flagged' \ {w} = flagged \ {w}
        /\ flagged' \cap {w} = flagged \cap {w}
              \/ flagged' \cap {w} = mapped \cap {w}
        /\ w \in splashItem => flagged' \cap {w} = mapped \cap {w}
    BY <1>5 DEF HideSplash
  <2>2. WindowTypes' /\ FlagIsTrue' /\ Wrappered'
    BY <1>1, <2>1 DEF WindowTypes, FlagIsTrue, Wrappered
  <2> QED  BY <1>2, <2>2
<1> QED  BY <1>3, <1>4, <1>5

(* A DDE shell surface is connected to the wrapper its listener was made   *)
(* for, or not at all.                                                     *)
LEMMA DdeKeeps ==
    ASSUME WindowInv, NEW w \in Windows, DdeSurfaceCreated(w)
    PROVE  WindowInv'
<1> USE DEF WindowInv
<1>1. UNCHANGED <<resolver, nextRequestId, requests, callbacks, present, gone,
                  resolving, told, wrapped, mapped, splashItem, hideQueued,
                  flagged>>
  BY DEF DdeSurfaceCreated, askVars, worldVars, wrapperVars, itemVars
<1>2. NobodyForgotten' /\ AnswersMatch' /\ IdsBelow' /\ FlagIsTrue'
  BY <1>1 DEF NobodyForgotten, Admitted, Refused, Asking, AnswersMatch,
     IdsBelow, FlagIsTrue
<1>3. /\ w \in present \cap DdeWindows
      /\ ddeSurface' = ddeSurface \cup {w}
      /\ \/ /\ w \in listening
            /\ ddeHandled' = ddeHandled \cup {w}
            /\ listening' = {}
         \/ UNCHANGED <<ddeHandled, listening>>
  BY DEF DdeSurfaceCreated
<1>4. WindowTypes'
  BY <1>1, <1>3 DEF WindowTypes
<1>5. w \in listening => wrapped[w] > 0
  BY <1>3 DEF Wrappered, WindowTypes
<1>6. Wrappered'
  BY <1>1, <1>3, <1>5 DEF Wrappered
<1> QED  BY <1>2, <1>4, <1>6

-----------------------------------------------------------------------------
(* What windows do to the splashes: they use one up, and read a            *)
(* configuration.                                                          *)
LEMMA WindowsUseSplashes ==
    ASSUME TypeOK, OneSplashPerApp, WindowStep \/ ResolverStep
    PROVE  SplashTypes' /\ OneSplashPerApp'
<1> USE DEF OneSplashPerApp
<1>1. SplashTypes
  BY Types
<1>2. CASE UNCHANGED splashVars
  BY <1>1, <1>2 DEF SplashTypes, splashVars
<1>3. ASSUME NEW w \in Windows, WindowRemoved(w)
      PROVE  SplashTypes' /\ OneSplashPerApp'
  <2>1. UNCHANGED config \/ SaveLastSize(AppOf[w])
    BY <1>3 DEF WindowRemoved
  <2>2. config' \in [Apps -> ConfigStates]
    BY <1>1, <2>1 DEF SplashTypes, SaveLastSize, ConfigStates
  <2> QED  BY <1>1, <1>3, <2>2 DEF WindowRemoved, SplashTypes
<1>4. ASSUME NEW w \in Windows, AnswerTo(w)
      PROVE  SplashTypes' /\ OneSplashPerApp'
  <2>1. PICK q \in requests, a \in {NoApp, AppOf[w]} : Answer(q, a)
    BY <1>4 DEF AnswerTo
  <2>2. UNCHANGED <<splashObjects, config, waiting>>
    BY <2>1 DEF Answer
  <2>3. CASE UNCHANGED <<pendingPrelaunch, prelaunch, closedSplash>>
    BY <1>1, <2>2, <2>3 DEF SplashTypes
  <2>4. ASSUME NEW v, a # NoApp, EnsureWrapper(v, a)
        PROVE  SplashTypes' /\ OneSplashPerApp'
    <3>1. a \in Apps
      BY <2>4, AdmissionAssumption
    <3>2. /\ pendingPrelaunch' \subseteq pendingPrelaunch
          /\ closedSplash' \subseteq closedSplash
          /\ prelaunch' \in [Apps -> Nat]
          /\ \A b \in Apps : prelaunch'[b] <= prelaunch[b]
      BY <1>1, <2>4, <3>1 DEF EnsureWrapper, UseUpClosed, SplashTypes
    <3> QED  BY <1>1, <2>2, <3>2 DEF SplashTypes
  <2> QED  BY <2>1, <2>3, <2>4 DEF Answer
<1>5. CASE WindowStep
  BY <1>2, <1>3, <1>5 DEF WindowStep, WindowAdded, SurfaceMapped,
     SurfaceUnmapped, HideSplash, DdeSurfaceCreated
<1>6. CASE ResolverStep
  BY <1>2, <1>4, <1>6 DEF ResolverStep, ResolverBound, ResolverGone
<1> QED  BY <1>5, <1>6

(* Every step keeps the whole invariant.                                   *)
LEMMA NextKeeps == IInv /\ [Next]_vars => IInv'
<1> SUFFICES ASSUME IInv, [Next]_vars
             PROVE  IInv'
  OBVIOUS
<1>1. SplashTypes /\ WindowInv /\ TypeOK /\ OneSplashPerApp
  BY Types DEF IInv, WindowInv
<1>2. SUFFICES SplashTypes' /\ OneSplashPerApp' /\ WindowInv'
  BY TypesNext DEF IInv, WindowInv
<1>3. CASE SplashStep
  BY <1>1, <1>3, SplashKeeps, SplashAlone, WindowsAlone
<1>4. CASE WindowStep
  <2>1. PICK w \in Windows :
           \/ \E usable \in BOOLEAN : WindowAdded(w, usable)
           \/ WindowRemoved(w)
           \/ SurfaceMapped(w) \/ SurfaceUnmapped(w) \/ HideSplash(w)
           \/ DdeSurfaceCreated(w)
    BY <1>4 DEF WindowStep
  <2>2. WindowInv'
    BY <1>1, <2>1, AddedKeeps, RemovedKeeps, SurfaceKeeps, DdeKeeps
  <2> QED  BY <1>1, <1>4, <2>2, WindowsUseSplashes
<1>5. CASE ResolverStep
  <2>1. ASSUME ResolverBound \/ ResolverGone
        PROVE  WindowInv'
    BY <1>1, <2>1, ResolverKeeps
  <2>2. ASSUME NEW w \in Windows, AnswerTo(w)
        PROVE  WindowInv'
    <3>1. PICK q \in requests, a \in {NoApp, AppOf[w]} : Answer(q, a)
      BY <2>2 DEF AnswerTo
    <3>2. a \in Apps \cup {NoApp}
      BY AdmissionAssumption
    <3> QED  BY <1>1, <3>1, <3>2, AnswerKeeps
  <2> QED  BY <1>1, <1>5, <2>1, <2>2, WindowsUseSplashes DEF ResolverStep
<1>6. CASE UNCHANGED vars
  <2>1. SplashTypes' /\ OneSplashPerApp'
    BY <1>1, <1>6 DEF vars, splashVars, SplashTypes, OneSplashPerApp
  <2> QED  BY <1>1, <1>6, <2>1, WindowsAlone DEF vars
<1> QED  BY <1>3, <1>4, <1>5, <1>6 DEF Next

LEMMA Inductive == SafeSpec => []IInv
BY InitHolds, NextKeeps, PTL DEF SafeSpec

-----------------------------------------------------------------------------
(* All variables stay in their ranges.                                     *)
THEOREM TypeCorrect == SafeSpec => []TypeOK
<1>1. IInv => TypeOK
  BY DEF IInv
<1> QED  BY <1>1, Inductive, PTL

(* However requests, closings, timeouts and windows follow each other, an  *)
(* application has one splash at most, and none while a request waits.     *)
THEOREM OneSplash == SafeSpec => []OneSplashPerApp
<1>1. IInv => OneSplashPerApp
  BY DEF IInv
<1> QED  BY <1>1, Inductive, PTL

(* Every window there is has one wrapper, was told to close, or has a      *)
(* callback that will decide: none is forgotten and none wrapped twice.    *)
THEOREM NoneForgotten == SafeSpec => []NobodyForgotten
<1>1. IInv => NobodyForgotten
  BY DEF IInv
<1> QED  BY <1>1, Inductive, PTL

(* No window is given the application of another one.                      *)
THEOREM AnswersRight == SafeSpec => []AnswersMatch
<1>1. IInv => AnswersMatch
  BY DEF IInv
<1> QED  BY <1>1, Inductive, PTL

(* The mapped-or-splash flag of a wrapper agrees with its surface and its  *)
(* splash, whenever the queued call comes.                                 *)
THEOREM FlagTrue == SafeSpec => []FlagIsTrue
<1>1. IInv => FlagIsTrue
  BY DEF IInv
<1> QED  BY <1>1, Inductive, PTL

(* Only a window whose own application's splash the user closed is told to *)
(* close, and each closed splash refuses one.                              *)
THEOREM RefusalsRight == SafeSpec => RefusesOnlyCancelled
<1> DEFINE Right == \A w \in told' \ told :
                       AppOf[w] \in closedSplash \ closedSplash'
<1>1. ASSUME IInv, [Next]_vars
      PROVE  Right
  <2>1. SUFFICES ASSUME NEW w, w \in told', w \notin told
                 PROVE  AppOf[w] \in closedSplash \ closedSplash'
    OBVIOUS
  <2>2. PICK v \in Windows : AnswerTo(v)
    BY <1>1, <2>1 DEF Next, SplashStep, RequestSplash, ConfigInitialized,
       LauncherClosesSplash, UserClosesSplash, SplashTimeout, WindowStep,
       WindowAdded, WrapNew, WindowRemoved, SurfaceMapped, SurfaceUnmapped,
       HideSplash, DdeSurfaceCreated, ResolverStep, ResolverBound,
       ResolverGone, wrapperVars, vars
  <2>3. PICK q \in requests :
           q.window = v /\ \E a \in {NoApp, AppOf[v]} : Answer(q, a)
    BY <2>2 DEF AnswerTo
  <2>4. PICK a \in {NoApp, AppOf[v]} : Answer(q, a)
    BY <2>3
  <2>5. PICK c \in callbacks :
           /\ c.id = q.id
           /\ told' = told \/ (a # NoApp /\ EnsureWrapper(c.window, a))
    BY <2>4 DEF Answer, wrapperVars, WrapNew
  <2>6. c = q
    BY <1>1, <2>5, AnswerIsForAsker DEF IInv
  <2>7. a = AppOf[v] /\ EnsureWrapper(v, a)
    BY <2>1, <2>3, <2>4, <2>5, <2>6
  <2> QED  BY <2>1, <2>7 DEF EnsureWrapper, UseUpClosed, TakeSplash, WrapNew
<1>2. IInv /\ [Next]_vars => [Right]_vars
  BY <1>1
<1> QED  BY <1>2, Inductive, PTL DEF SafeSpec, RefusesOnlyCancelled

=============================================================================

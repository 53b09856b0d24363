------------------------- MODULE WaylandPluginProofs -------------------------
(***************************************************************************)
(* Theorems about WaylandPlugin, for any windows, handles, tags, tiles and *)
(* bounds: what the compositor shows is what the application asked for,    *)
(* however surfaces come and go.                                           *)
(***************************************************************************)
EXTENDS WaylandPlugin, FiniteSetTheorems, WellFoundedInduction, TLAPS

-----------------------------------------------------------------------------
(* Induction, with a set in the place of the predicate                     *)

LEMMA LeastExists ==
  ASSUME NEW S \in SUBSET Nat, S # {}
  PROVE  \E i \in S : \A j \in S : i <= j
<1> DEFINE R == OpToRel(<, Nat)
<1>1. IsWellFoundedOn(R, Nat)
  BY NatLessThanWellFounded
<1>2. PICK x \in S : \A y \in S : ~(<<y, x>> \in R)
  <2> HIDE DEF R
  <2> QED BY <1>1, WFMin
<1>3. \A y \in S : ~(y < x)
  BY <1>2 DEF OpToRel
<1> QED BY <1>3

LEMMA NatSetInduction ==
  ASSUME NEW S, 0 \in S, \A n \in Nat : n \in S => n + 1 \in S
  PROVE  Nat \subseteq S
<1> DEFINE T == Nat \ S
<1>1. SUFFICES ASSUME T # {} PROVE FALSE
  OBVIOUS
<1>2. PICK x \in T : \A y \in T : x <= y
  <2>1. T \in SUBSET Nat
    OBVIOUS
  <2> HIDE DEF T
  <2> QED BY <1>1, <2>1, LeastExists
<1>3. x - 1 \in Nat \ T /\ x - 1 + 1 = x
  BY <1>2
<1> QED BY <1>2, <1>3

-----------------------------------------------------------------------------
(* The invariant: windows                                                  *)

QWindows == [alive : BOOLEAN, platform : Nat, surface : Nat, role : BOOLEAN, exposed : BOOLEAN]

WellFormed(q) ==
  /\ q.exposed => q.role
  /\ q.role => q.surface # 0
  /\ q.surface # 0 => q.platform # 0
  /\ q.platform # 0 => q.alive

\* Numbers of platform windows and surfaces are not used again.
WindowInv ==
  /\ topic.windows \subseteq Windows
  /\ window \in [Windows -> QWindows] /\ next \in Nat \ {0}
  /\ \A w \in Windows :
       WellFormed(window[w]) /\ window[w].platform < next /\ window[w].surface < next
  /\ \A v, w \in Windows :
       window[v].platform = window[w].platform /\ window[v].platform # 0 => v = w

-----------------------------------------------------------------------------
(* The invariant: effects                                                  *)

EffectObjects(D) == [surface : Nat, data : D \cup {None}]

EffectRecords ==
  [blurRegion : Blurs \cup {None}, contrastData : Contrasts \cup {None},
   slideData : Slides \cup {None}, blur : EffectObjects(Blurs),
   contrast : EffectObjects(Contrasts), background : EffectObjects(Blurs),
   slide : EffectObjects(Slides), watched : BOOLEAN, surfaceWatcher : Nat]

\* A window with effects is watched, and so is the platform window it has now.
Tracked(e, q) ==
  /\ e.watched <=> (e.blurRegion # None \/ e.contrastData # None \/ e.slideData # None)
  /\ ~e.watched => e.surfaceWatcher = 0
  /\ e.watched /\ q.platform # 0 => e.surfaceWatcher = q.platform
  /\ e.watched => q.alive

\* A blur object is for an effect that is wanted and for the surface there is now; what
\* a background effect says of an effect that is not wanted is nothing.
BlurBelongs(e, q) ==
  /\ e.blur # Nothing => e.blurRegion # None /\ e.blur.surface = q.surface /\ q.surface # 0
  /\ e.blurRegion = None => e.background.data = None
  /\ e.background.surface = 0 => e.background = Nothing

ContrastBelongs(e, q) ==
  e.contrast # Nothing => /\ e.contrastData # None
                          /\ e.contrast.surface = q.surface /\ q.surface # 0

\* n is the number that no surface has had.
SlideBelongs(e, q, n, available) ==
  /\ e.slideData = None /\ q.surface # 0 /\ e.slide.surface = q.surface => e.slide.data = None
  /\ e.slide.surface < n
  /\ "slide" \notin available => e.slide = Nothing

\* An exposed window has the effects that are wanted.
BlurInstalled(e, q, available, gone, supported) ==
  q.exposed /\ e.blurRegion # None =>
    /\ /\ "background" \in available \ gone /\ supported
       /\ e.background.surface \in {0, q.surface}
       => e.background = On(q.surface, e.blurRegion)
    /\ "blur" \in available /\ "background" \notin available \cup gone
         => e.blur = On(q.surface, e.blurRegion)

ContrastInstalled(e, q, available) ==
  q.exposed /\ "contrast" \in available /\ e.contrastData # None
    => e.contrast = On(q.surface, e.contrastData)

SlideInstalled(e, q, available) ==
  q.exposed /\ "slide" \in available /\ e.slideData # None
    => e.slide = On(q.surface, e.slideData)

\* All that holds of the effects e of the window q
EffectsRight(e, q, n, available, gone, supported) ==
  /\ e \in EffectRecords /\ Tracked(e, q)
  /\ BlurBelongs(e, q) /\ BlurInstalled(e, q, available, gone, supported)
  /\ ContrastBelongs(e, q) /\ ContrastInstalled(e, q, available)
  /\ SlideBelongs(e, q, n, available) /\ SlideInstalled(e, q, available)

EffectsInv ==
  /\ effects \in [Windows -> EffectRecords] /\ supportsBlur \in BOOLEAN
  /\ "background" \notin globals \cup lost => ~supportsBlur
  /\ \A w \in Windows :
       EffectsRight(effects[w], window[w], next, globals, lost, supportsBlur)

-----------------------------------------------------------------------------
(* The invariant: shadows                                                  *)

ShadowObjects ==
  [surface : Nat, images : [Slots -> Images \cup {Null}], padding : Paddings \cup {0}]
Shadows ==
  [window : Windows \cup {0}, tile : [Slots -> Tiles \cup {Null}], padding : Paddings \cup {0},
   isCreated : BOOLEAN, filtered : Windows \cup {0}, connected : SUBSET Nat,
   object : ShadowObjects]
TileRecords == [image : Images \cup {Null}, isCreated : BOOLEAN, buffer : Images \cup {Null}]

\* A tile that was created has a buffer with its image, or lost it.
Buffered(tile) ==
  tile.buffer \in {Null, tile.image} /\ (tile.buffer # Null => tile.isCreated)

\* The object is for a surface whose destruction it will hear of, and says what the
\* shadow says; the shadow and its tiles cannot be changed as long as it is there.
ObjectBelongs ==
  shadow.object # NoObject =>
    /\ shadow.isCreated /\ shadow.object.surface # 0
    /\ shadow.object.padding = shadow.padding
    /\ \A s \in Slots : shadow.object.images[s] =
         IF shadow.tile[s] = Null THEN Null ELSE tiles[shadow.tile[s]].image
    /\ \E w \in topic.windows : /\ shadow.object.surface = window[w].surface
                                /\ window[w].platform \in shadow.connected

\* Only the window of the shadow can make a shadow that was not moved lose its object.
Connected ==
  /\ \A p \in shadow.connected : 0 < p /\ p < next
  /\ ~retargeted => \A w \in Windows :
       window[w].platform \in shadow.connected => w = shadow.window

ShadowInv ==
  /\ shadow \in Shadows /\ tiles \in [Tiles -> TileRecords] /\ retargeted \in BOOLEAN
  /\ shadow.window \in topic.windows \cup {0}
  /\ shadow.filtered = IF shadow.isCreated THEN shadow.window ELSE 0
  /\ \A t \in Tiles : Buffered(tiles[t])
  /\ shadow.isCreated => \A t \in UsedTiles : tiles[t].isCreated
  /\ shadow.isCreated /\ lost = {} => "shadow" \in globals
  /\ ObjectBelongs /\ Connected
  /\ shadow.isCreated /\ shadow.window # 0 /\ ~retargeted /\ lost = {} =>
       (window[shadow.window].exposed => shadow.object # NoObject)

-----------------------------------------------------------------------------
(* The invariant: the window system                                        *)

ForeignRecords ==
  [exported : Nat, handle : Nat, waiting : Nat,
   imports : SUBSET [number : Nat, handle : Handles \cup {NoHandle}], imported : Nat,
   pending : Seq(Handles \cup {NoHandle}), parent : Nat]

\* Imports are told apart by their numbers, and the parent is one of them.
Numbered(f) ==
  /\ IsFiniteSet(f.imports) /\ f.parent \in Numbers(f) \cup {0}
  /\ \A i, j \in f.imports : i.number = j.number => i = j

\* The main window that was asked for before the toplevel is there is the last of those
\* that wait for it.
Awaits(f, h) == f.pending # <<>> /\ f.pending[Len(f.pending)] = h

\* What holds of f, which hangs on the window q, when h was asked for in time.
Settled(f, q, h, intime, importing) ==
  /\ f.waiting > 0 => f.exported # 0 /\ f.handle = 0
  /\ Numbered(f)
  /\ h # NoHandle /\ intime =>
       /\ Awaits(f, h)
       /\ q.role /\ importing => HandleOf(f, f.parent) = h

ForeignInv ==
  /\ foreign \in [Windows -> ForeignRecords]
  /\ asked \in [Windows -> Handles \cup {NoHandle}]
  /\ \A w \in Windows :
       Settled(foreign[w], window[w], asked[w], w \notin late, "importer" \in globals)

TagInv ==
  /\ cookie \in [Windows -> [tag : Tags \cup {NoTag}, platform : Nat]]
  /\ tag \in [Windows -> Tags \cup {NoTag}]
  /\ \A w \in Windows :
       window[w].role /\ cookie[w].platform = window[w].platform /\ failed = {}
         => tag[w] = cookie[w].tag

\* The token of the environment is one that was passed on and not used.
TokenInv ==
  /\ requests \in Seq([kind : {"signal", "future"},
                       state : {"sent", "timer", "empty", "done", "current"}])
  /\ token \in Nat /\ activations \in Seq(Nat)
  /\ token # 0 => /\ token \in DOMAIN requests /\ requests[token].state = "current"
                  /\ \A i \in DOMAIN activations : activations[i] # token
  /\ \A i \in DOMAIN activations :
       activations[i] \in DOMAIN requests /\ requests[activations[i]].state = "current"
  /\ \A i, j \in DOMAIN activations : activations[i] = activations[j] => i = j

\* The last thing on the wire is how things are.
ShowingInv ==
  /\ showing \in [real : BOOLEAN, wire : Seq(BOOLEAN), known : BOOLEAN]
  /\ "plasma" \in globals =>
       IF showing.wire = <<>> THEN showing.known = showing.real
       ELSE showing.wire[Len(showing.wire)] = showing.real

PluginInv ==
  /\ WindowInv /\ EffectsInv /\ ShadowInv
  /\ ForeignInv /\ TagInv /\ TokenInv /\ ShowingInv

-----------------------------------------------------------------------------
(* What a step of a window is for those that listen to it                  *)

\* The window w becomes q: it keeps its platform window and its surface, loses them or
\* has new ones, and is exposed only by an Expose event.
Turns(w, q, expose) ==
  /\ q \in QWindows /\ WellFormed(q) /\ expose \in BOOLEAN
  /\ q.platform \in {0, window[w].platform} \/ (window[w].platform = 0 /\ q.platform = next)
  /\ q.surface \in {0, window[w].surface} \/ (window[w].surface = 0 /\ q.surface = next)
  /\ q.surface = window[w].surface /\ q.surface # 0 => q.platform = window[w].platform
  /\ q.role /\ window[w].role => q.surface = window[w].surface
  /\ q.exposed => q.surface = window[w].surface /\ (expose \/ q = window[w])

WindowStep ==
  \E w \in topic.windows, q \in QWindows, expose \in BOOLEAN :
    Turns(w, q, expose) /\ Listeners(w, q, expose)

WindowStepAlone ==
  \E w \in topic.windows, q \in QWindows, expose \in BOOLEAN :
    Turns(w, q, expose) /\ Becomes(w, q, expose)

GlobalStep == \E g \in topic.globals : Announce(g) \/ Withdraw(g)

LEMMA WindowTurns ==
  ASSUME WindowInv, NEW w \in topic.windows
  PROVE  /\ window[w].alive => Turns(w, Created(window[w]), FALSE)
         /\ window[w].alive /\ ~window[w].role => Turns(w, Shown(window[w]), FALSE)
         /\ window[w].role => Turns(w, [window[w] EXCEPT !.exposed = TRUE], TRUE)
         /\ window[w].exposed => Turns(w, [window[w] EXCEPT !.exposed = FALSE], TRUE)
         /\ window[w].role => Turns(w, Hidden(window[w]), FALSE)
         /\ Turns(w, Destroyed(window[w]), FALSE)
         /\ Turns(w, [Destroyed(window[w]) EXCEPT !.alive = FALSE], FALSE)
         /\ ~window[w].alive => Turns(w, NewWindow, FALSE)
<1>1. PICK p \in QWindows : p = window[w]
  BY DEF WindowInv
<1>2. WellFormed(p) /\ p.platform < next /\ p.surface < next /\ next \in Nat \ {0}
  BY <1>1 DEF WindowInv
<1> USE <1>1, <1>2 DEF Turns, WellFormed, QWindows
<1>3. window[w].alive => Turns(w, Created(window[w]), FALSE)
  BY DEF Created
<1>4. window[w].alive /\ ~window[w].role => Turns(w, Shown(window[w]), FALSE)
  BY DEF Created, Shown
<1>5. window[w].role => Turns(w, [window[w] EXCEPT !.exposed = TRUE], TRUE)
  OBVIOUS
<1>6. window[w].exposed => Turns(w, [window[w] EXCEPT !.exposed = FALSE], TRUE)
  OBVIOUS
<1>7. window[w].role => Turns(w, Hidden(window[w]), FALSE)
  BY DEF Hidden
<1>8. Turns(w, Destroyed(window[w]), FALSE)
  BY DEF Hidden, Destroyed
<1>9. Turns(w, [Destroyed(window[w]) EXCEPT !.alive = FALSE], FALSE)
  BY DEF Hidden, Destroyed
<1>10. ~window[w].alive => Turns(w, NewWindow, FALSE)
  BY DEF NewWindow, NoWindow
<1> HIDE <1>1, <1>2 DEF Turns, WellFormed, QWindows
<1> QED BY <1>3, <1>4, <1>5, <1>6, <1>7, <1>8, <1>9, <1>10

LEMMA WindowSteps ==
  ASSUME WindowInv, NEW w \in topic.windows,
         \/ Create(w) \/ Show(w) \/ Expose(w) \/ Unexpose(w) \/ Hide(w)
         \/ Destroy(w) \/ Delete(w) \/ New(w)
  PROVE  WindowStepAlone
<1>1. SUFFICES ASSUME NEW q, NEW e \in BOOLEAN, Turns(w, q, e), Becomes(w, q, e)
               PROVE  WindowStepAlone
  BY WindowTurns DEF Create, Show, Expose, Unexpose, Hide, Destroy, Delete, New
<1>2. q \in QWindows
  BY <1>1 DEF Turns
<1> QED BY <1>1, <1>2 DEF WindowStepAlone

\* exportToplevel(), setMainWindow(), setXdgToplevelTag() and the request of a token for
\* a window are window steps too.
LEMMA CreatingCalls ==
  ASSUME WindowInv, NEW w \in topic.windows, window[w].alive,
         Listeners(w, Created(window[w]), FALSE)
  PROVE  WindowStep
<1>1. Turns(w, Created(window[w]), FALSE)
  BY WindowTurns
<1>2. Created(window[w]) \in QWindows
  BY <1>1 DEF Turns
<1> QED BY <1>1, <1>2 DEF WindowStep

\* The steps that a part of the plugin hears of.
LEMMA StepKinds ==
  ASSUME WindowInv, Next
  PROVE  \/ WindowStepAlone
         \/ GlobalStep
         \/ EffectCall \/ CapabilitiesEvent \/ ShadowCall \/ TokenCall \/ DesktopCall
         \/ \E w \in topic.windows :
              \/ ExportToplevel(w) /\ WindowStep
              \/ UnexportToplevel(w) \/ ExportHandle(w)
              \/ \E h \in Handles \cup {NoHandle} : SetMainWindow(w, h) /\ WindowStep
              \/ \E h \in Handles : ImportDestroyed(w, h)
              \/ \E t \in Tags : SetXdgToplevelTag(w, t) /\ WindowStep
              \/ \E kind \in {"signal", "future"} : WindowToken(w, kind) /\ WindowStep
<1>1. CASE \E w \in topic.windows :
             \/ Create(w) \/ Show(w) \/ Expose(w) \/ Unexpose(w) \/ Hide(w)
             \/ Destroy(w) \/ Delete(w) \/ New(w)
  BY <1>1, WindowSteps
<1>2. CASE \E w \in topic.windows : ExportToplevel(w)
  BY <1>2, CreatingCalls DEF ExportToplevel
<1>3. CASE \E w \in topic.windows, h \in Handles \cup {NoHandle} : SetMainWindow(w, h)
  BY <1>3, CreatingCalls DEF SetMainWindow
<1>4. CASE \E w \in topic.windows, t \in Tags : SetXdgToplevelTag(w, t)
  BY <1>4, CreatingCalls DEF SetXdgToplevelTag
<1>5. CASE \E w \in topic.windows, kind \in {"signal", "future"} : WindowToken(w, kind)
  BY <1>5, CreatingCalls DEF WindowToken
<1>6. CASE \/ \E w \in topic.windows :
                \/ UnexportToplevel(w) \/ ExportHandle(w)
                \/ \E h \in Handles : ImportDestroyed(w, h)
           \/ \E g \in topic.globals : Announce(g) \/ Withdraw(g)
           \/ EffectCall \/ CapabilitiesEvent \/ ShadowCall \/ TokenCall \/ DesktopCall
  BY <1>6 DEF GlobalStep
<1> QED BY <1>1, <1>2, <1>3, <1>4, <1>5, <1>6 DEF Next

LEMMA AloneIsWindowStep == ASSUME WindowStepAlone PROVE WindowStep
BY DEF WindowStepAlone, WindowStep, Becomes

\* What the tables of windows, effects and shadows hear of.
LEMMA WindowKinds ==
  ASSUME WindowInv, [Next]_vars
  PROVE  WindowStep \/ UNCHANGED <<window, next, topic>>
<1>1. CASE UNCHANGED vars
  BY <1>1 DEF vars, windowVars
<1>2. CASE Next
  BY <1>2, StepKinds, AloneIsWindowStep
     DEF GlobalStep, Announce, Withdraw, ActiveChanged, EffectCall, CapabilitiesEvent, ShadowCall,
         TokenCall, DesktopCall, UnexportToplevel, ExportHandle, ImportDestroyed, windowVars
<1> QED BY <1>1, <1>2

LEMMA EffectKinds ==
  ASSUME WindowInv, [Next]_vars
  PROVE  \/ WindowStep \/ EffectCall \/ CapabilitiesEvent \/ GlobalStep
         \/ UNCHANGED <<window, next, topic, globals, lost, effects, supportsBlur>>
<1>1. CASE UNCHANGED vars
  BY <1>1 DEF vars, windowVars, effectVars
<1>2. CASE Next
  BY <1>2, StepKinds, AloneIsWindowStep
     DEF ShadowCall, TokenCall, DesktopCall, UnexportToplevel, ExportHandle, ImportDestroyed,
         windowVars, effectVars
<1> QED BY <1>1, <1>2

LEMMA ShadowKinds ==
  ASSUME WindowInv, [Next]_vars
  PROVE  \/ WindowStep \/ ShadowCall \/ GlobalStep
         \/ UNCHANGED <<window, next, topic, globals, lost, shadow, tiles, retargeted>>
<1>1. CASE UNCHANGED vars
  BY <1>1 DEF vars, windowVars, shadowVars
<1>2. CASE Next
  BY <1>2, StepKinds, AloneIsWindowStep
     DEF EffectCall, CapabilitiesEvent, TokenCall, DesktopCall, UnexportToplevel, ExportHandle,
         ImportDestroyed, windowVars, shadowVars
<1> QED BY <1>1, <1>2

LEMMA WindowKept ==
  ASSUME WindowInv, [Next]_vars
  PROVE  WindowInv'
<1>1. CASE UNCHANGED <<window, next, topic>>
  BY <1>1 DEF WindowInv
<1>2. CASE WindowStep
  <2>1. PICK w \in topic.windows, q \in QWindows, e \in BOOLEAN :
          Turns(w, q, e) /\ Listeners(w, q, e)
    BY <1>2 DEF WindowStep
  <2>2. topic' = topic /\ window' = [window EXCEPT ![w] = q] /\ w \in Windows
        /\ next' = IF next \in {q.platform, q.surface} THEN next + 1 ELSE next
    BY <2>1 DEF Listeners, WindowInv
  <2>3. next \in Nat \ {0} /\ next' \in Nat \ {0} /\ next <= next'
    BY <2>2 DEF WindowInv
  <2>4. \A v \in Windows : window'[v] = IF v = w THEN q ELSE window[v]
    BY <2>2 DEF WindowInv
  <2>5. WellFormed(q) /\ q.platform < next' /\ q.surface < next'
    BY <2>1, <2>2, <2>3 DEF Turns, WindowInv, QWindows
  <2>6. \A v \in Windows : WellFormed(window'[v]) /\ window'[v].platform < next'
                             /\ window'[v].surface < next'
    BY <2>3, <2>4, <2>5 DEF WindowInv, QWindows
  <2>7. \A v \in Windows : v # w /\ window[v].platform = q.platform => q.platform = 0
    BY <2>1, <2>2, <2>3 DEF WindowInv, Turns, QWindows
  <2>8. \A v, u \in Windows :
          window'[u].platform = window'[v].platform /\ window'[u].platform # 0 => u = v
    BY <2>4, <2>7 DEF WindowInv
  <2> QED BY <2>2, <2>3, <2>6, <2>8 DEF WindowInv, WellFormed
<1> QED BY <1>1, <1>2, WindowKinds

-----------------------------------------------------------------------------
(* Tokens and the showing desktop mode                                     *)

LEMMA SeqUpdate ==
  ASSUME NEW S, NEW s \in Seq(S), NEW n \in DOMAIN s, NEW x \in S
  PROVE  /\ [s EXCEPT ![n] = x] \in Seq(S) /\ DOMAIN [s EXCEPT ![n] = x] = DOMAIN s
         /\ [s EXCEPT ![n] = x][n] = x /\ n \in Nat
         /\ \A i \in DOMAIN s \ {n} : [s EXCEPT ![n] = x][i] = s[i]
OBVIOUS

LEMMA TokenKept ==
  ASSUME WindowInv, TokenInv, [Next]_vars
  PROVE  TokenInv'
<1> DEFINE Requests == [kind : {"signal", "future"},
                        state : {"sent", "timer", "empty", "done", "current"}]
<1>1. CASE UNCHANGED tokenVars
  BY <1>1 DEF TokenInv, tokenVars
<1>2. requests \in Seq(Requests) /\ token \in Nat /\ activations \in Seq(Nat)
  BY DEF TokenInv
<1>3. CASE \E kind \in {"signal", "future"} : RequestToken(kind)
  <2>1. PICK kind \in {"signal", "future"} : RequestToken(kind)
    BY <1>3
  <2>2. PICK r \in Requests : requests' = Append(requests, r)
    <3>1. PICK st \in {"sent", "timer", "empty"} : st =
            IF "activation" \in globals THEN "sent"
            ELSE IF kind = "signal" THEN "timer" ELSE "empty"
      OBVIOUS
    <3>2. [kind |-> kind, state |-> st] \in Requests
      OBVIOUS
    <3> QED BY <2>1, <3>1, <3>2 DEF RequestToken
  <2>3. UNCHANGED <<token, activations>>
    BY <2>1 DEF RequestToken
  <2>4. requests' \in Seq(Requests) /\ DOMAIN requests \subseteq DOMAIN requests'
        /\ \A i \in DOMAIN requests : requests'[i] = requests[i]
    <3> HIDE DEF Requests
    <3> QED BY <1>2, <2>2
  <2> QED BY <2>3, <2>4 DEF TokenInv
<1>4. CASE \E w \in topic.windows, kind \in {"signal", "future"} : WindowToken(w, kind)
  BY <1>3, <1>4 DEF WindowToken
<1>5. CASE TokenCall
  <2> SUFFICES ASSUME TRUE PROVE TokenInv'
    OBVIOUS
  <2>1. CASE \E kind \in {"signal", "future"} : RequestToken(kind)
    BY <1>3, <2>1
  <2>2. CASE \E n \in DOMAIN requests : TokenArrived(n)
    <3>1. PICK n \in DOMAIN requests : TokenArrived(n)
      BY <2>2
    <3>2. PICK st \in {"done", "empty"} : requests' = [requests EXCEPT ![n].state = st]
      BY <3>1 DEF TokenArrived
    <3>3. UNCHANGED <<token, activations>> /\ requests[n].state \in {"sent", "timer"}
      BY <3>1 DEF TokenArrived
    <3>4. requests' \in Seq(Requests) /\ DOMAIN requests = DOMAIN requests'
          /\ \A i \in DOMAIN requests \ {n} : requests'[i] = requests[i]
      <4>1. PICK r \in Requests : requests' = [requests EXCEPT ![n] = r]
        <5>1. requests[n] \in Requests
          <6> HIDE DEF Requests
          <6> QED BY <1>2
        <5>2. [requests[n] EXCEPT !.state = st] \in Requests
          BY <5>1
        <5> QED BY <3>2, <5>2
      <4> HIDE DEF Requests
      <4> QED BY <1>2, <4>1, SeqUpdate
    <3>5. requests[n].state # "current"
      BY <3>3
    <3>6. token # 0 => token # n
      BY <3>5 DEF TokenInv
    <3>7. \A i \in DOMAIN activations : activations[i] # n
      BY <3>5 DEF TokenInv
    <3> QED BY <3>3, <3>4, <3>6, <3>7 DEF TokenInv
  <2>3. CASE \E n \in DOMAIN requests : setCurrentToken(n)
    <3>1. PICK n \in DOMAIN requests : setCurrentToken(n)
      BY <2>3
    <3>2. requests' = [requests EXCEPT ![n].state = "current"] /\ requests[n].state = "done"
          /\ token' = n /\ activations' = activations
      BY <3>1 DEF setCurrentToken
    <3>4. requests' \in Seq(Requests) /\ DOMAIN requests = DOMAIN requests'
          /\ (\A i \in DOMAIN requests \ {n} : requests'[i] = requests[i])
          /\ requests'[n].state = "current" /\ n \in Nat
      <4>1. PICK r \in Requests : requests' = [requests EXCEPT ![n] = r] /\ r.state = "current"
        <5>1. requests[n] \in Requests
          <6> HIDE DEF Requests
          <6> QED BY <1>2
        <5>2. [requests[n] EXCEPT !.state = "current"] \in Requests
          BY <5>1
        <5> QED BY <3>2, <5>1, <5>2
      <4> HIDE DEF Requests
      <4> QED BY <1>2, <4>1, SeqUpdate
    <3>5. requests[n].state # "current"
      BY <3>2
    <3>7. \A i \in DOMAIN activations : activations[i] # n
      BY <3>5 DEF TokenInv
    <3> QED BY <3>2, <3>4, <3>7 DEF TokenInv
  <2>4. CASE \E w \in topic.windows : activateWindow(window[w])
    <3>1. requests' = requests /\ token' = 0
          /\ activations' = IF token = 0 THEN activations ELSE Append(activations, token)
      BY <2>4 DEF activateWindow, consumeCurrentActivationToken
    <3>2. CASE token = 0
      BY <3>1, <3>2 DEF TokenInv
    <3>3. CASE token # 0
      <4>1. /\ activations' \in Seq(Nat) /\ Len(activations') = Len(activations) + 1
            /\ activations'[Len(activations) + 1] = token
            /\ \A i \in 1 .. Len(activations) : activations'[i] = activations[i]
        BY <1>2, <3>1, <3>3
      <4>2. DOMAIN activations = 1 .. Len(activations) /\ Len(activations) \in Nat
            /\ DOMAIN activations' = 1 .. Len(activations) + 1
        BY <1>2, <4>1
      <4>3. \A i \in DOMAIN activations' :
              i \in DOMAIN activations \/ (i = Len(activations) + 1 /\ activations'[i] = token)
        BY <4>1, <4>2
      <4>4. \A i \in DOMAIN activations' : activations'[i] \in DOMAIN requests
              /\ requests[activations'[i]].state = "current"
        BY <4>1, <4>2, <4>3, <3>3 DEF TokenInv
      <4>5. \A i, j \in DOMAIN activations' : activations'[i] = activations'[j] => i = j
        BY <4>1, <4>2, <4>3, <3>3 DEF TokenInv
      <4> QED BY <1>2, <3>1, <4>1, <4>4, <4>5 DEF TokenInv
    <3> QED BY <3>2, <3>3
  <2> QED BY <1>5, <2>1, <2>2, <2>3, <2>4 DEF TokenCall
<1>6. CASE Next /\ ~TokenCall /\ ~\E w \in topic.windows, kind \in {"signal", "future"} : WindowToken(w, kind)
  <2>1. UNCHANGED tokenVars
    BY <1>6, StepKinds
       DEF WindowStepAlone, Becomes, ExportToplevel, SetMainWindow, SetXdgToplevelTag, GlobalStep, Announce, Withdraw, ActiveChanged, EffectCall, CapabilitiesEvent,
           ShadowCall, DesktopCall, UnexportToplevel, ExportHandle, ImportDestroyed, systemVars
  <2> QED BY <1>1, <2>1
<1> QED BY <1>1, <1>4, <1>5, <1>6 DEF vars, systemVars

LEMMA ShowingKept ==
  ASSUME WindowInv, ShowingInv, [Next]_vars
  PROVE  ShowingInv'
<1>0. PICK r \in BOOLEAN, s \in Seq(BOOLEAN), k \in BOOLEAN :
        showing = [real |-> r, wire |-> s, known |-> k]
  BY DEF ShowingInv
<1>1. CASE UNCHANGED <<showing, globals>>
  BY <1>1 DEF ShowingInv
<1>2. CASE DesktopCall
  <2>1. UNCHANGED globals
    BY <1>2 DEF DesktopCall, windowVars
  <2>2. CASE \E b \in BOOLEAN : setShowingDesktop(b)
    <3>1. PICK b \in BOOLEAN : setShowingDesktop(b)
      BY <2>2
    <3>2. showing' = [real |-> b, wire |-> Append(s, b), known |-> k]
      BY <1>0, <3>1 DEF setShowingDesktop
    <3>3. Append(s, b) \in Seq(BOOLEAN) /\ Append(s, b) # <<>>
          /\ Append(s, b)[Len(Append(s, b))] = b
      OBVIOUS
    <3> QED BY <3>2, <3>3 DEF ShowingInv
  <2>3. CASE ShowDesktopChanged
    <3>1. s # <<>> /\ showing' = [real |-> r, wire |-> Tail(s), known |-> Head(s)]
      BY <1>0, <2>3 DEF ShowDesktopChanged
    <3>2. Tail(s) \in Seq(BOOLEAN) /\ Head(s) \in BOOLEAN
          /\ (Tail(s) = <<>> => Head(s) = s[Len(s)])
          /\ (Tail(s) # <<>> => Tail(s)[Len(Tail(s))] = s[Len(s)])
      <4>1. Tail(s) \in Seq(BOOLEAN) /\ Len(Tail(s)) = Len(s) - 1 /\ Len(s) \in Nat
            /\ \A i \in 1 .. Len(s) - 1 : Tail(s)[i] = s[i + 1]
        BY <3>1
      <4>2. Head(s) = s[1] /\ s[1] \in BOOLEAN /\ Len(s) >= 1
        BY <3>1
      <4>3. Tail(s) = <<>> => Len(s) = 1
        BY <4>1, <4>2
      <4>4. Tail(s) # <<>> => Len(s) - 1 \in 1 .. Len(s) - 1
        BY <4>1, <4>2
      <4> QED BY <4>1, <4>2, <4>3, <4>4
    <3>3. "plasma" \in globals => s[Len(s)] = r
      BY <1>0, <3>1 DEF ShowingInv
    <3> QED BY <2>1, <3>1, <3>2, <3>3 DEF ShowingInv
  <2> QED BY <1>2, <2>2, <2>3 DEF DesktopCall
<1>3. CASE GlobalStep
  <2>1. PICK g \in topic.globals : Announce(g) \/ Withdraw(g)
    BY <1>3 DEF GlobalStep
  <2>2. /\ globals' = globals \cup {g} \/ globals' = globals \ {g}
        /\ ShowingActiveChanged(g, globals')
    BY <2>1 DEF Announce, Withdraw, ActiveChanged
  <2>3. CASE g # "plasma"
    <3>1. showing' = showing /\ ("plasma" \in globals' <=> "plasma" \in globals)
      BY <2>2, <2>3 DEF ShowingActiveChanged
    <3> QED BY <3>1 DEF ShowingInv
  <2>4. CASE g = "plasma"
    <3>1. PICK t \in {<<r>>, <<>>} : showing' = [real |-> r, wire |-> t, known |-> k]
                                     /\ ("plasma" \in globals' => t = <<r>>)
      BY <1>0, <2>2, <2>4 DEF ShowingActiveChanged
    <3>2. t \in Seq(BOOLEAN)
      <4>1. <<>> \in Seq(BOOLEAN) /\ <<r>> \in Seq(BOOLEAN)
        BY Z3
      <4> QED BY <3>1, <4>1
    <3>3. <<r>> # <<>> /\ Len(<<r>>) = 1 /\ <<r>>[1] = r
      OBVIOUS
    <3> QED BY <3>1, <3>2, <3>3 DEF ShowingInv
  <2> QED BY <2>3, <2>4
<1>4. CASE Next /\ ~DesktopCall /\ ~GlobalStep
  <2>1. UNCHANGED <<showing, globals>>
    BY <1>4, StepKinds, AloneIsWindowStep
       DEF WindowStep, Listeners, EffectCall, CapabilitiesEvent,
           ShadowCall, TokenCall, UnexportToplevel, ExportHandle, ImportDestroyed,
           systemVars, windowVars
  <2> QED BY <1>1, <2>1
<1> QED BY <1>1, <1>2, <1>3, <1>4 DEF vars, systemVars, windowVars

-----------------------------------------------------------------------------
(* Exported and imported toplevels                                         *)

\* There is a number for a new import.
LEMMA NumberIsFree ==
  ASSUME NEW f \in ForeignRecords, Numbered(f)
  PROVE  FreeNumber(f) \in Nat \ {0} /\ FreeNumber(f) \notin Numbers(f)
<1> DEFINE c == Cardinality(f.imports)
           free == (1 .. c + 1) \ Numbers(f)
<1>1. c \in Nat /\ IsFiniteSet(f.imports)
  BY FS_CardinalityType DEF Numbered
<1>3. free # {}
  <2>1. SUFFICES ASSUME 1 .. c + 1 \subseteq Numbers(f) PROVE FALSE
    OBVIOUS
  <2> DEFINE import == [n \in 1 .. c + 1 |-> CHOOSE j \in f.imports : j.number = n]
  <2>2. \A n \in 1 .. c + 1 : import[n] \in f.imports /\ import[n].number = n
    BY <2>1 DEF Numbers
  <2>3. import \in [1 .. c + 1 -> f.imports]
    BY <2>2
  <2>4. IsFiniteSet(1 .. c + 1) /\ c < Cardinality(1 .. c + 1)
    BY <1>1, FS_Interval
  <2> HIDE DEF import
  <2>5. \E x, y \in 1 .. c + 1 : x # y /\ import[x] = import[y]
    BY <1>1, <2>3, <2>4, FS_PigeonHole
  <2> QED BY <2>2, <2>5
<1>4. PICK n \in free : \A m \in free : n <= m
  <2>1. free \in SUBSET Nat
    BY <1>1
  <2> HIDE DEF free
  <2> QED BY <1>3, <2>1, LeastExists
<1>5. FreeNumber(f) \in free
  BY <1>4 DEF FreeNumber, Min
<1> QED BY <1>1, <1>5

LEMMA ImportKept ==
  ASSUME NEW f \in ForeignRecords, Numbered(f), NEW q, NEW h \in Handles \cup {NoHandle}
  PROVE  LET g == doSetMainWindow(f, q, h)
         IN /\ g \in ForeignRecords /\ Numbered(g)
            /\ g.exported = f.exported /\ g.handle = f.handle /\ g.waiting = f.waiting
            /\ g.pending = f.pending
            /\ xdgToplevelForWindow(q) # 0 /\ "importer" \in globals
                 => HandleOf(g, g.parent) = h
<1> DEFINE n == FreeNumber(f)
           new == [number |-> n, handle |-> h]
<1>1. CASE xdgToplevelForWindow(q) = 0 \/ "importer" \notin globals
  BY <1>1 DEF doSetMainWindow
<1>2. CASE ~(xdgToplevelForWindow(q) = 0 \/ "importer" \notin globals)
  <2>1. PICK g : g = doSetMainWindow(f, q, h)
    OBVIOUS
  <2>2. g = [f EXCEPT !.imports = @ \cup {new}, !.imported = n, !.parent = n]
    BY <1>2, <2>1 DEF doSetMainWindow
  <2>3. n \in Nat \ {0} /\ n \notin Numbers(f)
    BY NumberIsFree
  <2> HIDE DEF n
  <2>4. /\ g \in ForeignRecords
        /\ g.exported = f.exported /\ g.handle = f.handle /\ g.waiting = f.waiting
        /\ g.pending = f.pending /\ g.parent = n /\ g.imports = f.imports \cup {new}
    <3>1. new \in [number : Nat, handle : Handles \cup {NoHandle}]
      BY <2>3
    <3> HIDE DEF new
    <3>2. f.imports \cup {new} \in SUBSET [number : Nat, handle : Handles \cup {NoHandle}]
      BY <3>1 DEF ForeignRecords
    <3> QED BY <2>2, <2>3, <3>2 DEF ForeignRecords
  <2>5. new.number = n /\ new.handle = h /\ \A j \in f.imports : j.number # n
    BY <2>3 DEF Numbers
  <2> HIDE DEF new
  <2>6. n \in Numbers(g)
    BY <2>4, <2>5 DEF Numbers
  <2>7. Numbered(g)
    <3>1. IsFiniteSet(g.imports)
      BY <2>4, FS_AddElement DEF Numbered
    <3>2. \A i, j \in g.imports : i.number = j.number => i = j
      BY <2>4, <2>5 DEF Numbered
    <3> QED BY <2>4, <2>6, <3>1, <3>2 DEF Numbered
  <2>8. (CHOOSE j \in g.imports : j.number = n) = new
    BY <2>4, <2>5
  <2>9. HandleOf(g, g.parent) = h
    BY <2>3, <2>4, <2>5, <2>8 DEF HandleOf
  <2> QED BY <2>1, <2>4, <2>7, <2>9
<1> QED BY <1>1, <1>2

\* The slots of surfaceRoleCreated() run one after the other.
LEMMA PendingRuns ==
  ASSUME NEW f \in ForeignRecords, NEW q
  PROVE  \E after : after = [n \in 0 .. Len(f.pending) |->
           IF n = 0 THEN f ELSE doSetMainWindow(after[n - 1], q, f.pending[n])]
<1> DEFINE Do(g, n) == doSetMainWindow(g, q, f.pending[n])
           Runs(k) == \E after : after = [n \in 0 .. k |-> IF n = 0 THEN f ELSE Do(after[n - 1], n)]
           S == {k \in Nat : Runs(k)}
<1>1. 0 \in S
  <2>1. [n \in 0 .. 0 |-> f] = [n \in 0 .. 0 |->
           IF n = 0 THEN f ELSE Do([m \in 0 .. 0 |-> f][n - 1], n)]
    OBVIOUS
  <2> HIDE DEF Do
  <2> QED BY <2>1
<1>2. ASSUME NEW k \in Nat, k \in S PROVE k + 1 \in S
  <2>1. PICK g : g = [n \in 0 .. k |-> IF n = 0 THEN f ELSE Do(g[n - 1], n)]
    BY <1>2
  <2> HIDE DEF Do
  <2> DEFINE G == [n \in 0 .. k + 1 |-> IF n = k + 1 THEN Do(g[k], k + 1) ELSE g[n]]
  <2>2. \A n \in 0 .. k : G[n] = g[n]
    OBVIOUS
  <2>3. \A n \in 0 .. k : g[n] = IF n = 0 THEN f ELSE Do(g[n - 1], n)
    BY <2>1
  <2>4. \A n \in 0 .. k + 1 : G[n] = IF n = 0 THEN f ELSE Do(G[n - 1], n)
    <3>1. TAKE n \in 0 .. k + 1
    <3>2. CASE n = k + 1
      <4>1. G[n] = Do(g[k], k + 1) /\ G[k] = g[k] /\ n - 1 = k /\ n # 0
        BY <3>2
      <4> HIDE DEF G
      <4> QED BY <3>2, <4>1
    <3>3. CASE n \in 0 .. k
      <4>1. G[n] = g[n] /\ (n # 0 => n - 1 \in 0 .. k /\ G[n - 1] = g[n - 1])
        BY <2>2, <3>3
      <4> HIDE DEF G
      <4> QED BY <2>3, <3>3, <4>1
    <3> QED BY <3>2, <3>3
  <2>5. G = [n \in 0 .. k + 1 |-> IF n = 0 THEN f ELSE Do(G[n - 1], n)]
    <3>1. G = [n \in 0 .. k + 1 |-> G[n]]
      OBVIOUS
    <3> HIDE DEF G
    <3> QED BY <2>4, <3>1
  <2> HIDE DEF G
  <2> QED BY <2>5
<1>3. Nat \subseteq S
  <2> HIDE DEF S
  <2> QED BY <1>1, <1>2, NatSetInduction
<1>4. Len(f.pending) \in Nat
  BY DEF ForeignRecords
<1> QED BY <1>3, <1>4

LEMMA RolePendingKept ==
  ASSUME NEW f \in ForeignRecords, Numbered(f), NEW q
  PROVE  LET g == RolePending(f, q)
         IN /\ g \in ForeignRecords /\ Numbered(g)
            /\ g.exported = f.exported /\ g.handle = f.handle /\ g.waiting = f.waiting
            /\ g.pending = f.pending
            /\ xdgToplevelForWindow(q) # 0 /\ "importer" \in globals /\ f.pending # <<>>
                 => HandleOf(g, g.parent) = f.pending[Len(f.pending)]
<1> DEFINE L == Len(f.pending)
<1>0. f.pending \in Seq(Handles \cup {NoHandle}) /\ L \in Nat
  BY DEF ForeignRecords
<1>1. PICK after : /\ after = [n \in 0 .. L |->
                        IF n = 0 THEN f ELSE doSetMainWindow(after[n - 1], q, f.pending[n])]
                   /\ RolePending(f, q) = after[L]
  <2> DEFINE A == CHOOSE after : after = [n \in 0 .. Len(f.pending) |->
                    IF n = 0 THEN f ELSE doSetMainWindow(after[n - 1], q, f.pending[n])]
  <2>1. A = [n \in 0 .. Len(f.pending) |->
              IF n = 0 THEN f ELSE doSetMainWindow(A[n - 1], q, f.pending[n])]
    BY PendingRuns
  <2>2. RolePending(f, q) = A[Len(f.pending)]
    BY DEF RolePending
  <2> HIDE DEF A
  <2> QED BY <2>1, <2>2
<1>2. after[0] = f
  BY <1>0, <1>1
<1>3. \A n \in 0 .. L - 1 : after[n + 1] = doSetMainWindow(after[n], q, f.pending[n + 1])
  <2>1. TAKE n \in 0 .. L - 1
  <2>2. PICK m \in 0 .. L : m = n + 1 /\ m # 0 /\ m - 1 = n
    BY <1>0
  <2>3. after[m] = doSetMainWindow(after[m - 1], q, f.pending[m])
    BY <1>1, <2>2
  <2> QED BY <2>2, <2>3
<1> DEFINE Good(g, n) ==
             /\ g \in ForeignRecords /\ Numbered(g)
             /\ g.exported = f.exported /\ g.handle = f.handle /\ g.waiting = f.waiting
             /\ g.pending = f.pending
             /\ xdgToplevelForWindow(q) # 0 /\ "importer" \in globals /\ n # 0
                  => HandleOf(g, g.parent) = f.pending[n]
           S == {n \in Nat : n <= L => Good(after[n], n)}
<1>4. 0 \in S
  BY <1>2
<1>5. ASSUME NEW n \in Nat, n \in S PROVE n + 1 \in S
  <2>1. SUFFICES ASSUME n + 1 <= L PROVE Good(after[n + 1], n + 1)
    OBVIOUS
  <2>2. n \in 0 .. L - 1 /\ n <= L /\ f.pending[n + 1] \in Handles \cup {NoHandle}
    BY <1>0, <2>1
  <2>3. PICK g : g = after[n]
    OBVIOUS
  <2>4. Good(g, n)
    BY <1>5, <2>2, <2>3
  <2>5. after[n + 1] = doSetMainWindow(g, q, f.pending[n + 1])
    BY <1>3, <2>2, <2>3
  <2>6. g \in ForeignRecords /\ Numbered(g)
    BY <2>4
  <2> QED BY <2>2, <2>4, <2>5, <2>6, ImportKept
<1>6. Nat \subseteq S
  <2> HIDE DEF S
  <2> QED BY <1>4, <1>5, NatSetInduction
<1>7. Good(after[L], L)
  BY <1>0, <1>6
<1>8. f.pending # <<>> => L # 0
  BY <1>0
<1> QED BY <1>1, <1>7, <1>8

LEMMA DeleteKept ==
  ASSUME NEW f \in ForeignRecords, Numbered(f), NEW numbers
  PROVE  LET g == DeleteImports(f, numbers)
         IN /\ g \in ForeignRecords /\ Numbered(g)
            /\ g.exported = f.exported /\ g.handle = f.handle /\ g.waiting = f.waiting
            /\ g.pending = f.pending
            /\ f.parent \notin numbers => HandleOf(g, g.parent) = HandleOf(f, f.parent)
<1>1. PICK g : g = DeleteImports(f, numbers)
  OBVIOUS
<1>2. PICK is \in SUBSET f.imports, p \in Nat :
        /\ is = {j \in f.imports : j.number \notin numbers}
        /\ p = IF f.parent \in numbers THEN 0 ELSE f.parent
  BY DEF ForeignRecords
<1>3. g = [f EXCEPT !.imports = is, !.imported = 0, !.parent = p]
  BY <1>1, <1>2 DEF DeleteImports
<1>4. is \in SUBSET [number : Nat, handle : Handles \cup {NoHandle}]
  BY DEF ForeignRecords
<1>5. /\ g \in ForeignRecords
      /\ g.exported = f.exported /\ g.handle = f.handle /\ g.waiting = f.waiting
      /\ g.pending = f.pending /\ g.parent = p /\ g.imports = is
  BY <1>3, <1>4 DEF ForeignRecords
<1>6. IsFiniteSet(is)
  BY FS_Subset DEF Numbered
<1>7. p \in Numbers(g) \cup {0}
  <2>1. CASE f.parent \in numbers \/ f.parent = 0
    BY <1>2, <2>1
  <2>2. CASE ~(f.parent \in numbers \/ f.parent = 0)
    <3>1. PICK j \in f.imports : j.number = f.parent
      BY <2>2 DEF Numbered, Numbers
    <3> QED BY <1>2, <1>5, <2>2, <3>1 DEF Numbers
  <2> QED BY <2>1, <2>2
<1>8. Numbered(g)
  BY <1>5, <1>6, <1>7 DEF Numbered
<1>9. f.parent \notin numbers => HandleOf(g, g.parent) = HandleOf(f, f.parent)
  <2>1. CASE f.parent = 0
    BY <1>2, <1>5, <2>1 DEF HandleOf
  <2>2. CASE f.parent # 0 /\ f.parent \notin numbers
    <3>1. PICK j \in f.imports : j.number = f.parent
      BY <2>2 DEF Numbered, Numbers
    <3>2. j \in is /\ p = f.parent
      BY <1>2, <2>2, <3>1
    <3>3. (CHOOSE i \in f.imports : i.number = f.parent) = j
      BY <3>1 DEF Numbered
    <3>4. (CHOOSE i \in g.imports : i.number = g.parent) = j
      BY <1>5, <3>1, <3>2 DEF Numbered
    <3>5. HandleOf(f, f.parent) = j.handle
      BY <2>2, <3>3 DEF HandleOf
    <3>6. HandleOf(g, g.parent) = j.handle
      BY <1>5, <2>2, <3>2, <3>4 DEF HandleOf
    <3> QED BY <3>5, <3>6
  <2> QED BY <2>1, <2>2
<1> QED BY <1>1, <1>5, <1>8, <1>9

\* The objects of a window after a step of the window
LEMMA ForeignTurns ==
  ASSUME WindowInv, NEW w \in topic.windows, NEW q, NEW e, Turns(w, q, e),
         NEW f \in ForeignRecords, NEW h \in Handles \cup {NoHandle}, NEW intime \in BOOLEAN,
         Settled(f, window[w], h, intime, "importer" \in globals)
  PROVE  /\ ForeignAfter(f, w, q) \in ForeignRecords
         /\ Settled(ForeignAfter(f, w, q), q, IF q.platform = 0 THEN NoHandle ELSE h,
                    q.platform = 0 \/ intime, "importer" \in globals)
<1>1. PICK f1 : f1 = IF q.platform = 0 THEN NoForeign ELSE f
  OBVIOUS
<1>2. PICK f2 : f2 = IF SurfaceDestroyed(w, q) THEN [f1 EXCEPT !.parent = 0] ELSE f1
  OBVIOUS
<1>3. PICK g : g = ForeignAfter(f, w, q)
  OBVIOUS
<1>4. g = IF RoleCreated(w, q) THEN RolePending(f2, q) ELSE f2
  BY <1>1, <1>2, <1>3 DEF ForeignAfter
<1>5. NoForeign \in ForeignRecords /\ Numbered(NoForeign)
      /\ NoForeign.waiting = 0 /\ NoForeign.parent = 0
  BY FS_EmptySet DEF NoForeign, ForeignRecords, Numbered, Numbers
<1>6. /\ f1 \in ForeignRecords /\ Numbered(f1)
      /\ f1.waiting > 0 => f1.exported # 0 /\ f1.handle = 0
  BY <1>1, <1>5 DEF Settled
<1>7. /\ f2 \in ForeignRecords /\ Numbered(f2)
      /\ f2.waiting > 0 => f2.exported # 0 /\ f2.handle = 0
      /\ f2.pending = f1.pending
  <2>1. CASE ~SurfaceDestroyed(w, q)
    BY <1>2, <1>6, <2>1
  <2>2. CASE SurfaceDestroyed(w, q)
    <3>1. f2 = [f1 EXCEPT !.parent = 0]
      BY <1>2, <2>2
    <3>2. /\ f2 \in ForeignRecords /\ f2.imports = f1.imports /\ f2.parent = 0
          /\ f2.waiting = f1.waiting /\ f2.exported = f1.exported /\ f2.handle = f1.handle
          /\ f2.pending = f1.pending
      BY <1>6, <3>1 DEF ForeignRecords
    <3> QED BY <1>6, <3>2 DEF Numbered
  <2> QED BY <2>1, <2>2
<1>8. CASE q.platform = 0
  <2>1. ~RoleCreated(w, q)
    BY <1>8 DEF Turns, WellFormed, RoleCreated
  <2> QED BY <1>3, <1>4, <1>7, <1>8, <2>1 DEF Settled
<1>9. CASE q.platform # 0 /\ RoleCreated(w, q)
  <2>1. xdgToplevelForWindow(q) # 0
    BY <1>9 DEF RoleCreated, Turns, WellFormed, xdgToplevelForWindow
  <2>2. g = RolePending(f2, q) /\ f1 = f
    BY <1>1, <1>4, <1>9
  <2>3. /\ g \in ForeignRecords /\ Numbered(g)
        /\ g.exported = f2.exported /\ g.handle = f2.handle /\ g.waiting = f2.waiting
        /\ g.pending = f2.pending
        /\ "importer" \in globals /\ f2.pending # <<>>
             => HandleOf(g, g.parent) = f2.pending[Len(f2.pending)]
    BY <1>7, <2>1, <2>2, RolePendingKept
  <2>4. h # NoHandle /\ intime => Awaits(f, h)
    BY DEF Settled
  <2> QED BY <1>3, <1>7, <1>9, <2>2, <2>3, <2>4 DEF Settled, Awaits
<1>10. CASE q.platform # 0 /\ ~RoleCreated(w, q)
  <2>1. g = f2 /\ f1 = f
    BY <1>1, <1>4, <1>10
  <2>2. h # NoHandle /\ intime => Awaits(f, h)
    BY DEF Settled
  <2>3. q.role => window[w].role /\ f2 = f
    BY <1>2, <1>10, <2>1 DEF RoleCreated, SurfaceDestroyed, Turns, WellFormed
  <2> QED BY <1>3, <1>7, <1>10, <2>1, <2>2, <2>3 DEF Settled, Awaits
<1> QED BY <1>8, <1>9, <1>10

\* A call that creates the window makes no toplevel and destroys no surface.
LEMMA CreatedForeign ==
  ASSUME WindowInv, NEW w \in topic.windows, NEW f
  PROVE  /\ ForeignAfter(f, w, Created(window[w])) = f
         /\ Created(window[w]).role = window[w].role
<1>1. PICK p \in QWindows : p = window[w]
  BY DEF WindowInv
<1>2. WellFormed(p) /\ next # 0
  BY <1>1 DEF WindowInv
<1> QED BY <1>1, <1>2 DEF Created, ForeignAfter, SurfaceDestroyed, RoleCreated, WellFormed, QWindows

\* It is enough to look at the window that the step is about.
LEMMA ForeignFrame ==
  ASSUME WindowInv, WindowInv', ForeignInv, NEW w \in Windows,
         NEW f \in ForeignRecords, NEW h \in Handles \cup {NoHandle},
         foreign' = [foreign EXCEPT ![w] = f], asked' = [asked EXCEPT ![w] = h],
         \A v \in Windows \ {w} : v \in late' <=> v \in late,
         \A v \in Windows \ {w} : window'[v] = window[v],
         globals' = globals,
         Settled(f, window'[w], h, w \notin late', "importer" \in globals)
  PROVE  ForeignInv'
<1>1. /\ foreign' \in [Windows -> ForeignRecords] /\ foreign'[w] = f
      /\ asked' \in [Windows -> Handles \cup {NoHandle}] /\ asked'[w] = h
      /\ \A v \in Windows \ {w} : foreign'[v] = foreign[v] /\ asked'[v] = asked[v]
  BY DEF ForeignInv
<1>2. ASSUME NEW v \in Windows \ {w}
      PROVE  Settled(foreign'[v], window'[v], asked'[v], v \notin late', "importer" \in globals)
  BY <1>1, <1>2 DEF ForeignInv, Settled
<1>3. \A v \in Windows :
        Settled(foreign'[v], window'[v], asked'[v], v \notin late', "importer" \in globals)
  BY <1>1, <1>2
<1> QED BY <1>1, <1>3 DEF ForeignInv, Settled, Numbered, Numbers, Awaits, HandleOf

\* A call to exportToplevel(): whoever waits has an object that will be told.
LEMMA ExportKept ==
  ASSUME NEW f \in ForeignRecords, NEW q \in QWindows, WellFormed(q),
         NEW h, NEW intime, NEW importing, Settled(f, q, h, intime, importing)
  PROVE  LET g == exportToplevel(f, q)
         IN g \in ForeignRecords /\ Settled(g, q, h, intime, importing)
<1>1. PICK g : g = exportToplevel(f, q)
  OBVIOUS
<1>2. CASE g = f
  BY <1>1, <1>2
<1>3. CASE g # f
  <2>1. PICK s \in Nat \ {0}, n \in Nat : g = [f EXCEPT !.exported = s, !.waiting = n]
    <3>1. /\ ~("exporter" \notin globals \/ (f.exported = 0 /\ xdgToplevelForWindow(q) = 0))
          /\ f.handle = 0
      BY <1>1, <1>3 DEF exportToplevel
    <3>2. PICK s \in Nat \ {0} : s = IF f.exported = 0 THEN surfaceForWindow(q) ELSE f.exported
      BY <3>1 DEF surfaceForWindow, xdgToplevelForWindow, WellFormed, QWindows, ForeignRecords
    <3>3. PICK n \in Nat : n = f.waiting + 1
      BY DEF ForeignRecords
    <3> QED BY <1>1, <3>1, <3>2, <3>3 DEF exportToplevel
  <2>2. f.handle = 0
    BY <1>1, <1>3 DEF exportToplevel
  <2>3. /\ g \in ForeignRecords /\ g.exported # 0 /\ g.handle = 0
        /\ g.imports = f.imports /\ g.parent = f.parent /\ g.pending = f.pending
    BY <2>1, <2>2 DEF ForeignRecords
  <2>4. HandleOf(g, g.parent) = HandleOf(f, f.parent)
    BY <2>3 DEF HandleOf
  <2> QED BY <1>1, <2>3, <2>4 DEF Settled, Numbered, Numbers, Awaits
<1> QED BY <1>2, <1>3

\* A call to setMainWindow(): before the toplevel is there, the handle waits for it.
LEMMA SetMainKept ==
  ASSUME NEW f \in ForeignRecords, NEW q \in QWindows, WellFormed(q),
         f.waiting > 0 => f.exported # 0 /\ f.handle = 0, Numbered(f),
         NEW h \in Handles \cup {NoHandle}, NEW intime \in BOOLEAN, NEW importing,
         intime => ~q.role
  PROVE  LET g == setMainWindow(f, q, h)
         IN g \in ForeignRecords /\ Settled(g, q, h, intime, importing)
<1>1. PICK g : g = setMainWindow(f, q, h)
  OBVIOUS
<1>2. PICK d : d = DropImported(f, h)
  OBVIOUS
<1>3. /\ d \in ForeignRecords /\ Numbered(d) /\ d.pending = f.pending
      /\ d.exported = f.exported /\ d.handle = f.handle /\ d.waiting = f.waiting
  BY <1>2, DeleteKept DEF DropImported
<1>4. g = IF h = NoHandle THEN d
          ELSE IF xdgToplevelForWindow(q) # 0 THEN doSetMainWindow(d, q, h)
          ELSE [d EXCEPT !.pending = Append(@, h)]
  BY <1>1, <1>2 DEF setMainWindow
<1>5. CASE h = NoHandle
  BY <1>1, <1>3, <1>4, <1>5 DEF Settled
<1>6. CASE h # NoHandle /\ xdgToplevelForWindow(q) # 0
  <2>1. g = doSetMainWindow(d, q, h) /\ ~intime
    BY <1>4, <1>6 DEF xdgToplevelForWindow
  <2>2. g \in ForeignRecords /\ Numbered(g)
        /\ g.exported = d.exported /\ g.handle = d.handle /\ g.waiting = d.waiting
    BY <1>3, <2>1, ImportKept
  <2> QED BY <1>1, <1>3, <2>1, <2>2 DEF Settled
<1>7. CASE h # NoHandle /\ xdgToplevelForWindow(q) = 0
  <2>1. ~q.role
    BY <1>7 DEF xdgToplevelForWindow, WellFormed
  <2>2. PICK s : s = Append(d.pending, h)
    OBVIOUS
  <2>3. s \in Seq(Handles \cup {NoHandle}) /\ s # <<>> /\ s[Len(s)] = h
    BY <1>3, <2>2 DEF ForeignRecords
  <2>4. g = [d EXCEPT !.pending = s]
    BY <1>4, <1>7, <2>2
  <2>5. /\ g \in ForeignRecords /\ g.pending = s /\ g.imports = d.imports /\ g.parent = d.parent
        /\ g.exported = d.exported /\ g.handle = d.handle /\ g.waiting = d.waiting
    BY <1>3, <2>3, <2>4 DEF ForeignRecords
  <2> QED BY <1>1, <1>3, <2>1, <2>3, <2>5 DEF Settled, Awaits, Numbered, Numbers
<1> QED BY <1>5, <1>6, <1>7

LEMMA ForeignKept ==
  ASSUME WindowInv, ForeignInv, [Next]_vars
  PROVE  ForeignInv'
<1> USE WindowKept
<1>1. CASE UNCHANGED <<foreignVars, globals>> /\ \A w \in Windows : window'[w].role = window[w].role
  BY <1>1 DEF ForeignInv, foreignVars, Settled, Numbered, Numbers, Awaits, HandleOf
<1>2. ASSUME NEW w \in topic.windows, NEW q \in QWindows, NEW e \in BOOLEAN,
             Turns(w, q, e), Becomes(w, q, e)
      PROVE  ForeignInv'
  <2>1. PICK f \in ForeignRecords, h \in Handles \cup {NoHandle} : f = foreign[w] /\ h = asked[w]
    BY DEF ForeignInv, WindowInv
  <2>2. PICK g : g = ForeignAfter(f, w, q)
    OBVIOUS
  <2>3. PICK k \in Handles \cup {NoHandle} : k = IF q.platform = 0 THEN NoHandle ELSE h
    OBVIOUS
  <2>4. w \in Windows /\ Settled(f, window[w], h, w \notin late, "importer" \in globals)
    BY <2>1 DEF ForeignInv, WindowInv
  <2>5. g \in ForeignRecords
        /\ Settled(g, q, k, q.platform = 0 \/ w \notin late, "importer" \in globals)
    BY <1>2, <2>1, <2>2, <2>3, <2>4, ForeignTurns
  <2>6. /\ foreign' = [foreign EXCEPT ![w] = g] /\ asked' = [asked EXCEPT ![w] = k]
        /\ window' = [window EXCEPT ![w] = q] /\ globals' = globals
        /\ late' = IF q.platform = 0 THEN late \ {w} ELSE late
    BY <1>2, <2>1, <2>2, <2>3 DEF Becomes, Listeners
  <2>7. w \notin late' <=> q.platform = 0 \/ w \notin late
    BY <2>6
  <2>8. window'[w] = q /\ \A v \in Windows \ {w} : window'[v] = window[v]
    BY <2>4, <2>6 DEF WindowInv
  <2>9. Settled(g, q, k, w \notin late', "importer" \in globals)
    BY <2>5, <2>7 DEF Settled
  <2> QED BY <2>4, <2>5, <2>6, <2>8, <2>9, ForeignFrame
<1>3. ASSUME NEW w \in topic.windows, ExportToplevel(w) PROVE ForeignInv'
  <2>1. PICK f \in ForeignRecords, h \in Handles \cup {NoHandle} : f = foreign[w] /\ h = asked[w]
    BY DEF ForeignInv, WindowInv
  <2>2. PICK q \in QWindows : q = Created(window[w]) /\ Turns(w, q, FALSE)
    BY <1>3, WindowTurns DEF ExportToplevel, Turns
  <2>3. PICK g : g = exportToplevel(f, q)
    OBVIOUS
  <2>4. w \in Windows /\ Settled(f, window[w], h, w \notin late, "importer" \in globals)
    BY <2>1 DEF ForeignInv, WindowInv
  <2>5. Settled(f, q, h, w \notin late, "importer" \in globals)
    BY <2>2, <2>4, CreatedForeign DEF Settled
  <2>6. g \in ForeignRecords /\ Settled(g, q, h, w \notin late, "importer" \in globals)
    BY <2>2, <2>3, <2>5, ExportKept DEF Turns
  <2>7. /\ foreign' = [foreign EXCEPT ![w] = g] /\ asked' = asked /\ late' = late
        /\ window' = [window EXCEPT ![w] = q] /\ globals' = globals
    BY <1>3, <2>1, <2>2, <2>3, CreatedForeign DEF ExportToplevel, Listeners
  <2>8. window'[w] = q /\ \A v \in Windows \ {w} : window'[v] = window[v]
    BY <2>4, <2>7 DEF WindowInv
  <2>9. asked' = [asked EXCEPT ![w] = h]
    BY <2>1, <2>7 DEF ForeignInv
  <2> QED BY <2>4, <2>6, <2>7, <2>8, <2>9, ForeignFrame
<1>4. ASSUME NEW w \in topic.windows, NEW h \in Handles \cup {NoHandle}, SetMainWindow(w, h)
      PROVE  ForeignInv'
  <2>1. PICK f \in ForeignRecords : f = foreign[w]
    BY DEF ForeignInv, WindowInv
  <2>2. PICK q \in QWindows : q = Created(window[w]) /\ Turns(w, q, FALSE)
    BY <1>4, WindowTurns DEF SetMainWindow, Turns
  <2>3. PICK g : g = setMainWindow(f, q, h)
    OBVIOUS
  <2>4. /\ w \in Windows /\ Numbered(f)
        /\ f.waiting > 0 => f.exported # 0 /\ f.handle = 0
    BY <2>1 DEF ForeignInv, WindowInv, Settled
  <2>5. PICK l : l = (IF q.role \/ h = NoHandle THEN late \cup {w} ELSE late) /\ l = late'
    BY <1>4, <2>2 DEF SetMainWindow
  <2>6. g \in ForeignRecords /\ Settled(g, q, h, w \notin l, "importer" \in globals)
    <3>1. w \notin l => ~q.role
      BY <2>5
    <3>2. (w \notin l) \in BOOLEAN
      OBVIOUS
    <3> QED BY <2>2, <2>3, <2>4, <3>1, <3>2, SetMainKept DEF Turns
  <2>7. /\ foreign' = [foreign EXCEPT ![w] = g] /\ asked' = [asked EXCEPT ![w] = h]
        /\ window' = [window EXCEPT ![w] = q] /\ globals' = globals
    BY <1>4, <2>1, <2>2, <2>3 DEF SetMainWindow, Listeners
  <2>8. window'[w] = q /\ \A v \in Windows \ {w} : window'[v] = window[v]
    BY <2>4, <2>7 DEF WindowInv
  <2>9. \A v \in Windows \ {w} : v \in late' <=> v \in late
    BY <2>5
  <2>10. Settled(g, window'[w], h, w \notin late', "importer" \in globals)
    BY <2>5, <2>6, <2>8 DEF Settled
  <2> QED BY <2>4, <2>6, <2>7, <2>8, <2>9, <2>10, ForeignFrame
<1>5. ASSUME NEW w \in topic.windows, UnexportToplevel(w) \/ ExportHandle(w) PROVE ForeignInv'
  <2>1. PICK f \in ForeignRecords, h \in Handles \cup {NoHandle} : f = foreign[w] /\ h = asked[w]
    BY DEF ForeignInv, WindowInv
  <2>2. PICK x \in Nat, y \in Nat :
          foreign' = [foreign EXCEPT ![w] = [f EXCEPT !.exported = x, !.handle = y, !.waiting = 0]]
    <3>1. CASE UnexportToplevel(w)
      BY <2>1, <3>1 DEF UnexportToplevel, unexportToplevel
    <3>2. CASE ExportHandle(w)
      <4>1. f.exported \in Nat
        BY DEF ForeignRecords
      <4>2. [f EXCEPT !.handle = f.exported, !.waiting = 0]
              = [f EXCEPT !.exported = f.exported, !.handle = f.exported, !.waiting = 0]
        BY DEF ForeignRecords
      <4> QED BY <2>1, <3>2, <4>1, <4>2 DEF ExportHandle, HandleReceived
    <3> QED BY <1>5, <3>1, <3>2
  <2>3. PICK g : g = [f EXCEPT !.exported = x, !.handle = y, !.waiting = 0]
    OBVIOUS
  <2>4. /\ g \in ForeignRecords /\ g.imports = f.imports /\ g.parent = f.parent
        /\ g.pending = f.pending /\ g.waiting = 0
    BY <2>3 DEF ForeignRecords
  <2>5. w \in Windows /\ Settled(f, window[w], h, w \notin late, "importer" \in globals)
    BY <2>1 DEF ForeignInv, WindowInv
  <2>6. UNCHANGED <<asked, late, window, globals>>
    BY <1>5 DEF UnexportToplevel, ExportHandle, windowVars
  <2>7. Settled(g, window'[w], h, w \notin late', "importer" \in globals)
    BY <2>4, <2>5, <2>6 DEF Settled, Awaits, HandleOf, Numbered, Numbers
  <2>8. asked' = [asked EXCEPT ![w] = h]
    BY <2>1, <2>6 DEF ForeignInv
  <2> QED BY <2>2, <2>3, <2>4, <2>5, <2>6, <2>7, <2>8, ForeignFrame
<1>6. ASSUME NEW w \in topic.windows, NEW h \in Handles, ImportDestroyed(w, h) PROVE ForeignInv'
  <2>1. PICK f \in ForeignRecords, a \in Handles \cup {NoHandle} : f = foreign[w] /\ a = asked[w]
    BY DEF ForeignInv, WindowInv
  <2>2. PICK numbers : numbers = {i.number : i \in {j \in f.imports : j.handle = h}}
    OBVIOUS
  <2>0. PICK k \in Handles \cup {NoHandle} : k = IF a = h THEN NoHandle ELSE a
    OBVIOUS
  <2>3. PICK g : g = DeleteImports(f, numbers) /\ k = IF a = h THEN NoHandle ELSE a
    BY <2>0
  <2>4. /\ foreign' = [foreign EXCEPT ![w] = g] /\ asked' = [asked EXCEPT ![w] = k]
        /\ UNCHANGED <<late, window, globals>>
    BY <1>6, <2>1, <2>2, <2>3 DEF ImportDestroyed, windowVars
  <2>5. w \in Windows /\ Settled(f, window[w], a, w \notin late, "importer" \in globals)
    BY <2>1 DEF ForeignInv, WindowInv
  <2>6. /\ g \in ForeignRecords /\ Numbered(g)
        /\ g.exported = f.exported /\ g.handle = f.handle /\ g.waiting = f.waiting
        /\ g.pending = f.pending
        /\ f.parent \notin numbers => HandleOf(g, g.parent) = HandleOf(f, f.parent)
    BY <2>3, <2>5, DeleteKept DEF Settled
  <2>7. HandleOf(f, f.parent) = a /\ a # NoHandle /\ a # h => f.parent \notin numbers
    <3>1. SUFFICES ASSUME HandleOf(f, f.parent) = a, a # NoHandle, f.parent \in numbers
                   PROVE  a = h
      OBVIOUS
    <3>2. PICK j \in f.imports : j.number = f.parent /\ j.handle = h
      BY <2>2, <3>1
    <3>3. f.parent # 0
      BY <3>1 DEF HandleOf
    <3>4. (CHOOSE i \in f.imports : i.number = f.parent) = j
      BY <2>5, <3>2 DEF Settled, Numbered
    <3> QED BY <3>1, <3>2, <3>3, <3>4 DEF HandleOf
  <2>8. Settled(g, window'[w], k, w \notin late', "importer" \in globals)
    BY <2>3, <2>4, <2>5, <2>6, <2>7 DEF Settled, Awaits
  <2> QED BY <2>4, <2>5, <2>6, <2>8, ForeignFrame
<1>7. CASE GlobalStep
  <2>1. PICK g \in topic.globals : Announce(g) \/ Withdraw(g)
    BY <1>7 DEF GlobalStep
  <2>2. /\ globals' = globals \cup {g} \/ globals' = globals \ {g}
        /\ late' = late \cup {w \in Windows : g = "importer" /\ window[w].role}
        /\ UNCHANGED <<window, foreign, asked>>
    BY <2>1 DEF Announce, Withdraw, ActiveChanged
  <2>3. ASSUME NEW w \in Windows
        PROVE  Settled(foreign[w], window[w], asked[w], w \notin late', "importer" \in globals')
    <3>1. Settled(foreign[w], window[w], asked[w], w \notin late, "importer" \in globals)
      BY DEF ForeignInv
    <3>2. w \notin late' => w \notin late
      BY <2>2
    <3>3. window[w].role /\ w \notin late' /\ "importer" \in globals' => "importer" \in globals
      BY <2>2
    <3> QED BY <3>1, <3>2, <3>3 DEF Settled
  <2> QED BY <2>2, <2>3 DEF ForeignInv, Settled, Numbered, Numbers, Awaits, HandleOf
<1>8. ASSUME NEW w \in topic.windows, NEW t \in Tags, SetXdgToplevelTag(w, t) PROVE ForeignInv'
  <2>1. /\ UNCHANGED <<foreignVars, globals>>
        /\ window' = [window EXCEPT ![w] = Created(window[w])]
    BY <1>8 DEF SetXdgToplevelTag, Listeners
  <2>2. \A v \in Windows : window'[v].role = window[v].role
    BY <2>1, CreatedForeign DEF WindowInv
  <2> QED BY <1>1, <2>1, <2>2
<1>9. ASSUME NEW w \in topic.windows, NEW kind \in {"signal", "future"}, WindowToken(w, kind)
       PROVE  ForeignInv'
  <2>1. /\ UNCHANGED <<foreignVars, globals>>
        /\ window' = [window EXCEPT ![w] = Created(window[w])]
    BY <1>9 DEF WindowToken, Listeners
  <2>2. \A v \in Windows : window'[v].role = window[v].role
    BY <2>1, CreatedForeign DEF WindowInv
  <2> QED BY <1>1, <2>1, <2>2
<1>10. CASE \/ EffectCall \/ CapabilitiesEvent \/ ShadowCall \/ TokenCall \/ DesktopCall
           \/ UNCHANGED vars
  <2>1. UNCHANGED <<foreignVars, globals, window>>
    BY <1>10 DEF EffectCall, CapabilitiesEvent, ShadowCall, TokenCall, DesktopCall, vars,
                windowVars, systemVars
  <2> QED BY <1>1, <2>1
<1>11. CASE WindowStepAlone
  BY <1>2, <1>11 DEF WindowStepAlone
<1> QED BY <1>3, <1>4, <1>5, <1>6, <1>7, <1>8, <1>9, <1>10, <1>11, StepKinds

-----------------------------------------------------------------------------
(* Tags of toplevels                                                       *)

LEMMA TagKept ==
  ASSUME WindowInv, TagInv, [Next]_vars
  PROVE  TagInv'
<1> DEFINE Cookies == [tag : Tags \cup {NoTag}, platform : Nat]
           Told(q, c, t, ok) == q.role /\ c.platform = q.platform /\ ok => t = c.tag
<1>0. \A w \in Windows : Told(window[w], cookie[w], tag[w], failed = {})
  BY DEF TagInv
<1>1. ASSUME NEW w \in topic.windows, NEW q \in QWindows, NEW e \in BOOLEAN,
             Turns(w, q, e), Becomes(w, q, e)
      PROVE  TagInv'
  <2>1. w \in Windows /\ window' = [window EXCEPT ![w] = q]
        /\ \A v \in Windows : window'[v] = IF v = w THEN q ELSE window[v]
    BY <1>1 DEF Becomes, Listeners, WindowInv
  <2>2. PICK c \in Cookies : c = CookieAfter(w, q)
    BY <2>1 DEF CookieAfter, NoCookie, TagInv
  <2>3. PICK t \in Tags \cup {NoTag} : t = TagAfter(w, q)
    <3>1. cookie[w].tag \in Tags \cup {NoTag} /\ tag[w] \in Tags \cup {NoTag}
      BY <2>1 DEF TagInv
    <3> QED BY <3>1 DEF TagAfter
  <2>4. /\ cookie' = [cookie EXCEPT ![w] = c] /\ tag' = [tag EXCEPT ![w] = t]
        /\ failed' = failed \cup FailedAfter(foreign[w], w, q)
    BY <1>1, <2>2, <2>3 DEF Becomes
  <2>5. /\ cookie' \in [Windows -> Cookies] /\ tag' \in [Windows -> Tags \cup {NoTag}]
        /\ \A v \in Windows : /\ cookie'[v] = IF v = w THEN c ELSE cookie[v]
                              /\ tag'[v] = IF v = w THEN t ELSE tag[v]
    BY <2>4 DEF TagInv
  <2>6. Told(q, c, t, failed' = {})
    <3>1. SUFFICES ASSUME q.role, c.platform = q.platform, failed' = {} PROVE t = c.tag
      OBVIOUS
    <3>2. q.alive /\ c = cookie[w]
      BY <1>1, <2>2, <3>1 DEF Turns, WellFormed, CookieAfter
    <3>3. CASE window[w].role
      <4>1. q.surface = window[w].surface /\ q.platform = window[w].platform
        BY <1>1, <2>1, <3>1, <3>3 DEF Turns, WellFormed, WindowInv
      <4>2. t = tag[w]
        BY <2>3, <3>1, <3>3 DEF TagAfter, RoleCreated
      <4>3. failed = {}
        BY <2>4, <3>1
      <4> QED BY <1>0, <2>1, <3>1, <3>2, <3>3, <4>1, <4>2, <4>3
    <3>4. CASE ~window[w].role /\ "tags" \in globals
      BY <2>3, <3>1, <3>2, <3>4 DEF TagAfter, RoleCreated
    <3>5. CASE ~window[w].role /\ "tags" \notin globals
      <4>1. t = NoTag
        BY <2>3, <3>5 DEF TagAfter
      <4>2. cookie[w].tag = NoTag
        BY <2>4, <3>1, <3>2, <3>5 DEF FailedAfter, RoleCreated
      <4> QED BY <3>2, <4>1, <4>2
    <3> QED BY <3>3, <3>4, <3>5
  <2>7. \A v \in Windows : Told(window'[v], cookie'[v], tag'[v], failed' = {})
    BY <1>0, <2>1, <2>4, <2>5, <2>6
  <2> QED BY <2>5, <2>7 DEF TagInv
<1>2. ASSUME NEW w \in topic.windows, NEW t \in Tags, SetXdgToplevelTag(w, t) PROVE TagInv'
  <2>1. PICK q \in QWindows : q = Created(window[w])
    BY <1>2, WindowTurns DEF SetXdgToplevelTag, Turns
  <2>2. PICK c \in Cookies : c = [tag |-> t, platform |-> q.platform]
    BY DEF QWindows
  <2>3. PICK u \in Tags \cup {NoTag} : u = IF q.role /\ "tags" \in globals THEN t ELSE tag[w]
    BY DEF TagInv, WindowInv
  <2>4. /\ window' = [window EXCEPT ![w] = q] /\ w \in Windows
        /\ cookie' = [cookie EXCEPT ![w] = c] /\ tag' = [tag EXCEPT ![w] = u]
        /\ failed' = IF q.role /\ "tags" \notin globals THEN failed \cup {"tags"} ELSE failed
    BY <1>2, <2>1, <2>2, <2>3 DEF SetXdgToplevelTag, setXdgToplevelTag, Listeners, WindowInv, TagInv
  <2>5. /\ cookie' \in [Windows -> Cookies] /\ tag' \in [Windows -> Tags \cup {NoTag}]
        /\ \A v \in Windows : /\ cookie'[v] = IF v = w THEN c ELSE cookie[v]
                              /\ tag'[v] = IF v = w THEN u ELSE tag[v]
                              /\ window'[v] = IF v = w THEN q ELSE window[v]
    BY <2>4 DEF TagInv, WindowInv
  <2>6. Told(q, c, u, failed' = {}) /\ (failed' = {} => failed = {})
    BY <2>2, <2>3, <2>4
  <2>7. \A v \in Windows : Told(window'[v], cookie'[v], tag'[v], failed' = {})
    <3>1. TAKE v \in Windows
    <3>2. CASE v = w
      BY <2>5, <2>6, <3>2
    <3>3. CASE v # w
      BY <1>0, <2>5, <2>6, <3>3
    <3> QED BY <3>2, <3>3
  <2> QED BY <2>5, <2>7 DEF TagInv
<1>3. ASSUME tagVars' = tagVars, failed' = {} => failed = {},
             \A w \in Windows : window'[w].role => window'[w] = window[w]
      PROVE  TagInv'
  BY <1>3 DEF TagInv, tagVars
<1>4. ASSUME NEW w \in topic.windows,
             \/ ExportToplevel(w) \/ \E h \in Handles \cup {NoHandle} : SetMainWindow(w, h)
             \/ \E kind \in {"signal", "future"} : WindowToken(w, kind)
      PROVE  TagInv'
  <2>1. tagVars' = tagVars /\ (failed' = {} => failed = {})
        /\ window' = [window EXCEPT ![w] = Created(window[w])]
    BY <1>4 DEF ExportToplevel, SetMainWindow, WindowToken, Listeners
  <2>2. \A v \in Windows : window'[v].role => window'[v] = window[v]
    <3>1. Created(window[w]).role => Created(window[w]) = window[w]
      <4>1. PICK p \in QWindows : p = window[w] /\ WellFormed(p)
        BY DEF WindowInv
      <4> QED BY <4>1 DEF Created, QWindows, WellFormed
    <3> QED BY <2>1, <3>1 DEF WindowInv
  <2> QED BY <1>3, <2>1, <2>2
<1>5. CASE \/ EffectCall \/ CapabilitiesEvent \/ ShadowCall \/ TokenCall \/ DesktopCall
           \/ GlobalStep \/ UNCHANGED vars
           \/ \E w \in topic.windows : \/ UnexportToplevel(w) \/ ExportHandle(w)
                                       \/ \E h \in Handles : ImportDestroyed(w, h)
  <2>1. UNCHANGED <<tagVars, failed, window>>
    BY <1>5 DEF EffectCall, CapabilitiesEvent, ShadowCall, TokenCall, DesktopCall, vars,
                GlobalStep, Announce, Withdraw, ActiveChanged, UnexportToplevel, ExportHandle,
                ImportDestroyed, windowVars, systemVars
  <2> QED BY <1>3, <2>1
<1>6. CASE WindowStepAlone
  BY <1>1, <1>6 DEF WindowStepAlone
<1> QED BY <1>2, <1>4, <1>5, <1>6, StepKinds

-----------------------------------------------------------------------------
(* Effects of windows                                                      *)

\* installBlur() is about the blur only, and a window that had no blur of another
\* surface has the one that is wanted.
LEMMA InstallBlurKept ==
  ASSUME NEW e \in EffectRecords, NEW q \in QWindows, WellFormed(q), BlurBelongs(e, q),
         NEW available, NEW gone, NEW supported \in BOOLEAN, NEW r \in Blurs \cup {None},
         e.blurRegion = r,
         r = None => e.blur = Nothing
  PROVE  LET g == installBlur(e, q, available, supported, r)
         IN /\ g \in EffectRecords
            /\ BlurBelongs(g, q) /\ BlurInstalled(g, q, available, gone, supported)
            /\ g.blurRegion = e.blurRegion /\ g.contrastData = e.contrastData
            /\ g.slideData = e.slideData /\ g.contrast = e.contrast /\ g.slide = e.slide
            /\ g.watched = e.watched /\ g.surfaceWatcher = e.surfaceWatcher
<1>1. PICK s \in Nat : s = q.surface
  BY DEF QWindows
<1>2. q.exposed => s # 0
  BY <1>1 DEF WellFormed
<1>3. PICK g : g = installBlur(e, q, available, supported, r)
  OBVIOUS
<1>4. \/ /\ g = e /\ (s = 0 \/ {"background", "blur"} \cap available = {})
      \/ \E b, c \in EffectObjects(Blurs) :
           /\ s # 0 /\ g = [e EXCEPT !.blur = b, !.background = c]
           /\ b \in {Nothing, On(s, r)} /\ (r = None => b = Nothing)
           /\ \/ /\ "background" \in available /\ supported
                 /\ c = On(IF e.background = Nothing THEN s ELSE e.background.surface, r)
              \/ "background" \in available /\ ~supported /\ c = e.background
              \/ /\ "background" \notin available /\ c = Nothing
                 /\ r # None => b = On(s, r)
  <2>0. /\ Nothing \in EffectObjects(Blurs) /\ On(s, r) \in EffectObjects(Blurs)
        /\ e.background \in EffectObjects(Blurs) /\ e.blur \in EffectObjects(Blurs)
    BY DEF Nothing, On, EffectObjects, EffectRecords
  <2>1. CASE s = 0
    BY <1>1, <1>3, <2>1 DEF installBlur, surfaceForWindow
  <2>2. CASE s # 0 /\ "background" \in available /\ supported
    <3>1. PICK c : c = On(IF e.background = Nothing THEN s ELSE e.background.surface, r)
      OBVIOUS
    <3>2. c \in EffectObjects(Blurs)
      BY <2>0, <3>1 DEF On, EffectObjects
    <3>3. g = [e EXCEPT !.blur = Nothing, !.background = c]
      BY <1>1, <1>3, <2>2, <3>1 DEF installBlur, surfaceForWindow, InstallBackground, EffectRecords
    <3> QED BY <2>0, <2>2, <3>1, <3>2, <3>3
  <2>3. CASE s # 0 /\ "background" \in available /\ ~supported
    <3>1. g = [e EXCEPT !.blur = Nothing, !.background = e.background]
      BY <1>1, <1>3, <2>3 DEF installBlur, surfaceForWindow, EffectRecords
    <3> QED BY <2>0, <2>3, <3>1
  <2>4. CASE s # 0 /\ "background" \notin available /\ "blur" \in available
    <3>1. PICK b : b = IF r = None THEN Nothing ELSE On(s, r)
      OBVIOUS
    <3>2. g = [e EXCEPT !.blur = b, !.background = Nothing]
      BY <1>1, <1>3, <2>4, <3>1 DEF installBlur, surfaceForWindow, resetBlur, EffectRecords
    <3> QED BY <2>0, <2>4, <3>1, <3>2
  <2>5. CASE s # 0 /\ "background" \notin available /\ "blur" \notin available
    BY <1>1, <1>3, <2>5 DEF installBlur, surfaceForWindow
  <2> QED BY <2>1, <2>2, <2>3, <2>4, <2>5
<1>5. CASE g = e /\ (s = 0 \/ {"background", "blur"} \cap available = {})
  BY <1>2, <1>3, <1>5 DEF BlurInstalled
<1>6. ASSUME NEW b \in EffectObjects(Blurs), NEW c \in EffectObjects(Blurs), s # 0,
             g = [e EXCEPT !.blur = b, !.background = c],
             b \in {Nothing, On(s, r)}, r = None => b = Nothing,
             \/ /\ "background" \in available /\ supported
                /\ c = On(IF e.background = Nothing THEN s ELSE e.background.surface, r)
             \/ "background" \in available /\ ~supported /\ c = e.background
             \/ /\ "background" \notin available /\ c = Nothing
                /\ r # None => b = On(s, r)
      PROVE  /\ g \in EffectRecords
             /\ BlurBelongs(g, q) /\ BlurInstalled(g, q, available, gone, supported)
             /\ g.blurRegion = e.blurRegion /\ g.contrastData = e.contrastData
             /\ g.slideData = e.slideData /\ g.contrast = e.contrast /\ g.slide = e.slide
             /\ g.watched = e.watched /\ g.surfaceWatcher = e.surfaceWatcher
  <2>1. /\ g \in EffectRecords /\ g.blur = b /\ g.background = c
        /\ g.blurRegion = e.blurRegion /\ g.contrastData = e.contrastData
        /\ g.slideData = e.slideData /\ g.contrast = e.contrast /\ g.slide = e.slide
        /\ g.watched = e.watched /\ g.surfaceWatcher = e.surfaceWatcher
    BY <1>6 DEF EffectRecords
  <2>2. /\ On(s, r).surface = s /\ On(s, r).data = r
        /\ Nothing.surface = 0 /\ Nothing.data = None
    BY DEF On, Nothing
  <2>3. /\ c.surface = 0 => c = Nothing
        /\ r = None => c.data = None
    BY <1>6, <2>2 DEF On, BlurBelongs
  <2>4. BlurBelongs(g, q)
    BY <1>1, <1>6, <2>1, <2>2, <2>3 DEF BlurBelongs
  <2>5. "background" \in available /\ supported /\ c.surface \in {0, s} => c = On(s, r)
    BY <1>6 DEF On, BlurBelongs
  <2>6. BlurInstalled(g, q, available, gone, supported)
    BY <1>1, <1>6, <2>1, <2>5 DEF BlurInstalled
  <2> QED BY <2>1, <2>4, <2>6
<1> QED BY <1>3, <1>4, <1>5, <1>6

LEMMA InstallContrastKept ==
  ASSUME NEW e \in EffectRecords, NEW q \in QWindows, WellFormed(q), ContrastBelongs(e, q),
         NEW available, NEW d \in Contrasts \cup {None}, e.contrastData = d
  PROVE  LET g == installContrast(e, q, available, d)
         IN /\ g \in EffectRecords
            /\ ContrastBelongs(g, q) /\ ContrastInstalled(g, q, available)
            /\ g.blurRegion = e.blurRegion /\ g.contrastData = e.contrastData
            /\ g.slideData = e.slideData /\ g.blur = e.blur /\ g.background = e.background
            /\ g.slide = e.slide
            /\ g.watched = e.watched /\ g.surfaceWatcher = e.surfaceWatcher
<1>1. PICK s \in Nat : s = q.surface
  BY DEF QWindows
<1>2. q.exposed => s # 0
  BY <1>1 DEF WellFormed
<1>3. PICK g : g = installContrast(e, q, available, d)
  OBVIOUS
<1>4. CASE "contrast" \notin available \/ s = 0
  BY <1>1, <1>2, <1>3, <1>4 DEF installContrast, surfaceForWindow, ContrastInstalled
<1>5. CASE "contrast" \in available /\ s # 0
  <2>1. PICK b : b = IF d = None THEN Nothing ELSE On(s, d)
    OBVIOUS
  <2>2. b \in EffectObjects(Contrasts)
    BY <2>1 DEF On, Nothing, EffectObjects
  <2>3. g = [e EXCEPT !.contrast = b]
    BY <1>1, <1>3, <1>5, <2>1 DEF installContrast, surfaceForWindow
  <2>4. /\ g \in EffectRecords /\ g.contrast = b
        /\ g.blurRegion = e.blurRegion /\ g.contrastData = e.contrastData
        /\ g.slideData = e.slideData /\ g.blur = e.blur /\ g.background = e.background
        /\ g.slide = e.slide
        /\ g.watched = e.watched /\ g.surfaceWatcher = e.surfaceWatcher
    BY <2>2, <2>3 DEF EffectRecords
  <2>5. ContrastBelongs(g, q)
    BY <1>1, <1>5, <2>1, <2>4 DEF ContrastBelongs, On
  <2>6. ContrastInstalled(g, q, available)
    BY <1>1, <2>1, <2>4 DEF ContrastInstalled
  <2> QED BY <1>3, <2>4, <2>5, <2>6
<1> QED BY <1>4, <1>5

LEMMA InstallSlideKept ==
  ASSUME NEW e \in EffectRecords, NEW q \in QWindows, WellFormed(q), NEW n \in Nat,
         NEW available, SlideBelongs(e, q, n, available) \/ (e.slide.surface < n /\ "slide" \in available),
         "slide" \notin available => e.slide = Nothing,
         q.surface < n,
         NEW d \in Slides \cup {None}, e.slideData = d
  PROVE  LET g == installSlide(e, q, available, d)
         IN /\ g \in EffectRecords
            /\ SlideBelongs(g, q, n, available) /\ SlideInstalled(g, q, available)
            /\ g.blurRegion = e.blurRegion /\ g.contrastData = e.contrastData
            /\ g.slideData = e.slideData /\ g.blur = e.blur /\ g.background = e.background
            /\ g.contrast = e.contrast
            /\ g.watched = e.watched /\ g.surfaceWatcher = e.surfaceWatcher
<1>1. PICK s \in Nat : s = q.surface
  BY DEF QWindows
<1>2. q.exposed => s # 0
  BY <1>1 DEF WellFormed
<1>3. PICK g : g = installSlide(e, q, available, d)
  OBVIOUS
<1>4. CASE "slide" \notin available \/ s = 0
  BY <1>1, <1>2, <1>3, <1>4 DEF installSlide, surfaceForWindow, SlideInstalled, SlideBelongs, Nothing, On
<1>5. CASE "slide" \in available /\ s # 0
  <2>1. PICK b : b = On(s, d)
    OBVIOUS
  <2>2. b \in EffectObjects(Slides)
    BY <2>1 DEF On, EffectObjects
  <2>3. g = [e EXCEPT !.slide = b]
    BY <1>1, <1>3, <1>5, <2>1 DEF installSlide, surfaceForWindow
  <2>4. /\ g \in EffectRecords /\ g.slide = b
        /\ g.blurRegion = e.blurRegion /\ g.contrastData = e.contrastData
        /\ g.slideData = e.slideData /\ g.blur = e.blur /\ g.background = e.background
        /\ g.contrast = e.contrast
        /\ g.watched = e.watched /\ g.surfaceWatcher = e.surfaceWatcher
    BY <2>2, <2>3 DEF EffectRecords
  <2> QED BY <1>1, <1>3, <1>5, <2>1, <2>4 DEF SlideBelongs, SlideInstalled, On
<1> QED BY <1>4, <1>5

\* What every window step does to the effects first: objects of a surface that goes are
\* dropped, and the connection follows the platform window.
LEMMA EffectsFollow ==
  ASSUME WindowInv, NEW w \in topic.windows, NEW q \in QWindows, NEW x, Turns(w, q, x),
         NEW e, EffectsRight(e, window[w], next, globals, lost, supportsBlur),
         NEW n \in Nat, n = IF next \in {q.platform, q.surface} THEN next + 1 ELSE next,
         NEW e1, e1 = IF SurfaceDestroyed(w, q) /\ e.surfaceWatcher = window[w].platform
                        THEN resetContrast(resetBlur(e)) ELSE e,
         NEW e2, e2 = IF e1.watched /\ PlatformCreated(w, q) THEN surfaceCreated(e1, q) ELSE e1
  PROVE  /\ e2 \in EffectRecords /\ (q.alive => Tracked(e2, q))
         /\ (~e2.watched => Tracked(e2, q))
         /\ BlurBelongs(e2, q) /\ ContrastBelongs(e2, q) /\ SlideBelongs(e2, q, n, globals)
         /\ q = window[w] => e2 = e
<1>1. PICK p \in QWindows : p = window[w] /\ WellFormed(p) /\ p.platform < next /\ p.surface < next
  BY DEF WindowInv
<1> DEFINE gone == SurfaceDestroyed(w, q) /\ e.surfaceWatcher = p.platform
<1>2. PICK b \in EffectObjects(Blurs), c \in EffectObjects(Blurs), d \in EffectObjects(Contrasts),
           i \in Nat :
        /\ b = IF gone THEN Nothing ELSE e.blur
        /\ c = IF gone THEN Nothing ELSE e.background
        /\ d = IF gone THEN Nothing ELSE e.contrast
        /\ i = IF e.watched /\ PlatformCreated(w, q) THEN q.platform ELSE e.surfaceWatcher
  <2>1. /\ Nothing \in EffectObjects(Blurs) /\ Nothing \in EffectObjects(Contrasts)
        /\ e.blur \in EffectObjects(Blurs) /\ e.background \in EffectObjects(Blurs)
        /\ e.contrast \in EffectObjects(Contrasts)
        /\ q.platform \in Nat /\ e.surfaceWatcher \in Nat
    BY DEF Nothing, On, EffectObjects, EffectRecords, EffectsRight, QWindows
  <2> HIDE DEF gone
  <2> QED BY <2>1
<1>3. e2 = [e EXCEPT !.blur = b, !.background = c, !.contrast = d, !.surfaceWatcher = i]
  <2>1. e \in EffectRecords
    BY DEF EffectsRight
  <2>2. e1 = [e EXCEPT !.blur = b, !.background = c, !.contrast = d]
    <3>1. CASE gone
      BY <1>1, <1>2, <2>1, <3>1 DEF resetContrast, resetBlur, EffectRecords
    <3>2. CASE ~gone
      BY <1>1, <1>2, <2>1, <3>2 DEF EffectRecords
    <3> QED BY <3>1, <3>2
  <2> HIDE DEF gone
  <2>3. e1.watched = e.watched /\ e1.surfaceWatcher = e.surfaceWatcher
    BY <2>1, <2>2 DEF EffectRecords
  <2>4. e2 = [e1 EXCEPT !.surfaceWatcher = i]
    <3>1. CASE e1.watched /\ PlatformCreated(w, q)
      BY <1>2, <2>3, <3>1 DEF surfaceCreated
    <3>2. CASE ~(e1.watched /\ PlatformCreated(w, q))
      BY <1>2, <2>1, <2>2, <2>3, <3>2 DEF EffectRecords
    <3> QED BY <3>1, <3>2
  <2> QED BY <2>1, <2>2, <2>4 DEF EffectRecords
<1>4. /\ e2 \in EffectRecords /\ e2.blur = b /\ e2.background = c /\ e2.contrast = d
      /\ e2.surfaceWatcher = i /\ e2.watched = e.watched /\ e2.slide = e.slide
      /\ e2.blurRegion = e.blurRegion /\ e2.contrastData = e.contrastData
      /\ e2.slideData = e.slideData
  BY <1>3 DEF EffectRecords, EffectsRight
<1>5. (q.alive \/ ~e.watched) => Tracked(e2, q)
  <2>1. Tracked(e, p)
    BY <1>1 DEF EffectsRight
  <2>2. e.watched /\ q.platform # 0 => i = q.platform
    BY <1>1, <1>2, <2>1 DEF Tracked, PlatformCreated, Turns
  <2>3. ~e.watched => i = 0
    BY <1>2, <2>1 DEF Tracked
  <2> QED BY <1>4, <2>1, <2>2, <2>3 DEF Tracked
<1>6. SurfaceDestroyed(w, q) => gone \/ (e.blur = Nothing /\ e.contrast = Nothing)
  <2>1. SUFFICES ASSUME SurfaceDestroyed(w, q), e.surfaceWatcher # p.platform
                 PROVE  e.blur = Nothing /\ e.contrast = Nothing
    BY <1>1
  <2>2. p.platform # 0
    BY <1>1, <2>1 DEF SurfaceDestroyed, WellFormed
  <2>3. e.blurRegion = None /\ e.contrastData = None
    BY <1>1, <2>1, <2>2 DEF EffectsRight, Tracked
  <2> QED BY <2>3 DEF EffectsRight, BlurBelongs, ContrastBelongs
<1>7. b # Nothing => b = e.blur /\ e.blurRegion # None /\ b.surface = q.surface /\ q.surface # 0
  BY <1>1, <1>2, <1>6 DEF SurfaceDestroyed, EffectsRight, BlurBelongs
<1>8. d # Nothing => d = e.contrast /\ e.contrastData # None
                     /\ d.surface = q.surface /\ q.surface # 0
  BY <1>1, <1>2, <1>6 DEF SurfaceDestroyed, EffectsRight, ContrastBelongs
<1>9. (e.blurRegion = None => c.data = None) /\ (c.surface = 0 => c = Nothing)
  BY <1>2 DEF EffectsRight, BlurBelongs, Nothing, On
<1>10. SlideBelongs(e2, q, n, globals)
  <2>1. e.slide.surface \in Nat /\ e.slide.surface < next /\ next <= n /\ q.surface \in Nat
        /\ next \in Nat
    BY DEF EffectsRight, SlideBelongs, EffectRecords, EffectObjects, QWindows, WindowInv
  <2>2. q.surface # 0 => q.surface = p.surface \/ q.surface = next
    BY <1>1 DEF Turns
  <2> QED BY <1>1, <1>4, <2>1, <2>2 DEF EffectsRight, SlideBelongs
<1>11. q = p => e2 = e
  <2>1. q = p => ~SurfaceDestroyed(w, q) /\ ~PlatformCreated(w, q)
    BY <1>1 DEF SurfaceDestroyed, PlatformCreated
  <2> QED BY <1>1, <2>1
<1> QED BY <1>1, <1>4, <1>5, <1>7, <1>8, <1>9, <1>10, <1>11 DEF BlurBelongs, ContrastBelongs

LEMMA EffectsTurns ==
  ASSUME WindowInv, NEW w \in topic.windows, NEW q \in QWindows, NEW x, Turns(w, q, x),
         NEW e, EffectsRight(e, window[w], next, globals, lost, supportsBlur),
         NEW n \in Nat, n = IF next \in {q.platform, q.surface} THEN next + 1 ELSE next,
         supportsBlur \in BOOLEAN
  PROVE  EffectsRight(EffectsAfter(e, w, q, x), q, n, globals, lost, supportsBlur)
<1>0. WellFormed(q) /\ q.surface < n /\ n # 0
  BY DEF Turns, WindowInv, QWindows
<1>1. PICK e1 : e1 = IF SurfaceDestroyed(w, q) /\ e.surfaceWatcher = window[w].platform
                       THEN resetContrast(resetBlur(e)) ELSE e
  OBVIOUS
<1>2. PICK e2 : e2 = IF e1.watched /\ PlatformCreated(w, q) THEN surfaceCreated(e1, q) ELSE e1
  OBVIOUS
<1>3. /\ e2 \in EffectRecords /\ (q.alive => Tracked(e2, q))
      /\ (~e2.watched => Tracked(e2, q))
      /\ BlurBelongs(e2, q) /\ ContrastBelongs(e2, q) /\ SlideBelongs(e2, q, n, globals)
      /\ q = window[w] => e2 = e
  BY <1>1, <1>2, EffectsFollow
<1>4. PICK e3 : e3 = IF e2.blurRegion = None THEN e2
                     ELSE installBlur(e2, q, globals, supportsBlur, e2.blurRegion)
  OBVIOUS
<1>5. PICK e4 : e4 = IF e3.contrastData = None THEN e3
                     ELSE installContrast(e3, q, globals, e3.contrastData)
  OBVIOUS
<1>6. PICK e5 : e5 = IF e4.slideData = None THEN e4 ELSE installSlide(e4, q, globals, e4.slideData)
  OBVIOUS
<1>7. PICK g : g = EffectsAfter(e, w, q, x)
  OBVIOUS
<1>8. g = CASE ~q.alive /\ e2.watched -> NoEffects
            [] q.alive /\ e2.watched /\ x /\ q.exposed -> e5
            [] OTHER -> e2
  <2>1. e5 = exposeWindow(e2, q)
    BY <1>4, <1>5, <1>6 DEF exposeWindow
  <2> QED BY <1>1, <1>2, <1>7, <2>1 DEF EffectsAfter
<1>9. CASE ~q.alive /\ e2.watched
  <2>1. g = NoEffects /\ ~q.exposed
    BY <1>0, <1>8, <1>9 DEF WellFormed
  <2>2. NoEffects \in EffectRecords
    BY DEF NoEffects, EffectRecords, EffectObjects, Nothing, On
  <2>3. /\ NoEffects.blurRegion = None /\ NoEffects.contrastData = None
        /\ NoEffects.slideData = None /\ NoEffects.blur = Nothing /\ NoEffects.slide = Nothing
        /\ NoEffects.contrast = Nothing /\ NoEffects.background = Nothing
        /\ NoEffects.watched = FALSE /\ NoEffects.surfaceWatcher = 0
        /\ Nothing.surface = 0 /\ Nothing.data = None
    BY DEF NoEffects, Nothing, On
  <2> QED BY <1>0, <1>7, <2>1, <2>2, <2>3
          DEF EffectsRight, Tracked, BlurBelongs, BlurInstalled, ContrastBelongs,
              ContrastInstalled, SlideBelongs, SlideInstalled
<1>10. CASE q.alive /\ e2.watched /\ x /\ q.exposed
  <2>1. /\ e2.blurRegion \in Blurs \cup {None} /\ e2.contrastData \in Contrasts \cup {None}
        /\ e2.slideData \in Slides \cup {None}
    BY <1>3 DEF EffectRecords
  <2>2. /\ e3 \in EffectRecords
        /\ BlurBelongs(e3, q) /\ BlurInstalled(e3, q, globals, lost, supportsBlur)
        /\ e3.blurRegion = e2.blurRegion /\ e3.contrastData = e2.contrastData
        /\ e3.slideData = e2.slideData /\ e3.contrast = e2.contrast /\ e3.slide = e2.slide
        /\ e3.watched = e2.watched /\ e3.surfaceWatcher = e2.surfaceWatcher
    <3>1. CASE e2.blurRegion = None
      BY <1>3, <1>4, <3>1 DEF BlurInstalled
    <3>2. CASE e2.blurRegion # None
      BY <1>0, <1>3, <1>4, <2>1, <3>2, InstallBlurKept
    <3> QED BY <3>1, <3>2
  <2>3. ContrastBelongs(e3, q)
    BY <1>3, <2>2 DEF ContrastBelongs
  <2>4. /\ e4 \in EffectRecords
        /\ ContrastBelongs(e4, q) /\ ContrastInstalled(e4, q, globals)
        /\ e4.blurRegion = e3.blurRegion /\ e4.contrastData = e3.contrastData
        /\ e4.slideData = e3.slideData /\ e4.blur = e3.blur /\ e4.background = e3.background
        /\ e4.slide = e3.slide
        /\ e4.watched = e3.watched /\ e4.surfaceWatcher = e3.surfaceWatcher
    <3>1. CASE e3.contrastData = None
      BY <1>5, <2>2, <2>3, <3>1 DEF ContrastInstalled
    <3>2. CASE e3.contrastData # None
      BY <1>0, <1>5, <2>1, <2>2, <2>3, <3>2, InstallContrastKept
    <3> QED BY <3>1, <3>2
  <2>5. SlideBelongs(e4, q, n, globals)
    BY <1>3, <2>2, <2>4 DEF SlideBelongs
  <2>6. /\ e5 \in EffectRecords
        /\ SlideBelongs(e5, q, n, globals) /\ SlideInstalled(e5, q, globals)
        /\ e5.blurRegion = e4.blurRegion /\ e5.contrastData = e4.contrastData
        /\ e5.slideData = e4.slideData /\ e5.blur = e4.blur /\ e5.background = e4.background
        /\ e5.contrast = e4.contrast
        /\ e5.watched = e4.watched /\ e5.surfaceWatcher = e4.surfaceWatcher
    <3>1. CASE e4.slideData = None
      BY <1>6, <2>4, <2>5, <3>1 DEF SlideInstalled
    <3>2. CASE e4.slideData # None
      <4>1. "slide" \notin globals => e4.slide = Nothing
        BY <2>5 DEF SlideBelongs
      <4> QED BY <1>0, <1>6, <2>1, <2>2, <2>4, <2>5, <3>2, <4>1, InstallSlideKept
    <3> QED BY <3>1, <3>2
  <2>7. Tracked(e5, q)
    BY <1>3, <1>10, <2>2, <2>4, <2>6 DEF Tracked
  <2>8. /\ BlurBelongs(e5, q) /\ BlurInstalled(e5, q, globals, lost, supportsBlur)
        /\ ContrastBelongs(e5, q) /\ ContrastInstalled(e5, q, globals)
    BY <2>2, <2>4, <2>6 DEF BlurBelongs, BlurInstalled, ContrastBelongs, ContrastInstalled
  <2>9. g = e5
    BY <1>8, <1>10
  <2> QED BY <1>7, <2>6, <2>7, <2>8, <2>9 DEF EffectsRight
<1>11. CASE ~(~q.alive /\ e2.watched) /\ ~(q.alive /\ e2.watched /\ x /\ q.exposed)
  <2>1. g = e2 /\ Tracked(e2, q)
    BY <1>3, <1>8, <1>11
  <2>2. q.exposed => q.alive
    BY <1>0 DEF WellFormed
  <2>3. q.exposed => (e2.blurRegion = None /\ e2.contrastData = None /\ e2.slideData = None)
                     \/ (q = window[w] /\ e2 = e)
    BY <1>3, <1>11, <2>1, <2>2 DEF Turns, Tracked
  <2>4. /\ BlurInstalled(e2, q, globals, lost, supportsBlur)
        /\ ContrastInstalled(e2, q, globals) /\ SlideInstalled(e2, q, globals)
    BY <2>3 DEF EffectsRight, BlurInstalled, ContrastInstalled, SlideInstalled
  <2> QED BY <1>3, <1>7, <2>1, <2>4 DEF EffectsRight
<1> QED BY <1>9, <1>10, <1>11

LEMMA TrackKept ==
  ASSUME NEW e \in EffectRecords, NEW q \in QWindows, Tracked(e, q)
  PROVE  LET g == trackWindow(e, q)
         IN /\ g \in EffectRecords /\ g.watched
            /\ q.platform # 0 => g.surfaceWatcher = q.platform
            /\ g.blurRegion = e.blurRegion /\ g.contrastData = e.contrastData
            /\ g.slideData = e.slideData /\ g.blur = e.blur /\ g.background = e.background
            /\ g.contrast = e.contrast /\ g.slide = e.slide
<1>1. PICK g : g = trackWindow(e, q)
  OBVIOUS
<1>2. PICK i \in Nat : i = IF e.surfaceWatcher = 0 THEN q.platform ELSE e.surfaceWatcher
  BY DEF EffectRecords, QWindows
<1>3. g = [e EXCEPT !.watched = TRUE, !.surfaceWatcher = i]
  BY <1>1, <1>2 DEF trackWindow
<1>4. /\ g \in EffectRecords /\ g.watched = TRUE /\ g.surfaceWatcher = i
      /\ g.blurRegion = e.blurRegion /\ g.contrastData = e.contrastData
      /\ g.slideData = e.slideData /\ g.blur = e.blur /\ g.background = e.background
      /\ g.contrast = e.contrast /\ g.slide = e.slide
  BY <1>3 DEF EffectRecords
<1>5. q.platform # 0 => i = q.platform
  BY <1>2 DEF Tracked
<1> QED BY <1>1, <1>4, <1>5

LEMMA ReleaseKept ==
  ASSUME NEW e \in EffectRecords, NEW q \in QWindows, e.watched, q.alive,
         q.platform # 0 => e.surfaceWatcher = q.platform
  PROVE  LET g == releaseWindow(e)
         IN /\ g \in EffectRecords /\ Tracked(g, q)
            /\ g.blurRegion = e.blurRegion /\ g.contrastData = e.contrastData
            /\ g.slideData = e.slideData /\ g.blur = e.blur /\ g.background = e.background
            /\ g.contrast = e.contrast /\ g.slide = e.slide
<1>1. PICK g : g = releaseWindow(e)
  OBVIOUS
<1>2. CASE e.blurRegion # None \/ e.contrastData # None \/ e.slideData # None
  <2>1. g = e
    <3>1. {e.blurRegion, e.contrastData, e.slideData} # {None}
      BY <1>2
    <3> QED BY <1>1, <3>1 DEF releaseWindow
  <2> QED BY <1>1, <1>2, <2>1 DEF Tracked
<1>3. CASE ~(e.blurRegion # None \/ e.contrastData # None \/ e.slideData # None)
  <2>1. g = [e EXCEPT !.watched = FALSE, !.surfaceWatcher = 0]
    <3>1. {e.blurRegion, e.contrastData, e.slideData} = {None}
      BY <1>3
    <3> QED BY <1>1, <3>1 DEF releaseWindow
  <2>2. /\ g \in EffectRecords /\ g.watched = FALSE /\ g.surfaceWatcher = 0
        /\ g.blurRegion = e.blurRegion /\ g.contrastData = e.contrastData
        /\ g.slideData = e.slideData /\ g.blur = e.blur /\ g.background = e.background
        /\ g.contrast = e.contrast /\ g.slide = e.slide
    BY <2>1 DEF EffectRecords
  <2> QED BY <1>1, <1>3, <2>2 DEF Tracked
<1> QED BY <1>2, <1>3

\* What a call about the window w makes of its effects
EffectSet(w, g) == effects' = [effects EXCEPT ![w] = g] /\ UNCHANGED supportsBlur

LEMMA BlurCalls ==
  ASSUME EffectsInv, WindowInv, NEW w \in Windows, window[w].alive,
         NEW r \in Blurs \cup {None}, enableBlurBehind(w, r)
  PROVE  \E g : EffectSet(w, g) /\ EffectsRight(g, window[w], next, globals, lost, supportsBlur)
<1>1. PICK e : e = effects[w] /\ EffectsRight(e, window[w], next, globals, lost, supportsBlur)
  BY DEF EffectsInv
<1>2. PICK q \in QWindows : q = window[w] /\ WellFormed(q) /\ q.alive
  BY DEF WindowInv
<1>3. PICK t : t = trackWindow(e, q)
  OBVIOUS
<1>4. e \in EffectRecords /\ Tracked(e, q)
  BY <1>1, <1>2 DEF EffectsRight
<1>5. /\ t \in EffectRecords /\ t.watched
      /\ q.platform # 0 => t.surfaceWatcher = q.platform
      /\ t.blurRegion = e.blurRegion /\ t.contrastData = e.contrastData
      /\ t.slideData = e.slideData /\ t.blur = e.blur /\ t.background = e.background
      /\ t.contrast = e.contrast /\ t.slide = e.slide
  BY <1>3, <1>4, TrackKept
<1>6. PICK a : a = [t EXCEPT !.blurRegion = r]
  OBVIOUS
<1>7. /\ a \in EffectRecords /\ a.watched /\ a.surfaceWatcher = t.surfaceWatcher
      /\ a.blurRegion = r /\ a.contrastData = e.contrastData
      /\ a.slideData = e.slideData /\ a.blur = e.blur /\ a.background = e.background
      /\ a.contrast = e.contrast /\ a.slide = e.slide
  BY <1>5, <1>6 DEF EffectRecords
<1>8. PICK d0 : d0 = resetBlur([e EXCEPT !.blurRegion = None])
  OBVIOUS
<1>9. /\ d0 \in EffectRecords /\ d0.watched = e.watched /\ d0.surfaceWatcher = e.surfaceWatcher
      /\ d0.blurRegion = None /\ d0.contrastData = e.contrastData
      /\ d0.slideData = e.slideData /\ d0.blur = Nothing /\ d0.background = Nothing
      /\ d0.contrast = e.contrast /\ d0.slide = e.slide
  BY <1>4, <1>8 DEF resetBlur, EffectRecords, EffectObjects, Nothing, On
<1>10. PICK d : d = releaseWindow(d0)
  OBVIOUS
<1>11. e.blurRegion # None =>
        /\ d \in EffectRecords /\ Tracked(d, q)
        /\ d.blurRegion = None /\ d.contrastData = e.contrastData
        /\ d.slideData = e.slideData /\ d.blur = Nothing /\ d.background = Nothing
        /\ d.contrast = e.contrast /\ d.slide = e.slide
  <2>1. SUFFICES ASSUME e.blurRegion # None
                 PROVE  d0.watched /\ (q.platform # 0 => d0.surfaceWatcher = q.platform)
    BY <1>2, <1>9, <1>10, ReleaseKept
  <2> QED BY <1>4, <1>9, <2>1 DEF Tracked
<1>12. PICK g : g = IF r = e.blurRegion THEN a
                    ELSE installBlur(IF r = None THEN d ELSE a, q, globals, supportsBlur, r)
  OBVIOUS
<1>13. EffectSet(w, g) /\ (r # None \/ e.blurRegion # None)
  BY <1>1, <1>2, <1>3, <1>6, <1>8, <1>10, <1>12 DEF enableBlurBehind, EffectSet
<1>14. CASE r = e.blurRegion
  <2>1. g = a /\ r # None
    BY <1>12, <1>13, <1>14
  <2>2. Tracked(a, q)
    BY <1>2, <1>5, <1>7, <2>1 DEF Tracked
  <2> QED BY <1>1, <1>2, <1>7, <1>13, <1>14, <2>1, <2>2
          DEF EffectsRight, BlurBelongs, BlurInstalled, ContrastBelongs, ContrastInstalled,
              SlideBelongs, SlideInstalled
<1>15. CASE r # e.blurRegion
  <2>1. PICK f : f = IF r = None THEN d ELSE a
    OBVIOUS
  <2>2. /\ f \in EffectRecords /\ Tracked(f, q) /\ f.blurRegion = r
        /\ f.contrastData = e.contrastData /\ f.slideData = e.slideData
        /\ f.contrast = e.contrast /\ f.slide = e.slide
    <3>1. CASE r = None
      BY <1>11, <1>13, <2>1, <3>1
    <3>2. CASE r # None
      <4>1. Tracked(a, q)
        BY <1>2, <1>5, <1>7, <3>2 DEF Tracked
      <4> QED BY <1>7, <2>1, <3>2, <4>1
    <3> QED BY <3>1, <3>2
  <2>3. BlurBelongs(f, q) /\ (r = None => f.blur = Nothing)
    <3>1. CASE r = None
      BY <1>11, <1>13, <2>1, <3>1 DEF BlurBelongs, Nothing, On
    <3>2. CASE r # None
      BY <1>1, <1>2, <1>7, <2>1, <3>2 DEF BlurBelongs, EffectsRight
    <3> QED BY <3>1, <3>2
  <2>4. g = installBlur(f, q, globals, supportsBlur, r) /\ supportsBlur \in BOOLEAN
    BY <1>12, <1>15, <2>1 DEF EffectsInv
  <2>5. /\ g \in EffectRecords
        /\ BlurBelongs(g, q) /\ BlurInstalled(g, q, globals, lost, supportsBlur)
        /\ g.blurRegion = f.blurRegion /\ g.contrastData = f.contrastData
        /\ g.slideData = f.slideData /\ g.contrast = f.contrast /\ g.slide = f.slide
        /\ g.watched = f.watched /\ g.surfaceWatcher = f.surfaceWatcher
    BY <1>2, <2>2, <2>3, <2>4, InstallBlurKept
  <2>6. Tracked(g, q)
    BY <2>2, <2>5 DEF Tracked
  <2>7. /\ ContrastBelongs(g, q) /\ ContrastInstalled(g, q, globals)
        /\ SlideBelongs(g, q, next, globals) /\ SlideInstalled(g, q, globals)
    BY <1>1, <1>2, <2>2, <2>5
       DEF EffectsRight, ContrastBelongs, ContrastInstalled, SlideBelongs, SlideInstalled
  <2> QED BY <1>2, <1>13, <2>5, <2>6, <2>7 DEF EffectsRight
<1> QED BY <1>14, <1>15

LEMMA ContrastCalls ==
  ASSUME EffectsInv, WindowInv, NEW w \in Windows, window[w].alive,
         NEW r \in Contrasts \cup {None}, enableBackgroundContrast(w, r)
  PROVE  \E g : EffectSet(w, g) /\ EffectsRight(g, window[w], next, globals, lost, supportsBlur)
<1>1. PICK e : e = effects[w] /\ EffectsRight(e, window[w], next, globals, lost, supportsBlur)
  BY DEF EffectsInv
<1>2. PICK q \in QWindows : q = window[w] /\ WellFormed(q) /\ q.alive
  BY DEF WindowInv
<1>3. PICK t : t = trackWindow(e, q)
  OBVIOUS
<1>4. e \in EffectRecords /\ Tracked(e, q)
  BY <1>1, <1>2 DEF EffectsRight
<1>5. /\ t \in EffectRecords /\ t.watched
      /\ q.platform # 0 => t.surfaceWatcher = q.platform
      /\ t.blurRegion = e.blurRegion /\ t.contrastData = e.contrastData
      /\ t.slideData = e.slideData /\ t.blur = e.blur /\ t.background = e.background
      /\ t.contrast = e.contrast /\ t.slide = e.slide
  BY <1>3, <1>4, TrackKept
<1>6. PICK a : a = [t EXCEPT !.contrastData = r]
  OBVIOUS
<1>7. /\ a \in EffectRecords /\ a.watched /\ a.surfaceWatcher = t.surfaceWatcher
      /\ a.contrastData = r /\ a.blurRegion = e.blurRegion /\ a.slideData = e.slideData
      /\ a.blur = e.blur /\ a.background = e.background
      /\ a.contrast = e.contrast /\ a.slide = e.slide
  BY <1>5, <1>6 DEF EffectRecords
<1>8. PICK d0 : d0 = resetContrast([e EXCEPT !.contrastData = None])
  OBVIOUS
<1>9. /\ d0 \in EffectRecords /\ d0.watched = e.watched /\ d0.surfaceWatcher = e.surfaceWatcher
      /\ d0.contrastData = None /\ d0.blurRegion = e.blurRegion /\ d0.slideData = e.slideData
      /\ d0.blur = e.blur /\ d0.background = e.background
      /\ d0.slide = e.slide /\ d0.contrast = Nothing
  BY <1>4, <1>8 DEF resetContrast, EffectRecords, EffectObjects, Nothing, On
<1>10. PICK d : d = releaseWindow(d0)
  OBVIOUS
<1>11. e.contrastData # None =>
        /\ d \in EffectRecords /\ Tracked(d, q)
        /\ d.contrastData = None /\ d.blurRegion = e.blurRegion /\ d.slideData = e.slideData
        /\ d.blur = e.blur /\ d.background = e.background
        /\ d.slide = e.slide /\ d.contrast = Nothing
  <2>1. SUFFICES ASSUME e.contrastData # None
                 PROVE  d0.watched /\ (q.platform # 0 => d0.surfaceWatcher = q.platform)
    BY <1>2, <1>9, <1>10, ReleaseKept
  <2> QED BY <1>4, <1>9, <2>1 DEF Tracked
<1>12. PICK g : g = IF r = e.contrastData THEN a
                    ELSE installContrast(IF r = None THEN d ELSE a, q, globals, r)
  OBVIOUS
<1>13. EffectSet(w, g) /\ (r # None \/ e.contrastData # None)
  BY <1>1, <1>2, <1>3, <1>6, <1>8, <1>10, <1>12 DEF enableBackgroundContrast, EffectSet
<1>14. CASE r = e.contrastData
  <2>1. g = a /\ r # None
    BY <1>12, <1>13, <1>14
  <2>2. Tracked(a, q)
    BY <1>2, <1>5, <1>7, <2>1 DEF Tracked
  <2> QED BY <1>1, <1>2, <1>7, <1>13, <1>14, <2>1, <2>2
          DEF EffectsRight, BlurBelongs, BlurInstalled, ContrastBelongs, ContrastInstalled,
              SlideBelongs, SlideInstalled
<1>15. CASE r # e.contrastData
  <2>1. PICK f : f = IF r = None THEN d ELSE a
    OBVIOUS
  <2>2. /\ f \in EffectRecords /\ Tracked(f, q) /\ f.contrastData = r
        /\ f.blurRegion = e.blurRegion /\ f.slideData = e.slideData
        /\ f.blur = e.blur /\ f.background = e.background
        /\ f.slide = e.slide
    <3>1. CASE r = None
      BY <1>11, <1>13, <2>1, <3>1
    <3>2. CASE r # None
      <4>1. Tracked(a, q)
        BY <1>2, <1>5, <1>7, <3>2 DEF Tracked
      <4> QED BY <1>7, <2>1, <3>2, <4>1
    <3> QED BY <3>1, <3>2
  <2>3. ContrastBelongs(f, q)
    <3>1. CASE r = None
      BY <1>11, <1>13, <2>1, <3>1 DEF ContrastBelongs
    <3>2. CASE r # None
      BY <1>1, <1>2, <1>7, <2>1, <3>2 DEF ContrastBelongs, EffectsRight
    <3> QED BY <3>1, <3>2
  <2>4. g = installContrast(f, q, globals, r)
    BY <1>12, <1>15, <2>1
  <2>5. /\ g \in EffectRecords
        /\ ContrastBelongs(g, q) /\ ContrastInstalled(g, q, globals)
        /\ g.blurRegion = f.blurRegion /\ g.contrastData = f.contrastData
        /\ g.slideData = f.slideData /\ g.slide = f.slide
        /\ g.blur = f.blur /\ g.background = f.background
        /\ g.watched = f.watched /\ g.surfaceWatcher = f.surfaceWatcher
    BY <1>2, <2>2, <2>3, <2>4, InstallContrastKept
  <2>6. Tracked(g, q)
    BY <2>2, <2>5 DEF Tracked
  <2>7. /\ BlurBelongs(g, q) /\ BlurInstalled(g, q, globals, lost, supportsBlur)
        /\ SlideBelongs(g, q, next, globals) /\ SlideInstalled(g, q, globals)
    BY <1>1, <1>2, <2>2, <2>5
       DEF EffectsRight, BlurBelongs, BlurInstalled, ContrastBelongs, ContrastInstalled,
           SlideBelongs, SlideInstalled
  <2> QED BY <1>2, <1>13, <2>5, <2>6, <2>7 DEF EffectsRight
<1> QED BY <1>14, <1>15

LEMMA SlideCalls ==
  ASSUME EffectsInv, WindowInv, NEW w \in Windows, window[w].alive,
         NEW r \in Slides \cup {None}, slideWindow(w, r)
  PROVE  \E g : EffectSet(w, g) /\ EffectsRight(g, window[w], next, globals, lost, supportsBlur)
<1>1. PICK e : e = effects[w] /\ EffectsRight(e, window[w], next, globals, lost, supportsBlur)
  BY DEF EffectsInv
<1>2. PICK q \in QWindows : q = window[w] /\ WellFormed(q) /\ q.alive
  BY DEF WindowInv
<1>3. PICK t : t = trackWindow(e, q)
  OBVIOUS
<1>4. e \in EffectRecords /\ Tracked(e, q)
  BY <1>1, <1>2 DEF EffectsRight
<1>5. /\ t \in EffectRecords /\ t.watched
      /\ q.platform # 0 => t.surfaceWatcher = q.platform
      /\ t.blurRegion = e.blurRegion /\ t.contrastData = e.contrastData
      /\ t.slideData = e.slideData /\ t.blur = e.blur /\ t.background = e.background
      /\ t.contrast = e.contrast /\ t.slide = e.slide
  BY <1>3, <1>4, TrackKept
<1>6. PICK a : a = [t EXCEPT !.slideData = r]
  OBVIOUS
<1>7. /\ a \in EffectRecords /\ a.watched /\ a.surfaceWatcher = t.surfaceWatcher
      /\ a.slideData = r /\ a.blurRegion = e.blurRegion /\ a.contrastData = e.contrastData
      /\ a.blur = e.blur /\ a.background = e.background
      /\ a.contrast = e.contrast /\ a.slide = e.slide
  BY <1>5, <1>6 DEF EffectRecords
<1>8. PICK d0 : d0 = [e EXCEPT !.slideData = None]
  OBVIOUS
<1>9. /\ d0 \in EffectRecords /\ d0.watched = e.watched /\ d0.surfaceWatcher = e.surfaceWatcher
      /\ d0.slideData = None /\ d0.blurRegion = e.blurRegion /\ d0.contrastData = e.contrastData
      /\ d0.blur = e.blur /\ d0.background = e.background
      /\ d0.contrast = e.contrast /\ d0.slide = e.slide
  BY <1>4, <1>8 DEF resetContrast, EffectRecords, EffectObjects, Nothing, On
<1>10. PICK d : d = releaseWindow(d0)
  OBVIOUS
<1>11. e.slideData # None =>
        /\ d \in EffectRecords /\ Tracked(d, q)
        /\ d.slideData = None /\ d.blurRegion = e.blurRegion /\ d.contrastData = e.contrastData
        /\ d.blur = e.blur /\ d.background = e.background
        /\ d.contrast = e.contrast /\ d.slide = e.slide
  <2>1. SUFFICES ASSUME e.slideData # None
                 PROVE  d0.watched /\ (q.platform # 0 => d0.surfaceWatcher = q.platform)
    BY <1>2, <1>9, <1>10, ReleaseKept
  <2> QED BY <1>4, <1>9, <2>1 DEF Tracked
<1>12. PICK g : g = IF r = e.slideData THEN a
                    ELSE installSlide(IF r = None THEN d ELSE a, q, globals, r)
  OBVIOUS
<1>13. EffectSet(w, g) /\ (r # None \/ e.slideData # None)
  BY <1>1, <1>2, <1>3, <1>6, <1>8, <1>10, <1>12 DEF slideWindow, EffectSet
<1>14. CASE r = e.slideData
  <2>1. g = a /\ r # None
    BY <1>12, <1>13, <1>14
  <2>2. Tracked(a, q)
    BY <1>2, <1>5, <1>7, <2>1 DEF Tracked
  <2> QED BY <1>1, <1>2, <1>7, <1>13, <1>14, <2>1, <2>2
          DEF EffectsRight, BlurBelongs, BlurInstalled, ContrastBelongs, ContrastInstalled,
              SlideBelongs, SlideInstalled
<1>15. CASE r # e.slideData
  <2>1. PICK f : f = IF r = None THEN d ELSE a
    OBVIOUS
  <2>2. /\ f \in EffectRecords /\ Tracked(f, q) /\ f.slideData = r
        /\ f.blurRegion = e.blurRegion /\ f.contrastData = e.contrastData
        /\ f.blur = e.blur /\ f.background = e.background
        /\ f.contrast = e.contrast
    <3>1. CASE r = None
      BY <1>11, <1>13, <2>1, <3>1
    <3>2. CASE r # None
      <4>1. Tracked(a, q)
        BY <1>2, <1>5, <1>7, <3>2 DEF Tracked
      <4> QED BY <1>7, <2>1, <3>2, <4>1
    <3> QED BY <3>1, <3>2
  <2>3. /\ SlideBelongs(f, q, next, globals) \/ (f.slide.surface < next /\ "slide" \in globals)
        /\ "slide" \notin globals => f.slide = Nothing
        /\ q.surface < next /\ next \in Nat
    <3>1. f.slide = e.slide
      BY <1>7, <1>11, <1>13, <2>1
    <3>2. e.slide.surface < next /\ ("slide" \notin globals => e.slide = Nothing)
      BY <1>1 DEF EffectsRight, SlideBelongs
    <3>3. Nothing.data = None
      BY DEF Nothing, On
    <3>4. q.surface < next /\ next \in Nat
      BY <1>2 DEF WindowInv
    <3> QED BY <3>1, <3>2, <3>3, <3>4 DEF SlideBelongs
  <2>4. g = installSlide(f, q, globals, r)
    BY <1>12, <1>15, <2>1
  <2>5. /\ g \in EffectRecords
        /\ SlideBelongs(g, q, next, globals) /\ SlideInstalled(g, q, globals)
        /\ g.blurRegion = f.blurRegion /\ g.contrastData = f.contrastData
        /\ g.slideData = f.slideData /\ g.contrast = f.contrast
        /\ g.blur = f.blur /\ g.background = f.background
        /\ g.watched = f.watched /\ g.surfaceWatcher = f.surfaceWatcher
    BY <1>2, <2>2, <2>3, <2>4, InstallSlideKept
  <2>6. Tracked(g, q)
    BY <2>2, <2>5 DEF Tracked
  <2>7. /\ BlurBelongs(g, q) /\ BlurInstalled(g, q, globals, lost, supportsBlur)
        /\ ContrastBelongs(g, q) /\ ContrastInstalled(g, q, globals)
    BY <1>1, <1>2, <2>2, <2>5
       DEF EffectsRight, BlurBelongs, BlurInstalled, ContrastBelongs, ContrastInstalled,
           SlideBelongs, SlideInstalled
  <2> QED BY <1>2, <1>13, <2>5, <2>6, <2>7 DEF EffectsRight
<1> QED BY <1>14, <1>15

LEMMA WithdrawnEffects ==
  ASSUME NEW e, NEW q \in QWindows, WellFormed(q), NEW n \in Nat,
         NEW available, NEW gone, NEW supported, NEW g, g \in available,
         EffectsRight(e, q, n, available, gone, supported), n # 0
  PROVE  EffectsRight(ActiveEffects(e, q, g, available \ {g}), q, n, available \ {g},
                      gone \cup {g}, supported)
<1>1. PICK f : f = ActiveEffects(e, q, g, available \ {g})
  OBVIOUS
<1>2. e \in EffectRecords
  BY DEF EffectsRight
<1>3. Nothing.surface = 0 /\ Nothing.data = None
  BY DEF Nothing, On
<1> DEFINE Same(a) == /\ f.blurRegion = e.blurRegion /\ f.contrastData = e.contrastData
                      /\ f.slideData = e.slideData /\ f.watched = e.watched
                      /\ f.surfaceWatcher = e.surfaceWatcher
                      /\ a # "background" => f.background = e.background
                      /\ a # "blur" => f.blur = e.blur
                      /\ a # "contrast" => f.contrast = e.contrast
                      /\ a # "slide" => f.slide = e.slide
<1>4. CASE g = "background"
  <2>1. f = [e EXCEPT !.background = Nothing]
    BY <1>1, <1>4 DEF ActiveEffects
  <2>2. f \in EffectRecords /\ f.background = Nothing /\ Same("background")
    BY <1>2, <2>1 DEF EffectRecords, EffectObjects, Nothing, On
  <2> QED BY <1>1, <1>3, <1>4, <2>2
          DEF EffectsRight, Tracked, BlurBelongs, BlurInstalled, ContrastBelongs,
              ContrastInstalled, SlideBelongs, SlideInstalled
<1>5. CASE g = "blur"
  <2>1. f = [e EXCEPT !.blur.data = None]
    BY <1>1, <1>5 DEF ActiveEffects
  <2>2. PICK b \in EffectObjects(Blurs) : b = [e.blur EXCEPT !.data = None]
    BY <1>2 DEF EffectRecords, EffectObjects
  <2>3. f = [e EXCEPT !.blur = b]
    BY <2>1, <2>2
  <2>4. f \in EffectRecords /\ f.blur = b /\ Same("blur")
    BY <1>2, <2>3 DEF EffectRecords
  <2>5. b.surface = e.blur.surface /\ (b # Nothing => e.blur # Nothing)
    BY <1>2, <2>2 DEF EffectRecords, EffectObjects, Nothing, On
  <2> QED BY <1>1, <1>3, <1>5, <2>4, <2>5
          DEF EffectsRight, Tracked, BlurBelongs, BlurInstalled, ContrastBelongs,
              ContrastInstalled, SlideBelongs, SlideInstalled
<1>6. CASE g = "contrast"
  <2>1. f = [e EXCEPT !.contrast.data = None]
    BY <1>1, <1>6 DEF ActiveEffects
  <2>2. PICK b \in EffectObjects(Contrasts) : b = [e.contrast EXCEPT !.data = None]
    BY <1>2 DEF EffectRecords, EffectObjects
  <2>3. f = [e EXCEPT !.contrast = b]
    BY <2>1, <2>2
  <2>4. f \in EffectRecords /\ f.contrast = b /\ Same("contrast")
    BY <1>2, <2>3 DEF EffectRecords
  <2>5. b.surface = e.contrast.surface /\ (b # Nothing => e.contrast # Nothing)
    BY <1>2, <2>2 DEF EffectRecords, EffectObjects, Nothing, On
  <2> QED BY <1>1, <1>3, <1>6, <2>4, <2>5
          DEF EffectsRight, Tracked, BlurBelongs, BlurInstalled, ContrastBelongs,
              ContrastInstalled, SlideBelongs, SlideInstalled
<1>7. CASE g = "slide"
  <2>1. f = [e EXCEPT !.slide = Nothing]
    BY <1>1, <1>7 DEF ActiveEffects
  <2>2. f \in EffectRecords /\ f.slide = Nothing /\ Same("slide")
    BY <1>2, <2>1 DEF EffectRecords, EffectObjects, Nothing, On
  <2> QED BY <1>1, <1>3, <1>7, <2>2
          DEF EffectsRight, Tracked, BlurBelongs, BlurInstalled, ContrastBelongs,
              ContrastInstalled, SlideBelongs, SlideInstalled
<1>8. CASE g \notin {"background", "blur", "contrast", "slide"}
  <2>1. f = e
    BY <1>1, <1>8 DEF ActiveEffects
  <2> QED BY <1>1, <1>8, <2>1
          DEF EffectsRight, Tracked, BlurBelongs, BlurInstalled, ContrastBelongs,
              ContrastInstalled, SlideBelongs, SlideInstalled
<1> QED BY <1>4, <1>5, <1>6, <1>7, <1>8

LEMMA AnnouncedEffects ==
  ASSUME NEW e, NEW q \in QWindows, WellFormed(q), NEW n \in Nat, q.surface < n,
         NEW available, NEW gone, NEW g, g \notin available, supportsBlur \in BOOLEAN,
         "background" \notin available \cup gone => ~supportsBlur,
         EffectsRight(e, q, n, available, gone, supportsBlur)
  PROVE  EffectsRight(ActiveEffects(e, q, g, available \cup {g}), q, n, available \cup {g},
                      gone, supportsBlur)
<1> DEFINE now == available \cup {g}
<1>1. PICK f : f = ActiveEffects(e, q, g, now)
  OBVIOUS
<1>2. e \in EffectRecords /\ BlurBelongs(e, q) /\ ContrastBelongs(e, q)
      /\ SlideBelongs(e, q, n, available)
  BY DEF EffectsRight
<1>3. CASE g = "blur" /\ "background" \notin available /\ e.blurRegion # None
  <2>1. f = installBlur(e, q, now, supportsBlur, e.blurRegion)
    BY <1>1, <1>3 DEF ActiveEffects
  <2>2. e.blurRegion \in Blurs \cup {None}
    BY <1>2 DEF EffectRecords
  <2>3. /\ f \in EffectRecords
        /\ BlurBelongs(f, q) /\ BlurInstalled(f, q, now, gone, supportsBlur)
        /\ f.blurRegion = e.blurRegion /\ f.contrastData = e.contrastData
        /\ f.slideData = e.slideData /\ f.contrast = e.contrast /\ f.slide = e.slide
        /\ f.watched = e.watched /\ f.surfaceWatcher = e.surfaceWatcher
    <3> HIDE DEF now
    <3> QED BY <1>2, <1>3, <2>1, <2>2, InstallBlurKept
  <2> QED BY <1>1, <1>3, <2>3
          DEF EffectsRight, Tracked, ContrastBelongs,
              ContrastInstalled, SlideBelongs, SlideInstalled
<1>4. CASE g = "contrast" /\ e.contrastData # None
  <2>1. f = installContrast(e, q, now, e.contrastData)
    BY <1>1, <1>4 DEF ActiveEffects
  <2>2. e.contrastData \in Contrasts \cup {None}
    BY <1>2 DEF EffectRecords
  <2>3. /\ f \in EffectRecords
        /\ ContrastBelongs(f, q) /\ ContrastInstalled(f, q, now)
        /\ f.blurRegion = e.blurRegion /\ f.contrastData = e.contrastData
        /\ f.slideData = e.slideData /\ f.blur = e.blur /\ f.background = e.background
        /\ f.slide = e.slide
        /\ f.watched = e.watched /\ f.surfaceWatcher = e.surfaceWatcher
    <3> HIDE DEF now
    <3> QED BY <1>2, <1>4, <2>1, <2>2, InstallContrastKept
  <2> QED BY <1>1, <1>4, <2>3
          DEF EffectsRight, Tracked, BlurBelongs, BlurInstalled, SlideBelongs, SlideInstalled
<1>5. CASE g = "slide" /\ e.slideData # None
  <2>1. f = installSlide(e, q, now, e.slideData)
    BY <1>1, <1>5 DEF ActiveEffects
  <2>2. e.slideData \in Slides \cup {None} /\ e.slide.surface < n /\ "slide" \in now
    BY <1>2, <1>5 DEF EffectRecords, SlideBelongs
  <2>3. /\ f \in EffectRecords
        /\ SlideBelongs(f, q, n, now) /\ SlideInstalled(f, q, now)
        /\ f.blurRegion = e.blurRegion /\ f.contrastData = e.contrastData
        /\ f.slideData = e.slideData /\ f.blur = e.blur /\ f.background = e.background
        /\ f.contrast = e.contrast
        /\ f.watched = e.watched /\ f.surfaceWatcher = e.surfaceWatcher
    <3> HIDE DEF now
    <3> QED BY <1>2, <1>5, <2>1, <2>2, InstallSlideKept
  <2> QED BY <1>1, <1>5, <2>3
          DEF EffectsRight, Tracked, BlurBelongs, BlurInstalled, ContrastBelongs,
              ContrastInstalled
<1>6. CASE /\ ~(g = "blur" /\ "background" \notin available /\ e.blurRegion # None)
           /\ ~(g = "contrast" /\ e.contrastData # None)
           /\ ~(g = "slide" /\ e.slideData # None)
  <2>1. f = e
    BY <1>1, <1>6 DEF ActiveEffects
  <2> QED BY <1>1, <1>6, <2>1
          DEF EffectsRight, Tracked, BlurBelongs, BlurInstalled, ContrastBelongs,
              ContrastInstalled, SlideBelongs, SlideInstalled
<1> QED BY <1>3, <1>4, <1>5, <1>6

LEMMA EffectsKept ==
  ASSUME WindowInv, EffectsInv, [Next]_vars
  PROVE  EffectsInv'
<1>0. WindowInv'
  BY WindowKept
<1> DEFINE Right(e, q, n) == EffectsRight(e, q, n, globals, lost, supportsBlur)
<1>1. CASE UNCHANGED <<window, next, topic, globals, lost, effects, supportsBlur>>
  BY <1>1 DEF EffectsInv, EffectsRight, Tracked, BlurBelongs, BlurInstalled, ContrastBelongs,
              ContrastInstalled, SlideBelongs, SlideInstalled
<1>2. CASE WindowStep
  <2>1. PICK w \in topic.windows, q \in QWindows, x \in BOOLEAN :
          Turns(w, q, x) /\ Listeners(w, q, x)
    BY <1>2 DEF WindowStep
  <2>2. PICK e \in EffectRecords : e = effects[w] /\ Right(e, window[w], next)
    BY DEF EffectsInv, WindowInv
  <2>3. PICK n \in Nat : n = IF next \in {q.platform, q.surface} THEN next + 1 ELSE next
    BY DEF WindowInv
  <2>4. PICK g : g = EffectsAfter(e, w, q, x)
    OBVIOUS
  <2>5. supportsBlur \in BOOLEAN
    BY DEF EffectsInv
  <2>6. Right(g, q, n)
    BY <2>1, <2>2, <2>3, <2>4, <2>5, EffectsTurns
  <2>7. /\ window' = [window EXCEPT ![w] = q] /\ next' = n
        /\ effects' = [effects EXCEPT ![w] = g] /\ UNCHANGED <<globals, lost, supportsBlur>>
    BY <2>1, <2>2, <2>3, <2>4 DEF Listeners
  <2>8. w \in Windows /\ next \in Nat /\ next <= n /\ g \in EffectRecords
    BY <2>3, <2>6 DEF WindowInv, EffectsRight
  <2>9. ASSUME NEW v \in Windows PROVE Right(effects'[v], window'[v], n)
    <3>1. CASE v = w
      BY <2>6, <2>7, <2>8, <3>1 DEF EffectsInv, WindowInv
    <3>2. CASE v # w
      <4>1. effects'[v] = effects[v] /\ window'[v] = window[v]
        BY <2>7, <3>2 DEF EffectsInv, WindowInv
      <4>2. Right(effects[v], window[v], next)
        BY DEF EffectsInv
      <4>3. SlideBelongs(effects[v], window[v], n, globals)
        <5>1. effects[v].slide.surface \in Nat /\ effects[v].slide.surface < next
          BY <4>2 DEF EffectsRight, SlideBelongs, EffectRecords, EffectObjects
        <5> QED BY <2>8, <4>2, <5>1 DEF EffectsRight, SlideBelongs
      <4> QED BY <4>1, <4>2, <4>3 DEF EffectsRight
    <3> QED BY <3>1, <3>2
  <2>10. effects' \in [Windows -> EffectRecords]
    BY <2>7, <2>8 DEF EffectsInv
  <2>11. \A v \in Windows :
           EffectsRight(effects[v], window[v], next, globals, lost, supportsBlur)'
    <3>1. TAKE v \in Windows
    <3>2. Right(effects'[v], window'[v], next')
      BY <2>7, <2>9
    <3> QED BY <2>7, <3>2
            DEF EffectsRight, Tracked, BlurBelongs, BlurInstalled, ContrastBelongs,
                ContrastInstalled, SlideBelongs, SlideInstalled
  <2> QED BY <2>7, <2>10, <2>11 DEF EffectsInv
<1>3. CASE EffectCall
  <2>1. PICK w \in topic.windows :
          /\ window[w].alive
          /\ \/ \E r \in Blurs \cup {None} : enableBlurBehind(w, r)
             \/ \E c \in Contrasts \cup {None} : enableBackgroundContrast(w, c)
             \/ \E s \in Slides \cup {None} : slideWindow(w, s)
    BY <1>3 DEF EffectCall
  <2>2. w \in Windows /\ UNCHANGED <<window, next, globals, lost>>
    BY <1>3 DEF WindowInv, EffectCall, windowVars
  <2>3. PICK g : EffectSet(w, g) /\ Right(g, window[w], next)
    BY <2>1, <2>2, BlurCalls, ContrastCalls, SlideCalls
  <2>4. /\ effects' = [effects EXCEPT ![w] = g] /\ supportsBlur' = supportsBlur
        /\ g \in EffectRecords
    BY <2>3 DEF EffectSet, EffectsRight
  <2>5. effects' \in [Windows -> EffectRecords]
        /\ \A v \in Windows : effects'[v] = IF v = w THEN g ELSE effects[v]
    BY <2>4 DEF EffectsInv
  <2>6. \A v \in Windows : Right(effects'[v], window[v], next)
    BY <2>3, <2>5 DEF EffectsInv
  <2> QED BY <2>2, <2>4, <2>5, <2>6
          DEF EffectsInv, EffectsRight, Tracked, BlurBelongs, BlurInstalled, ContrastBelongs,
              ContrastInstalled, SlideBelongs, SlideInstalled
<1>4. CASE CapabilitiesEvent
  <2>1. PICK b \in BOOLEAN : Capabilities(b)
    BY <1>4 DEF CapabilitiesEvent
  <2>2. UNCHANGED <<window, next, globals, lost>> /\ "background" \in globals
        /\ supportsBlur' = b
    BY <1>4, <2>1 DEF CapabilitiesEvent, Capabilities, windowVars
  <2>3. ASSUME NEW v \in Windows
        PROVE  effects'[v] \in EffectRecords
               /\ EffectsRight(effects'[v], window[v], next, globals, lost, b)
    <3>1. PICK e \in EffectRecords : e = effects[v] /\ Right(e, window[v], next)
      BY DEF EffectsInv
    <3>2. PICK q \in QWindows : q = window[v] /\ WellFormed(q)
      BY DEF WindowInv
    <3>3. PICK g : g = IF e.blurRegion = None THEN e
                       ELSE installBlur(e, q, globals, b, e.blurRegion)
      OBVIOUS
    <3>4. effects'[v] = g
      BY <2>1, <3>1, <3>2, <3>3 DEF Capabilities
    <3>5. CASE e.blurRegion = None
      BY <3>1, <3>3, <3>4, <3>5 DEF EffectsRight, BlurInstalled
    <3>6. CASE e.blurRegion # None
      <4>1. g = installBlur(e, q, globals, b, e.blurRegion)
        BY <3>3, <3>6
      <4>2. e.blurRegion \in Blurs \cup {None} /\ BlurBelongs(e, q)
        BY <3>1, <3>2 DEF EffectRecords, EffectsRight
      <4>3. /\ g \in EffectRecords
            /\ BlurBelongs(g, q) /\ BlurInstalled(g, q, globals, lost, b)
            /\ g.blurRegion = e.blurRegion /\ g.contrastData = e.contrastData
            /\ g.slideData = e.slideData /\ g.contrast = e.contrast /\ g.slide = e.slide
            /\ g.watched = e.watched /\ g.surfaceWatcher = e.surfaceWatcher
        BY <3>2, <3>6, <4>1, <4>2, InstallBlurKept
      <4> QED BY <3>1, <3>2, <3>4, <4>3
              DEF EffectsRight, Tracked, ContrastBelongs, ContrastInstalled, SlideBelongs,
                  SlideInstalled
    <3> QED BY <3>5, <3>6
  <2>4. effects' \in [Windows -> EffectRecords]
    BY <2>1, <2>3 DEF Capabilities
  <2> QED BY <2>2, <2>3, <2>4
          DEF EffectsInv, EffectsRight, Tracked, BlurBelongs, BlurInstalled, ContrastBelongs,
              ContrastInstalled, SlideBelongs, SlideInstalled
<1>5. CASE GlobalStep
  <2>1. PICK g \in topic.globals : Announce(g) \/ Withdraw(g)
    BY <1>5 DEF GlobalStep
  <2>2. /\ UNCHANGED <<window, next, supportsBlur>>
        /\ effects' = [v \in Windows |-> ActiveEffects(effects[v], window[v], g, globals')]
    BY <2>1 DEF Announce, Withdraw, ActiveChanged, EffectsActiveChanged, ActiveEffects
  <2>3. /\ supportsBlur \in BOOLEAN
        /\ "background" \notin globals \cup lost => ~supportsBlur
        /\ next \in Nat /\ next # 0
    BY DEF EffectsInv, WindowInv
  <2>4. ASSUME NEW v \in Windows
        PROVE  /\ effects'[v] \in EffectRecords
               /\ EffectsRight(effects'[v], window[v], next, globals', lost', supportsBlur)
    <3>1. PICK e \in EffectRecords : e = effects[v] /\ Right(e, window[v], next)
      BY DEF EffectsInv
    <3>2. PICK q \in QWindows : q = window[v] /\ WellFormed(q) /\ q.surface < next
      BY DEF WindowInv
    <3>3. effects'[v] = ActiveEffects(e, q, g, globals')
      BY <2>2, <3>1, <3>2
    <3>4. CASE Announce(g)
      <4>1. globals' = globals \cup {g} /\ lost' = lost /\ g \notin globals
        BY <3>4 DEF Announce, ActiveChanged
      <4>2. EffectsRight(ActiveEffects(e, q, g, globals \cup {g}), q, next, globals \cup {g},
                         lost, supportsBlur)
        BY <2>3, <3>1, <3>2, <4>1, AnnouncedEffects
      <4> QED BY <3>2, <3>3, <4>1, <4>2 DEF EffectsRight
    <3>5. CASE Withdraw(g)
      <4>1. globals' = globals \ {g} /\ lost' = lost \cup {g} /\ g \in globals
        BY <3>5 DEF Withdraw, ActiveChanged
      <4>2. EffectsRight(ActiveEffects(e, q, g, globals \ {g}), q, next, globals \ {g},
                         lost \cup {g}, supportsBlur)
        BY <2>3, <3>1, <3>2, <4>1, WithdrawnEffects
      <4> QED BY <3>2, <3>3, <4>1, <4>2 DEF EffectsRight
    <3> QED BY <2>1, <3>4, <3>5
  <2>5. effects' \in [Windows -> EffectRecords]
    BY <2>2, <2>4
  <2>6. "background" \notin globals' \cup lost' => ~supportsBlur
    BY <2>1, <2>3 DEF Announce, Withdraw, ActiveChanged
  <2> QED BY <2>2, <2>3, <2>4, <2>5, <2>6
          DEF EffectsInv, EffectsRight, Tracked, BlurBelongs, BlurInstalled, ContrastBelongs,
              ContrastInstalled, SlideBelongs, SlideInstalled
<1> QED BY <1>1, <1>2, <1>3, <1>4, <1>5, EffectKinds

-----------------------------------------------------------------------------
(* Shadows                                                                 *)

LEMMA BufferKept ==
  ASSUME NEW tile \in TileRecords, Buffered(tile)
  PROVE  LET t == bufferForTile(tile)
         IN /\ t \in TileRecords /\ Buffered(t)
            /\ t.image = tile.image /\ t.isCreated = tile.isCreated
            /\ t.isCreated => t.buffer = t.image
BY DEF bufferForTile, createBuffer, TileRecords, Buffered

\* A tile is only made, its image stays.
LEMMA TileMade ==
  ASSUME NEW tile \in TileRecords, Buffered(tile), NEW available
  PROVE  LET t == TileCreated(tile, available)
         IN /\ t \in TileRecords /\ Buffered(t)
            /\ t.image = tile.image /\ (tile.isCreated => t.isCreated)
BY DEF TileCreated, createBuffer, TileRecords, Buffered

LEMMA TilesKept ==
  ASSUME NEW ts \in [Tiles -> TileRecords], \A t \in Tiles : Buffered(ts[t]), NEW q, NEW sh
  PROVE  LET us == TilesAfterCreate(q, sh, ts)
         IN /\ us \in [Tiles -> TileRecords]
            /\ \A t \in Tiles : /\ Buffered(us[t]) /\ us[t].image = ts[t].image
                                /\ us[t].isCreated = ts[t].isCreated
<1>1. CASE ~CanCreate(q, sh)
  BY <1>1 DEF TilesAfterCreate
<1>2. CASE CanCreate(q, sh)
  <2>1. PICK us : us = TilesAfterCreate(q, sh, ts)
    OBVIOUS
  <2>2. us = [t \in Tiles |-> IF t \in UsedTiles THEN bufferForTile(ts[t]) ELSE ts[t]]
    BY <1>2, <2>1 DEF TilesAfterCreate
  <2>3. ASSUME NEW t \in Tiles
        PROVE  /\ us[t] \in TileRecords /\ Buffered(us[t]) /\ us[t].image = ts[t].image
               /\ us[t].isCreated = ts[t].isCreated
    <3>1. us[t] = bufferForTile(ts[t]) \/ us[t] = ts[t]
      BY <2>2
    <3>2. ts[t] \in TileRecords /\ Buffered(ts[t])
      OBVIOUS
    <3> QED BY <3>1, <3>2, BufferKept
  <2> QED BY <2>1, <2>2, <2>3
<1> QED BY <1>1, <1>2

\* The tiles of a shadow that can be created
Ready(sh, ts) == \A s \in Slots : sh.tile[s] # Null => ts[sh.tile[s]].isCreated

\* What internalCreate() tells the compositor is what the shadow says.
LEMMA ObjectTold ==
  ASSUME NEW ts \in [Tiles -> TileRecords], \A t \in Tiles : Buffered(ts[t]), NEW q \in QWindows,
         NEW sh \in Shadows, Ready(sh, ts)
  PROVE  LET o == ObjectFor(q, sh, ts)
         IN /\ o \in ShadowObjects /\ o.surface = q.surface /\ o.padding = sh.padding
            /\ \A s \in Slots :
                 o.images[s] = IF sh.tile[s] = Null THEN Null ELSE ts[sh.tile[s]].image
<1>1. PICK images : images = [s \in Slots |->
                      IF sh.tile[s] = Null THEN Null ELSE bufferForTile(ts[sh.tile[s]]).buffer]
  OBVIOUS
<1>2. ASSUME NEW s \in Slots
      PROVE  /\ images[s] = IF sh.tile[s] = Null THEN Null ELSE ts[sh.tile[s]].image
             /\ images[s] \in Images \cup {Null}
  <2>1. CASE sh.tile[s] = Null
    BY <1>1, <2>1
  <2>2. CASE sh.tile[s] # Null
    <3>1. PICK tile : tile = ts[sh.tile[s]]
      OBVIOUS
    <3>2. tile \in TileRecords /\ Buffered(tile) /\ tile.isCreated
      BY <2>2, <3>1 DEF Shadows, Ready
    <3>3. images[s] = bufferForTile(tile).buffer
      BY <1>1, <2>2, <3>1
    <3>4. images[s] = tile.image /\ tile.image \in Images \cup {Null}
      BY <3>2, <3>3, BufferKept DEF TileRecords
    <3> QED BY <2>2, <3>1, <3>4
  <2> QED BY <2>1, <2>2
<1>3. images \in [Slots -> Images \cup {Null}]
  BY <1>1, <1>2
<1>4. PICK o : o = ObjectFor(q, sh, ts)
  OBVIOUS
<1>5. o = [surface |-> q.surface, padding |-> sh.padding, images |-> images]
  BY <1>1, <1>4 DEF ObjectFor, surfaceForWindow
<1>6. o \in ShadowObjects
  BY <1>3, <1>5 DEF ShadowObjects, Shadows, QWindows
<1> QED BY <1>2, <1>4, <1>5, <1>6

LEMMA CreateKept ==
  ASSUME NEW ts \in [Tiles -> TileRecords], \A t \in Tiles : Buffered(ts[t]), NEW q \in QWindows,
         NEW sh \in Shadows, Ready(sh, ts)
  PROVE  LET r == internalCreate(q, sh, ts)
         IN /\ r \in Shadows
            /\ r.window = sh.window /\ r.tile = sh.tile /\ r.padding = sh.padding
            /\ r.isCreated = sh.isCreated /\ r.filtered = sh.filtered
            /\ ~CanCreate(q, sh) => r = sh
            /\ CanCreate(q, sh) =>
                 /\ r.object.surface = q.surface /\ r.object.padding = sh.padding
                 /\ \A s \in Slots : r.object.images[s] =
                      IF sh.tile[s] = Null THEN Null ELSE ts[sh.tile[s]].image
                 /\ r.connected = sh.connected \cup {q.platform}
<1>1. PICK r : r = internalCreate(q, sh, ts)
  OBVIOUS
<1>2. CASE ~CanCreate(q, sh)
  BY <1>1, <1>2 DEF internalCreate
<1>3. CASE CanCreate(q, sh)
  <2>1. PICK o : o = ObjectFor(q, sh, ts)
    OBVIOUS
  <2>2. /\ o \in ShadowObjects /\ o.surface = q.surface /\ o.padding = sh.padding
        /\ \A s \in Slots :
             o.images[s] = IF sh.tile[s] = Null THEN Null ELSE ts[sh.tile[s]].image
    BY <2>1, ObjectTold
  <2>3. PICK c \in SUBSET Nat : c = sh.connected \cup {q.platform}
    BY DEF Shadows, QWindows
  <2>4. r = [sh EXCEPT !.object = o, !.connected = c]
    BY <1>1, <1>3, <2>1, <2>3 DEF internalCreate
  <2>5. /\ r \in Shadows /\ r.object = o /\ r.connected = c
        /\ r.window = sh.window /\ r.tile = sh.tile /\ r.padding = sh.padding
        /\ r.isCreated = sh.isCreated /\ r.filtered = sh.filtered
    BY <2>2, <2>4 DEF Shadows
  <2> QED BY <1>1, <1>3, <2>2, <2>3, <2>5
<1> QED BY <1>2, <1>3

LEMMA NoObjectType == NoObject \in ShadowObjects /\ NoObject.surface = 0
BY DEF NoObject, ShadowObjects

\* A window step by which nothing is drawn: the object is dropped if its surface goes.
LEMMA ShadowFollows ==
  ASSUME WindowInv, ShadowInv, NEW w \in topic.windows, NEW q \in QWindows, NEW x,
         Turns(w, q, x), Listeners(w, q, x), ~(x /\ q.exposed /\ shadow.filtered = w), WindowInv'
  PROVE  ShadowInv'
<1>1. /\ shadow \in Shadows /\ tiles \in [Tiles -> TileRecords] /\ retargeted \in BOOLEAN
      /\ shadow.filtered = IF shadow.isCreated THEN shadow.window ELSE 0
      /\ ObjectBelongs /\ Connected
  BY DEF ShadowInv
<1>2. /\ UNCHANGED <<tiles, retargeted, topic, globals, lost>>
      /\ window' = [window EXCEPT ![w] = q] /\ shadow' = ShadowAfter(shadow, w, q, x)
      /\ next' = IF next \in {q.platform, q.surface} THEN next + 1 ELSE next
  BY DEF Listeners, TilesAfter
<1>3. PICK p \in QWindows : p = window[w] /\ WellFormed(p) /\ p.platform < next
  BY DEF WindowInv
<1>4. /\ w \in Windows /\ w # 0 /\ next \in Nat /\ next <= next' /\ next' \in Nat
      /\ window'[w] = q /\ \A v \in Windows \ {w} : window'[v] = window[v]
  BY <1>2, PluginAssumption DEF WindowInv, PluginAssumption
<1> DEFINE gone == SurfaceDestroyed(w, q) /\ p.platform \in shadow.connected
           died == ~q.alive /\ shadow.window = w
<1>5. PICK o \in ShadowObjects, v \in Windows \cup {0}, f \in Windows \cup {0} :
        /\ o = IF gone THEN NoObject ELSE shadow.object
        /\ v = IF died THEN 0 ELSE shadow.window
        /\ f = IF died THEN 0 ELSE shadow.filtered
  <2>1. shadow.object \in ShadowObjects /\ {shadow.window, shadow.filtered} \subseteq Windows \cup {0}
    BY <1>1 DEF Shadows
  <2> HIDE DEF gone, died
  <2> QED BY <2>1, NoObjectType
<1>6. shadow' = [shadow EXCEPT !.object = o, !.window = v, !.filtered = f]
  <2>1. PICK sh1 : sh1 = IF gone THEN internalDestroy(shadow) ELSE shadow
    OBVIOUS
  <2>2. sh1 = [shadow EXCEPT !.object = o]
    <3>1. CASE gone
      BY <1>5, <2>1, <3>1 DEF internalDestroy
    <3>2. CASE ~gone
      BY <1>1, <1>5, <2>1, <3>2 DEF Shadows
    <3> QED BY <3>1, <3>2
  <2>3. sh1.window = shadow.window /\ sh1.filtered = shadow.filtered
    BY <1>1, <2>2 DEF Shadows
  <2>4. shadow' = IF died THEN [sh1 EXCEPT !.window = 0, !.filtered = 0] ELSE sh1
    BY <1>2, <1>3, <2>1, <2>3 DEF ShadowAfter
  <2> HIDE DEF died, gone
  <2> QED BY <1>1, <1>5, <2>2, <2>4 DEF Shadows
<1>7. /\ shadow' \in Shadows /\ shadow'.object = o /\ shadow'.window = v /\ shadow'.filtered = f
      /\ shadow'.tile = shadow.tile /\ shadow'.padding = shadow.padding
      /\ shadow'.isCreated = shadow.isCreated /\ shadow'.connected = shadow.connected
  BY <1>1, <1>6 DEF Shadows
<1>8. ObjectBelongs'
  <2>1. SUFFICES ASSUME o # NoObject
        PROVE  \E u \in topic.windows : /\ o.surface = window'[u].surface
                                        /\ window'[u].platform \in shadow.connected
    BY <1>1, <1>2, <1>5, <1>7 DEF ObjectBelongs
  <2>2. ~gone /\ o = shadow.object
    BY <1>5, <2>1
  <2>3. PICK u \in topic.windows : /\ o.surface = window[u].surface
                                   /\ window[u].platform \in shadow.connected
    BY <1>1, <2>1, <2>2 DEF ObjectBelongs
  <2>4. o.surface # 0
    BY <1>1, <2>1, <2>2 DEF ObjectBelongs
  <2>5. CASE u # w
    BY <1>4, <2>3, <2>5 DEF WindowInv
  <2>6. CASE u = w
    <3>1. q.surface = p.surface /\ q.platform = p.platform
      BY <1>3, <2>2, <2>3, <2>4, <2>6 DEF SurfaceDestroyed, Turns
    <3> QED BY <1>3, <1>4, <2>3, <2>6, <3>1
  <2> QED BY <2>5, <2>6
<1>9. Connected'
  <2>1. \A i \in shadow.connected : 0 < i /\ i < next /\ i \in Nat
    BY <1>1 DEF Connected, Shadows
  <2>2. \A i \in shadow.connected : 0 < i /\ i < next'
    BY <1>4, <2>1
  <2>3. ASSUME ~retargeted, NEW u \in Windows, window'[u].platform \in shadow.connected
        PROVE  u = v
    <3>1. window[u].platform \in shadow.connected
      <4>1. CASE u = w
        <5>1. q.platform # 0 /\ q.platform # next
          BY <1>4, <2>1, <2>3, <4>1
        <5>2. q.platform = p.platform
          BY <1>3, <5>1 DEF Turns
        <5> QED BY <1>3, <1>4, <2>3, <4>1, <5>2
      <4>2. CASE u # w
        BY <1>4, <2>3, <4>2
      <4> QED BY <4>1, <4>2
    <3>2. u = shadow.window
      BY <1>1, <2>3, <3>1 DEF Connected
    <3>3. ~died
      <4>1. SUFFICES ASSUME ~q.alive, u = w PROVE FALSE
        BY <3>2
      <4>2. q.platform = 0
        BY <4>1 DEF Turns, WellFormed
      <4> QED BY <1>4, <2>1, <2>3, <4>1, <4>2
    <3> QED BY <1>5, <3>2, <3>3
  <2> QED BY <1>2, <1>7, <2>2, <2>3 DEF Connected
<1>10. shadow'.window \in topic.windows \cup {0}
       /\ shadow'.filtered = IF shadow'.isCreated THEN shadow'.window ELSE 0
  BY <1>1, <1>5, <1>7 DEF ShadowInv
<1>11. ASSUME shadow'.isCreated, shadow'.window # 0, ~retargeted, lost = {},
              window'[shadow'.window].exposed
       PROVE  o # NoObject
  <2>1. v = shadow.window /\ v \in Windows /\ shadow.isCreated
    BY <1>5, <1>7, <1>11
  <2>2. window[v].exposed /\ ~gone
    <3>1. CASE v = w
      <4>1. q.exposed /\ shadow.filtered = w
        BY <1>1, <1>4, <1>7, <1>11, <2>1, <3>1
      <4>2. q.surface = p.surface /\ q = p
        BY <1>3, <4>1 DEF Turns
      <4> QED BY <1>3, <3>1, <4>1, <4>2 DEF SurfaceDestroyed
    <3>2. CASE v # w
      <4>1. window[v].exposed
        BY <1>4, <1>7, <1>11, <2>1, <3>2
      <4>2. p.platform \notin shadow.connected
        BY <1>1, <1>3, <1>4, <1>11, <2>1, <3>2 DEF Connected
      <4> QED BY <4>1, <4>2
    <3> QED BY <3>1, <3>2
  <2>3. shadow.object # NoObject
    BY <1>7, <1>11, <2>1, <2>2 DEF ShadowInv
  <2> QED BY <1>5, <2>2, <2>3
<1>12. /\ \A t \in Tiles : Buffered(tiles[t])
       /\ shadow.isCreated => \A t \in UsedTiles' : tiles[t].isCreated
       /\ shadow.isCreated /\ lost = {} => "shadow" \in globals
  BY <1>7 DEF ShadowInv, UsedTiles
<1> HIDE DEF gone, died
<1>13. (shadow.isCreated /\ shadow.window # 0 /\ ~retargeted /\ lost = {} =>
         (window[shadow.window].exposed => shadow.object # NoObject))'
  BY <1>2, <1>7, <1>11
<1>14. /\ shadow' \in Shadows /\ tiles' \in [Tiles -> TileRecords] /\ retargeted' \in BOOLEAN
       /\ \A t \in Tiles : Buffered(tiles'[t])
       /\ shadow'.isCreated => \A t \in UsedTiles' : tiles'[t].isCreated
       /\ shadow'.isCreated /\ lost' = {} => "shadow" \in globals'
  BY <1>1, <1>2, <1>7, <1>12
<1> QED BY <1>2, <1>8, <1>9, <1>10, <1>13, <1>14 DEF ShadowInv, Buffered

\* Expose events of the window of the shadow: the object is made if it is not there.
LEMMA ShadowDrawn ==
  ASSUME WindowInv, ShadowInv, NEW w \in topic.windows, NEW q \in QWindows, NEW x,
         Turns(w, q, x), Listeners(w, q, x), x /\ q.exposed /\ shadow.filtered = w, WindowInv'
  PROVE  ShadowInv'
<1>1. /\ shadow \in Shadows /\ tiles \in [Tiles -> TileRecords] /\ retargeted \in BOOLEAN
      /\ shadow.filtered = IF shadow.isCreated THEN shadow.window ELSE 0
      /\ ObjectBelongs /\ Connected
  BY DEF ShadowInv
<1>2. /\ UNCHANGED <<retargeted, topic, globals, lost>>
      /\ window' = [window EXCEPT ![w] = q] /\ shadow' = ShadowAfter(shadow, w, q, x)
      /\ tiles' = TilesAfterCreate(q, shadow, tiles)
      /\ next' = IF next \in {q.platform, q.surface} THEN next + 1 ELSE next
  BY DEF Listeners, TilesAfter
<1>3. PICK p \in QWindows : p = window[w] /\ WellFormed(p) /\ p.platform < next
  BY DEF WindowInv
<1>4. /\ w \in Windows /\ w # 0 /\ next \in Nat /\ next <= next' /\ next' \in Nat
      /\ window'[w] = q /\ \A v \in Windows \ {w} : window'[v] = window[v]
  BY <1>2, PluginAssumption DEF WindowInv, PluginAssumption
<1>5. /\ q.surface = p.surface /\ q.surface # 0 /\ q.platform = p.platform /\ q.alive
      /\ q.platform # 0
  BY <1>3 DEF Turns, WellFormed
<1>6. shadow.isCreated /\ shadow.window = w
  BY <1>1, <1>4
<1>7. shadow' = internalCreate(q, shadow, tiles)
  BY <1>2, <1>3, <1>5 DEF ShadowAfter, SurfaceDestroyed
<1>8. Ready(shadow, tiles) /\ \A t \in Tiles : Buffered(tiles[t])
  BY <1>6 DEF ShadowInv, Ready, UsedTiles
<1>9. PICK r \in Shadows :
        /\ r = shadow'
        /\ r.window = shadow.window /\ r.tile = shadow.tile /\ r.padding = shadow.padding
        /\ r.isCreated = shadow.isCreated /\ r.filtered = shadow.filtered
        /\ ~CanCreate(q, shadow) => r = shadow
        /\ CanCreate(q, shadow) =>
             /\ r.object.surface = q.surface /\ r.object.padding = shadow.padding
             /\ \A s \in Slots : r.object.images[s] =
                  IF shadow.tile[s] = Null THEN Null ELSE tiles[shadow.tile[s]].image
             /\ r.connected = shadow.connected \cup {q.platform}
  BY <1>1, <1>7, <1>8, CreateKept
<1>10. /\ tiles' \in [Tiles -> TileRecords]
       /\ \A t \in Tiles : /\ Buffered(tiles'[t]) /\ tiles'[t].image = tiles[t].image
                           /\ tiles'[t].isCreated = tiles[t].isCreated
  <2>1. PICK sh : sh = shadow
    OBVIOUS
  <2> QED BY <1>1, <1>2, <1>8, <2>1, TilesKept
<1>11. \A s \in Slots : shadow.tile[s] # Null => tiles'[shadow.tile[s]].image = tiles[shadow.tile[s]].image
  BY <1>1, <1>10 DEF Shadows
<1>12. ObjectBelongs'
  <2>1. SUFFICES ASSUME r.object # NoObject
        PROVE  /\ r.isCreated /\ r.object.surface # 0 /\ r.object.padding = r.padding
               /\ \A s \in Slots : r.object.images[s] =
                    IF r.tile[s] = Null THEN Null ELSE tiles'[r.tile[s]].image
               /\ \E u \in topic.windows : /\ r.object.surface = window'[u].surface
                                           /\ window'[u].platform \in r.connected
    <3>1. shadow' = r /\ topic' = topic
      BY <1>2, <1>9
    <3> QED BY <3>1 DEF ObjectBelongs
  <2>2. CASE CanCreate(q, shadow)
    <3>1. \A s \in Slots : r.object.images[s] =
            IF r.tile[s] = Null THEN Null ELSE tiles'[r.tile[s]].image
      BY <1>9, <1>11, <2>2
    <3>2. window'[w].surface = r.object.surface /\ window'[w].platform \in r.connected
          /\ r.object.surface # 0 /\ r.object.padding = r.padding
      BY <1>4, <1>5, <1>9, <2>2
    <3> QED BY <1>6, <1>9, <3>1, <3>2
  <2>3. CASE ~CanCreate(q, shadow)
    <3>1. r = shadow
      BY <1>9, <2>3
    <3>2. PICK u \in topic.windows : /\ r.object.surface = window[u].surface
                                     /\ window[u].platform \in r.connected
      BY <1>1, <2>1, <3>1 DEF ObjectBelongs
    <3>3. window'[u].surface = window[u].surface /\ window'[u].platform = window[u].platform
      BY <1>3, <1>4, <1>5 DEF WindowInv
    <3>4. /\ r.isCreated /\ r.object.surface # 0 /\ r.object.padding = r.padding
          /\ \A s \in Slots : r.object.images[s] =
               IF r.tile[s] = Null THEN Null ELSE tiles[r.tile[s]].image
      BY <1>1, <2>1, <3>1 DEF ObjectBelongs
    <3>5. \A s \in Slots : r.object.images[s] =
            IF r.tile[s] = Null THEN Null ELSE tiles'[r.tile[s]].image
      BY <1>11, <3>1, <3>4
    <3> QED BY <3>2, <3>3, <3>4, <3>5
  <2> QED BY <2>2, <2>3
<1>13. r.connected \subseteq shadow.connected \cup {q.platform}
  BY <1>9
<1>14. Connected'
  <2>1. \A i \in shadow.connected : 0 < i /\ i < next /\ i \in Nat
    BY <1>1 DEF Connected, Shadows
  <2>2. \A i \in r.connected : 0 < i /\ i < next'
    BY <1>3, <1>4, <1>5, <1>13, <2>1 DEF QWindows
  <2>3. ASSUME ~retargeted, NEW u \in Windows, window'[u].platform \in r.connected
        PROVE  u = w
    <3>1. SUFFICES ASSUME u # w PROVE FALSE
      OBVIOUS
    <3>2. window[u].platform \in r.connected
      BY <1>4, <2>3, <3>1
    <3>3. window[u].platform # q.platform
      BY <1>3, <1>4, <1>5, <3>1 DEF WindowInv
    <3> QED BY <1>1, <1>6, <1>13, <2>3, <3>1, <3>2, <3>3 DEF Connected
  <2> QED BY <1>2, <1>6, <1>9, <2>2, <2>3 DEF Connected
<1>15. r.isCreated => \A t \in UsedTiles' : tiles'[t].isCreated
  <2>1. UsedTiles' = UsedTiles /\ \A t \in UsedTiles : t \in Tiles /\ tiles[t].isCreated
    BY <1>1, <1>6, <1>9 DEF UsedTiles, ShadowInv, Shadows
  <2> QED BY <1>10, <2>1
<1>16. "shadow" \in globals => r.object # NoObject
  <2>1. CASE CanCreate(q, shadow)
    BY <1>5, <1>9, <2>1, NoObjectType
  <2>2. CASE ~CanCreate(q, shadow)
    BY <1>5, <1>9, <2>2 DEF CanCreate, surfaceForWindow
  <2> QED BY <2>1, <2>2
<1>17. lost = {} => "shadow" \in globals
  BY <1>6 DEF ShadowInv
<1>18. /\ shadow' \in Shadows /\ retargeted' \in BOOLEAN
       /\ \A t \in Tiles : Buffered(tiles'[t])
       /\ shadow'.window \in topic'.windows \cup {0}
       /\ shadow'.filtered = IF shadow'.isCreated THEN shadow'.window ELSE 0
       /\ shadow'.isCreated /\ lost' = {} => "shadow" \in globals'
       /\ lost' = {} => shadow'.object # NoObject
  BY <1>1, <1>2, <1>6, <1>9, <1>10, <1>16, <1>17 DEF ShadowInv
<1> QED BY <1>9, <1>10, <1>12, <1>14, <1>15, <1>18 DEF ShadowInv, Buffered

\* Steps that leave no object, with a shadow that is not created
LEMMA ShadowFresh ==
  ASSUME WindowInv, ShadowInv, UNCHANGED <<window, next, topic, globals, lost>>,
         NEW sh \in Shadows, shadow' = sh, ~sh.isCreated, sh.object = NoObject, sh.filtered = 0,
         sh.window \in topic.windows \cup {0}, sh.connected = shadow.connected,
         retargeted' \in BOOLEAN,
         ~retargeted' => ~retargeted /\ shadow.window \in {0, sh.window},
         tiles' \in [Tiles -> TileRecords], \A t \in Tiles : Buffered(tiles'[t])
  PROVE  ShadowInv'
<1>1. ObjectBelongs'
  BY DEF ObjectBelongs
<1>2. Connected'
  <2>1. Connected /\ 0 \notin Windows
    BY PluginAssumption DEF ShadowInv, PluginAssumption
  <2> QED BY <2>1 DEF Connected
<1> QED BY <1>1, <1>2 DEF ShadowInv, Buffered

\* Steps that are about tiles only: created ones keep their images.
LEMMA TilesOnly ==
  ASSUME WindowInv, ShadowInv, UNCHANGED <<window, next, topic, shadow, retargeted>>,
         lost \subseteq lost', globals \subseteq globals' \/ lost' # {},
         NEW ts \in [Tiles -> TileRecords], tiles' = ts, \A t \in Tiles : Buffered(ts[t]),
         \A t \in Tiles : tiles[t].isCreated => ts[t].isCreated /\ ts[t].image = tiles[t].image
  PROVE  ShadowInv'
<1>1. shadow \in Shadows
  BY DEF ShadowInv
<1>2. shadow.isCreated => \A s \in Slots : shadow.tile[s] # Null =>
        ts[shadow.tile[s]].isCreated /\ ts[shadow.tile[s]].image = tiles[shadow.tile[s]].image
  <2>1. SUFFICES ASSUME shadow.isCreated, NEW s \in Slots, shadow.tile[s] # Null
        PROVE  ts[shadow.tile[s]].isCreated /\ ts[shadow.tile[s]].image = tiles[shadow.tile[s]].image
    OBVIOUS
  <2>2. shadow.tile[s] \in Tiles /\ tiles[shadow.tile[s]].isCreated
    BY <1>1, <2>1 DEF ShadowInv, UsedTiles, Shadows
  <2> QED BY <2>2
<1>3. ObjectBelongs'
  <2>1. ObjectBelongs
    BY DEF ShadowInv
  <2>2. CASE shadow.object = NoObject
    BY <2>2 DEF ObjectBelongs
  <2>3. CASE shadow.object # NoObject
    <3>1. \A s \in Slots : shadow.object.images[s] =
            IF shadow.tile[s] = Null THEN Null ELSE ts[shadow.tile[s]].image
      BY <1>2, <2>1, <2>3 DEF ObjectBelongs
    <3> QED BY <2>1, <2>3, <3>1 DEF ObjectBelongs
  <2> QED BY <2>2, <2>3
<1>4. Connected'
  BY DEF ShadowInv, Connected
<1>5. shadow.isCreated => \A t \in UsedTiles' : ts[t].isCreated
  BY <1>2 DEF UsedTiles
<1> QED BY <1>3, <1>4, <1>5 DEF ShadowInv, Buffered

LEMMA ShadowCreated ==
  ASSUME WindowInv, ShadowInv, UNCHANGED <<window, next, topic, globals, lost>>, createShadow
  PROVE  ShadowInv'
<1>1. /\ shadow \in Shadows /\ tiles \in [Tiles -> TileRecords] /\ retargeted \in BOOLEAN
      /\ shadow.window \in topic.windows \cup {0}
      /\ ObjectBelongs /\ Connected /\ \A t \in Tiles : Buffered(tiles[t])
  BY DEF ShadowInv
<1>2. PICK ts : ts = [t \in Tiles |-> IF t \in UsedTiles THEN TileCreated(tiles[t], globals)
                                      ELSE tiles[t]]
  OBVIOUS
<1>3. \A t \in Tiles : /\ ts[t] \in TileRecords /\ Buffered(ts[t]) /\ ts[t].image = tiles[t].image
                       /\ tiles[t].isCreated => ts[t].isCreated
  <2>1. TAKE t \in Tiles
  <2>2. ts[t] = TileCreated(tiles[t], globals) \/ ts[t] = tiles[t]
    BY <1>2
  <2>3. tiles[t] \in TileRecords /\ Buffered(tiles[t])
    BY <1>1
  <2> QED BY <2>2, <2>3, TileMade
<1>4. ts \in [Tiles -> TileRecords]
  BY <1>2, <1>3
<1> DEFINE ready == (\A t \in UsedTiles : ts[t].isCreated) /\ "shadow" \in globals
<1>5. ~shadow.isCreated /\ shadow.window # 0 /\ retargeted' = retargeted
  BY DEF createShadow
<1>6. PICK q \in QWindows : q = window[shadow.window] /\ WellFormed(q) /\ q.platform < next
  BY <1>1, <1>5 DEF WindowInv
<1>7. CASE ~ready
  <2>1. shadow' = shadow /\ tiles' = ts
    BY <1>2, <1>7 DEF createShadow
  <2> QED BY <1>3, <1>4, <1>5, <2>1, TilesOnly
<1>8. CASE ready
  <2>1. /\ shadow' = [internalCreate(q, shadow, ts) EXCEPT
                        !.isCreated = TRUE, !.filtered = shadow.window]
        /\ tiles' = TilesAfterCreate(q, shadow, ts)
    BY <1>2, <1>6, <1>8 DEF createShadow
  <2>2. Ready(shadow, ts)
    BY <1>8 DEF Ready, UsedTiles
  <2>3. PICK r \in Shadows :
          /\ r = internalCreate(q, shadow, ts)
          /\ r.window = shadow.window /\ r.tile = shadow.tile /\ r.padding = shadow.padding
          /\ r.isCreated = shadow.isCreated /\ r.filtered = shadow.filtered
          /\ ~CanCreate(q, shadow) => r = shadow
          /\ CanCreate(q, shadow) =>
               /\ r.object.surface = q.surface /\ r.object.padding = shadow.padding
               /\ \A s \in Slots : r.object.images[s] =
                    IF shadow.tile[s] = Null THEN Null ELSE ts[shadow.tile[s]].image
               /\ r.connected = shadow.connected \cup {q.platform}
    BY <1>1, <1>3, <1>4, <2>2, CreateKept
  <2>4. PICK z \in Shadows :
          /\ z = [r EXCEPT !.isCreated = TRUE, !.filtered = shadow.window]
          /\ z.isCreated = TRUE /\ z.filtered = shadow.window /\ z.object = r.object
          /\ z.window = r.window /\ z.tile = r.tile /\ z.padding = r.padding
          /\ z.connected = r.connected
    <3>1. PICK z : z = [r EXCEPT !.isCreated = TRUE, !.filtered = shadow.window]
      OBVIOUS
    <3>2. shadow.window \in Windows \cup {0}
      BY <1>1 DEF Shadows
    <3>3. /\ z \in Shadows
          /\ z.isCreated = TRUE /\ z.filtered = shadow.window /\ z.object = r.object
          /\ z.window = r.window /\ z.tile = r.tile /\ z.padding = r.padding
          /\ z.connected = r.connected
      BY <3>1, <3>2 DEF Shadows
    <3> QED BY <3>1, <3>3
  <2>5. shadow' = z
    BY <2>1, <2>3, <2>4
  <2>6. /\ tiles' \in [Tiles -> TileRecords]
        /\ \A t \in Tiles : /\ Buffered(tiles'[t]) /\ tiles'[t].image = ts[t].image
                            /\ tiles'[t].isCreated = ts[t].isCreated
    <3>1. PICK sh : sh = shadow
      OBVIOUS
    <3> QED BY <1>3, <1>4, <2>1, <3>1, TilesKept
  <2>7. \A s \in Slots : shadow.tile[s] # Null =>
          tiles'[shadow.tile[s]].image = ts[shadow.tile[s]].image
    BY <1>1, <2>6 DEF Shadows
  <2>8. shadow.object = NoObject /\ "shadow" \in globals
    BY <1>1, <1>5, <1>8 DEF ObjectBelongs
  <2>9. CanCreate(q, shadow) <=> q.surface # 0
    BY <2>8 DEF CanCreate, surfaceForWindow
  <2>10. ObjectBelongs'
    <3>1. SUFFICES ASSUME z.object # NoObject
          PROVE  /\ z.isCreated /\ z.object.surface # 0 /\ z.object.padding = z.padding
                 /\ \A s \in Slots : z.object.images[s] =
                      IF z.tile[s] = Null THEN Null ELSE tiles'[z.tile[s]].image
                 /\ \E u \in topic.windows : /\ z.object.surface = window[u].surface
                                             /\ window[u].platform \in z.connected
      BY <2>5 DEF ObjectBelongs
    <3>2. CanCreate(q, shadow)
      BY <2>3, <2>4, <2>8, <3>1
    <3>3. shadow.window \in topic.windows /\ z.object.surface = window[shadow.window].surface
          /\ window[shadow.window].platform \in z.connected /\ z.object.surface # 0
      BY <1>1, <1>5, <1>6, <2>3, <2>4, <2>9, <3>2
    <3>4. \A s \in Slots : z.object.images[s] =
            IF z.tile[s] = Null THEN Null ELSE tiles'[z.tile[s]].image
      BY <2>3, <2>4, <2>7, <3>2
    <3> QED BY <2>3, <2>4, <3>2, <3>3, <3>4
  <2>11. Connected'
    <3>1. /\ z.connected \subseteq shadow.connected \cup {q.platform}
          /\ q.surface = 0 => z.connected = shadow.connected
      BY <2>3, <2>4, <2>9
    <3>2. \A i \in shadow.connected : 0 < i /\ i < next
      BY <1>1 DEF Connected
    <3>3. q.surface # 0 => 0 < q.platform /\ q.platform < next
      BY <1>6 DEF WellFormed, QWindows
    <3>4. ASSUME ~retargeted, NEW u \in Windows, window[u].platform \in z.connected
          PROVE  u = shadow.window
      <4>1. CASE window[u].platform \in shadow.connected
        BY <1>1, <3>4, <4>1 DEF Connected
      <4>2. CASE window[u].platform \notin shadow.connected
        <5>1. window[u].platform = q.platform /\ q.platform # 0
          BY <3>1, <3>3, <3>4, <4>2
        <5>2. shadow.window \in Windows
          BY <1>1, <1>5 DEF WindowInv
        <5> QED BY <1>6, <5>1, <5>2 DEF WindowInv
      <4> QED BY <4>1, <4>2
    <3>5. \A i \in z.connected : 0 < i /\ i < next
      BY <3>1, <3>2, <3>3
    <3> QED BY <1>5, <2>3, <2>4, <2>5, <3>4, <3>5 DEF Connected
  <2>12. \A t \in UsedTiles' : tiles'[t].isCreated
    <3>1. UsedTiles' = UsedTiles /\ \A t \in UsedTiles : t \in Tiles
      BY <1>1, <2>3, <2>4, <2>5 DEF UsedTiles, Shadows
    <3> QED BY <1>8, <2>6, <3>1
  <2>13. q.exposed => z.object # NoObject
    BY <1>6, <2>3, <2>4, <2>9, NoObjectType DEF WellFormed
  <2>14. /\ shadow' \in Shadows /\ retargeted' \in BOOLEAN
         /\ \A t \in Tiles : Buffered(tiles'[t])
         /\ shadow'.window \in topic'.windows \cup {0}
         /\ shadow'.filtered = IF shadow'.isCreated THEN shadow'.window ELSE 0
         /\ "shadow" \in globals'
         /\ window'[shadow'.window].exposed => shadow'.object # NoObject
    BY <1>1, <1>5, <1>6, <2>3, <2>4, <2>5, <2>6, <2>8, <2>13
  <2> QED BY <2>6, <2>10, <2>11, <2>12, <2>14 DEF ShadowInv, Buffered
<1> QED BY <1>7, <1>8

LEMMA ShadowCalls ==
  ASSUME WindowInv, ShadowInv, ShadowCall
  PROVE  ShadowInv'
<1>1. /\ shadow \in Shadows /\ tiles \in [Tiles -> TileRecords] /\ retargeted \in BOOLEAN
      /\ shadow.window \in topic.windows \cup {0} /\ shadow.window \in Windows \cup {0}
      /\ shadow.filtered = IF shadow.isCreated THEN shadow.window ELSE 0
      /\ ~shadow.isCreated => shadow.object = NoObject
      /\ \A t \in Tiles : Buffered(tiles[t])
  BY DEF ShadowInv, ObjectBelongs, Shadows
<1>2. UNCHANGED <<window, next, topic, globals, lost>>
  BY DEF ShadowCall, windowVars
<1>3. ASSUME NEW s \in Slots, NEW t \in Tiles \cup {Null}, setTile(s, t) PROVE ShadowInv'
  <2>1. PICK ts \in [Slots -> Tiles \cup {Null}] : ts = [shadow.tile EXCEPT ![s] = t]
    BY <1>1 DEF Shadows
  <2>2. shadow' = [shadow EXCEPT !.tile = ts]
    BY <1>3, <2>1 DEF setTile
  <2>3. PICK sh \in Shadows :
          /\ sh = shadow' /\ sh.isCreated = shadow.isCreated /\ sh.object = shadow.object
          /\ sh.filtered = shadow.filtered /\ sh.window = shadow.window
          /\ sh.connected = shadow.connected
    BY <1>1, <2>2 DEF Shadows
  <2>4. UNCHANGED <<tiles, retargeted>> /\ ~shadow.isCreated
    BY <1>3 DEF setTile
  <2> QED BY <1>1, <1>2, <2>3, <2>4, ShadowFresh
<1>4. ASSUME NEW p \in Paddings, setPadding(p) PROVE ShadowInv'
  <2>1. shadow' = [shadow EXCEPT !.padding = p]
    BY <1>4 DEF setPadding
  <2>2. PICK sh \in Shadows :
          /\ sh = shadow' /\ sh.isCreated = shadow.isCreated /\ sh.object = shadow.object
          /\ sh.filtered = shadow.filtered /\ sh.window = shadow.window
          /\ sh.connected = shadow.connected
    BY <1>1, <2>1 DEF Shadows
  <2>3. UNCHANGED <<tiles, retargeted>> /\ ~shadow.isCreated
    BY <1>4 DEF setPadding
  <2> QED BY <1>1, <1>2, <2>2, <2>3, ShadowFresh
<1>5. ASSUME NEW w \in topic.windows, setWindow(w) PROVE ShadowInv'
  <2>0. w \in Windows
    BY DEF WindowInv
  <2>1. shadow' = [shadow EXCEPT !.window = w]
    BY <1>5 DEF setWindow
  <2>2. PICK sh \in Shadows :
          /\ sh = shadow' /\ sh.isCreated = shadow.isCreated /\ sh.object = shadow.object
          /\ sh.filtered = shadow.filtered /\ sh.window = w
          /\ sh.connected = shadow.connected
    BY <1>1, <2>0, <2>1 DEF Shadows
  <2>3. /\ tiles' = tiles /\ ~shadow.isCreated
        /\ retargeted' = (retargeted \/ shadow.window \notin {0, w})
    BY <1>5 DEF setWindow
  <2>4. retargeted' \in BOOLEAN /\ (~retargeted' => ~retargeted /\ shadow.window \in {0, w})
    BY <1>1, <2>3
  <2> QED BY <1>1, <1>2, <2>2, <2>3, <2>4, ShadowFresh
<1>6. ASSUME NEW t \in Tiles, createTile(t) PROVE ShadowInv'
  <2>1. PICK u : u = TileCreated(tiles[t], globals)
    OBVIOUS
  <2>2. tiles[t] \in TileRecords /\ Buffered(tiles[t])
    BY <1>1
  <2>3. /\ u \in TileRecords /\ Buffered(u) /\ u.image = tiles[t].image
        /\ tiles[t].isCreated => u.isCreated
    BY <2>1, <2>2, TileMade
  <2>4. PICK ts : ts = [tiles EXCEPT ![t] = u]
    OBVIOUS
  <2>5. ts \in [Tiles -> TileRecords] /\ ts[t] = u /\ \A v \in Tiles \ {t} : ts[v] = tiles[v]
    BY <1>1, <2>3, <2>4
  <2>6. tiles' = ts /\ UNCHANGED <<shadow, retargeted>>
    BY <1>6, <2>1, <2>4 DEF createTile
  <2>7. \A v \in Tiles : /\ Buffered(ts[v])
                         /\ tiles[v].isCreated => ts[v].isCreated /\ ts[v].image = tiles[v].image
    BY <1>1, <2>3, <2>5
  <2> QED BY <1>2, <2>5, <2>6, <2>7, TilesOnly
<1>7. ASSUME NEW t \in Tiles, NEW i \in Images, setImage(t, i) PROVE ShadowInv'
  <2>1. PICK u : u = [tiles[t] EXCEPT !.image = i]
    OBVIOUS
  <2>2. tiles[t] \in TileRecords /\ Buffered(tiles[t]) /\ ~tiles[t].isCreated
    BY <1>1, <1>7 DEF setImage
  <2>3. u \in TileRecords /\ Buffered(u)
    BY <2>1, <2>2 DEF TileRecords, Buffered
  <2>4. PICK ts : ts = [tiles EXCEPT ![t] = u]
    OBVIOUS
  <2>5. ts \in [Tiles -> TileRecords] /\ ts[t] = u /\ \A v \in Tiles \ {t} : ts[v] = tiles[v]
    BY <1>1, <2>3, <2>4
  <2>6. tiles' = ts /\ UNCHANGED <<shadow, retargeted>>
    BY <1>7, <2>1, <2>4 DEF setImage
  <2>7. \A v \in Tiles : /\ Buffered(ts[v])
                         /\ tiles[v].isCreated => ts[v].isCreated /\ ts[v].image = tiles[v].image
    BY <1>1, <2>2, <2>3, <2>5
  <2> QED BY <1>2, <2>5, <2>6, <2>7, TilesOnly
<1>8. CASE createShadow
  BY <1>2, <1>8, ShadowCreated
<1>9. CASE destroyShadow
  <2>1. shadow' = [shadow EXCEPT !.object = NoObject, !.isCreated = FALSE, !.filtered = 0]
    BY <1>1, <1>9 DEF destroyShadow, internalDestroy, Shadows
  <2>2. PICK sh \in Shadows :
          /\ sh = shadow' /\ ~sh.isCreated /\ sh.object = NoObject
          /\ sh.filtered = 0 /\ sh.window = shadow.window
          /\ sh.connected = shadow.connected
    <3>1. PICK o \in ShadowObjects : o = NoObject
      BY NoObjectType
    <3>2. shadow' = [shadow EXCEPT !.object = o, !.isCreated = FALSE, !.filtered = 0]
      BY <2>1, <3>1
    <3>3. /\ shadow' \in Shadows /\ ~shadow'.isCreated /\ shadow'.object = o
          /\ shadow'.filtered = 0 /\ shadow'.window = shadow.window
          /\ shadow'.connected = shadow.connected
      BY <1>1, <3>2 DEF Shadows
    <3> QED BY <3>1, <3>3
  <2>3. UNCHANGED <<tiles, retargeted>>
    BY <1>9 DEF destroyShadow
  <2> QED BY <1>1, <1>2, <2>2, <2>3, ShadowFresh
<1> QED BY <1>3, <1>4, <1>5, <1>6, <1>7, <1>8, <1>9 DEF ShadowCall

LEMMA ShadowKept ==
  ASSUME WindowInv, ShadowInv, [Next]_vars
  PROVE  ShadowInv'
<1>0. WindowInv'
  BY WindowKept
<1>1. CASE UNCHANGED <<window, next, topic, globals, lost, shadow, tiles, retargeted>>
  BY <1>1 DEF ShadowInv, ObjectBelongs, Connected, Buffered, UsedTiles
<1>2. CASE WindowStep
  <2>1. PICK w \in topic.windows, q \in QWindows, x \in BOOLEAN :
          Turns(w, q, x) /\ Listeners(w, q, x)
    BY <1>2 DEF WindowStep
  <2> QED BY <1>0, <2>1, ShadowDrawn, ShadowFollows
<1>3. CASE ShadowCall
  BY <1>3, ShadowCalls
<1>4. CASE GlobalStep
  <2>1. PICK g \in topic.globals : Announce(g) \/ Withdraw(g)
    BY <1>4 DEF GlobalStep
  <2>2. /\ UNCHANGED <<window, next, topic, shadow, retargeted>>
        /\ tiles' = IF g = "shm" /\ g \notin globals'
                      THEN [t \in Tiles |-> [tiles[t] EXCEPT !.buffer = Null]] ELSE tiles
        /\ lost \subseteq lost' /\ (globals \subseteq globals' \/ lost' # {})
    BY <2>1 DEF Announce, Withdraw, ActiveChanged, ShadowActiveChanged
  <2>3. tiles \in [Tiles -> TileRecords] /\ \A t \in Tiles : Buffered(tiles[t])
    BY DEF ShadowInv
  <2>4. PICK ts : ts = tiles'
    OBVIOUS
  <2>5. \A t \in Tiles : ts[t] \in TileRecords /\ Buffered(ts[t])
          /\ ts[t].isCreated = tiles[t].isCreated /\ ts[t].image = tiles[t].image
    <3>1. TAKE t \in Tiles
    <3>2. PICK u \in TileRecords : u = tiles[t] /\ Buffered(u)
      BY <2>3
    <3>3. ts[t] = u \/ ts[t] = [u EXCEPT !.buffer = Null]
      BY <2>2, <2>4, <3>2
    <3> QED BY <3>2, <3>3 DEF TileRecords, Buffered
  <2>6. ts \in [Tiles -> TileRecords]
    BY <2>2, <2>3, <2>4, <2>5
  <2> QED BY <2>2, <2>4, <2>5, <2>6, TilesOnly
<1> QED BY <1>1, <1>2, <1>3, <1>4, ShadowKinds

-----------------------------------------------------------------------------
(* The theorems                                                            *)

LEMMA PluginInit == Init => PluginInv
<1> SUFFICES ASSUME Init PROVE PluginInv
  OBVIOUS
<1>1. NoWindow \in QWindows /\ NewWindow \in QWindows /\ WellFormed(NewWindow)
      /\ NewWindow.platform = 0 /\ NewWindow.surface = 0 /\ ~NewWindow.exposed
      /\ ~NewWindow.role /\ NewWindow.alive
  BY DEF NoWindow, NewWindow, QWindows, WellFormed
<1>2. window = [w \in Windows |-> NewWindow] /\ next = 1 /\ lost = {} /\ topic \in Topics
  BY DEF Init
<1>3. WindowInv
  BY <1>1, <1>2, PluginAssumption DEF WindowInv, PluginAssumption
<1>4. EffectsInv
  <2>1. effects = [w \in Windows |-> NoEffects] /\ supportsBlur = FALSE
    BY DEF Init, EffectsInit
  <2>2. NoEffects \in EffectRecords
    BY DEF NoEffects, EffectRecords, EffectObjects, Nothing, On
  <2>3. /\ NoEffects.blurRegion = None /\ NoEffects.contrastData = None
        /\ NoEffects.slideData = None /\ NoEffects.blur = Nothing /\ NoEffects.slide = Nothing
        /\ NoEffects.contrast = Nothing /\ NoEffects.background = Nothing
        /\ NoEffects.watched = FALSE /\ NoEffects.surfaceWatcher = 0
        /\ Nothing.surface = 0 /\ Nothing.data = None
    BY DEF NoEffects, Nothing, On
  <2>4. EffectsRight(NoEffects, NewWindow, 1, globals, lost, FALSE)
    BY <1>1, <2>2, <2>3
       DEF EffectsRight, Tracked, BlurBelongs, BlurInstalled, ContrastBelongs,
           ContrastInstalled, SlideBelongs, SlideInstalled
  <2> QED BY <1>2, <2>1, <2>2, <2>4 DEF EffectsInv
<1>5. ShadowInv
  <2>1. PICK t \in [Slots -> Tiles \cup {Null}] : t = [s \in Slots |-> Null]
    OBVIOUS
  <2>2. shadow = [window |-> 0, tile |-> t, padding |-> 0, isCreated |-> FALSE,
                  filtered |-> 0, connected |-> {}, object |-> NoObject]
        /\ tiles = [u \in Tiles |-> [image |-> Null, isCreated |-> FALSE, buffer |-> Null]]
        /\ retargeted = FALSE
    BY <2>1 DEF Init, ShadowInit
  <2>3. shadow \in Shadows
    BY <2>2, NoObjectType DEF Shadows
  <2>4. tiles \in [Tiles -> TileRecords] /\ \A u \in Tiles : Buffered(tiles[u])
    BY <2>2 DEF TileRecords, Buffered
  <2> QED BY <2>2, <2>3, <2>4 DEF ShadowInv, ObjectBelongs, Connected
<1>6. ForeignInv
  <2>1. NoForeign \in ForeignRecords /\ Numbered(NoForeign) /\ NoForeign.waiting = 0
    BY FS_EmptySet DEF NoForeign, ForeignRecords, Numbered, Numbers
  <2>2. /\ foreign = [w \in Windows |-> NoForeign] /\ asked = [w \in Windows |-> NoHandle]
    BY DEF Init, SystemInit
  <2> QED BY <2>1, <2>2 DEF ForeignInv, Settled
<1>7. TagInv
  <2>1. cookie = [w \in Windows |-> NoCookie] /\ tag = [w \in Windows |-> NoTag]
    BY DEF Init, SystemInit
  <2>2. NoCookie \in [tag : Tags \cup {NoTag}, platform : Nat]
    BY DEF NoCookie
  <2> QED BY <1>1, <1>2, <2>1, <2>2 DEF TagInv
<1>8. TokenInv
  BY DEF Init, SystemInit, TokenInv
<1>9. ShowingInv
  <2>1. showing = [real |-> FALSE, wire |-> <<>>, known |-> FALSE]
    BY DEF Init, SystemInit
  <2> QED BY <2>1 DEF ShowingInv
<1> QED BY <1>3, <1>4, <1>5, <1>6, <1>7, <1>8, <1>9 DEF PluginInv

LEMMA PluginNext == PluginInv /\ [Next]_vars => PluginInv'
BY WindowKept, EffectsKept, ShadowKept, ForeignKept, TagKept, TokenKept, ShowingKept
   DEF PluginInv

LEMMA PluginAlways == Spec => []PluginInv
BY PluginInit, PluginNext, PTL DEF Spec

\* Blur, contrast and slide as the compositor shows them are those the application asked
\* for, for every window that is exposed, however its surface, the protocols and the
\* blur capability came and went (windoweffects.cpp).
THEOREM EffectsAlwaysShown == Spec => []EffectsShown
<1>1. ASSUME WindowInv, EffectsInv PROVE EffectsShown
  <2> SUFFICES ASSUME NEW w \in topic.windows
               PROVE  /\ {effects[w].blur.surface, effects[w].contrast.surface}
                           \subseteq {0, window[w].surface}
                      /\ window[w].exposed =>
                           /\ isEffectAvailable("contrast")
                                => DataOn(effects[w].contrast, w) = effects[w].contrastData
                           /\ isEffectAvailable("slide")
                                => DataOn(effects[w].slide, w) = effects[w].slideData
                           /\ ( /\ isEffectAvailable("blur") /\ "background" \notin lost
                                /\ effects[w].background.surface \in {0, window[w].surface} )
                              => ShownBlur(w) = effects[w].blurRegion
    BY DEF EffectsShown
  <2>1. PICK q \in QWindows : q = window[w] /\ WellFormed(q)
    BY <1>1 DEF WindowInv
  <2>2. PICK e \in EffectRecords :
          e = effects[w] /\ EffectsRight(e, q, next, globals, lost, supportsBlur)
    BY <1>1, <2>1 DEF EffectsInv, WindowInv
  <2>3. Nothing.surface = 0 /\ Nothing.data = None
        /\ \A s, d : On(s, d).surface = s /\ On(s, d).data = d
    BY DEF Nothing, On
  <2>4. e.blur.surface \in {0, q.surface} /\ e.contrast.surface \in {0, q.surface}
    BY <2>2, <2>3 DEF EffectsRight, BlurBelongs, ContrastBelongs
  <2>5. q.exposed => q.surface # 0
    BY <2>1 DEF WellFormed
  <2>6. q.exposed /\ "contrast" \in globals => DataOn(e.contrast, w) = e.contrastData
    BY <2>1, <2>2, <2>3, <2>5 DEF EffectsRight, ContrastBelongs, ContrastInstalled, DataOn
  <2>7. q.exposed /\ "slide" \in globals => DataOn(e.slide, w) = e.slideData
    BY <2>1, <2>2, <2>3, <2>5 DEF EffectsRight, SlideBelongs, SlideInstalled, DataOn
  <2>8. q.exposed /\ "background" \in globals \ lost /\ supportsBlur
          /\ e.background.surface \in {0, q.surface} => DataOn(e.background, w) = e.blurRegion
    BY <2>1, <2>2, <2>3, <2>5 DEF EffectsRight, BlurBelongs, BlurInstalled, DataOn
  <2>9. q.exposed /\ "background" \notin globals \cup lost /\ "blur" \in globals
          => DataOn(e.blur, w) = e.blurRegion
    BY <2>1, <2>2, <2>3, <2>5 DEF EffectsRight, BlurBelongs, BlurInstalled, DataOn
  <2>10. /\ isEffectAvailable("contrast") <=> "contrast" \in globals
         /\ isEffectAvailable("slide") <=> "slide" \in globals
         /\ isEffectAvailable("blur") <=>
              IF "background" \in globals THEN supportsBlur = TRUE ELSE "blur" \in globals
    BY <1>1 DEF isEffectAvailable, EffectsInv
  <2>11. ShownBlur(w) = IF "background" \in globals THEN DataOn(e.background, w)
                        ELSE DataOn(e.blur, w)
    BY <2>2 DEF ShownBlur
  <2> QED BY <2>1, <2>2, <2>4, <2>6, <2>7, <2>8, <2>9, <2>10, <2>11
<1>2. PluginInv => EffectsShown
  BY <1>1 DEF PluginInv
<1> QED BY <1>2, PluginAlways, PTL

\* A shadow that isCreated() is shown as configured whenever its window is exposed, and
\* its object never outlives the surface (kwindowshadow.cpp, windowshadow.cpp).
THEOREM ShadowAlwaysShown == Spec => []ShadowShown
<1>1. ASSUME WindowInv, ShadowInv PROVE ShadowShown
  <2>1. shadow \in Shadows /\ ObjectBelongs /\ Connected /\ shadow.window \in topic.windows \cup {0}
    BY <1>1 DEF ShadowInv
  <2>2. shadow.object.surface \in {0} \cup {window[w].surface : w \in topic.windows}
    BY <2>1, NoObjectType DEF ObjectBelongs
  <2>3. ASSUME shadow.isCreated, shadow.window # 0, ~retargeted, lost = {},
               window[shadow.window].exposed
        PROVE  shadow.object = Wanted
    <3>1. shadow.object # NoObject
      BY <1>1, <2>3 DEF ShadowInv
    <3>2. PICK u \in topic.windows : /\ shadow.object.surface = window[u].surface
                                     /\ window[u].platform \in shadow.connected
      BY <2>1, <3>1 DEF ObjectBelongs
    <3>3. u = shadow.window
      <4>1. u \in Windows
        BY <1>1, <3>2 DEF WindowInv
      <4> QED BY <2>1, <2>3, <3>2, <4>1 DEF Connected
    <3>4. PICK o \in ShadowObjects : o = shadow.object
      BY <2>1 DEF Shadows
    <3>5. o.images = [s \in Slots |-> IF shadow.tile[s] = Null THEN Null
                                      ELSE tiles[shadow.tile[s]].image]
      BY <2>1, <3>1, <3>4 DEF ObjectBelongs, ShadowObjects
    <3>6. o.surface = window[shadow.window].surface /\ o.padding = shadow.padding
      BY <2>1, <3>1, <3>2, <3>3, <3>4 DEF ObjectBelongs
    <3>7. o = [surface |-> o.surface, padding |-> o.padding, images |-> o.images]
      BY DEF ShadowObjects
    <3> QED BY <3>4, <3>5, <3>6, <3>7 DEF Wanted
  <2> QED BY <2>2, <2>3 DEF ShadowShown
<1>2. PluginInv => ShadowShown
  BY <1>1 DEF PluginInv
<1> QED BY <1>2, PluginAlways, PTL

\* A future of exportToplevel() that is not settled waits for an object whose handle has
\* not come yet (windowsystem.cpp).
THEOREM ExportsAlwaysSettle == Spec => []ExportsSettle
<1>1. PluginInv => ExportsSettle
  BY DEF PluginInv, WindowInv, ForeignInv, Settled, ExportsSettle
<1> QED BY <1>1, PluginAlways, PTL

\* Each toplevel of a window is told the main window and the tag that were set before it
\* was shown, however many setMainWindow() and surfaceRoleCreated() there are
\* (windowsystem.cpp).
THEOREM ToplevelsAlwaysTold == Spec => []ToplevelsTold
<1>1. PluginInv => ToplevelsTold
  BY DEF PluginInv, WindowInv, ForeignInv, Settled, TagInv, ToplevelsTold
<1> QED BY <1>1, PluginAlways, PTL

\* A token of the environment activates one window
\* (consumeCurrentActivationToken()).
THEOREM TokensUsedOnce == Spec => []TokenUsedOnce
<1>1. PluginInv => TokenUsedOnce
  BY DEF PluginInv, TokenInv, TokenUsedOnce
<1> QED BY <1>1, PluginAlways, PTL

\* showingDesktop() is what the compositor shows when nothing is on the wire, also when
\* the protocol has come back (windowsystem.cpp).
THEOREM ShowingDesktopAlwaysKnown == Spec => []ShowingDesktopKnown
<1>1. PluginInv => ShowingDesktopKnown
  BY DEF PluginInv, ShowingInv, ShowingDesktopKnown, showingDesktop
<1> QED BY <1>1, PluginAlways, PTL
=============================================================================

---------------------------- MODULE WindowEffects ---------------------------
(***************************************************************************)
(* WindowEffects of the Wayland plugin                                     *)
(* (src/platforms/wayland/windoweffects.cpp): blur, contrast and slide of  *)
(* windows whose surfaces come and go, through protocols that come and go. *)
(*                                                                         *)
(* effects[w] holds the entries of all tables for w:                       *)
(*   blurRegion, contrastData, slideData   what the application wants;     *)
(*   blur, contrast, background   the protocol objects in m_blurs,         *)
(*                       m_contrasts and m_backgroundEffects;              *)
(*   slide               what the compositor was told: no object is kept;  *)
(*   watched             the event filter and m_windowDestroyedWatchers;   *)
(*   surfaceWatcher      the platform window in m_surfaceDestroyedWatchers.*)
(* A protocol object is On(s, d): made for the surface s, with the data d. *)
(* The compositor forgets what an object says when it is destroyed and     *)
(* when the global is withdrawn.                                           *)
(***************************************************************************)
EXTENDS QWaylandWindow

CONSTANTS Blurs, Contrasts, Slides   \* regions, parameters, edges with offsets

VARIABLES effects, supportsBlur

None == "none"
On(s, d) == [surface |-> s, data |-> d]
Nothing == On(0, None)

NoEffects == [blurRegion |-> None, contrastData |-> None, slideData |-> None,
              blur |-> Nothing, contrast |-> Nothing, background |-> Nothing,
              slide |-> Nothing, watched |-> FALSE, surfaceWatcher |-> 0]

EffectsInit == effects = [w \in Windows |-> NoEffects] /\ supportsBlur = FALSE

\* trackWindow(): connections to the window and to its platform window, if any.
trackWindow(e, q) ==
  [e EXCEPT !.watched = TRUE, !.surfaceWatcher = IF @ = 0 THEN q.platform ELSE @]

releaseWindow(e) ==
  IF {e.blurRegion, e.contrastData, e.slideData} # {None} THEN e
  ELSE [e EXCEPT !.watched = FALSE, !.surfaceWatcher = 0]

resetBlur(e) == [e EXCEPT !.background = Nothing, !.blur = Nothing]
resetContrast(e) == [e EXCEPT !.contrast = Nothing]

\* The background effect protocol is preferred.  Its object is kept when there
\* is one; with the older protocol each call makes a new object.
InstallBackground(e, s, region) ==
  [e EXCEPT !.blur = Nothing,
            !.background = On(IF @ = Nothing THEN s ELSE @.surface, region)]

installBlur(e, q, available, supported, region) ==
  LET s == surfaceForWindow(q)
  IN CASE s = 0 -> e
       [] s # 0 /\ "background" \in available ->
            IF supported THEN InstallBackground(e, s, region) ELSE [e EXCEPT !.blur = Nothing]
       [] s # 0 /\ "background" \notin available /\ "blur" \in available ->
            [resetBlur(e) EXCEPT !.blur = IF region = None THEN Nothing ELSE On(s, region)]
       [] OTHER -> e

installContrast(e, q, available, data) ==
  LET s == surfaceForWindow(q)
  IN IF "contrast" \notin available \/ s = 0 THEN e
     ELSE [e EXCEPT !.contrast = IF data = None THEN Nothing ELSE On(s, data)]

installSlide(e, q, available, data) ==
  LET s == surfaceForWindow(q)
  IN IF "slide" \notin available \/ s = 0 THEN e ELSE [e EXCEPT !.slide = On(s, data)]

-----------------------------------------------------------------------------

\* SurfaceCreated: the connection is made again, to the new platform window.
surfaceCreated(e, q) == [e EXCEPT !.surfaceWatcher = q.platform]

\* Expose: everything that is set for the window is installed on its surface.
exposeWindow(e, q) ==
  LET e1 == IF e.blurRegion = None THEN e
            ELSE installBlur(e, q, globals, supportsBlur, e.blurRegion)
      e2 == IF e1.contrastData = None THEN e1
            ELSE installContrast(e1, q, globals, e1.contrastData)
  IN IF e2.slideData = None THEN e2 ELSE installSlide(e2, q, globals, e2.slideData)

\* What the connections and the event filter do when the window w becomes q, and
\* whether an Expose event comes with it.
EffectsAfter(e, w, q, expose) ==
  LET lostSurface == SurfaceDestroyed(w, q) /\ e.surfaceWatcher = window[w].platform
      e1 == IF lostSurface THEN resetContrast(resetBlur(e)) ELSE e
      e2 == IF e1.watched /\ PlatformCreated(w, q) THEN surfaceCreated(e1, q) ELSE e1
  IN CASE ~q.alive /\ e2.watched -> NoEffects
       [] q.alive /\ e2.watched /\ expose /\ q.exposed -> exposeWindow(e2, q)
       [] OTHER -> e2

enableBlurBehind(w, region) ==
  LET e == effects[w]
      q == window[w]
      asked == [trackWindow(e, q) EXCEPT !.blurRegion = region]
      dropped == releaseWindow(resetBlur([e EXCEPT !.blurRegion = None]))
  IN /\ region # None \/ e.blurRegion # None
     /\ effects' = [effects EXCEPT ![w] =
          IF region = e.blurRegion THEN asked
          ELSE installBlur(IF region = None THEN dropped ELSE asked, q, globals, supportsBlur, region)]
     /\ UNCHANGED supportsBlur

enableBackgroundContrast(w, data) ==
  LET e == effects[w]
      q == window[w]
      asked == [trackWindow(e, q) EXCEPT !.contrastData = data]
      dropped == releaseWindow(resetContrast([e EXCEPT !.contrastData = None]))
  IN /\ data # None \/ e.contrastData # None
     /\ effects' = [effects EXCEPT ![w] =
          IF data = e.contrastData THEN asked
          ELSE installContrast(IF data = None THEN dropped ELSE asked, q, globals, data)]
     /\ UNCHANGED supportsBlur

slideWindow(w, data) ==
  LET e == effects[w]
      q == window[w]
      asked == [trackWindow(e, q) EXCEPT !.slideData = data]
      dropped == releaseWindow([e EXCEPT !.slideData = None])
  IN /\ data # None \/ e.slideData # None
     /\ effects' = [effects EXCEPT ![w] =
          IF data = e.slideData THEN asked
          ELSE installSlide(IF data = None THEN dropped ELSE asked, q, globals, data)]
     /\ UNCHANGED supportsBlur

\* activeChanged() of the managers, when available are the globals there are now, for
\* the effects e of the window q: they are installed again.  installContrast() and
\* installSlide() return at once when their manager has gone, and so does
\* installBlur().
ActiveEffects(e, q, g, available) ==
  CASE g \notin available ->
         (CASE g = "background" -> [e EXCEPT !.background = Nothing]
            [] g = "blur" -> [e EXCEPT !.blur.data = None]
            [] g = "contrast" -> [e EXCEPT !.contrast.data = None]
            [] g = "slide" -> [e EXCEPT !.slide = Nothing]
            [] OTHER -> e)
    [] g = "blur" /\ g \in available /\ "background" \notin available /\ e.blurRegion # None ->
         installBlur(e, q, available, supportsBlur, e.blurRegion)
    [] g = "contrast" /\ g \in available /\ e.contrastData # None ->
         installContrast(e, q, available, e.contrastData)
    [] g = "slide" /\ g \in available /\ e.slideData # None ->
         installSlide(e, q, available, e.slideData)
    [] OTHER -> e

EffectsActiveChanged(g, available) ==
  /\ effects' = [w \in Windows |-> ActiveEffects(effects[w], window[w], g, available)]
  /\ UNCHANGED supportsBlur

\* Mutant: the capability is only noted.
Capabilities_noted(b) ==
  "background" \in globals /\ supportsBlur' = b /\ UNCHANGED effects

\* ext_background_effect_manager_v1_capabilities() and capabilitiesChanged()
Capabilities(b) ==
  /\ "background" \in globals
  /\ supportsBlur' = b
  /\ effects' = [w \in Windows |->
       IF effects[w].blurRegion = None THEN effects[w]
       ELSE installBlur(effects[w], window[w], globals, b, effects[w].blurRegion)]

isEffectAvailable(effect) ==
  IF effect = "blur" /\ "background" \in globals THEN supportsBlur ELSE effect \in globals

-----------------------------------------------------------------------------

\* What the compositor shows behind the surface of w.
DataOn(object, w) == IF object.surface = window[w].surface THEN object.data ELSE None
ShownBlur(w) == IF "background" \in globals THEN DataOn(effects[w].background, w)
                ELSE DataOn(effects[w].blur, w)

EffectsTypeOK ==
  LET Objects(D) == [surface : 0 .. next - 1, data : D \union {None}]
  IN /\ effects \in [Windows -> [blurRegion : Blurs \union {None},
                                 contrastData : Contrasts \union {None},
                                 slideData : Slides \union {None},
                                 blur : Objects(Blurs), contrast : Objects(Contrasts),
                                 background : Objects(Blurs), slide : Objects(Slides),
                                 watched : BOOLEAN, surfaceWatcher : 0 .. next - 1]]
     /\ \A w \in Windows : effects[w].watched
          <=> {effects[w].blurRegion, effects[w].contrastData, effects[w].slideData} # {None}
     /\ supportsBlur \in BOOLEAN
=============================================================================

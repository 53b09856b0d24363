---------------------------- MODULE WaylandPlugin ---------------------------
(***************************************************************************)
(* The Wayland plugin (src/platforms/wayland): window effects, shadows and *)
(* the window system around windows whose surfaces come and go.  All parts *)
(* listen to the same windows and globals: a step of a window runs every   *)
(* handler connected to it.                                                *)
(***************************************************************************)
EXTENDS WindowEffects, WindowShadow, WindowSystem

CONSTANTS Topics   \* what a behaviour is about: which part of the plugin is called,
                   \* how often, on which windows, and the globals there may be

\* 0 is the null pointer, which is the address of no window.
ASSUME PluginAssumption ==
  /\ 0 \notin Windows
  /\ \A t \in Topics : t.windows \subseteq Windows

VARIABLES topic, calls

effectVars == <<effects, supportsBlur>>
shadowVars == <<shadow, tiles, retargeted>>
systemVars == <<foreignVars, tagVars, tokenVars, failed, showing>>
windowVars == <<window, globals, lost, next>>
vars == <<windowVars, effectVars, shadowVars, systemVars, topic, calls>>

Init ==
  /\ topic \in Topics /\ calls = 0
  /\ window = [w \in Windows |-> NewWindow]
  /\ globals \in SUBSET topic.globals
  /\ "shadow" \in globals => "shm" \in globals
  /\ lost = {} /\ next = 1
  /\ EffectsInit /\ ShadowInit /\ SystemInit

-----------------------------------------------------------------------------

\* The window w becomes q.
Listeners(w, q, expose) ==
  /\ window' = [window EXCEPT ![w] = q]
  /\ next' = IF next \in {q.platform, q.surface} THEN next + 1 ELSE next
  /\ next' <= MaxSurfaces + 1
  /\ effects' = [effects EXCEPT ![w] = EffectsAfter(@, w, q, expose)]
  /\ shadow' = ShadowAfter(shadow, w, q, expose)
  /\ tiles' = TilesAfter(shadow, w, q, expose)
  /\ UNCHANGED <<globals, lost, supportsBlur, retargeted, topic, showing>>

Becomes(w, q, expose) ==
  /\ w \in topic.windows
  /\ Listeners(w, q, expose)
  /\ foreign' = [foreign EXCEPT ![w] = ForeignAfter(@, w, q)]
  /\ Cardinality(foreign'[w].imports) <= MaxImports
  /\ failed' = failed \union FailedAfter(foreign[w], w, q)
  /\ cookie' = [cookie EXCEPT ![w] = CookieAfter(w, q)]
  /\ tag' = [tag EXCEPT ![w] = TagAfter(w, q)]
  /\ asked' = [asked EXCEPT ![w] = IF q.platform = 0 THEN NoHandle ELSE @]
  /\ late' = IF q.platform = 0 THEN late \ {w} ELSE late
  /\ UNCHANGED <<tokenVars, calls>>

Create(w) == window[w].alive /\ window[w].platform = 0 /\ Becomes(w, Created(window[w]), FALSE)
Show(w) == window[w].alive /\ ~window[w].role /\ Becomes(w, Shown(window[w]), FALSE)
Expose(w) == window[w].role /\ Becomes(w, [window[w] EXCEPT !.exposed = TRUE], TRUE)
Unexpose(w) == window[w].exposed /\ Becomes(w, [window[w] EXCEPT !.exposed = FALSE], TRUE)
Hide(w) == window[w].role /\ Becomes(w, Hidden(window[w]), FALSE)
Destroy(w) == window[w].platform # 0 /\ Becomes(w, Destroyed(window[w]), FALSE)
Delete(w) == window[w].alive /\ Becomes(w, [Destroyed(window[w]) EXCEPT !.alive = FALSE], FALSE)
New(w) == ~window[w].alive /\ Becomes(w, NewWindow, FALSE)

\* A global is announced, or withdrawn, once at most.  wl_shm is there whenever the
\* shadow protocol is.
ActiveChanged(g, available) ==
  /\ "shadow" \in available => "shm" \in available
  /\ globals' = available
  /\ EffectsActiveChanged(g, available)
  /\ ShadowActiveChanged(g, available)
  /\ ShowingActiveChanged(g, available)
  /\ late' = late \union {w \in Windows : g = "importer" /\ window[w].role}
  /\ UNCHANGED <<window, next, foreign, asked, tagVars, tokenVars, failed, topic, calls>>

Announce(g) == g \notin globals /\ ActiveChanged(g, globals \union {g}) /\ UNCHANGED lost
Withdraw(g) == g \in globals \ lost /\ ActiveChanged(g, globals \ {g}) /\ lost' = lost \union {g}

-----------------------------------------------------------------------------

Call(about) == topic.about = about /\ calls < topic.calls /\ calls' = calls + 1

EffectCall ==
  /\ Call("effects")
  /\ \E w \in topic.windows :
       /\ window[w].alive
       /\ \/ \E r \in Blurs \union {None} : enableBlurBehind(w, r)
          \/ \E c \in Contrasts \union {None} : enableBackgroundContrast(w, c)
          \/ \E s \in Slides \union {None} : slideWindow(w, s)
  /\ UNCHANGED <<windowVars, shadowVars, systemVars, topic>>

CapabilitiesEvent ==
  /\ \E b \in BOOLEAN : Capabilities(b)
  /\ UNCHANGED <<windowVars, shadowVars, systemVars, topic, calls>>

ShadowCall ==
  /\ Call("shadow")
  /\ \/ \E s \in Slots, t \in Tiles \union {Null} : setTile(s, t)
     \/ \E p \in Paddings : setPadding(p)
     \/ \E w \in topic.windows : window[w].alive /\ setWindow(w)
     \/ \E t \in Tiles : createTile(t) \/ \E i \in Images : setImage(t, i)
     \/ createShadow
     \/ destroyShadow
  /\ UNCHANGED <<windowVars, effectVars, systemVars, topic>>

\* exportToplevel(), setMainWindow() and setXdgToplevelTag() create the window, as
\* WindowToken below does.
ExportToplevel(w) ==
  LET q == Created(window[w])
  IN /\ Call("export") /\ window[w].alive
     /\ Listeners(w, q, FALSE)
     /\ foreign' = [foreign EXCEPT ![w] = exportToplevel(ForeignAfter(@, w, q), q)]
     /\ UNCHANGED <<asked, late, tagVars, tokenVars, failed>>

UnexportToplevel(w) ==
  /\ Call("export") /\ window[w].platform # 0
  /\ foreign' = [foreign EXCEPT ![w] = unexportToplevel(@)]
  /\ UNCHANGED <<windowVars, effectVars, shadowVars, asked, late, tagVars, tokenVars, failed, showing, topic>>

ExportHandle(w) ==
  /\ foreign[w].exported # 0 /\ foreign[w].handle = 0
  /\ foreign' = [foreign EXCEPT ![w] = HandleReceived(@)]
  /\ UNCHANGED <<windowVars, effectVars, shadowVars, asked, late, tagVars, tokenVars, failed, showing, topic, calls>>

SetMainWindow(w, h) ==
  LET q == Created(window[w])
      f == foreign[w]
  IN /\ Call("import") /\ window[w].alive
     /\ Listeners(w, q, FALSE)
     /\ foreign' = [foreign EXCEPT ![w] = setMainWindow(f, q, h)]
     /\ Cardinality(foreign'[w].imports) <= MaxImports
     /\ failed' = IF h # NoHandle /\ AssertionFails(DropImported(f, h), q)
                    THEN failed \union {"imported"} ELSE failed
     /\ asked' = [asked EXCEPT ![w] = h]
     /\ late' = IF q.role \/ h = NoHandle THEN late \union {w} ELSE late
     /\ UNCHANGED <<tagVars, tokenVars>>

\* zxdg_imported_v2_destroyed(): the main window has gone.
ImportDestroyed(w, h) ==
  /\ \E i \in foreign[w].imports : i.handle = h
  /\ foreign' = [foreign EXCEPT ![w] =
       DeleteImports(@, {i.number : i \in {j \in @.imports : j.handle = h}})]
  /\ asked' = [asked EXCEPT ![w] = IF @ = h THEN NoHandle ELSE @]
  /\ UNCHANGED <<windowVars, effectVars, shadowVars, late, tagVars, tokenVars, failed, showing, topic, calls>>

SetXdgToplevelTag(w, t) ==
  LET q == Created(window[w])
  IN /\ Call("tags") /\ window[w].alive
     /\ Listeners(w, q, FALSE)
     /\ setXdgToplevelTag(w, q, t)
     /\ UNCHANGED <<foreignVars, tokenVars>>

\* requestToken() and xdgActivationToken() for a window create it, the latter only
\* when there is the protocol: without it the call is one of TokenCall.
WindowToken(w, kind) ==
  /\ Call("activation") /\ window[w].alive
  /\ kind = "signal" \/ "activation" \in globals
  /\ Listeners(w, Created(window[w]), FALSE)
  /\ RequestToken(kind)
  /\ UNCHANGED <<foreignVars, tagVars, failed>>

TokenCall ==
  /\ \/ Call("activation") /\ \E kind \in {"signal", "future"} : RequestToken(kind)
     \/ Call("activation") /\ \E n \in DOMAIN requests : setCurrentToken(n)
     \/ Call("activation") /\ \E w \in topic.windows : activateWindow(window[w])
     \/ (\E n \in DOMAIN requests : TokenArrived(n)) /\ UNCHANGED calls
  /\ UNCHANGED <<windowVars, effectVars, shadowVars, foreignVars, tagVars, failed, showing, topic>>

DesktopCall ==
  /\ \/ Call("desktop") /\ \E b \in BOOLEAN : setShowingDesktop(b)
     \/ ShowDesktopChanged /\ UNCHANGED calls
  /\ UNCHANGED <<windowVars, effectVars, shadowVars, foreignVars, tagVars, tokenVars, failed, topic>>

Next ==
  \/ \E w \in topic.windows :
       \/ Create(w) \/ Show(w) \/ Expose(w) \/ Unexpose(w) \/ Hide(w)
       \/ Destroy(w) \/ Delete(w) \/ New(w)
       \/ ExportToplevel(w) \/ UnexportToplevel(w) \/ ExportHandle(w)
       \/ \E h \in Handles \union {NoHandle} : SetMainWindow(w, h)
       \/ \E h \in Handles : ImportDestroyed(w, h)
       \/ \E t \in Tags : SetXdgToplevelTag(w, t)
       \/ \E kind \in {"signal", "future"} : WindowToken(w, kind)
  \/ \E g \in topic.globals : Announce(g) \/ Withdraw(g)
  \/ EffectCall \/ CapabilitiesEvent \/ ShadowCall \/ TokenCall \/ DesktopCall

Spec == Init /\ [][Next]_vars

-----------------------------------------------------------------------------

\* Every part keeps what its tables may hold.
TypeOK == WindowTypeOK /\ EffectsTypeOK /\ ShadowTypeOK /\ SystemTypeOK

\* Blur and contrast objects belong to the surface the window has now: they do not
\* outlive a surface, whichever way it goes, nor a window whose address is used
\* again (trackWindow(), eventFilter(), releaseWindow()).  An exposed window has the
\* effects asked for, and no others, through whatever protocol there is:
\* re-installation on Expose and on activeChanged() misses no surface
\* (windoweffects.cpp).  Two cases are left out for blur: an object of the
\* background effect protocol that belongs to an earlier surface, and a compositor
\* that has withdrawn that protocol.
EffectsShown ==
  \A w \in topic.windows :
    /\ {effects[w].blur.surface, effects[w].contrast.surface} \subseteq {0, window[w].surface}
    /\ window[w].exposed =>
         /\ isEffectAvailable("contrast")
              => DataOn(effects[w].contrast, w) = effects[w].contrastData
         /\ isEffectAvailable("slide") => DataOn(effects[w].slide, w) = effects[w].slideData
         /\ ( /\ isEffectAvailable("blur") /\ "background" \notin lost
              /\ effects[w].background.surface \in {0, window[w].surface} )
            => ShownBlur(w) = effects[w].blurRegion

\* A shadow that isCreated() is there, as configured, whenever its window is
\* exposed; its object never outlives the surface.  Left out: a shadow that was
\* moved to another window, and a compositor that has withdrawn the protocol.
ShadowShown ==
  /\ shadow.object.surface \in {0} \union {window[w].surface : w \in topic.windows}
  /\ ( /\ shadow.isCreated /\ shadow.window # 0 /\ ~retargeted /\ lost = {}
       /\ window[shadow.window].exposed ) => shadow.object = Wanted

\* Each future of exportToplevel() that is not settled waits for an object whose
\* handle has not come yet: none is left behind by unexportToplevel(), by a handle
\* received between two calls or by the end of the window.
ExportsSettle ==
  \A w \in topic.windows :
    foreign[w].waiting > 0 => foreign[w].exported # 0 /\ foreign[w].handle = 0

\* Each toplevel of a window is told what was set for the window before it was
\* shown, and the last of it, every time it is shown again.  A dialog has its main
\* window as parent as long as that exists (setMainWindow(), to be called before
\* showing the window as kwindowsystem.h says), and a toplevel of the platform window
\* that a tag was set for has that tag (setXdgToplevelTag()).
ToplevelsTold ==
  \A w \in topic.windows : window[w].role =>
    /\ asked[w] # NoHandle /\ w \notin late /\ "importer" \in globals
         => HandleOf(foreign[w], foreign[w].parent) = asked[w]
    /\ cookie[w].platform = window[w].platform /\ failed = {} => tag[w] = cookie[w].tag

\* No token activates two windows (consumeCurrentActivationToken()).
TokenUsedOnce == \A i, j \in DOMAIN activations : activations[i] = activations[j] => i = j

\* When nothing is on the wire, showingDesktop() is what the compositor shows, also
\* after the protocol was withdrawn and announced again.
ShowingDesktopKnown ==
  "plasma" \in globals /\ showing.wire = <<>> => showingDesktop = showing.real
=============================================================================

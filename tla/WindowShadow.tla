---------------------------- MODULE WindowShadow ----------------------------
(***************************************************************************)
(* KWindowShadow and KWindowShadowTile (src/kwindowshadow.cpp) with their  *)
(* Wayland side, WindowShadow, WindowShadowTile and Shm                    *)
(* (src/platforms/wayland/windowshadow.cpp, shm.cpp): one shadow object.   *)
(*                                                                         *)
(* shadow.object is the Shadow that internalCreate() made: the surface it  *)
(* is for (0 if there is none) and the images and the padding it was given.*)
(* shadow.connected are the platform windows whose surfaceDestroyed() runs *)
(* internalDestroy(); these connections are never taken back.              *)
(***************************************************************************)
EXTENDS QWaylandWindow

CONSTANTS Slots,      \* some of the eight places of a tile
          Tiles, Images, Paddings

VARIABLES shadow, tiles,
          retargeted  \* setWindow() has been called a second time

Null == "null"        \* no tile, a null image, no window
NoObject == [surface |-> 0, images |-> [s \in Slots |-> Null], padding |-> 0]

ShadowInit ==
  /\ shadow = [window |-> 0, tile |-> [s \in Slots |-> Null], padding |-> 0,
               isCreated |-> FALSE, filtered |-> 0, connected |-> {}, object |-> NoObject]
  /\ tiles = [t \in Tiles |-> [image |-> Null, isCreated |-> FALSE, buffer |-> Null]]
  /\ retargeted = FALSE

\* Shm::createBuffer(): a null image has no buffer.
createBuffer(image) == image

\* KWindowShadowTile::create() with WindowShadowTile::create()
TileCreated(tile, available) ==
  IF tile.isCreated \/ "shm" \notin available THEN tile
  ELSE [tile EXCEPT !.isCreated = TRUE, !.buffer = createBuffer(tile.image)]

UsedTiles == {shadow.tile[s] : s \in Slots} \ {Null}

\* bufferForTile(): a buffer that was lost is made again.
bufferForTile(tile) ==
  IF tile.buffer = Null /\ tile.isCreated THEN [tile EXCEPT !.buffer = createBuffer(tile.image)]
  ELSE tile

\* What internalCreate() tells the compositor, and the tiles after it
ObjectFor(q, sh, ts) ==
  [surface |-> surfaceForWindow(q), padding |-> sh.padding,
   images |-> [s \in Slots |-> IF sh.tile[s] = Null THEN Null
                               ELSE bufferForTile(ts[sh.tile[s]]).buffer]]

CanCreate(q, sh) ==
  sh.object = NoObject /\ "shadow" \in globals /\ surfaceForWindow(q) # 0

\* Mutant: without the connection to surfaceDestroyed().
internalCreate_unconnected(q, sh, ts) ==
  IF CanCreate(q, sh) THEN [sh EXCEPT !.object = ObjectFor(q, sh, ts)] ELSE sh

internalCreate(q, sh, ts) ==
  IF ~CanCreate(q, sh) THEN sh
  ELSE [sh EXCEPT !.object = ObjectFor(q, sh, ts), !.connected = @ \union {q.platform}]

TilesAfterCreate(q, sh, ts) ==
  IF ~CanCreate(q, sh) THEN ts
  ELSE [t \in Tiles |-> IF t \in UsedTiles THEN bufferForTile(ts[t]) ELSE ts[t]]

\* internalDestroy(): unset() on the surface of the window, if it has one, and
\* the object is dropped.
internalDestroy(sh) == [sh EXCEPT !.object = NoObject]

-----------------------------------------------------------------------------

\* What the event filter and the connections do when the window w becomes q.
ShadowAfter(sh, w, q, expose) ==
  LET sh1 == IF SurfaceDestroyed(w, q) /\ window[w].platform \in sh.connected
               THEN internalDestroy(sh) ELSE sh
  IN IF ~q.alive /\ sh1.window = w THEN [sh1 EXCEPT !.window = 0, !.filtered = 0]
     ELSE IF expose /\ q.exposed /\ sh1.filtered = w THEN internalCreate(q, sh1, tiles)
     ELSE sh1

TilesAfter(sh, w, q, expose) ==
  IF expose /\ q.exposed /\ sh.filtered = w THEN TilesAfterCreate(q, sh, tiles) ELSE tiles

\* The setters are refused once platform resources are allocated.
setTile(s, t) ==
  /\ ~shadow.isCreated
  /\ shadow' = [shadow EXCEPT !.tile[s] = t]
  /\ UNCHANGED <<tiles, retargeted>>

setPadding(p) ==
  /\ ~shadow.isCreated
  /\ shadow' = [shadow EXCEPT !.padding = p]
  /\ UNCHANGED <<tiles, retargeted>>

setWindow(w) ==
  /\ ~shadow.isCreated
  /\ shadow' = [shadow EXCEPT !.window = w]
  /\ retargeted' = (retargeted \/ shadow.window \notin {0, w})
  /\ UNCHANGED tiles

setImage(t, image) ==
  /\ ~tiles[t].isCreated
  /\ tiles' = [tiles EXCEPT ![t].image = image]
  /\ UNCHANGED <<shadow, retargeted>>

createTile(t) ==
  /\ tiles' = [tiles EXCEPT ![t] = TileCreated(@, globals)]
  /\ UNCHANGED <<shadow, retargeted>>

\* KWindowShadow::create(): tiles that could be created before another one failed
\* stay created.  WindowShadow::create() succeeds also when there is no surface yet.
createShadow ==
  LET prepared == [t \in Tiles |-> IF t \in UsedTiles THEN TileCreated(tiles[t], globals)
                                   ELSE tiles[t]]
      ready == \A t \in UsedTiles : prepared[t].isCreated
      q == window[shadow.window]
  IN /\ ~shadow.isCreated /\ shadow.window # 0
     /\ IF ready /\ "shadow" \in globals
          THEN /\ shadow' = [internalCreate(q, shadow, prepared) EXCEPT
                               !.isCreated = TRUE, !.filtered = shadow.window]
               /\ tiles' = TilesAfterCreate(q, shadow, prepared)
          ELSE UNCHANGED shadow /\ tiles' = prepared
     /\ UNCHANGED retargeted

destroyShadow ==
  /\ shadow.isCreated
  /\ shadow' = [internalDestroy(shadow) EXCEPT !.isCreated = FALSE, !.filtered = 0]
  /\ UNCHANGED <<tiles, retargeted>>

\* activeChanged() of Shm drops the buffers; that of ShadowManager changes nothing
\* here, but the compositor forgets the shadow.
ShadowActiveChanged(g, available) ==
  /\ tiles' = IF g = "shm" /\ g \notin available
                THEN [t \in Tiles |-> [tiles[t] EXCEPT !.buffer = Null]] ELSE tiles
  /\ UNCHANGED <<shadow, retargeted>>

-----------------------------------------------------------------------------

Wanted == [surface |-> window[shadow.window].surface, padding |-> shadow.padding,
           images |-> [s \in Slots |-> IF shadow.tile[s] = Null THEN Null
                                       ELSE tiles[shadow.tile[s]].image]]

ShadowTypeOK ==
  LET Objects == [surface : 0 .. next - 1, padding : Paddings, images : [Slots -> Images \union {Null}]]
  IN /\ shadow \in [window : Windows \union {0}, tile : [Slots -> Tiles \union {Null}],
                    padding : Paddings, isCreated : BOOLEAN, filtered : Windows \union {0},
                    connected : SUBSET (1 .. next - 1), object : Objects]
     /\ tiles \in [Tiles -> [image : Images \union {Null}, isCreated : BOOLEAN,
                             buffer : Images \union {Null}]]
     /\ \A t \in Tiles : tiles[t].buffer \in {Null, tiles[t].image}
     /\ shadow.object # NoObject => shadow.isCreated
     /\ retargeted \in BOOLEAN
=============================================================================

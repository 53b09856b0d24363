--------------------------- MODULE QWaylandWindow ---------------------------
(***************************************************************************)
(* What the Wayland plugin (src/platforms/wayland) needs to know of Qt and *)
(* of the compositor.  A QWindow has a platform window from create() to    *)
(* destroy(), a wl_surface and an xdg_toplevel while it is shown; each new *)
(* one has a new number.  Protocols are globals that the compositor may    *)
(* announce and withdraw at any time; isActive() of a client extension     *)
(* says whether its global is there.                                       *)
(***************************************************************************)
EXTENDS Naturals, Sequences, FiniteSets

CONSTANTS Windows,      \* addresses of QWindow objects
          MaxSurfaces   \* bound on surfaces made

VARIABLES window,       \* window[w]: the QWindow at the address w
          globals,      \* the globals announced
          lost,         \* those that were withdrawn once
          next          \* the number of the next platform window or surface

NoWindow == [alive |-> FALSE, platform |-> 0, surface |-> 0, role |-> FALSE, exposed |-> FALSE]
NewWindow == [NoWindow EXCEPT !.alive = TRUE]

\* QWindow::create(), show(), hide() and destroy()
Created(q) == IF q.platform # 0 THEN q ELSE [q EXCEPT !.platform = next, !.surface = next]
Shown(q) == [Created(q) EXCEPT !.surface = IF @ = 0 THEN next ELSE @, !.role = TRUE]
Hidden(q) == [q EXCEPT !.surface = 0, !.role = FALSE, !.exposed = FALSE]
Destroyed(q) == [Hidden(q) EXCEPT !.platform = 0]

\* The signals and events of a window w that becomes q.  surfaceDestroyed() is
\* emitted when the surface is already gone.
SurfaceDestroyed(w, q) == window[w].surface \notin {0, q.surface}
PlatformCreated(w, q) == q.platform \notin {0, window[w].platform}
RoleCreated(w, q) == q.role /\ ~window[w].role

\* helpers.h: 0 stands for nullptr.
surfaceForWindow(q) == q.surface
xdgToplevelForWindow(q) == IF q.role THEN q.surface ELSE 0

WindowTypeOK ==
  /\ window \in [Windows -> [alive : BOOLEAN, platform : 0 .. next - 1, surface : 0 .. next - 1,
                             role : BOOLEAN, exposed : BOOLEAN]]
  /\ \A w \in Windows :
       /\ window[w].exposed => window[w].role
       /\ window[w].role => window[w].surface # 0
       /\ window[w].surface # 0 => window[w].platform # 0
  /\ next \in 1 .. MaxSurfaces + 1
=============================================================================

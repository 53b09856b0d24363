---------------------------- MODULE KX11Desktops ----------------------------
(***************************************************************************)
(* Desktops as KX11Extras (src/kx11extras.cpp) shows them.  A window       *)
(* manager without virtual desktops may have one desktop that is larger    *)
(* than the display; KX11Extras then counts its parts of the size of the   *)
(* display as desktops, from left to right and from top to bottom.         *)
(*                                                                         *)
(* The client of NETRootInfo is the event filter; announced is what a      *)
(* listener knows that has asked when the filter was new and has followed  *)
(* the signals since.  The device pixel ratio is 1.                        *)
(***************************************************************************)
EXTENDS NETRootInfo

CONSTANTS Positions      \* corners of windows, relative to the viewport

ASSUME PositionsAssumption == Positions \subseteq Int \X Int

VARIABLE announced

Unknown == [active |-> -1]

\* C++ division and remainder, for a positive b
Quot(a, b) == IF a < 0 THEN -((-a) \div b) ELSE a \div b
Rem(a, b) == a - b * Quot(a, b)

-----------------------------------------------------------------------------
(* On the fields f of the event filter                                     *)

\* NETRootInfo::desktopGeometry() and the getters that ignore viewports
desktopGeometry(f) == IF f.geometry[1] # 0 THEN f.geometry ELSE RootSize
ownCurrentDesktop(f) == IF f.current_desktop = 0 THEN 1 ELSE f.current_desktop
ownNumberOfDesktops(f) == IF f.number_of_desktops = 0 THEN 1 ELSE f.number_of_desktops
desktopViewport(f) == At(f.viewport, ownCurrentDesktop(f), NoPoint)

mapViewport(f) ==
  /\ "DesktopViewport" \in f.supported
  /\ ownNumberOfDesktops(f) <= 1
  /\ desktopGeometry(f)[1] > DisplaySize[1] \/ desktopGeometry(f)[2] > DisplaySize[2]

\* How many parts there are, and the part that has a coordinate, on axis i
Parts(f, i) == desktopGeometry(f)[i] \div DisplaySize[i]
PartOf(f, c, i) == IF c < 0 THEN 0
                   ELSE IF c >= desktopGeometry(f)[i] THEN Parts(f, i) - 1
                   ELSE c \div DisplaySize[i]

viewportToDesktop(f, p) == PartOf(f, p[2], 2) * Parts(f, 1) + PartOf(f, p[1], 1) + 1

\* desktopToViewport(desktop, absolute)
desktopToViewport_byRows(f, desktop) ==
  IF desktop <= 0 \/ desktop > Parts(f, 1) * Parts(f, 2) THEN NoPoint
  ELSE <<DisplaySize[1] * ((desktop - 1) \div Parts(f, 2)), DisplaySize[2] * ((desktop - 1) % Parts(f, 2))>>
desktopToViewport(f, desktop) ==
  IF desktop <= 0 \/ desktop > Parts(f, 1) * Parts(f, 2) THEN NoPoint
  ELSE <<DisplaySize[1] * ((desktop - 1) % Parts(f, 1)), DisplaySize[2] * ((desktop - 1) \div Parts(f, 1))>>

relativeViewport(f, desktop) ==
  LET p == desktopToViewport(f, desktop)
      c == desktopViewport(f)
      Wrapped(d, size) == IF d >= size THEN d - size ELSE IF d < 0 THEN d + size ELSE d
  IN  [i \in 1..2 |-> Wrapped(p[i] - c[i], desktopGeometry(f)[i])]

constrainViewportRelativePosition(f, p) ==
  LET c == desktopViewport(f)
      s == desktopGeometry(f)
      Inside(a, size) == IF Rem(a, size) < 0 THEN Rem(a, size) + size ELSE Rem(a, size)
  IN  [i \in 1..2 |-> Inside(p[i] + c[i], s[i]) - c[i]]

numberOfDesktops(f) ==
  IF mapViewport(f)
    THEN ((desktopGeometry(f)[1] \div DisplaySize[1]) * desktopGeometry(f)[2]) \div DisplaySize[2]
    ELSE ownNumberOfDesktops(f)

currentDesktop(f) ==
  IF mapViewport(f) THEN viewportToDesktop(f, desktopViewport(f)) ELSE ownCurrentDesktop(f)

\* The desktop of a window whose upper left corner is p, relative to the viewport
viewportWindowToDesktop(f, p, size) ==
  viewportToDesktop(f, [i \in 1..2 |-> Quot(2 * p[i] + size[i] - 1, 2) + desktopViewport(f)[i]])

\* setOnDesktop(): the centre of a window on its part, and where it is moved to
CentreOnPart(p, size) ==
  LET OnPart(a, d) == IF Rem(a, d) < 0 THEN Rem(a, d) + d ELSE Rem(a, d)
  IN  [i \in 1..2 |-> OnPart(p[i] + size[i] \div 2, DisplaySize[i])]

moveToDesktop(f, p, size, desktop) ==
  LET to == relativeViewport(f, desktop)
  IN  constrainViewportRelativePosition(f,
        [i \in 1..2 |-> CentreOnPart(p, size)[i] + to[i] - size[i] \div 2])

-----------------------------------------------------------------------------

\* What currentDesktop() depends on, the viewport and the current desktop apart
Layout(f) == <<desktopGeometry(f), ownNumberOfDesktops(f), mapViewport(f)>>

Told(f) ==
  [active |-> f.active, showing |-> f.showing_desktop,
   number |-> numberOfDesktops(f), sameMapping |-> TRUE,
   current |-> currentDesktop(f), sameLayout |-> TRUE]

\* nativeEventFilter(), after event() has read the property p: values that have
\* changed are announced.  sameMapping and sameLayout say if a large desktop has
\* begun or ended, and the layout changed, since the number and the current
\* desktop were told.
Announced_ownNumber(p, old, new) ==
  [announced EXCEPT
     !.active = IF p = "ActiveWindow" THEN new.active ELSE @,
     !.showing = IF p = "WM2ShowingDesktop" THEN new.showing_desktop ELSE @,
     !.number = IF p = "NumberOfDesktops" THEN numberOfDesktops(new) ELSE @,
     !.sameMapping = @ /\ mapViewport(new) = mapViewport(old),
     !.current = IF p = "CurrentDesktop" THEN currentDesktop(new) ELSE @,
     !.sameLayout = @ /\ Layout(new) = Layout(old)]
Announced(p, old, new) ==
  LET number == /\ numberOfDesktops(new) # numberOfDesktops(old)
                /\ p = "NumberOfDesktops" \/ (p = "DesktopGeometry" /\ mapViewport(new))
      current == /\ currentDesktop(new) # currentDesktop(old)
                 /\ p = "CurrentDesktop" \/ (p = "DesktopViewport" /\ mapViewport(new))
  IN  [announced EXCEPT
         !.active = IF p = "ActiveWindow" THEN new.active ELSE @,
         !.showing = IF p = "WM2ShowingDesktop" THEN new.showing_desktop ELSE @,
         !.number = IF number THEN numberOfDesktops(new) ELSE @,
         !.sameMapping = number \/ (@ /\ mapViewport(new) = mapViewport(old)),
         !.current = IF current THEN currentDesktop(new) ELSE @,
         !.sameLayout = current \/ (@ /\ Layout(new) = Layout(old))]

\* The reply to an event of the filter ends nativeEventFilter(); the last reply of
\* activate() makes it a filter that can be asked.
Announce ==
  LET read == todo[client] # <<>> /\ todo'[client] = <<>> IN
  announced' = IF ~read THEN announced
               ELSE IF announced = Unknown THEN Told(fields'[client])
               ELSE Announced(Head(todo[client]), fields[client], fields'[client])

DesktopsInit == Init /\ announced = Unknown
DesktopsNext == Next /\ Announce
DesktopsSpec == DesktopsInit /\ [][DesktopsNext]_<<vars, announced>>

-----------------------------------------------------------------------------

f0 == fields[client]
Whole(f) == \A i \in 1..2 : desktopGeometry(f)[i] % DisplaySize[i] = 0

\* On a desktop that is a multiple of the display, the parts are numbered one to
\* one: setCurrentDesktop() asks for a viewport that currentDesktop() reports as
\* the desktop asked for, and there are as many as numberOfDesktops() says.
Reachable(f) ==
  /\ numberOfDesktops(f) = Parts(f, 1) * Parts(f, 2)
  /\ \A d \in 1..numberOfDesktops(f) : viewportToDesktop(f, desktopToViewport(f, d)) = d

\* setOnDesktop() moves a window of odd size, wherever it is and whatever the
\* viewport, to a position that viewportWindowToDesktop() reports as the desktop
\* asked for: the remainders of negative coordinates and both wrap arounds are right.
\* Left out: a window that begins left of its part or above it, which is wrapped
\* around by its corner and not by its centre.
WindowLands(f) ==
  \A p \in Positions, size \in {<<1, 1>>, <<3, 3>>} :
    (\A i \in 1..2 : (p[i] + size[i] \div 2) % DisplaySize[i] >= size[i] \div 2) =>
      \A d \in 1..numberOfDesktops(f) :
        viewportWindowToDesktop(f, moveToDesktop(f, p, size, d), size) = d

\* With every viewport and geometry a window manager may publish, the desktops that
\* KX11Extras counts are reached by those who switch to them (Reachable) and by the
\* windows that are sent there (WindowLands).
ViewportsInverse ==
  todo[client] = <<>> /\ mapViewport(f0) /\ Whole(f0) => Reachable(f0) /\ WindowLands(f0)

\* Who has followed the signals knows the active window, the showing desktop mode,
\* the number of desktops and the current one, once all events are dispatched.
\* Left out: the number when a large desktop has begun or ended since it was told,
\* and the current desktop when the geometry or the number has changed since.
ListenersFollow ==
  AtRest /\ announced # Unknown /\ interest = Properties \ {"SupportName"} =>
    /\ announced.active = f0.active /\ announced.showing = f0.showing_desktop
    /\ announced.sameMapping => announced.number = numberOfDesktops(f0)
    /\ announced.sameLayout => announced.current = currentDesktop(f0)
=============================================================================

--------------------------- MODULE MCNETRootInfo ----------------------------
(***************************************************************************)
(* Values for TLC.  Properties that do not depend on each other are looked *)
(* at in different behaviours.                                             *)
(***************************************************************************)
EXTENDS KX11Desktops

MCNames == {<<1>>, <<1, 1>>}
MCWindows == {1, 2}

Viewports == {"NumberOfDesktops", "DesktopGeometry", "DesktopViewport"}

MCTopics ==
  {{"NumberOfDesktops", "WorkArea"}, Viewports,
   {"NumberOfDesktops", "DesktopNames"},
   {"ClientList", "ActiveWindow"}, {"ClientListStacking", "CurrentDesktop"},
   {"DesktopGeometry", "WM2DesktopLayout"}, {"VirtualRoots", "WM2ShowingDesktop"},
   {"Supported"}, {"Requests"}}

MCInterests ==
  {Properties \ {"SupportName"}, {"DesktopNames"},
   {"WorkArea", "NumberOfDesktops", "SupportingWMCheck"}}

\* Two flags with two atoms each, one of each kind, one that brings others along.
MCSupportFlags == {"KeepAbove", "WMFrameExtents", "WMState", "NormalMask", "ActionMove",
                   "WM2AllowedActions"}

\* Four parts, two parts, one and a half.
MCDisplaySize == <<2, 2>>
MCGeometries == {<<4, 4>>, <<4, 2>>, <<2, 3>>}
MCPoints == {<<0, 2>>, <<3, 1>>}
MCPositions == {<<x, 1 - x>> : x \in -3 .. 4}
MCMaxChanges(t) == 3
=============================================================================

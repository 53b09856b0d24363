--------------------------- MODULE MCKWindowInfo ----------------------------
(***************************************************************************)
(* Values for TLC.  Properties that do not depend on each other are looked *)
(* at in different behaviours.                                             *)
(***************************************************************************)
EXTENDS KWindowInfo

MCTopics ==
  {{"WMState"}, {"WMDesktop"},
   {"WMName", "WMVisibleName", "WMIconName", "WMVisibleIconName", "WM_NAME", "WM_ICON_NAME"},
   {"WM2StartupId", "WM2DesktopFileName", "WM2AppMenuObjectPath", "WM2AppMenuServiceName",
    "WM2Activities", "WMHandledIcons"},
   {"WMStrut", "WM2ExtendedStrut"}, {"WMFrameExtents", "WM2FrameOverlap", "WM2GTKFrameExtents"},
   {"WM2FullscreenMonitors", "WMIconGeometry"}, {"WMIcon"},
   {"WMPid", "WM2Opacity", "WM2UserTime", "WM2AllowedActions"},
   {"WMWindowType", "WM2TransientFor"}, {"WM2BlockCompositing"},
   {"Hints", "WM2WindowClass", "WM2Protocols", "WM2OpaqueRegion", "WM2WindowRole",
    "WM2ClientMachine", "WM2GTKApplicationId"}}

MCStates == {"MaxVert", "MaxHoriz", "KeepAbove", "Focused"}
MCStateCalls ==
  {[mask |-> {"MaxVert", "MaxHoriz"}, state |-> s] : s \in SUBSET {"MaxVert", "MaxHoriz"}}
    \cup {[mask |-> {"MaxHoriz"}, state |-> s] : s \in {{}, {"MaxHoriz"}}}
    \cup {[mask |-> {"KeepAbove", "Focused"}, state |-> s] : s \in {{}, {"KeepAbove", "Focused"}}}
MCDesktops == {-1, 0, 1, 2}
MCWindowTypes == {"Normal", "Override", "Utility", "AppletPopup"}
MCTexts == {<<>>, <<1>>, <<1, 2>>}
MCFours == {<<0, 0, 0, 0>>, <<1, 2, 3, 4>>, <<-1, -1, -1, -1>>, <<-1, 2, 3, 4>>}
MCIcons == {[width |-> n, height |-> n, data |-> [i \in 1..(n * n) |-> n]] : n \in 1..3}
             \cup {[width |-> 1, height |-> 2, data |-> <<1, 2>>]}

MCApplicationValues ==
  {[flag |-> "WM_NAME", property |-> Property("STRING", <<3>>)],
   [flag |-> "WM_ICON_NAME", property |-> Property("STRING", <<4>>)],
   [flag |-> "WM2TransientFor", property |-> Property("WINDOW", <<1>>)],
   [flag |-> "Hints", property |-> Property("WM_HINTS", [input |-> FALSE, group |-> 1])],
   [flag |-> "Hints", property |-> Property("WM_HINTS", [state |-> "Iconic", urgency |-> TRUE])],
   [flag |-> "WM2WindowClass", property |-> Property("STRING", <<1, 0, 2, 0>>)],
   [flag |-> "WM2WindowClass", property |-> Property("STRING", <<1, 0>>)],
   [flag |-> "WM2Protocols", property |-> Property("ATOM", {"WM_PING", "WM_OTHER"})],
   [flag |-> "WM2OpaqueRegion", property |-> Property("CARDINAL", <<1, 2, 3, 4, 5>>)],
   [flag |-> "WM2WindowRole", property |-> Property("STRING", <<1, 0>>)],
   [flag |-> "WM2ClientMachine", property |-> Property("STRING", <<1>>)],
   [flag |-> "WM2GTKApplicationId", property |-> Property("UTF8", <<1>>)]}
=============================================================================

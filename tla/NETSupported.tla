---------------------------- MODULE NETSupported ----------------------------
(***************************************************************************)
(* _NET_SUPPORTED: the atoms a window manager publishes for what it        *)
(* supports (NETRootInfo::setSupported(), src/platforms/xcb/netwm.cpp) and *)
(* what a client makes of them (NETRootInfo::updateSupportedProperties()). *)
(* The flags of the five enumerations have different names, so one set     *)
(* holds them all; an atom is written without the prefix _NET_.            *)
(***************************************************************************)

\* Atoms for root window properties and messages.
RootAtoms ==
  [ClientList |-> {"CLIENT_LIST"}, ClientListStacking |-> {"CLIENT_LIST_STACKING"},
   NumberOfDesktops |-> {"NUMBER_OF_DESKTOPS"}, DesktopGeometry |-> {"DESKTOP_GEOMETRY"},
   DesktopViewport |-> {"DESKTOP_VIEWPORT"}, CurrentDesktop |-> {"CURRENT_DESKTOP"},
   DesktopNames |-> {"DESKTOP_NAMES"}, ActiveWindow |-> {"ACTIVE_WINDOW"},
   WorkArea |-> {"WORKAREA"}, VirtualRoots |-> {"VIRTUAL_ROOTS"},
   WM2DesktopLayout |-> {"DESKTOP_LAYOUT"}, CloseWindow |-> {"CLOSE_WINDOW"},
   WM2RestackWindow |-> {"RESTACK_WINDOW"}, WM2ShowingDesktop |-> {"SHOWING_DESKTOP"}]

\* Atoms for properties of application windows, in the order of the code.
WindowAtoms ==
  [WMMoveResize |-> {"WM_MOVERESIZE"}, WM2MoveResizeWindow |-> {"MOVERESIZE_WINDOW"},
   WMName |-> {"WM_NAME"}, WMVisibleName |-> {"WM_VISIBLE_NAME"},
   WMIconName |-> {"WM_ICON_NAME"}, WMVisibleIconName |-> {"WM_VISIBLE_ICON_NAME"},
   WMDesktop |-> {"WM_DESKTOP"}, WMWindowType |-> {"WM_WINDOW_TYPE"}, WMState |-> {"WM_STATE"}]

MoreWindowAtoms ==
  [WMStrut |-> {"WM_STRUT"}, WM2ExtendedStrut |-> {"WM_STRUT_PARTIAL"},
   WMIconGeometry |-> {"WM_ICON_GEOMETRY"}, WMIcon |-> {"WM_ICON"}, WMPid |-> {"WM_PID"},
   WMHandledIcons |-> {"WM_HANDLED_ICONS"}, WMPing |-> {"WM_PING"},
   WM2UserTime |-> {"WM_USER_TIME"}, WM2StartupId |-> {"STARTUP_ID"},
   WM2Opacity |-> {"WM_WINDOW_OPACITY"},
   WM2FullscreenMonitors |-> {"WM_FULLSCREEN_MONITORS"},
   WM2AllowedActions |-> {"WM_ALLOWED_ACTIONS"}]

ExtensionAtoms ==
  [WMFrameExtents |-> {"FRAME_EXTENTS", "_KDE_NET_WM_FRAME_STRUT"},
   WM2FrameOverlap |-> {"WM_FRAME_OVERLAP"},
   WM2KDETemporaryRules |-> {"_KDE_NET_WM_TEMPORARY_RULES"},
   WM2FullPlacement |-> {"WM_FULL_PLACEMENT"}, WM2Activities |-> {"_KDE_NET_WM_ACTIVITIES"},
   WM2BlockCompositing |-> {"_KDE_NET_WM_BLOCK_COMPOSITING", "WM_BYPASS_COMPOSITOR"},
   WM2KDEShadow |-> {"_KDE_NET_WM_SHADOW"}, WM2OpaqueRegion |-> {"WM_OPAQUE_REGION"},
   WM2GTKFrameExtents |-> {"_GTK_FRAME_EXTENTS"},
   WM2GTKShowWindowMenu |-> {"_GTK_SHOW_WINDOW_MENU"}]

\* Atoms of window types, published with WMWindowType only.
TypeAtoms ==
  [NormalMask |-> {"TYPE_NORMAL"}, DesktopMask |-> {"TYPE_DESKTOP"}, DockMask |-> {"TYPE_DOCK"},
   ToolbarMask |-> {"TYPE_TOOLBAR"}, MenuMask |-> {"TYPE_MENU"}, DialogMask |-> {"TYPE_DIALOG"},
   UtilityMask |-> {"TYPE_UTILITY"}, SplashMask |-> {"TYPE_SPLASH"},
   DropdownMenuMask |-> {"TYPE_DROPDOWN_MENU"}, PopupMenuMask |-> {"TYPE_POPUP_MENU"},
   TooltipMask |-> {"TYPE_TOOLTIP"}, NotificationMask |-> {"TYPE_NOTIFICATION"},
   ComboBoxMask |-> {"TYPE_COMBO"}, DNDIconMask |-> {"TYPE_DND"},
   OverrideMask |-> {"TYPE_OVERRIDE"}, TopMenuMask |-> {"TYPE_TOPMENU"},
   OnScreenDisplayMask |-> {"TYPE_ON_SCREEN_DISPLAY"},
   CriticalNotificationMask |-> {"TYPE_CRITICAL_NOTIFICATION"},
   AppletPopupMask |-> {"TYPE_APPLET_POPUP"}]

\* Atoms of window states, published with WMState only.
StateAtoms ==
  [Modal |-> {"STATE_MODAL"}, Sticky |-> {"STATE_STICKY"}, MaxVert |-> {"STATE_MAXIMIZED_VERT"},
   MaxHoriz |-> {"STATE_MAXIMIZED_HORZ"}, Shaded |-> {"STATE_SHADED"},
   SkipTaskbar |-> {"STATE_SKIP_TASKBAR"}, SkipPager |-> {"STATE_SKIP_PAGER"},
   SkipSwitcher |-> {"STATE_SKIP_SWITCHER"}, Hidden |-> {"STATE_HIDDEN"},
   FullScreen |-> {"STATE_FULLSCREEN"}, KeepAbove |-> {"STATE_ABOVE", "STATE_STAYS_ON_TOP"},
   KeepBelow |-> {"STATE_BELOW"}, DemandsAttention |-> {"STATE_DEMANDS_ATTENTION"},
   Focused |-> {"STATE_FOCUSED"}]

\* Atoms of actions, published with WM2AllowedActions only.
ActionAtoms ==
  [ActionMove |-> {"ACTION_MOVE"}, ActionResize |-> {"ACTION_RESIZE"},
   ActionMinimize |-> {"ACTION_MINIMIZE"}, ActionShade |-> {"ACTION_SHADE"},
   ActionStick |-> {"ACTION_STICK"}, ActionMaxVert |-> {"ACTION_MAXIMIZE_VERT"},
   ActionMaxHoriz |-> {"ACTION_MAXIMIZE_HORZ"}, ActionFullScreen |-> {"ACTION_FULLSCREEN"},
   ActionChangeDesktop |-> {"ACTION_CHANGE_DESKTOP"}, ActionClose |-> {"ACTION_CLOSE"}]

PropertyTables == {RootAtoms, WindowAtoms, MoreWindowAtoms, ExtensionAtoms}

AtomsOf(table, flags) == UNION {table[f] : f \in flags \cap DOMAIN table}

\* What setSupported() publishes for the flags of the window manager.
Published(flags) ==
  {"SUPPORTED", "SUPPORTING_WM_CHECK"}
    \cup (UNION {AtomsOf(table, flags) : table \in PropertyTables})
    \cup (IF "WMWindowType" \in flags THEN AtomsOf(TypeAtoms, flags) ELSE {})
    \cup (IF "WMState" \in flags THEN AtomsOf(StateAtoms, flags) ELSE {})
    \cup (IF "WM2AllowedActions" \in flags THEN AtomsOf(ActionAtoms, flags) ELSE {})

-----------------------------------------------------------------------------
(* updateSupportedProperties()                                             *)

RootFlag ==
  [SUPPORTED |-> "Supported", SUPPORTING_WM_CHECK |-> "SupportingWMCheck",
   CLIENT_LIST |-> "ClientList", CLIENT_LIST_STACKING |-> "ClientListStacking",
   NUMBER_OF_DESKTOPS |-> "NumberOfDesktops", DESKTOP_GEOMETRY |-> "DesktopGeometry",
   DESKTOP_VIEWPORT |-> "DesktopViewport", CURRENT_DESKTOP |-> "CurrentDesktop",
   DESKTOP_NAMES |-> "DesktopNames", ACTIVE_WINDOW |-> "ActiveWindow", WORKAREA |-> "WorkArea",
   VIRTUAL_ROOTS |-> "VirtualRoots", DESKTOP_LAYOUT |-> "WM2DesktopLayout",
   CLOSE_WINDOW |-> "CloseWindow", RESTACK_WINDOW |-> "WM2RestackWindow",
   SHOWING_DESKTOP |-> "WM2ShowingDesktop"]

WindowFlag ==
  [WM_MOVERESIZE |-> "WMMoveResize", MOVERESIZE_WINDOW |-> "WM2MoveResizeWindow",
   WM_NAME |-> "WMName", WM_VISIBLE_NAME |-> "WMVisibleName", WM_ICON_NAME |-> "WMIconName",
   WM_VISIBLE_ICON_NAME |-> "WMVisibleIconName", WM_DESKTOP |-> "WMDesktop",
   WM_WINDOW_TYPE |-> "WMWindowType", WM_STATE |-> "WMState"]

MoreWindowFlag ==
  [WM_STRUT |-> "WMStrut", WM_STRUT_PARTIAL |-> "WM2ExtendedStrut",
   WM_ICON_GEOMETRY |-> "WMIconGeometry", WM_ICON |-> "WMIcon", WM_PID |-> "WMPid",
   WM_HANDLED_ICONS |-> "WMHandledIcons", WM_PING |-> "WMPing", WM_USER_TIME |-> "WM2UserTime",
   STARTUP_ID |-> "WM2StartupId", WM_WINDOW_OPACITY |-> "WM2Opacity",
   WM_FULLSCREEN_MONITORS |-> "WM2FullscreenMonitors",
   WM_ALLOWED_ACTIONS |-> "WM2AllowedActions"]

ExtensionFlag ==
  [FRAME_EXTENTS |-> "WMFrameExtents", _KDE_NET_WM_FRAME_STRUT |-> "WMFrameExtents",
   WM_FRAME_OVERLAP |-> "WM2FrameOverlap",
   _KDE_NET_WM_TEMPORARY_RULES |-> "WM2KDETemporaryRules",
   WM_FULL_PLACEMENT |-> "WM2FullPlacement", _KDE_NET_WM_ACTIVITIES |-> "WM2Activities",
   _KDE_NET_WM_BLOCK_COMPOSITING |-> "WM2BlockCompositing",
   WM_BYPASS_COMPOSITOR |-> "WM2BlockCompositing", _KDE_NET_WM_SHADOW |-> "WM2KDEShadow",
   WM_OPAQUE_REGION |-> "WM2OpaqueRegion", _GTK_FRAME_EXTENTS |-> "WM2GTKFrameExtents",
   _GTK_SHOW_WINDOW_MENU |-> "WM2GTKShowWindowMenu",
   _KDE_NET_WM_APPMENU_OBJECT_PATH |-> "WM2AppMenuObjectPath",
   _KDE_NET_WM_APPMENU_SERVICE_NAME |-> "WM2AppMenuServiceName"]

TypeFlag ==
  [TYPE_NORMAL |-> "NormalMask", TYPE_DESKTOP |-> "DesktopMask", TYPE_DOCK |-> "DockMask",
   TYPE_TOOLBAR |-> "ToolbarMask", TYPE_MENU |-> "MenuMask", TYPE_DIALOG |-> "DialogMask",
   TYPE_UTILITY |-> "UtilityMask", TYPE_SPLASH |-> "SplashMask",
   TYPE_DROPDOWN_MENU |-> "DropdownMenuMask", TYPE_POPUP_MENU |-> "PopupMenuMask",
   TYPE_TOOLTIP |-> "TooltipMask", TYPE_NOTIFICATION |-> "NotificationMask",
   TYPE_COMBO |-> "ComboBoxMask", TYPE_DND |-> "DNDIconMask", TYPE_OVERRIDE |-> "OverrideMask",
   TYPE_TOPMENU |-> "TopMenuMask", TYPE_ON_SCREEN_DISPLAY |-> "OnScreenDisplayMask",
   TYPE_CRITICAL_NOTIFICATION |-> "CriticalNotificationMask",
   TYPE_APPLET_POPUP |-> "AppletPopupMask"]

StateFlag ==
  [STATE_MODAL |-> "Modal", STATE_STICKY |-> "Sticky", STATE_MAXIMIZED_VERT |-> "MaxVert",
   STATE_MAXIMIZED_HORZ |-> "MaxHoriz", STATE_SHADED |-> "Shaded",
   STATE_SKIP_TASKBAR |-> "SkipTaskbar", STATE_SKIP_PAGER |-> "SkipPager",
   STATE_SKIP_SWITCHER |-> "SkipSwitcher", STATE_HIDDEN |-> "Hidden",
   STATE_FULLSCREEN |-> "FullScreen", STATE_ABOVE |-> "KeepAbove", STATE_BELOW |-> "KeepBelow",
   STATE_DEMANDS_ATTENTION |-> "DemandsAttention", STATE_STAYS_ON_TOP |-> "KeepAbove",
   STATE_FOCUSED |-> "Focused"]

ActionFlag ==
  [ACTION_MOVE |-> "ActionMove", ACTION_RESIZE |-> "ActionResize",
   ACTION_MINIMIZE |-> "ActionMinimize", ACTION_SHADE |-> "ActionShade",
   ACTION_STICK |-> "ActionStick", ACTION_MAXIMIZE_VERT |-> "ActionMaxVert",
   ACTION_MAXIMIZE_HORZ |-> "ActionMaxHoriz", ACTION_FULLSCREEN |-> "ActionFullScreen",
   ACTION_CHANGE_DESKTOP |-> "ActionChangeDesktop", ACTION_CLOSE |-> "ActionClose"]

FlagTables ==
  {RootFlag, WindowFlag, MoreWindowFlag, ExtensionFlag, TypeFlag, StateFlag, ActionFlag}

\* What a client takes a list of atoms for.
Parsed(atoms) == UNION {{table[a] : a \in atoms \cap DOMAIN table} : table \in FlagTables}
=============================================================================

-------------------------- MODULE NETWinProperties --------------------------
(***************************************************************************)
(* The properties of an application window and what NETWinInfo             *)
(* (src/platforms/xcb/netwm.cpp) makes of them.  A field of the object has *)
(* the name of the flag that asks for it; a property has that name too.    *)
(* WMFrameExtents and WM2BlockCompositing have a second property each.     *)
(***************************************************************************)
EXTENDS XProperty, NETSupported

\* The order in which update() takes replies.  Hints stands for the five flags
\* that are read from WM_HINTS.
Order ==
  <<"XAWMState", "WMState", "WMDesktop", "WMName", "WMVisibleName", "WMIconName",
    "WMVisibleIconName", "WMWindowType", "WMStrut", "WM2ExtendedStrut",
    "WM2FullscreenMonitors", "WMIconGeometry", "WMIcon", "WMFrameExtents",
    "_KDE_NET_WM_FRAME_STRUT", "WM2FrameOverlap", "WM2Activities", "WM2BlockCompositing",
    "WM_BYPASS_COMPOSITOR", "WMPid", "WM2StartupId", "WM2Opacity", "WM2AllowedActions",
    "WM2UserTime", "WM2TransientFor", "Hints", "WM2WindowClass", "WM2WindowRole",
    "WM2ClientMachine", "WM2Protocols", "WM2OpaqueRegion", "WM2DesktopFileName",
    "WM2GTKApplicationId", "WM2GTKFrameExtents", "WM2AppMenuObjectPath",
    "WM2AppMenuServiceName">>
\* Never read by update(): the icons a client handles, and names of old, which
\* are read by KWindowInfo only.
NameAtoms == {"WM_NAME", "WM_ICON_NAME"}
Atoms == ToSet(Order) \cup {"WMHandledIcons"} \cup NameAtoms

\* The flag that an event about a property sets.
FlagOf(atom) ==
  CASE atom = "_KDE_NET_WM_FRAME_STRUT" -> "WMFrameExtents"
    [] atom = "WM_BYPASS_COMPOSITOR" -> "WM2BlockCompositing"
    [] OTHER -> atom
Flags == {FlagOf(atom) : atom \in Atoms}

Utf8Texts == {"WMName", "WMVisibleName", "WMIconName", "WMVisibleIconName", "WM2StartupId",
              "WM2DesktopFileName", "WM2GTKApplicationId"}
LatinTexts == {"WM2Activities", "WM2WindowRole", "WM2ClientMachine", "WM2AppMenuObjectPath",
               "WM2AppMenuServiceName"}
Texts == Utf8Texts \cup LatinTexts
TextType(flag) == IF flag \in Utf8Texts THEN "UTF8" ELSE "STRING"

OnAllDesktops == -1
AllActivities == <<1, 1, 1>>     \* KDE_ALL_ACTIVITIES_UUID
NoText == <<>>

\* Quadruples of int: struts and rectangles.
Four == {"WMStrut", "WMIconGeometry", "WM2FrameOverlap", "WM2GTKFrameExtents"}
NoStrut == <<0, 0, 0, 0>>
NoMonitors == <<-1, 0, 0, 0>>
NoExtendedStrut == [i \in 1..12 |-> 0]
NoHints == [input |-> TRUE, state |-> "Withdrawn", pixmap |-> 0, mask |-> 0, group |-> 0,
            urgency |-> FALSE]
NoIcons == [icons |-> <<>>, count |-> 0]

\* The fields of a new object.
NewFields ==
  [flag \in Flags |->
     CASE flag = "XAWMState" -> "Withdrawn"
       [] flag \in {"WMState", "WM2AllowedActions", "WM2Protocols"} -> {}
       [] flag \in {"WMDesktop", "WMPid", "WM2TransientFor"} -> 0
       [] flag \in Texts \cup NameAtoms -> NoText
       [] flag = "WMWindowType" -> <<"Unknown">>
       [] flag = "WM2ExtendedStrut" -> NoExtendedStrut
       [] flag = "WM2FullscreenMonitors" -> NoMonitors
       [] flag \in Four \cup {"WMFrameExtents"} -> NoStrut
       [] flag = "WMIcon" -> NoIcons
       [] flag \in {"WM2BlockCompositing", "WMHandledIcons"} -> FALSE
       [] flag \in {"WM2Opacity", "WM2UserTime"} -> Word - 1
       [] flag = "Hints" -> NoHints
       [] flag = "WM2WindowClass" -> [name |-> NoText, class |-> NoText]
       [] flag = "WM2OpaqueRegion" -> <<>>]

-----------------------------------------------------------------------------
(* Values that setters write.                                              *)

\* int to uint32_t and back
Unsigneds(values) == [i \in DOMAIN values |-> Unsigned(values[i])]
Signed(n) == IF n >= Word \div 2 THEN n - Word ELSE n
Signeds(data) == [i \in DOMAIN data |-> Signed(data[i])]

DesktopData_all(desktop) == Unsigned(desktop)
DesktopData(desktop) == IF desktop = OnAllDesktops THEN Word - 1 ELSE Unsigned(desktop - 1)

\* setWindowType(): the type and what a reader that does not know it takes.
TypeNames ==
  [Override |-> <<"TYPE_OVERRIDE", "TYPE_NORMAL">>, Dialog |-> <<"TYPE_DIALOG">>,
   Menu |-> <<"TYPE_MENU">>, TopMenu |-> <<"TYPE_TOPMENU", "TYPE_DOCK">>,
   Toolbar |-> <<"TYPE_TOOLBAR">>, Dock |-> <<"TYPE_DOCK">>, Desktop |-> <<"TYPE_DESKTOP">>,
   Utility |-> <<"TYPE_UTILITY", "TYPE_DIALOG">>, Splash |-> <<"TYPE_SPLASH", "TYPE_DOCK">>,
   DropdownMenu |-> <<"TYPE_DROPDOWN_MENU">>, PopupMenu |-> <<"TYPE_POPUP_MENU">>,
   Tooltip |-> <<"TYPE_TOOLTIP">>, Notification |-> <<"TYPE_NOTIFICATION">>,
   ComboBox |-> <<"TYPE_COMBO">>, DNDIcon |-> <<"TYPE_DND">>,
   OnScreenDisplay |-> <<"TYPE_ON_SCREEN_DISPLAY", "TYPE_NOTIFICATION">>,
   CriticalNotification |-> <<"TYPE_CRITICAL_NOTIFICATION", "TYPE_NOTIFICATION">>,
   AppletPopup |-> <<"TYPE_APPLET_POPUP">>, Normal |-> <<"TYPE_NORMAL">>]

\* setIconInternal(): with replace, elements of the array stay as empty icons.
NoIcon == [width |-> 0, height |-> 0, data |-> <<>>]
AddIcon(i, icon, replace) ==
  LET old == IF replace THEN [icons |-> [k \in DOMAIN i.icons |-> NoIcon], count |-> 0] ELSE i
  IN  [icons |-> SetAt(old.icons, old.count + 1, NoIcon, icon), count |-> old.count + 1]

IconData(i) ==
  FlattenSeq([k \in 1..i.count |-> <<i.icons[k].width, i.icons[k].height>> \o i.icons[k].data])

\* setFrameOverlap(): all -1, or no negative number.
Overlap(strut) ==
  IF \A i \in 1..4 : strut[i] = -1 THEN strut
  ELSE [i \in 1..4 |-> IF strut[i] < 0 THEN 0 ELSE strut[i]]

-----------------------------------------------------------------------------
(* What update() makes of a reply.                                         *)

MappingState(n) == CASE n = 3 -> "Iconic" [] n = 1 -> "Visible" [] OTHER -> "Withdrawn"

TypeOfAtom ==
  [TYPE_NORMAL |-> "Normal", TYPE_DESKTOP |-> "Desktop", TYPE_DOCK |-> "Dock",
   TYPE_TOOLBAR |-> "Toolbar", TYPE_MENU |-> "Menu", TYPE_DIALOG |-> "Dialog",
   TYPE_UTILITY |-> "Utility", TYPE_SPLASH |-> "Splash",
   TYPE_DROPDOWN_MENU |-> "DropdownMenu", TYPE_POPUP_MENU |-> "PopupMenu",
   TYPE_TOOLTIP |-> "Tooltip", TYPE_NOTIFICATION |-> "Notification",
   TYPE_COMBO |-> "ComboBox", TYPE_DND |-> "DNDIcon", TYPE_OVERRIDE |-> "Override",
   TYPE_TOPMENU |-> "TopMenu", TYPE_ON_SCREEN_DISPLAY |-> "OnScreenDisplay",
   TYPE_CRITICAL_NOTIFICATION |-> "CriticalNotification", TYPE_APPLET_POPUP |-> "AppletPopup"]

\* Types that are not known leave no gap; with none there is Unknown.
ReadWindowType(r) ==
  LET known == Those(GetArrayReply(r, "ATOM"), DOMAIN TypeOfAtom)
  IN  IF known = <<>> THEN <<"Unknown">> ELSE [i \in DOMAIN known |-> TypeOfAtom[known[i]]]

ReadAtoms(r, table) ==
  IF r.type = "ATOM" THEN {table[atom] : atom \in r.data \cap DOMAIN table} ELSE {}

ReadDesktop(r) ==
  LET n == GetValueReply(r, "CARDINAL", 0)
  IN  CASE r = NoProperty -> 0 [] n = Word - 1 -> OnAllDesktops [] OTHER -> n + 1

ReadTuple(r, n, default) ==
  LET data == GetArrayReply(r, "CARDINAL") IN IF Len(data) = n THEN Signeds(data) ELSE default

\* readIcon(): stops at a size of zero, one that is too large, or one that needs
\* more data than there are.
MaxIconSize == 8192
ReadIcon(r) ==
  LET data == GetArrayReply(r, "CARDINAL")
      from[j \in 1..(Len(data) + 1)] ==
        IF j + 2 > Len(data) THEN <<>>
        ELSE LET end == j + 1 + data[j] * data[j + 1]
             IN  IF \/ data[j] \notin 1..MaxIconSize \/ data[j + 1] \notin 1..MaxIconSize
                    \/ end > Len(data)
                   THEN <<>>
                   ELSE <<[width |-> data[j], height |-> data[j + 1],
                           data |-> SubSeq(data, j + 2, end)]>> \o from[end + 1]
  IN  [icons |-> from[1], count |-> Len(from[1])]

\* A hint that is not given leaves the field as it was; data is a function on the
\* hints given.
ReadHints(h, r) ==
  IF r.type # "WM_HINTS" THEN h
  ELSE [k \in DOMAIN h |-> IF k = "urgency" THEN k \in DOMAIN r.data
                           ELSE IF k \in DOMAIN r.data THEN r.data[k] ELSE h[k]]

ReadWindowClass(r) ==
  LET list == GetStringlistReply(r, "STRING")
  IN  CASE Len(list) = 2 -> [name |-> list[1], class |-> list[2]]
        [] Len(list) = 1 -> [name |-> list[1], class |-> list[1]]
        [] OTHER -> [name |-> NoText, class |-> NoText]

Protocols == [WM_TAKE_FOCUS |-> "TakeFocus", WM_DELETE_WINDOW |-> "DeleteWindow",
              WM_PING |-> "Ping", WM_SYNC_REQUEST |-> "SyncRequest",
              WM_CONTEXT_HELP |-> "ContextHelp"]

ReadBypassCompositor(blocking, r) ==
  LET n == GetValueReply(r, "CARDINAL", 0)
  IN  CASE n = 1 -> TRUE [] n = 2 -> FALSE [] OTHER -> blocking

\* f is what the object has for the flag of atom.  The second frame property is
\* looked at only if the first had no data: <<>> between the two replies.
Read(atom, f, r) ==
  CASE atom = "XAWMState" -> MappingState(GetValueReply(r, "WM_STATE", 0))
    [] atom = "WMState" -> ReadAtoms(r, StateFlag)
    [] atom = "WM2AllowedActions" -> ReadAtoms(r, ActionFlag)
    [] atom = "WM2Protocols" -> ReadAtoms(r, Protocols)
    [] atom = "WMDesktop" -> ReadDesktop(r)
    [] atom \in Texts \cup NameAtoms -> GetStringReply(r, TextType(atom))
    [] atom = "WMWindowType" -> ReadWindowType(r)
    [] atom = "WM2ExtendedStrut" -> ReadTuple(r, 12, NoExtendedStrut)
    [] atom = "WM2FullscreenMonitors" -> ReadTuple(r, 4, NoMonitors)
    [] atom = "WMFrameExtents" ->
         IF GetArrayReply(r, "CARDINAL") = <<>> THEN <<>> ELSE ReadTuple(r, 4, NoStrut)
    [] atom = "_KDE_NET_WM_FRAME_STRUT" -> IF f = <<>> THEN ReadTuple(r, 4, NoStrut) ELSE f
    [] atom \in Four -> ReadTuple(r, 4, NoStrut)
    [] atom = "WMIcon" -> ReadIcon(r)
    [] atom = "WM2BlockCompositing" -> GetValueReply(r, "CARDINAL", 0) # 0
    [] atom = "WM_BYPASS_COMPOSITOR" -> ReadBypassCompositor(f, r)
    [] atom = "WMPid" -> GetValueReply(r, "CARDINAL", 0)
    [] atom \in {"WM2Opacity", "WM2UserTime"} -> GetValueReply(r, "CARDINAL", Word - 1)
    [] atom = "WM2TransientFor" -> GetValueReply(r, "WINDOW", 0)
    [] atom = "Hints" -> ReadHints(f, r)
    [] atom = "WM2WindowClass" -> ReadWindowClass(r)
    [] atom = "WM2OpaqueRegion" ->
         [i \in DOMAIN Tuples(GetArrayReply(r, "CARDINAL"), 4) |->
            Signeds(Tuples(GetArrayReply(r, "CARDINAL"), 4)[i])]

-----------------------------------------------------------------------------

\* iconInternal(): an icon of at least the size asked for, or the largest.
Covers(a, b) == a.width >= b.width /\ a.height >= b.height
Smaller(a, b) == a.width < b.width /\ a.height < b.height

IconInternal_largest(i, width, height) ==
  FoldLeft(LAMBDA best, icon : IF Covers(icon, best) THEN icon ELSE best, i.icons[1], i.icons)
IconInternal(i, width, height) ==
  LET wanted == [width |-> width, height |-> height]
      largest == FoldLeft(LAMBDA best, icon : IF Covers(icon, best) THEN icon ELSE best,
                          i.icons[1], i.icons)
  IN  IF i.count = 0 THEN NoIcon
      ELSE IF width = -1 /\ height = -1 THEN largest
      ELSE FoldLeft(LAMBDA best, icon :
                      IF Covers(icon, wanted) /\ Smaller(icon, best) THEN icon ELSE best,
                    largest, i.icons)

\* NET::typeMatchesMask() and windowType(): a mask is a set of types here.
WindowType(types, supported) ==
  LET i == SelectInSeq(types, LAMBDA type : type \in supported \cap DOMAIN TypeNames)
  IN  IF i = 0 THEN "Unknown" ELSE types[i]

HasWindowType(types) == Len(types) > 0
=============================================================================

---------------------------- MODULE KWindowInfo -----------------------------
(***************************************************************************)
(* KWindowInfo (src/kwindowinfo.cpp): what an observer sees of a window,   *)
(* read once with a NETWinInfo of its own.  The object reads what was      *)
(* passed and what getters need as a fallback.                             *)
(***************************************************************************)
EXTENDS NETWinInfo

\* The constructor adds to the flags passed.
Forced_once(flags) ==
  flags \cup (IF "WMVisibleIconName" \in flags THEN {"WMIconName", "WMVisibleName"} ELSE {})
        \cup (IF "WMVisibleName" \in flags THEN {"WMName"} ELSE {}) \cup {"XAWMState"}
Forced(flags) ==
  LET icon == IF "WMVisibleIconName" \in flags THEN {"WMIconName", "WMVisibleName"} ELSE {}
      name == IF "WMVisibleName" \in flags \cup icon THEN {"WMName"} ELSE {}
      strut == IF "WM2ExtendedStrut" \in flags THEN {"WMStrut"} ELSE {}
      type == IF "WMWindowType" \in flags THEN {"WM2TransientFor"} ELSE {}
  IN  flags \cup icon \cup name \cup strut \cup type \cup {"XAWMState"}

\* The object: what the server has for the flags, and names of old if there are no
\* others (m_name, m_iconic_name).
Observed(flags) ==
  LET f == [flag \in Flags |-> IF flag \in Forced(flags)
                                 THEN Read(flag, NewFields[flag], property[flag])
                                 ELSE NewFields[flag]]
      Name(flag, old) == IF flag \notin Forced(flags) THEN NoText
                         ELSE IF f[flag] # NoText THEN f[flag]
                         ELSE Read(old, NoText, property[old])
  IN  [info |-> f, name |-> Name("WMName", "WM_NAME"),
       iconic |-> Name("WMIconName", "WM_ICON_NAME")]

FirstText(texts) ==
  LET i == SelectInSeq(texts, LAMBDA text : text # NoText)
  IN  IF i = 0 THEN NoText ELSE texts[i]

VisibleName(o) == FirstText(<<o.info["WMVisibleName"], o.name>>)
VisibleIconName(o) ==
  FirstText(<<o.info["WMVisibleIconName"], o.info["WMIconName"], o.iconic, VisibleName(o)>>)
IconName(o) == FirstText(<<o.info["WMIconName"], o.iconic, o.name>>)

\* compliant: the window manager is known to use Hidden for minimized windows.
IsMinimized(o, compliant) ==
  /\ o.info["XAWMState"] = "Iconic"
  /\ \/ "Hidden" \in o.info["WMState"] /\ "Shaded" \notin o.info["WMState"]
     \/ ~compliant

\* extendedStrut(): a simple strut takes the whole of an edge.
Edge == 9
ExtendedStrut(o) ==
  LET e == o.info["WM2ExtendedStrut"]
      s == o.info["WMStrut"]
      Whole(i) == IF s[i] = 0 THEN <<0, 0>> ELSE <<0, Edge>>
  IN  IF (\E i \in 1..4 : e[i] # 0) \/ s = NoStrut THEN e
      ELSE s \o Whole(1) \o Whole(2) \o Whole(3) \o Whole(4)

\* windowType()
Type(o, supported) ==
  LET types == o.info["WMWindowType"]
      fallback == IF o.info["WM2TransientFor"] # 0 THEN "Dialog" ELSE "Normal"
  IN  IF ~HasWindowType(types) /\ fallback \in supported THEN fallback
      ELSE WindowType(types, supported)

OnDesktop(o, desktop) == o.info["WMDesktop"] \in {desktop, OnAllDesktops}

\* activities(): a list that has the special one is none.
Activities(o) == IF o.info["WM2Activities"] = AllActivities THEN NoText
                 ELSE o.info["WM2Activities"]

ActionSupported(o, action, known) == known => action \in o.info["WM2AllowedActions"]

\* valid()
Valid(o, withdrawnIsValid) == withdrawnIsValid \/ o.info["XAWMState"] # "Withdrawn"

-----------------------------------------------------------------------------

\* Getters that do more than to return what was read for a flag, and those that
\* kwindowinfo.h has other flags for, with the flags they need.  The last three are
\* what the code looks at; the flags of the others are those of kwindowinfo.h.
Getters ==
  [name |-> {"WMName"}, visibleName |-> {"WMVisibleName"},
   visibleNameWithState |-> {"WMVisibleName", "WMState", "XAWMState"},
   visibleIconName |-> {"WMVisibleIconName"},
   visibleIconNameWithState |-> {"WMVisibleIconName", "WMState", "XAWMState"},
   isMinimized |-> {"WMState", "XAWMState"}, extendedStrut |-> {"WM2ExtendedStrut"},
   windowType |-> {"WMWindowType"}, isOnDesktop |-> {"WMDesktop"},
   activities |-> {"WM2Activities"}, actionSupported |-> {"WM2AllowedActions"}, valid |-> {},
   iconName |-> {"WMIconName", "WMName"},
   applicationMenuServiceName |-> {"WM2AppMenuServiceName"},
   applicationMenuObjectPath |-> {"WM2AppMenuObjectPath"}]

Answer(getter, o) ==
  CASE getter = "name" -> o.name
    [] getter = "visibleName" -> VisibleName(o)
    [] getter = "visibleIconName" -> VisibleIconName(o)
    [] getter = "visibleNameWithState" -> <<VisibleName(o), IsMinimized(o, TRUE)>>
    [] getter = "visibleIconNameWithState" -> <<VisibleIconName(o), IsMinimized(o, TRUE)>>
    [] getter = "isMinimized" -> <<IsMinimized(o, TRUE), IsMinimized(o, FALSE)>>
    [] getter = "extendedStrut" -> ExtendedStrut(o)
    [] getter = "windowType" -> Type(o, DOMAIN TypeNames)
    [] getter = "isOnDesktop" -> [d \in Desktops |-> OnDesktop(o, d)]
    [] getter = "activities" -> Activities(o)
    [] getter = "actionSupported" -> ActionSupported(o, "ActionMove", TRUE)
    [] getter = "valid" -> Valid(o, FALSE)
    [] getter = "iconName" -> IconName(o)
    [] getter = "applicationMenuServiceName" -> o.info["WM2AppMenuServiceName"]
    [] getter = "applicationMenuObjectPath" -> o.info["WM2AppMenuObjectPath"]

\* The getter says the same with these flags as with all of them.
Suffices(getter, flags) ==
  Answer(getter, Observed(flags)) = Answer(getter, Observed(Flags \ {"WMHandledIcons"}))

\* With the flags of the table a getter says the same as with all of them, although it
\* falls back on other properties when there is nothing else.  The table is what
\* kwindowinfo.h asks for, but for three getters for which those flags are not enough:
\* iconName() "requires NET::WMIconName" (kwindowinfo.h:290) and falls back on name(),
\* which the constructor does not read for this flag; the two getters of the application
\* menu "require NET::WMPid" (kwindowinfo.h:588, :597) and look at properties with flags
\* of their own.
GettersSuffice == AtRest => \A g \in DOMAIN Getters : Suffices(g, Getters[g])
=============================================================================

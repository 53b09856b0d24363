----------------------------- MODULE NETWinInfo -----------------------------
(***************************************************************************)
(* NETWinInfo (src/platforms/xcb/netwm.cpp): an application window between *)
(* a window manager and a client.  Each has an object.  A client that      *)
(* finds the window managed asks for another state or desktop with client  *)
(* messages; otherwise it writes the property.                             *)
(*                                                                         *)
(* todo[a] holds what is left of a's current function: X requests, which   *)
(* the server takes one by one between those of the other, and decisions   *)
(* that depend on replies.  The window manager grants every request; when  *)
(* it manages and withdraws windows is its own affair.  Desktops are real  *)
(* ones (KX11Extras::mapViewport() is false).                              *)
(***************************************************************************)
EXTENDS NETWinProperties

CONSTANTS Topics,       \* sets of flags, one of which a behaviour is about
          States,       \* states used
          StateCalls,   \* arguments of setState(): the states to change, and those to be set
          Desktops, WindowTypes, TextValues, FourValues, IconValues, ApplicationValues,
          MaxChanges    \* bound on calls

\* An int fits into 32 bits, a text has no NUL, an icon has the pixels that its
\* size says, and there are no setters for what applications write by other means.
Ints == (-(Word \div 2))..(Word \div 2 - 1)
WithoutSetter == {"WM_NAME", "WM_ICON_NAME", "WM2TransientFor", "Hints", "WM2WindowClass",
                  "WM2Protocols", "WM2OpaqueRegion", "WM2WindowRole", "WM2ClientMachine",
                  "WM2GTKApplicationId"}
ASSUME NETWinInfoAssumption ==
  /\ UNION Topics \subseteq Flags
  /\ States \subseteq DOMAIN StateAtoms
  /\ \A call \in StateCalls : call.state \cup call.mask \subseteq States
  /\ Desktops \subseteq -1..(Word - 1)
  /\ WindowTypes \subseteq DOMAIN TypeNames
  /\ TextValues \subseteq Seq(Nat \ {0})
  /\ FourValues \subseteq [1..4 -> Ints]
  /\ \A icon \in IconValues :
       /\ icon \in [width : 1..MaxIconSize, height : 1..MaxIconSize, data : Seq(Nat)]
       /\ Len(icon.data) = icon.width * icon.height
  /\ \A v \in ApplicationValues : v.flag \in WithoutSetter /\ v.property.type # "NONE"

VARIABLES property,     \* property[atom]: a property of the window
          queue,        \* queue[a]: events not dispatched
          fields,       \* fields[a]: the object of a
          dirty,        \* dirty[a]: mapping_state_dirty
          todo,
          alive,        \* those that have an object
          managed,      \* whether the window manager has the window
          topic, passed,  \* passed[a]: what the object was made to read
          meant,        \* meant[flag]: what the last setter was called with
          wish,         \* wish[s]: what a client asked for and should have
          changes

vars == <<property, queue, fields, dirty, todo, alive, managed, topic, passed, meant, wish,
          changes>>

wm == "wm"
client == "client"
Agents == {wm, client}

Nothing == {}      \* of meant and wish; otherwise a set with one value
NoWish == [s \in States \cup {"desktop"} |-> Nothing]

Set(atom, type, data, value) ==
  [op |-> "set", atom |-> atom, property |-> Property(type, data), value |-> value]
Delete(atom, value) == [op |-> "set", atom |-> atom, property |-> NoProperty, value |-> value]
Get(atom) == [op |-> "get", atom |-> atom]
Send(type, data) == [op |-> "send", message |-> [type |-> type, data |-> data]]

\* update(): what is to be read of the flags that are dirty.
Update(a, flags) ==
  LET wanted == (flags \cap passed[a]) \cup (flags \cap {"XAWMState"})
      atoms == Those(Order, {atom \in Atoms : FlagOf(atom) \in wanted})
  IN  [i \in DOMAIN atoms |-> Get(atoms[i])]

Init ==
  /\ topic \in Topics
  /\ \E all \in {topic, topic \ {"WMState"}} :
       passed = [a \in Agents |-> (IF a = wm THEN topic ELSE all) \cup {"XAWMState"}]
  /\ property = [atom \in Atoms |-> NoProperty]
  /\ queue = [a \in Agents |-> <<>>]
  /\ fields = [a \in Agents |-> NewFields]
  /\ dirty = [a \in Agents |-> TRUE]
  /\ todo = [a \in Agents |-> <<>>]
  /\ alive = {} /\ managed = FALSE
  /\ meant = [flag \in Flags |-> Nothing]
  /\ wish = NoWish
  /\ changes = 0

-----------------------------------------------------------------------------
(* Requests                                                                *)

Works(a, op) == todo[a] # <<>> /\ Head(todo[a]).op = op
Done(a) == todo' = [todo EXCEPT ![a] = Tail(@)]

\* The server changes a property and tells those that have an object; about a
\* property that does not interest them there is nothing to do.  Deleting one that
\* is not there is no change.
RequestSet(a) ==
  LET r == Head(todo[a])
      told == {b \in alive : /\ FlagOf(r.atom) \in passed[b]
                             /\ {r.property.type, property[r.atom].type} # {"NONE"}}
  IN  /\ Works(a, "set") /\ Done(a)
      /\ property' = [property EXCEPT ![r.atom] = r.property]
      /\ queue' = [b \in Agents |->
                     IF b \in told THEN Append(queue[b], [type |-> "PROPERTY", data |-> r.atom])
                     ELSE queue[b]]
      /\ meant' = [meant EXCEPT ![FlagOf(r.atom)] = {r.value}]
      /\ UNCHANGED <<fields, dirty, alive, managed, topic, passed, wish, changes>>

RequestGet(a) ==
  LET atom == Head(todo[a]).atom
      flag == FlagOf(atom)
  IN  /\ Works(a, "get") /\ Done(a)
      /\ fields' = [fields EXCEPT ![a][flag] = Read(atom, @, property[atom])]
      /\ dirty' = [dirty EXCEPT ![a] = @ /\ (atom = "XAWMState" => property[atom] = NoProperty)]
      /\ UNCHANGED <<property, queue, alive, managed, topic, passed, meant, wish, changes>>

\* send_client_message(): nobody looks at messages about a window that is not managed.
RequestSend(a) ==
  /\ Works(a, "send") /\ Done(a)
  /\ queue' = [queue EXCEPT ![wm] = IF managed THEN Append(@, Head(todo[a]).message) ELSE @]
  /\ UNCHANGED <<property, fields, dirty, alive, managed, topic, passed, meant, wish, changes>>

-----------------------------------------------------------------------------
(* Setters                                                                 *)

\* a calls a function that has something to do with a flag of the topic.
Calls(a, flag) ==
  /\ a \in alive /\ todo[a] = <<>> /\ flag \in topic
  /\ changes < MaxChanges
  /\ changes' = changes + 1
  /\ UNCHANGED <<property, queue, dirty, alive, managed, topic, passed, meant, wish>>

\* Most setters: the object has the value and the property is written.
Sets(a, flag, field, requests) ==
  /\ Calls(a, flag)
  /\ fields' = [fields EXCEPT ![a][flag] = field]
  /\ todo' = [todo EXCEPT ![a] = requests]

\* setName(), setVisibleName(), setIconName(), setVisibleIconName(): no property
\* for an empty name.  The names that are seen are the window manager's.
SetName(a, flag, text) ==
  /\ (a = wm) = (flag \in {"WMVisibleName", "WMVisibleIconName"})
  /\ Sets(a, flag, text,
          <<IF text = NoText THEN Delete(flag, text) ELSE Set(flag, "UTF8", text, text)>>)

\* setStartupId(), setDesktopFileName(), setAppMenuObjectPath(), setAppMenuServiceName()
SetText(flag, text) == Sets(client, flag, text, <<Set(flag, TextType(flag), text, text)>>)

SetActivities(a, text) ==
  LET all == IF text = NoText THEN AllActivities ELSE text
  IN  Sets(a, "WM2Activities", all, <<Set("WM2Activities", "STRING", all, all)>>)

\* setStrut(), setExtendedStrut(), setGtkFrameExtents()
SetStrut(a, flag, strut) ==
  Sets(a, flag, strut, <<Set(flag, "CARDINAL", Unsigneds(strut), strut)>>)

\* setFullscreenMonitors() of the window manager; a client asks for it.
SetFullscreenMonitors(a, monitors) ==
  IF a = wm
    THEN SetStrut(wm, "WM2FullscreenMonitors", monitors)
    ELSE /\ Calls(client, "WM2FullscreenMonitors")
         /\ todo' = [todo EXCEPT ![client] = <<Send("FULLSCREEN_MONITORS", Unsigneds(monitors))>>]
         /\ UNCHANGED fields

\* setIconGeometry(): the empty rectangle is the only one without a width.
SetIconGeometry(rect) ==
  /\ rect[3] = 0 => rect = NoStrut
  /\ Sets(client, "WMIconGeometry", rect,
          <<IF rect[3] = 0 THEN Delete("WMIconGeometry", rect)
            ELSE Set("WMIconGeometry", "CARDINAL", Unsigneds(rect), rect)>>)

SetFrameExtents(strut) ==
  Sets(wm, "WMFrameExtents", strut,
       <<Set("WMFrameExtents", "CARDINAL", Unsigneds(strut), strut),
         Set("_KDE_NET_WM_FRAME_STRUT", "CARDINAL", Unsigneds(strut), strut)>>)

SetFrameOverlap(a, strut) == SetStrut(a, "WM2FrameOverlap", Overlap(strut))

SetIcon(icon, replace) ==
  LET old == fields[client]["WMIcon"]
      new == AddIcon(old, icon, replace)
  IN  Sets(client, "WMIcon", new,
           <<Set("WMIcon", "CARDINAL", IconData(new),
                 Append(IF replace THEN <<>> ELSE SubSeq(old.icons, 1, old.count), icon))>>)

\* setPid(), setOpacity(), setUserTime()
SetNumber(a, flag, n) ==
  /\ a = client \/ flag = "WM2Opacity"
  /\ Sets(a, flag, n, <<Set(flag, "CARDINAL", <<n>>, n)>>)

\* The object has the new type once it has read it.
SetWindowType(type) ==
  Sets(client, "WMWindowType", fields[client]["WMWindowType"],
       <<Set("WMWindowType", "ATOM", TypeNames[type], type)>>)

SetAllowedActions(actions) ==
  Sets(wm, "WM2AllowedActions", actions,
       <<Set("WM2AllowedActions", "ATOM", AtomsOf(ActionAtoms, actions), actions)>>)

SetBlockingCompositing(on) ==
  Sets(client, "WM2BlockCompositing", on,
       [i \in 1..2 |-> LET atom == <<"WM2BlockCompositing", "WM_BYPASS_COMPOSITOR">>[i]
                       IN  IF on THEN Set(atom, "CARDINAL", <<1>>, on) ELSE Delete(atom, on)])

SetHandledIcons(on) ==
  Sets(client, "WMHandledIcons", on,
       <<Set("WMHandledIcons", "CARDINAL", <<IF on THEN 1 ELSE 0>>, on)>>)

\* Properties without a setter, which applications write by other means.
ApplicationSets(flag, p) ==
  /\ Calls(client, flag)
  /\ todo' = [todo EXCEPT ![client] =
                <<[op |-> "set", atom |-> flag, property |-> p,
                   value |-> Read(flag, NewFields[flag], p)]>>]
  /\ UNCHANGED fields

-----------------------------------------------------------------------------
(* setState() and setDesktop()                                             *)

\* What has to be read before it is known what to do.
Beforehand(a, flag) ==
  (IF dirty[a] THEN <<Get("XAWMState")>> ELSE <<>>)
    \o (IF flag = "WMState" /\ flag \notin passed[a] THEN <<Get("WMState")>> ELSE <<>>)

SetState(a, state, mask) ==
  /\ Calls(a, "WMState")
  /\ todo' = [todo EXCEPT ![a] = Beforehand(a, "WMState")
                 \o <<[op |-> "setState", state |-> state, mask |-> mask, own |-> TRUE]>>]
  /\ UNCHANGED fields

SetDesktop(a, desktop) ==
  /\ Calls(a, "WMDesktop")
  /\ todo' = [todo EXCEPT ![a] = Beforehand(a, "WMDesktop")
                 \o <<[op |-> "setDesktop", desktop |-> desktop, own |-> TRUE]>>]
  /\ UNCHANGED fields

\* The messages of a client that wants the states of mask to be those of state:
\* one for each that differs from what the object has, none for Focused, one for
\* both maximized states if both go the same way, two for the names of KeepAbove.
StateOrder == <<"Modal", "Sticky", "MaxHoriz", "MaxVert", "Shaded", "SkipTaskbar", "SkipPager",
                "SkipSwitcher", "Hidden", "FullScreen", "KeepAbove", "KeepBelow",
                "DemandsAttention">>
On(s, state) == IF s \in state THEN 1 ELSE 0

StateMessages_maxOnce(current, state, mask) ==
  LET differ == {s \in mask : (s \in current) # (s \in state)}
      different == Those(StateOrder, differ)
  IN  FlattenSeq([i \in DOMAIN different |->
        LET s == different[i] IN
        IF s = "MaxVert" /\ "MaxHoriz" \in differ THEN <<>>
        ELSE <<Send("STATE", [action |-> On(s, state), atoms |-> StateAtoms[s]])>>])
StateMessages(current, state, mask) ==
  LET differ == {s \in mask : (s \in current) # (s \in state)}
      different == Those(StateOrder, differ)
      together == /\ {"MaxHoriz", "MaxVert"} \subseteq differ
                  /\ ("MaxHoriz" \in state) = ("MaxVert" \in state)
      One(s, atoms) == <<Send("STATE", [action |-> On(s, state), atoms |-> atoms])>>
  IN  FlattenSeq([i \in DOMAIN different |->
        LET s == different[i] IN
        CASE s = "KeepAbove" -> One(s, {"STATE_ABOVE"}) \o One(s, {"STATE_STAYS_ON_TOP"})
          [] s = "MaxHoriz" /\ together ->
               One(s, {"STATE_MAXIMIZED_HORZ", "STATE_MAXIMIZED_VERT"})
          [] s = "MaxVert" /\ together -> <<>>
          [] OTHER -> One(s, StateAtoms[s])])

\* As far as a client knows, a window manager decides.
Asks(a) == a = client /\ fields[a]["XAWMState"] # "Withdrawn"

\* The client's view is that of the server, and nothing is going on elsewhere.
Sure(flag) ==
  /\ queue[wm] = <<>> /\ todo[wm] = <<>>
  /\ \A f \in {flag, "XAWMState"} : fields[client][f] = Read(f, fields[client][f], property[f])
  /\ managed = (property["XAWMState"] # NoProperty)

\* What the user may expect after a call: a client's wish counts if it was sure; a
\* call of the window manager ends wishes about what it names.
Wishes(a, own, flag, named, new) ==
  wish' = IF ~own THEN wish
          ELSE [s \in DOMAIN wish |->
                  IF s \notin named THEN wish[s]
                  ELSE IF a = client /\ Sure(flag) /\ s \in DOMAIN new THEN {new[s]}
                  ELSE Nothing]

DecideState(a) ==
  LET r == Head(todo[a])
      current == fields[a]["WMState"]
      new == (current \ r.mask) \cup r.state
  IN  /\ Works(a, "setState")
      /\ IF Asks(a)
           THEN /\ todo' = [todo EXCEPT ![a] =
                              StateMessages(current, r.state, r.mask) \o Tail(@)]
                /\ UNCHANGED fields
           ELSE /\ todo' = [todo EXCEPT ![a] =
                              <<Set("WMState", "ATOM", AtomsOf(StateAtoms, new), new)>> \o Tail(@)]
                /\ fields' = [fields EXCEPT ![a]["WMState"] = new]
      /\ Wishes(a, r.own, "WMState", r.mask \cup r.state,
                [s \in r.mask \ {"Focused"} |-> s \in r.state])
      /\ UNCHANGED <<property, queue, dirty, alive, managed, topic, passed, meant, changes>>

\* A client cannot take a managed window off all desktops.
DecideDesktop(a) ==
  LET r == Head(todo[a]) IN
  /\ Works(a, "setDesktop")
  /\ todo' = [todo EXCEPT ![a] =
       (CASE Asks(a) /\ r.desktop = 0 -> <<>>
          [] Asks(a) /\ r.desktop # 0 -> <<Send("DESKTOP", <<DesktopData(r.desktop)>>)>>
          [] ~Asks(a) /\ r.desktop = 0 -> <<Delete("WMDesktop", 0)>>
          [] ~Asks(a) /\ r.desktop # 0 ->
               <<Set("WMDesktop", "CARDINAL", <<DesktopData(r.desktop)>>, r.desktop)>>) \o Tail(@)]
  /\ fields' = IF Asks(a) THEN fields ELSE [fields EXCEPT ![a]["WMDesktop"] = r.desktop]
  /\ Wishes(a, r.own, "WMDesktop", IF Asks(a) /\ r.desktop = 0 THEN {} ELSE {"desktop"},
            [s \in {"desktop"} |-> r.desktop])
  /\ UNCHANGED <<property, queue, dirty, alive, managed, topic, passed, meant, changes>>

-----------------------------------------------------------------------------
(* event()                                                                 *)

Dispatch(a, type) ==
  /\ a \in alive /\ todo[a] = <<>>
  /\ queue[a] # <<>> /\ Head(queue[a]).type = type
  /\ queue' = [queue EXCEPT ![a] = Tail(@)]
  /\ UNCHANGED <<property, dirty, alive, managed, topic, passed, meant, wish, changes>>

OnPropertyNotify(a) ==
  /\ Dispatch(a, "PROPERTY")
  /\ todo' = [todo EXCEPT ![a] = Update(a, {FlagOf(Head(queue[a]).data)})]
  /\ UNCHANGED fields

\* _NET_WM_STATE: 0 to clear, 1 to set, 2 to toggle; changeState() is setState().
OnStateMessage ==
  LET data == Head(queue[wm]).data
      mask == {StateFlag[atom] : atom \in data.atoms}
      state == CASE data.action = 1 -> mask
                 [] data.action = 2 -> mask \ fields[wm]["WMState"]
                 [] OTHER -> {}
  IN  /\ Dispatch(wm, "STATE")
      /\ todo' = [todo EXCEPT ![wm] = Beforehand(wm, "WMState")
                    \o <<[op |-> "setState", state |-> state, mask |-> mask, own |-> FALSE]>>]
      /\ UNCHANGED fields

OnDesktopMessage ==
  LET n == Head(queue[wm]).data[1]
  IN  /\ Dispatch(wm, "DESKTOP")
      /\ todo' = [todo EXCEPT ![wm] = Beforehand(wm, "WMDesktop")
                    \o <<[op |-> "setDesktop", own |-> FALSE,
                          desktop |-> IF n = Word - 1 THEN OnAllDesktops ELSE n + 1]>>]
      /\ UNCHANGED fields

OnFullscreenMonitorsMessage ==
  LET monitors == Signeds(Head(queue[wm]).data)
  IN  /\ Dispatch(wm, "FULLSCREEN_MONITORS")
      /\ fields' = [fields EXCEPT ![wm]["WM2FullscreenMonitors"] = monitors]
      /\ todo' = [todo EXCEPT ![wm] =
           <<Set("WM2FullscreenMonitors", "CARDINAL", Unsigneds(monitors), monitors)>>]

\* Another client asks to toggle a state.
Toggle(s) ==
  /\ managed /\ "WMState" \in topic /\ changes < MaxChanges
  /\ changes' = changes + 1
  /\ queue' = [queue EXCEPT ![wm] = Append(@, [type |-> "STATE",
                              data |-> [action |-> 2, atoms |-> {CHOOSE x \in StateAtoms[s] : TRUE}]])]
  /\ wish' = [wish EXCEPT ![s] = Nothing]
  /\ UNCHANGED <<property, fields, dirty, todo, alive, managed, topic, passed, meant>>

-----------------------------------------------------------------------------
(* Objects, and what the window manager does without them                  *)

\* The constructor reads everything that was passed.
Construct ==
  /\ client \notin alive
  /\ alive' = alive \cup {client}
  /\ todo' = [todo EXCEPT ![client] = Update(client, passed[client])]
  /\ UNCHANGED <<property, queue, fields, dirty, managed, topic, passed, meant, wish, changes>>

WMState(n) == [op |-> "set", atom |-> "XAWMState", value |-> MappingState(n),
               property |-> Property("WM_STATE", <<n>>)]

\* A window is managed: an object for it, and WM_STATE.
Manage ==
  /\ ~managed /\ todo[wm] = <<>> /\ changes < MaxChanges
  /\ changes' = changes + 1
  /\ managed' = TRUE /\ alive' = alive \cup {wm}
  /\ todo' = [todo EXCEPT ![wm] = Update(wm, passed[wm]) \o <<WMState(1)>>]
  /\ wish' = IF todo[client] = <<>> THEN wish ELSE NoWish
  /\ UNCHANGED <<property, queue, fields, dirty, topic, passed, meant>>

Iconify(n) ==
  /\ managed /\ todo[wm] = <<>> /\ changes < MaxChanges
  /\ changes' = changes + 1
  /\ todo' = [todo EXCEPT ![wm] = <<WMState(n)>>]
  /\ UNCHANGED <<property, queue, fields, dirty, alive, managed, topic, passed, meant, wish>>

\* A window is withdrawn: its states and its desktop are removed.
Withdraw ==
  /\ managed /\ todo[wm] = <<>> /\ changes < MaxChanges
  /\ changes' = changes + 1
  /\ managed' = FALSE /\ alive' = alive \ {wm}
  /\ queue' = [queue EXCEPT ![wm] = <<>>]
  /\ fields' = [fields EXCEPT ![wm] = NewFields]
  /\ dirty' = [dirty EXCEPT ![wm] = TRUE]
  /\ todo' = [todo EXCEPT ![wm] = <<Delete("WMState", {}), Delete("WMDesktop", 0),
                                    Delete("XAWMState", "Withdrawn")>>]
  /\ wish' = NoWish
  /\ UNCHANGED <<property, topic, passed, meant>>

-----------------------------------------------------------------------------

Setters ==
  \/ \E a \in Agents :
       \/ \E text \in TextValues :
            \/ \E flag \in {"WMName", "WMVisibleName", "WMIconName", "WMVisibleIconName"} :
                 SetName(a, flag, text)
            \/ SetActivities(a, text)
       \/ \E strut \in FourValues :
            \/ SetStrut(a, "WM2GTKFrameExtents", strut) \/ SetFrameOverlap(a, strut)
            \/ SetFullscreenMonitors(a, strut)
       \/ \E n \in {0, Word - 2}, flag \in {"WMPid", "WM2Opacity", "WM2UserTime"} :
            SetNumber(a, flag, n)
       \/ \E call \in StateCalls : SetState(a, call.state, call.mask)
       \/ \E desktop \in Desktops : SetDesktop(a, desktop)
  \/ \E text \in TextValues \ {NoText}, flag \in {"WM2StartupId", "WM2DesktopFileName",
                                       "WM2AppMenuObjectPath", "WM2AppMenuServiceName"} :
       SetText(flag, text)
  \/ \E strut \in FourValues :
       \/ SetStrut(client, "WMStrut", strut) \/ SetFrameExtents(strut) \/ SetIconGeometry(strut)
       \/ SetStrut(client, "WM2ExtendedStrut", strut \o strut \o strut)
  \/ \E icon \in IconValues, replace \in BOOLEAN : SetIcon(icon, replace)
  \/ \E type \in WindowTypes : SetWindowType(type)
  \/ \E action \in {"ActionMove", "ActionClose"} : SetAllowedActions({action})
  \/ \E on \in BOOLEAN : SetBlockingCompositing(on) \/ SetHandledIcons(on)
  \/ \E v \in ApplicationValues : ApplicationSets(v.flag, v.property)

Next ==
  \/ \E a \in Agents :
       \/ RequestSet(a) \/ RequestGet(a) \/ RequestSend(a)
       \/ DecideState(a) \/ DecideDesktop(a) \/ OnPropertyNotify(a)
  \/ OnStateMessage \/ OnDesktopMessage \/ OnFullscreenMonitorsMessage
  \/ \E s \in States : Toggle(s)
  \/ Construct \/ Manage \/ Withdraw \/ \E n \in {1, 3} : Iconify(n)
  \/ Setters

Spec == Init /\ [][Next]_vars

-----------------------------------------------------------------------------

\* Types, and that a client leaves nothing to do for a window manager that has no
\* object for the window.
TypeOK ==
  /\ alive \subseteq Agents /\ managed = (wm \in alive)
  /\ changes \in 0..MaxChanges
  /\ \A a \in Agents :
       LET f == fields[a] IN
       /\ f["XAWMState"] \in {"Visible", "Iconic", "Withdrawn"}
       /\ f["WMState"] \subseteq States
       /\ f["WMDesktop"] \in Desktops
       /\ f["WMIcon"].count <= Len(f["WMIcon"].icons)
       /\ Len(f["WMWindowType"]) \in 1..2
  /\ \A a \in Agents \ alive : queue[a] = <<>>

AtRest == client \in alive /\ \A a \in Agents : queue[a] = <<>> /\ todo[a] = <<>>

\* What a field says, as the callers of setters would put it.
Shown(flag, value) ==
  CASE flag = "WMIcon" -> SubSeq(value.icons, 1, value.count)
    [] flag = "WMWindowType" -> WindowType(value, DOMAIN TypeNames)
    [] OTHER -> value

\* Once all events are dispatched, both objects say what the last setter was called
\* with, whoever called it and however their requests were mixed: writing and
\* reading are inverse to each other, negative numbers, missing icons, deleted
\* names and the two properties for one thing included.  WMHandledIcons is never
\* read; hints are kept when they are no longer given.
BothKnow ==
  AtRest => \A a \in alive :
    \A flag \in (topic \cap passed[a] \cap ToSet(Order)) \ {"Hints"} :
      meant[flag] # Nothing => meant[flag] = {Shown(flag, fields[a][flag])}

\* A state or a desktop that a client asked for while its view was right is there
\* in the end, whether the window was managed or not, unless somebody else asked
\* for something different: setState() leaves out no message and none undoes
\* another, and what was written is seen by a window manager that comes later.
WishesHonoured ==
  AtRest =>
    /\ \A s \in States : \A on \in wish[s] :
         on = (s \in ReadAtoms(property["WMState"], StateFlag))
    /\ \A desktop \in wish["desktop"] : desktop = ReadDesktop(property["WMDesktop"])

\* icon(): of square icons, the smallest that is large enough, or the largest if
\* none is; never one that was replaced.  Nothing is said of other shapes: an icon that
\* is neither larger nor smaller than the next one makes iconInternal() pass over one
\* that is large enough, which is not "the next biggest" (netwm.h:1345).
IconFits ==
  "WMIcon" \in topic => \A a \in alive, n \in 1..3 :
    LET i == fields[a]["WMIcon"]
        real == {i.icons[k] : k \in 1..i.count}
        enough == {icon \in real : icon.width >= n}
        found == IconInternal(i, n, n)
    IN  real # {} /\ (\A icon \in real : icon.width = icon.height) =>
          /\ found \in real
          /\ IF enough # {} THEN found.width = Min({icon.width : icon \in enough})
             ELSE found.width = Max({icon.width : icon \in real})
=============================================================================

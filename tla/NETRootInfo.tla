---------------------------- MODULE NETRootInfo -----------------------------
(***************************************************************************)
(* NETRootInfo (src/platforms/xcb/netwm.cpp): the properties of the root   *)
(* window, between a window manager and a client.  Both have an object     *)
(* with a copy of what interests them.  The window manager publishes; the  *)
(* client sends requests as client messages, except for desktop names and  *)
(* the desktop layout, which it writes itself.                             *)
(*                                                                         *)
(* update() sends requests for all properties it wants to know and takes   *)
(* one reply after the other; todo[a] holds the replies to come.  Events   *)
(* about properties that an object does not keep change nothing and are    *)
(* left out.                                                               *)
(***************************************************************************)
EXTENDS XProperty, NETSupported

CONSTANTS Topics,        \* what a behaviour is about: properties, or "Requests"
          Interests,     \* sets of properties, one of which the client passes
          Windows, Names, MaxDesktops, SupportFlags,
          DisplaySize, Geometries, Points, Advertised,
          MaxChanges(_), \* bound on calls of setters, requests and getters
          MaxRequests    \* bound on requests

\* Sizes and positions that are published are not negative, windows are numbers, a
\* desktop has a number that fits into a property, and a name has no NUL.  What
\* activate() itself publishes nobody takes back with setSupported().
ASSUME NETRootInfoAssumption ==
  /\ DisplaySize \in (Nat \ {0}) \X (Nat \ {0})
  /\ Geometries \subseteq Nat \X Nat /\ Points \subseteq Nat \X Nat
  /\ MaxDesktops \in 0..(Word - 1)
  /\ Windows \subseteq Nat /\ IsFiniteSet(Windows)
  /\ Names \subseteq Seq(Nat \ {0})
  /\ {"Supported", "SupportingWMCheck"} \cap SupportFlags = {}

VARIABLES property,      \* property[p]: a property of the root window
          queue,         \* queue[a]: events not dispatched
          fields,        \* fields[a]: the object of a
          todo,          \* todo[a]: properties whose replies are awaited
          active,        \* those that have called activate()
          topic, interest,
          sent, got,     \* requests made, and callbacks of the window manager
          changes

vars == <<property, queue, fields, todo, active, topic, interest, sent, got, changes>>

wm == "wm"
client == "client"
Agents == {wm, client}

\* The order in which update() takes replies.
Order == <<"Supported", "ClientList", "ClientListStacking", "NumberOfDesktops",
           "DesktopGeometry", "DesktopViewport", "CurrentDesktop", "DesktopNames",
           "ActiveWindow", "WorkArea", "SupportingWMCheck", "VirtualRoots",
           "WM2DesktopLayout", "WM2ShowingDesktop", "SupportName">>
Properties == ToSet(Order)

RootSize == DisplaySize
NoPoint == <<0, 0>>
NoRect == <<0, 0, 0, 0>>
NoName == <<>>
DefaultLayout == [orientation |-> 0, columns |-> 0, rows |-> 0, corner |-> 0]
SupportWindow == 7
WMName == <<1>>

\* A new object.  Only in the client's role the size of the screen is set.
NewFields(a) ==
  [supported |-> IF a = wm THEN Advertised \cup {"Supported", "SupportingWMCheck"} ELSE {},
   clients |-> <<>>, clients_count |-> 0, stacking |-> <<>>,
   number_of_desktops |-> 0, geometry |-> NoPoint, viewport |-> <<>>,
   current_desktop |-> 0, desktop_names |-> <<>>, active |-> 0, workarea |-> <<>>,
   supportwindow |-> IF a = wm THEN SupportWindow ELSE 0,
   name |-> IF a = wm THEN WMName ELSE NoName,
   virtual_roots |-> <<>>, layout |-> DefaultLayout, showing_desktop |-> FALSE]

\* clientProperties: what an object reads.
Reads(a) == IF a = wm THEN {"DesktopNames", "WM2DesktopLayout"} ELSE interest

Init ==
  /\ topic \in Topics /\ interest \in Interests
  /\ property = [p \in Properties |-> NoProperty]
  /\ queue = [a \in Agents |-> <<>>]
  /\ fields = [a \in Agents |-> NewFields(a)]
  /\ todo = [a \in Agents |-> <<>>]
  /\ active = {} /\ sent = <<>> /\ got = <<>> /\ changes = 0

-----------------------------------------------------------------------------

\* xcb_change_property() on the root window
Changed(p, type, data) ==
  /\ property' = [property EXCEPT ![p] = Property(type, data)]
  /\ queue' = [a \in Agents |-> IF p \in Reads(a) /\ a \in active
                                  THEN Append(queue[a], [type |-> p, data |-> <<>>])
                                  ELSE queue[a]]

\* a is in its event loop and calls a function.
Calls(a) ==
  /\ a \in active /\ todo[a] = <<>>
  /\ changes < MaxChanges(topic)
  /\ changes' = changes + 1
  /\ UNCHANGED <<todo, active, topic, interest>>

\* A setter: a's object has the value, and it is published.
Sets(a, p, new, type, data) ==
  /\ Calls(a) /\ p \in topic
  /\ fields' = [fields EXCEPT ![a] = new]
  /\ Changed(p, type, data)
  /\ UNCHANGED <<sent, got>>

SetClientList(list) ==
  Sets(wm, "ClientList",
       [fields[wm] EXCEPT !.clients = list, !.clients_count = Len(list)], "WINDOW", list)

SetClientListStacking(list) ==
  Sets(wm, "ClientListStacking", [fields[wm] EXCEPT !.stacking = list], "WINDOW", list)

SetNumberOfDesktops(n) ==
  Sets(wm, "NumberOfDesktops",
       [fields[wm] EXCEPT !.number_of_desktops = n], "CARDINAL", <<n>>)

\* Desktops are counted from 1 by callers and from 0 in the property.
SetCurrentDesktop(d) ==
  Sets(wm, "CurrentDesktop",
       [fields[wm] EXCEPT !.current_desktop = d], "CARDINAL", <<Unsigned(d - 1)>>)

\* setDesktopName(), for either role: all names the object has are published.
PublishedNames(f) ==
  LET names == f.desktop_names
      num == IF f.number_of_desktops > Len(names) THEN f.number_of_desktops ELSE Len(names)
  IN  [i \in 1..num |-> At(names, i, NoName)]

\* Mutant: the object's own names are not looked at.
SetDesktopName_alone(a, d, name) ==
  LET all == PublishedNames([fields[a] EXCEPT !.desktop_names = SetAt(<<>>, d, NoName, name)])
  IN  Sets(a, "DesktopNames", [fields[a] EXCEPT !.desktop_names = all], "UTF8", Join(all))

SetDesktopName(a, d, name) ==
  LET new == [fields[a] EXCEPT !.desktop_names = SetAt(@, d, NoName, name)]
      all == PublishedNames(new)
  IN  Sets(a, "DesktopNames", [new EXCEPT !.desktop_names = all], "UTF8", Join(all))

SetDesktopGeometry(size) ==
  Sets(wm, "DesktopGeometry", [fields[wm] EXCEPT !.geometry = size], "CARDINAL", size)

\* One entry for each desktop there is.
SetDesktopViewport(d, point) ==
  LET new == [fields[wm] EXCEPT !.viewport = SetAt(@, d, NoPoint, point)]
  IN  Sets(wm, "DesktopViewport", new, "CARDINAL",
           Flat(new.viewport, new.number_of_desktops, NoPoint))

SetWorkArea(d, rect) ==
  LET new == [fields[wm] EXCEPT !.workarea = SetAt(@, d, NoRect, rect)]
  IN  Sets(wm, "WorkArea", new, "CARDINAL",
           Flat(new.workarea, new.number_of_desktops, NoRect))

SetActiveWindow(w) ==
  Sets(wm, "ActiveWindow", [fields[wm] EXCEPT !.active = w], "WINDOW", <<w>>)

SetVirtualRoots(list) ==
  Sets(wm, "VirtualRoots", [fields[wm] EXCEPT !.virtual_roots = list], "WINDOW", list)

SetDesktopLayout(a, layout) ==
  Sets(a, "WM2DesktopLayout", [fields[a] EXCEPT !.layout = layout], "CARDINAL",
       <<layout.orientation, layout.columns, layout.rows, layout.corner>>)

SetShowingDesktop(on) ==
  Sets(wm, "WM2ShowingDesktop",
       [fields[wm] EXCEPT !.showing_desktop = on], "CARDINAL", <<IF on THEN 1 ELSE 0>>)

\* setSupported(): what the window manager supports and the window that has its name
\* are published together; the client is told of both.
PublishSupported(flags) ==
  /\ property' = [property EXCEPT
       !["Supported"] = Property("ATOM", Published(flags)),
       !["SupportingWMCheck"] = Property("WINDOW", <<SupportWindow>>)]
  /\ LET told == Those(Order, {"Supported", "SupportingWMCheck"} \cap interest)
     IN  queue' = [queue EXCEPT ![client] =
           IF client \in active
             THEN @ \o [i \in DOMAIN told |-> [type |-> told[i], data |-> <<>>]]
             ELSE @]

\* setSupported(property, on).  The name, which is there by now, is written once more
\* and does not change; no object is notified of properties of its window.
SetSupported(flag, on) ==
  LET new == IF on THEN fields[wm].supported \cup {flag} ELSE fields[wm].supported \ {flag}
  IN  /\ Calls(wm) /\ "Supported" \in topic /\ new # fields[wm].supported
      /\ fields' = [fields EXCEPT ![wm].supported = new]
      /\ PublishSupported(new)
      /\ UNCHANGED <<sent, got>>

\* desktopName() makes an element for a desktop that has none.
DesktopName(a, d) ==
  /\ Calls(a) /\ "DesktopNames" \in topic
  /\ fields' = [fields EXCEPT ![a].desktop_names = Grow(@, d, NoName)]
  /\ UNCHANGED <<property, queue, sent, got>>

-----------------------------------------------------------------------------
(* activate(), event() and update()                                        *)

\* activate(): the window manager publishes what it supports and the window that
\* has its name, and the name a moment later; then both read.
Activate(a) ==
  /\ a \notin active
  /\ active' = active \cup {a}
  /\ todo' = [todo EXCEPT ![a] = (IF a = wm THEN <<"PublishName">> ELSE <<>>)
                                   \o Those(Order, Reads(a))]
  /\ IF a = wm THEN PublishSupported(fields[wm].supported) ELSE UNCHANGED <<property, queue>>
  /\ UNCHANGED <<fields, topic, interest, sent, got, changes>>

PublishName ==
  /\ todo[wm] # <<>> /\ Head(todo[wm]) = "PublishName"
  /\ todo' = [todo EXCEPT ![wm] = Tail(@)]
  /\ property' = [property EXCEPT !["SupportName"] = Property("UTF8", WMName)]
  /\ UNCHANGED <<queue, fields, active, topic, interest, sent, got, changes>>

\* What an object has after the reply for p: one operator for each part of
\* update() that does more than to copy.
Ascending(S) ==
  CHOOSE list \in [1..Cardinality(S) -> S] : \A i, j \in DOMAIN list : i < j => list[i] < list[j]

ReadClientList(f, r) ==
  LET list == Ascending(ToSet(GetArrayReply(r, "WINDOW")))
  IN  [f EXCEPT !.clients = list,
                !.clients_count = IF list # <<>> THEN Len(list) ELSE @]

ReadDesktopGeometry(f, r) ==
  LET data == GetArrayReply(r, "CARDINAL")
  IN  [f EXCEPT !.geometry = IF Len(data) = 2 THEN data ELSE RootSize]

ReadDesktopViewport(f, r) ==
  LET points == Tuples(GetArrayReply(r, "CARDINAL"), 2)
      n == IF Len(points) > Len(f.viewport) THEN Len(points) ELSE Len(f.viewport)
  IN  [f EXCEPT !.viewport = [i \in 1..n |-> At(points, i, NoPoint)]]

\* The work areas are taken only if there is one for each desktop known.
ReadWorkArea(f, r) ==
  LET data == GetArrayReply(r, "CARDINAL")
  IN  [f EXCEPT !.workarea = IF Len(data) = f.number_of_desktops * 4
                               THEN Tuples(data, 4) ELSE <<>>]

\* The type asked for and the type expected differ.
ReadVirtualRoots(f, r) ==
  [f EXCEPT !.virtual_roots = GetArrayReply(r, "CARDINAL")]

ReadDesktopLayout(f, r) ==
  LET data == GetArrayReply(r, "CARDINAL")
      n == Len(data)
  IN  [f EXCEPT !.layout =
         [orientation |-> IF n >= 3 /\ data[1] <= 1 THEN data[1] ELSE 0,
          columns |-> IF n >= 3 THEN data[2] ELSE 0,
          rows |-> IF n >= 3 THEN data[3] ELSE 0,
          corner |-> IF n >= 4 /\ data[4] <= 3 THEN data[4] ELSE 0]]

ReadCurrentDesktop_zero(f, r) ==
  [f EXCEPT !.current_desktop = GetValueReply(r, "CARDINAL", 0)]
ReadCurrentDesktop(f, r) ==
  [f EXCEPT !.current_desktop = Unsigned(GetValueReply(r, "CARDINAL", 0) + 1)]

Read(p, f, r) ==
  CASE p = "Supported" ->
         [f EXCEPT !.supported = IF r.type = "ATOM" THEN Parsed(r.data) ELSE {}]
    [] p = "ClientList" -> ReadClientList(f, r)
    [] p = "ClientListStacking" -> [f EXCEPT !.stacking = GetArrayReply(r, "WINDOW")]
    [] p = "NumberOfDesktops" ->
         [f EXCEPT !.number_of_desktops = GetValueReply(r, "CARDINAL", 0)]
    [] p = "DesktopGeometry" -> ReadDesktopGeometry(f, r)
    [] p = "DesktopViewport" -> ReadDesktopViewport(f, r)
    [] p = "CurrentDesktop" -> ReadCurrentDesktop(f, r)
    [] p = "DesktopNames" -> [f EXCEPT !.desktop_names = GetStringlistReply(r, "UTF8")]
    [] p = "ActiveWindow" -> [f EXCEPT !.active = GetValueReply(r, "WINDOW", 0)]
    [] p = "WorkArea" -> ReadWorkArea(f, r)
    [] p = "SupportingWMCheck" ->
         [f EXCEPT !.supportwindow = GetValueReply(r, "WINDOW", 0), !.name = NoName]
    [] p = "VirtualRoots" -> ReadVirtualRoots(f, r)
    [] p = "WM2DesktopLayout" -> ReadDesktopLayout(f, r)
    [] p = "WM2ShowingDesktop" ->
         [f EXCEPT !.showing_desktop = GetValueReply(r, "CARDINAL", 0) # 0]
    [] p = "SupportName" -> [f EXCEPT !.name = GetStringReply(r, "UTF8")]

\* The reply for the first property of todo.  The name is a property of the
\* window manager's own window and is asked for when that window is known.
Update(a) ==
  LET p == Head(todo[a])
      new == Read(p, fields[a], property[p])
  IN  /\ todo[a] # <<>> /\ p \in Properties
      /\ fields' = [fields EXCEPT ![a] = new]
      /\ todo' = [todo EXCEPT ![a] =
                    IF p = "SupportingWMCheck" /\ new.supportwindow # 0
                      THEN Append(Tail(@), "SupportName") ELSE Tail(@)]
      /\ UNCHANGED <<property, queue, active, topic, interest, sent, got, changes>>

Dispatch(a) ==
  /\ a \in active /\ todo[a] = <<>> /\ queue[a] # <<>>
  /\ queue' = [queue EXCEPT ![a] = Tail(@)]
  /\ UNCHANGED <<property, fields, active, topic, interest, sent, changes>>

\* PropertyNotify
OnPropertyNotify(a) ==
  LET p == Head(queue[a]).type
  IN  /\ Dispatch(a) /\ p \in Properties
      /\ todo' = [todo EXCEPT ![a] = <<p>>]
      /\ UNCHANGED got

-----------------------------------------------------------------------------
(* Requests of the client.  sent and got have the name of a callback and   *)
(* its arguments; a message has the atom, the window and the data.         *)

Message(type, window, data) == [type |-> type, data |-> <<window>> \o data]

Sends(call, args, type, window, data) ==
  /\ Calls(client) /\ "Requests" \in topic /\ Len(sent) < MaxRequests
  /\ IF wm \in active
       THEN /\ sent' = Append(sent, <<call, args>>)
            /\ queue' = [queue EXCEPT ![wm] = Append(@, Message(type, window, data))]
       ELSE UNCHANGED <<sent, queue>>
  /\ UNCHANGED <<property, fields, got>>

SendNumberOfDesktops(n) ==
  Sends("changeNumberOfDesktops", <<n>>, "NUMBER_OF_DESKTOPS", 0, <<n, 0, 0>>)
SendCurrentDesktop(d) ==
  Sends("changeCurrentDesktop", <<d>>, "CURRENT_DESKTOP", 0, <<Unsigned(d - 1), 0, 0>>)
SendDesktopGeometry(size) ==
  Sends("changeDesktopGeometry", size, "DESKTOP_GEOMETRY", 0, size \o <<0>>)
\* The desktop is not sent.
SendDesktopViewport(point) ==
  Sends("changeDesktopViewport", point, "DESKTOP_VIEWPORT", 0, point \o <<0>>)
SendActiveWindow(w, source, time, previous) ==
  Sends("changeActiveWindow", <<w, source, time, previous>>,
        "ACTIVE_WINDOW", w, <<source, time, previous, 0, 0>>)
SendShowingDesktop(on) ==
  Sends("changeShowingDesktop", <<on>>, "SHOWING_DESKTOP", 0, <<IF on THEN 1 ELSE 0, 0, 0>>)
CloseWindowRequest(w) ==
  Sends("closeWindow", <<w>>, "CLOSE_WINDOW", w, <<0, 0, 0, 0, 0>>)
MoveResizeRequest(w, x, y, direction, button, source) ==
  Sends("moveResize", <<w, x, y, direction, button, source>>,
        "WM_MOVERESIZE", w, <<x, y, direction, button, source>>)
MoveResizeWindowRequest(w, flags, x, y, width, height) ==
  Sends("moveResizeWindow", <<w, flags, x, y, width, height>>,
        "MOVERESIZE_WINDOW", w, <<flags, x, y, width, height>>)
ShowWindowMenuRequest(w, device, x, y) ==
  Sends("showWindowMenu", <<w, device, x, y>>, "GTK_SHOW_WINDOW_MENU", w,
        <<device, x, y, 0, 0>>)
RestackRequest_swapped(w, source, above, detail, time) ==
  Sends("restackWindow", <<w, source, above, detail, time>>,
        "RESTACK_WINDOW", w, <<source, detail, above, time, 0>>)
RestackRequest(w, source, above, detail, time) ==
  Sends("restackWindow", <<w, source, above, detail, time>>,
        "RESTACK_WINDOW", w, <<source, above, detail, time, 0>>)

\* sendPing() of the window manager; the window's owner sends the message back to
\* the root window, here at once.
Ping(w, time) ==
  /\ Calls(wm) /\ "Requests" \in topic /\ Len(sent) < MaxRequests
  /\ sent' = Append(sent, <<"gotPing", <<w, time>>>>)
  /\ queue' = [queue EXCEPT ![wm] = Append(@, Message("WM_PROTOCOLS", w, <<"PING", time, w>>))]
  /\ UNCHANGED <<property, fields, got>>

\* The source of a request is taken only if it is one of the three there are.
Source(d) == d \in 0..2

\* The callback for a message.
Callback(m) ==
  LET D(i) == m.data[i + 2]      \* data32[i]
      w == m.data[1] IN
  CASE m.type = "NUMBER_OF_DESKTOPS" -> <<"changeNumberOfDesktops", <<D(0)>>>>
    [] m.type = "DESKTOP_GEOMETRY" -> <<"changeDesktopGeometry", <<D(0), D(1)>>>>
    [] m.type = "DESKTOP_VIEWPORT" -> <<"changeDesktopViewport", <<D(0), D(1)>>>>
    [] m.type = "CURRENT_DESKTOP" -> <<"changeCurrentDesktop", <<Unsigned(D(0) + 1)>>>>
    [] m.type = "ACTIVE_WINDOW" ->
         <<"changeActiveWindow", IF Source(D(0)) THEN <<w, D(0), D(1), D(2)>>
                                 ELSE <<w, 0, 0, 0>>>>
    [] m.type = "WM_MOVERESIZE" -> <<"moveResize", <<w, D(0), D(1), D(2), D(3), D(4)>>>>
    [] m.type = "MOVERESIZE_WINDOW" ->
         <<"moveResizeWindow", <<w, D(0), D(1), D(2), D(3), D(4)>>>>
    [] m.type = "CLOSE_WINDOW" -> <<"closeWindow", <<w>>>>
    [] m.type = "RESTACK_WINDOW" ->
         <<"restackWindow", IF Source(D(0)) THEN <<w, D(0), D(1), D(2), D(3)>>
                            ELSE <<w, 0, D(1), D(2), 0>>>>
    [] m.type = "WM_PROTOCOLS" -> <<"gotPing", <<D(2), D(1)>>>>
    [] m.type = "SHOWING_DESKTOP" -> <<"changeShowingDesktop", <<D(0) # 0>>>>
    [] m.type = "GTK_SHOW_WINDOW_MENU" -> <<"showWindowMenu", <<w, D(0), D(1), D(2)>>>>

OnClientMessage ==
  /\ Dispatch(wm) /\ Head(queue[wm]).type \notin Properties
  /\ got' = Append(got, Callback(Head(queue[wm])))
  /\ UNCHANGED todo

-----------------------------------------------------------------------------

Lists == {<<>>} \cup {<<w>> : w \in Windows} \cup {SetToSeq(Windows)}
Desktops == 1..MaxDesktops

Setters ==
  \/ \E list \in Lists :
       SetClientList(list) \/ SetClientListStacking(list) \/ SetVirtualRoots(list)
  \/ \E n \in 0..MaxDesktops : SetNumberOfDesktops(n) \/ SetCurrentDesktop(n)
  \/ \E a \in Agents, d \in Desktops : DesktopName(a, d) \/ \E n \in Names : SetDesktopName(a, d, n)
  \/ \E size \in Geometries : SetDesktopGeometry(size)
  \/ \E d \in Desktops, p \in Points : SetDesktopViewport(d, p)
  \/ \E d \in Desktops : SetWorkArea(d, <<d, 1, 1, 1>>)
  \/ \E w \in Windows : SetActiveWindow(w)
  \/ \E a \in Agents, n \in 0..1 :
       SetDesktopLayout(a, [orientation |-> n, columns |-> 2, rows |-> 1, corner |-> 3])
  \/ \E on \in BOOLEAN : SetShowingDesktop(on) \/ \E f \in SupportFlags : SetSupported(f, on)

Senders ==
  \/ \E n \in 0..1 : SendNumberOfDesktops(n) \/ SendCurrentDesktop(n)
  \/ SendDesktopGeometry(<<1, 2>>) \/ SendDesktopViewport(<<1, 2>>)
  \/ \E on \in BOOLEAN : SendShowingDesktop(on)
  \/ \E w \in Windows :
       \/ SendActiveWindow(w, 2, 3, 4) \/ CloseWindowRequest(w) \/ Ping(w, 2)
       \/ MoveResizeRequest(w, 2, 3, 4, 5, 1) \/ MoveResizeWindowRequest(w, 2, 3, 4, 5, 6)
       \/ ShowWindowMenuRequest(w, 2, 3, 4) \/ RestackRequest(w, 2, 3, 4, 5)

Next ==
  \/ \E a \in Agents : Activate(a) \/ Update(a) \/ OnPropertyNotify(a)
  \/ PublishName \/ OnClientMessage
  \/ Setters \/ Senders

Spec == Init /\ [][Next]_vars

-----------------------------------------------------------------------------

\* Types, and arrays that are no longer than there are desktops to ask for.
TypeOK ==
  /\ active \subseteq Agents
  /\ \A p \in Properties : property[p].type \in {"NONE", "ATOM", "WINDOW", "CARDINAL", "UTF8"}
  /\ \A a \in Agents :
       LET f == fields[a] IN
       /\ f.number_of_desktops \in 0..MaxDesktops /\ f.current_desktop \in 0..(Word - 1)
       /\ \A array \in {f.desktop_names, f.viewport, f.workarea} :
            Len(array) \in 0..MaxDesktops
       /\ ToSet(f.clients) \cup ToSet(f.stacking) \subseteq Windows
       /\ f.name \in {NoName, WMName} /\ f.showing_desktop \in BOOLEAN
  /\ changes \in 0..MaxChanges(topic)

\* Nothing is left to dispatch.
AtRest == active = Agents /\ \A a \in Agents : queue[a] = <<>> /\ todo[a] = <<>>

\* What a client can know of the flags of the window manager: types, states
\* and actions only together with the property that holds them.
Visible(flags) ==
  {f \in flags : \/ f \in {"Supported", "SupportingWMCheck"}
                 \/ \E table \in PropertyTables : f \in DOMAIN table
                 \/ f \in DOMAIN TypeAtoms /\ "WMWindowType" \in flags
                 \/ f \in DOMAIN StateAtoms /\ "WMState" \in flags
                 \/ f \in DOMAIN ActionAtoms /\ "WM2AllowedActions" \in flags}

\* What ClientAgrees compares.
Compared == Properties \ {"WorkArea", "VirtualRoots", "SupportName"}

Agrees(p) ==
  LET c == fields[client]
      w == fields[wm] IN
  CASE p = "Supported" -> c.supported = Visible(w.supported)
    [] p = "ClientList" ->
         /\ ToSet(c.clients) = ToSet(w.clients)
         /\ c.clients # <<>> => c.clients_count = Len(c.clients)
    [] p = "ClientListStacking" -> c.stacking = w.stacking
    [] p = "NumberOfDesktops" -> c.number_of_desktops = w.number_of_desktops
    [] p = "DesktopGeometry" -> c.geometry = w.geometry
    [] p = "DesktopViewport" ->
         \A d \in 1..(Len(property[p].data) \div 2) :
            At(c.viewport, d, NoPoint) = At(w.viewport, d, NoPoint)
    [] p = "CurrentDesktop" -> c.current_desktop = w.current_desktop
    [] p = "DesktopNames" ->
         \A d \in Desktops : At(c.desktop_names, d, NoName) = At(w.desktop_names, d, NoName)
    [] p = "ActiveWindow" -> c.active = w.active
    [] p = "WM2DesktopLayout" -> c.layout = w.layout
    [] p = "WM2ShowingDesktop" -> c.showing_desktop = w.showing_desktop
    [] p = "SupportingWMCheck" ->
         c.supportwindow = w.supportwindow /\ c.name \in {NoName, w.name}

\* Whatever the window manager and the client have set, and whenever the client
\* was started, both objects say the same once all events are dispatched: the
\* conversion to a property and back loses nothing, and no change is missed
\* between activate() and the first event.  The work areas a client has are those
\* that are published or none at all, although update() compares their number with
\* a number of desktops that may have been read at another time.  Three things do
\* not agree, against what netwm.h says of them, and are left out: clientListCount() of
\* a list that has become empty, which update() does not touch (netwm.cpp:2031); wmName()
\* if the client has asked for it between the publication of the window and that of the
\* name (netwm.cpp:1142, :2245), of which nothing tells it again; and virtualRoots(), of
\* which update() takes the reply for numbers and drops it (netwm.cpp:2191).
ClientAgrees ==
  AtRest =>
    /\ \A p \in interest \cap Compared : property[p] # NoProperty => Agrees(p)
    /\ "WorkArea" \in interest =>
         fields[client].workarea \in {<<>>, Tuples(property["WorkArea"].data, 4)}

\* The window manager's callbacks are called for the client's requests, in
\* order and with the arguments of the request.
RequestsArrive == IsPrefix(got, sent) /\ (AtRest => got = sent)

PublicNames == GetStringlistReply(property["DesktopNames"], "UTF8")
ReadsNames(a) == "DesktopNames" \in Reads(a)

\* Names that a step changes.
NamesTouched ==
  {d \in Desktops : At(PublicNames', d, NoName) # At(PublicNames, d, NoName)}

UpToDate(a) ==
  /\ todo[a] = <<>>
  /\ \A i \in DOMAIN queue[a] : queue[a][i].type # "DesktopNames"

\* setDesktopName() writes all names the object has, yet changes only one of them
\* if the objects that write have seen the others, even after desktopName() has
\* made elements for desktops without a name.
KeepsOtherNames ==
  [][(\A a \in Agents : ReadsNames(a) /\ UpToDate(a)) => Cardinality(NamesTouched) <= 1]_vars
=============================================================================

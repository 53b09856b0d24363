--------------------------- MODULE NETEventFilter ---------------------------
(***************************************************************************)
(* NETEventFilter and KX11Extras (src/kx11extras.cpp): how a process       *)
(* follows the windows the window manager manages, their stacking order,   *)
(* the struts they ask for and the compositing manager.  The filter object *)
(* is created by the first call that needs it and replaced by a larger one *)
(* when a call needs information about single windows (init()).            *)
(*                                                                         *)
(* The window manager, the other clients and the compositing manager act   *)
(* at any time.  A function that waits for replies is one action per       *)
(* reply; pc says where in init() or in an event handler the process is,   *)
(* inWorkArea that it is in the loop of workArea(exclude, desktop).        *)
(*                                                                         *)
(* A strut is a number, 0 for none.  The desktop that is cached with it    *)
(* decides which calls of workArea() use it, and is left out.              *)
(***************************************************************************)
EXTENDS ClientListDiff, FiniteSets, Functions

CONSTANTS Windows,     \* XIDs of clients' windows
          Struts,      \* values of _NET_WM_STRUT
          MaxChanges   \* bound on what others do

ASSUME FilterAssumption ==
  /\ Windows \subseteq Nat \ {0} /\ IsFiniteSet(Windows)
  /\ 0 \in Struts
  /\ MaxChanges \in Nat

VARIABLES
  \* the X server
  clientList,     \* _NET_CLIENT_LIST of the root window
  stacking,       \* _NET_CLIENT_LIST_STACKING
  alive,          \* windows that exist
  strut,          \* strut[w]: _NET_WM_STRUT, 0 for a window that is gone
  cm,             \* the selection _NET_WM_CM_Sn has an owner
  qtTracks,       \* Qt has selected the compositor's events on the root window
  selected,       \* windows on which the process selected PropertyChange
  queue,          \* events sent to the process and not dispatched
  changes,        \* what others have done so far
  \* the filter, s_d_func()
  what,           \* "none" if there is none
  clients,        \* NETRootInfo's client list, <<>> for a null pointer
  windows, stackingOrder,
  strutWindows,   \* cached struts by window
  possible,       \* possibleStrutWindows
  strutSignalConnected,
  compositing,    \* compositingEnabled
  \* where the process is
  pc,
  todo,           \* calls of removeClient() and addClient() still to be made, the
                  \* first one may be in the middle of addClient()
  reply,          \* the stacking order activate() has read
  was,            \* the local wasCompositing of init()
  then,           \* what follows init(): "return", "connect" or "workArea"
  inWorkArea,
  \* what listeners know
  known,          \* windows by windowAdded() and windowRemoved()
  told,           \* compositing by compositingChanged()
  view            \* struts by the last workArea(), if strutChanged() is connected

serverVars == <<clientList, stacking, alive, strut, cm, qtTracks, changes>>
listVars == <<clients, windows, stackingOrder>>
strutVars == <<strutWindows, possible, strutSignalConnected>>
callVars == <<todo, reply, was, then>>
vars == <<serverVars, selected, queue, what, listVars, strutVars, compositing,
          pc, callVars, inWorkArea, known, told, view>>

Lists == {s \in UNION {[1..n -> Windows] : n \in 0..Cardinality(Windows)} : IsInjective(s)}

Event(type, win, owner) == [type |-> type, window |-> win, owner |-> owner]
RootEvent(type) == Event(type, 0, FALSE)

NoView == {"none"}
Rank == [none |-> 0, basic |-> 1, windows |-> 2]

Init ==
  /\ clientList \in Lists /\ stacking = clientList
  /\ alive = Windows
  /\ strut \in [Windows -> Struts]
  /\ cm \in BOOLEAN /\ qtTracks \in BOOLEAN
  /\ selected = {} /\ queue = <<>> /\ changes = 0
  /\ what = "none"
  /\ clients = <<>> /\ windows = <<>> /\ stackingOrder = <<>>
  /\ strutWindows = [w \in {} |-> 0] /\ possible = {}
  /\ strutSignalConnected = FALSE /\ compositing = FALSE
  /\ pc = "idle" /\ todo = <<>> /\ reply = <<>> /\ was = FALSE /\ then = "return"
  /\ inWorkArea = FALSE
  /\ known = {} /\ told = FALSE /\ view = NoView

-----------------------------------------------------------------------------
(* The others                                                              *)

Change ==
  /\ changes < MaxChanges
  /\ changes' = changes + 1
  /\ UNCHANGED <<qtTracks, what, listVars, strutVars, compositing, pc, callVars,
                 inWorkArea, known, told, view>>

\* The window manager publishes new lists.
SetClientList(list) ==
  /\ Change
  /\ clientList' = list
  /\ queue' = Append(queue, RootEvent("ClientList"))
  /\ UNCHANGED <<stacking, alive, strut, cm, selected>>

SetClientListStacking(list) ==
  /\ Change
  /\ stacking' = list
  /\ queue' = Append(queue, RootEvent("Stacking"))
  /\ UNCHANGED <<clientList, alive, strut, cm, selected>>

\* A client changes the strut of its window or destroys it.  Window ids are not
\* used again.
SetStrut(w, s) ==
  /\ Change
  /\ w \in alive
  /\ strut' = [strut EXCEPT ![w] = s]
  /\ queue' = IF w \in selected THEN Append(queue, Event("Strut", w, FALSE)) ELSE queue
  /\ UNCHANGED <<clientList, stacking, alive, cm, selected>>

Destroy(w) ==
  /\ Change
  /\ w \in alive
  /\ alive' = alive \ {w}
  /\ strut' = [strut EXCEPT ![w] = 0]
  /\ selected' = selected \ {w}
  /\ UNCHANGED <<clientList, stacking, cm, queue>>

\* A compositing manager starts or ends.  The window of the event is the filter's
\* own window, here the kind of filter, or the root window if Qt follows the
\* compositor as well; Qt may drop the first of the two events.
SetCompositor ==
  LET Notify(win) == [type |-> "Selection", window |-> win, owner |-> ~cm]
      own == IF what = "none" THEN <<>> ELSE <<Notify(what)>> IN
  /\ Change
  /\ cm' = ~cm
  /\ IF qtTracks
       THEN \E kept \in {<<>>, own} : queue' = queue \o kept \o <<Notify("root")>>
       ELSE queue' = queue \o own
  /\ UNCHANGED <<clientList, stacking, alive, strut, selected>>

-----------------------------------------------------------------------------
(* Calls of the application                                                *)

\* What the caller of init() does when it returns.
Continue(next) ==
  /\ strutSignalConnected' = (strutSignalConnected \/ next = "connect")
  /\ inWorkArea' = (next = "workArea")

\* init(info): with a filter that knows enough the caller goes on, otherwise a
\* new filter is made, whose constructor selects the compositor's events.
Call(info, next) ==
  /\ pc = "idle" /\ ~inWorkArea
  /\ IF Rank[what] < Rank[info]
       THEN /\ what' = info
            /\ was' = compositing
            /\ then' = next
            /\ pc' = "owner"
            /\ UNCHANGED <<strutSignalConnected, inWorkArea>>
       ELSE /\ Continue(next)
            /\ UNCHANGED <<what, was, then, pc>>
  /\ UNCHANGED <<serverVars, selected, queue, listVars, strutWindows, possible,
                 compositing, todo, reply, known, told, view>>

\* windows(), stackingOrder(), compositingActive(), and the connection of a
\* signal that needs no information about single windows
CallWindows == Call("basic", "return")

\* the connection of windowChanged() or workAreaChanged()
ConnectWindowChanged == Call("windows", "return")

\* the connection of strutChanged()
ConnectStrutChanged == Call("windows", "connect")

\* workArea(exclude, desktop)
CallWorkArea == Call("windows", "workArea")

\* The end of the constructor; d.reset() deletes the former filter.
ReadOwner ==
  /\ pc = "owner"
  /\ compositing' = cm
  /\ clients' = <<>> /\ windows' = <<>> /\ stackingOrder' = <<>>
  /\ strutWindows' = [w \in {} |-> 0] /\ possible' = {}
  /\ strutSignalConnected' = FALSE
  /\ pc' = "clients"
  /\ UNCHANGED <<serverVars, selected, queue, what, callVars, inWorkArea,
                 known, told, view>>

\* The calls update() makes for a new client list.  addClient() begins with the
\* selection of events.
Calls(diff) ==
  [i \in DOMAIN diff.remove |-> <<"remove", diff.remove[i]>>]
    \o [i \in DOMAIN diff.add |-> <<"select", diff.add[i]>>]

UpdateClientList ==
  LET new == Sorted(clientList) IN
  /\ clients' = new
  /\ todo' = Calls(Diff(clients, new))

\* activate(): NETRootInfo::activate() sends its requests together; the
\* replies are the client list and the stacking order.
ReadClients ==
  /\ pc = "clients"
  /\ UpdateClientList
  /\ pc' = "stacking"
  /\ UNCHANGED <<serverVars, selected, queue, what, windows, stackingOrder,
                 strutVars, compositing, reply, was, then, inWorkArea, known,
                 told, view>>

ReadStacking ==
  /\ pc = "stacking"
  /\ reply' = stacking
  /\ pc' = "activate"
  /\ UNCHANGED <<serverVars, selected, queue, what, listVars, strutVars,
                 compositing, todo, was, then, inWorkArea, known, told, view>>

\* compositingChanged() at the end of init()
AnnounceCompositing_never == UNCHANGED told
AnnounceCompositing == told' = IF was # compositing THEN compositing ELSE told

\* updateStackingOrder(), and the end of init()
Activated ==
  /\ pc = "activate" /\ todo = <<>> /\ ~inWorkArea
  /\ stackingOrder' = reply
  /\ AnnounceCompositing
  /\ Continue(then)
  /\ pc' = "idle" /\ reply' = <<>> /\ was' = FALSE /\ then' = "return"
  /\ UNCHANGED <<serverVars, selected, queue, what, clients, windows,
                 strutWindows, possible, compositing, todo, known, view>>

-----------------------------------------------------------------------------
(* removeClient() and addClient()                                          *)

Doing(op) ==
  /\ pc \in {"activate", "event"} /\ ~inWorkArea
  /\ todo # <<>> /\ Head(todo)[1] = op
  /\ UNCHANGED <<serverVars, queue, what, clients, stackingOrder,
                 strutSignalConnected, compositing, pc, reply, was, then, told,
                 view>>

\* strutChanged(): a listener calls workArea().
StrutChanged(emit) == inWorkArea' = (emit /\ strutSignalConnected)

RemoveStrutWindow(w) == strutWindows' = Restrict(strutWindows, DOMAIN strutWindows \ {w})

\* emit_strutChanged of removeClient()
LosesStrut_uncached(w) == w \in possible /\ strut[w] # 0
LosesStrut(w) ==
  \/ w \in DOMAIN strutWindows
  \/ strutSignalConnected /\ w \in possible /\ strut[w] # 0

\* A window is in windows once at most (ListsFollow): without the first occurrence
\* there is none.
RemoveClient ==
  LET w == Head(todo)[2] IN
  /\ Doing("remove")
  /\ todo' = Tail(todo)
  /\ RemoveStrutWindow(w)
  /\ possible' = possible \ {w}
  /\ windows' = RemoveFirst(windows, w)
  /\ known' = known \ {w}
  /\ StrutChanged(LosesStrut(w))
  /\ UNCHANGED selected

\* Only a filter for INFO_WINDOWS selects events, and only a window that exists
\* can be selected.
SelectsEvents_never(w) == FALSE
SelectsEvents(w) == what = "windows" /\ w \in alive

\* addClient() goes on with the strut.
SelectEvents ==
  LET w == Head(todo)[2] IN
  /\ Doing("select")
  /\ todo' = <<<<"add", w>>>> \o Tail(todo)
  /\ selected' = IF SelectsEvents(w) THEN selected \cup {w} ELSE selected
  /\ UNCHANGED <<windows, strutWindows, possible, inWorkArea, known>>

Put(map, w, s) == [x \in DOMAIN map \cup {w} |-> IF x = w THEN s ELSE map[x]]

AddClient ==
  LET w == Head(todo)[2]
      read == strutSignalConnected /\ strut[w] # 0 IN
  /\ Doing("add")
  /\ todo' = Tail(todo)
  /\ strutWindows' = IF read THEN Put(strutWindows, w, strut[w]) ELSE strutWindows
  /\ possible' = IF strutSignalConnected THEN possible ELSE possible \cup {w}
  /\ windows' = Append(windows, w)
  /\ known' = known \cup {w}
  /\ StrutChanged(read)
  /\ UNCHANGED selected

-----------------------------------------------------------------------------
(* The loop of workArea(exclude, desktop), with nothing to exclude         *)

\* One window whose strut is not known is asked for it, in the order of windows.
WorkAreaRead ==
  LET ask == {i \in DOMAIN windows : windows[i] \in possible}
      w == windows[CHOOSE i \in ask : \A j \in ask : i <= j] IN
  /\ inWorkArea /\ ask # {}
  /\ possible' = possible \ {w}
  /\ strutWindows' = Put(strutWindows, w, strut[w])
  /\ UNCHANGED <<serverVars, selected, queue, what, listVars,
                 strutSignalConnected, compositing, pc, callVars, inWorkArea,
                 known, told, view>>

WorkAreaReturn ==
  /\ inWorkArea /\ \A i \in DOMAIN windows : windows[i] \notin possible
  /\ inWorkArea' = FALSE
  /\ view' = IF strutSignalConnected
               THEN {<<w, strutWindows[w]>> : w \in {x \in DOMAIN strutWindows :
                                                       strutWindows[x] # 0}}
               ELSE view
  /\ UNCHANGED <<serverVars, selected, queue, what, listVars, strutVars,
                 compositing, pc, callVars, known, told>>

-----------------------------------------------------------------------------
(* nativeEventFilter()                                                     *)

Dispatch(type) ==
  /\ pc = "idle" /\ ~inWorkArea
  /\ queue # <<>> /\ Head(queue).type = type
  /\ queue' = Tail(queue)
  /\ UNCHANGED <<serverVars, selected, what, strutSignalConnected, reply, was,
                 then, known, view>>

OnClientList ==
  /\ Dispatch("ClientList")
  /\ IF what = "none" THEN UNCHANGED <<clients, todo, pc>>
     ELSE UpdateClientList /\ pc' = "event"
  /\ UNCHANGED <<windows, stackingOrder, strutWindows, possible, compositing,
                 inWorkArea, told>>

\* All of removeClient() and addClient() are done.
ClientListUpdated ==
  /\ pc = "event" /\ todo = <<>> /\ ~inWorkArea
  /\ pc' = "idle"
  /\ UNCHANGED <<serverVars, selected, queue, what, listVars, strutVars,
                 compositing, callVars, inWorkArea, known, told, view>>

OnStacking ==
  /\ Dispatch("Stacking")
  /\ stackingOrder' = IF what = "none" THEN stackingOrder ELSE stacking
  /\ UNCHANGED <<clients, windows, strutWindows, possible, compositing, pc,
                 todo, inWorkArea, told>>

\* _NET_WM_STRUT of a window: its cached strut is dropped.
OnStrut ==
  LET w == Head(queue).window IN
  /\ Dispatch("Strut")
  /\ IF w \in ToSet(windows)
       THEN /\ RemoveStrutWindow(w)
            /\ possible' = possible \cup {w}
            /\ StrutChanged(TRUE)
       ELSE UNCHANGED <<strutWindows, possible, inWorkArea>>
  /\ UNCHANGED <<listVars, compositing, pc, todo, told>>

\* XFixes tells of a new owner of the compositor's selection.  Without a filter
\* nobody listens.
OnSelection ==
  LET ev == Head(queue) IN
  /\ Dispatch("Selection")
  /\ IF ev.window \in {what, "root"} /\ what # "none" /\ compositing # ev.owner
       THEN compositing' = ev.owner /\ told' = ev.owner
       ELSE UNCHANGED <<compositing, told>>
  /\ UNCHANGED <<listVars, strutWindows, possible, pc, todo, inWorkArea>>

-----------------------------------------------------------------------------

Others ==
  \/ \E list \in Lists : SetClientList(list) \/ SetClientListStacking(list)
  \/ \E w \in Windows : Destroy(w) \/ \E s \in Struts : SetStrut(w, s)
  \/ SetCompositor

Next ==
  \/ Others
  \/ CallWindows \/ ConnectWindowChanged \/ ConnectStrutChanged \/ CallWorkArea
  \/ ReadOwner \/ ReadClients \/ ReadStacking \/ Activated
  \/ RemoveClient \/ SelectEvents \/ AddClient
  \/ WorkAreaRead \/ WorkAreaReturn
  \/ OnClientList \/ ClientListUpdated \/ OnStacking \/ OnStrut \/ OnSelection

Spec == Init /\ [][Next]_vars

-----------------------------------------------------------------------------

\* Types.  Each managed window has at most one entry about its strut, either a
\* cached value in strutWindows or the note in possibleStrutWindows that there may
\* be one, and windows that have left have none.
TypeOK ==
  /\ clientList \in Lists /\ stacking \in Lists
  /\ alive \subseteq Windows /\ selected \subseteq alive
  /\ strut \in [Windows -> Struts]
  /\ what \in DOMAIN Rank
  /\ ToSet(windows) \subseteq Windows /\ ToSet(stackingOrder) \subseteq Windows
  /\ DOMAIN strutWindows \cup possible \subseteq ToSet(windows)
  /\ DOMAIN strutWindows \cap possible = {}
  /\ \A w \in DOMAIN strutWindows : strutWindows[w] \in Struts
  /\ pc \in {"idle", "owner", "clients", "stacking", "activate", "event"}
  /\ inWorkArea => pc \in {"idle", "activate", "event"}
  /\ known \subseteq Windows

Pending(type, win) ==
  \E i \in DOMAIN queue : queue[i].type = type /\ queue[i].window = win

\* The process has a filter and is in the event loop.
AtRest == what # "none" /\ pc = "idle" /\ ~inWorkArea

\* windows() holds every window of the client list once and no other, and
\* stackingOrder() is the stacking order, unless the event that will update
\* them is in the queue: whatever the window manager does while removeClient()
\* and addClient() wait for replies, the walk along the lists misses nothing.
\* Each of the windows has been announced by windowAdded().
ListsFollow ==
  AtRest =>
    /\ IsInjective(windows)
    /\ ToSet(windows) = ToSet(clientList) \/ Pending("ClientList", 0)
    /\ stackingOrder = stacking \/ Pending("Stacking", 0)
    /\ ToSet(windows) \subseteq known

\* No window is announced for nothing: removeClient() is called for windows that
\* have left the client list and addClient() for windows that listeners of this
\* filter have not been told of.  A walk along unsorted lists would still end
\* with the right windows, by removing and adding those that stay.
OnlyChangesAnnounced ==
  \A i \in DOMAIN todo :
    IF todo[i][1] = "remove"
      THEN todo[i][2] \in ToSet(windows) \ ToSet(clients)
      ELSE todo[i][2] \in ToSet(clients) \ ToSet(windows)

\* The strut that workArea() would use for a window.
UsedStrut(w) ==
  IF w \in possible THEN strut[w]
  ELSE IF w \in DOMAIN strutWindows THEN strutWindows[w] ELSE 0

\* The strut cache is never silently out of date: for a managed window that
\* exists, workArea() uses the strut the window has, or the event about its
\* change is in the queue.  Windows are not asked again, so a change between
\* the read in addClient() and the selection of events would never be seen.
StrutCacheFresh ==
  what = "windows" =>
    \A w \in ToSet(windows) \cap alive :
      UsedStrut(w) = strut[w] \/ Pending("Strut", w)

\* A listener that calls workArea() whenever strutChanged() is emitted has, once
\* all events are dispatched, used the struts of all managed windows: no
\* change, appearance or disappearance of a strut goes unnoticed.
StrutListenerUpToDate ==
  /\ AtRest
  /\ view # NoView
  /\ ~Pending("ClientList", 0)
  /\ \A w \in Windows : ~Pending("Strut", w)
  => \A w \in alive, s \in Struts \ {0} :
       <<w, s>> \in view <=> (w \in ToSet(clientList) /\ strut[w] = s)

\* compositingActive() and what compositingChanged() has said are right once the
\* events about the compositor are dispatched, also if events that are older
\* than the filter come through Qt's tracker, and although replacing the
\* filter makes it deaf to the events that are in the queue for its predecessor.
CompositingKnown ==
  AtRest => /\ told = compositing
            /\ \/ compositing = cm
               \/ Pending("Selection", what) \/ Pending("Selection", "root")
=============================================================================

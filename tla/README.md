# Verification of KWindowSystem

KWindowSystem is the library through which KDE programs talk to the windowing
system.  Most of its own logic is in objects that follow state they do not own:
an X selection held by another process, messages cut into fragments by other
clients, applications that are being started by someone else.  They learn of
changes from events that arrive late, interleaved and sometimes not at all.
This directory holds TLA+ models of those objects, the TLC runs that check them
on small instances and TLAPS proofs of the results that matter most.

Paths below are relative to the repository.

## 1. Inventory

| Component | State | Operations | Hard behaviour |
|---|---|---|---|
| `KSelectionOwner` (`src/platforms/xcb/kselectionowner.cpp`) | state machine Idle / WaitingForTimestamp / WaitingForPreviousOwner, window, previous owner, timestamp, timer | `claim`, `release`, event filter, `timeout`, destructor | requests of other clients between two replies; a claim inside a slot; timer against DestroyNotify; owners that die |
| `KSelectionWatcher` (`src/platforms/xcb/kselectionwatcher.cpp`) | `selection_owner` | `init`, `owner`, event filter | three requests that race with owners; stale DestroyNotify |
| `KXMessages` (`src/platforms/xcb/kxmessages.cpp`) | `incoming_messages` per window | `broadcastMessage`, `broadcastMessageX`, event filter | fragments of several senders interleave, senders die, receivers start in the middle, nested event loops |
| `KStartupInfo` (`src/kstartupinfo.cpp`) | three maps of startups, clean-up timer, delayed window events | `new:`, `change:`, `remove:`, windows, `checkStartup`, timers | messages in any order, silencing and resuming, lost `remove:` |
| `KX11Extras`, `NETEventFilter` (`src/kx11extras.cpp`) | window list, stacking order, strut cache | event filter, `init`, `workArea`, viewports | caches that follow property events of windows that vanish; replacement of the filter by `init`; desktops that are parts of a large one |
| `NETRootInfo`, `NETWinInfo` (`src/platforms/xcb/netwm.cpp`) | cached root and window properties | setters (client and window manager role), `event`, `update` | replies that come one by one while others write; requests against property changes |
| `KWindowInfo` (`src/kwindowinfo.cpp`) | snapshot of a `NETWinInfo` | getters | getters that fall back on other properties |
| `KXErrorHandler` (`src/kxerrorhandler.cpp`) | stack of handlers, request number, lock | construct, destroy, `error`, `handler_wrapper` | nesting, late errors, wrap-around of request numbers |
| `KUserTimestamp`, sending side of `KStartupInfo` | startup id, environment, user time | `createNewStartupId`, `initId`, `setStartupId`, `appStarted`, `send*` | quoting, an id that passes through three places, times that wrap |
| Wayland back end (`src/platforms/wayland`): `WindowEffects`, `WindowShadow`, `WindowSystem` with `KWindowShadow`, `KWindowEffects`, `KWaylandExtras` | per-window tables, protocol objects, pending handles, tokens | install, create, destroy, export, import, tag, activate | surfaces, platform windows and globals come and go in any order |
| X11 back ends of effects and shadows | none but window properties | write or delete a property | none |
| `KKeyServer` (`src/kkeyserver.cpp`) | modifier masks | initialise, convert | tables |
| `KWindowSystem`, plugin wrapper, QML types | none | forwarding | none |

How they interact: `KStartupInfo` receives its text through `KXMessages` and its
windows from `KX11Extras::windowAdded`; `KX11Extras` and `KWindowInfo` are built
on `NETRootInfo` and `NETWinInfo`, and on `KXErrorHandler` to find out whether a
window is still there; startup ids and error handlers compare 32 bit numbers with
the same `timestampCompare()`; the selection classes meet only in the X
server; the parts of the Wayland plugin listen to the same windows and globals.  All code of one process runs in one thread.  Concurrency is between
processes, at the X server, and between event handlers, slots and timers of one
event loop.

What makes each part correct, and is checked where it is modelled:

* selections: an object that says it owns the selection does; every claim is
  answered once; nobody is killed who did not have to be; no window is leaked; a
  watcher ends up following the real owner;
* messages: a receiver is given whole messages, once, in order;
* startups: an id is in one map, listeners know exactly the announced ones, the
  timer that forgets them runs as long as there is something to forget;
* window tracking: at rest the lists and the strut cache are what the server
  has; NETWM: a cached property is the last one the server reported, a request
  arrives as it was made, and what was asked for comes true;
* Wayland: what the compositor has been told about a surface is what the application
  last asked for, whenever the surface or the protocol appeared;
* errors: each error reaches the handler that was active when its request was made.

`PROJECT.json` lists under `hazards` where in the code each of these can go
wrong in a way that a unit test would hardly reach.

## 2. The modules

| Module | What it is |
|---|---|
| `XServer` | windows, one selection, event masks, one event queue per client; external, modelled from how the selection classes use it |
| `KSelectionOwner` | the object of each process in `Owners` |
| `KSelectionWatcher` | the object of each process in `Watchers` |
| `ManagerSelection` | server, owners and watchers together, crashes and foreign window destruction, properties |
| `MCManagerSelection` | symmetry for TLC |
| `ManagerSelectionProofs` | theorems about `ManagerSelection`: types, the answers to claims, who owns the selection, what watchers know of it |
| `MessageBroadcast` | abstract specification: atomic broadcast |
| `KXMessages` | fragmentation and reassembly, refinement of `MessageBroadcast` |
| `MCKXMessages` | messages for TLC |
| `KXMessagesProofs` | the theorem that `KXMessages` implements `MessageBroadcast` |
| `KStartupInfoData` | the data of one startup and `update()` |
| `KStartupInfo` | the object that follows startups |
| `MCKStartupInfo` | payloads, windows and flags for TLC |
| `KStartupInfoProofs` | theorems about `KStartupInfo` |
| `ClientListDiff` | how `NETRootInfo::update()` compares two client lists |
| `KXUtils` | `timestampCompare()` modulo the size of a word |
| `KStartupInfoText` | startup messages as text, written and parsed |
| `KStartupInfoSender`, `MCKStartupInfoSender` | a launcher, an application and a listener that exchange that text; ids and user time |
| `XProperty` | window properties and the helpers of `netwm.cpp` that read them |
| `NETSupported` | `_NET_SUPPORTED`: flags to atoms and back |
| `NETRootInfo` | the root window between a window manager and a client |
| `KX11Desktops`, `MCNETRootInfo` | desktops, viewports and their signals on top of it |
| `NETRootInfoProofs` | theorems about `NETRootInfo` and `KX11Desktops` |
| `NETWinProperties` | the properties of a window and their conversion |
| `NETWinInfo` | a window between a window manager and a client |
| `KWindowInfo`, `MCKWindowInfo` | an observer's snapshot of it |
| `KWindowInfoProofs` | theorems about `NETWinProperties`, `NETWinInfo` and `KWindowInfo` |
| `KXErrorHandler`, `MCKXErrorHandler` | the stack of X error handlers |
| `KXErrorHandlerProofs` | theorems about `KXErrorHandler` |
| `QWaylandWindow` | Qt's windows, platform windows, surfaces and the globals, as the plugin sees them |
| `WindowEffects`, `WindowShadow`, `WindowSystem` | the three parts of the Wayland plugin |
| `WaylandPlugin`, `MCWaylandPlugin` | their composition |
| `WaylandPluginProofs` | theorems about `WaylandPlugin` |
| `NETEventFilter` | the event filter of `KX11Extras`: windows, stacking order, struts, compositing; the X server and its other clients as far as the filter sees them |
| `NETEventFilterProofs` | theorems about `ClientListDiff` and `NETEventFilter` |

### Manager selections

A selection is a name in the X server with at most one owner window.
`KSelectionOwner::claim(force, force_kill)` asks the server who the owner is,
creates a window, learns the server time from a property change on it, takes the
selection, asks again who the owner is and, if it was told to kill, waits a second
for the previous owner's window to go before it calls `xcb_kill_client`.

The variables `state`, `window`, `prev_owner`, `timestamp`, `force_kill` and `timer`
are the members of `KSelectionOwner::Private`.  A function that waits for a reply
of the server is cut at the reply, because requests of other processes are
processed in between: `claim()` is `Claim` and `ClaimSend`, `gotTimestamp()` is
`OnPropertyNotify` and `GotTimestamp`; `call[c]` says that the process is blocked
there.  The emission of `lostOwnership()` is a cut as well (`OnSelectionClear`,
`FinishSelectionClear`), since its slots may call `claim()`; `lostWindow` is the
handler's local copy of the window.  `answer` records the signal that answered the
last `claim()`; no action reads it.  `KSelectionWatcher::owner()` makes three
requests and is three actions; `told` is the owner that `newOwner()` and
`lostOwner()` have announced.

Events reach a client in the order in which the server sends them.  A process that
is killed or crashes loses its windows, and everybody who selected events on them
is told.  `ForeignDestroy` lets any client destroy any window.

### KXMessages

A broadcast is cut into client messages of 20 bytes (`FragmentSize`); the first has
the leading type, the others the following type, and a message ends with the first
fragment that has a NUL in it.  A sender may be preempted between two fragments and
may die; `Restart` lets another process have its window ids.  A receiver appends the
C string in each fragment to the text of that window.  `log` and `got` are history:
`log` grows when the fragment is sent that ends the text of a message and records
which receivers listened all along, `got` holds the texts given to `gotMessage()`.
The refinement mapping (`INSTANCE MessageBroadcast WITH ...`) takes the texts of the
messages for the abstract texts, `log` and `got` for the abstract variables.

### KStartupInfo

`startups`, `silent_startups` and `uninited_startups` are the three maps of
`KStartupInfo::Private`.  `GotStartupInfo` is `got_message()` for `new:` and
`change:`, with one operator per branch of `new_startup_info_internal()`;
`GotRemoveStartupInfo` is `remove:` with and without pids and with and without an
id.  Windows come by `SlotWindowAdded`, which posts an event, and `WindowAdded`,
which handles it; `CheckStartup` is the call from outside.  `StartupsCleanup` is the
timer that runs once a second, `StartupsCleanupNoAge` the one that `setTimeout()`
schedules.  `announced` is what a listener knows from `gotNewStartup()` and
`gotRemoveStartup()`.  Of the data only the fields that decide a branch are kept:
silent, pids, class, binary and host name.  Ids are numbers, ordered like the keys
of a `QMap`, which decides which of several matching startups is found first.

### Window tracking

`NETEventFilter` models the object behind `KX11Extras`.  The window manager publishes
client lists, clients set struts and destroy windows, a compositing manager comes and
goes; each of these may happen between any two replies the process waits for.
`Call` is `init()`: it makes a filter for `INFO_BASIC` or `INFO_WINDOWS` if there is none
or only a smaller one, and `ReadOwner`, `ReadClients`, `ReadStacking`, `Activated` are the
rest of the constructor, `activate()` and the end of `init()`.  `update()` turns a client
list into calls of `removeClient()` and `addClient()`, which `todo` holds; `addClient()` is
`SelectEvents` and `AddClient`, because events are selected one request before the strut is
read.  The loop of `workArea()` is one `WorkAreaRead` per window it asks.  `clients` is the
copy of the client list in `NETRootInfo`, `windows`, `stackingOrder`, `strutWindows`,
`possible`, `strutSignalConnected` and `compositing` are members of the filter.  `known`,
`told` and `view` are what listeners of `windowAdded()` and `windowRemoved()`, of
`compositingChanged()` and of `strutChanged()` know; the listener of `strutChanged()` calls
`workArea()` in its slot.  XFixes is there.  `qtTracks` says whether Qt follows the
compositor too, in which case the filter also sees events of the root window.

### Startup messages

`KStartupInfoText` has `to_text()`, `escape_str()`, `get_fields()` and the constructors from
text as operators on sequences of symbols; a key with its `=` is one symbol, quotes,
backslashes and spaces are symbols of their own.  In `KStartupInfoSender` a launcher makes an
id with `initId()` and `createNewStartupId()`, announces it, and hands it to the application in
`DESKTOP_STARTUP_ID`; the application may be given ids by other launchers (`GetStartupId`, whose
times are printed signed), updates its user time and ends the startup with `appStarted()`.
`env`, `startup_id`, `nextId`, `userTime` and `appTime` are the environment variable, the static
`s_startup_id` and the members of Qt's `QX11Info`.  The listener keeps the PIDs of each startup
(`known`, the union of its three maps): `got_remove_startup_info()` ends a startup when no PID is
left.  `said`, `latest` and `told` are history.

### NETWM: the root window

`fields[a]` is the `NETRootInfo` of the window manager or of the client, `property` what the
server has.  `update()` sends requests for all dirty properties and takes the replies in the
order of the code: `todo[a]` holds the replies to come, and the other side may write between
two of them.  Setters of the window manager write the property and the copy; those of the client
send a message whose packing is modelled word by word, and `sent` and `got` record what was asked
for and which virtual function of the window manager was called.  `NETSupported` has the tables
of `setSupported()` and `updateSupportedProperties()`.  `KX11Desktops` adds the functions of
`KX11Extras` on top of the client: `mapViewport()`, `viewportToDesktop()`,
`desktopToViewport()`, `setOnDesktop()` for windows, and what the event filter emits
(`Announced`).

### NETWM: application windows

`NETWinInfo` has one object for a window manager and one for a client.  `todo[a]` is the rest of
the function that a executes: X requests, which the server takes one by one between those of
the other side, and decisions that depend on replies (`mapping_state_dirty`, requested states that
differ from the cached ones).  The window manager manages and withdraws the window when it
likes and grants every request.  `meant` and `wish` are history: what a setter was last called
with, and what a client asked for.  The pure parts, from a property to a field and back, icons
and window types, are in `NETWinProperties`.  `KWindowInfo` is the object an observer makes for a
moment; its getters are operators on what it has read.

### X errors

`handlers`, `pos` and `lock` are the static variables of `kxerrorhandler.cpp`, `xlib` is the function
Xlib calls, `event`, `mode` and `reached` follow one error through `handler_wrapper()` and `handle()`.
Errors are read later than their requests were issued and may belong to another display.
`owed` in each handler is history: the errors it has to accept.

### Wayland

`QWaylandWindow` describes the life of a window as Qt has it: `create()`, `show()`, `hide()`,
`destroy()`, deletion and a new window at the same address; platform windows and surfaces
have numbers.  Every step of a window runs the handlers of all parts that are
connected to it.  `effects[w]` has the entries of all tables of `WindowEffects`; `shadow` and
`tiles` are the objects of `KWindowShadow` and `KWindowShadowTile` with their back ends; `foreign`,
`cookie`, `token`, `requests` and `showing` are the state of `WindowSystem`.  The
compositor announces and withdraws globals at any time and answers requests late or never.

## 3. The runs

All runs but `wayland` say `CHECK_DEADLOCK FALSE`: the applications, the number of messages and the
number of windows are bounded, and a system whose user does nothing more is at rest.
A behaviour of `netwm_root`, `netwm_window` and `wayland` is about one topic: properties
that do not depend on each other, or parts of the plugin that do not share a table, are
looked at in behaviours of their own.  The `TypeOK` of the modules without theorems says
what their variables may hold and is not part of a run.

### Passing

**`selection_owners`** (`MCSelectionOwners.cfg`): two processes, claims while at most
three windows have been created, two server times, one accident (crash or foreign
destruction).  Three windows let one process claim, lose and claim again while
the other one waits for it; two times make `SetSelectionOwner` refuse a claim that is
too late.

* `OwnershipIsReal`: an object that says it owns the selection does, or the event that
  says otherwise is in its queue; with nothing left to dispatch there is one such
  object at most.
* `ClearIsNeverStale`: `filterEvent()` does not look at the window of a
  `SelectionClear`.  It looks as if an event for an old window could end a new
  ownership; it cannot, because the timestamp of the new claim is only set by a
  `PropertyNotify` that is later in the queue.
* `NoWindowLeak`: the lost window is destroyed although a slot may have claimed again.
* `ClaimAnsweredOnce`: the timer runs exactly in the state that `timeout()` asserts,
  and a claim is unanswered exactly while the object is busy.
* `KillsOnlyUnresponsive`: whoever is killed had been told to give up and had not
  reacted.
* `EveryClaimAnswered` (liveness): every claim of a living process is answered.

**`selection_watcher`** (`MCSelectionWatcher.cfg`): two owners, a watcher that starts at
any moment, two windows.  `WatcherConverges`: once everything is dispatched, the watcher
has the owner that the server has, and has announced it.  Two windows give it one change of owner to miss,
and an owner that releases the selection or is deleted gives it a loss at each of its
three requests.  There are no accidents here: to the watcher they look like a release.

**`kxmessages`** (`MCKXMessages.cfg`): two senders, one receiver, three broadcasts of
messages with one, two or three bytes or with an embedded NUL, and fragments of two
bytes, so that messages are shorter than, as long as and longer than a fragment.
`BroadcastIsAtomic` is the refinement of `MessageBroadcast`: nothing of a finished or broken
message gets into another; `EverythingDelivered` (liveness) says that nothing is lost.  Slots return before the next event (`MaxNesting = 0`).
Receivers do not see each other, so one is enough.

**`kstartupinfo`** (`MCKStartupInfo.cfg`): two ids, four payloads, five kinds of window, all
eight sets of flags, three messages, one window, and timeouts of one and two
seconds with a factor of two (20 in the code) for silent startups.  Three messages are
enough to go through all three maps.  `MapsDisjoint`, `ListenersAgree`,
`TimerRunsWhileNeeded` are also proved; `EverythingForgotten` is liveness.

**`window_tracking`** (`MCNETEventFilter.cfg`): two windows, with and without a strut, every
initial client list, two changes by others.  Two windows are enough for lists that
differ in order, by a removal, an addition and an exchange.  Two changes put one change
into a wait and another one behind it; three changes (20.8 million states) have been
checked once as well.

* `ListsFollow`: at rest `windows()` and `stackingOrder()` are what the server has, or the
  event that will update them is in the queue, and each window has been announced.
* `OnlyChangesAnnounced`: `removeClient()` and `addClient()` are called for windows that
  have left and come.  This is what sorting is for; without it the walk along the two
  lists still ends with the right windows.
* `StrutCacheFresh`: for a managed window `workArea()` uses the strut it has, or the event
  about its change is in the queue.
* `StrutListenerUpToDate`: a listener that calls `workArea()` at each `strutChanged()` has, once
  events are dispatched, used the struts of all managed windows that exist.
* `CompositingKnown`: the filter, its listeners and the server agree about the compositor
  once events are dispatched, whichever filter the events were meant for.

**`startup_messages`** (`MCKStartupInfoSender.cfg`): names with every arrangement of up to two
spaces, quotes and backslashes, two ids, three messages, server times from 8 to 11 modulo
10, so that the time wraps once.  One message is on the wire at a time, since `KXMessages`
keeps the order.

* `Understood`: a listener reads the data that was meant.  Fields that the code writes without
  escaping (icon, class, host name, application id) hold no character that would need it.
* `LaunchEnds`: a listener that has heard everything knows exactly the startups that are not
  over.  A startup is over when the application has ended it with `appStarted()`, whichever
  place its id came from, or when each of its PIDs was reported dead; the property is stated
  over the history of what was told, not over what the listener keeps.
* `UserTimeLatest`: the user time is the latest time given, across the wrap.

**`netwm_root`** (`MCNETRootInfo.cfg`): three calls, two desktops, geometries of four, two and one
and a half displays, and three sets of properties that interest the client.  Three calls
put one before `activate()`, one between two replies and one behind them.

* `ClientAgrees`: at rest the client has what was published, for each of the properties in
  `Compared`; its work areas are the published ones or none.  Three things are not compared, because
  the code does not keep them the same: the count of a client list that has become empty, a name of
  the window manager that the client has asked for too early, and the virtual roots.  TLC finds
  each of them violated when it is added; they are in the list of differences below.
* `RequestsArrive`: each request of the client calls the right virtual function with the right
  arguments, in order.
* `ViewportsInverse`: desktops that are parts of a large one are numbered one to one with
  viewports, and a window that is sent to one lands there.
* `ListenersFollow`: signals are emitted for every change of the desktop numbers.
* `KeepsOtherNames` (action property): `setDesktopName()` changes one name.

**`netwm_window`** (`MCKWindowInfo.cfg`): three calls on twelve groups of properties; values
include icons of three sizes, struts, texts, three desktops and all desktops.  A rectangle of
`setIconGeometry()` without a width is the empty one: a non-empty one of width 0, which the object
would keep while the property is deleted, is left out.  Deleting a property that is not there
notifies nobody.

* `BothKnow`: at rest both sides have what was last set.
* `WishesHonoured`: what a client asked for, as a state or a desktop, comes true although the
  window may be managed or withdrawn between its decision and its requests.
* `IconFits`: of square icons the one returned is as large as asked for if there is one that is.
  With icons of other shapes this fails: see the list of differences below.
* `GettersSuffice`: with the flags of the table `Getters`, a getter of `KWindowInfo` says the same
  as with all flags.  The table has the getters that fall back on something, or whose flags are
  not those of `kwindowinfo.h`.  These are three, `iconName()` and the two of the application menu:
  the table has the flags they need.  Those the header names are not enough, as the list of
  differences below says.

**`wayland`** (`MCWaylandPlugin.cfg`): one window with three surfaces in its life, two windows
for a shadow that moves, three to five calls of the part a behaviour is about.  Deadlock is
checked: a window can always do something.

* `EffectsShown`: effects of a visible window are those asked for, through whatever protocol,
  and no protocol object outlives its surface.
* `ShadowShown`: a created shadow is there whenever its window is exposed, unless it was moved to
  another window or a global was withdrawn.
* `ExportsSettle`: no future of `exportToplevel()` is left without a promise.
* `ToplevelsTold`: main window and tag are told to each new toplevel.
* `TokenUsedOnce`, `ShowingDesktopKnown`: tokens are not used twice; with nothing on the wire the
  mode is known, also when the protocol has come back.  What `showingDesktop()` says while an event
  is on the wire is the mode before it, and nothing is claimed of it.

**`x_errors`** (`MCKXErrorHandler.cfg`): three nested handlers, two error codes, one that a handler
may refuse, eleven requests numbered modulo 10, two errors unread.  A handler sees fewer
requests than half the modulus, as 2^31 requests are in the code.

* `ErrorsRouted`: an error is taken by the handler that it is meant for; the stack is never
  read below its first element.
* `FirstErrorKept`: `error()` and `errorEvent()` tell of the first error meant for a handler.

Errors that would have to be passed on to another `KXErrorHandler` block the thread
(`x_errors_nested`); such a behaviour ends there.

### Fairness

`FairSpec` of `ManagerSelection` has weak fairness on the progress of each process: its
event loop dispatches events, blocking calls return, a running timer fires.  Claims,
releases and accidents need not happen.  That of `KXMessages` is weak fairness on the
receivers only: a sender may stop for ever in the middle of a message.  That of
`KStartupInfo` is weak fairness on the two timers and on posted events, which is what
Qt's event loop does.  One thing is assumed that the code does not give: each new
entry calls `cleanup->start(1000)`, which restarts the second, so a new startup more
often than once a second would keep the clean-up from running.  The number of
messages is bounded in the model, so this does not occur in it.

### Violations: where the code and its words differ

* **`selection_claimed`** / `ClaimedMeansOwned`.  While an object waits for the previous
  owner, another client takes the selection.  `SelectionClear` makes the object lose
  its ownership but does not end the wait; the previous owner's `DestroyNotify`, or
  the timer, then emits `claimedOwnership()`.  The header says that this signal means
  that the claim was successful.
* **`x_errors_nested`** / `OlderErrorsPassed`.  `handler_wrapper()` holds the mutex `s_lock` while
  `handle()` passes an error that is too old, or of another display, to `old_handler`.  For a
  nested instance that is `handler_wrapper()` again, which waits for the lock that its own
  thread holds.  The header says that handlers may be nested and that errors for older
  requests are passed to the previous handler.

More differences were met and have no run.

Selections, messages and startups:

* a `KSelectionWatcher` follows one owner, a second takes the selection, and the second vanishes
  between two of the requests of `owner()` (`kselectionwatcher.cpp:201`): `selection_owner` becomes
  `XCB_NONE` without a signal, the `DestroyNotify` of the first no longer matches, and
  `lostOwner()` is never emitted;
* `kselectionowner.h:111` says that with `force` the previous owner "will be given one
  second"; `gotTimestamp()` (`kselectionowner.cpp:216`) waits only if `force_kill` is set;
* `gotMessage()` is emitted before the entry of the window is removed (`kxmessages.cpp:162`).
  If a slot runs an event loop in which the sender's next message begins, the removal
  drops its first fragment (`MaxNesting = 1` shows it: the refinement fails);
* a startup that had `change:` before `new:` is announced without a look at `silent()`
  (`kstartupinfo.cpp:310`), against the comments at `:148` and `:325`;
* a message for a startup that stays silenced emits `gotStartupChange()`
  (`kstartupinfo.cpp:303`) for an id that listeners do not know;
* `KStartupInfoData::update()` (`kstartupinfo.cpp:1086`) takes a new xinerama number over
  only if one is set already, under the comment "don't overwrite";
* icon, class, host name and application id are written into messages without escaping, and
  `simplified()` in `get_fields()` collapses runs of white space inside quotes;
* `appStarted()` without any id makes a new one and sends `remove:` for it.

X11:

* `init()` replaces the event filter by one that knows no windows (`kx11extras.cpp:531`).  A window
  that left the client list before the new filter reads it, and whose event the old one has
  not dispatched, is never announced by `windowRemoved()`;
* `kx11extras.h:60` says that `windows()` is "in the order of creation"; it is in the order of
  window ids, with windows that come later at the end;
* the strut cache keeps the desktop of a window as it was when the strut was read
  (`kx11extras.cpp:953`); a later move to another desktop does not drop the entry;
* `KX11Extras::setDesktopName()` (`kx11extras.cpp:1011`) without an event filter makes a
  `NETRootInfo` that has not read the names, and erases all the others;
* `numberOfDesktops()` computes `w / dw * h / dh`, which is not the number of parts that
  `viewportToDesktop()` uses when the geometry is no multiple of the display; `setOnDesktop()`
  wraps a window by its corner and not by its centre; `currentDesktopChanged()` is not emitted
  when only the geometry or the number of desktops changes;
* work areas are ignored unless there are four numbers per desktop;
* the icons a client handles are never read by `update()`; the fallback that the comments at
  `kwindowinfo.cpp:77` and `:264` describe for windows without a type is never used, because
  `hasWindowType()` is always true;
* `update()` sets `clients_count` only for a list that is not empty (`netwm.cpp:2031`).  When the last
  window goes, `clientList()` is null and `clientListCount()` is what it was; `netwm.h:338` says
  that it is the number of windows in the list;
* `setSupported()` publishes the window that has the window manager's name, and then the name
  (`netwm.cpp:1142`, `:1162`).  A client that handles the event about the first in between reads no
  name, and is never notified of the second: `wmName()` (`netwm.h:157`) stays empty;
* `_NET_VIRTUAL_ROOTS` is published as `WINDOW` and asked for as such, and only for one window
  (`netwm.cpp:1958`), but the reply is taken as `CARDINAL` (`netwm.cpp:2191`) and dropped:
  `virtualRoots()` of a client (`netwm.h:408`) is null;
* `netwm.h:1345` says that `icon()` finds the next biggest.  `iconInternal()` (`netwm.cpp:3557`) keeps an
  icon unless another is at least as large in both directions, so that an icon of 1 x 3 before one
  of 2 x 2 is what `icon(2, 2)` returns;
* `iconName()` "requires `NET::WMIconName`" (`kwindowinfo.h:290`), but falls back on `name()`
  (`kwindowinfo.cpp:360`), which the constructor does not read for that flag (`kwindowinfo.cpp:70`);
* `applicationMenuServiceName()` and `applicationMenuObjectPath()` "require `NET::WMPid`"
  (`kwindowinfo.h:588`, `:597`), and return what is read for two other flags;
* `NETWinInfo::setState()` drops a request when the cached state happens to be what is asked
  for.

Wayland:

* `setMainWindow()` twice with the same handle, or before `show()` and then `hide()` and `show()`,
  makes the assertion at `windowsystem.cpp:278` fail; an empty handle does not cancel one that
  waits for the toplevel; a main window set on a visible window is lost after `hide()`;
* disabling blur with `ext-background-effect` re-creates the entry of `m_backgroundEffects` after
  `releaseWindow()`; when that protocol is withdrawn, blur is not installed again through
  the older one;
* a shadow that was moved to another window keeps the connection to the old one, whose
  `surfaceDestroyed()` then removes the new object; it is not made again when the shadow
  protocol returns; `kwindowshadow.h:202` says it does not track the platform surface;
* `setXdgToplevelTag()` and `setXdgToplevelDescription()` do not look whether the protocol is
  there; token requests stay unanswered if it goes away;
* an exported handle belongs to the platform window and survives `hide()` and `show()`
  (`windowsystem.cpp:165`): a later `exportToplevel()` returns the handle of a surface that is gone;
* `kwindowsystem.h:142` says that `updateStartupId()` takes the token out of `XDG_ACTIVATION_TOKEN`
  on Wayland; `kwindowsystem.cpp:166` does nothing there.

## 4. The proofs

TLC has checked every property below in the runs of section 3.  The theorems hold for all values of the
constants that satisfy the modules' assumptions (`NamesAssumption`,
`KStartupInfoAssumption`, `ClientsAssumption`, `ModulusAssumption`, `FilterAssumption`,
`PluginAssumption`, ...), so they carry the results of section 3 beyond its bounds: to any
number of clients, windows, handlers, surfaces and messages.  The assumptions say what
kind of thing a constant is (ids are natural numbers, sets of windows are finite, a set
of clients does not overlap another); they exclude no behaviour of the code.

All proofs have the same layout: the invariant as a conjunction of named parts, lemmas
about the operators, one lemma per action or per part, and a last step that joins them.

**`KStartupInfoProofs`** proves, for any ids, payloads, windows, flags and timeouts:

* `TypeCorrect`: `Spec => []TypeOK`.  The point is that maps hold real ids only: a `remove:`
  without an id goes through the same helpers as one with an id.
* `MapsStayDisjoint`, `ListenersAlwaysAgree`, `TimerAlwaysRunsWhileNeeded`.  The inductive
  invariant `Inv` is the conjunction of the three.  None is inductive alone: that an id
  moved from `silent_startups` to `startups` is nowhere else needs disjointness, that
  the timer still runs after such a move needs that it ran before, and that
  `announced` follows the removal needs that it was exact.  There is one lemma per
  action, and the branches of `new_startup_info_internal()` have one each; they speak
  about domains of maps only, so `WithoutDomain`, `CleanedDomain` and
  `DropPidsDomain` are all they need of the data.

**`ManagerSelectionProofs`** proves, for any number of owners and watchers:

* `ClaimsAnsweredOnce`: `Spec => []ClaimAnsweredOnce`.  The inductive invariant `ClaimInv` adds
  `IdleInCalls` (a process that is blocked in `claim()` or `gotTimestamp()` is in state
  Idle with no timer) and the types of the fields involved.  Without `IdleInCalls` a
  reply could be handled in a state where the timer runs.
* `TypeCorrect`: `Spec => []TypeOK`, which includes that the selection's owner is a window that
  exists and that window ids are not used twice.
* `OwnershipReal`, `ClearsNeverStale`, `NoLeaks` and `KillsUnresponsive`, on top of these.
* `WatchersAlwaysConverge`, on top of those.

The four before the last share the invariant `OwnershipInv`, because an object's belief is
only right together with what is in its queue, where its process is blocked, and what
others know of its window.  Its parts are about one object (`ObjectInv`: the ids it holds,
the events it has not handled, what it has been told) and about the server (`LiveWindows`,
`OwnerKnows`).  The part that makes `ClearIsNeverStale` true is `ClearsFirst`: while an object waits for
the timestamp, no `SelectionClear` is behind the `PropertyNotify` in its queue, so every one of
an earlier claim is handled before `timestamp` is set.  `Told` has to hold even before a claim
is verified once somebody else has found the window to be the owner, or the next claimer's kill
would not be justified.  A step changes one object; the other ones see what `Meanwhile`
says, and one lemma shows that this keeps each of their parts.

`WatchersAlwaysConverge` holds however often windows are destroyed or processes die; its
run allows neither.  `WatchersInv` says of a watcher that it hears of the end of the window it follows (`Following`), that the
window it reads about in `owner()` is gone if the request for its events failed (`Selecting`), and that once the
owner has announced itself the watcher follows it, is about to read who it is, or has a MANAGER
message to handle (`Follows`).  Every claim that succeeds ends with that message because an object that waits
for the previous owner may kill it (`MayKill`).  At rest, a window that still exists belongs to
an object whose claim succeeded, and `Told` of `OwnershipInv` makes it the owner.

**`KXMessagesProofs`** proves `AtomicBroadcast`, the refinement of `MessageBroadcast`, for any number
of senders, receivers and broadcasts, any byte strings and any size of a fragment, provided
that `MaxNesting = 0`: slots of `gotMessage()` return before the next event is handled.  With nested
event loops the refinement does not hold (section 3).  `FragmentJoins` is the arithmetic of
the cutting: what a receiver has after a fragment is a prefix of the text, and a fragment ends
the text exactly if its C string is shorter than a fragment.  The invariant `BroadcastInv` runs each
receiver's queue ahead (`Leads`): handled from what `incoming_messages` is now, the fragments in it emit, in order,
the texts of `log` that are addressed to the receiver and not given to it yet, and leave a map that
has the prefix of every message under way whose beginning the receiver heard, and nothing of
one whose beginning it missed (`Holds`).  A sender that dies in the middle leaves an entry
that no part of the invariant speaks of, since the leading fragment of the next message on the
same window overwrites it.  Appending a fragment (`OneMoreTurn`) and handling one (`FirstTurn`) are
the two ways in which a queue changes.

**`KXErrorHandlerProofs`** proves, for any error codes, depth of nesting and width of serials:

* `ErrorsAlwaysRouted`: `CompareIsRight` shows that `timestampCompare()` orders two serials as the
  requests were issued as long as they are not further apart than half the modulus.  The
  invariant `ErrorInv` then needs `Chained` (handlers are ordered by their first request, and each
  calls the one before it), `Ordered` (errors arrive in the order of requests) and `Located` (what `pos`
  and `lock` are in each phase of `handler_wrapper()`).
* `FirstErrorAlwaysKept`: `Remembers` and `Owed` say of each handler which errors it has been shown, less
  the one that is being handled, and that the first of them is the one it keeps.

**`NETEventFilterProofs`** proves `DiffIsRight`: for lists of any length, sorting both and
walking along them yields the windows that have left and those that have come, each once.
The walk is a recursive function.  Its values are shown to exist and to be unique by
induction on what is left of the two lists.  `NatSetInduction`, in this module as in every one
that needs it, states the induction with a set where a predicate would be: the provers can
instantiate a set.

It also proves, for any windows, struts and number of changes, `ChangesOnly`,
`ListsAlwaysFollow`, `StrutsFresh`, `ListenersUpToDate` and `CompositingAlwaysKnown`.  `FilterInv` has a part for each
cache: `Walking` says what is left of the walk in `todo` in relation to `windows` and `clients`
(with `DiffIsRight` when it begins), `Following` that lists are right or an event is pending,
`Caching` that a strut is right, unknown or pending, for which it needs that events are selected
before the strut is read, `Viewing` that a listener's picture is the cache, and `Composited` that
the last event the filter listens to in the queue tells how things are.  The last is the part
that a replaced filter could break: the queue still has events meant for the old one.

**`NETRootInfoProofs`** proves, for any windows, names, sizes and number of changes and requests:

* `ListenersAlwaysFollow`: `ListenInv` says that a listener knows what the functions would return now, or
  that the event filter, in the middle of `update()`, will announce every value on which they still
  depend: the geometry and the viewport, the number of desktops, the current desktop
  (`ViewDecides`).  What the functions return with viewports counted as desktops is not looked at:
  it is enough that it depends on nothing else (`ReadDecides`).
* `RequestsAlwaysArrive`: `Places` puts each request that has been made and not been handled at
  one place of the window manager's queue, in order, with every client message of the queue at the place of
  one.  `RequestInv` adds that what was handled is the beginning of `sent`.  `CallbackCases`,
  `ShortMessage` and `LongMessage` show of each request that its message, converted by `event()`,
  calls the method with the arguments it was made with, and `CURRENT_DESKTOP` needs that subtracting one and
  adding one are inverse modulo the size of a word.
* `ViewportsAlwaysInverse`: `Values` says that the numbers and pairs of the root window's properties and
  of the objects' fields are never negative; reading and writing arrays of pairs keeps that
  (`FlattenedPairs`, by induction over `FlattenSeq`).  The rest is arithmetic for one axis:
  whoever goes to a part of the desktop is on that part (`PartsAre`, `DesktopsReachable`), and a window
  moved to a part has its centre there, across the edge of the desktop too (`LandsOnAxis`,
  `WindowsLand`).  It holds for any display, any desktop whose sides are multiples of the
  display's, and any viewport.  These numbers have no width in the model: overflow of `int`,
  for desktops of about 2^31 pixels, is left out.

* `ClientAlwaysAgrees`, which leaves out what section 3 says of `ClientAgrees`: `FollowInv` says of every object and every property it reads that the field
  is what the property says (`Held`), or that an event or a reply about it is still to come
  (`Informed`), for which `activate()` has to put everything in `todo` and every write has to reach
  the queue of whoever is active.  `Own` says that the window manager's properties are what its object
  has (`Encodes`), and `HeldAgrees` that reading is inverse to writing: flags to atoms and back with the
  tables of `NETSupported`, points flattened and cut again, a sorted list of clients that has the same members,
  the desktop counted from 1 and from 0.  Two properties are written by both sides;
  for them both objects hold what the property says.  Work areas need a case of their own:
  a client that compared their number with an old number of desktops has none.
* `OtherNamesKept`: `NamesRead` is that `Split` undoes `Join` for names without NUL, by induction
  over the text; `FilledIs` that what is published has the new name at its place and the old ones at theirs,
  also for a desktop that had none; `Unnamed` that an object has no names before any
  are published.  `FollowInv` makes the writer's copy the public list when it is up to date.

These two assume of the constants that windows are numbers and finitely many, that a desktop's number fits into
a property, that names have no NUL and that `Supported` and `SupportingWMCheck`, which
`activate()` publishes, are never taken back (`NETRootInfoAssumption`).

**`KWindowInfoProofs`** is about a window with any texts, icons, struts, desktops and numbers, and any number of
calls:

* `BothAlwaysKnow`: `BothKnow` speaks of a system at rest, and says nothing of a request that waits, a
  reply that overtakes another or an object that has just been built.  `Understanding` says it of
  every state: a property says what was meant (`Means`), and the field of every object that has read
  it is up to date (`UpToDate`), or a notification about it is queued (`Told`), or the object
  has a request for the property ahead of it, or will write it itself (`View`).  It says of lists of
  requests that every `set` writes what the setter was called with (`RightSet`) and that a
  decision of `setState()` or `setDesktop()`, which depends on the mapping state, is the last entry (`GoodList`); of the two flags that are kept in
  two properties (`Paired`) in which phase their setter is (`Phase`), for between its
  two requests the properties contradict each other; of a request that deletes a property that its writer's field is
  blank already (`Deletions`), since nobody is told when there is nothing to delete; of the icons of an object that
  those after the count are empty (`GoodIcons`).  One lemma per action shows that it is kept.
  The part under *What setters write is what update() reads* shows that reading is inverse to writing:
  negative numbers as unsigned ones, states as lists of atoms, window types with their fallback, and icons,
  which are parsed again out of a flat list of numbers (`DataAppend`, `ReadIconIs`; the recursive functions are
  followed from position to position).
* `WishesAlwaysHonoured`: `WishesHonoured` too speaks of a system at rest.  `Promises` says of every state
  what keeps a wish alive (`Promise`).  All that is on its way for the wish, in lists of requests and in the queue
  of the window manager, asks for the same (`Obeys`, `Asking`).  A client that takes its window for withdrawn, or
  whose window is no longer marked as managed, is `Alone`: the property says what it
  wanted, or it is about to write it.  Otherwise the window is managed, and the property says so, or a message or
  a decision is `Pending`, or the window manager has yet to write; and the object of the window manager says so,
  or something is pending, or it has yet to read the property.  `Orderly` says who may have what ahead of it:
  only a managed window makes the window manager decide, and who reads does not write.  A wish
  begins as a promise in both cases (`NewAlone`, `NewAsked`): `StatesAsked` says of `StateMessages()` that it yields
  a message for every state that differs, the two maximised ones in one, and nothing that
  was not called for.  A later call leaves the other wishes alone (`WriteKeeps`, `AskKeeps`).
  `Understanding` supplies that the window manager decides from what the property says.
* `IconsAlwaysFit`: `GoodIcons` of `Understanding`, and an induction along each of the two loops of
  `iconInternal()`: what the first has found is an icon that counts and none of those passed is wider
  (`WidestFound`); what the second has found is large enough or still the first's, and none of those passed
  that is large enough is narrower (`FittingFound`).
* `GettersAlwaysSuffice`, for the flags of the table `Getters`: an object reads a property alike whatever else it reads (`ObservedFlag`,
  `ObservedName`), the constructor adds the flags of the fallbacks (`NeedsForced`), and a getter looks at nothing
  else (`SameAnswer`).

`NETWinInfoAssumption` says of the constants what C++ types and the callers guarantee: an `int` fits
into a word, texts have no NUL, an icon has as many pixels as its size says and is not
larger than the 8192 that `readIcon()` accepts, and applications write by other means only
what has no setter.

**`WaylandPluginProofs`** proves, for any number of windows, tiles, handles and tags, for any
bounds on surfaces, and for every order in which globals come and go, each of them withdrawn once at
most (`ShadowAlwaysShown` only as long as none is withdrawn, `EffectsAlwaysShown` with the two
exceptions for blur that its property states): `EffectsAlwaysShown`,
`ShadowAlwaysShown`, `ExportsAlwaysSettle`, `ToplevelsAlwaysTold`, `TokensUsedOnce` and `ShowingDesktopAlwaysKnown`.  `PluginInv` is
the conjunction of an invariant per table: `WindowInv` (numbers of platform windows and surfaces
are not used again), `EffectsInv`, `ShadowInv`, `ForeignInv`, `TagInv`, `TokenInv`, `ShowingInv`.  The properties speak of
exposed windows with every protocol there; the invariants have to say what an entry is in every other phase:
an object belongs to the current surface (`BlurBelongs`, `ContrastBelongs`, `SlideBelongs`, `ObjectBelongs`),
is installed as soon as surface and protocol are (`BlurInstalled`, ...), an event filter is there
for exactly the windows with an entry (`Tracked`), and a connection to a platform window that
is gone does nothing (`Connected`).  All steps of a window are reduced to one operator per part,
so that each part is proved once.  That several connections for the same
toplevel end with the last handle is an induction over the recursive function `RolePending`;
that a free number for an import exists is the pigeonhole principle.

### Only model-checked

* Liveness (`EveryClaimAnswered`, `EverythingForgotten`, `EverythingDelivered`): out of the prover's reach.
* What `KXMessages` does when slots nest event loops: there the refinement fails.
* `Understood`, `LaunchEnds` and `UserTimeLatest` of `KStartupInfoSender`.  What the recursive functions of
  `KStartupInfoText` compute for every text is induction over data.

## 5. Not modelled

* Answering `SelectionRequest` (`filter_selection_request`, `handle_selection`): it writes
  properties of the requestor and keeps no state.
* Of the sending side of startups: the window part of `setNewStartupId()` and the search for a
  desktop file.
* X11 effects and shadows write one property per call; `KKeyServer` is tables; pixmap
  conversion in `kxutils.cpp` is computation on pixels.
* Geometry: `kdeGeometry()`, the geometry of `KWindowInfo`, and the device pixel ratio.
* `KXErrorHandler` in several threads: the stack is shared by all of them, and the constructor
  sets Xlib's handler before it puts the object on the stack.
* On Wayland: descriptions of toplevels, which work as tags do, and `xdg-dialog`.
* Real time.  A timer fires at any moment while it runs; `now` is the server's clock,
  which only orders claims of selections; the wrap-around of server times is modelled for
  error handlers and startup ids.
* More than one selection, screen or object per process.  The static `manager_atom` of
  `KSelectionWatcher::init()`, which keeps a second watcher from selecting events on another
  root window, is therefore out of sight.
* Slots that delete the object that emits, and slots of `KStartupInfo` that call back
  into it: the iterators in `removeAllStartupInfoInternal()` make that undefined.
* Of `NETEventFilter`: the desktop that is cached
  with a strut, window ids that are used again, `workArea()` with windows to exclude, the
  creation of the filter from another thread, slots that make `init()` replace the filter
  whose signal they handle, and servers without XFixes.
* `KWindowSystem` and the plugin wrapper forward calls and keep no state; QML types are
  declarations.

## 6. Plan

What the models of this directory leave to do, most important first:

1. The desktop that is cached with a strut, by composing `NETEventFilter` with `NETWinInfo`.
2. Selection requests; a second root window for `KSelectionWatcher`.

------------------------------ MODULE XServer ------------------------------
(***************************************************************************)
(* The part of an X server that manager selections (ICCCM 2.8) rest on:    *)
(* windows, one selection with its owner and its last-change time, the     *)
(* StructureNotify masks clients have put on windows, and one FIFO of      *)
(* events per client.  The server is not in this repository; it is         *)
(* modelled from how kselectionowner.cpp and kselectionwatcher.cpp use it. *)
(*                                                                         *)
(* XIDs and timestamps are naturals, with 0 for XCB_NONE and for           *)
(* XCB_CURRENT_TIME, as in the C code.                                     *)
(***************************************************************************)
EXTENDS Naturals, Sequences, FiniteSets

CONSTANTS Owners,      \* clients holding one KSelectionOwner each
          Watchers     \* clients holding one KSelectionWatcher each

ASSUME ClientsAssumption == Owners \cap Watchers = {}

Clients == Owners \cup Watchers

None == 0              \* XCB_NONE
CurrentTime == 0       \* XCB_CURRENT_TIME

VARIABLES
  connected,   \* clients the server sends events to
  live,        \* windows that exist
  creator,     \* creator[w]: the client that created window w
  nextWin,     \* the next XID xcb_generate_id hands out
  mask,        \* mask[w]: the clients that selected StructureNotify on w
  selOwner,    \* owner window of the selection, None if it has none
  selTime,     \* the selection's last-change time
  now,         \* server time
  queue        \* queue[c]: events sent to c and not dispatched yet

serverVars == <<connected, live, creator, nextWin, mask, selOwner, selTime,
                now, queue>>

Window == Nat \ {0}

Event ==      [type : {"PropertyNotify"}, window : Window, time : Nat \ {CurrentTime}]
         \cup [type : {"SelectionClear", "DestroyNotify"}, window : Window]
         \cup [type : {"Manager"}]

PropertyNotify(w, t) == [type |-> "PropertyNotify", window |-> w, time |-> t]
SelectionClear(w)    == [type |-> "SelectionClear", window |-> w]
DestroyNotify(w)     == [type |-> "DestroyNotify", window |-> w]
Manager              == [type |-> "Manager"]

\* The queues once c has taken its first event.
Consume(c) == [queue EXCEPT ![c] = Tail(@)]

\* The queues q once w is destroyed: one DestroyNotify to every client that
\* asked for it under the masks m.  Destroying a window that is gone is a
\* BadWindow error, which nobody reads.
NotifyDestroyed(q, w, m) ==
  [d \in Clients |-> IF w \in live /\ d \in m[w] \cap connected
                       THEN Append(q[d], DestroyNotify(w)) ELSE q[d]]

\* xcb_destroy_window: the window goes, and with it its ownership and the
\* event masks on it.
DestroyWindow(q, w, m) ==
  /\ live' = live \ {w}
  /\ mask' = [x \in DOMAIN mask |-> IF x = w THEN {} ELSE m[x]]
  /\ selOwner' = IF selOwner = w THEN None ELSE selOwner
  /\ queue' = NotifyDestroyed(q, w, m)

\* xcb_set_selection_owner is refused for a dead window and for a time older
\* than the last change.
Accepted(w, t) == w \in live /\ t >= selTime

\* When it is granted, SelectionClear goes to the client of the previous
\* owner, unless that is the caller c.
SetSelectionOwner(q, c, w, t) ==
  IF Accepted(w, t)
    THEN /\ selOwner' = w
         /\ selTime' = t
         /\ queue' = [d \in Clients |->
              IF selOwner # None /\ d # c /\ d = creator[selOwner]
                THEN Append(q[d], SelectionClear(selOwner)) ELSE q[d]]
    ELSE /\ queue' = q
         /\ UNCHANGED <<selOwner, selTime>>

\* A MANAGER message sent to the root window reaches every client that
\* selected StructureNotify on the root: the watchers.
Broadcast(q) ==
  [d \in Clients |-> IF d \in Watchers \cap connected
                       THEN Append(q[d], Manager) ELSE q[d]]

\* The connection of c closes: its windows go, the older first, and nothing
\* is sent to it any more.
CloseDown(c, older, newer) ==
  /\ connected' = connected \ {c}
  /\ live' = live \ {older, newer}
  /\ mask' = [x \in DOMAIN mask |->
                IF x \in {older, newer} THEN {} ELSE mask[x] \ {c}]
  /\ selOwner' = IF selOwner \in {older, newer} THEN None ELSE selOwner

CloseDownQueues(c, older, newer) ==
  [d \in Clients |->
     IF d = c THEN <<>>
     ELSE NotifyDestroyed(NotifyDestroyed(queue, older, mask), newer, mask)[d]]

ServerInit ==
  /\ connected = Owners
  /\ live = {}
  /\ creator = [w \in {} |-> None]
  /\ nextWin = 1
  /\ mask = [w \in {} |-> {}]
  /\ selOwner = None
  /\ selTime = CurrentTime
  /\ now = 1
  /\ queue = [c \in Clients |-> <<>>]

ServerTypeOK ==
  /\ connected \subseteq Clients
  /\ nextWin \in Window
  /\ live \subseteq 1..(nextWin - 1)
  /\ creator \in [1..(nextWin - 1) -> Owners]
  /\ mask \in [1..(nextWin - 1) -> SUBSET Clients]
  /\ selOwner \in live \cup {None}
  /\ selTime \in Nat
  /\ now \in Window
  /\ queue \in [Clients -> Seq(Event)]
============================================================================

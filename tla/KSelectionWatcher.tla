------------------------- MODULE KSelectionWatcher -------------------------
(***************************************************************************)
(* KSelectionWatcher (src/platforms/xcb/kselectionwatcher.cpp): the object *)
(* that follows the owner of a manager selection.  Each client in Watchers *)
(* has one.  owner() makes three requests; requests of other clients can   *)
(* reach the server between any two of them (step[c]).                     *)
(***************************************************************************)
EXTENDS XServer

VARIABLES
  selection_owner,  \* d->selection_owner
  step,             \* where in owner() the watcher is
  current,          \* the local current_owner of owner()
  err,              \* selecting events on current_owner failed
  onDestroy,        \* owner() was called for a DestroyNotify
  told              \* the owner by the signals newOwner(w) and lostOwner()

watcherVars == <<selection_owner, step, current, err, onDestroy, told>>

WatcherInit ==
  /\ selection_owner = [c \in Watchers |-> None]
  /\ step = [c \in Watchers |-> "new"]
  /\ current = [c \in Watchers |-> None]
  /\ err = [c \in Watchers |-> FALSE]
  /\ onDestroy = [c \in Watchers |-> FALSE]
  /\ told = [c \in Watchers |-> None]

WatcherTypeOK ==
  /\ selection_owner \in [Watchers -> Nat]
  /\ step \in [Watchers -> {"new", "idle", "read", "select", "verify"}]
  /\ current \in [Watchers -> Nat]
  /\ err \in [Watchers -> BOOLEAN]
  /\ onDestroy \in [Watchers -> BOOLEAN]
  /\ told \in [Watchers -> Nat]

Goto(c, s) == step' = [step EXCEPT ![c] = s]

\* owner() returns r, having found a new owner or not; it announces a new one
\* and the DestroyNotify handler announces the lack of one.
Return(c, r, new) ==
  /\ Goto(c, "idle")
  /\ current' = [current EXCEPT ![c] = None]
  /\ err' = [err EXCEPT ![c] = FALSE]
  /\ onDestroy' = [onDestroy EXCEPT ![c] = FALSE]
  /\ told' = [told EXCEPT ![c] = IF new THEN r
                                 ELSE IF onDestroy[c] /\ r = None THEN None
                                 ELSE @]

\* init(): the root window's events are selected, then owner() is called.
WatcherInitCall(c) ==
  /\ step[c] = "new"
  /\ connected' = connected \cup {c}
  /\ Goto(c, "read")
  /\ UNCHANGED <<live, creator, nextWin, mask, selOwner, selTime, now, queue,
                 selection_owner, current, err, onDestroy, told>>

\* The application asks for the owner.
OwnerCall(c) ==
  /\ step[c] = "idle"
  /\ Goto(c, "read")
  /\ UNCHANGED <<serverVars, selection_owner, current, err, onDestroy, told>>

\* owner() up to the first reply of get_selection_owner().
OwnerRead(c) ==
  /\ step[c] = "read"
  /\ IF selOwner = None \/ selOwner = selection_owner[c]
       THEN Return(c, selOwner, FALSE)
       ELSE /\ Goto(c, "select")
            /\ current' = [current EXCEPT ![c] = selOwner]
            /\ UNCHANGED <<err, onDestroy, told>>
  /\ UNCHANGED <<serverVars, selection_owner>>

\* owner() selects StructureNotify on the window it read.
OwnerSelect(c) ==
  LET w == current[c] IN
  /\ step[c] = "select"
  /\ err' = [err EXCEPT ![c] = w \notin live]
  /\ mask' = IF w \in live THEN [mask EXCEPT ![w] = @ \cup {c}] ELSE mask
  /\ Goto(c, "verify")
  /\ UNCHANGED <<connected, live, creator, nextWin, selOwner, selTime, now,
                 queue, selection_owner, current, onDestroy, told>>

\* No error, and the owner is still the one that was read.
OwnerUnchanged_unchecked(c) == TRUE
OwnerUnchanged(c) == ~err[c] /\ current[c] = selOwner

\* owner() verifies that the owner did not change again.
OwnerVerify(c) ==
  LET same == OwnerUnchanged(c)
      r == IF same THEN current[c] ELSE None IN
  /\ step[c] = "verify"
  /\ selection_owner' = [selection_owner EXCEPT ![c] = r]
  /\ Return(c, r, same)
  /\ UNCHANGED serverVars

\* filterEvent() takes the next event.
Dispatch(c, type) ==
  /\ step[c] = "idle" /\ queue[c] # <<>> /\ Head(queue[c]).type = type
  /\ queue' = Consume(c)
  /\ UNCHANGED <<connected, live, creator, nextWin, mask, selOwner, selTime,
                 now, current, err, told>>

\* XCB_CLIENT_MESSAGE of type MANAGER for this selection.
OnManager(c) ==
  /\ Dispatch(c, "Manager")
  /\ Goto(c, "read")
  /\ UNCHANGED <<selection_owner, onDestroy>>

\* XCB_DESTROY_NOTIFY.
OnOwnerDestroyed(c) ==
  /\ Dispatch(c, "DestroyNotify")
  /\ IF selection_owner[c] = None \/ Head(queue[c]).window # selection_owner[c]
       THEN UNCHANGED <<selection_owner, step, onDestroy>>
       ELSE /\ selection_owner' = [selection_owner EXCEPT ![c] = None]
            /\ onDestroy' = [onDestroy EXCEPT ![c] = TRUE]
            /\ Goto(c, "read")

WatcherStep(c) ==
  \/ WatcherInitCall(c)
  \/ OwnerCall(c)
  \/ OwnerRead(c)
  \/ OwnerSelect(c)
  \/ OwnerVerify(c)
  \/ OnManager(c)
  \/ OnOwnerDestroyed(c)
============================================================================

-------------------------- MODULE KSelectionOwner --------------------------
(***************************************************************************)
(* KSelectionOwner (src/platforms/xcb/kselectionowner.cpp): the object a   *)
(* process uses to claim, hold and give up a manager selection.  Each      *)
(* client c in Owners has one.  A handler that waits for a reply of the X  *)
(* server is split at the reply: requests of other clients can reach the   *)
(* server in between, while c itself does nothing else (call[c]).          *)
(*                                                                         *)
(* Calls of the application are the actions Claim, Release and Delete;     *)
(* the native event filter and the timer are the other actions.  Signals   *)
(* that answer a claim() are recorded in answer, which no action reads.    *)
(***************************************************************************)
EXTENDS XServer

CONSTANTS MaxWindow,   \* bound on nextWin when a claim starts
          MaxTime      \* bound on the server time

ASSUME BoundsAssumption == MaxWindow \in Nat /\ MaxTime \in Nat

VARIABLES
  state,       \* d->state
  window,      \* d->window
  prev_owner,  \* d->prev_owner
  timestamp,   \* d->timestamp, CurrentTime when the selection is not owned
  force_kill,  \* d->force_kill
  timer,       \* d->timer is running
  call,        \* the server reply the object is blocked on, if any
  lostWindow,  \* the local of filterEvent() while slots of lostOwnership() run
  answer       \* the signal that answered the last claim(), if any

objectVars == <<state, window, prev_owner, timestamp, force_kill, timer,
                call, lostWindow>>
ownerVars == <<objectVars, answer>>

OwnerInit ==
  /\ state = [c \in Owners |-> "Idle"]
  /\ window = [c \in Owners |-> None]
  /\ prev_owner = [c \in Owners |-> None]
  /\ timestamp = [c \in Owners |-> CurrentTime]
  /\ force_kill = [c \in Owners |-> FALSE]
  /\ timer = [c \in Owners |-> FALSE]
  /\ call = [c \in Owners |-> "none"]
  /\ lostWindow = [c \in Owners |-> None]
  /\ answer = [c \in Owners |-> "none"]

OwnerTypeOK ==
  /\ state \in [Owners -> {"Idle", "WaitingForTimestamp",
                           "WaitingForPreviousOwner"}]
  /\ window \in [Owners -> Nat]
  /\ prev_owner \in [Owners -> Nat]
  /\ timestamp \in [Owners -> Nat]
  /\ force_kill \in [Owners -> BOOLEAN]
  /\ timer \in [Owners -> BOOLEAN]
  /\ call \in [Owners -> {"none", "claim", "verify"}]
  /\ lostWindow \in [Owners -> Nat]
  /\ answer \in [Owners -> {"none", "pending", "claimed", "failed"}]

\* The application can call into the object: c is not blocked on the server.
Running(c) == c \in connected /\ call[c] = "none"

\* c has returned to the event loop.
InEventLoop(c) == Running(c) /\ lostWindow[c] = None

\* claimedOwnership() is the answer "claimed", failedToClaimOwnership() "failed".
Answer(c, a) == answer' = [answer EXCEPT ![c] = a]

\* timer.start(1000, owner) and timer.stop()
StartTimer_forgotten(c) == UNCHANGED timer
StartTimer(c) == timer' = [timer EXCEPT ![c] = TRUE]

StopTimer_forgotten(c) == UNCHANGED timer
StopTimer(c) == timer' = [timer EXCEPT ![c] = FALSE]

-----------------------------------------------------------------------------
(* claim() and release()                                                   *)

\* What release() does to the object when the selection is owned.
ReleaseFields_keepTimestamp(c) ==
  /\ window' = [window EXCEPT ![c] = None]
  /\ UNCHANGED timestamp

ReleaseFields(c) ==
  /\ window' = [window EXCEPT ![c] = None]
  /\ timestamp' = [timestamp EXCEPT ![c] = CurrentTime]

Release(c) ==
  /\ Running(c)
  /\ timestamp[c] # CurrentTime
  /\ DestroyWindow(queue, window[c], mask)
  /\ ReleaseFields(c)
  /\ UNCHANGED <<connected, creator, nextWin, selTime, now, state,
                 prev_owner, force_kill, timer, call, lostWindow, answer>>

\* claim(force_P, force_kill_P) up to the reply of get_selection_owner().
\* The caller must respect Q_ASSERT(d->state == Idle).  force_kill is stored
\* here and not with the state in ClaimSend; nothing reads it in between.
Claim(c, force_P, force_kill_P) ==
  /\ Running(c)
  /\ state[c] = "Idle"
  /\ nextWin <= MaxWindow
  /\ IF timestamp[c] # CurrentTime
       THEN DestroyWindow(queue, window[c], mask) /\ ReleaseFields(c)
       ELSE UNCHANGED <<live, mask, selOwner, queue, window, timestamp>>
  /\ prev_owner' = [prev_owner EXCEPT ![c] = selOwner']
  /\ IF selOwner' # None /\ ~force_P
       THEN /\ Answer(c, "failed")
            /\ UNCHANGED <<force_kill, call>>
       ELSE /\ force_kill' = [force_kill EXCEPT ![c] = force_kill_P]
            /\ call' = [call EXCEPT ![c] = "claim"]
            /\ Answer(c, "pending")
  /\ UNCHANGED <<connected, creator, nextWin, selTime, now, state,
                 timer, lostWindow>>

\* The id xcb_generate_id() returns, used once.
GenerateId_stale(c) == nextWin' = nextWin
GenerateId(c) == nextWin' = nextWin + 1

\* The rest of claim(): watch the previous owner's window, create a window
\* and change a property on it to learn the server time.
ClaimSend(c) ==
  LET w == nextWin IN
  /\ c \in connected /\ call[c] = "claim"
  /\ GenerateId(c)
  /\ live' = live \cup {w}
  /\ creator' = [x \in 1..w |-> IF x = w THEN c ELSE creator[x]]
  /\ mask' = [x \in 1..w |->
       IF x = w THEN {c}
       ELSE IF x = prev_owner[c] /\ x \in live THEN mask[x] \cup {c}
       ELSE mask[x]]
  /\ now' \in {t \in {now, now + 1} : t <= MaxTime \/ t = now}
  /\ queue' = [queue EXCEPT ![c] = Append(@, PropertyNotify(w, now'))]
  /\ window' = [window EXCEPT ![c] = w]
  /\ state' = [state EXCEPT ![c] = "WaitingForTimestamp"]
  /\ call' = [call EXCEPT ![c] = "none"]
  /\ UNCHANGED <<connected, selOwner, selTime, prev_owner, timestamp,
                 force_kill, timer, lostWindow, answer>>

-----------------------------------------------------------------------------
(* The native event filter, filterEvent()                                  *)

\* Private::claimSucceeded(), sending on top of the queues q.
ClaimSucceeded(c, q) ==
  /\ state' = [state EXCEPT ![c] = "Idle"]
  /\ queue' = Broadcast(q)
  /\ Answer(c, "claimed")

\* XCB_PROPERTY_NOTIFY and gotTimestamp() up to get_selection_owner().
OnPropertyNotify(c) ==
  LET ev == Head(queue[c]) IN
  /\ InEventLoop(c) /\ queue[c] # <<>> /\ ev.type = "PropertyNotify"
  /\ IF ev.window = window[c] /\ state[c] = "WaitingForTimestamp"
       THEN /\ timestamp' = [timestamp EXCEPT ![c] = ev.time]
            /\ state' = [state EXCEPT ![c] = "Idle"]
            /\ SetSelectionOwner(Consume(c), c, window[c], ev.time)
            /\ call' = [call EXCEPT ![c] = "verify"]
       ELSE /\ queue' = Consume(c)
            /\ UNCHANGED <<timestamp, state, selOwner, selTime, call>>
  /\ UNCHANGED <<connected, live, creator, nextWin, mask, now, window,
                 prev_owner, force_kill, timer, lostWindow, answer>>

\* new_owner == window: the claim got through.
ClaimVerified_unchecked(c) == TRUE
ClaimVerified(c) == selOwner = window[c]

\* The rest of gotTimestamp(), once the current owner is known.
GotTimestamp(c) ==
  /\ c \in connected /\ call[c] = "verify"
  /\ call' = [call EXCEPT ![c] = "none"]
  /\ IF ~ClaimVerified(c)
       THEN /\ DestroyWindow(queue, window[c], mask)
            /\ ReleaseFields(c)
            /\ Answer(c, "failed")
            /\ UNCHANGED <<state, timer>>
       ELSE /\ IF prev_owner[c] # None /\ force_kill[c]
                 THEN /\ StartTimer(c)
                      /\ state' = [state EXCEPT ![c] = "WaitingForPreviousOwner"]
                      /\ UNCHANGED <<queue, answer>>
                 ELSE ClaimSucceeded(c, queue) /\ UNCHANGED timer
            /\ UNCHANGED <<live, mask, selOwner, window, timestamp>>
  /\ UNCHANGED <<connected, creator, nextWin, selTime, now, prev_owner,
                 force_kill, lostWindow>>

\* The object no longer owns the selection; its window stays in d->window.
LoseOwnership(c) == timestamp' = [timestamp EXCEPT ![c] = CurrentTime]

\* XCB_SELECTION_CLEAR up to the emission of lostOwnership(), whose slots may
\* call claim() again before the handler goes on.
OnSelectionClear(c) ==
  /\ InEventLoop(c) /\ queue[c] # <<>> /\ Head(queue[c]).type = "SelectionClear"
  /\ queue' = Consume(c)
  /\ IF timestamp[c] = CurrentTime
       THEN UNCHANGED <<timestamp, lostWindow>>
       ELSE /\ LoseOwnership(c)
            /\ lostWindow' = [lostWindow EXCEPT ![c] = window[c]]
  /\ UNCHANGED <<connected, live, creator, nextWin, mask, selOwner, selTime,
                 now, state, window, prev_owner, force_kill, timer, call,
                 answer>>

\* The window the handler destroys: the one that was lost, not d->window, which
\* a claim() in a slot has replaced.
WindowToDestroy_current(c) == window[c]
WindowToDestroy(c) == lostWindow[c]

\* The rest of the handler: unset the event mask, destroy the lost window.
FinishSelectionClear(c) ==
  LET w == WindowToDestroy(c) IN
  /\ Running(c) /\ lostWindow[c] # None
  /\ DestroyWindow(queue, w, [mask EXCEPT ![w] = @ \ {c}])
  /\ lostWindow' = [lostWindow EXCEPT ![c] = None]
  /\ UNCHANGED <<connected, creator, nextWin, selTime, now, state, window,
                 prev_owner, timestamp, force_kill, timer, call, answer>>

\* XCB_DESTROY_NOTIFY: the previous owner's window, then the own one.
OnDestroyNotify(c) ==
  LET w == Head(queue[c]).window
      prev == w = prev_owner[c] IN
  /\ InEventLoop(c) /\ queue[c] # <<>> /\ Head(queue[c]).type = "DestroyNotify"
  /\ IF prev /\ state[c] = "WaitingForPreviousOwner"
       THEN /\ StopTimer(c)
            /\ ClaimSucceeded(c, Consume(c))
            /\ UNCHANGED <<prev_owner, timestamp>>
       ELSE /\ prev_owner' = [prev_owner EXCEPT ![c] = IF prev THEN None ELSE @]
            /\ queue' = Consume(c)
            /\ IF timestamp[c] = CurrentTime \/ w # window[c]
                 THEN UNCHANGED timestamp
                 ELSE LoseOwnership(c)
            /\ UNCHANGED <<timer, state, answer>>
  /\ UNCHANGED <<connected, live, creator, nextWin, mask, selOwner, selTime,
                 now, window, force_kill, call, lostWindow>>

\* timerEvent() and Private::timeout(): the previous owner is killed, if its
\* window is still there (an error of xcb_kill_client is ignored).
OnTimer(c) ==
  LET p == prev_owner[c]
      v == creator[p]
      kills == force_kill[c] /\ p \in live
      q == IF kills THEN CloseDownQueues(v, lostWindow[v], window[v]) ELSE queue
  IN
  /\ InEventLoop(c) /\ timer[c]
  /\ StopTimer(c)
  /\ IF kills THEN CloseDown(v, lostWindow[v], window[v])
              ELSE UNCHANGED <<connected, live, mask, selOwner>>
  /\ IF force_kill[c]
       THEN ClaimSucceeded(c, q)
       ELSE /\ state' = [state EXCEPT ![c] = "Idle"]
            /\ Answer(c, "failed")
            /\ queue' = q
  /\ UNCHANGED <<creator, nextWin, selTime, now, window, prev_owner,
                 timestamp, force_kill, call, lostWindow>>

-----------------------------------------------------------------------------
(* The end of the object or of its process                                 *)

Gone(c) ==
  /\ CloseDown(c, lostWindow[c], window[c])
  /\ queue' = CloseDownQueues(c, lostWindow[c], window[c])
  /\ UNCHANGED <<creator, nextWin, selTime, now, ownerVars>>

\* ~KSelectionOwner(), which destroys the window and with it the ownership.
\* kselectionowner.h forbids it in a slot of lostOwnership().
Delete(c) == InEventLoop(c) /\ Gone(c)

\* The process crashes, at any point.
Crash(c) == c \in connected /\ Gone(c)

OwnerStep(c) ==
  \/ Release(c)
  \/ \E f, k \in BOOLEAN : Claim(c, f, k)
  \/ ClaimSend(c)
  \/ OnPropertyNotify(c)
  \/ GotTimestamp(c)
  \/ OnSelectionClear(c)
  \/ FinishSelectionClear(c)
  \/ OnDestroyNotify(c)
  \/ OnTimer(c)
  \/ Delete(c)
============================================================================

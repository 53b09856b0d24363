-------------------------- MODULE ManagerSelection --------------------------
(***************************************************************************)
(* Processes with a KSelectionOwner and processes with a KSelectionWatcher *)
(* on one manager selection of one X server.                               *)
(***************************************************************************)
EXTENDS KSelectionOwner, KSelectionWatcher

CONSTANT MaxAccidents  \* bound on crashes and windows destroyed by others

ASSUME AccidentsAssumption == MaxAccidents \in Nat

VARIABLE accidents     \* how many there have been

vars == <<serverVars, ownerVars, watcherVars, accidents>>

Init == ServerInit /\ OwnerInit /\ WatcherInit /\ accidents = 0

\* Any X client may destroy a window that is not its own.
ForeignDestroy(w) ==
  /\ w \in live
  /\ DestroyWindow(queue, w, mask)
  /\ UNCHANGED <<connected, creator, nextWin, selTime, now, ownerVars>>

Accident ==
  /\ accidents < MaxAccidents
  /\ accidents' = accidents + 1
  /\ \/ \E c \in Owners : Crash(c)
     \/ \E w \in live : ForeignDestroy(w)
  /\ UNCHANGED watcherVars

Next ==
  \/ \E c \in Owners : OwnerStep(c) /\ UNCHANGED <<watcherVars, accidents>>
  \/ \E c \in Watchers : WatcherStep(c) /\ UNCHANGED <<ownerVars, accidents>>
  \/ Accident

Spec == Init /\ [][Next]_vars

\* The event loop of c dispatches events, its timer fires and blocking calls
\* return; the application's own calls and accidents need not happen.
OwnerProgress(c) ==
  /\ \/ ClaimSend(c) \/ OnPropertyNotify(c) \/ GotTimestamp(c)
     \/ OnSelectionClear(c) \/ FinishSelectionClear(c) \/ OnDestroyNotify(c)
     \/ OnTimer(c)
  /\ UNCHANGED <<watcherVars, accidents>>

FairSpec == Spec /\ \A c \in Owners : WF_vars(OwnerProgress(c))

TypeOK ==
  /\ ServerTypeOK
  /\ OwnerTypeOK
  /\ WatcherTypeOK
  /\ accidents \in 0..MaxAccidents

-----------------------------------------------------------------------------

Has(c, e) == \E i \in DOMAIN queue[c] : queue[c][i] = e

\* What c will learn about losing window w is already on its way.
LossPending(c, w) == Has(c, SelectionClear(w)) \/ Has(c, DestroyNotify(w))

\* claim() waits for events and has not been answered by a signal.
Busy(c) == state[c] # "Idle" \/ call[c] # "none"

\* An object that says it owns the selection (ownerWindow() is not None) is
\* the owner the server knows, or the event that will tell it otherwise is in
\* its queue: gotTimestamp() verifies its claim, and every later change is
\* notified on a window the object selected events on.  Two objects that have
\* dispatched everything can therefore not both say so.
OwnershipIsReal ==
  \A c \in connected \cap Owners :
    timestamp[c] # CurrentTime /\ call[c] = "none"
      => selOwner = window[c] \/ LossPending(c, window[c])

\* filterEvent() never looks at the window of a SelectionClear.  It need not:
\* when a SelectionClear is handled by an object that says it is the owner,
\* the object has really lost its window, even if it released and claimed
\* again while the event was in the queue.
ClearIsNeverStale ==
  \A c \in connected \cap Owners :
    /\ queue[c] # <<>>
    /\ Head(queue[c]).type = "SelectionClear"
    /\ timestamp[c] # CurrentTime
    /\ call[c] = "none"
    => /\ Head(queue[c]).window = window[c]
       /\ selOwner # window[c]

\* Every window an object created and the server still has is one the object
\* will destroy: the current window or the lost one lostOwnership() is being
\* emitted for.  No sequence of claims leaks a window.
NoWindowLeak ==
  \A w \in live : w \in {window[creator[w]], lostWindow[creator[w]]}

\* The timer of the previous owner runs exactly in the state that timeout()
\* asserts, and a claim() is unanswered exactly while the object is busy: each
\* claim is answered by one claimedOwnership() or failedToClaimOwnership().
ClaimAnsweredOnce ==
  \A c \in Owners :
    /\ timer[c] <=> state[c] = "WaitingForPreviousOwner"
    /\ answer[c] = "pending" <=> Busy(c)

\* xcb_kill_client hits only a process that has been told to give up the
\* selection and has not reacted: when the timer of c fires and the previous
\* owner's window is still there, its SelectionClear is unhandled.
KillsOnlyUnresponsive ==
  \A c \in connected \cap Owners :
    timer[c] /\ prev_owner[c] \in live =>
      LET p == prev_owner[c]
          v == creator[p] IN
      v # c /\ (Has(v, SelectionClear(p)) \/ lostWindow[v] = p)

Quiescent ==
  /\ \A c \in connected : queue[c] = <<>>
  /\ \A c \in connected \cap Owners : InEventLoop(c) /\ ~Busy(c)
  /\ \A c \in Watchers : step[c] = "idle"

\* The three requests of KSelectionWatcher::owner() race with the owners; once
\* every event is dispatched and no claim is in progress, a watcher that
\* follows an owner follows the one the server knows, and a selection that
\* has an owner is followed and its owner announced by newOwner().
WatcherConverges ==
  Quiescent => \A c \in Watchers :
                 /\ selection_owner[c] = selOwner
                 /\ selOwner # None => told[c] = selOwner

\* Every claim() of a living process is answered: the one second timer bounds
\* the wait for the previous owner, whatever that owner does.
EveryClaimAnswered ==
  \A c \in Owners : []<>(~Busy(c) \/ c \notin connected)

-----------------------------------------------------------------------------

\* kselectionowner.h of claimedOwnership(): "This signal is emitted when
\* claim() was successful in claiming ownership of the selection": when it is
\* emitted, the object owns the selection, unless the application itself has
\* called release() in the meantime (window is None then).
ClaimedMeansOwned ==
  [][\A c \in Owners :
       answer[c] = "pending" /\ answer'[c] = "claimed"
         => timestamp[c] # CurrentTime \/ window[c] = None]_vars
=============================================================================

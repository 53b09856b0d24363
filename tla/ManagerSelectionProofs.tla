----------------------- MODULE ManagerSelectionProofs -----------------------
(***************************************************************************)
(* Theorems about ManagerSelection, for any clients and any bounds: every  *)
(* claim() is answered by exactly one signal and the timer runs exactly    *)
(* when timeout() expects it; types are preserved; an object that says it  *)
(* owns the selection does or is about to be told otherwise, a             *)
(* SelectionClear is never stale, no window leaks, only a process that did *)
(* not react to its SelectionClear is killed, and at rest every watcher    *)
(* knows the owner.                                                        *)
(*                                                                         *)
(* The invariant of the four theorems before the last, OwnershipInv, has   *)
(* one part per question about one object (its fields, its events, what it *)
(* knows of the selection) and two parts about the server.  A step changes *)
(* the fields of at most one object; all the others see it as Meanwhile    *)
(* below, which keeps each of their parts.                                 *)
(***************************************************************************)
EXTENDS ManagerSelection, TLAPS

\* The part of the state that ClaimAnsweredOnce is about.
ClaimTypeOK ==
  /\ state \in [Owners -> {"Idle", "WaitingForTimestamp",
                           "WaitingForPreviousOwner"}]
  /\ timer \in [Owners -> BOOLEAN]
  /\ call \in [Owners -> {"none", "claim", "verify"}]
  /\ answer \in [Owners -> {"none", "pending", "claimed", "failed"}]

\* A handler that waits for the server has left the state Idle behind it or
\* is about to leave it: without this, gotTimestamp() could find a timer
\* running from an earlier claim.
IdleInCalls == \A c \in Owners : call[c] # "none" => state[c] = "Idle"

ClaimInv == ClaimTypeOK /\ IdleInCalls /\ ClaimAnsweredOnce

claimVars == <<state, timer, call, answer>>

LEMMA ClaimInvInit == Init => ClaimInv
BY DEF Init, OwnerInit, ClaimInv, ClaimTypeOK, IdleInCalls,
   ClaimAnsweredOnce, Busy

LEMMA ClaimInvUnchanged == ClaimInv /\ UNCHANGED claimVars => ClaimInv'
BY DEF claimVars, ClaimInv, ClaimTypeOK, IdleInCalls, ClaimAnsweredOnce, Busy

\* Each step of the object on claim() keeps the invariant.
LEMMA OwnerStepClaimInv ==
  ASSUME ClaimInv, NEW c \in Owners, OwnerStep(c)
  PROVE  ClaimInv'
<1> USE DEF ClaimInv, ClaimTypeOK, IdleInCalls, ClaimAnsweredOnce, Busy
<1>1. CASE Release(c)
  BY <1>1, ClaimInvUnchanged DEF Release, claimVars
<1>2. ASSUME NEW f \in BOOLEAN, NEW k \in BOOLEAN, Claim(c, f, k)
      PROVE  ClaimInv'
  BY <1>2 DEF Claim, Running, Answer
<1>3. CASE ClaimSend(c)
  BY <1>3 DEF ClaimSend
<1>4. CASE OnPropertyNotify(c)
  BY <1>4 DEF OnPropertyNotify, InEventLoop, Running
<1>5. CASE GotTimestamp(c)
  <2>1. /\ call[c] = "verify" /\ call' = [call EXCEPT ![c] = "none"]
        /\ \/ /\ answer' = [answer EXCEPT ![c] = "failed"]
              /\ state' = state /\ timer' = timer
           \/ /\ timer' = [timer EXCEPT ![c] = TRUE]
              /\ state' = [state EXCEPT ![c] = "WaitingForPreviousOwner"]
              /\ answer' = answer
           \/ /\ state' = [state EXCEPT ![c] = "Idle"]
              /\ answer' = [answer EXCEPT ![c] = "claimed"]
              /\ timer' = timer
    BY <1>5 DEF GotTimestamp, StartTimer, ClaimSucceeded, Answer
  <2>2. ClaimTypeOK'
    BY <2>1
  <2>3. IdleInCalls'
    BY <2>1
  <2>4. ASSUME NEW d \in Owners
        PROVE  timer'[d] <=> state'[d] = "WaitingForPreviousOwner"
    <3>1. CASE d = c
      BY <2>1, <3>1
    <3>2. CASE d # c
      <4>1. timer'[d] = timer[d] /\ state'[d] = state[d]
        BY <2>1, <3>2
      <4> QED BY <4>1
    <3> QED BY <3>1, <3>2
  <2>5. ASSUME NEW d \in Owners
        PROVE  answer'[d] = "pending" <=>
                 state'[d] # "Idle" \/ call'[d] # "none"
    BY <2>1
  <2> QED BY <2>2, <2>3, <2>4, <2>5
<1>6. CASE OnSelectionClear(c)
  BY <1>6, ClaimInvUnchanged DEF OnSelectionClear, claimVars
<1>7. CASE FinishSelectionClear(c)
  BY <1>7, ClaimInvUnchanged DEF FinishSelectionClear, claimVars
<1>8. CASE OnDestroyNotify(c)
  <2>1. /\ call[c] = "none" /\ call' = call
        /\ \/ /\ state[c] = "WaitingForPreviousOwner"
              /\ timer' = [timer EXCEPT ![c] = FALSE]
              /\ state' = [state EXCEPT ![c] = "Idle"]
              /\ answer' = [answer EXCEPT ![c] = "claimed"]
           \/ UNCHANGED <<timer, state, answer>>
    BY <1>8 DEF OnDestroyNotify, InEventLoop, Running, StopTimer,
       ClaimSucceeded, Answer
  <2>2. ClaimTypeOK'
    BY <2>1
  <2>3. IdleInCalls'
    BY <2>1
  <2>4. ASSUME NEW d \in Owners
        PROVE  timer'[d] <=> state'[d] = "WaitingForPreviousOwner"
    <3>1. CASE d = c
      BY <2>1, <3>1
    <3>2. CASE d # c
      <4>1. timer'[d] = timer[d] /\ state'[d] = state[d]
        BY <2>1, <3>2
      <4> QED BY <4>1
    <3> QED BY <3>1, <3>2
  <2>5. ASSUME NEW d \in Owners
        PROVE  answer'[d] = "pending" <=>
                 state'[d] # "Idle" \/ call'[d] # "none"
    BY <2>1
  <2> QED BY <2>2, <2>3, <2>4, <2>5
<1>9. CASE OnTimer(c)
  BY <1>9 DEF OnTimer, InEventLoop, Running, StopTimer, ClaimSucceeded, Answer
<1>10. CASE Delete(c)
  BY <1>10, ClaimInvUnchanged DEF Delete, Gone, ownerVars, objectVars, claimVars
<1> QED BY <1>1, <1>2, <1>3, <1>4, <1>5, <1>6, <1>7, <1>8, <1>9, <1>10
        DEF OwnerStep

\* Neither watchers nor accidents touch an owner's claim.
LEMMA ClaimInvNext == ClaimInv /\ [Next]_vars => ClaimInv'
<1> SUFFICES ASSUME ClaimInv, [Next]_vars PROVE ClaimInv'
  OBVIOUS
<1>1. ASSUME NEW c \in Owners, OwnerStep(c) PROVE ClaimInv'
  BY <1>1, OwnerStepClaimInv
<1>2. CASE UNCHANGED ownerVars
  BY <1>2, ClaimInvUnchanged DEF ownerVars, objectVars, claimVars
<1>3. CASE Accident
  BY <1>3, <1>2 DEF Accident, Crash, Gone, ForeignDestroy
<1>4. CASE UNCHANGED vars
  BY <1>4, <1>2 DEF vars
<1> QED BY <1>1, <1>2, <1>3, <1>4 DEF Next

\* Whatever the server, the other clients and the application do: the Q_ASSERT
\* of timeout() holds, and no claim() is answered twice or forgotten.
THEOREM ClaimsAnsweredOnce == Spec => []ClaimAnsweredOnce
<1>1. ClaimInv => ClaimAnsweredOnce
  BY DEF ClaimInv
<1> QED BY <1>1, ClaimInvInit, ClaimInvNext, PTL DEF Spec

-----------------------------------------------------------------------------
(* Type correctness: what the requests do to the server                    *)

Queues == [Clients -> Seq(Event)]
Masks == [1..(nextWin - 1) -> SUBSET Clients]

LEMMA EventTypes ==
  /\ \A w \in Window : SelectionClear(w) \in Event /\ DestroyNotify(w) \in Event
  /\ \A w \in Window, t \in Nat \ {CurrentTime} : PropertyNotify(w, t) \in Event
  /\ Manager \in Event
BY DEF Event, SelectionClear, DestroyNotify, PropertyNotify, Manager

LEMMA NotifyDestroyedType ==
  ASSUME ServerTypeOK, NEW q \in Queues, NEW w, NEW m
  PROVE  NotifyDestroyed(q, w, m) \in Queues
<1>1. w \in live => DestroyNotify(w) \in Event
  BY EventTypes DEF ServerTypeOK, Window
<1> QED BY <1>1 DEF NotifyDestroyed, Queues

LEMMA DestroyWindowType ==
  ASSUME ServerTypeOK, NEW q \in Queues, NEW w, NEW m \in Masks,
         DestroyWindow(q, w, m),
         UNCHANGED <<connected, creator, nextWin, selTime, now>>
  PROVE  ServerTypeOK'
<1>1. queue' \in Queues
  BY NotifyDestroyedType DEF DestroyWindow
<1>2. mask' \in Masks
  BY DEF DestroyWindow, ServerTypeOK, Masks
<1> QED BY <1>1, <1>2 DEF DestroyWindow, ServerTypeOK, Queues, Masks

LEMMA BroadcastType ==
  ASSUME NEW q \in Queues
  PROVE  Broadcast(q) \in Queues
BY EventTypes DEF Broadcast, Queues

LEMMA CloseDownType ==
  ASSUME ServerTypeOK, NEW c, NEW older, NEW newer, CloseDown(c, older, newer),
         queue' \in Queues,
         UNCHANGED <<creator, nextWin, selTime, now>>
  PROVE  ServerTypeOK'
<1>1. mask' \in Masks
  BY DEF CloseDown, ServerTypeOK, Masks
<1> QED BY <1>1 DEF CloseDown, ServerTypeOK, Queues, Masks

LEMMA CloseDownQueuesType ==
  ASSUME ServerTypeOK, NEW c, NEW older, NEW newer
  PROVE  CloseDownQueues(c, older, newer) \in Queues
<1>1. queue \in Queues
  BY DEF ServerTypeOK, Queues
<1>2. NotifyDestroyed(NotifyDestroyed(queue, older, mask), newer, mask) \in Queues
  BY <1>1, NotifyDestroyedType
<1> QED BY <1>2 DEF CloseDownQueues, Queues

LEMMA ConsumeType ==
  ASSUME ServerTypeOK, NEW c \in Clients, queue[c] # <<>>
  PROVE  Consume(c) \in Queues /\ Head(queue[c]) \in Event
BY DEF ServerTypeOK, Consume, Queues

LEMMA SetSelectionOwnerType ==
  ASSUME ServerTypeOK, NEW q \in Queues, NEW c, NEW w, NEW t \in Nat,
         SetSelectionOwner(q, c, w, t),
         UNCHANGED <<connected, live, creator, nextWin, mask, now>>
  PROVE  ServerTypeOK'
<1>1. selOwner # None => SelectionClear(selOwner) \in Event
  BY EventTypes DEF ServerTypeOK, Window
<1>2. queue' \in Queues
  <2>1. CASE Accepted(w, t)
    <3> DEFINE Loses(d) == selOwner # None /\ d # c /\ d = creator[selOwner]
    <3>1. queue' = [d \in Clients |->
             IF Loses(d) THEN Append(q[d], SelectionClear(selOwner)) ELSE q[d]]
      BY <2>1 DEF SetSelectionOwner
    <3>2. \A d \in Clients : Loses(d) =>
             Append(q[d], SelectionClear(selOwner)) \in Seq(Event)
      BY <1>1 DEF Queues
    <3> HIDE DEF Loses
    <3> QED BY <3>1, <3>2 DEF Queues
  <2>2. CASE ~Accepted(w, t)
    BY <2>2 DEF SetSelectionOwner
  <2> QED BY <2>1, <2>2
<1> QED BY <1>2 DEF SetSelectionOwner, Accepted, ServerTypeOK, Queues

-----------------------------------------------------------------------------
(* Type correctness: the steps                                             *)

OwnersOK == ServerTypeOK /\ OwnerTypeOK

LEMMA OwnerReleaseType ==
  ASSUME OwnersOK, NEW c \in Owners,
         DestroyWindow(queue, window[c], mask), ReleaseFields(c),
         UNCHANGED <<connected, creator, nextWin, selTime, now>>
  PROVE  /\ ServerTypeOK'
         /\ window' \in [Owners -> Nat] /\ timestamp' \in [Owners -> Nat]
<1>1. queue \in Queues /\ mask \in Masks
  BY DEF OwnersOK, ServerTypeOK, Queues, Masks
<1>2. ServerTypeOK'
  BY <1>1, DestroyWindowType DEF OwnersOK
<1> QED BY <1>2 DEF OwnersOK, OwnerTypeOK, ReleaseFields, None, CurrentTime

LEMMA ClaimType ==
  ASSUME OwnersOK, NEW c \in Owners, NEW f \in BOOLEAN, NEW k \in BOOLEAN,
         Claim(c, f, k)
  PROVE  OwnersOK'
<1>1. /\ ServerTypeOK'
      /\ window' \in [Owners -> Nat] /\ timestamp' \in [Owners -> Nat]
  <2>1. CASE timestamp[c] # CurrentTime
    BY <2>1, OwnerReleaseType DEF Claim
  <2>2. CASE timestamp[c] = CurrentTime
    BY <2>2 DEF Claim, OwnersOK, ServerTypeOK, OwnerTypeOK
  <2> QED BY <2>1, <2>2
<1>2. selOwner' \in Nat
  <2>1. selOwner \in Nat
    BY DEF OwnersOK, ServerTypeOK, None, Window
  <2>2. selOwner' = selOwner \/ selOwner' = None
    BY DEF Claim, DestroyWindow
  <2> QED BY <2>1, <2>2 DEF None
<1>3. prev_owner' \in [Owners -> Nat]
  BY <1>2 DEF Claim, OwnersOK, OwnerTypeOK
<1>4. \/ /\ Answer(c, "failed")
         /\ UNCHANGED <<force_kill, call>>
      \/ /\ force_kill' = [force_kill EXCEPT ![c] = k]
         /\ call' = [call EXCEPT ![c] = "claim"]
         /\ Answer(c, "pending")
  BY DEF Claim
<1>5. /\ force_kill' \in [Owners -> BOOLEAN]
      /\ call' \in [Owners -> {"none", "claim", "verify"}]
      /\ answer' \in [Owners -> {"none", "pending", "claimed", "failed"}]
  BY <1>4 DEF Answer, OwnersOK, OwnerTypeOK
<1> QED BY <1>1, <1>3, <1>5 DEF Claim, OwnersOK, OwnerTypeOK

LEMMA ClaimSendType ==
  ASSUME OwnersOK, NEW c \in Owners, ClaimSend(c)
  PROVE  OwnersOK'
<1> DEFINE w == nextWin
<1>1. w \in Window /\ nextWin' = w + 1 /\ 1..(nextWin' - 1) = 1..w
  BY DEF ClaimSend, GenerateId, OwnersOK, ServerTypeOK, Window
<1>2. c \in Clients
  BY DEF Clients
<1>3. creator' \in [1..w -> Owners]
  BY <1>1 DEF ClaimSend, OwnersOK, ServerTypeOK, Window
<1>4. mask' \in [1..w -> SUBSET Clients]
  BY <1>1, <1>2 DEF ClaimSend, OwnersOK, ServerTypeOK, Window
<1>5. now' \in Window
  BY DEF ClaimSend, OwnersOK, ServerTypeOK, Window
<1>6. queue' \in [Clients -> Seq(Event)]
  <2>1. PropertyNotify(w, now') \in Event
    BY <1>1, <1>5, EventTypes DEF Window, CurrentTime
  <2> QED BY <1>2, <2>1 DEF ClaimSend, OwnersOK, ServerTypeOK
<1>7. live' \subseteq 1..w /\ selOwner' \in live' \cup {None}
  BY <1>1 DEF ClaimSend, OwnersOK, ServerTypeOK, Window
<1>8. ServerTypeOK'
  BY <1>1, <1>3, <1>4, <1>5, <1>6, <1>7
     DEF ClaimSend, OwnersOK, ServerTypeOK, Window
<1>9. OwnerTypeOK'
  BY <1>1 DEF ClaimSend, OwnersOK, OwnerTypeOK, Window
<1> QED BY <1>8, <1>9 DEF OwnersOK

LEMMA OnPropertyNotifyType ==
  ASSUME OwnersOK, NEW c \in Owners, OnPropertyNotify(c)
  PROVE  OwnersOK'
<1>1. Consume(c) \in Queues /\ Head(queue[c]) \in Event
  BY ConsumeType DEF OnPropertyNotify, OwnersOK, Clients
<1>2. Head(queue[c]).time \in Nat
  BY <1>1 DEF OnPropertyNotify, Event
<1>3. ServerTypeOK'
  <2>1. CASE SetSelectionOwner(Consume(c), c, window[c], Head(queue[c]).time)
    BY <1>1, <1>2, <2>1, SetSelectionOwnerType DEF OnPropertyNotify, OwnersOK
  <2>2. CASE queue' = Consume(c) /\ UNCHANGED <<selOwner, selTime>>
    BY <1>1, <2>2 DEF OnPropertyNotify, OwnersOK, ServerTypeOK, Queues
  <2> QED BY <2>1, <2>2 DEF OnPropertyNotify
<1>4. OwnerTypeOK'
  BY <1>2 DEF OnPropertyNotify, OwnersOK, OwnerTypeOK
<1> QED BY <1>3, <1>4 DEF OwnersOK

LEMMA GotTimestampType ==
  ASSUME OwnersOK, NEW c \in Owners, GotTimestamp(c)
  PROVE  OwnersOK'
<1>1. CASE ~ClaimVerified(c)
  <2>1. /\ ServerTypeOK'
        /\ window' \in [Owners -> Nat] /\ timestamp' \in [Owners -> Nat]
    BY <1>1, OwnerReleaseType DEF GotTimestamp
  <2> QED BY <1>1, <2>1 DEF GotTimestamp, Answer, OwnersOK, OwnerTypeOK
<1>2. CASE ClaimVerified(c)
  <2>1. queue' \in Queues
    <3>1. queue \in Queues
      BY DEF OwnersOK, ServerTypeOK, Queues
    <3> QED BY <1>2, <3>1, BroadcastType DEF GotTimestamp, ClaimSucceeded
  <2>2. ServerTypeOK'
    BY <1>2, <2>1 DEF GotTimestamp, OwnersOK, ServerTypeOK, Queues
  <2>3. OwnerTypeOK'
    BY <1>2 DEF GotTimestamp, StartTimer, ClaimSucceeded, Answer, OwnersOK,
       OwnerTypeOK
  <2> QED BY <2>2, <2>3 DEF OwnersOK
<1> QED BY <1>1, <1>2

LEMMA OnSelectionClearType ==
  ASSUME OwnersOK, NEW c \in Owners, OnSelectionClear(c)
  PROVE  OwnersOK'
<1>1. queue' \in Queues
  BY ConsumeType DEF OnSelectionClear, OwnersOK, Clients
<1>2. ServerTypeOK'
  BY <1>1 DEF OnSelectionClear, OwnersOK, ServerTypeOK, Queues
<1>3. OwnerTypeOK'
  BY DEF OnSelectionClear, LoseOwnership, OwnersOK, OwnerTypeOK, CurrentTime
<1> QED BY <1>2, <1>3 DEF OwnersOK

LEMMA FinishSelectionClearType ==
  ASSUME OwnersOK, NEW c \in Owners, FinishSelectionClear(c)
  PROVE  OwnersOK'
<1> DEFINE w == WindowToDestroy(c)
           m == [mask EXCEPT ![w] = @ \ {c}]
<1>1. queue \in Queues /\ m \in Masks
  BY DEF OwnersOK, ServerTypeOK, Queues, Masks
<1>2. DestroyWindow(queue, w, m)
  BY DEF FinishSelectionClear
<1> HIDE DEF w, m
<1>3. ServerTypeOK'
  BY <1>1, <1>2, DestroyWindowType DEF FinishSelectionClear, OwnersOK
<1>4. OwnerTypeOK'
  BY DEF FinishSelectionClear, OwnersOK, OwnerTypeOK, None
<1> QED BY <1>3, <1>4 DEF OwnersOK

LEMMA OnDestroyNotifyType ==
  ASSUME OwnersOK, NEW c \in Owners, OnDestroyNotify(c)
  PROVE  OwnersOK'
<1>1. Consume(c) \in Queues
  BY ConsumeType DEF OnDestroyNotify, OwnersOK, Clients
<1>2. queue' \in Queues
  BY <1>1, BroadcastType DEF OnDestroyNotify, ClaimSucceeded
<1>3. ServerTypeOK'
  BY <1>2 DEF OnDestroyNotify, OwnersOK, ServerTypeOK, Queues
<1>4. /\ \/ timer' = [timer EXCEPT ![c] = FALSE]
         \/ timer' = timer
      /\ \/ state' = [state EXCEPT ![c] = "Idle"] /\ Answer(c, "claimed")
         \/ UNCHANGED <<state, answer>>
      /\ \/ prev_owner' = [prev_owner EXCEPT ![c] = None]
         \/ prev_owner' = prev_owner
         \/ prev_owner' = [prev_owner EXCEPT ![c] = @]
      /\ \/ timestamp' = [timestamp EXCEPT ![c] = CurrentTime]
         \/ timestamp' = timestamp
      /\ UNCHANGED <<window, force_kill, call, lostWindow>>
  BY DEF OnDestroyNotify, StopTimer, ClaimSucceeded, LoseOwnership
<1>5. prev_owner' \in [Owners -> Nat] /\ timestamp' \in [Owners -> Nat]
  BY <1>4 DEF OwnersOK, OwnerTypeOK, None, CurrentTime
<1>6. /\ timer' \in [Owners -> BOOLEAN]
      /\ state' \in [Owners -> {"Idle", "WaitingForTimestamp",
                               "WaitingForPreviousOwner"}]
      /\ answer' \in [Owners -> {"none", "pending", "claimed", "failed"}]
  BY <1>4 DEF OwnersOK, OwnerTypeOK, Answer
<1> QED BY <1>3, <1>4, <1>5, <1>6 DEF OwnersOK, OwnerTypeOK

LEMMA OnTimerType ==
  ASSUME OwnersOK, NEW c \in Owners, OnTimer(c)
  PROVE  OwnersOK'
<1> DEFINE p == prev_owner[c]
           v == creator[p]
           kills == force_kill[c] /\ p \in live
           q == IF kills THEN CloseDownQueues(v, lostWindow[v], window[v])
                ELSE queue
<1>1. q \in Queues
  BY CloseDownQueuesType DEF OwnersOK, ServerTypeOK, Queues
<1>2. queue' = q \/ queue' = Broadcast(q)
  BY DEF OnTimer, ClaimSucceeded
<1>3. queue' \in Queues
  BY <1>1, <1>2, BroadcastType
<1>4. ServerTypeOK'
  <2>1. CASE kills
    <3>1. CloseDown(v, lostWindow[v], window[v])
      BY <2>1 DEF OnTimer
    <3> QED BY <1>3, <3>1, CloseDownType DEF OnTimer, OwnersOK
  <2>2. CASE ~kills
    BY <1>3, <2>2 DEF OnTimer, OwnersOK, ServerTypeOK, Queues
  <2> QED BY <2>1, <2>2
<1>5. OwnerTypeOK'
  BY DEF OnTimer, StopTimer, ClaimSucceeded, Answer, OwnersOK, OwnerTypeOK
<1> QED BY <1>4, <1>5 DEF OwnersOK

LEMMA GoneType ==
  ASSUME OwnersOK, NEW c, Gone(c)
  PROVE  OwnersOK'
<1>1. queue' \in Queues
  BY CloseDownQueuesType DEF Gone, OwnersOK
<1>2. ServerTypeOK'
  BY <1>1, CloseDownType DEF Gone, OwnersOK
<1>3. OwnerTypeOK'
  BY DEF Gone, ownerVars, objectVars, OwnersOK, OwnerTypeOK
<1> QED BY <1>2, <1>3 DEF OwnersOK

LEMMA ForeignDestroyType ==
  ASSUME OwnersOK, NEW w, ForeignDestroy(w)
  PROVE  OwnersOK'
<1>1. queue \in Queues /\ mask \in Masks
  BY DEF OwnersOK, ServerTypeOK, Queues, Masks
<1>2. ServerTypeOK'
  BY <1>1, DestroyWindowType DEF ForeignDestroy, OwnersOK
<1>3. OwnerTypeOK'
  BY DEF ForeignDestroy, ownerVars, objectVars, OwnersOK, OwnerTypeOK
<1> QED BY <1>2, <1>3 DEF OwnersOK

LEMMA OwnerStepType ==
  ASSUME OwnersOK, NEW c \in Owners, OwnerStep(c)
  PROVE  OwnersOK'
<1>1. CASE Release(c)
  <2>1. /\ ServerTypeOK'
        /\ window' \in [Owners -> Nat] /\ timestamp' \in [Owners -> Nat]
    BY <1>1, OwnerReleaseType DEF Release
  <2> QED BY <1>1, <2>1 DEF Release, OwnersOK, OwnerTypeOK
<1>2. ASSUME NEW f \in BOOLEAN, NEW k \in BOOLEAN, Claim(c, f, k)
      PROVE  OwnersOK'
  BY <1>2, ClaimType
<1> QED BY <1>1, <1>2, ClaimSendType, OnPropertyNotifyType, GotTimestampType,
           OnSelectionClearType, FinishSelectionClearType, OnDestroyNotifyType,
           OnTimerType, GoneType
        DEF OwnerStep, Delete

LEMMA WatcherStepType ==
  ASSUME OwnersOK, WatcherTypeOK, NEW c \in Watchers, WatcherStep(c),
         UNCHANGED ownerVars
  PROVE  OwnersOK' /\ WatcherTypeOK'
<1>1. OwnerTypeOK'
  BY DEF ownerVars, objectVars, OwnersOK, OwnerTypeOK
<1>2. ASSUME UNCHANGED serverVars PROVE ServerTypeOK'
  BY <1>2 DEF serverVars, OwnersOK, ServerTypeOK
<1>3. selOwner \in Nat /\ c \in Clients
  BY DEF OwnersOK, ServerTypeOK, None, Window, Clients
<1>4. ASSUME NEW r \in Nat, NEW new \in BOOLEAN, Return(c, r, new)
      PROVE  /\ step' \in [Watchers -> {"new", "idle", "read", "select", "verify"}]
             /\ current' \in [Watchers -> Nat]
             /\ err' \in [Watchers -> BOOLEAN]
             /\ onDestroy' \in [Watchers -> BOOLEAN]
             /\ told' \in [Watchers -> Nat]
  BY <1>4 DEF Return, Goto, WatcherTypeOK, None
<1>5. CASE WatcherInitCall(c)
  BY <1>1, <1>3, <1>5
     DEF WatcherInitCall, Goto, WatcherTypeOK, OwnersOK, ServerTypeOK
<1>6. CASE OwnerCall(c)
  BY <1>1, <1>2, <1>6 DEF OwnerCall, Goto, WatcherTypeOK, OwnersOK
<1>7. CASE OwnerRead(c)
  BY <1>1, <1>2, <1>3, <1>4, <1>7 DEF OwnerRead, Goto, WatcherTypeOK, OwnersOK
<1>8. CASE OwnerSelect(c)
  <2>1. mask' \in Masks
    BY <1>3, <1>8 DEF OwnerSelect, OwnersOK, ServerTypeOK, Masks
  <2>2. ServerTypeOK'
    BY <1>8, <2>1 DEF OwnerSelect, OwnersOK, ServerTypeOK, Masks
  <2> QED BY <1>1, <1>8, <2>2 DEF OwnerSelect, Goto, WatcherTypeOK, OwnersOK
<1>9. CASE OwnerVerify(c)
  <2> DEFINE r == IF OwnerUnchanged(c) THEN current[c] ELSE None
  <2>1. r \in Nat /\ OwnerUnchanged(c) \in BOOLEAN
    BY DEF WatcherTypeOK, None, OwnerUnchanged
  <2>2. Return(c, r, OwnerUnchanged(c))
    BY <1>9 DEF OwnerVerify
  <2>3. selection_owner' = [selection_owner EXCEPT ![c] = r]
    BY <1>9 DEF OwnerVerify
  <2> HIDE DEF r
  <2>4. WatcherTypeOK'
    BY <1>4, <2>1, <2>2, <2>3 DEF WatcherTypeOK
  <2> QED BY <1>1, <1>2, <1>9, <2>4 DEF OwnerVerify, OwnersOK
<1>10. ASSUME NEW type, Dispatch(c, type) PROVE ServerTypeOK'
  <2>1. queue' \in Queues
    BY <1>3, <1>10, ConsumeType DEF Dispatch, OwnersOK
  <2> QED BY <1>10, <2>1 DEF Dispatch, OwnersOK, ServerTypeOK, Queues
<1>11. CASE OnManager(c)
  BY <1>1, <1>10, <1>11 DEF OnManager, Dispatch, Goto, WatcherTypeOK, OwnersOK
<1>12. CASE OnOwnerDestroyed(c)
  <2>1. ServerTypeOK' /\ UNCHANGED <<current, err, told>>
    BY <1>10, <1>12 DEF OnOwnerDestroyed, Dispatch
  <2>2. \/ UNCHANGED <<selection_owner, step, onDestroy>>
        \/ /\ selection_owner' = [selection_owner EXCEPT ![c] = None]
           /\ onDestroy' = [onDestroy EXCEPT ![c] = TRUE]
           /\ step' = [step EXCEPT ![c] = "read"]
    BY <1>12 DEF OnOwnerDestroyed, Goto
  <2>3. /\ selection_owner' \in [Watchers -> Nat]
        /\ step' \in [Watchers -> {"new", "idle", "read", "select", "verify"}]
    BY <2>2 DEF WatcherTypeOK, None
  <2>4. onDestroy' \in [Watchers -> BOOLEAN]
    BY <2>2 DEF WatcherTypeOK
  <2>5. WatcherTypeOK'
    BY <2>1, <2>3, <2>4 DEF WatcherTypeOK
  <2> QED BY <1>1, <2>1, <2>5 DEF OwnersOK
<1> QED BY <1>5, <1>6, <1>7, <1>8, <1>9, <1>11, <1>12 DEF WatcherStep

LEMMA InitTypeOK == Init => TypeOK
<1> SUFFICES ASSUME Init PROVE TypeOK
  OBVIOUS
<1>1. ServerTypeOK
  <2>1. 1..(nextWin - 1) = {}
    BY DEF Init, ServerInit
  <2>2. /\ creator \in [1..(nextWin - 1) -> Owners]
        /\ mask \in [1..(nextWin - 1) -> SUBSET Clients]
    BY <2>1 DEF Init, ServerInit
  <2>3. queue \in [Clients -> Seq(Event)]
    BY DEF Init, ServerInit
  <2> QED BY <2>1, <2>2, <2>3
          DEF Init, ServerInit, ServerTypeOK, Window, Clients, CurrentTime
<1>2. OwnerTypeOK /\ WatcherTypeOK
  BY DEF Init, OwnerInit, OwnerTypeOK, WatcherInit, WatcherTypeOK, None, CurrentTime
<1> QED BY <1>1, <1>2, AccidentsAssumption DEF Init, TypeOK

LEMMA NextTypeOK == TypeOK /\ [Next]_vars => TypeOK'
<1> SUFFICES ASSUME TypeOK, [Next]_vars PROVE TypeOK'
  OBVIOUS
<1>1. OwnersOK
  BY DEF TypeOK, OwnersOK
<1>2. ASSUME UNCHANGED watcherVars PROVE WatcherTypeOK'
  BY <1>2 DEF TypeOK, watcherVars, WatcherTypeOK
<1>3. ASSUME NEW c \in Owners, OwnerStep(c), UNCHANGED <<watcherVars, accidents>>
      PROVE  TypeOK'
  BY <1>1, <1>2, <1>3, OwnerStepType DEF TypeOK, OwnersOK
<1>4. ASSUME NEW c \in Watchers, WatcherStep(c), UNCHANGED <<ownerVars, accidents>>
      PROVE  TypeOK'
  BY <1>1, <1>4, WatcherStepType DEF TypeOK, OwnersOK
<1>5. CASE Accident
  <2>1. OwnersOK'
    BY <1>1, <1>5, GoneType, ForeignDestroyType DEF Accident, Crash
  <2>2. accidents' \in 0..MaxAccidents
    BY <1>5, AccidentsAssumption DEF Accident, TypeOK
  <2> QED BY <1>2, <1>5, <2>1, <2>2 DEF Accident, TypeOK, OwnersOK
<1>6. CASE UNCHANGED vars
  BY <1>6 DEF vars, serverVars, ownerVars, objectVars, watcherVars, TypeOK,
     ServerTypeOK, OwnerTypeOK, WatcherTypeOK
<1> QED BY <1>3, <1>4, <1>5, <1>6 DEF Next

\* The server never names a dead window as the owner of the selection and no
\* window id is used twice, and the fields of the objects keep their types.
THEOREM TypeCorrect == Spec => []TypeOK
BY InitTypeOK, NextTypeOK, PTL DEF Spec


-----------------------------------------------------------------------------
(* Event queues                                                            *)

Events(q) == {q[i] : i \in DOMAIN q}

\* No SelectionClear follows the PropertyNotify of window w.
ClearsBefore(q, w) ==
  \A i, j \in DOMAIN q :
    i < j /\ q[i].type = "PropertyNotify" /\ q[i].window = w
      => q[j].type # "SelectionClear"

LEMMA HasIsEvent == \A c, e : Has(c, e) <=> e \in Events(queue[c])
BY DEF Has, Events

LEMMA EventsOfQueue ==
  ASSUME NEW q \in Seq(Event)
  PROVE  Events(q) \subseteq Event
BY DEF Events

LEMMA EventsAppend ==
  ASSUME NEW q \in Seq(Event), NEW e \in Event
  PROVE  /\ Append(q, e) \in Seq(Event)
         /\ Events(Append(q, e)) = Events(q) \cup {e}
         /\ e.type # "SelectionClear" =>
              \A w : ClearsBefore(q, w) => ClearsBefore(Append(q, e), w)
<1> DEFINE a == Append(q, e)
<1>1. /\ a \in Seq(Event) /\ Len(a) = Len(q) + 1 /\ DOMAIN a = 1..Len(a)
      /\ DOMAIN q = 1..Len(q) /\ Len(q) \in Nat
      /\ \A i \in 1..Len(q) : a[i] = q[i]
      /\ a[Len(q) + 1] = e
  OBVIOUS
<1> HIDE DEF a
<1>2. Events(a) = Events(q) \cup {e}
  <2>1. Events(a) \subseteq Events(q) \cup {e}
    BY <1>1 DEF Events
  <2>2. Events(q) \subseteq Events(a)
    BY <1>1 DEF Events
  <2>3. e \in Events(a)
    BY <1>1 DEF Events
  <2> QED BY <2>1, <2>2, <2>3
<1>3. ASSUME e.type # "SelectionClear", NEW w, ClearsBefore(q, w)
      PROVE  ClearsBefore(a, w)
  BY <1>1, <1>3 DEF ClearsBefore
<1> QED BY <1>1, <1>2, <1>3 DEF a

LEMMA EventsTail ==
  ASSUME NEW q \in Seq(Event), q # <<>>
  PROVE  /\ Tail(q) \in Seq(Event) /\ Head(q) \in Event
         /\ Events(q) = {Head(q)} \cup Events(Tail(q))
         /\ \A w : ClearsBefore(q, w) => ClearsBefore(Tail(q), w)
<1> DEFINE t == Tail(q)
<1>1. /\ t \in Seq(Event) /\ Len(t) = Len(q) - 1 /\ DOMAIN t = 1..Len(t)
      /\ DOMAIN q = 1..Len(q) /\ Len(q) \in Nat /\ Len(q) > 0
      /\ \A i \in 1..Len(t) : t[i] = q[i + 1]
      /\ Head(q) = q[1] /\ Head(q) \in Event
  OBVIOUS
<1> HIDE DEF t
<1>2. Events(q) = {Head(q)} \cup Events(t)
  <2>1. Events(t) \subseteq Events(q)
    BY <1>1 DEF Events
  <2>2. ASSUME NEW i \in DOMAIN q, i # 1 PROVE q[i] \in Events(t)
    <3>1. i - 1 \in DOMAIN t /\ t[i - 1] = q[i]
      BY <1>1, <2>2
    <3> QED BY <3>1 DEF Events
  <2>3. q[1] \in Events(q)
    BY <1>1 DEF Events
  <2> QED BY <1>1, <2>1, <2>2, <2>3 DEF Events
<1>3. ASSUME NEW w, ClearsBefore(q, w) PROVE ClearsBefore(t, w)
  <2> SUFFICES ASSUME NEW i \in 1..Len(t), NEW j \in 1..Len(t), i < j,
                      t[i].type = "PropertyNotify", t[i].window = w
               PROVE  t[j].type # "SelectionClear"
    BY <1>1 DEF ClearsBefore
  <2>1. i + 1 \in DOMAIN q /\ j + 1 \in DOMAIN q /\ i + 1 < j + 1
    BY <1>1
  <2>2. t[i] = q[i + 1] /\ t[j] = q[j + 1]
    BY <1>1
  <2> QED BY <1>3, <2>1, <2>2 DEF ClearsBefore
<1> QED BY <1>1, <1>2, <1>3 DEF t

\* The event after which no SelectionClear may follow is the first.
LEMMA NoClearInTail ==
  ASSUME NEW q \in Seq(Event), q # <<>>, NEW w, ClearsBefore(q, w),
         Head(q).type = "PropertyNotify", Head(q).window = w
  PROVE  \A e \in Events(Tail(q)) : e.type # "SelectionClear"
<1>1. /\ DOMAIN q = 1..Len(q) /\ Len(q) \in Nat /\ Len(q) > 0
      /\ DOMAIN Tail(q) = 1..(Len(q) - 1)
      /\ \A i \in 1..(Len(q) - 1) : Tail(q)[i] = q[i + 1]
      /\ Head(q) = q[1]
  OBVIOUS
<1> QED BY <1>1 DEF Events, ClearsBefore

-----------------------------------------------------------------------------
(* The inductive invariant                                                 *)

\* The ids an object holds are in use, and it created the windows it calls
\* its own; the previous owner's window is another object's.
Numbered(c) ==
  /\ window[c] < nextWin /\ lostWindow[c] < nextWin /\ prev_owner[c] < nextWin
  /\ window[c] # None => creator[window[c]] = c
  /\ lostWindow[c] # None => creator[lostWindow[c]] = c
  /\ prev_owner[c] # None => creator[prev_owner[c]] # c

\* Where the object is in claim(), gotTimestamp() and filterEvent() fixes what
\* it says of its ownership.
Consistent(c) ==
  /\ state[c] = "WaitingForTimestamp"
       => timestamp[c] = CurrentTime /\ window[c] \notin {None, lostWindow[c]}
  /\ call[c] = "claim" => timestamp[c] = CurrentTime
  /\ call[c] = "verify" => timestamp[c] # CurrentTime
  /\ lostWindow[c] # None => timestamp[c] = CurrentTime
  /\ timestamp[c] # CurrentTime => window[c] # None

\* A DestroyNotify is about a window that is gone, and MANAGER messages go to
\* watchers.
Queued(c) ==
  \A e \in Events(queue[c]) :
    /\ e.type # "Manager" /\ e.window < nextWin
    /\ e.type = "DestroyNotify" => e.window \notin live

\* A window that exists but is neither owned nor being claimed for is the one
\* lostOwnership() is being emitted for.
Given(c) ==
  timestamp[c] = CurrentTime /\ state[c] # "WaitingForTimestamp"
    /\ window[c] \in live => window[c] = lostWindow[c]

\* The object hears of the end of the window it uses.
Watched(c) ==
  (timestamp[c] # CurrentTime \/ state[c] = "WaitingForTimestamp")
    /\ window[c] \in live => c \in mask[window[c]]

\* Every SelectionClear an owner has not handled is about its window.
ClearsCurrent(c) ==
  timestamp[c] # CurrentTime =>
    \A e \in Events(queue[c]) :
      e.type = "SelectionClear" => e.window = window[c] /\ selOwner # window[c]

\* One from an earlier claim is handled before the new claim is made.
ClearsFirst(c) ==
  state[c] = "WaitingForTimestamp" => ClearsBefore(queue[c], window[c])

\* An object that says it owns the selection does, or is about to be told;
\* that is so even before its own claim is verified, once another claim has
\* found it to be the owner.
Told(c) ==
  timestamp[c] # CurrentTime
    /\ (call[c] = "none" \/ \E d \in Owners : prev_owner[d] = window[c])
  => \/ selOwner = window[c]
     \/ SelectionClear(window[c]) \in Events(queue[c])
     \/ DestroyNotify(window[c]) \in Events(queue[c])

\* Nobody has found a window to be the owner before it is claimed for.
NotPrevious(c) ==
  state[c] = "WaitingForTimestamp" => \A d \in Owners : prev_owner[d] # window[c]

\* The timer runs once the previous owner has lost the selection.
PreviousLost(c) ==
  timer[c] /\ prev_owner[c] # None => selOwner # prev_owner[c]

ObjectInv(c) ==
  /\ Numbered(c) /\ Consistent(c) /\ Queued(c) /\ NotPrevious(c)
  /\ c \in connected => /\ Given(c) /\ Watched(c) /\ ClearsCurrent(c)
                        /\ ClearsFirst(c) /\ Told(c) /\ PreviousLost(c)

\* Every window is one its creator, still there, will destroy.
LiveWindows ==
  \A w \in live : /\ creator[w] \in connected
                  /\ w \in {window[creator[w]], lostWindow[creator[w]]}

\* The object that owns the selection knows it.
OwnerKnows ==
  selOwner # None => /\ timestamp[creator[selOwner]] # CurrentTime
                     /\ window[creator[selOwner]] = selOwner

OwnershipInv ==
  (\A c \in Owners : ObjectInv(c)) /\ LiveWindows /\ OwnerKnows

\* With it the invariants about types and about pending claims.
FullInv == TypeOK /\ ClaimInv /\ OwnershipInv

\* What types say of windows and queues.
LEMMA WindowFacts ==
  ASSUME ServerTypeOK
  PROVE  /\ nextWin \in Nat /\ nextWin # None
         /\ \A w \in live : w \in Nat /\ w # None /\ w < nextWin
         /\ selOwner # None => selOwner \in live
         /\ \A w \in Nat : w # None /\ w < nextWin =>
              creator[w] \in Owners /\ mask[w] \subseteq Clients
         /\ \A c \in Owners : c \in Clients /\ c \notin Watchers
         /\ \A c \in Clients : queue[c] \in Seq(Event)
<1>1. \A w \in 1..(nextWin - 1) : creator[w] \in Owners /\ mask[w] \subseteq Clients
  BY DEF ServerTypeOK
<1>2. nextWin \in Nat /\ nextWin # 0 /\ live \subseteq 1..(nextWin - 1)
  BY DEF ServerTypeOK, Window
<1>3. \A w \in Nat : w # None /\ w < nextWin => w \in 1..(nextWin - 1)
  BY <1>2 DEF None
<1>4. \A w \in live : w \in Nat /\ w # None /\ w < nextWin
  BY <1>2 DEF None
<1>5. \A c \in Owners : c \in Clients /\ c \notin Watchers
  BY ClientsAssumption DEF Clients
<1> QED BY <1>1, <1>2, <1>3, <1>4, <1>5 DEF ServerTypeOK, None

LEMMA Implied ==
  FullInv => /\ OwnershipIsReal /\ ClearIsNeverStale /\ NoWindowLeak
             /\ KillsOnlyUnresponsive
<1> SUFFICES ASSUME FullInv
             PROVE  /\ OwnershipIsReal /\ ClearIsNeverStale /\ NoWindowLeak
                    /\ KillsOnlyUnresponsive
  OBVIOUS
<1>1. ASSUME NEW c \in Owners PROVE ObjectInv(c) /\ queue[c] \in Seq(Event)
  BY DEF FullInv, OwnershipInv, TypeOK, ServerTypeOK, Clients
<1>2. OwnershipIsReal
  BY <1>1, HasIsEvent DEF OwnershipIsReal, LossPending, ObjectInv, Told
<1>3. ClearIsNeverStale
  <2> SUFFICES ASSUME NEW c \in connected \cap Owners, queue[c] # <<>>,
                      Head(queue[c]).type = "SelectionClear",
                      timestamp[c] # CurrentTime
               PROVE  /\ Head(queue[c]).window = window[c]
                      /\ selOwner # window[c]
    BY DEF ClearIsNeverStale
  <2>1. Head(queue[c]) \in Events(queue[c])
    BY <1>1, EventsTail
  <2> QED BY <1>1, <2>1 DEF ObjectInv, ClearsCurrent
<1>4. NoWindowLeak
  BY DEF FullInv, OwnershipInv, LiveWindows, NoWindowLeak
<1>5. KillsOnlyUnresponsive
  <2> SUFFICES ASSUME NEW c \in connected \cap Owners, timer[c],
                      prev_owner[c] \in live
               PROVE  LET p == prev_owner[c]
                          v == creator[p] IN
                      v # c /\ (Has(v, SelectionClear(p)) \/ lostWindow[v] = p)
    BY DEF KillsOnlyUnresponsive
  <2> DEFINE p == prev_owner[c]
             v == creator[p]
  <2>1. p # None /\ v \in Owners
    BY WindowFacts DEF FullInv, TypeOK
  <2>2. v # c
    BY <1>1, <2>1 DEF ObjectInv, Numbered
  <2>3. v \in connected /\ p \in {window[v], lostWindow[v]}
    BY DEF FullInv, OwnershipInv, LiveWindows
  <2>4. ASSUME p # lostWindow[v] PROVE Has(v, SelectionClear(p))
    <3>1. p = window[v]
      BY <2>3, <2>4
    <3>2. timestamp[v] # CurrentTime
      BY <1>1, <2>1, <2>3, <2>4, <3>1 DEF ObjectInv, NotPrevious, Given
    <3>3. \/ selOwner = p \/ SelectionClear(p) \in Events(queue[v])
          \/ DestroyNotify(p) \in Events(queue[v])
      BY <1>1, <2>1, <2>3, <3>1, <3>2 DEF ObjectInv, Told
    <3>4. selOwner # p
      BY <1>1, <2>1 DEF ObjectInv, PreviousLost
    <3>5. DestroyNotify(p) \notin Events(queue[v])
      BY <1>1, <2>1 DEF ObjectInv, Queued, DestroyNotify
    <3> QED BY <3>3, <3>4, <3>5, HasIsEvent
  <2> QED BY <2>2, <2>4
<1> QED BY <1>2, <1>3, <1>4, <1>5

-----------------------------------------------------------------------------
(* What an object sees of a step that is not its own                       *)

\* The fields of object d stay, unless its wait for the previous owner ends.
FieldsKept(d) ==
  /\ \/ state'[d] = state[d] /\ timer'[d] = timer[d]
     \/ /\ state[d] = "WaitingForPreviousOwner" /\ state'[d] = "Idle"
        /\ ~timer'[d]
  /\ window'[d] = window[d] /\ prev_owner'[d] = prev_owner[d]
  /\ timestamp'[d] = timestamp[d] /\ call'[d] = call[d]
  /\ lostWindow'[d] = lostWindow[d]

\* New windows get new ids; d stays connected or not, the events selected on
\* windows that stay are still selected.
WindowsKept(d) ==
  /\ nextWin <= nextWin'
  /\ \A w \in Nat : w # None /\ w < nextWin => creator'[w] = creator[w]
  /\ d \in connected' => d \in connected
  /\ \A w \in live' : /\ w \in live \/ nextWin <= w
                      /\ d \in connected' /\ w \in live /\ d \in mask[w]
                           => d \in mask'[w]

\* The selection changes hands only to an object that is claiming it.
SelectionMoves(d) ==
  \/ selOwner' \in {selOwner, None}
  \/ \E c \in Owners \ {d} : /\ state[c] = "WaitingForTimestamp"
                             /\ window[c] = selOwner'

\* Events arrive that tell of it.
EventsArrive(d) ==
  /\ \A e \in Events(queue'[d]) :
       \/ e \in Events(queue[d])
       \/ \E w \in Nat : e = DestroyNotify(w) /\ w < nextWin /\ w \notin live'
       \/ /\ e = SelectionClear(selOwner) /\ selOwner # None
          /\ creator[selOwner] = d /\ selOwner' # selOwner
  /\ d \in connected' =>
       /\ Events(queue[d]) \subseteq Events(queue'[d])
       /\ state[d] = "WaitingForTimestamp" /\ ClearsBefore(queue[d], window[d])
            => ClearsBefore(queue'[d], window[d])
       /\ timestamp[d] # CurrentTime /\ window[d] = selOwner /\ selOwner' # selOwner
            => \/ SelectionClear(window[d]) \in Events(queue'[d])
               \/ DestroyNotify(window[d]) \in Events(queue'[d])

Meanwhile(d) ==
  /\ FieldsKept(d) /\ WindowsKept(d) /\ SelectionMoves(d) /\ EventsArrive(d)
  /\ \A c \in Owners : prev_owner'[c] \in {prev_owner[c], None, selOwner'}

LEMMA BystanderInv ==
  ASSUME ServerTypeOK, ServerTypeOK', OwnerTypeOK, OwnershipInv,
         NEW d \in Owners, Meanwhile(d)
  PROVE  ObjectInv(d)'
<1> USE DEF Meanwhile, FieldsKept
<1>1. /\ \A c \in Owners : ObjectInv(c)
      /\ \A c \in Owners : window[c] \in Nat /\ lostWindow[c] \in Nat /\ prev_owner[c] \in Nat
      /\ nextWin \in Nat /\ nextWin' \in Nat
  BY WindowFacts DEF OwnershipInv, OwnerTypeOK, ServerTypeOK, Window
<1>2. ASSUME NEW w \in live', w \in Nat, w < nextWin PROVE w \in live
  BY <1>1, <1>2 DEF WindowsKept
<1>3. nextWin <= nextWin' /\ (d \in connected' => d \in connected)
  BY DEF WindowsKept
<1>4. selOwner # None => selOwner \in Nat /\ creator[selOwner] \in Owners
        /\ window[creator[selOwner]] = selOwner
        /\ timestamp[creator[selOwner]] # CurrentTime
  BY WindowFacts DEF OwnershipInv, OwnerKnows
\* A window of d is not one that another object is claiming for.
<1>5. ASSUME selOwner' = window[d], window[d] # None
      PROVE  selOwner = window[d] /\ timestamp[d] # CurrentTime
  <2>1. ASSUME NEW c \in Owners \ {d} PROVE window[c] # window[d]
    BY <1>1, <1>5, <2>1 DEF ObjectInv, Numbered
  <2>2. selOwner = window[d]
    BY <1>5, <2>1 DEF SelectionMoves
  <2>3. creator[selOwner] = d
    BY <1>1, <1>5, <2>2 DEF ObjectInv, Numbered
  <2> QED BY <1>4, <1>5, <2>2, <2>3
<1>6. Numbered(d)'
  <2>1. Numbered(d)
    BY <1>1 DEF ObjectInv
  <2>2. /\ window'[d] < nextWin' /\ lostWindow'[d] < nextWin' /\ prev_owner'[d] < nextWin'
    BY <1>1, <1>3, <2>1 DEF Numbered, WindowsKept, OwnerTypeOK
  <2>3. /\ window[d] # None => creator'[window[d]] = creator[window[d]]
        /\ lostWindow[d] # None => creator'[lostWindow[d]] = creator[lostWindow[d]]
        /\ prev_owner[d] # None => creator'[prev_owner[d]] = creator[prev_owner[d]]
    BY <1>1, <2>1 DEF Numbered, WindowsKept
  <2> QED BY <2>1, <2>2, <2>3 DEF Numbered
<1>7. Consistent(d)'
  BY <1>1 DEF ObjectInv, Consistent
<1>8. Queued(d)'
  <2> SUFFICES ASSUME NEW e \in Events(queue'[d])
               PROVE  /\ e.type # "Manager" /\ e.window < nextWin'
                      /\ e.type = "DestroyNotify" => e.window \notin live'
    BY DEF Queued
  <2>1. CASE e \in Events(queue[d])
    <3>1. /\ e.type # "Manager" /\ e.window < nextWin
          /\ e.type = "DestroyNotify" => e.window \notin live
      BY <1>1, <2>1 DEF ObjectInv, Queued
    <3>2. e \in Event
      BY <2>1, WindowFacts, EventsOfQueue
    <3>3. e.window \in Nat
      BY <3>1, <3>2 DEF Event, Window
    <3> QED BY <1>1, <1>2, <1>3, <3>1, <3>3
  <2>2. ASSUME NEW w \in Nat, e = DestroyNotify(w), w < nextWin, w \notin live'
        PROVE  /\ e.type # "Manager" /\ e.window < nextWin'
               /\ e.type = "DestroyNotify" => e.window \notin live'
    BY <1>1, <1>3, <2>2 DEF DestroyNotify
  <2>3. ASSUME e = SelectionClear(selOwner), selOwner # None
        PROVE  /\ e.type # "Manager" /\ e.window < nextWin'
               /\ e.type = "DestroyNotify" => e.window \notin live'
    BY <1>1, <1>3, <2>3, WindowFacts DEF SelectionClear
  <2> QED BY <2>1, <2>2, <2>3 DEF EventsArrive
<1>9. NotPrevious(d)'
  <2> SUFFICES ASSUME state[d] = "WaitingForTimestamp", NEW c \in Owners
               PROVE  prev_owner'[c] # window[d]
    BY DEF NotPrevious
  <2>1. /\ prev_owner[c] # window[d] /\ window[d] # None
        /\ timestamp[d] = CurrentTime
    BY <1>1 DEF ObjectInv, NotPrevious, Consistent
  <2> QED BY <1>5, <2>1
<1>10. ASSUME d \in connected' PROVE Given(d)' /\ Watched(d)'
  <2>1. Given(d) /\ Watched(d) /\ Numbered(d)
    BY <1>1, <1>3, <1>10 DEF ObjectInv
  <2>2. window[d] \in live' => window[d] \in live
    BY <1>1, <1>2, <2>1 DEF Numbered
  <2>3. window[d] \in live' /\ d \in mask[window[d]] => d \in mask'[window[d]]
    BY <1>10, <2>2 DEF WindowsKept
  <2> QED BY <2>1, <2>2, <2>3 DEF Given, Watched
<1>11. ASSUME d \in connected' PROVE ClearsCurrent(d)'
  <2> SUFFICES ASSUME timestamp[d] # CurrentTime, NEW e \in Events(queue'[d]),
                      e.type = "SelectionClear"
               PROVE  e.window = window[d] /\ selOwner' # window[d]
    BY DEF ClearsCurrent
  <2>1. window[d] # None
    BY <1>1 DEF ObjectInv, Consistent
  <2>2. CASE e \in Events(queue[d])
    BY <1>1, <1>3, <1>5, <1>11, <2>1, <2>2 DEF ObjectInv, ClearsCurrent
  <2>3. ASSUME e = SelectionClear(selOwner), selOwner # None,
               creator[selOwner] = d, selOwner' # selOwner
        PROVE  e.window = window[d] /\ selOwner' # window[d]
    BY <1>4, <2>3 DEF SelectionClear
  <2> QED BY <2>2, <2>3 DEF EventsArrive, DestroyNotify
<1>12. ASSUME d \in connected' PROVE ClearsFirst(d)'
  BY <1>1, <1>3, <1>12 DEF ObjectInv, ClearsFirst, EventsArrive
<1>13. ASSUME d \in connected' PROVE Told(d)'
  <2> SUFFICES ASSUME timestamp[d] # CurrentTime, selOwner' # window[d],
                      call[d] = "none" \/ \E c \in Owners : prev_owner'[c] = window[d]
               PROVE  \/ SelectionClear(window[d]) \in Events(queue'[d])
                      \/ DestroyNotify(window[d]) \in Events(queue'[d])
    BY DEF Told
  <2>1. window[d] # None
    BY <1>1 DEF ObjectInv, Consistent
  <2>2. call[d] = "none" \/ \E c \in Owners : prev_owner[c] = window[d]
    BY <2>1
  <2>3. \/ selOwner = window[d]
        \/ SelectionClear(window[d]) \in Events(queue[d])
        \/ DestroyNotify(window[d]) \in Events(queue[d])
    BY <1>1, <1>3, <1>13, <2>2 DEF ObjectInv, Told
  <2> QED BY <1>13, <2>3 DEF EventsArrive
<1>14. ASSUME d \in connected' PROVE PreviousLost(d)'
  <2> SUFFICES ASSUME timer[d], prev_owner[d] # None
               PROVE  selOwner' # prev_owner[d]
    BY DEF PreviousLost
  <2>1. selOwner # prev_owner[d]
    BY <1>1, <1>3, <1>14 DEF ObjectInv, PreviousLost
  <2>2. \A c \in Owners : state[c] = "WaitingForTimestamp" => window[c] # prev_owner[d]
    BY <1>1 DEF ObjectInv, NotPrevious
  <2> QED BY <2>1, <2>2 DEF SelectionMoves
<1> QED BY <1>6, <1>7, <1>8, <1>9, <1>10, <1>11, <1>12, <1>13, <1>14 DEF ObjectInv

-----------------------------------------------------------------------------
(* The requests as seen by the clients                                     *)

\* Who hears of the end of a window.
LEMMA NotifyDestroyedEvents ==
  ASSUME ServerTypeOK, NEW q \in Queues, NEW w, NEW m, NEW d \in Clients
  PROVE  /\ w \in live /\ d \in m[w] \cap connected =>
              Events(NotifyDestroyed(q, w, m)[d]) = Events(q[d]) \cup {DestroyNotify(w)}
         /\ ~(w \in live /\ d \in m[w] \cap connected) =>
              Events(NotifyDestroyed(q, w, m)[d]) = Events(q[d])
         /\ \A x : ClearsBefore(q[d], x) =>
                   ClearsBefore(NotifyDestroyed(q, w, m)[d], x)
<1>1. q[d] \in Seq(Event)
  BY DEF Queues
<1>2. CASE w \in live /\ d \in m[w] \cap connected
  <2>1. DestroyNotify(w) \in Event /\ DestroyNotify(w).type # "SelectionClear"
    BY <1>2, WindowFacts, EventTypes DEF Window, None, DestroyNotify
  <2>2. NotifyDestroyed(q, w, m)[d] = Append(q[d], DestroyNotify(w))
    BY <1>2 DEF NotifyDestroyed
  <2> QED BY <1>1, <1>2, <2>1, <2>2, EventsAppend
<1>3. CASE ~(w \in live /\ d \in m[w] \cap connected)
  BY <1>3 DEF NotifyDestroyed
<1> QED BY <1>2, <1>3

\* A MANAGER message does not reach an owner.
LEMMA BroadcastToOwner ==
  \A c \in Owners : \A q : Broadcast(q)[c] = q[c]
BY ClientsAssumption DEF Broadcast, Clients

PreviousOwnersKept ==
  \A c \in Owners : prev_owner'[c] \in {prev_owner[c], None, selOwner'}

\* Another object, or another program, destroys a window.
LEMMA DestroyWindowMeanwhile ==
  ASSUME ServerTypeOK, OwnershipInv, NEW d \in Owners, NEW w, NEW m \in Masks,
         DestroyWindow(queue, w, m),
         \A x \in live : d \in mask[x] => d \in m[x],
         UNCHANGED <<connected, creator, nextWin>>,
         FieldsKept(d), PreviousOwnersKept
  PROVE  Meanwhile(d)
<1> DEFINE hears == w \in live /\ d \in m[w] \cap connected
<1>1. /\ hears => Events(queue'[d]) = Events(queue[d]) \cup {DestroyNotify(w)}
      /\ ~hears => Events(queue'[d]) = Events(queue[d])
      /\ \A x : ClearsBefore(queue[d], x) => ClearsBefore(queue'[d], x)
  <2>1. queue \in Queues /\ d \in Clients /\ queue' = NotifyDestroyed(queue, w, m)
    BY WindowFacts DEF DestroyWindow, ServerTypeOK, Queues
  <2>2. ASSUME hears
        PROVE  Events(NotifyDestroyed(queue, w, m)[d])
                 = Events(queue[d]) \cup {DestroyNotify(w)}
    BY <2>1, <2>2, NotifyDestroyedEvents
  <2>3. ASSUME ~hears
        PROVE  Events(NotifyDestroyed(queue, w, m)[d]) = Events(queue[d])
    BY <2>1, <2>3, NotifyDestroyedEvents
  <2>4. \A x : ClearsBefore(queue[d], x) =>
                ClearsBefore(NotifyDestroyed(queue, w, m)[d], x)
    BY <2>1, NotifyDestroyedEvents
  <2> HIDE DEF hears
  <2> QED BY <2>1, <2>2, <2>3, <2>4
<1>2. /\ live' = live \ {w}
      /\ mask' = [x \in DOMAIN mask |-> IF x = w THEN {} ELSE m[x]]
      /\ selOwner' = IF selOwner = w THEN None ELSE selOwner
  BY DEF DestroyWindow
<1>3. WindowsKept(d)
  <2>1. \A x \in live : x \in DOMAIN mask
    BY DEF ServerTypeOK
  <2>2. nextWin' = nextWin /\ nextWin \in Nat
    BY WindowFacts
  <2> QED BY <1>2, <2>1, <2>2 DEF WindowsKept
<1>4. SelectionMoves(d)
  BY <1>2 DEF SelectionMoves
<1>5. EventsArrive(d)
  <2>1. ASSUME NEW e \in Events(queue'[d]), e \notin Events(queue[d])
        PROVE  \E x \in Nat : e = DestroyNotify(x) /\ x < nextWin /\ x \notin live'
    BY <1>1, <1>2, <2>1, WindowFacts
  <2>2. ASSUME d \in connected', timestamp[d] # CurrentTime,
               window[d] = selOwner, selOwner' # selOwner
        PROVE  DestroyNotify(window[d]) \in Events(queue'[d])
    <3>1. selOwner = w /\ selOwner # None
      BY <1>2, <2>2
    <3>2. w \in live /\ d \in mask[w]
      BY <2>2, <3>1, WindowFacts DEF OwnershipInv, ObjectInv, Watched
    <3> QED BY <1>1, <2>2, <3>1, <3>2
  <2> QED BY <1>1, <2>1, <2>2 DEF EventsArrive
<1> QED BY <1>3, <1>4, <1>5 DEF Meanwhile, PreviousOwnersKept

\* The connection of v closes.
LEMMA CloseDownMeanwhile ==
  ASSUME ServerTypeOK, OwnershipInv, NEW d \in Owners, NEW v \in Owners,
         CloseDown(v, lostWindow[v], window[v]),
         queue'[d] = CloseDownQueues(v, lostWindow[v], window[v])[d],
         UNCHANGED <<creator, nextWin>>,
         FieldsKept(d), PreviousOwnersKept
  PROVE  Meanwhile(d)
<1> DEFINE o == lostWindow[v]
           n == window[v]
           one == NotifyDestroyed(queue, o, mask)
           two == NotifyDestroyed(one, n, mask)
<1>1. /\ live' = live \ {o, n} /\ connected' = connected \ {v}
      /\ mask' = [x \in DOMAIN mask |-> IF x \in {o, n} THEN {} ELSE mask[x] \ {v}]
      /\ selOwner' = IF selOwner \in {o, n} THEN None ELSE selOwner
  BY DEF CloseDown
<1>2. queue'[d] = IF d = v THEN <<>> ELSE two[d]
  BY WindowFacts DEF CloseDownQueues
<1>3. /\ Events(queue[d]) \subseteq Events(two[d])
      /\ Events(two[d]) \subseteq
           Events(queue[d]) \cup {DestroyNotify(x) : x \in {o, n} \cap live}
      /\ \A x : ClearsBefore(queue[d], x) => ClearsBefore(two[d], x)
  <2>1. queue \in Queues /\ one \in Queues /\ d \in Clients
    BY NotifyDestroyedType, WindowFacts DEF ServerTypeOK, Queues
  <2> HIDE DEF one
  <2>2. /\ Events(queue[d]) \subseteq Events(one[d])
        /\ Events(one[d]) \subseteq
             Events(queue[d]) \cup {DestroyNotify(x) : x \in {o} \cap live}
        /\ \A x : ClearsBefore(queue[d], x) => ClearsBefore(one[d], x)
    <3>1. \/ Events(one[d]) = Events(queue[d])
          \/ o \in live /\ Events(one[d]) = Events(queue[d]) \cup {DestroyNotify(o)}
      BY <2>1, NotifyDestroyedEvents DEF one
    <3>2. \A x : ClearsBefore(queue[d], x) => ClearsBefore(one[d], x)
      BY <2>1, NotifyDestroyedEvents DEF one
    <3> QED BY <3>1, <3>2
  <2>3. /\ Events(one[d]) \subseteq Events(two[d])
        /\ Events(two[d]) \subseteq
             Events(one[d]) \cup {DestroyNotify(x) : x \in {n} \cap live}
        /\ \A x : ClearsBefore(one[d], x) => ClearsBefore(two[d], x)
    <3>1. \/ Events(two[d]) = Events(one[d])
          \/ n \in live /\ Events(two[d]) = Events(one[d]) \cup {DestroyNotify(n)}
      BY <2>1, NotifyDestroyedEvents
    <3>2. \A x : ClearsBefore(one[d], x) => ClearsBefore(two[d], x)
      BY <2>1, NotifyDestroyedEvents
    <3> QED BY <3>1, <3>2
  <2> HIDE DEF two
  <2> QED BY <2>2, <2>3
<1> HIDE DEF two
<1>4. Events(<<>>) = {}
  BY DEF Events
<1>5. WindowsKept(d)
  <2>1. \A x \in live : x \in DOMAIN mask
    BY DEF ServerTypeOK
  <2>2. nextWin' = nextWin /\ nextWin \in Nat
    BY WindowFacts
  <2> QED BY <1>1, <2>1, <2>2 DEF WindowsKept
<1>6. SelectionMoves(d)
  BY <1>1 DEF SelectionMoves
<1>7. EventsArrive(d)
  <2>1. ASSUME NEW e \in Events(queue'[d]), e \notin Events(queue[d])
        PROVE  \E x \in Nat : e = DestroyNotify(x) /\ x < nextWin /\ x \notin live'
    BY <1>1, <1>2, <1>3, <1>4, <2>1, WindowFacts
  <2>2. ASSUME d \in connected', window[d] = selOwner
        PROVE  selOwner' = selOwner
    <3>1. d # v
      BY <1>1, <2>2
    <3>2. selOwner \notin {o, n} \/ selOwner = None
      BY <2>2, <3>1 DEF OwnershipInv, ObjectInv, Numbered
    <3> QED BY <1>1, <3>2
  <2>3. ASSUME d \in connected' PROVE queue'[d] = two[d]
    BY <1>1, <1>2, <2>3
  <2> QED BY <1>3, <2>1, <2>2, <2>3 DEF EventsArrive
<1> QED BY <1>5, <1>6, <1>7 DEF Meanwhile, PreviousOwnersKept

\* A step that neither sends an event to d nor touches a window.
LEMMA QuietMeanwhile ==
  ASSUME ServerTypeOK, NEW d \in Owners, queue'[d] = queue[d],
         UNCHANGED <<live, creator, nextWin, selOwner>>,
         d \in connected' => d \in connected,
         \A x \in live : d \in mask[x] => d \in mask'[x],
         FieldsKept(d), PreviousOwnersKept
  PROVE  Meanwhile(d)
BY WindowFacts
   DEF Meanwhile, WindowsKept, SelectionMoves, EventsArrive, PreviousOwnersKept

\* The queues once c has taken its first event.
LEMMA ConsumeEvents ==
  ASSUME ServerTypeOK, NEW c \in Owners, queue[c] # <<>>
  PROVE  /\ Consume(c) \in Queues /\ Consume(c)[c] = Tail(queue[c])
         /\ \A d \in Owners \ {c} : Consume(c)[d] = queue[d]
         /\ Head(queue[c]) \in Event
         /\ Head(queue[c]) \in Events(queue[c])
         /\ Events(queue[c]) = {Head(queue[c])} \cup Events(Tail(queue[c]))
         /\ \A w : ClearsBefore(queue[c], w) => ClearsBefore(Tail(queue[c]), w)
<1>1. c \in Clients /\ queue[c] \in Seq(Event) /\ Owners \subseteq Clients
  BY WindowFacts DEF Clients
<1>2. Consume(c) \in Queues /\ Head(queue[c]) \in Event
  BY <1>1, ConsumeType
<1>3. Consume(c)[c] = Tail(queue[c]) /\ \A d \in Owners \ {c} : Consume(c)[d] = queue[d]
  BY <1>1 DEF Consume, ServerTypeOK
<1> QED BY <1>1, <1>2, <1>3, EventsTail

-----------------------------------------------------------------------------
(* The steps of an owner                                                   *)

\* What every lemma about a step starts from.
Before == TypeOK /\ ServerTypeOK' /\ ClaimInv /\ OwnershipInv

LEMMA BeforeFacts ==
  Before =>
    /\ ServerTypeOK /\ ServerTypeOK' /\ OwnerTypeOK /\ OwnershipInv
    /\ \A c \in Owners : /\ ObjectInv(c)
                         /\ window[c] \in Nat /\ lostWindow[c] \in Nat
                         /\ prev_owner[c] \in Nat
                         /\ timer[c] <=> state[c] = "WaitingForPreviousOwner"
                         /\ call[c] # "none" => state[c] = "Idle"
BY DEF Before, TypeOK, OwnerTypeOK, ClaimInv, ClaimAnsweredOnce, IdleInCalls,
   OwnershipInv

\* What every lemma about a step has to show.
LEMMA Assembled ==
  ASSUME Before, NEW c \in Owners, ObjectInv(c)',
         \A d \in Owners \ {c} : Meanwhile(d), LiveWindows', OwnerKnows'
  PROVE  OwnershipInv'
BY BeforeFacts, BystanderInv DEF OwnershipInv

\* release(), also from claim() and gotTimestamp().
LEMMA ReleaseInv ==
  ASSUME Before, NEW c \in Owners, c \in connected,
         timestamp[c] # CurrentTime,
         DestroyWindow(queue, window[c], mask), ReleaseFields(c),
         \A d \in Owners \ {c} : prev_owner'[d] = prev_owner[d] /\ call'[d] = call[d],
         \/ prev_owner'[c] = prev_owner[c]
         \/ prev_owner'[c] = selOwner' /\ ~timer[c],
         call'[c] # "verify",
         UNCHANGED <<connected, creator, nextWin, state, timer, lostWindow>>
  PROVE  OwnershipInv'
<1> DEFINE w == window[c]
<1>1. /\ live' = live \ {w}
      /\ selOwner' = IF selOwner = w THEN None ELSE selOwner
  BY DEF DestroyWindow
<1>2. /\ window'[c] = None /\ timestamp'[c] = CurrentTime
      /\ \A d \in Owners \ {c} : window'[d] = window[d] /\ timestamp'[d] = timestamp[d]
  BY BeforeFacts DEF ReleaseFields, OwnerTypeOK
<1>3. /\ ObjectInv(c) /\ w # None /\ w \in Nat /\ w < nextWin
      /\ state[c] # "WaitingForTimestamp" /\ lostWindow[c] = None
      /\ creator[w] = c /\ nextWin \in Nat
  BY BeforeFacts, WindowFacts DEF ObjectInv, Consistent, Numbered
<1>4. ASSUME NEW d \in Owners \ {c} PROVE Meanwhile(d)
  <2>1. FieldsKept(d)
    BY <1>2, <1>4 DEF FieldsKept
  <2>2. PreviousOwnersKept
    BY <1>4 DEF PreviousOwnersKept
  <2>3. mask \in Masks
    BY BeforeFacts DEF ServerTypeOK, Masks
  <2> QED BY BeforeFacts, DestroyWindowMeanwhile, <2>1, <2>2, <2>3
<1>5. OwnerKnows' /\ (selOwner' # None => creator[selOwner'] # c)
  <2> SUFFICES ASSUME selOwner' # None
               PROVE  /\ creator[selOwner'] # c
                      /\ timestamp'[creator[selOwner']] # CurrentTime
                      /\ window'[creator[selOwner']] = selOwner'
    BY DEF OwnerKnows
  <2>1. selOwner' = selOwner /\ selOwner # w
    BY <1>1
  <2>2. /\ creator[selOwner] \in Owners
        /\ timestamp[creator[selOwner]] # CurrentTime
        /\ window[creator[selOwner]] = selOwner
    BY <2>1, BeforeFacts, WindowFacts DEF OwnershipInv, OwnerKnows
  <2> QED BY <1>2, <2>1, <2>2
<1>6. LiveWindows'
  BY <1>1, <1>2, BeforeFacts, WindowFacts DEF OwnershipInv, LiveWindows
<1>7. ObjectInv(c)'
  <2>1. \A e \in Events(queue'[c]) : e \in Events(queue[c]) \/ e = DestroyNotify(w)
    <3>1. queue \in Queues /\ c \in Clients /\ queue' = NotifyDestroyed(queue, w, mask)
      BY BeforeFacts, WindowFacts DEF DestroyWindow, ServerTypeOK, Queues
    <3>2. \/ Events(queue'[c]) = Events(queue[c])
          \/ Events(queue'[c]) = Events(queue[c]) \cup {DestroyNotify(w)}
      BY <3>1, BeforeFacts, NotifyDestroyedEvents
    <3> QED BY <3>2
  <2>2. Queued(c)'
    BY <1>1, <1>3, <2>1 DEF ObjectInv, Queued, DestroyNotify
  <2>3. prev_owner'[c] < nextWin' /\ (prev_owner'[c] # None => creator[prev_owner'[c]] # c)
    BY <1>1, <1>3, <1>5, BeforeFacts, WindowFacts DEF ObjectInv, Numbered, None
  <2>4. Numbered(c)'
    BY <1>2, <1>3, <2>3 DEF ObjectInv, Numbered
  <2>5. Consistent(c)' /\ NotPrevious(c)'
    BY <1>2, <1>3 DEF ObjectInv, Consistent, NotPrevious
  <2>6. Given(c)' /\ Watched(c)' /\ ClearsCurrent(c)' /\ ClearsFirst(c)' /\ Told(c)'
    BY <1>1, <1>2, <1>3, BeforeFacts, WindowFacts
       DEF Given, Watched, ClearsCurrent, ClearsFirst, Told
  <2>7. PreviousLost(c)'
    BY <1>1, <1>3, BeforeFacts DEF ObjectInv, PreviousLost
  <2> QED BY <2>2, <2>4, <2>5, <2>6, <2>7 DEF ObjectInv
<1> QED BY <1>4, <1>5, <1>6, <1>7, Assembled

LEMMA ReleaseStep ==
  ASSUME Before, NEW c \in Owners, Release(c)
  PROVE  OwnershipInv'
BY BeforeFacts, ReleaseInv DEF Release, Running

LEMMA ClaimStep ==
  ASSUME Before, NEW c \in Owners, NEW f \in BOOLEAN, NEW k \in BOOLEAN,
         Claim(c, f, k)
  PROVE  OwnershipInv'
<1>1. /\ c \in connected /\ call[c] = "none" /\ state[c] = "Idle" /\ ~timer[c]
      /\ call'[c] \in {"none", "claim"}
      /\ prev_owner'[c] = selOwner'
      /\ \A d \in Owners \ {c} : prev_owner'[d] = prev_owner[d] /\ call'[d] = call[d]
      /\ UNCHANGED <<connected, creator, nextWin, state, timer, lostWindow>>
  BY BeforeFacts DEF Claim, Running, OwnerTypeOK
<1>2. CASE timestamp[c] # CurrentTime
  BY <1>1, <1>2, ReleaseInv DEF Claim
<1>3. CASE timestamp[c] = CurrentTime
  <2>1. UNCHANGED <<live, mask, selOwner, queue, window, timestamp>>
    BY <1>3 DEF Claim
  <2>2. ASSUME NEW d \in Owners \ {c} PROVE Meanwhile(d)
    <3>1. FieldsKept(d) /\ PreviousOwnersKept
      BY <1>1, <2>1, <2>2 DEF FieldsKept, PreviousOwnersKept
    <3> QED BY <1>1, <2>1, <3>1, BeforeFacts, QuietMeanwhile
  <2>3. LiveWindows' /\ OwnerKnows'
    BY <1>1, <2>1, BeforeFacts DEF OwnershipInv, LiveWindows, OwnerKnows
  <2>4. /\ selOwner < nextWin
        /\ selOwner # None => creator[selOwner] # c
    BY <1>3, BeforeFacts, WindowFacts DEF OwnershipInv, OwnerKnows, None
  <2>5. ObjectInv(c)'
    <3>1. Numbered(c)' /\ Consistent(c)' /\ Queued(c)' /\ NotPrevious(c)'
      BY <1>1, <1>3, <2>1, <2>4, BeforeFacts
         DEF ObjectInv, Numbered, Consistent, Queued, NotPrevious
    <3>2. Given(c)' /\ Watched(c)' /\ ClearsCurrent(c)' /\ ClearsFirst(c)'
          /\ Told(c)' /\ PreviousLost(c)'
      BY <1>1, <1>3, <2>1, BeforeFacts
         DEF ObjectInv, Given, Watched, ClearsCurrent, ClearsFirst, Told, PreviousLost
    <3> QED BY <3>1, <3>2 DEF ObjectInv
  <2> QED BY <2>2, <2>3, <2>5, Assembled
<1> QED BY <1>2, <1>3

\* The new window has a number no object or event has seen.
LEMMA ClaimSendStep ==
  ASSUME Before, NEW c \in Owners, ClaimSend(c)
  PROVE  OwnershipInv'
<1> DEFINE w == nextWin
           e == PropertyNotify(w, now')
<1>1. /\ c \in connected /\ call[c] = "claim" /\ call'[c] = "none"
      /\ state'[c] = "WaitingForTimestamp" /\ window'[c] = w
      /\ nextWin' = w + 1 /\ live' = live \cup {w} /\ w \in Nat /\ w # None
      /\ \A d \in Owners \ {c} : /\ call'[d] = call[d] /\ state'[d] = state[d]
                                 /\ window'[d] = window[d]
      /\ UNCHANGED <<connected, selOwner, prev_owner, timestamp, timer, lostWindow>>
  BY BeforeFacts, WindowFacts DEF ClaimSend, GenerateId, OwnerTypeOK
<1>2. /\ state[c] = "Idle" /\ timestamp[c] = CurrentTime /\ ~timer[c]
      /\ ObjectInv(c) /\ Numbered(c)
      /\ window[c] \in live => window[c] = lostWindow[c]
  BY <1>1, BeforeFacts DEF ObjectInv, Consistent, Given
<1>3. /\ \A x \in Nat : x # None /\ x < w => creator'[x] = creator[x]
      /\ creator'[w] = c
  BY <1>1, BeforeFacts DEF ClaimSend, None
<1>4. /\ \A x \in live : mask[x] \subseteq mask'[x]
      /\ c \in mask'[w]
  <2>1. \A x \in live : x \in 1..w /\ x # w
    BY <1>1, BeforeFacts, WindowFacts DEF None
  <2>2. w \in 1..w
    BY <1>1 DEF None
  <2> QED BY <2>1, <2>2 DEF ClaimSend
<1>5. /\ queue'[c] = Append(queue[c], e)
      /\ \A d \in Owners \ {c} : queue'[d] = queue[d]
      /\ queue[c] \in Seq(Event)
  BY BeforeFacts, WindowFacts DEF ClaimSend, ServerTypeOK
<1>6. Events(queue'[c]) = Events(queue[c]) \cup {e}
  <2>1. now' \in Window
    BY BeforeFacts DEF ServerTypeOK
  <2>2. e \in Event
    BY <1>1, <2>1, EventTypes DEF Window, None, CurrentTime
  <2> QED BY <1>5, <2>2, EventsAppend
<1>7. ASSUME NEW d \in Owners \ {c} PROVE Meanwhile(d)
  <2>1. FieldsKept(d) /\ PreviousOwnersKept
    BY <1>1, <1>7 DEF FieldsKept, PreviousOwnersKept
  <2>2. WindowsKept(d)
    BY <1>1, <1>3, <1>4 DEF WindowsKept
  <2>3. SelectionMoves(d) /\ EventsArrive(d)
    BY <1>1, <1>5 DEF SelectionMoves, EventsArrive
  <2> QED BY <2>1, <2>2, <2>3 DEF Meanwhile, PreviousOwnersKept
<1>8. LiveWindows'
  <2> SUFFICES ASSUME NEW x \in live'
               PROVE  /\ creator'[x] \in connected'
                      /\ x \in {window'[creator'[x]], lostWindow'[creator'[x]]}
    BY DEF LiveWindows
  <2>1. CASE x = w
    BY <1>1, <1>3, <2>1
  <2>2. CASE x \in live
    <3>1. /\ creator'[x] = creator[x] /\ creator[x] \in Owners
          /\ creator[x] \in connected
          /\ x \in {window[creator[x]], lostWindow[creator[x]]}
      BY <1>3, <2>2, BeforeFacts, WindowFacts DEF OwnershipInv, LiveWindows
    <3> QED BY <1>1, <1>2, <2>2, <3>1
  <2> QED BY <1>1, <2>1, <2>2
<1>9. OwnerKnows'
  <2> SUFFICES ASSUME selOwner # None
               PROVE  /\ timestamp[creator'[selOwner]] # CurrentTime
                      /\ window'[creator'[selOwner]] = selOwner
    BY <1>1 DEF OwnerKnows
  <2>1. /\ creator'[selOwner] = creator[selOwner] /\ creator[selOwner] \in Owners
        /\ timestamp[creator[selOwner]] # CurrentTime
        /\ window[creator[selOwner]] = selOwner
    BY <1>3, BeforeFacts, WindowFacts DEF OwnershipInv, OwnerKnows
  <2> QED BY <1>1, <1>2, <2>1
<1>10. ObjectInv(c)'
  <2>1. Numbered(c)'
    <3>1. /\ lostWindow[c] # None => creator'[lostWindow[c]] = c
          /\ prev_owner[c] # None => creator'[prev_owner[c]] # c
          /\ lostWindow[c] < w + 1 /\ prev_owner[c] < w + 1
      BY <1>1, <1>2, <1>3, BeforeFacts DEF Numbered
    <3> QED BY <1>1, <1>3, <3>1 DEF Numbered
  <2>2. Consistent(c)' /\ NotPrevious(c)'
    <3>1. w # lostWindow[c] /\ \A d \in Owners : prev_owner[d] # w
      BY <1>1, BeforeFacts DEF ObjectInv, Numbered
    <3> QED BY <1>1, <1>2, <3>1 DEF ObjectInv, Consistent, NotPrevious
  <2>3. \A x \in Events(queue[c]) :
          /\ x.type # "Manager" /\ x.window \in Nat /\ x.window < w
          /\ x.type = "DestroyNotify" => x.window \notin live
    BY <1>2, <1>5, EventsOfQueue DEF ObjectInv, Queued, Event, Window
  <2>4. Queued(c)'
    BY <1>1, <1>6, <2>3 DEF Queued, PropertyNotify
  <2>5. ClearsFirst(c)'
    <3> DEFINE q == queue[c]
    <3>1. /\ DOMAIN q = 1..Len(q) /\ Len(q) \in Nat
          /\ DOMAIN queue'[c] = 1..(Len(q) + 1)
          /\ \A i \in DOMAIN q : queue'[c][i] = q[i] /\ q[i] \in Events(q)
      BY <1>5 DEF Events
    <3>2. \A i \in DOMAIN q : q[i].type # "Manager" /\ q[i].window # w
      BY <1>1, <2>3, <3>1
    <3> HIDE DEF q
    <3>3. ClearsBefore(queue'[c], w)
      <4> SUFFICES ASSUME NEW i \in DOMAIN queue'[c], NEW j \in DOMAIN queue'[c],
                          i < j, queue'[c][i].window = w
                   PROVE  FALSE
        BY DEF ClearsBefore
      <4>1. i \in DOMAIN q
        BY <3>1
      <4> QED BY <3>1, <3>2, <4>1
    <3> QED BY <1>1, <3>3 DEF ClearsFirst
  <2>6. Given(c)' /\ Watched(c)' /\ ClearsCurrent(c)' /\ Told(c)' /\ PreviousLost(c)'
    BY <1>1, <1>2, <1>4 DEF Given, Watched, ClearsCurrent, Told, PreviousLost
  <2> QED BY <2>1, <2>2, <2>4, <2>5, <2>6 DEF ObjectInv
<1> QED BY <1>7, <1>8, <1>9, <1>10, Assembled

\* c takes an event; the server is not asked to change anything.
LEMMA ConsumeMeanwhile ==
  ASSUME Before, NEW c \in Owners, queue[c] # <<>>,
         NEW d \in Owners, d # c, queue'[d] = Consume(c)[d],
         UNCHANGED <<connected, live, creator, nextWin, mask, selOwner>>,
         FieldsKept(d), PreviousOwnersKept
  PROVE  Meanwhile(d)
BY BeforeFacts, ConsumeEvents, QuietMeanwhile

\* XCB_PROPERTY_NOTIFY: the selection is set, and its previous owner told.
LEMMA OnPropertyNotifyStep ==
  ASSUME Before, NEW c \in Owners, OnPropertyNotify(c)
  PROVE  OwnershipInv'
<1> DEFINE ev == Head(queue[c])
           w == window[c]
           mine == ev.window = w /\ state[c] = "WaitingForTimestamp"
           moves == mine /\ Accepted(w, ev.time)
           q == Consume(c)
<1>1. /\ c \in connected /\ call[c] = "none" /\ lostWindow[c] = None
      /\ queue[c] # <<>> /\ ev.type = "PropertyNotify" /\ ObjectInv(c)
      /\ UNCHANGED <<connected, live, creator, nextWin, mask, window,
                     prev_owner, timer, lostWindow>>
  BY BeforeFacts DEF OnPropertyNotify, InEventLoop, Running
<1>2. /\ ev.time # CurrentTime /\ ev.window # None
      /\ q \in Queues /\ q[c] = Tail(queue[c])
      /\ \A d \in Owners \ {c} : q[d] = queue[d]
      /\ Events(q[c]) \subseteq Events(queue[c])
      /\ \A x : ClearsBefore(queue[c], x) => ClearsBefore(q[c], x)
  <2>1. Head(queue[c]) \in Event
    BY <1>1, BeforeFacts, ConsumeEvents
  <2>2. ev.time # CurrentTime /\ ev.window # None
    BY <1>1, <2>1 DEF Event, Window, None
  <2> QED BY <1>1, <2>2, BeforeFacts, ConsumeEvents
<1>3. mine => w # None /\ timestamp[c] = CurrentTime /\ NotPrevious(c)
  BY <1>1 DEF ObjectInv, Consistent
<1>4. /\ \A d \in Owners \ {c} : FieldsKept(d)
      /\ mine => timestamp'[c] = ev.time /\ state'[c] = "Idle" /\ call'[c] = "verify"
      /\ ~mine => UNCHANGED <<timestamp, state, call>>
  BY <1>1, BeforeFacts DEF OnPropertyNotify, FieldsKept, OwnerTypeOK
<1>5. /\ moves => selOwner' = w
      /\ ~moves => selOwner' = selOwner
  BY DEF OnPropertyNotify, SetSelectionOwner
<1>6. /\ queue'[c] = q[c]
      /\ \A d \in Owners \ {c} :
           \/ queue'[d] = queue[d] /\ (moves => selOwner = None \/ d # creator[selOwner])
           \/ /\ moves /\ selOwner # None /\ d = creator[selOwner]
              /\ queue'[d] = Append(queue[d], SelectionClear(selOwner))
  <2>1. CASE moves
    <3>1. queue' = [d \in Clients |->
             IF selOwner # None /\ d # c /\ d = creator[selOwner]
               THEN Append(q[d], SelectionClear(selOwner)) ELSE q[d]]
      BY <2>1 DEF OnPropertyNotify, SetSelectionOwner
    <3> HIDE DEF moves, q
    <3> QED BY <1>2, <2>1, <3>1, BeforeFacts, WindowFacts
  <2>2. CASE ~moves
    <3>1. queue' = q
      BY <2>2 DEF OnPropertyNotify, SetSelectionOwner
    <3> HIDE DEF moves, q
    <3> QED BY <1>2, <2>2, <3>1
  <2> QED BY <2>1, <2>2
<1>7. moves => w \in live /\ creator[w] = c
  BY <1>1, <1>3 DEF Accepted, ObjectInv, Numbered
<1>8. selOwner # None => /\ creator[selOwner] \in Owners /\ selOwner \in live
                         /\ timestamp[creator[selOwner]] # CurrentTime
                         /\ window[creator[selOwner]] = selOwner
                         /\ SelectionClear(selOwner) \in Event
  BY BeforeFacts, WindowFacts, EventTypes DEF OwnershipInv, OwnerKnows, Window, None
<1> HIDE DEF moves
<1>9. ASSUME NEW d \in Owners \ {c} PROVE Meanwhile(d)
  <2>1. FieldsKept(d) /\ PreviousOwnersKept
    BY <1>1, <1>4, <1>9 DEF PreviousOwnersKept
  <2>2. WindowsKept(d)
    BY <1>1, BeforeFacts, WindowFacts DEF WindowsKept
  <2>3. SelectionMoves(d)
    BY <1>5, <1>9 DEF SelectionMoves, moves
  <2>4. EventsArrive(d)
    <3>1. CASE queue'[d] = queue[d] /\ (moves => selOwner = None \/ d # creator[selOwner])
      <4>1. timestamp[d] # CurrentTime /\ window[d] = selOwner => selOwner' = selOwner
        BY <1>5, <3>1, BeforeFacts DEF ObjectInv, Consistent, Numbered
      <4> QED BY <3>1, <4>1 DEF EventsArrive
    <3>2. CASE /\ moves /\ selOwner # None /\ d = creator[selOwner]
               /\ queue'[d] = Append(queue[d], SelectionClear(selOwner))
      <4>1. Events(queue'[d]) = Events(queue[d]) \cup {SelectionClear(selOwner)}
        BY <1>8, <3>2, BeforeFacts, WindowFacts, EventsAppend
      <4>2. state[d] # "WaitingForTimestamp" /\ window[d] = selOwner
        BY <1>8, <3>2, BeforeFacts DEF ObjectInv, Consistent
      <4>3. selOwner' # selOwner
        BY <1>5, <1>7, <1>9, <3>2
      <4> QED BY <3>2, <4>1, <4>2, <4>3 DEF EventsArrive
    <3> QED BY <1>6, <1>9, <3>1, <3>2
  <2> QED BY <2>1, <2>2, <2>3, <2>4 DEF Meanwhile, PreviousOwnersKept
<1>10. LiveWindows'
  BY <1>1, BeforeFacts DEF OwnershipInv, LiveWindows
<1>11. OwnerKnows'
  <2>1. CASE moves
    BY <1>1, <1>2, <1>4, <1>5, <1>7, <2>1 DEF OwnerKnows, moves
  <2>2. CASE ~moves
    <3> SUFFICES ASSUME selOwner # None
                 PROVE  timestamp'[creator[selOwner]] # CurrentTime
      BY <1>1, <1>5, <1>8, <2>2 DEF OwnerKnows
    <3> QED BY <1>2, <1>3, <1>4, <1>8 DEF FieldsKept
  <2> QED BY <2>1, <2>2
<1>12. ObjectInv(c)'
  <2>1. Numbered(c)' /\ Consistent(c)' /\ NotPrevious(c)'
    BY <1>1, <1>2, <1>3, <1>4
       DEF ObjectInv, Numbered, Consistent, NotPrevious
  <2>2. Queued(c)'
    BY <1>1, <1>2, <1>6 DEF ObjectInv, Queued
  <2>3. Given(c)' /\ Watched(c)'
    BY <1>1, <1>2, <1>4 DEF ObjectInv, Given, Watched
  <2>4. CASE mine
    <3>1. \A e \in Events(queue'[c]) : e.type # "SelectionClear"
      <4>1. queue[c] \in Seq(Event) /\ ClearsBefore(queue[c], w)
        BY <1>1, <2>4, BeforeFacts, WindowFacts DEF ObjectInv, ClearsFirst
      <4> QED BY <1>1, <1>2, <1>6, <2>4, <4>1, NoClearInTail
    <3>2. ClearsCurrent(c)' /\ ClearsFirst(c)'
      BY <1>4, <2>4, <3>1 DEF ClearsCurrent, ClearsFirst
    <3>3. Told(c)'
      BY <1>1, <1>3, <1>4, <2>4 DEF Told, NotPrevious
    <3>4. PreviousLost(c)'
      BY <1>1, <2>4, BeforeFacts DEF PreviousLost
    <3> QED BY <2>1, <2>2, <2>3, <3>2, <3>3, <3>4 DEF ObjectInv
  <2>5. CASE ~mine
    <3>1. selOwner' = selOwner /\ UNCHANGED <<timestamp, state, call>>
      BY <1>4, <1>5, <2>5 DEF moves
    <3>2. ClearsCurrent(c)' /\ ClearsFirst(c)' /\ PreviousLost(c)'
      BY <1>1, <1>2, <1>6, <3>1
         DEF ObjectInv, ClearsCurrent, ClearsFirst, PreviousLost
    <3>3. Told(c)'
      <4>1. \A e \in Events(queue[c]) : e.type # "PropertyNotify" => e \in Events(queue'[c])
        BY <1>1, <1>2, <1>6, BeforeFacts, ConsumeEvents
      <4>2. /\ SelectionClear(w) \in Events(queue[c]) => SelectionClear(w) \in Events(queue'[c])
            /\ DestroyNotify(w) \in Events(queue[c]) => DestroyNotify(w) \in Events(queue'[c])
        BY <4>1 DEF SelectionClear, DestroyNotify
      <4> QED BY <1>1, <3>1, <4>2 DEF ObjectInv, Told
    <3> QED BY <2>1, <2>2, <2>3, <3>2, <3>3 DEF ObjectInv
  <2> QED BY <2>4, <2>5
<1> QED BY <1>9, <1>10, <1>11, <1>12, Assembled

\* The rest of gotTimestamp(): the claim got through or is given up.
LEMMA GotTimestampStep ==
  ASSUME Before, NEW c \in Owners, GotTimestamp(c)
  PROVE  OwnershipInv'
<1>1. /\ c \in connected /\ call[c] = "verify" /\ call'[c] = "none"
      /\ \A d \in Owners \ {c} : call'[d] = call[d]
      /\ UNCHANGED <<connected, creator, nextWin, prev_owner, lostWindow>>
      /\ ObjectInv(c) /\ timestamp[c] # CurrentTime
      /\ state[c] = "Idle" /\ ~timer[c]
  BY BeforeFacts DEF GotTimestamp, OwnerTypeOK, ObjectInv, Consistent
<1>2. CASE ~ClaimVerified(c)
  BY <1>1, <1>2, ReleaseInv DEF GotTimestamp
<1>3. CASE ClaimVerified(c)
  <2>1. /\ selOwner = window[c]
        /\ UNCHANGED <<live, mask, selOwner, window, timestamp>>
        /\ queue' = queue \/ queue' = Broadcast(queue)
        /\ state'[c] # "WaitingForTimestamp"
        /\ \A d \in Owners \ {c} : state'[d] = state[d] /\ timer'[d] = timer[d]
    BY <1>3, BeforeFacts
       DEF GotTimestamp, ClaimVerified, ClaimSucceeded, StartTimer, OwnerTypeOK
  <2>2. \A d \in Owners : queue'[d] = queue[d]
    BY <2>1, BroadcastToOwner
  <2>3. ASSUME NEW d \in Owners \ {c} PROVE Meanwhile(d)
    <3>1. FieldsKept(d) /\ PreviousOwnersKept
      BY <1>1, <2>1, <2>3 DEF FieldsKept, PreviousOwnersKept
    <3> QED BY <1>1, <2>1, <2>2, <3>1, BeforeFacts, QuietMeanwhile
  <2>4. LiveWindows' /\ OwnerKnows'
    BY <1>1, <2>1, BeforeFacts DEF OwnershipInv, LiveWindows, OwnerKnows
  <2>5. ObjectInv(c)'
    <3>1. Numbered(c)' /\ Consistent(c)' /\ Queued(c)' /\ NotPrevious(c)'
      BY <1>1, <2>1, <2>2 DEF ObjectInv, Numbered, Consistent, Queued, NotPrevious
    <3>2. Given(c)' /\ Watched(c)' /\ ClearsCurrent(c)' /\ ClearsFirst(c)' /\ Told(c)'
      BY <1>1, <2>1, <2>2
         DEF ObjectInv, Given, Watched, ClearsCurrent, ClearsFirst, Told
    <3>3. PreviousLost(c)'
      BY <1>1, <2>1 DEF ObjectInv, Numbered, Consistent, PreviousLost
    <3> QED BY <3>1, <3>2, <3>3 DEF ObjectInv
  <2> QED BY <2>3, <2>4, <2>5, Assembled
<1> QED BY <1>2, <1>3

\* XCB_SELECTION_CLEAR: the object gives up what it has lost.
LEMMA OnSelectionClearStep ==
  ASSUME Before, NEW c \in Owners, OnSelectionClear(c)
  PROVE  OwnershipInv'
<1> DEFINE ev == Head(queue[c])
           t == Tail(queue[c])
<1>1. /\ c \in connected /\ call[c] = "none" /\ lostWindow[c] = None
      /\ queue[c] # <<>> /\ ev.type = "SelectionClear"
      /\ UNCHANGED <<connected, live, creator, nextWin, mask, selOwner, state,
                     window, prev_owner, timer, call>>
      /\ ObjectInv(c) /\ Numbered(c)
      /\ timestamp'[c] = CurrentTime
      /\ \A d \in Owners \ {c} : /\ timestamp'[d] = timestamp[d]
                                 /\ lostWindow'[d] = lostWindow[d]
      /\ timestamp[c] = CurrentTime => lostWindow'[c] = None
      /\ timestamp[c] # CurrentTime => lostWindow'[c] = window[c]
  BY BeforeFacts
     DEF OnSelectionClear, LoseOwnership, InEventLoop, Running, OwnerTypeOK, ObjectInv
<1>2. /\ queue' = Consume(c) /\ queue'[c] = t
      /\ ev \in Events(queue[c]) /\ Events(t) \subseteq Events(queue[c])
      /\ \A x : ClearsBefore(queue[c], x) => ClearsBefore(t, x)
  BY <1>1, BeforeFacts, ConsumeEvents DEF OnSelectionClear
<1>3. timestamp[c] # CurrentTime => selOwner # window[c]
  BY <1>1, <1>2 DEF ObjectInv, ClearsCurrent
<1>4. ASSUME NEW d \in Owners \ {c} PROVE Meanwhile(d)
  <2>1. FieldsKept(d) /\ PreviousOwnersKept
    BY <1>1, <1>4 DEF FieldsKept, PreviousOwnersKept
  <2>2. d # c /\ queue'[d] = Consume(c)[d]
    BY <1>2
  <2> QED BY <1>1, <2>1, <2>2, ConsumeMeanwhile
<1>5. LiveWindows'
  BY <1>1, BeforeFacts, WindowFacts DEF OwnershipInv, LiveWindows
<1>6. OwnerKnows'
  BY <1>1, <1>3, BeforeFacts, WindowFacts DEF OwnershipInv, OwnerKnows
<1>7. ObjectInv(c)'
  <2>1. Numbered(c)' /\ Queued(c)' /\ NotPrevious(c)'
    BY <1>1, <1>2, BeforeFacts, WindowFacts
       DEF ObjectInv, Numbered, Queued, NotPrevious, None
  <2>2. Consistent(c)'
    BY <1>1 DEF ObjectInv, Consistent
  <2>3. Given(c)' /\ Watched(c)'
    BY <1>1 DEF ObjectInv, Given, Watched, Consistent
  <2>4. ClearsCurrent(c)' /\ ClearsFirst(c)' /\ Told(c)' /\ PreviousLost(c)'
    BY <1>1, <1>2
       DEF ObjectInv, ClearsCurrent, ClearsFirst, Told, PreviousLost
  <2> QED BY <2>1, <2>2, <2>3, <2>4 DEF ObjectInv
<1> QED BY <1>4, <1>5, <1>6, <1>7, Assembled

\* The lost window goes; the object no longer selects events on it.
LEMMA FinishSelectionClearStep ==
  ASSUME Before, NEW c \in Owners, FinishSelectionClear(c)
  PROVE  OwnershipInv'
<1> DEFINE w == lostWindow[c]
           m == [mask EXCEPT ![w] = @ \ {c}]
<1>1. /\ c \in connected /\ call[c] = "none" /\ w # None
      /\ DestroyWindow(queue, w, m) /\ lostWindow'[c] = None
      /\ \A d \in Owners \ {c} : lostWindow'[d] = lostWindow[d]
      /\ UNCHANGED <<connected, creator, nextWin, state, window, prev_owner,
                     timestamp, timer, call>>
      /\ ObjectInv(c) /\ Numbered(c) /\ timestamp[c] = CurrentTime
  BY BeforeFacts
     DEF FinishSelectionClear, WindowToDestroy, Running, OwnerTypeOK, ObjectInv,
         Consistent
<1>2. /\ live' = live \ {w}
      /\ mask' = [x \in DOMAIN mask |-> IF x = w THEN {} ELSE m[x]]
      /\ selOwner' = IF selOwner = w THEN None ELSE selOwner
  BY <1>1 DEF DestroyWindow
<1>3. m \in Masks /\ \A x \in live : x \in DOMAIN mask
  BY BeforeFacts DEF ServerTypeOK, Masks
<1>4. ASSUME NEW d \in Owners \ {c} PROVE Meanwhile(d)
  <2>1. FieldsKept(d) /\ PreviousOwnersKept
    BY <1>1, <1>4 DEF FieldsKept, PreviousOwnersKept
  <2>2. \A x \in live : d \in mask[x] => d \in m[x]
    BY <1>3, <1>4
  <2> HIDE DEF m
  <2> QED BY <1>1, <1>3, <2>1, <2>2, BeforeFacts, DestroyWindowMeanwhile
<1>5. LiveWindows'
  BY <1>1, <1>2, BeforeFacts, WindowFacts DEF OwnershipInv, LiveWindows
<1>6. OwnerKnows'
  BY <1>1, <1>2, BeforeFacts DEF OwnershipInv, OwnerKnows
<1>7. ObjectInv(c)'
  <2>1. /\ \A e \in Events(queue'[c]) : e \in Events(queue[c]) \/ e = DestroyNotify(w)
        /\ \A x : ClearsBefore(queue[c], x) => ClearsBefore(queue'[c], x)
    <3>1. queue \in Queues /\ c \in Clients /\ queue' = NotifyDestroyed(queue, w, m)
      BY <1>1, BeforeFacts, WindowFacts DEF DestroyWindow, ServerTypeOK, Queues
    <3> HIDE DEF m
    <3>2. \/ Events(queue'[c]) = Events(queue[c])
          \/ Events(queue'[c]) = Events(queue[c]) \cup {DestroyNotify(w)}
      BY <3>1, BeforeFacts, NotifyDestroyedEvents
    <3>3. \A x : ClearsBefore(queue[c], x) => ClearsBefore(queue'[c], x)
      BY <3>1, BeforeFacts, NotifyDestroyedEvents
    <3> QED BY <3>2, <3>3
  <2>2. Numbered(c)' /\ NotPrevious(c)' /\ Consistent(c)'
    BY <1>1, BeforeFacts, WindowFacts
       DEF ObjectInv, Numbered, NotPrevious, Consistent, None
  <2>3. Queued(c)'
    BY <1>1, <1>2, <2>1 DEF ObjectInv, Queued, Numbered, DestroyNotify
  <2>4. Given(c)'
    BY <1>1, <1>2 DEF ObjectInv, Given
  <2>5. Watched(c)'
    BY <1>1, <1>2, <1>3 DEF ObjectInv, Watched, Consistent
  <2>6. ClearsCurrent(c)' /\ ClearsFirst(c)' /\ Told(c)'
    BY <1>1, <2>1 DEF ObjectInv, ClearsCurrent, ClearsFirst, Told
  <2>7. PreviousLost(c)'
    BY <1>1, <1>2 DEF ObjectInv, PreviousLost
  <2> QED BY <2>2, <2>3, <2>4, <2>5, <2>6, <2>7 DEF ObjectInv
<1> QED BY <1>4, <1>5, <1>6, <1>7, Assembled

\* XCB_DESTROY_NOTIFY: the window it is about is gone already.
LEMMA OnDestroyNotifyStep ==
  ASSUME Before, NEW c \in Owners, OnDestroyNotify(c)
  PROVE  OwnershipInv'
<1> DEFINE ev == Head(queue[c])
           w == ev.window
           t == Tail(queue[c])
           ends == w = prev_owner[c] /\ state[c] = "WaitingForPreviousOwner"
<1>1. /\ c \in connected /\ call[c] = "none" /\ lostWindow[c] = None
      /\ queue[c] # <<>> /\ ev.type = "DestroyNotify"
      /\ UNCHANGED <<connected, live, creator, nextWin, mask, selOwner, window,
                     call, lostWindow>>
      /\ ObjectInv(c) /\ Numbered(c)
  BY BeforeFacts DEF OnDestroyNotify, InEventLoop, Running, ObjectInv
<1>2. /\ queue' = Consume(c) \/ queue' = Broadcast(Consume(c))
      /\ \A d \in Owners \ {c} : queue'[d] = Consume(c)[d]
      /\ queue'[c] = t
      /\ ev \in Event /\ ev \in Events(queue[c])
      /\ Events(queue[c]) = {ev} \cup Events(t)
      /\ \A x : ClearsBefore(queue[c], x) => ClearsBefore(t, x)
  <2>1. queue' = Consume(c) \/ queue' = Broadcast(Consume(c))
    BY DEF OnDestroyNotify, ClaimSucceeded
  <2>2. \A d \in Owners : queue'[d] = Consume(c)[d]
    BY <2>1, BroadcastToOwner
  <2> QED BY <1>1, <2>1, <2>2, BeforeFacts, ConsumeEvents
<1>3. w \notin live /\ w # None /\ ev = DestroyNotify(w)
  <2>1. ev = [type |-> "DestroyNotify", window |-> w] /\ w # None
    BY <1>1, <1>2 DEF Event, Window, None
  <2> QED BY <1>1, <1>2, <2>1 DEF ObjectInv, Queued, DestroyNotify
<1>4. \A d \in Owners \ {c} :
        /\ state'[d] = state[d] /\ timer'[d] = timer[d]
        /\ prev_owner'[d] = prev_owner[d] /\ timestamp'[d] = timestamp[d]
  BY BeforeFacts
     DEF OnDestroyNotify, StopTimer, ClaimSucceeded, LoseOwnership, OwnerTypeOK
<1>5. ends => /\ state'[c] = "Idle" /\ ~timer'[c]
              /\ prev_owner'[c] = prev_owner[c] /\ timestamp'[c] = timestamp[c]
  BY BeforeFacts DEF OnDestroyNotify, StopTimer, ClaimSucceeded, OwnerTypeOK
<1>6. ~ends => /\ state'[c] = state[c] /\ timer'[c] = timer[c]
               /\ prev_owner'[c] \in {prev_owner[c], None}
               /\ timestamp'[c] = IF w = window[c] THEN CurrentTime ELSE timestamp[c]
  <2> SUFFICES ASSUME ~ends
               PROVE  /\ state'[c] = state[c] /\ timer'[c] = timer[c]
                      /\ prev_owner'[c] \in {prev_owner[c], None}
                      /\ timestamp'[c] = IF w = window[c] THEN CurrentTime
                                                          ELSE timestamp[c]
    OBVIOUS
  <2>1. /\ UNCHANGED <<state, timer>>
        /\ \/ prev_owner' = [prev_owner EXCEPT ![c] = None]
           \/ prev_owner' = [prev_owner EXCEPT ![c] = @]
        /\ IF timestamp[c] = CurrentTime \/ w # window[c]
             THEN UNCHANGED timestamp ELSE LoseOwnership(c)
    BY DEF OnDestroyNotify
  <2> HIDE DEF w
  <2> QED BY <2>1, BeforeFacts DEF LoseOwnership, OwnerTypeOK
<1> HIDE DEF ends, t, ev, w
<1>7. PreviousOwnersKept
  BY <1>4, <1>5, <1>6 DEF PreviousOwnersKept
<1>8. ASSUME NEW d \in Owners \ {c} PROVE Meanwhile(d)
  <2>1. FieldsKept(d)
    BY <1>1, <1>4, <1>8 DEF FieldsKept
  <2>2. d # c /\ queue'[d] = Consume(c)[d]
    BY <1>2
  <2> QED BY <1>1, <1>7, <2>1, <2>2, ConsumeMeanwhile
<1>9. LiveWindows'
  BY <1>1, BeforeFacts DEF OwnershipInv, LiveWindows
<1>10. OwnerKnows'
  <2>1. selOwner # None => window[creator[selOwner]] = selOwner /\ selOwner # w
                           /\ creator[selOwner] \in Owners
    BY <1>3, BeforeFacts, WindowFacts DEF OwnershipInv, OwnerKnows
  <2>2. selOwner # None => timestamp'[creator[selOwner]] = timestamp[creator[selOwner]]
    BY <1>4, <1>5, <1>6, <2>1
  <2> QED BY <1>1, <2>1, <2>2, BeforeFacts DEF OwnershipInv, OwnerKnows
<1>11. timestamp'[c] # CurrentTime => timestamp[c] # CurrentTime /\ w # window[c]
  <2>1. ends /\ timestamp[c] # CurrentTime => w # window[c]
    BY <1>1 DEF ends, ObjectInv, Numbered, Consistent
  <2> QED BY <1>5, <1>6, <2>1
<1>12. ObjectInv(c)'
  <2>1. state'[c] = "WaitingForTimestamp" => state[c] = "WaitingForTimestamp" /\ ~ends
    BY <1>5, <1>6
  <2>2. timestamp'[c] = CurrentTime => timestamp[c] = CurrentTime \/ window[c] \notin live
    BY <1>3, <1>5, <1>6
  <2>3. Numbered(c)'
    BY <1>1, <1>5, <1>6, BeforeFacts, WindowFacts DEF Numbered, None
  <2>4. Consistent(c)'
    BY <1>1, <1>6, <1>11, <2>1 DEF ObjectInv, Consistent
  <2>5. Queued(c)'
    BY <1>1, <1>2 DEF ObjectInv, Queued
  <2>6. NotPrevious(c)'
    BY <1>1, <1>4, <1>6, <2>1 DEF ObjectInv, NotPrevious, Consistent
  <2>7. Given(c)'
    <3>1. state'[c] # "WaitingForTimestamp" => state[c] # "WaitingForTimestamp"
      BY <1>6 DEF ends
    <3> QED BY <1>1, <2>2, <3>1 DEF ObjectInv, Given
  <2>8. Watched(c)'
    BY <1>1, <1>11, <2>1 DEF ObjectInv, Watched
  <2>9. ClearsCurrent(c)' /\ ClearsFirst(c)'
    BY <1>1, <1>2, <1>11, <2>1 DEF ObjectInv, ClearsCurrent, ClearsFirst
  <2>10. Told(c)'
    <3>1. /\ SelectionClear(window[c]) # ev
          /\ w # window[c] => DestroyNotify(window[c]) # ev
      BY <1>3 DEF SelectionClear, DestroyNotify
    <3> QED BY <1>1, <1>2, <1>11, <3>1 DEF ObjectInv, Told
  <2>11. PreviousLost(c)'
    BY <1>1, <1>5, <1>6 DEF ObjectInv, PreviousLost
  <2> QED BY <2>3, <2>4, <2>5, <2>6, <2>7, <2>8, <2>9, <2>10, <2>11 DEF ObjectInv
<1> QED BY <1>8, <1>9, <1>10, <1>12, Assembled

\* The windows of a connection that closes are all there is of its object.
LEMMA CloseDownWindows ==
  ASSUME Before, NEW v \in Owners, CloseDown(v, lostWindow[v], window[v]),
         UNCHANGED <<creator, window, lostWindow, timestamp>>
  PROVE  LiveWindows' /\ OwnerKnows'
<1>1. /\ live' = live \ {lostWindow[v], window[v]} /\ connected' = connected \ {v}
      /\ selOwner' \in {selOwner, None}
  BY DEF CloseDown
<1>2. LiveWindows'
  BY <1>1, BeforeFacts DEF OwnershipInv, LiveWindows
<1>3. OwnerKnows'
  BY <1>1, BeforeFacts DEF OwnershipInv, OwnerKnows
<1> QED BY <1>2, <1>3

\* timeout(): nothing changes for c but that it stops to wait.
LEMMA OnTimerStep ==
  ASSUME Before, NEW c \in Owners, OnTimer(c)
  PROVE  OwnershipInv'
<1> DEFINE p == prev_owner[c]
           v == creator[p]
           kills == force_kill[c] /\ p \in live
<1>1. /\ timer[c]
      /\ UNCHANGED <<creator, nextWin, window, prev_owner, timestamp, call, lostWindow>>
      /\ ~timer'[c] /\ state'[c] = "Idle"
      /\ \A d \in Owners \ {c} : state'[d] = state[d] /\ timer'[d] = timer[d]
  BY BeforeFacts DEF OnTimer, StopTimer, ClaimSucceeded, OwnerTypeOK
<1>2. ASSUME NEW d \in Owners PROVE FieldsKept(d) /\ PreviousOwnersKept
  BY <1>1, BeforeFacts DEF FieldsKept, PreviousOwnersKept
<1>3. CASE kills
  <2>1. /\ v \in Owners /\ CloseDown(v, lostWindow[v], window[v])
    BY <1>3, BeforeFacts, WindowFacts DEF OnTimer
  <2>2. \A d \in Owners : queue'[d] = CloseDownQueues(v, lostWindow[v], window[v])[d]
    BY <1>3, BroadcastToOwner DEF OnTimer, ClaimSucceeded
  <2>3. \A d \in Owners : Meanwhile(d)
    BY <1>1, <1>2, <2>1, <2>2, BeforeFacts, CloseDownMeanwhile
  <2>4. ObjectInv(c)'
    BY <2>3, BeforeFacts, BystanderInv
  <2> QED BY <1>1, <2>1, <2>3, <2>4, CloseDownWindows, Assembled
<1>4. CASE ~kills
  <2>1. UNCHANGED <<connected, live, mask, selOwner>>
    BY <1>4 DEF OnTimer
  <2>2. \A d \in Owners : queue'[d] = queue[d]
    BY <1>4, BroadcastToOwner DEF OnTimer, ClaimSucceeded
  <2>3. \A d \in Owners : Meanwhile(d)
    BY <1>1, <1>2, <2>1, <2>2, BeforeFacts, QuietMeanwhile
  <2>4. ObjectInv(c)'
    BY <2>3, BeforeFacts, BystanderInv
  <2>5. LiveWindows' /\ OwnerKnows'
    BY <1>1, <2>1, BeforeFacts DEF OwnershipInv, LiveWindows, OwnerKnows
  <2> QED BY <2>3, <2>4, <2>5, Assembled
<1> QED BY <1>3, <1>4

\* The end of the object or of its process, at any point.
LEMMA GoneStep ==
  ASSUME Before, NEW c \in Owners, Gone(c)
  PROVE  OwnershipInv'
<1>1. /\ CloseDown(c, lostWindow[c], window[c])
      /\ queue' = CloseDownQueues(c, lostWindow[c], window[c])
      /\ UNCHANGED <<creator, nextWin, window, prev_owner, timestamp, call,
                     lostWindow, state, timer>>
  BY DEF Gone, ownerVars, objectVars
<1>2. ASSUME NEW d \in Owners PROVE Meanwhile(d)
  <2>1. FieldsKept(d) /\ PreviousOwnersKept
    BY <1>1 DEF FieldsKept, PreviousOwnersKept
  <2> QED BY <1>1, <2>1, BeforeFacts, CloseDownMeanwhile
<1>3. ObjectInv(c)'
  BY <1>2, BeforeFacts, BystanderInv
<1> QED BY <1>1, <1>2, <1>3, CloseDownWindows, Assembled

-----------------------------------------------------------------------------
(* The steps of others, and the theorems                                   *)

LEMMA ForeignDestroyStep ==
  ASSUME Before, NEW w, ForeignDestroy(w)
  PROVE  OwnershipInv'
<1>1. /\ DestroyWindow(queue, w, mask) /\ mask \in Masks
      /\ UNCHANGED <<connected, creator, nextWin, window, prev_owner, timestamp,
                     call, lostWindow, state, timer>>
      /\ live' = live \ {w} /\ selOwner' \in {selOwner, None}
  BY BeforeFacts
     DEF ForeignDestroy, DestroyWindow, ownerVars, objectVars, ServerTypeOK, Masks
<1>2. ASSUME NEW d \in Owners PROVE ObjectInv(d)'
  <2>1. FieldsKept(d) /\ PreviousOwnersKept
    BY <1>1 DEF FieldsKept, PreviousOwnersKept
  <2>2. Meanwhile(d)
    BY <1>1, <2>1, BeforeFacts, DestroyWindowMeanwhile
  <2> QED BY <2>2, BeforeFacts, BystanderInv
<1>3. LiveWindows' /\ OwnerKnows'
  BY <1>1, BeforeFacts DEF OwnershipInv, LiveWindows, OwnerKnows
<1> QED BY <1>2, <1>3 DEF OwnershipInv

LEMMA WatcherStepInv ==
  ASSUME Before, NEW c \in Watchers, WatcherStep(c), UNCHANGED ownerVars
  PROVE  OwnershipInv'
<1>1. /\ UNCHANGED <<live, creator, nextWin, selOwner, window, prev_owner,
                     timestamp, call, lostWindow, state, timer>>
      /\ \A d \in Owners : d \in Clients /\ d # c
  BY BeforeFacts, WindowFacts
     DEF WatcherStep, WatcherInitCall, OwnerCall, OwnerRead, OwnerSelect,
         OwnerVerify, OnManager, OnOwnerDestroyed, Dispatch, serverVars,
         ownerVars, objectVars
<1>2. connected' \in {connected, connected \cup {c}}
  BY DEF WatcherStep, WatcherInitCall, OwnerCall, OwnerRead, OwnerSelect,
         OwnerVerify, OnManager, OnOwnerDestroyed, Dispatch, serverVars
<1>3. queue' \in {queue, Consume(c)}
  BY DEF WatcherStep, WatcherInitCall, OwnerCall, OwnerRead, OwnerSelect,
         OwnerVerify, OnManager, OnOwnerDestroyed, Dispatch, serverVars
<1>4. \A d \in Owners : queue'[d] = queue[d]
  BY <1>1, <1>3, BeforeFacts DEF Consume, ServerTypeOK
<1>5. \A x \in live : mask[x] \subseteq mask'[x]
  <2>1. \/ mask' = mask
        \/ current[c] \in live /\ mask' = [mask EXCEPT ![current[c]] = @ \cup {c}]
    BY DEF WatcherStep, WatcherInitCall, OwnerCall, OwnerRead, OwnerSelect,
           OwnerVerify, OnManager, OnOwnerDestroyed, Dispatch, serverVars
  <2> QED BY <2>1, BeforeFacts DEF ServerTypeOK
<1>6. ASSUME NEW d \in Owners PROVE ObjectInv(d)'
  <2>1. FieldsKept(d) /\ PreviousOwnersKept
    BY <1>1 DEF FieldsKept, PreviousOwnersKept
  <2>2. Meanwhile(d)
    BY <1>1, <1>2, <1>4, <1>5, <2>1, BeforeFacts, QuietMeanwhile
  <2> QED BY <2>2, BeforeFacts, BystanderInv
<1>7. LiveWindows' /\ OwnerKnows'
  BY <1>1, <1>2, BeforeFacts DEF OwnershipInv, LiveWindows, OwnerKnows
<1> QED BY <1>6, <1>7 DEF OwnershipInv

LEMMA FullInvInit == Init => FullInv
<1> SUFFICES ASSUME Init PROVE FullInv
  OBVIOUS
<1>1. /\ live = {} /\ selOwner = None /\ nextWin = 1
      /\ \A c \in Owners : /\ state[c] = "Idle" /\ window[c] = 0 /\ prev_owner[c] = 0
                           /\ timestamp[c] = 0 /\ ~timer[c] /\ call[c] = "none"
                           /\ lostWindow[c] = 0 /\ queue[c] = <<>>
  BY DEF Init, ServerInit, OwnerInit, None, CurrentTime, Clients
<1>2. Events(<<>>) = {}
  BY DEF Events
<1>3. ASSUME NEW c \in Owners PROVE ObjectInv(c)
  BY <1>1, <1>2
     DEF ObjectInv, Numbered, Consistent, Queued, NotPrevious, Given, Watched,
         ClearsCurrent, ClearsFirst, Told, PreviousLost, None, CurrentTime
<1>4. LiveWindows /\ OwnerKnows
  BY <1>1 DEF LiveWindows, OwnerKnows
<1> QED BY <1>3, <1>4, InitTypeOK, ClaimInvInit DEF FullInv, OwnershipInv

LEMMA FullInvNext == FullInv /\ [Next]_vars => FullInv'
<1> SUFFICES ASSUME FullInv, [Next]_vars PROVE FullInv'
  OBVIOUS
<1>1. TypeOK' /\ ClaimInv'
  BY NextTypeOK, ClaimInvNext DEF FullInv
<1>2. Before
  BY <1>1 DEF FullInv, Before, TypeOK
<1>3. ASSUME NEW c \in Owners, OwnerStep(c) PROVE OwnershipInv'
  <2>1. ASSUME NEW f \in BOOLEAN, NEW k \in BOOLEAN, Claim(c, f, k)
        PROVE  OwnershipInv'
    BY <1>2, <2>1, ClaimStep
  <2>2. CASE Release(c) \/ ClaimSend(c) \/ OnPropertyNotify(c) \/ GotTimestamp(c)
    BY <1>2, <2>2, ReleaseStep, ClaimSendStep, OnPropertyNotifyStep, GotTimestampStep
  <2>3. CASE \/ OnSelectionClear(c) \/ FinishSelectionClear(c)
             \/ OnDestroyNotify(c) \/ OnTimer(c) \/ Gone(c)
    BY <1>2, <2>3, OnSelectionClearStep, FinishSelectionClearStep,
       OnDestroyNotifyStep, OnTimerStep, GoneStep
  <2> QED BY <1>3, <2>1, <2>2, <2>3 DEF OwnerStep, Delete
<1>4. ASSUME NEW c \in Watchers, WatcherStep(c), UNCHANGED ownerVars
      PROVE  OwnershipInv'
  BY <1>2, <1>4, WatcherStepInv
<1>5. ASSUME Accident PROVE OwnershipInv'
  <2>1. ASSUME NEW c \in Owners, Crash(c) PROVE OwnershipInv'
    BY <1>2, <2>1, GoneStep DEF Crash
  <2>2. ASSUME NEW w \in live, ForeignDestroy(w) PROVE OwnershipInv'
    BY <1>2, <2>2, ForeignDestroyStep
  <2> QED BY <1>5, <2>1, <2>2 DEF Accident
<1>6. ASSUME UNCHANGED vars PROVE OwnershipInv'
  <2>1. UNCHANGED <<connected, live, creator, nextWin, mask, selOwner, queue,
                    state, window, prev_owner, timestamp, timer, call, lostWindow>>
    BY <1>6 DEF vars, serverVars, ownerVars, objectVars
  <2>2. ASSUME NEW c \in Owners PROVE ObjectInv(c)'
    <3>1. ObjectInv(c)
      BY <1>2, BeforeFacts
    <3>2. Numbered(c)' /\ Consistent(c)' /\ Queued(c)' /\ NotPrevious(c)'
      BY <2>1, <3>1 DEF ObjectInv, Numbered, Consistent, Queued, NotPrevious
    <3>3. c \in connected' => /\ Given(c)' /\ Watched(c)' /\ ClearsCurrent(c)'
                             /\ ClearsFirst(c)' /\ Told(c)' /\ PreviousLost(c)'
      BY <2>1, <3>1
         DEF ObjectInv, Given, Watched, ClearsCurrent, ClearsFirst, Told, PreviousLost
    <3> QED BY <3>2, <3>3 DEF ObjectInv
  <2>3. LiveWindows' /\ OwnerKnows'
    BY <1>2, <2>1, BeforeFacts DEF OwnershipInv, LiveWindows, OwnerKnows
  <2>4. \A c \in Owners : ObjectInv(c)'
    BY <2>2
  <2> QED BY <2>3, <2>4 DEF OwnershipInv
<1> QED BY <1>1, <1>3, <1>4, <1>5, <1>6 DEF FullInv, Next

LEMMA FullInvAlways == Spec => []FullInv
BY FullInvInit, FullInvNext, PTL DEF Spec

\* kselectionowner.cpp: an object whose ownerWindow() is not None owns the
\* selection, or the event that will tell it otherwise is in its queue.
THEOREM OwnershipReal == Spec => []OwnershipIsReal
BY FullInvAlways, Implied, PTL

\* filterEvent() may ignore the window of a SelectionClear.
THEOREM ClearsNeverStale == Spec => []ClearIsNeverStale
BY FullInvAlways, Implied, PTL

\* No sequence of claim(), release() and lost ownership leaks a window.
THEOREM NoLeaks == Spec => []NoWindowLeak
BY FullInvAlways, Implied, PTL

\* timeout() kills only a process with an unhandled SelectionClear.
THEOREM KillsUnresponsive == Spec => []KillsOnlyUnresponsive
BY FullInvAlways, Implied, PTL

-----------------------------------------------------------------------------
(* What a watcher knows                                                    *)

\* The claim of o has not come to its end, where a MANAGER message is sent.
Claiming(o) == call[o] = "verify" \/ state[o] = "WaitingForPreviousOwner"

\* There is an owner and the watchers have been sent the message about it.
Announced == selOwner # None /\ ~Claiming(creator[selOwner])

\* c is told when w is destroyed.
Hears(c, w) ==
  (w \in live /\ c \in mask[w]) \/ DestroyNotify(w) \in Events(queue[c])

\* c follows the owner or will, at the latest when its queue is handled.
Follows(c) ==
  \/ step[c] = "idle" /\ selection_owner[c] = selOwner
  \/ step[c] = "read"
  \/ step[c] \in {"select", "verify"} /\ current[c] = selOwner
  \/ Manager \in Events(queue[c])

\* The window c has read is one of those there have been, and the request for its events
\* has failed only if it is gone.
Selecting(c) ==
  /\ step[c] \in {"select", "verify"} => current[c] < nextWin
  /\ step[c] = "verify" /\ err[c] => current[c] \notin live
  /\ step[c] = "verify" /\ ~err[c] => Hears(c, current[c])

\* A window it follows is the one it announced, and it hears of its end.
Following(c) ==
  /\ selection_owner[c] # None =>
       told[c] = selection_owner[c] /\ Hears(c, selection_owner[c])
  /\ onDestroy[c] => selection_owner[c] = None

WatcherInv(c) ==
  /\ step[c] = "new" => selection_owner[c] = None /\ ~onDestroy[c]
  /\ step[c] # "new" => /\ c \in connected /\ Selecting(c) /\ Following(c)
                        /\ Announced => Follows(c)

\* timeout() sends the message: the timer runs for objects that may kill only.
MayKill == \A o \in Owners : state[o] = "WaitingForPreviousOwner" => force_kill[o]

WatchersInv == MayKill /\ \A c \in Watchers : WatcherInv(c)

\* With no event in any queue and no claim under way, a window that exists is the owner.
LEMMA WatchersConverge ==
  ASSUME FullInv, WatchersInv
  PROVE  WatcherConverges
<1> SUFFICES ASSUME Quiescent, NEW c \in Watchers
             PROVE  /\ selection_owner[c] = selOwner
                    /\ selOwner # None => told[c] = selOwner
  BY DEF WatcherConverges
<1>1. step[c] = "idle" /\ WatcherInv(c)
  BY DEF Quiescent, WatchersInv
<1>2. c \in connected /\ Following(c) /\ (Announced => Follows(c))
  BY <1>1 DEF WatcherInv
<1>3. \A d \in connected : Events(queue[d]) = {}
  BY DEF Quiescent, Events
<1>4. ServerTypeOK /\ (\A o \in Owners : ObjectInv(o)) /\ LiveWindows /\ OwnerKnows
  BY DEF FullInv, TypeOK, OwnershipInv
<1>5. ASSUME NEW o \in Owners, o \in connected
      PROVE  call[o] = "none" /\ state[o] = "Idle" /\ lostWindow[o] = None
  BY <1>5 DEF Quiescent, InEventLoop, Running, Busy
<1>6. ASSUME NEW w \in live PROVE w = selOwner
  <2>1. PICK o \in Owners : o = creator[w] /\ o \in connected /\ w \in {window[o], lostWindow[o]} /\ w # None
    BY <1>4, <1>6, WindowFacts DEF LiveWindows
  <2>2. w = window[o] /\ call[o] = "none" /\ state[o] = "Idle" /\ lostWindow[o] = None
    BY <1>5, <2>1
  <2>3. timestamp[o] # CurrentTime
    BY <1>4, <1>6, <2>1, <2>2 DEF ObjectInv, Given
  <2>4. selOwner = window[o]
    BY <1>3, <1>4, <2>1, <2>2, <2>3 DEF ObjectInv, Told
  <2> QED BY <2>2, <2>4
<1>7. selection_owner[c] # None => selection_owner[c] = selOwner /\ told[c] = selOwner
  BY <1>2, <1>3, <1>6 DEF Following, Hears
<1>8. ASSUME selOwner # None PROVE selection_owner[c] = selOwner
  <2>1. selOwner \in live /\ creator[selOwner] \in Owners /\ creator[selOwner] \in connected
    BY <1>4, <1>8, WindowFacts DEF LiveWindows
  <2>2. Announced
    BY <1>5, <1>8, <2>1 DEF Announced, Claiming
  <2> QED BY <1>1, <1>2, <1>3, <2>2 DEF Follows
<1> QED BY <1>7, <1>8

-----------------------------------------------------------------------------
(* The steps of the others as a watcher sees them                          *)

\* What is there for c stays there.
ServerKept(c) ==
  /\ c \in connected'
  /\ nextWin <= nextWin' /\ \A w \in live' : w \in live \/ nextWin <= w
  /\ \A w : Hears(c, w) => Hears(c, w)'
  /\ Events(queue[c]) \subseteq Events(queue'[c])

Undisturbed(c) ==
  /\ ServerKept(c)
  /\ Announced' => (Announced /\ selOwner' = selOwner) \/ Manager \in Events(queue'[c])

LEMMA UndisturbedKeeps ==
  ASSUME ServerTypeOK, ServerTypeOK', WatcherTypeOK, NEW c \in Watchers, WatcherInv(c),
         UNCHANGED watcherVars, step[c] # "new" => Undisturbed(c)
  PROVE  WatcherInv(c)'
<1>1. CASE step[c] = "new"
  BY <1>1 DEF WatcherInv, watcherVars
<1>2. CASE step[c] # "new"
  <2>1. /\ Undisturbed(c) /\ ServerKept(c)
        /\ Selecting(c) /\ Following(c) /\ (Announced => Follows(c))
    BY <1>2 DEF WatcherInv, Undisturbed
  <2>2. nextWin \in Nat /\ nextWin' \in Nat /\ current[c] \in Nat
    BY WindowFacts DEF WatcherTypeOK, ServerTypeOK, Window
  <2>3. Following(c)'
    BY <2>1 DEF Following, ServerKept, watcherVars
  <2>4. Selecting(c)'
    <3>1. UNCHANGED <<step, current, err>>
      BY DEF watcherVars
    <3>2. step[c] \in {"select", "verify"} => current[c] < nextWin'
      BY <2>1, <2>2 DEF Selecting, ServerKept
    <3>3. step[c] = "verify" /\ err[c] => current[c] \notin live'
      <4> SUFFICES ASSUME step[c] = "verify", err[c], current[c] \in live' PROVE FALSE
        OBVIOUS
      <4>1. current[c] < nextWin /\ current[c] \notin live
        BY <2>1 DEF Selecting
      <4>2. current[c] \in live \/ nextWin <= current[c]
        BY <2>1 DEF ServerKept
      <4> QED BY <2>2, <4>1, <4>2
    <3>4. step[c] = "verify" /\ ~err[c] => Hears(c, current[c])'
      <4>1. \A w : Hears(c, w) => Hears(c, w)'
        BY <2>1 DEF ServerKept
      <4>2. PICK w : w = current[c]
        OBVIOUS
      <4>3. Hears(c, w) => Hears(c, w)'
        BY <4>1
      <4> QED BY <2>1, <3>1, <4>2, <4>3 DEF Selecting, Hears
    <3> QED BY <3>1, <3>2, <3>3, <3>4 DEF Selecting
  <2>5. Announced' => Follows(c)'
    BY <2>1 DEF Undisturbed, ServerKept, Follows, watcherVars
  <2> QED BY <1>2, <2>1, <2>3, <2>4, <2>5 DEF WatcherInv, ServerKept, watcherVars
<1> QED BY <1>1, <1>2

\* The owner stays or is gone, and no claim ends.
LEMMA StillAnnounced ==
  ASSUME ServerTypeOK, selOwner' \in {selOwner, None},
         \A w \in Nat : w # None /\ w < nextWin => creator'[w] = creator[w],
         \A o \in Owners : o = creator[selOwner] /\ Claiming(o) => Claiming(o)'
  PROVE  Announced' => Announced /\ selOwner' = selOwner
<1> SUFFICES ASSUME selOwner' # None, ~Claiming(creator[selOwner])'
             PROVE  Announced /\ selOwner' = selOwner
  BY DEF Announced
<1>1. selOwner' = selOwner /\ selOwner # None
  OBVIOUS
<1>2. creator[selOwner] \in Owners /\ creator'[selOwner] = creator[selOwner]
  BY <1>1, WindowFacts
<1>3. PICK o \in Owners : o = creator[selOwner] /\ o = creator'[selOwner]
  BY <1>2
<1>4. ~Claiming(o)'
  BY <1>1, <1>3 DEF Claiming
<1>5. ~Claiming(o)
  BY <1>3, <1>4
<1> QED BY <1>1, <1>3, <1>5 DEF Announced

\* A window is destroyed.
LEMMA DestroyWindowKept ==
  ASSUME ServerTypeOK, NEW c \in Watchers, c \in connected, NEW q \in Queues, NEW w, NEW m \in Masks,
         DestroyWindow(q, w, m), q[c] = queue[c],
         \A x \in live : c \in mask[x] => c \in m[x],
         UNCHANGED <<connected, nextWin>>
  PROVE  ServerKept(c) /\ selOwner' \in {selOwner, None}
<1>1. /\ live' = live \ {w}
      /\ mask' = [x \in DOMAIN mask |-> IF x = w THEN {} ELSE m[x]]
      /\ selOwner' = IF selOwner = w THEN None ELSE selOwner
      /\ queue' = NotifyDestroyed(q, w, m)
  BY DEF DestroyWindow
<1>2. c \in Clients /\ \A x \in live : x \in DOMAIN mask
  BY DEF Clients, ServerTypeOK
<1>3. /\ w \in live /\ c \in m[w] => Events(queue'[c]) = Events(queue[c]) \cup {DestroyNotify(w)}
      /\ Events(queue[c]) \subseteq Events(queue'[c])
  <2>1. /\ w \in live /\ c \in m[w] \cap connected =>
             Events(NotifyDestroyed(q, w, m)[c]) = Events(q[c]) \cup {DestroyNotify(w)}
        /\ ~(w \in live /\ c \in m[w] \cap connected) =>
             Events(NotifyDestroyed(q, w, m)[c]) = Events(q[c])
    BY <1>2, NotifyDestroyedEvents
  <2> QED BY <1>1, <2>1
<1>4. ASSUME NEW x, Hears(c, x) PROVE Hears(c, x)'
  <2>1. CASE DestroyNotify(x) \in Events(queue[c])
    BY <1>3, <2>1 DEF Hears
  <2>2. CASE x \in live /\ c \in mask[x] /\ x # w
    <3>1. x \in live' /\ mask'[x] = m[x]
      BY <1>1, <1>2, <2>2
    <3> QED BY <2>2, <3>1 DEF Hears
  <2>3. CASE x \in live /\ c \in mask[x] /\ x = w
    <3>1. DestroyNotify(x) \in Events(queue'[c])
      BY <1>3, <2>3
    <3> QED BY <3>1 DEF Hears, DestroyNotify
  <2> QED BY <1>4, <2>1, <2>2, <2>3 DEF Hears
<1>5. nextWin <= nextWin'
  BY WindowFacts
<1> QED BY <1>1, <1>3, <1>4, <1>5 DEF ServerKept

\* The connection of another client closes.
LEMMA CloseDownKept ==
  ASSUME ServerTypeOK, NEW c \in Watchers, c \in connected, NEW v \in Owners, NEW o, NEW n,
         CloseDown(v, o, n), NEW q, q = CloseDownQueues(v, o, n)[c],
         Events(q) \subseteq Events(queue'[c]), UNCHANGED nextWin
  PROVE  ServerKept(c) /\ selOwner' \in {selOwner, None}
<1> DEFINE one == NotifyDestroyed(queue, o, mask)
           two == NotifyDestroyed(one, n, mask)
<1>1. /\ live' = live \ {o, n} /\ connected' = connected \ {v}
      /\ mask' = [x \in DOMAIN mask |-> IF x \in {o, n} THEN {} ELSE mask[x] \ {v}]
      /\ selOwner' = IF selOwner \in {o, n} THEN None ELSE selOwner
  BY DEF CloseDown
<1>2. c \in Clients /\ c # v /\ \A x \in live : x \in DOMAIN mask
  BY WindowFacts DEF Clients, ServerTypeOK
<1>3. q = two[c]
  BY <1>2 DEF CloseDownQueues
<1>4. queue \in Queues /\ one \in Queues
  BY NotifyDestroyedType DEF ServerTypeOK, Queues
<1> HIDE DEF one
<1>5. /\ o \in live /\ c \in mask[o] => DestroyNotify(o) \in Events(one[c])
      /\ Events(queue[c]) \subseteq Events(one[c])
  <2>1. /\ o \in live /\ c \in mask[o] \cap connected =>
             Events(NotifyDestroyed(queue, o, mask)[c]) = Events(queue[c]) \cup {DestroyNotify(o)}
        /\ ~(o \in live /\ c \in mask[o] \cap connected) =>
             Events(NotifyDestroyed(queue, o, mask)[c]) = Events(queue[c])
    BY <1>2, <1>4, NotifyDestroyedEvents
  <2> QED BY <2>1 DEF one
<1>6. /\ n \in live /\ c \in mask[n] => DestroyNotify(n) \in Events(two[c])
      /\ Events(one[c]) \subseteq Events(two[c])
  <2>1. /\ n \in live /\ c \in mask[n] \cap connected =>
             Events(NotifyDestroyed(one, n, mask)[c]) = Events(one[c]) \cup {DestroyNotify(n)}
        /\ ~(n \in live /\ c \in mask[n] \cap connected) =>
             Events(NotifyDestroyed(one, n, mask)[c]) = Events(one[c])
    BY <1>2, <1>4, NotifyDestroyedEvents
  <2> QED BY <2>1
<1> HIDE DEF two
<1>7. /\ Events(queue[c]) \subseteq Events(queue'[c])
      /\ \A x \in {o, n} : x \in live /\ c \in mask[x] => DestroyNotify(x) \in Events(queue'[c])
  BY <1>3, <1>5, <1>6
<1>8. ASSUME NEW x, Hears(c, x) PROVE Hears(c, x)'
  <2>1. CASE DestroyNotify(x) \in Events(queue[c])
    BY <1>7, <2>1 DEF Hears
  <2>2. CASE x \in live /\ c \in mask[x] /\ x \notin {o, n}
    <3>1. x \in live' /\ mask'[x] = mask[x] \ {v}
      BY <1>1, <1>2, <2>2
    <3> QED BY <1>2, <2>2, <3>1 DEF Hears
  <2>3. CASE x \in live /\ c \in mask[x] /\ x \in {o, n}
    <3>1. DestroyNotify(x) \in Events(queue'[c])
      BY <1>7, <2>3
    <3> QED BY <3>1 DEF Hears
  <2> QED BY <1>8, <2>1, <2>2, <2>3 DEF Hears
<1>9. nextWin <= nextWin'
  BY WindowFacts
<1> QED BY <1>1, <1>2, <1>7, <1>8, <1>9 DEF ServerKept

\* No window is touched, and events may arrive.
LEMMA QuietKept ==
  ASSUME ServerTypeOK, NEW c \in Watchers, c \in connected,
         UNCHANGED <<connected, live, nextWin, mask>>,
         Events(queue[c]) \subseteq Events(queue'[c])
  PROVE  ServerKept(c)
<1>1. nextWin <= nextWin'
  BY WindowFacts
<1>2. \A x : Hears(c, x) => Hears(c, x)'
  BY DEF Hears
<1> QED BY <1>1, <1>2 DEF ServerKept

\* A MANAGER message reaches every watcher.
LEMMA BroadcastToWatcher ==
  ASSUME NEW c \in Watchers, c \in connected, NEW q \in Queues
  PROVE  Events(Broadcast(q)[c]) = Events(q[c]) \cup {Manager}
<1>1. c \in Clients /\ q[c] \in Seq(Event)
  BY DEF Clients, Queues
<1>2. Broadcast(q)[c] = Append(q[c], Manager)
  BY <1>1 DEF Broadcast
<1> QED BY <1>1, <1>2, EventTypes, EventsAppend

\* The events of an owner are not those of a watcher.
LEMMA ConsumeByOwner ==
  ASSUME ServerTypeOK, NEW o \in Owners, NEW c \in Watchers
  PROVE  Consume(o)[c] = queue[c] /\ (queue[o] # <<>> => Consume(o) \in Queues)
<1>1. o \in Clients /\ c \in Clients /\ c # o
  BY WindowFacts DEF Clients
<1> QED BY <1>1, ConsumeType DEF Consume, ServerTypeOK

-----------------------------------------------------------------------------
(* The steps of an owner as a watcher sees them                            *)

LEMMA ReleaseUndisturbed ==
  ASSUME Before, NEW c \in Watchers, c \in connected, NEW o \in Owners, Release(o)
  PROVE  Undisturbed(c)
<1>1. ServerTypeOK /\ mask \in Masks /\ queue \in Queues
  BY DEF Before, TypeOK, ServerTypeOK, Masks, Queues
<1>2. ServerKept(c) /\ selOwner' \in {selOwner, None}
  BY <1>1, DestroyWindowKept DEF Release
<1>3. UNCHANGED <<creator, state, call>>
  BY DEF Release
<1>4. Announced' => Announced /\ selOwner' = selOwner
  BY <1>1, <1>2, <1>3, StillAnnounced DEF Claiming
<1> QED BY <1>2, <1>4 DEF Undisturbed

LEMMA ClaimUndisturbed ==
  ASSUME Before, NEW c \in Watchers, c \in connected, NEW o \in Owners,
         NEW f \in BOOLEAN, NEW k \in BOOLEAN, Claim(o, f, k)
  PROVE  Undisturbed(c)
<1>1. ServerTypeOK /\ mask \in Masks /\ queue \in Queues
  BY DEF Before, TypeOK, ServerTypeOK, Masks, Queues
<1>2. ServerKept(c) /\ selOwner' \in {selOwner, None}
  <2>1. CASE timestamp[o] # CurrentTime
    <3>1. DestroyWindow(queue, window[o], mask) /\ UNCHANGED <<connected, nextWin>>
      BY <2>1 DEF Claim
    <3> QED BY <1>1, <3>1, DestroyWindowKept
  <2>2. CASE timestamp[o] = CurrentTime
    <3>1. UNCHANGED <<connected, nextWin, live, mask, selOwner, queue>>
      BY <2>2 DEF Claim
    <3> QED BY <1>1, <3>1, QuietKept
  <2> QED BY <2>1, <2>2
<1>3. UNCHANGED <<creator, state>> /\ state[o] = "Idle" /\ call[o] = "none"
  BY DEF Claim, Running
<1>4. \A d \in Owners \ {o} : call'[d] = call[d]
  BY DEF Claim, Before, TypeOK, OwnerTypeOK
<1>5. \A d \in Owners : Claiming(d) => Claiming(d)'
  BY <1>3, <1>4 DEF Claiming
<1>6. Announced' => Announced /\ selOwner' = selOwner
  BY <1>1, <1>2, <1>3, <1>5, StillAnnounced
<1> QED BY <1>2, <1>6 DEF Undisturbed

LEMMA ClaimSendUndisturbed ==
  ASSUME Before, NEW c \in Watchers, c \in connected, NEW o \in Owners, ClaimSend(o)
  PROVE  Undisturbed(c)
<1>1. ServerTypeOK /\ nextWin \in Nat /\ nextWin' = nextWin + 1
  BY WindowFacts DEF Before, TypeOK, ClaimSend, GenerateId
<1>2. c # o /\ c \in Clients /\ o \in Clients
  BY <1>1, WindowFacts DEF Clients
<1>3. queue'[c] = queue[c]
  BY <1>1, <1>2 DEF ClaimSend, ServerTypeOK
<1>4. \A x \in live : x \in 1..nextWin /\ x # nextWin
  BY <1>1, WindowFacts DEF None
<1>5. \A x \in live : c \in mask[x] => c \in mask'[x]
  BY <1>4 DEF ClaimSend
<1>6. live' = live \cup {nextWin} /\ UNCHANGED <<connected, selOwner>>
  BY DEF ClaimSend
<1>7. \A x : Hears(c, x) => Hears(c, x)'
  BY <1>3, <1>5, <1>6 DEF Hears
<1>8. ServerKept(c)
  BY <1>1, <1>3, <1>6, <1>7 DEF ServerKept
<1>9. \A w \in Nat : w # None /\ w < nextWin => creator'[w] = creator[w]
  <2>1. \A w \in Nat : w # None /\ w < nextWin => w \in 1..nextWin /\ w # nextWin
    BY <1>1 DEF None
  <2> QED BY <2>1 DEF ClaimSend
<1>10. \A d \in Owners : Claiming(d) => Claiming(d)'
  <2>1. call[o] = "claim" /\ state[o] = "Idle"
    BY BeforeFacts DEF ClaimSend
  <2>2. \A d \in Owners \ {o} : call'[d] = call[d] /\ state'[d] = state[d]
    BY DEF ClaimSend, Before, TypeOK, OwnerTypeOK
  <2> QED BY <2>1, <2>2 DEF Claiming
<1>11. Announced' => Announced /\ selOwner' = selOwner
  BY <1>1, <1>6, <1>9, <1>10, StillAnnounced
<1> QED BY <1>8, <1>11 DEF Undisturbed

LEMMA OnPropertyNotifyUndisturbed ==
  ASSUME Before, NEW c \in Watchers, c \in connected, NEW o \in Owners, OnPropertyNotify(o)
  PROVE  Undisturbed(c)
<1>1. ServerTypeOK /\ OwnerTypeOK /\ c \in Clients
  BY DEF Before, TypeOK, Clients
<1>2. UNCHANGED <<connected, live, creator, nextWin, mask, window>> /\ queue[o] # <<>>
  BY DEF OnPropertyNotify
<1>3. Consume(o)[c] = queue[c] /\ Consume(o) \in Queues
  BY <1>1, <1>2, ConsumeByOwner
<1>4. CASE ~(Head(queue[o]).window = window[o] /\ state[o] = "WaitingForTimestamp")
  <2>1. UNCHANGED <<selOwner, state, call>> /\ queue'[c] = queue[c]
    BY <1>3, <1>4 DEF OnPropertyNotify
  <2>2. ServerKept(c)
    BY <1>1, <1>2, <2>1, QuietKept
  <2>3. Announced' => Announced /\ selOwner' = selOwner
    BY <1>1, <1>2, <2>1, StillAnnounced DEF Claiming
  <2> QED BY <2>2, <2>3 DEF Undisturbed
<1>5. CASE Head(queue[o]).window = window[o] /\ state[o] = "WaitingForTimestamp"
  <2>1. PICK t : SetSelectionOwner(Consume(o), o, window[o], t)
    BY <1>5 DEF OnPropertyNotify
  <2>2. call'[o] = "verify" /\ \A d \in Owners \ {o} : state'[d] = state[d] /\ call'[d] = call[d]
    BY <1>1, <1>5 DEF OnPropertyNotify, OwnerTypeOK
  <2>3. Events(queue[c]) \subseteq Events(queue'[c])
    <3>1. CASE queue'[c] = queue[c]
      BY <3>1
    <3>2. CASE queue'[c] # queue[c]
      <4>1. selOwner # None /\ c = creator[selOwner]
        BY <1>1, <1>3, <2>1, <3>2 DEF SetSelectionOwner
      <4> QED BY <1>1, <4>1, WindowFacts
    <3> QED BY <3>1, <3>2
  <2>4. ServerKept(c)
    BY <1>1, <1>2, <2>3, QuietKept
  <2>5. \A d \in Owners : Claiming(d) => Claiming(d)'
    BY <2>2 DEF Claiming
  <2>6. CASE selOwner' = selOwner
    <3>1. Announced' => Announced /\ selOwner' = selOwner
      BY <1>1, <1>2, <2>5, <2>6, StillAnnounced
    <3> QED BY <2>4, <3>1 DEF Undisturbed
  <2>7. CASE selOwner' = window[o]
    <3>1. window[o] # None => creator[window[o]] = o
      BY BeforeFacts DEF ObjectInv, Numbered
    <3>2. ~Announced'
      BY <1>2, <2>2, <2>7, <3>1 DEF Announced, Claiming
    <3> QED BY <2>4, <3>2 DEF Undisturbed
  <2> QED BY <2>1, <2>6, <2>7 DEF SetSelectionOwner
<1> QED BY <1>4, <1>5

LEMMA GotTimestampUndisturbed ==
  ASSUME Before, NEW c \in Watchers, c \in connected, NEW o \in Owners, GotTimestamp(o)
  PROVE  Undisturbed(c)
<1>1. ServerTypeOK /\ OwnerTypeOK /\ mask \in Masks /\ queue \in Queues
  BY DEF Before, TypeOK, ServerTypeOK, Masks, Queues
<1>2. UNCHANGED <<connected, creator, nextWin>>
      /\ \A d \in Owners \ {o} : state'[d] = state[d] /\ call'[d] = call[d]
  BY <1>1 DEF GotTimestamp, ClaimSucceeded, OwnerTypeOK
<1>3. CASE ~ClaimVerified(o)
  <2>1. DestroyWindow(queue, window[o], mask)
    BY <1>3 DEF GotTimestamp
  <2>2. ServerKept(c) /\ selOwner' \in {selOwner, None}
    BY <1>1, <1>2, <2>1, DestroyWindowKept
  <2>3. selOwner # None => creator[selOwner] # o
    BY <1>3, BeforeFacts DEF OwnershipInv, OwnerKnows, ClaimVerified
  <2>4. CASE selOwner # None
    <3>1. \A d \in Owners : d = creator[selOwner] /\ Claiming(d) => Claiming(d)'
      BY <1>2, <2>3, <2>4 DEF Claiming
    <3>2. Announced' => Announced /\ selOwner' = selOwner
      BY <1>1, <1>2, <2>2, <3>1, StillAnnounced
    <3> QED BY <2>2, <3>2 DEF Undisturbed
  <2>5. CASE selOwner = None
    BY <2>2, <2>5 DEF Undisturbed, Announced
  <2> QED BY <2>4, <2>5
<1>4. CASE ClaimVerified(o) /\ prev_owner[o] # None /\ force_kill[o]
  <2>1. UNCHANGED <<queue, live, mask, selOwner>>
    BY <1>4 DEF GotTimestamp
  <2>2. state'[o] = "WaitingForPreviousOwner"
    BY <1>1, <1>4 DEF GotTimestamp, OwnerTypeOK
  <2>3. ServerKept(c)
    BY <1>1, <1>2, <2>1, QuietKept
  <2>4. \A d \in Owners : Claiming(d) => Claiming(d)'
    BY <1>2, <2>2 DEF Claiming
  <2>5. Announced' => Announced /\ selOwner' = selOwner
    BY <1>1, <1>2, <2>1, <2>4, StillAnnounced
  <2> QED BY <2>3, <2>5 DEF Undisturbed
<1>5. CASE ClaimVerified(o) /\ ~(prev_owner[o] # None /\ force_kill[o])
  <2>1. queue' = Broadcast(queue) /\ UNCHANGED <<live, mask, selOwner>>
    BY <1>5 DEF GotTimestamp, ClaimSucceeded
  <2>2. Events(queue'[c]) = Events(queue[c]) \cup {Manager}
    BY <1>1, <2>1, BroadcastToWatcher
  <2>3. ServerKept(c)
    BY <1>1, <1>2, <2>1, <2>2, QuietKept
  <2> QED BY <2>2, <2>3 DEF Undisturbed
<1> QED BY <1>3, <1>4, <1>5

LEMMA OnSelectionClearUndisturbed ==
  ASSUME Before, NEW c \in Watchers, c \in connected, NEW o \in Owners, OnSelectionClear(o)
  PROVE  Undisturbed(c)
<1>1. ServerTypeOK
  BY DEF Before, TypeOK
<1>2. UNCHANGED <<connected, live, creator, nextWin, mask, selOwner, state, call>>
      /\ queue' = Consume(o)
  BY DEF OnSelectionClear
<1>3. queue'[c] = queue[c]
  BY <1>1, <1>2, ConsumeByOwner
<1>4. ServerKept(c)
  BY <1>1, <1>2, <1>3, QuietKept
<1>5. Announced' => Announced /\ selOwner' = selOwner
  BY <1>1, <1>2, StillAnnounced DEF Claiming
<1> QED BY <1>4, <1>5 DEF Undisturbed

LEMMA FinishSelectionClearUndisturbed ==
  ASSUME Before, NEW c \in Watchers, c \in connected, NEW o \in Owners, FinishSelectionClear(o)
  PROVE  Undisturbed(c)
<1>1. ServerTypeOK /\ mask \in Masks /\ queue \in Queues /\ c # o
  BY WindowFacts DEF Before, TypeOK, ServerTypeOK, Masks, Queues
<1>2. PICK m : /\ m = [mask EXCEPT ![WindowToDestroy(o)] = @ \ {o}]
               /\ DestroyWindow(queue, WindowToDestroy(o), m)
  BY DEF FinishSelectionClear
<1>3. UNCHANGED <<connected, nextWin, creator, state, call>>
  BY DEF FinishSelectionClear
<1>4. m \in Masks
  BY <1>1, <1>2 DEF Masks
<1>5. \A x \in live : c \in mask[x] => c \in m[x]
  <2>1. \A x \in live : x \in DOMAIN mask
    BY <1>1 DEF ServerTypeOK
  <2> QED BY <1>1, <1>2, <2>1
<1>6. ServerKept(c) /\ selOwner' \in {selOwner, None}
  BY <1>1, <1>2, <1>3, <1>4, <1>5, DestroyWindowKept
<1>7. Announced' => Announced /\ selOwner' = selOwner
  BY <1>1, <1>3, <1>6, StillAnnounced DEF Claiming
<1> QED BY <1>6, <1>7 DEF Undisturbed

LEMMA OnDestroyNotifyUndisturbed ==
  ASSUME Before, NEW c \in Watchers, c \in connected, NEW o \in Owners, OnDestroyNotify(o)
  PROVE  Undisturbed(c)
<1>1. ServerTypeOK
  BY DEF Before, TypeOK
<1>2. UNCHANGED <<connected, live, creator, nextWin, mask, selOwner, call>> /\ queue[o] # <<>>
  BY DEF OnDestroyNotify
<1>3. Consume(o)[c] = queue[c] /\ Consume(o) \in Queues
  BY <1>1, <1>2, ConsumeByOwner
<1>4. CASE queue' = Broadcast(Consume(o))
  <2>1. Events(queue'[c]) = Events(queue[c]) \cup {Manager}
    BY <1>3, <1>4, BroadcastToWatcher
  <2>2. ServerKept(c)
    BY <1>1, <1>2, <2>1, QuietKept
  <2> QED BY <2>1, <2>2 DEF Undisturbed
<1>5. CASE queue' = Consume(o) /\ state' = state
  <2>1. ServerKept(c)
    BY <1>1, <1>2, <1>3, <1>5, QuietKept
  <2>2. Announced' => Announced /\ selOwner' = selOwner
    BY <1>1, <1>2, <1>5, StillAnnounced DEF Claiming
  <2> QED BY <2>1, <2>2 DEF Undisturbed
<1> QED BY <1>4, <1>5 DEF OnDestroyNotify, ClaimSucceeded

LEMMA OnTimerUndisturbed ==
  ASSUME Before, MayKill, NEW c \in Watchers, c \in connected, NEW o \in Owners, OnTimer(o)
  PROVE  Undisturbed(c)
<1> DEFINE p == prev_owner[o]
           v == creator[p]
           kills == force_kill[o] /\ p \in live
<1>1. ServerTypeOK /\ queue \in Queues /\ force_kill[o]
  BY BeforeFacts DEF Before, TypeOK, ServerTypeOK, Queues, OnTimer, MayKill
<1>2. UNCHANGED nextWin
  BY DEF OnTimer
<1>3. CASE kills
  <2>1. v \in Owners /\ CloseDown(v, lostWindow[v], window[v])
    BY <1>1, <1>3, WindowFacts DEF OnTimer
  <2>2. PICK q : q = CloseDownQueues(v, lostWindow[v], window[v])
    OBVIOUS
  <2>3. queue' = Broadcast(q)
    BY <1>1, <1>3, <2>2 DEF OnTimer, ClaimSucceeded
  <2>4. q \in Queues
    BY <1>1, <2>2, CloseDownQueuesType
  <2>5. Events(queue'[c]) = Events(q[c]) \cup {Manager}
    BY <2>3, <2>4, BroadcastToWatcher
  <2>6. ServerKept(c)
    BY <1>1, <1>2, <2>1, <2>2, <2>5, CloseDownKept
  <2> QED BY <2>5, <2>6 DEF Undisturbed
<1>4. CASE ~kills
  <2>1. UNCHANGED <<connected, live, mask, selOwner>> /\ queue' = Broadcast(queue)
    BY <1>1, <1>4 DEF OnTimer, ClaimSucceeded
  <2>2. Events(queue'[c]) = Events(queue[c]) \cup {Manager}
    BY <1>1, <2>1, BroadcastToWatcher
  <2>3. ServerKept(c)
    BY <1>1, <1>2, <2>1, <2>2, QuietKept
  <2> QED BY <2>2, <2>3 DEF Undisturbed
<1> QED BY <1>3, <1>4

LEMMA GoneUndisturbed ==
  ASSUME Before, NEW c \in Watchers, c \in connected, NEW o \in Owners, Gone(o)
  PROVE  Undisturbed(c)
<1>1. ServerTypeOK
  BY DEF Before, TypeOK
<1>2. /\ CloseDown(o, lostWindow[o], window[o])
      /\ queue' = CloseDownQueues(o, lostWindow[o], window[o])
      /\ UNCHANGED <<nextWin, creator, state, call>>
  BY DEF Gone, ownerVars, objectVars
<1>3. PICK q : q = CloseDownQueues(o, lostWindow[o], window[o])[c]
  OBVIOUS
<1>4. Events(q) \subseteq Events(queue'[c])
  BY <1>2, <1>3
<1>5. ServerKept(c) /\ selOwner' \in {selOwner, None}
  BY <1>1, <1>2, <1>3, <1>4, CloseDownKept
<1>6. Announced' => Announced /\ selOwner' = selOwner
  BY <1>1, <1>2, <1>5, StillAnnounced DEF Claiming
<1> QED BY <1>5, <1>6 DEF Undisturbed

LEMMA ForeignDestroyUndisturbed ==
  ASSUME Before, NEW c \in Watchers, c \in connected, NEW w, ForeignDestroy(w)
  PROVE  Undisturbed(c)
<1>1. ServerTypeOK /\ mask \in Masks /\ queue \in Queues
  BY DEF Before, TypeOK, ServerTypeOK, Masks, Queues
<1>2. DestroyWindow(queue, w, mask) /\ UNCHANGED <<connected, creator, nextWin, state, call>>
  BY DEF ForeignDestroy, ownerVars, objectVars
<1>3. ServerKept(c) /\ selOwner' \in {selOwner, None}
  BY <1>1, <1>2, DestroyWindowKept
<1>4. Announced' => Announced /\ selOwner' = selOwner
  BY <1>1, <1>2, <1>3, StillAnnounced DEF Claiming
<1> QED BY <1>3, <1>4 DEF Undisturbed

LEMMA MayKillKept ==
  ASSUME OwnerTypeOK, MayKill, [Next]_vars
  PROVE  MayKill'
<1> SUFFICES ASSUME NEW d \in Owners, state'[d] = "WaitingForPreviousOwner"
             PROVE  force_kill'[d]
  BY DEF MayKill
<1>1. ASSUME NEW o \in Owners, GotTimestamp(o) PROVE force_kill'[d]
  BY <1>1 DEF GotTimestamp, ClaimSucceeded, OwnerTypeOK, MayKill
<1>2. ASSUME NEW o \in Owners, NEW f \in BOOLEAN, NEW k \in BOOLEAN, Claim(o, f, k)
      PROVE  force_kill'[d]
  BY <1>2 DEF Claim, OwnerTypeOK, MayKill
<1>3. ASSUME NEW o \in Owners, \/ Release(o) \/ ClaimSend(o) \/ OnPropertyNotify(o)
                               \/ OnSelectionClear(o) \/ FinishSelectionClear(o)
      PROVE  force_kill'[d]
  BY <1>3 DEF Release, ClaimSend, OnPropertyNotify, OnSelectionClear, FinishSelectionClear,
              OwnerTypeOK, MayKill
<1>4. ASSUME NEW o \in Owners, OnDestroyNotify(o) \/ OnTimer(o) \/ Gone(o)
      PROVE  force_kill'[d]
  <2>1. force_kill' = force_kill
    BY <1>4 DEF OnDestroyNotify, OnTimer, Gone, ownerVars, objectVars
  <2>2. state' = [state EXCEPT ![o] = "Idle"] \/ state' = state
    BY <1>4 DEF OnDestroyNotify, OnTimer, Gone, ownerVars, objectVars, ClaimSucceeded
  <2> QED BY <2>1, <2>2 DEF OwnerTypeOK, MayKill
<1>5. ASSUME UNCHANGED <<state, force_kill>> PROVE force_kill'[d]
  BY <1>5 DEF MayKill
<1>6. ASSUME NEW w, ForeignDestroy(w) PROVE UNCHANGED <<state, force_kill>>
  BY <1>6 DEF ForeignDestroy, ownerVars, objectVars
<1>7. UNCHANGED ownerVars \/ UNCHANGED vars => UNCHANGED <<state, force_kill>>
  BY DEF vars, ownerVars, objectVars
<1> QED BY <1>1, <1>2, <1>3, <1>4, <1>5, <1>6, <1>7
        DEF Next, OwnerStep, Delete, Accident, Crash

-----------------------------------------------------------------------------
(* The steps of a watcher                                                  *)

\* A request of another watcher takes nothing away.
LEMMA OtherWatcher ==
  ASSUME ServerTypeOK, WatcherTypeOK, NEW c \in Watchers, NEW d \in Watchers \ {c},
         WatcherStep(c), UNCHANGED ownerVars, WatcherInv(d)
  PROVE  WatcherInv(d)'
<1>1. /\ UNCHANGED <<live, creator, nextWin, selOwner, state, call>>
      /\ step'[d] = step[d] /\ selection_owner'[d] = selection_owner[d]
      /\ current'[d] = current[d] /\ err'[d] = err[d]
      /\ onDestroy'[d] = onDestroy[d] /\ told'[d] = told[d]
  BY DEF WatcherStep, WatcherInitCall, OwnerCall, OwnerRead, OwnerSelect, OwnerVerify,
         OnManager, OnOwnerDestroyed, Dispatch, Return, Goto, serverVars, ownerVars, objectVars,
         WatcherTypeOK
<1>2. connected \subseteq connected' /\ queue' \in {queue, Consume(c)}
  BY DEF WatcherStep, WatcherInitCall, OwnerCall, OwnerRead, OwnerSelect, OwnerVerify,
         OnManager, OnOwnerDestroyed, Dispatch, serverVars
<1>3. queue'[d] = queue[d]
  <2>1. c \in Clients /\ d \in Clients
    BY DEF Clients
  <2> QED BY <1>2, <2>1 DEF Consume, ServerTypeOK
<1>4. \A x \in live : mask[x] \subseteq mask'[x]
  <2>1. \/ mask' = mask
        \/ current[c] \in live /\ mask' = [mask EXCEPT ![current[c]] = @ \cup {c}]
    BY DEF WatcherStep, WatcherInitCall, OwnerCall, OwnerRead, OwnerSelect, OwnerVerify,
           OnManager, OnOwnerDestroyed, Dispatch, serverVars
  <2> QED BY <2>1 DEF ServerTypeOK
<1>5. \A x : Hears(d, x) => Hears(d, x)'
  BY <1>1, <1>3, <1>4 DEF Hears
<1>6. Announced' <=> Announced
  BY <1>1 DEF Announced, Claiming
<1>7. Follows(d) => Follows(d)'
  BY <1>1, <1>3 DEF Follows
<1>8. Following(d) => Following(d)'
  <2>1. PICK w : w = selection_owner[d]
    OBVIOUS
  <2>2. Hears(d, w) => Hears(d, w)'
    BY <1>5
  <2>3. Hears(d, selection_owner[d])' <=> Hears(d, w)'
    BY <1>1, <2>1 DEF Hears
  <2> QED BY <1>1, <2>1, <2>2, <2>3 DEF Following
<1>9. Selecting(d) => Selecting(d)'
  <2>1. PICK w : w = current[d]
    OBVIOUS
  <2>2. Hears(d, w) => Hears(d, w)'
    BY <1>5
  <2>3. Hears(d, current[d])' <=> Hears(d, w)'
    BY <1>1, <2>1 DEF Hears
  <2> QED BY <1>1, <2>1, <2>2, <2>3 DEF Selecting
<1> QED BY <1>1, <1>2, <1>6, <1>7, <1>8, <1>9 DEF WatcherInv

\* init(), and the call of the application.
LEMMA CallsKeep ==
  ASSUME ServerTypeOK, WatcherTypeOK, NEW c \in Watchers, WatcherInv(c),
         WatcherInitCall(c) \/ OwnerCall(c), UNCHANGED ownerVars
  PROVE  WatcherInv(c)'
<1>1. /\ UNCHANGED <<live, nextWin, mask, selOwner, queue, selection_owner, current, err,
                     onDestroy, told>>
      /\ step'[c] = "read" /\ connected' \in {connected, connected \cup {c}}
      /\ step[c] = "new" => c \in connected'
  BY DEF WatcherInitCall, OwnerCall, Goto, serverVars, WatcherTypeOK
<1>2. Following(c)
  BY DEF WatcherInv, Following
<1>3. Following(c)'
  BY <1>1, <1>2 DEF Following, Hears
<1>4. Selecting(c)' /\ Follows(c)'
  BY <1>1 DEF Selecting, Follows
<1>5. c \in connected'
  BY <1>1 DEF WatcherInv
<1> QED BY <1>1, <1>3, <1>4, <1>5 DEF WatcherInv

\* owner() returns at once, or goes on with the window it has read.
LEMMA OwnerReadKeeps ==
  ASSUME ServerTypeOK, WatcherTypeOK, NEW c \in Watchers, WatcherInv(c),
         OwnerRead(c), UNCHANGED ownerVars
  PROVE  WatcherInv(c)'
<1>1. /\ UNCHANGED <<connected, live, nextWin, mask, selOwner, creator, queue, selection_owner>>
      /\ UNCHANGED <<state, call>> /\ step[c] = "read"
  BY DEF OwnerRead, serverVars, ownerVars, objectVars
<1>2. c \in connected /\ Following(c)
  BY <1>1 DEF WatcherInv
<1>3. CASE selOwner = None \/ selOwner = selection_owner[c]
  <2>1. /\ step'[c] = "idle" /\ ~onDestroy'[c]
        /\ told'[c] = IF onDestroy[c] /\ selOwner = None THEN None ELSE told[c]
    BY <1>3 DEF OwnerRead, Return, Goto, WatcherTypeOK
  <2>2. Following(c)'
    BY <1>1, <1>2, <2>1 DEF Following, Hears
  <2>3. Announced' => Follows(c)'
    BY <1>1, <1>3, <2>1 DEF Announced, Follows
  <2> QED BY <1>1, <1>2, <2>1, <2>2, <2>3 DEF WatcherInv, Selecting
<1>4. CASE ~(selOwner = None \/ selOwner = selection_owner[c])
  <2>1. /\ step'[c] = "select" /\ current'[c] = selOwner /\ UNCHANGED <<err, onDestroy, told>>
    BY <1>4 DEF OwnerRead, Goto, WatcherTypeOK
  <2>2. Following(c)'
    BY <1>1, <1>2, <2>1 DEF Following, Hears
  <2>3. selOwner < nextWin
    BY <1>4, WindowFacts
  <2>4. Follows(c)' /\ Selecting(c)'
    BY <1>1, <2>1, <2>3 DEF Follows, Selecting
  <2> QED BY <1>1, <1>2, <2>1, <2>2, <2>4 DEF WatcherInv
<1> QED BY <1>3, <1>4

LEMMA OwnerSelectKeeps ==
  ASSUME ServerTypeOK, WatcherTypeOK, NEW c \in Watchers, WatcherInv(c),
         OwnerSelect(c), UNCHANGED ownerVars
  PROVE  WatcherInv(c)'
<1>1. /\ UNCHANGED <<connected, live, nextWin, selOwner, creator, queue, selection_owner,
                     current, onDestroy, told, state, call>>
      /\ step[c] = "select" /\ step'[c] = "verify"
      /\ err'[c] <=> current[c] \notin live
  BY DEF OwnerSelect, Goto, ownerVars, objectVars, WatcherTypeOK
<1>2. c \in connected /\ Following(c) /\ Selecting(c) /\ (Announced => Follows(c))
  BY <1>1 DEF WatcherInv
<1>3. /\ \A x \in live : mask[x] \subseteq mask'[x]
      /\ current[c] \in live => c \in mask'[current[c]]
  BY DEF OwnerSelect, ServerTypeOK
<1>4. Following(c)'
  BY <1>1, <1>2, <1>3 DEF Following, Hears
<1>5. Selecting(c)'
  BY <1>1, <1>2, <1>3 DEF Selecting, Hears
<1>6. Announced' => Follows(c)'
  BY <1>1, <1>2 DEF Announced, Claiming, Follows
<1> QED BY <1>1, <1>2, <1>4, <1>5, <1>6 DEF WatcherInv

LEMMA OwnerVerifyKeeps ==
  ASSUME ServerTypeOK, WatcherTypeOK, NEW c \in Watchers, WatcherInv(c),
         OwnerVerify(c), UNCHANGED ownerVars
  PROVE  WatcherInv(c)'
<1>1. /\ UNCHANGED <<connected, live, nextWin, mask, selOwner, creator, queue, state, call>>
      /\ step[c] = "verify" /\ step'[c] = "idle" /\ ~onDestroy'[c]
  BY DEF OwnerVerify, Return, Goto, serverVars, ownerVars, objectVars, WatcherTypeOK
<1>2. c \in connected /\ Following(c) /\ Selecting(c) /\ (Announced => Follows(c))
  BY <1>1 DEF WatcherInv
<1>3. CASE OwnerUnchanged(c)
  <2>1. selection_owner'[c] = current[c] /\ told'[c] = current[c] /\ current[c] = selOwner /\ ~err[c]
    BY <1>3 DEF OwnerVerify, OwnerUnchanged, Return, WatcherTypeOK
  <2>2. Hears(c, current[c])
    BY <1>1, <1>2, <2>1 DEF Selecting
  <2>3. Following(c)'
    BY <1>1, <2>1, <2>2 DEF Following, Hears
  <2>4. Follows(c)'
    BY <1>1, <2>1 DEF Follows
  <2> QED BY <1>1, <1>2, <2>3, <2>4 DEF WatcherInv, Selecting
<1>4. CASE ~OwnerUnchanged(c)
  <2>1. selection_owner'[c] = None
    BY <1>4 DEF OwnerVerify, WatcherTypeOK
  <2>2. Following(c)'
    BY <1>1, <2>1 DEF Following
  <2>3. Announced' => Follows(c)'
    <3> SUFFICES ASSUME Announced' PROVE Manager \in Events(queue[c])
      BY <1>1 DEF Follows
    <3>1. Announced
      BY <1>1 DEF Announced, Claiming
    <3>2. current[c] = selOwner => ~err[c]
      BY <1>1, <1>2, <3>1, WindowFacts DEF Announced, Selecting
    <3>3. current[c] # selOwner
      BY <1>4, <3>2 DEF OwnerUnchanged
    <3> QED BY <1>1, <1>2, <3>1, <3>3 DEF Follows
  <2> QED BY <1>1, <1>2, <2>2, <2>3 DEF WatcherInv, Selecting
<1> QED BY <1>3, <1>4

\* A MANAGER message, or the end of a window.
LEMMA DispatchKeeps ==
  ASSUME ServerTypeOK, WatcherTypeOK, NEW c \in Watchers, WatcherInv(c),
         OnManager(c) \/ OnOwnerDestroyed(c), UNCHANGED ownerVars
  PROVE  WatcherInv(c)'
<1>1. /\ UNCHANGED <<connected, live, nextWin, mask, selOwner, creator, state, call>>
      /\ UNCHANGED <<current, err, told>>
      /\ step[c] = "idle" /\ queue[c] # <<>> /\ queue' = Consume(c)
  BY DEF OnManager, OnOwnerDestroyed, Dispatch, ownerVars, objectVars
<1>2. c \in connected /\ Following(c) /\ (Announced => Follows(c))
  BY <1>1 DEF WatcherInv
<1>3. Events(queue[c]) = {Head(queue[c])} \cup Events(queue'[c])
  <2>1. c \in Clients /\ queue[c] \in Seq(Event)
    BY DEF Clients, ServerTypeOK
  <2>2. queue'[c] = Tail(queue[c])
    BY <1>1, <2>1 DEF Consume, ServerTypeOK
  <2> QED BY <1>1, <2>1, <2>2, EventsTail
<1>4. PICK ev : ev = Head(queue[c])
  OBVIOUS
<1>5. CASE OnManager(c)
  <2>1. /\ step'[c] = "read" /\ ev.type = "Manager" /\ UNCHANGED <<selection_owner, onDestroy>>
    BY <1>4, <1>5 DEF OnManager, Dispatch, Goto, WatcherTypeOK
  <2>2. \A w : DestroyNotify(w) # ev
    BY <2>1 DEF DestroyNotify
  <2>3. Following(c)'
    BY <1>1, <1>2, <1>3, <1>4, <2>1, <2>2 DEF Following, Hears
  <2> QED BY <1>1, <1>2, <2>1, <2>3 DEF WatcherInv, Selecting, Follows
<1>6. CASE OnOwnerDestroyed(c) /\ (selection_owner[c] = None \/ ev.window # selection_owner[c])
  <2>1. UNCHANGED <<selection_owner, step, onDestroy>> /\ ev.type = "DestroyNotify"
    BY <1>4, <1>6 DEF OnOwnerDestroyed, Dispatch
  <2>2. selection_owner[c] # None => DestroyNotify(selection_owner[c]) # ev
    BY <1>6 DEF DestroyNotify
  <2>3. Following(c)'
    BY <1>1, <1>2, <1>3, <1>4, <2>1, <2>2 DEF Following, Hears
  <2>4. Manager # ev
    BY <2>1 DEF Manager
  <2>5. Announced' => Follows(c)'
    BY <1>1, <1>2, <1>3, <1>4, <2>1, <2>4 DEF Announced, Claiming, Follows
  <2> QED BY <1>1, <1>2, <2>1, <2>3, <2>5 DEF WatcherInv, Selecting
<1>7. CASE OnOwnerDestroyed(c) /\ ~(selection_owner[c] = None \/ ev.window # selection_owner[c])
  <2>1. selection_owner'[c] = None /\ step'[c] = "read"
    BY <1>4, <1>7 DEF OnOwnerDestroyed, Goto, WatcherTypeOK
  <2> QED BY <1>1, <1>2, <2>1 DEF WatcherInv, Selecting, Follows, Following
<1> QED BY <1>5, <1>6, <1>7

LEMMA WatcherStepKeeps ==
  ASSUME ServerTypeOK, WatcherTypeOK, NEW c \in Watchers, WatcherInv(c),
         WatcherStep(c), UNCHANGED ownerVars
  PROVE  WatcherInv(c)'
BY CallsKeep, OwnerReadKeeps, OwnerSelectKeeps, OwnerVerifyKeeps, DispatchKeeps DEF WatcherStep

LEMMA WatchersInvInit == Init => WatchersInv
BY DEF Init, OwnerInit, WatcherInit, WatchersInv, MayKill, WatcherInv

LEMMA WatchersInvNext == FullInv /\ FullInv' /\ WatchersInv /\ [Next]_vars => WatchersInv'
<1> SUFFICES ASSUME FullInv, FullInv', WatchersInv, [Next]_vars PROVE WatchersInv'
  OBVIOUS
<1>1. Before /\ ServerTypeOK /\ ServerTypeOK' /\ OwnerTypeOK /\ WatcherTypeOK
  BY DEF FullInv, Before, TypeOK
<1>2. MayKill'
  BY <1>1, MayKillKept DEF WatchersInv
<1>3. ASSUME NEW c \in Watchers PROVE WatcherInv(c)'
  <2>1. WatcherInv(c) /\ MayKill
    BY DEF WatchersInv
  <2>2. step[c] # "new" => c \in connected
    BY <2>1 DEF WatcherInv
  <2>3. ASSUME NEW o \in Owners, OwnerStep(o), UNCHANGED watcherVars PROVE WatcherInv(c)'
    <3>1. ASSUME c \in connected PROVE Undisturbed(c)
      BY <1>1, <2>1, <2>3, <3>1, ReleaseUndisturbed, ClaimUndisturbed, ClaimSendUndisturbed,
         OnPropertyNotifyUndisturbed, GotTimestampUndisturbed, OnSelectionClearUndisturbed,
         FinishSelectionClearUndisturbed, OnDestroyNotifyUndisturbed, OnTimerUndisturbed,
         GoneUndisturbed DEF OwnerStep, Delete
    <3> QED BY <1>1, <2>1, <2>2, <2>3, <3>1, UndisturbedKeeps
  <2>4. ASSUME Accident PROVE WatcherInv(c)'
    <3>1. ASSUME c \in connected PROVE Undisturbed(c)
      BY <1>1, <2>4, <3>1, GoneUndisturbed, ForeignDestroyUndisturbed DEF Accident, Crash
    <3>2. UNCHANGED watcherVars
      BY <2>4 DEF Accident
    <3> QED BY <1>1, <2>1, <2>2, <3>1, <3>2, UndisturbedKeeps
  <2>5. ASSUME NEW d \in Watchers, WatcherStep(d), UNCHANGED ownerVars PROVE WatcherInv(c)'
    <3>1. CASE d = c
      BY <1>1, <2>1, <2>5, <3>1, WatcherStepKeeps
    <3>2. CASE d # c
      BY <1>1, <2>1, <2>5, <3>2, OtherWatcher
    <3> QED BY <3>1, <3>2
  <2>6. ASSUME UNCHANGED vars PROVE WatcherInv(c)'
    BY <2>1, <2>6 DEF vars, serverVars, ownerVars, objectVars, watcherVars, WatcherInv, Selecting,
       Following, Follows, Hears, Announced, Claiming
  <2> QED BY <2>3, <2>4, <2>5, <2>6 DEF Next
<1> QED BY <1>2, <1>3 DEF WatchersInv

\* kselectionwatcher.cpp: whatever changes between the three requests of owner(), once every
\* event is handled a watcher follows the owner the server knows, and has announced it.
THEOREM WatchersAlwaysConverge == Spec => []WatcherConverges
<1>1. Init => WatchersInv
  BY WatchersInvInit
<1>2. FullInv /\ FullInv' /\ WatchersInv /\ [Next]_vars => WatchersInv'
  BY WatchersInvNext
<1>3. FullInv /\ WatchersInv => WatcherConverges
  BY WatchersConverge
<1> QED BY <1>1, <1>2, <1>3, FullInvAlways, PTL DEF Spec
=============================================================================

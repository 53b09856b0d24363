---------------------------- MODULE KStartupInfo ----------------------------
(***************************************************************************)
(* KStartupInfo (src/kstartupinfo.cpp): the object with which a process    *)
(* follows the applications that are being started.  It learns of them     *)
(* from messages ("new:", "change:", "remove:") that any client may        *)
(* broadcast in any order, from windows that appear, and forgets them      *)
(* after a timeout.  Other code is told with gotNewStartup(),              *)
(* gotStartupChange() and gotRemoveStartup().                              *)
(*                                                                         *)
(* Ids are naturals, ordered as the keys of the QMaps are; NullId is the   *)
(* id of a message without one.                                            *)
(***************************************************************************)
EXTENDS KStartupInfoData, Sequences, FiniteSets, Functions

CONSTANTS Ids,            \* startup ids
          Payloads,       \* data a message may carry
          WindowKinds,    \* properties of windows that may appear
          FlagChoices,    \* flags the object may be created with
          Timeouts,       \* values of the timeout
          SilentFactor,   \* how much longer a silent startup lives, 20
          EnvTimeout,     \* {n} if KSTARTUPINFO_TIMEOUT is n, {} if unset
          MaxMessages,    \* bound on the messages received
          MaxWindows      \* bound on the windows that are added or checked

NullId == 0

Flags == {"CleanOnCantDetect", "DisableKWinModule", "AnnounceSilenceChanges"}

\* A window without a startup id has {}; one whose id is "" or "0" has {NullId}.
\* Its class is the set of res_name and res_class; a special window is of a
\* type that is ignored when it cannot be matched, or a transient one.
WindowKind == [id : SUBSET (Ids \cup {NullId}), pid : Pids \cup {0},
               hostname : HostNames, class : SUBSET ClassNames, special : BOOLEAN]

ASSUME KStartupInfoAssumption ==
  /\ Ids \subseteq Nat \ {NullId}
  /\ Payloads \subseteq Data
  /\ WindowKinds \subseteq WindowKind
  /\ FlagChoices \subseteq SUBSET Flags
  /\ Timeouts \subseteq Nat /\ Timeouts # {}
  /\ SilentFactor \in Nat
  /\ EnvTimeout \subseteq Nat
  /\ MaxMessages \in Nat /\ MaxWindows \in Nat

VARIABLES
  flags,
  startups,           \* announced startups
  silent_startups,    \* silenced ones, not announced
  uninited_startups,  \* ones that had change: but no new: yet
  timeout,
  cleanup,            \* the cleanup timer runs
  noAge,              \* setTimeout() has scheduled startups_cleanup_no_age()
  delayed,            \* posted DelayedWindowEvents, oldest first
  received,           \* messages received so far
  windows,            \* windows added or checked so far
  announced           \* ids a listener has been told of and not yet told gone

maps == <<startups, silent_startups, uninited_startups>>
bounds == <<received, windows>>
vars == <<flags, maps, timeout, cleanup, noAge, delayed, bounds, announced>>

\* An entry of a map: the data and its age in seconds.
Entry == [data : Data, age : Nat]

EmptyMap == [i \in {} |-> [data |-> EmptyData, age |-> 0]]

Put(map, id, e) == [i \in DOMAIN map \cup {id} |-> IF i = id THEN e ELSE map[i]]
Without(map, S) == Restrict(map, DOMAIN map \ S)

Init ==
  /\ flags \in FlagChoices
  /\ startups = EmptyMap
  /\ silent_startups = EmptyMap
  /\ uninited_startups = EmptyMap
  /\ timeout \in Timeouts
  /\ cleanup = FALSE
  /\ noAge = FALSE
  /\ delayed = <<>>
  /\ received = 0
  /\ windows = 0
  /\ announced = {}

-----------------------------------------------------------------------------
(* Signals                                                                 *)

GotNewStartup(id) == announced' = announced \cup {id}
GotRemoveStartup(S) == announced' = announced \ S
GotStartupChange(id) == UNCHANGED announced

-----------------------------------------------------------------------------
(* new: and change:                                                        *)

Silenced(e) ==
  e.data.silent = "Yes" /\ "AnnounceSilenceChanges" \notin flags

\* new_startup_info_internal(), by the map that has the id.
UpdateStartup(id, data) ==
  LET e == [data |-> Update(startups[id].data, data), age |-> 0] IN
  /\ id \in DOMAIN startups
  /\ IF Silenced(e)
       THEN /\ silent_startups' = Put(silent_startups, id, e)
            /\ startups' = Without(startups, {id})
            /\ GotRemoveStartup({id})
       ELSE /\ startups' = Put(startups, id, e)
            /\ GotStartupChange(id)
            /\ UNCHANGED silent_startups
  /\ UNCHANGED <<uninited_startups, cleanup>>

UpdateSilentStartup(id, data) ==
  LET e == [data |-> Update(silent_startups[id].data, data), age |-> 0] IN
  /\ id \in DOMAIN silent_startups
  /\ IF e.data.silent # "Yes"
       THEN /\ startups' = Put(startups, id, e)
            /\ silent_startups' = Without(silent_startups, {id})
            /\ GotNewStartup(id)
       ELSE /\ silent_startups' = Put(silent_startups, id, e)
            /\ GotStartupChange(id)
            /\ UNCHANGED startups
  /\ UNCHANGED <<uninited_startups, cleanup>>

\* The id leaves the map of those that had no new: yet.
Inited_forgotten(id) == UNCHANGED uninited_startups
Inited(id) == uninited_startups' = Without(uninited_startups, {id})

UpdateUninitedStartup(id, data, update) ==
  LET u == uninited_startups[id]
      e == [data |-> Update(u.data, data), age |-> u.age] IN
  /\ id \in DOMAIN uninited_startups
  /\ IF ~update
       THEN /\ startups' = Put(startups, id, e)
            /\ Inited(id)
            /\ GotNewStartup(id)
       ELSE /\ uninited_startups' = Put(uninited_startups, id, e)
            /\ UNCHANGED <<startups, announced>>
  /\ UNCHANGED <<silent_startups, cleanup>>

AddStartup(id, data, update) ==
  LET e == [data |-> data, age |-> 0] IN
  /\ id \notin DOMAIN startups \cup DOMAIN silent_startups \cup DOMAIN uninited_startups
  /\ IF update
       THEN /\ uninited_startups' = Put(uninited_startups, id, e)
            /\ UNCHANGED <<startups, silent_startups, announced>>
     ELSE IF ~Silenced(e)
       THEN /\ startups' = Put(startups, id, e)
            /\ GotNewStartup(id)
            /\ UNCHANGED <<silent_startups, uninited_startups>>
     ELSE /\ silent_startups' = Put(silent_startups, id, e)
          /\ UNCHANGED <<startups, uninited_startups, announced>>
  /\ cleanup' = TRUE

\* !id.isNull()
Named_unchecked(id) == TRUE
Named(id) == id # NullId

\* got_message() of new: (update is FALSE) and of change: (update is TRUE)
GotStartupInfo(id, data, update) ==
  /\ received < MaxMessages
  /\ Named(id)
  /\ received' = received + 1
  /\ \/ UpdateStartup(id, data)
     \/ UpdateSilentStartup(id, data)
     \/ UpdateUninitedStartup(id, data, update)
     \/ AddStartup(id, data, update)
  /\ UNCHANGED <<flags, timeout, noAge, delayed, windows>>

-----------------------------------------------------------------------------
(* remove:                                                                 *)

\* removeAllStartupInfoInternal() on the maps s, q and u: the first map that
\* has the id loses it.
RemoveAll(id, s, q, u) ==
  /\ startups' = Without(s, {id})
  /\ silent_startups' = IF id \in DOMAIN s THEN q ELSE Without(q, {id})
  /\ uninited_startups' =
       IF id \in DOMAIN s \cup DOMAIN q THEN u ELSE Without(u, {id})
  /\ GotRemoveStartup(DOMAIN s \cap {id})

\* The map without the pids in the entry of id.
DropPids(map, id, pids) ==
  IF id \in DOMAIN map THEN [map EXCEPT ![id].data.pids = @ \ pids] ELSE map

\* remove_startup_pids(id, data): an id without any pid left is removed.
RemoveStartupPids(id, pids) ==
  LET s == DropPids(startups, id, pids)
      q == IF id \in DOMAIN s THEN silent_startups
                              ELSE DropPids(silent_startups, id, pids)
      u == IF id \in DOMAIN s \cup DOMAIN q THEN uninited_startups
           ELSE DropPids(uninited_startups, id, pids)
      left == IF id \in DOMAIN s THEN s[id].data.pids
              ELSE IF id \in DOMAIN q THEN q[id].data.pids
              ELSE IF id \in DOMAIN u THEN u[id].data.pids
              ELSE {}
  IN  IF left = {} THEN RemoveAll(id, s, q, u)
      ELSE /\ startups' = s /\ silent_startups' = q /\ uninited_startups' = u
           /\ UNCHANGED announced

\* remove_startup_pids(data): the first startup of that host which has the
\* first pid of the message.
FirstWithPid(pid, hostname) ==
  LET match == {i \in DOMAIN startups : /\ pid \in startups[i].data.pids
                                        /\ startups[i].data.hostname = hostname}
  IN  {i \in match : \A j \in match : i <= j}

\* got_remove_startup_info(); any pid of the message may be its first one
GotRemoveStartupInfo(id, data) ==
  /\ received < MaxMessages
  /\ received' = received + 1
  /\ IF data.pids = {}
       THEN RemoveAll(id, startups, silent_startups, uninited_startups)
     ELSE IF Named(id)
       THEN RemoveStartupPids(id, data.pids)
     ELSE \E pid \in data.pids :
            LET first == FirstWithPid(pid, data.hostname) IN
            IF first = {} THEN UNCHANGED <<maps, announced>>
            ELSE \E i \in first : RemoveStartupPids(i, data.pids)
  /\ UNCHANGED <<flags, timeout, cleanup, noAge, delayed, windows>>

-----------------------------------------------------------------------------
(* Windows                                                                 *)

\* The startups that find_pid() and find_wclass() remove: the first match.
FindPid(w) ==
  IF w.pid > 0 /\ w.hostname # "" THEN FirstWithPid(w.pid, w.hostname) ELSE {}

FindWClass(w) ==
  LET match == {i \in DOMAIN startups : FindWMClass(startups[i].data) \in w.class}
  IN  {i \in match : \A j \in match : i <= j}

\* The startups a window that does not name one is matched with.
Found(w) == IF FindPid(w) # {} THEN FindPid(w) ELSE FindWClass(w)

\* check_startup_internal(): what it returns
CheckResult(w) ==
  IF DOMAIN startups = {} THEN "NoMatch"
  ELSE IF w.id # {} THEN IF w.id \subseteq DOMAIN startups THEN "Match" ELSE "NoMatch"
  ELSE IF Found(w) # {} THEN "Match"
  ELSE IF w.special THEN "NoMatch" ELSE "CantDetect"

\* and the startups it removes: a window that names its startup removes none
CheckRemoves(w) == IF w.id # {} THEN {} ELSE Found(w)

\* removeStartupInfoInternal() for all ids of S
RemoveStartups_silently(S) ==
  /\ startups' = Without(startups, S)
  /\ UNCHANGED announced

RemoveStartups(S) ==
  /\ startups' = Without(startups, S)
  /\ GotRemoveStartup(S)

\* checkStartup(w)
CheckStartup(w) ==
  /\ windows < MaxWindows
  /\ windows' = windows + 1
  /\ RemoveStartups(CheckRemoves(w))
  /\ UNCHANGED <<flags, silent_startups, uninited_startups, timeout, cleanup,
                 noAge, delayed, received>>

\* slot_window_added(w)
SlotWindowAdded(w) ==
  /\ windows < MaxWindows
  /\ "DisableKWinModule" \notin flags
  /\ windows' = windows + 1
  /\ delayed' = Append(delayed, w)
  /\ UNCHANGED <<flags, maps, timeout, cleanup, noAge, received, announced>>

\* clean_all_noncompliant() removes these
Noncompliant == {i \in DOMAIN startups : startups[i].data.wmclass = "0"}

\* customEvent() and window_added()
WindowAdded ==
  LET w == Head(delayed) IN
  /\ delayed # <<>>
  /\ delayed' = Tail(delayed)
  /\ RemoveStartups(IF CheckResult(w) = "CantDetect" /\ "CleanOnCantDetect" \in flags
                      THEN Noncompliant ELSE CheckRemoves(w))
  /\ UNCHANGED <<flags, silent_startups, uninited_startups, timeout, cleanup,
                 noAge, bounds>>

-----------------------------------------------------------------------------
(* Timeouts                                                                *)

\* setTimeout(secs).  A second call before the first clean-up has run has the
\* same effect as one: cleaning up without ageing is idempotent.
SetTimeout(secs) ==
  /\ timeout' = secs
  /\ noAge' = TRUE
  /\ UNCHANGED <<flags, maps, cleanup, delayed, bounds, announced>>

\* How old an entry with the data d may get.
Lifetime(d) ==
  IF EnvTimeout # {} THEN CHOOSE n \in EnvTimeout : TRUE
  ELSE IF d.silent = "Yes" THEN timeout * SilentFactor
  ELSE timeout

Aged_frozen(map, by) == map
Aged(map, by) == [i \in DOMAIN map |-> [map[i] EXCEPT !.age = @ + by]]
Expired(map, by) == {i \in DOMAIN map : map[i].age + by >= Lifetime(map[i].data)}
Cleaned(map, by) == Without(Aged(map, by), Expired(map, by))

\* startups_cleanup_internal()
CleanupInternal(by) ==
  /\ startups' = Cleaned(startups, by)
  /\ silent_startups' = Cleaned(silent_startups, by)
  /\ uninited_startups' = Cleaned(uninited_startups, by)
  /\ GotRemoveStartup(Expired(startups, by))

\* The timer is stopped when there is nothing left to clean.
NothingToClean_announced == DOMAIN startups = {}
NothingToClean ==
  DOMAIN startups \cup DOMAIN silent_startups \cup DOMAIN uninited_startups = {}

\* startups_cleanup(), once a second
StartupsCleanup ==
  /\ cleanup
  /\ IF NothingToClean
       THEN cleanup' = FALSE /\ UNCHANGED <<maps, announced>>
       ELSE CleanupInternal(1) /\ UNCHANGED cleanup
  /\ UNCHANGED <<flags, timeout, noAge, delayed, bounds>>

StartupsCleanupNoAge ==
  /\ noAge
  /\ noAge' = FALSE
  /\ CleanupInternal(0)
  /\ UNCHANGED <<flags, timeout, cleanup, delayed, bounds>>

-----------------------------------------------------------------------------

Next ==
  \/ \E id \in Ids \cup {NullId}, d \in Payloads :
       \/ \E update \in BOOLEAN : GotStartupInfo(id, d, update)
       \/ GotRemoveStartupInfo(id, d)
  \/ \E w \in WindowKinds : CheckStartup(w) \/ SlotWindowAdded(w)
  \/ WindowAdded
  \/ \E secs \in Timeouts : SetTimeout(secs)
  \/ StartupsCleanup
  \/ StartupsCleanupNoAge

Spec == Init /\ [][Next]_vars

\* The event loop runs: timers fire and posted events are delivered.
FairSpec == /\ Spec
            /\ WF_vars(StartupsCleanup)
            /\ WF_vars(StartupsCleanupNoAge)
            /\ WF_vars(WindowAdded)

-----------------------------------------------------------------------------

IsMap(m) == DOMAIN m \subseteq Ids /\ \A i \in DOMAIN m : m[i] \in Entry

TypeOK ==
  /\ flags \in FlagChoices
  /\ IsMap(startups) /\ IsMap(silent_startups) /\ IsMap(uninited_startups)
  /\ timeout \in Timeouts
  /\ cleanup \in BOOLEAN /\ noAge \in BOOLEAN
  /\ delayed \in Seq(WindowKinds)
  /\ received \in 0..MaxMessages /\ windows \in 0..MaxWindows
  /\ announced \subseteq Ids

\* A startup is in one of the three maps only: lookups in
\* new_startup_info_internal() and removeAllStartupInfoInternal() stop at the
\* first map that has the id, so a second copy would outlive its removal.
MapsDisjoint ==
  /\ DOMAIN startups \cap DOMAIN silent_startups = {}
  /\ DOMAIN startups \cap DOMAIN uninited_startups = {}
  /\ DOMAIN silent_startups \cap DOMAIN uninited_startups = {}

\* What listeners have been told by gotNewStartup() and gotRemoveStartup() is
\* what the startups map holds, whichever of messages, windows, silencing and
\* timeouts put an entry there or took it away.
ListenersAgree == announced = DOMAIN startups

\* As long as any of the maps has an entry the cleanup timer runs, although
\* it is started only when an entry is added to empty-handed maps and stopped
\* by a later tick.
TimerRunsWhileNeeded ==
  DOMAIN startups \cup DOMAIN silent_startups \cup DOMAIN uninited_startups # {}
    => cleanup

\* Every startup is forgotten in the end, also when its remove: is lost.
EverythingForgotten ==
  \A id \in Ids :
    []<>(id \notin DOMAIN startups \cup DOMAIN silent_startups \cup DOMAIN uninited_startups)
=============================================================================

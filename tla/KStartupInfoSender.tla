-------------------------- MODULE KStartupInfoSender --------------------------
(***************************************************************************)
(* The sending side of startup notification (src/kstartupinfo.cpp).  A     *)
(* launcher makes a startup id, announces it with a "new:" message and     *)
(* hands it to the application in DESKTOP_STARTUP_ID; the application      *)
(* takes its user time from the id, may be given further ids, and ends the *)
(* startup with "remove:".  A listener reads the messages in the order     *)
(* they were broadcast.                                                    *)
(*                                                                         *)
(* Server time is not reduced here: ids carry its low 32 bits, printed as  *)
(* an unsigned or, by other toolkits, as a signed number.                  *)
(***************************************************************************)
EXTENDS KStartupInfoText, KXUtils

CONSTANTS Payloads,      \* data of new: messages
          Changes,       \* data of change: and remove: messages
          ForeignNames,  \* the part before _TIME of ids made by other launchers
          Screen,        \* the screen messages are sent on
          StartTime,     \* server time at the beginning
          MaxTime,       \* bound on the server time
          MaxIds,        \* bound on the ids made
          MaxMessages,   \* bound on the messages sent
          MaxInFlight    \* bound on the messages not heard yet

ASSUME SenderAssumption ==
  /\ Payloads # {} /\ Changes # {} /\ MaxNumber >= Modulus
  /\ StartTime \in Nat /\ MaxTime >= StartTime

VARIABLES now,        \* time of the X server
          env,        \* DESKTOP_STARTUP_ID of the launcher, <<>> if unset
          ids,        \* startup ids made so far
          running,    \* the application runs
          startup_id, \* s_startup_id of the application
          nextId,     \* QX11Info::nextStartupId() of the application
          userTime,   \* QX11Info::appUserTime() of the application
          appTime,    \* QX11Info::appTime() of the application
          sent,       \* number of messages sent
          wire,       \* messages broadcast and not heard yet
          known,      \* startups the listener keeps, with the PIDs of each
          \* ghosts
          said,       \* the data of wire, before they were written as text
          latest,     \* the latest time the application was given
          told        \* every message that should have been sent: kind, id, PIDs

times == <<userTime, appTime, latest>>
vars == <<now, env, ids, running, startup_id, nextId, times, sent, wire, said,
          known, told>>

Init ==
  /\ now = StartTime /\ env = <<>> /\ ids = 0
  /\ running = FALSE /\ startup_id = <<>> /\ nextId = <<>>
  /\ userTime = 0 /\ appTime = 0 /\ latest = 0
  /\ sent = 0 /\ wire = <<>> /\ said = <<>>
  /\ known = <<>> /\ told = <<>>

-----------------------------------------------------------------------------
(* Ids *)

IsNull(id) == id = <<>> \/ id = <<"0">>

\* The number after the last "_TIME", 0 if there is none
timestamp(id) ==
  LET marks == {i \in DOMAIN id : id[i] = "_TIME"}
  IN  IF IsNull(id) \/ marks = {} THEN 0
      ELSE get_num(SubSeq(id, Max(marks) + 1, Len(id)))

\* createNewStartupIdForTimestamp(): host name, time of day and pid make it unique
CreateNewStartupId == <<"host", ToString(ids), "_TIME", ToString(now % Modulus)>>

\* The id another toolkit makes at time t, its timestamp printed as a signed number
ForeignId(name, t) ==
  LET low == t % Modulus
  IN  name \o <<"_TIME", ToString(IF low >= Modulus \div 2 THEN low - Modulus ELSE low)>>

\* initId() with the given id
InitId(id) == IF id # <<>> THEN id ELSE IF env # <<>> THEN env ELSE CreateNewStartupId
CreatesId(id) == id = <<>> /\ env = <<>>

-----------------------------------------------------------------------------
(* Messages *)

Text(kind, id, d) ==
  IdText(id) \o <<Space>> \o to_text(d)
    \o (IF kind = "new:" THEN RequiredFields(d, Screen) ELSE <<>>)

Send(kind, id, d) ==
  /\ sent < MaxMessages /\ Len(wire) < MaxInFlight
  /\ sent' = sent + 1
  /\ wire' = Append(wire, [kind |-> kind, text |-> Text(kind, id, d)])
  /\ said' = Append(said, [kind |-> kind, id |-> id, data |-> d])

SendNothing == UNCHANGED <<sent, wire, said>>

\* For the history: listeners are to be told this.
Tell(kind, id, pids) == told' = Append(told, [kind |-> kind, id |-> id, pids |-> pids])

\* What a listener reads in a message
Read(m) == [kind |-> m.kind, id |-> ReadId(m.text), data |-> ReadData(m.text)]

-----------------------------------------------------------------------------
(* The listener; the maps, flags, timeouts and windows of its startups are *)
(* the subject of the module KStartupInfo.                                 *)

With(id, pids) == (id :> pids) @@ known
Without(id) == Restrict(known, DOMAIN known \ {id})
Pids(id) == IF id \in DOMAIN known THEN known[id] ELSE {}

\* got_startup_info(): the PIDs are added to those of a startup that is known.
GotStartupInfo(m) == IF IsNull(m.id) THEN known ELSE With(m.id, Pids(m.id) \cup m.data.pids)

\* remove_startup_pids(): the startup stays while it has other PIDs.
RemovePids(id, pids) ==
  LET left == Pids(id) \ pids
  IN  IF id \in DOMAIN known /\ left # {} THEN With(id, left) ELSE Without(id)

\* got_remove_startup_info()
RemovesAll_ever(m) == TRUE
RemovesAll(m) == m.data.pids = {}
GotRemoveStartupInfo(m) ==
  IF RemovesAll(m) THEN Without(m.id) ELSE RemovePids(m.id, m.data.pids)

\* got_message()
Hear ==
  /\ wire # <<>>
  /\ LET m == Read(Head(wire))
     IN  known' = IF m.kind = "remove:" THEN GotRemoveStartupInfo(m) ELSE GotStartupInfo(m)
  /\ wire' = Tail(wire) /\ said' = Tail(said)
  /\ UNCHANGED <<now, env, ids, running, startup_id, nextId, times, sent, told>>

-----------------------------------------------------------------------------
(* The launcher *)

\* KStartupInfoId::initId(""), setupStartupEnv(), sendStartup(), and the start of
\* the application, whose Qt takes the id from the environment.
Launch ==
  /\ ~running /\ ids < MaxIds
  /\ \E d \in Payloads : Send("new:", InitId(<<>>), d) /\ Tell("new:", InitId(<<>>), d.pids)
  /\ ids' = IF CreatesId(<<>>) THEN ids + 1 ELSE ids
  /\ env' = InitId(<<>>)
  /\ running' = TRUE
  /\ nextId' = InitId(<<>>)
  /\ UNCHANGED <<now, startup_id, times, known>>

\* resetStartupEnv()
ResetStartupEnv ==
  /\ env # <<>>
  /\ env' = <<>>
  /\ UNCHANGED <<now, ids, running, startup_id, nextId, times, sent, wire, said,
                 known, told>>

\* sendChange() by the launcher, for instance when it knows the pid
Change ==
  /\ ~IsNull(env)
  /\ \E d \in Changes : Send("change:", env, d) /\ Tell("change:", env, d.pids)
  /\ UNCHANGED <<now, env, ids, running, startup_id, nextId, times, known>>

\* sendFinish() with data, by a launcher that sees processes die
Finish ==
  /\ ~IsNull(env)
  /\ \E d \in Changes : Send("remove:", env, d) /\ Tell("remove:", env, d.pids)
  /\ UNCHANGED <<now, env, ids, running, startup_id, nextId, times, known>>

-----------------------------------------------------------------------------
(* The application *)

\* The low 32 bits of a time that is known to the application
Later(t, known_t) == known_t = 0 \/ timestampCompare(t, known_t) > 0

\* The times move to t, the number that the code has for the true time real.
TakeTime(t, real) ==
  /\ userTime' = IF Later(t, userTime) THEN t ELSE userTime
  /\ appTime' = IF Later(t, appTime) THEN t ELSE appTime
  /\ latest' = IF real > latest THEN real ELSE latest

\* setStartupId() with an id made at time real; nothing happens for the id it has.
SetStartupId(id, real) ==
  /\ startup_id' = IF id = <<>> /\ startup_id # <<>> THEN <<"0">> ELSE id
  /\ IF id # startup_id /\ timestamp(id) # 0 THEN TakeTime(timestamp(id), real)
     ELSE UNCHANGED times

Recent == {t \in {now - 1, now} : t > 0}

\* An application that runs already is given an id by another launcher, or none.
GetStartupId ==
  /\ running
  /\ \/ \E name \in ForeignNames, t \in Recent : SetStartupId(ForeignId(name, t), t)
     \/ SetStartupId(<<>>, 0)
  /\ UNCHANGED <<now, env, ids, running, nextId, sent, wire, said, known, told>>

\* updateUserTimestamp(0): the application asks the server for the time.
UpdateUserTimestamp ==
  /\ running
  /\ TakeTime(now % Modulus, now)
  /\ UNCHANGED <<now, env, ids, running, startup_id, nextId, sent, wire, said,
                 known, told>>

\* The id that appStarted() ends; an application that was launched has one
Started_own(id, next) == id
Started(id, next) == IF id = <<>> THEN next ELSE id

\* appStarted()
AppStarted ==
  /\ running
  /\ LET id == Started(startup_id, nextId)
     IN  IF IsNull(id) THEN SendNothing ELSE Send("remove:", id, EmptyInfo)
  /\ SetStartupId(<<"0">>, 0)
  /\ LET over == IF startup_id # <<>> THEN startup_id ELSE nextId
     IN  IF IsNull(over) THEN UNCHANGED told ELSE Tell("remove:", over, {})
  /\ UNCHANGED <<now, env, ids, running, nextId, known>>

\* The process ends, and with it what it knew.
Quit ==
  /\ running
  /\ running' = FALSE
  /\ startup_id' = <<>> /\ nextId' = <<>>
  /\ userTime' = 0 /\ appTime' = 0 /\ latest' = 0
  /\ UNCHANGED <<now, env, ids, sent, wire, said, known, told>>

\* Bound: an application gets a new user time within less than 2^31 ms.
Tick ==
  /\ now < MaxTime
  /\ latest # 0 => now + 1 - latest <= Reach
  /\ now' = now + 1
  /\ UNCHANGED <<env, ids, running, startup_id, nextId, times, sent, wire, said,
                 known, told>>

Next == Hear \/ Launch \/ ResetStartupEnv \/ Change \/ Finish
          \/ GetStartupId \/ UpdateUserTimestamp \/ AppStarted \/ Quit \/ Tick

Spec == Init /\ [][Next]_vars

-----------------------------------------------------------------------------
(* Properties *)

InfoOK(d) ==
  /\ d.desktop \in Numbers /\ d.desktop >= OnAllDesktops
  /\ d.screen \in Numbers /\ d.xinerama \in Numbers /\ d.pids \subseteq Numbers
  /\ d.silent \in {"Yes", "No", "Unknown"}

\* Times and counters keep their types, and a listener reads data and
\* a startup id in every message.
TypeOK ==
  /\ now \in StartTime..MaxTime /\ ids \in 0..MaxIds /\ sent \in 0..MaxMessages
  /\ running \in BOOLEAN
  /\ userTime \in Numbers /\ appTime \in Numbers /\ latest \in 0..MaxTime
  /\ Len(wire) = Len(said)
  /\ \A i \in DOMAIN wire : InfoOK(Read(wire[i]).data) /\ ~IsNull(Read(wire[i]).id)
  /\ \A id \in DOMAIN known : ~IsNull(id)

\* Fields that are written without escaping hold no character that needs it.
Plain(d) ==
  \A f \in {"icon", "wmclass", "application_id", "hostname"} :
    \A i \in DOMAIN d[f] :
      /\ d[f][i] \notin {Quote, Backslash}
      /\ f = "hostname" => d[f][i] # Space

\* Runs of white space count as one.
Collapsed(txt) ==
  Filtered(txt, LAMBDA i : txt[i] # Space \/ i = 1 \/ txt[i - 1] # Space)

\* What a listener should read of a message
Meant(m) ==
  LET d == m.data
      name == IF d.name # <<>> THEN d.name ELSE IF d.bin # <<>> THEN d.bin ELSE <<"UNKNOWN">>
      texts == [f \in {"bin", "name", "description", "icon", "wmclass", "application_id"} |->
                  Collapsed(IF f = "name" /\ m.kind = "new:" THEN name ELSE d[f])]
  IN  [kind |-> m.kind, id |-> Collapsed(m.id),
       data |-> [f \in DOMAIN d |->
                   IF f \in DOMAIN texts THEN texts[f]
                   ELSE IF f = "screen" /\ m.kind = "new:" /\ d.screen = -1 THEN Screen
                   ELSE d[f]]]

\* A listener reads what the sender meant: quoting keeps quotes, backslashes and
\* spaces of ids, names and descriptions apart from the syntax, numbers survive the
\* change of base of desktops, and a new: message always has a name and a screen.
Understood ==
  \A i \in DOMAIN wire : Plain(said[i].data) => Read(wire[i]) = Meant(said[i])

\* What a listener should know of id: nothing is left once it was told to remove
\* the startup, or each of its PIDs.
About(id) == {i \in DOMAIN told : told[i].id = id}
Dismisses(i, pid) == told[i].kind = "remove:" /\ (told[i].pids = {} \/ pid \in told[i].pids)
Left(id) ==
  {pid \in UNION {told[i].pids : i \in {k \in About(id) : told[k].kind # "remove:"}} :
     \E i \in About(id) :
       /\ told[i].kind # "remove:" /\ pid \in told[i].pids
       /\ \A j \in About(id) : j > i => ~Dismisses(j, pid)}
Starting(id) ==
  /\ About(id) # {}
  /\ told[Max(About(id))].kind # "remove:" \/ Left(id) # {}

\* A listener that has heard everything knows the startups that are not over, and no
\* other.  A startup is over when the application it was for has called appStarted(),
\* or when its last PID was reported dead: "the notification will be stopped only if
\* there's no other PID for it" (docs/README.kstartupinfo).  The id has come through
\* the environment, the application and several messages unchanged, and PIDs are
\* announced and withdrawn in any order.
LaunchEnds ==
  wire = <<>> =>
    \A id \in DOMAIN known \cup {told[i].id : i \in DOMAIN told} :
      id \in DOMAIN known <=> Starting(id)

\* The application's user time and server time are the latest ones it was given,
\* though ids of other launchers arrive late, their timestamps may be signed and
\* timestamps wrap around.  A time that is a multiple of 2^32 is excepted: its
\* timestamp, 0, means that there is none.
UserTimeLatest ==
  latest % Modulus # 0 => /\ userTime % Modulus = latest % Modulus
                          /\ appTime % Modulus = latest % Modulus
=============================================================================

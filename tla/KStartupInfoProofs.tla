------------------------- MODULE KStartupInfoProofs -------------------------
(***************************************************************************)
(* The invariants of KStartupInfo, for any ids, payloads, windows, flags   *)
(* and timeouts.                                                           *)
(***************************************************************************)
EXTENDS KStartupInfo, TLAPS

\* The maps as sets of ids: what the three invariants are about.
Inv == MapsDisjoint /\ ListenersAgree /\ TimerRunsWhileNeeded

\* The ids of a map after each of the ways in which the code changes it.
LEMMA WithoutDomain ==
  ASSUME NEW map, NEW S
  PROVE  DOMAIN Without(map, S) = DOMAIN map \ S
BY DEF Without, Restrict

LEMMA CleanedDomain ==
  ASSUME NEW map, NEW by
  PROVE  DOMAIN Cleaned(map, by) = DOMAIN map \ Expired(map, by)
BY WithoutDomain DEF Cleaned, Aged

LEMMA DropPidsDomain ==
  ASSUME NEW map, NEW id, NEW pids
  PROVE  DOMAIN DropPids(map, id, pids) = DOMAIN map
BY DEF DropPids

\* Initially the maps are empty, nothing is announced and no timer runs.
LEMMA InitInv == Init => Inv
BY DEF Init, Inv, MapsDisjoint, ListenersAgree, TimerRunsWhileNeeded, EmptyMap

\* new: and change: put an id into exactly one map, tell the listeners when
\* that is the first one, and start the timer when the id is new.
LEMMA UpdateStartupInv ==
  ASSUME Inv, NEW id, NEW data, UpdateStartup(id, data)
  PROVE  Inv'
<1> DEFINE e == [data |-> Update(startups[id].data, data), age |-> 0]
<1>1. /\ id \in DOMAIN startups
      /\ uninited_startups' = uninited_startups
      /\ cleanup' = cleanup
      /\ IF Silenced(e)
           THEN /\ silent_startups' = Put(silent_startups, id, e)
                /\ startups' = Without(startups, {id})
                /\ announced' = announced \ {id}
           ELSE /\ startups' = Put(startups, id, e)
                /\ announced' = announced
                /\ silent_startups' = silent_startups
  BY DEF UpdateStartup, GotRemoveStartup, GotStartupChange
<1> HIDE DEF e
<1>2. CASE Silenced(e)
  <2>1. /\ DOMAIN silent_startups' = DOMAIN silent_startups \cup {id}
        /\ DOMAIN startups' = DOMAIN startups \ {id}
    BY <1>1, <1>2 DEF Put, Without, Restrict
  <2> QED BY <1>1, <1>2, <2>1
             DEF Inv, MapsDisjoint, ListenersAgree, TimerRunsWhileNeeded
<1>3. CASE ~Silenced(e)
  <2>1. DOMAIN startups' = DOMAIN startups \cup {id}
    BY <1>1, <1>3 DEF Put
  <2> QED BY <1>1, <1>3, <2>1
             DEF Inv, MapsDisjoint, ListenersAgree, TimerRunsWhileNeeded
<1> QED BY <1>2, <1>3

LEMMA UpdateSilentStartupInv ==
  ASSUME Inv, NEW id, NEW data, UpdateSilentStartup(id, data)
  PROVE  Inv'
<1> DEFINE e == [data |-> Update(silent_startups[id].data, data), age |-> 0]
<1>1. /\ id \in DOMAIN silent_startups
      /\ uninited_startups' = uninited_startups
      /\ cleanup' = cleanup
      /\ IF e.data.silent # "Yes"
           THEN /\ startups' = Put(startups, id, e)
                /\ silent_startups' = Without(silent_startups, {id})
                /\ announced' = announced \cup {id}
           ELSE /\ silent_startups' = Put(silent_startups, id, e)
                /\ announced' = announced
                /\ startups' = startups
  BY DEF UpdateSilentStartup, GotNewStartup, GotStartupChange
<1> HIDE DEF e
<1>2. CASE e.data.silent # "Yes"
  <2>1. /\ DOMAIN startups' = DOMAIN startups \cup {id}
        /\ DOMAIN silent_startups' = DOMAIN silent_startups \ {id}
    BY <1>1, <1>2 DEF Put, Without, Restrict
  <2> QED BY <1>1, <1>2, <2>1
             DEF Inv, MapsDisjoint, ListenersAgree, TimerRunsWhileNeeded
<1>3. CASE e.data.silent = "Yes"
  <2>1. DOMAIN silent_startups' = DOMAIN silent_startups \cup {id}
    BY <1>1, <1>3 DEF Put
  <2> QED BY <1>1, <1>3, <2>1
             DEF Inv, MapsDisjoint, ListenersAgree, TimerRunsWhileNeeded
<1> QED BY <1>2, <1>3

LEMMA UpdateUninitedStartupInv ==
  ASSUME Inv, NEW id, NEW data, NEW update,
         UpdateUninitedStartup(id, data, update)
  PROVE  Inv'
<1> DEFINE e == [data |-> Update(uninited_startups[id].data, data),
                 age |-> uninited_startups[id].age]
<1>1. /\ id \in DOMAIN uninited_startups
      /\ silent_startups' = silent_startups
      /\ cleanup' = cleanup
      /\ IF ~update
           THEN /\ startups' = Put(startups, id, e)
                /\ uninited_startups' = Without(uninited_startups, {id})
                /\ announced' = announced \cup {id}
           ELSE /\ uninited_startups' = Put(uninited_startups, id, e)
                /\ announced' = announced
                /\ startups' = startups
  BY DEF UpdateUninitedStartup, Inited, GotNewStartup
<1> HIDE DEF e
<1>2. CASE ~update
  <2>1. /\ DOMAIN startups' = DOMAIN startups \cup {id}
        /\ DOMAIN uninited_startups' = DOMAIN uninited_startups \ {id}
    BY <1>1, <1>2 DEF Put, Without, Restrict
  <2> QED BY <1>1, <1>2, <2>1
             DEF Inv, MapsDisjoint, ListenersAgree, TimerRunsWhileNeeded
<1>3. CASE update
  <2>1. DOMAIN uninited_startups' = DOMAIN uninited_startups \cup {id}
    BY <1>1, <1>3 DEF Put
  <2> QED BY <1>1, <1>3, <2>1
             DEF Inv, MapsDisjoint, ListenersAgree, TimerRunsWhileNeeded
<1> QED BY <1>2, <1>3

LEMMA AddStartupInv ==
  ASSUME Inv, NEW id, NEW data, NEW update, AddStartup(id, data, update)
  PROVE  Inv'
<1> DEFINE e == [data |-> data, age |-> 0]
<1>1. /\ id \notin DOMAIN startups
      /\ id \notin DOMAIN silent_startups
      /\ id \notin DOMAIN uninited_startups
      /\ cleanup' = TRUE
      /\ \/ /\ uninited_startups' = Put(uninited_startups, id, e)
            /\ UNCHANGED <<startups, silent_startups, announced>>
         \/ /\ startups' = Put(startups, id, e)
            /\ announced' = announced \cup {id}
            /\ UNCHANGED <<silent_startups, uninited_startups>>
         \/ /\ silent_startups' = Put(silent_startups, id, e)
            /\ UNCHANGED <<startups, uninited_startups, announced>>
  BY DEF AddStartup, GotNewStartup
<1> HIDE DEF e
<1>2. \/ /\ DOMAIN uninited_startups' = DOMAIN uninited_startups \cup {id}
         /\ UNCHANGED <<startups, silent_startups, announced>>
      \/ /\ DOMAIN startups' = DOMAIN startups \cup {id}
         /\ announced' = announced \cup {id}
         /\ UNCHANGED <<silent_startups, uninited_startups>>
      \/ /\ DOMAIN silent_startups' = DOMAIN silent_startups \cup {id}
         /\ UNCHANGED <<startups, uninited_startups, announced>>
  BY <1>1 DEF Put
<1> QED BY <1>1, <1>2
           DEF Inv, MapsDisjoint, ListenersAgree, TimerRunsWhileNeeded

LEMMA GotStartupInfoInv ==
  ASSUME Inv, NEW id, NEW data, NEW update, GotStartupInfo(id, data, update)
  PROVE  Inv'
BY UpdateStartupInv, UpdateSilentStartupInv, UpdateUninitedStartupInv,
   AddStartupInv DEF GotStartupInfo

\* Removing an id from maps with the same ids as before.
LEMMA RemoveAllInv ==
  ASSUME Inv, NEW id, NEW s, NEW q, NEW u, RemoveAll(id, s, q, u),
         DOMAIN s = DOMAIN startups, DOMAIN q = DOMAIN silent_startups,
         DOMAIN u = DOMAIN uninited_startups, UNCHANGED cleanup
  PROVE  Inv'
<1>1. /\ DOMAIN startups' = DOMAIN startups \ {id}
      /\ DOMAIN silent_startups' \subseteq DOMAIN silent_startups
      /\ DOMAIN uninited_startups' \subseteq DOMAIN uninited_startups
      /\ announced' = announced \ (DOMAIN startups \cap {id})
  BY DEF RemoveAll, GotRemoveStartup, Without, Restrict
<1> QED BY <1>1 DEF Inv, MapsDisjoint, ListenersAgree, TimerRunsWhileNeeded

LEMMA RemoveStartupPidsInv ==
  ASSUME Inv, NEW id, NEW pids, RemoveStartupPids(id, pids), UNCHANGED cleanup
  PROVE  Inv'
<1> DEFINE s == DropPids(startups, id, pids)
           q == IF id \in DOMAIN s THEN silent_startups
                ELSE DropPids(silent_startups, id, pids)
           u == IF id \in DOMAIN s \cup DOMAIN q THEN uninited_startups
                ELSE DropPids(uninited_startups, id, pids)
<1>1. /\ DOMAIN s = DOMAIN startups
      /\ DOMAIN q = DOMAIN silent_startups
      /\ DOMAIN u = DOMAIN uninited_startups
  BY DropPidsDomain
<1>2. \/ RemoveAll(id, s, q, u)
      \/ /\ startups' = s /\ silent_startups' = q /\ uninited_startups' = u
         /\ UNCHANGED announced
  BY DEF RemoveStartupPids
<1> HIDE DEF s, q, u
<1>3. CASE RemoveAll(id, s, q, u)
  BY <1>1, <1>3, RemoveAllInv
<1>4. CASE /\ startups' = s /\ silent_startups' = q /\ uninited_startups' = u
           /\ UNCHANGED announced
  BY <1>1, <1>4 DEF Inv, MapsDisjoint, ListenersAgree, TimerRunsWhileNeeded
<1> QED BY <1>2, <1>3, <1>4

LEMMA GotRemoveStartupInfoInv ==
  ASSUME Inv, NEW id, NEW data, GotRemoveStartupInfo(id, data)
  PROVE  Inv'
<1>0. UNCHANGED cleanup
  BY DEF GotRemoveStartupInfo
<1>1. CASE RemoveAll(id, startups, silent_startups, uninited_startups)
  BY <1>0, <1>1, RemoveAllInv
<1>2. CASE \E i, pids : RemoveStartupPids(i, pids)
  BY <1>0, <1>2, RemoveStartupPidsInv
<1>3. CASE UNCHANGED <<maps, announced>>
  BY <1>0, <1>3 DEF maps, Inv, MapsDisjoint, ListenersAgree, TimerRunsWhileNeeded
<1> QED BY <1>1, <1>2, <1>3 DEF GotRemoveStartupInfo

\* Windows and timeouts remove ids; listeners are told of those announced.
LEMMA RemoveStartupsInv ==
  ASSUME Inv, NEW S, RemoveStartups(S),
         UNCHANGED <<silent_startups, uninited_startups, cleanup>>
  PROVE  Inv'
<1>1. /\ DOMAIN startups' = DOMAIN startups \ S
      /\ announced' = announced \ S
  BY DEF RemoveStartups, GotRemoveStartup, Without, Restrict
<1> QED BY <1>1 DEF Inv, MapsDisjoint, ListenersAgree, TimerRunsWhileNeeded

LEMMA CleanupInternalInv ==
  ASSUME Inv, NEW by, CleanupInternal(by), UNCHANGED cleanup
  PROVE  Inv'
<1>1. /\ DOMAIN startups' = DOMAIN startups \ Expired(startups, by)
      /\ DOMAIN silent_startups' = DOMAIN silent_startups \ Expired(silent_startups, by)
      /\ DOMAIN uninited_startups'
           = DOMAIN uninited_startups \ Expired(uninited_startups, by)
      /\ announced' = announced \ Expired(startups, by)
  BY CleanedDomain DEF CleanupInternal, GotRemoveStartup
<1> QED BY <1>1 DEF Inv, MapsDisjoint, ListenersAgree, TimerRunsWhileNeeded

LEMMA StartupsCleanupInv ==
  ASSUME Inv, StartupsCleanup
  PROVE  Inv'
<1>1. CASE NothingToClean
  BY <1>1 DEF StartupsCleanup, NothingToClean, maps, Inv, MapsDisjoint,
     ListenersAgree, TimerRunsWhileNeeded
<1>2. CASE ~NothingToClean
  BY <1>2, CleanupInternalInv DEF StartupsCleanup
<1> QED BY <1>1, <1>2

\* Every step keeps the three invariants.
LEMMA NextInv == Inv /\ [Next]_vars => Inv'
<1> SUFFICES ASSUME Inv, [Next]_vars PROVE Inv'
  OBVIOUS
<1>1. ASSUME NEW id, NEW d, NEW update, GotStartupInfo(id, d, update)
      PROVE  Inv'
  BY <1>1, GotStartupInfoInv
<1>2. ASSUME NEW id, NEW d, GotRemoveStartupInfo(id, d)
      PROVE  Inv'
  BY <1>2, GotRemoveStartupInfoInv
<1>3. ASSUME NEW w, CheckStartup(w)
      PROVE  Inv'
  BY <1>3, RemoveStartupsInv DEF CheckStartup
<1>4. CASE WindowAdded
  BY <1>4, RemoveStartupsInv DEF WindowAdded
<1>5. CASE UNCHANGED <<maps, announced, cleanup>>
  BY <1>5 DEF maps, Inv, MapsDisjoint, ListenersAgree, TimerRunsWhileNeeded
<1>6. CASE StartupsCleanup
  BY <1>6, StartupsCleanupInv
<1>7. CASE StartupsCleanupNoAge
  BY <1>7, CleanupInternalInv DEF StartupsCleanupNoAge
<1>8. ASSUME NEW w, SlotWindowAdded(w) PROVE Inv'
  BY <1>8, <1>5 DEF SlotWindowAdded
<1>9. ASSUME NEW secs, SetTimeout(secs) PROVE Inv'
  BY <1>9, <1>5 DEF SetTimeout
<1>10. CASE UNCHANGED vars
  BY <1>10, <1>5 DEF vars
<1> QED BY <1>1, <1>2, <1>3, <1>4, <1>6, <1>7, <1>8, <1>9, <1>10 DEF Next

LEMMA SpecInv == Spec => []Inv
BY InitInv, NextInv, PTL DEF Spec

\* For any ids and payloads and any order of messages, windows and timeouts:
\* new_startup_info_internal() and its fellows keep an id in one map.
THEOREM MapsStayDisjoint == Spec => []MapsDisjoint
<1>1. Inv => MapsDisjoint
  BY DEF Inv
<1> QED BY <1>1, SpecInv, PTL

\* gotNewStartup() and gotRemoveStartup() tell listeners exactly what the
\* startups map holds.
THEOREM ListenersAlwaysAgree == Spec => []ListenersAgree
<1>1. Inv => ListenersAgree
  BY DEF Inv
<1> QED BY <1>1, SpecInv, PTL

\* The cleanup timer runs as long as any map has an entry.
THEOREM TimerAlwaysRunsWhileNeeded == Spec => []TimerRunsWhileNeeded
<1>1. Inv => TimerRunsWhileNeeded
  BY DEF Inv
<1> QED BY <1>1, SpecInv, PTL

-----------------------------------------------------------------------------
(* Type correctness                                                        *)

LEMMA PutIsMap ==
  ASSUME NEW m, IsMap(m), NEW id \in Ids, NEW e \in Entry
  PROVE  IsMap(Put(m, id, e))
BY DEF IsMap, Put

LEMMA WithoutIsMap ==
  ASSUME NEW m, IsMap(m), NEW S
  PROVE  IsMap(Without(m, S))
BY DEF IsMap, Without, Restrict

LEMMA UpdateType ==
  ASSUME NEW d \in Data, NEW n \in Data
  PROVE  Update(d, n) \in Data
BY DEF Update, Data, Overwrite, TriState

LEMMA AgedIsMap ==
  ASSUME NEW m, IsMap(m), NEW by \in Nat
  PROVE  IsMap(Aged(m, by))
BY DEF IsMap, Aged, Entry

LEMMA DropPidsIsMap ==
  ASSUME NEW m, IsMap(m), NEW id, NEW pids
  PROVE  IsMap(DropPids(m, id, pids))
BY DEF IsMap, DropPids, Entry, Data

\* What the actions may do to the maps.
MapsOK == IsMap(startups) /\ IsMap(silent_startups) /\ IsMap(uninited_startups)

LEMMA EmptyIsMap == IsMap(EmptyMap)
BY DEF IsMap, EmptyMap

LEMMA InitTypeOK == Init => TypeOK
<1> SUFFICES ASSUME Init PROVE TypeOK
  OBVIOUS
<1>1. IsMap(startups) /\ IsMap(silent_startups) /\ IsMap(uninited_startups)
  BY EmptyIsMap DEF Init
<1>2. delayed \in Seq(WindowKinds)
  BY DEF Init
<1>3. received \in 0..MaxMessages /\ windows \in 0..MaxWindows
  BY KStartupInfoAssumption DEF Init
<1> QED BY <1>1, <1>2, <1>3 DEF Init, TypeOK

LEMMA GotStartupInfoMaps ==
  ASSUME MapsOK, NEW id \in Ids, NEW data \in Data, NEW update,
         \/ UpdateStartup(id, data)
         \/ UpdateSilentStartup(id, data)
         \/ UpdateUninitedStartup(id, data, update)
         \/ AddStartup(id, data, update)
  PROVE  MapsOK'
<1>1. CASE UpdateStartup(id, data)
  <2> DEFINE e == [data |-> Update(startups[id].data, data), age |-> 0]
  <2>1. e \in Entry
    BY <1>1, UpdateType DEF UpdateStartup, MapsOK, IsMap, Entry
  <2>2. /\ \/ startups' = Without(startups, {id})
           \/ startups' = Put(startups, id, e)
        /\ \/ silent_startups' = Put(silent_startups, id, e)
           \/ silent_startups' = silent_startups
        /\ uninited_startups' = uninited_startups
    BY <1>1 DEF UpdateStartup
  <2> HIDE DEF e
  <2> QED BY <2>1, <2>2, PutIsMap, WithoutIsMap DEF MapsOK
<1>2. CASE UpdateSilentStartup(id, data)
  <2> DEFINE e == [data |-> Update(silent_startups[id].data, data), age |-> 0]
  <2>1. e \in Entry
    BY <1>2, UpdateType DEF UpdateSilentStartup, MapsOK, IsMap, Entry
  <2>2. /\ \/ startups' = startups
           \/ startups' = Put(startups, id, e)
        /\ \/ silent_startups' = Put(silent_startups, id, e)
           \/ silent_startups' = Without(silent_startups, {id})
        /\ uninited_startups' = uninited_startups
    BY <1>2 DEF UpdateSilentStartup
  <2> HIDE DEF e
  <2> QED BY <2>1, <2>2, PutIsMap, WithoutIsMap DEF MapsOK
<1>3. CASE UpdateUninitedStartup(id, data, update)
  <2> DEFINE e == [data |-> Update(uninited_startups[id].data, data),
                   age |-> uninited_startups[id].age]
  <2>1. e \in Entry
    BY <1>3, UpdateType DEF UpdateUninitedStartup, MapsOK, IsMap, Entry
  <2>2. /\ \/ startups' = startups
           \/ startups' = Put(startups, id, e)
        /\ \/ uninited_startups' = Put(uninited_startups, id, e)
           \/ uninited_startups' = Without(uninited_startups, {id})
        /\ silent_startups' = silent_startups
    BY <1>3 DEF UpdateUninitedStartup, Inited
  <2> HIDE DEF e
  <2> QED BY <2>1, <2>2, PutIsMap, WithoutIsMap DEF MapsOK
<1>4. CASE AddStartup(id, data, update)
  <2> DEFINE e == [data |-> data, age |-> 0]
  <2>1. e \in Entry
    BY DEF Entry
  <2>2. /\ \/ startups' = startups
           \/ startups' = Put(startups, id, e)
        /\ \/ silent_startups' = silent_startups
           \/ silent_startups' = Put(silent_startups, id, e)
        /\ \/ uninited_startups' = uninited_startups
           \/ uninited_startups' = Put(uninited_startups, id, e)
    BY <1>4 DEF AddStartup
  <2> HIDE DEF e
  <2> QED BY <2>1, <2>2, PutIsMap DEF MapsOK
<1> QED BY <1>1, <1>2, <1>3, <1>4

LEMMA RemoveAllMaps ==
  ASSUME NEW s, NEW q, NEW u, IsMap(s), IsMap(q), IsMap(u), NEW id,
         RemoveAll(id, s, q, u)
  PROVE  MapsOK'
BY WithoutIsMap DEF RemoveAll, MapsOK

LEMMA RemoveStartupPidsMaps ==
  ASSUME MapsOK, NEW id, NEW pids, RemoveStartupPids(id, pids)
  PROVE  MapsOK'
<1> DEFINE s == DropPids(startups, id, pids)
           q == IF id \in DOMAIN s THEN silent_startups
                ELSE DropPids(silent_startups, id, pids)
           u == IF id \in DOMAIN s \cup DOMAIN q THEN uninited_startups
                ELSE DropPids(uninited_startups, id, pids)
<1>1. IsMap(s) /\ IsMap(q) /\ IsMap(u)
  BY DropPidsIsMap DEF MapsOK
<1>2. \/ RemoveAll(id, s, q, u)
      \/ startups' = s /\ silent_startups' = q /\ uninited_startups' = u
  BY DEF RemoveStartupPids
<1> HIDE DEF s, q, u
<1> QED BY <1>1, <1>2, RemoveAllMaps DEF MapsOK

LEMMA GotRemoveStartupInfoMaps ==
  ASSUME MapsOK, NEW id, NEW data, GotRemoveStartupInfo(id, data)
  PROVE  MapsOK'
<1>1. CASE RemoveAll(id, startups, silent_startups, uninited_startups)
  BY <1>1, RemoveAllMaps DEF MapsOK
<1>2. CASE \E i, pids : RemoveStartupPids(i, pids)
  BY <1>2, RemoveStartupPidsMaps
<1>3. CASE UNCHANGED <<maps, announced>>
  BY <1>3 DEF maps, MapsOK
<1> QED BY <1>1, <1>2, <1>3 DEF GotRemoveStartupInfo

LEMMA CleanupInternalMaps ==
  ASSUME MapsOK, NEW by \in Nat, CleanupInternal(by)
  PROVE  MapsOK'
BY AgedIsMap, WithoutIsMap DEF CleanupInternal, Cleaned, MapsOK

LEMMA RemoveStartupsMaps ==
  ASSUME MapsOK, NEW S, RemoveStartups(S),
         UNCHANGED <<silent_startups, uninited_startups>>
  PROVE  MapsOK'
BY WithoutIsMap DEF RemoveStartups, MapsOK

\* Every step leaves proper maps.  Only messages add an entry, and a message
\* that does so has an id.
LEMMA NextMaps == MapsOK /\ [Next]_vars => MapsOK'
<1> SUFFICES ASSUME MapsOK, [Next]_vars PROVE MapsOK'
  OBVIOUS
<1>1. ASSUME NEW id \in Ids \cup {NullId}, NEW d \in Payloads, NEW update,
             GotStartupInfo(id, d, update)
      PROVE  MapsOK'
  <2>1. id \in Ids /\ d \in Data
    BY <1>1, KStartupInfoAssumption DEF GotStartupInfo, Named
  <2> QED BY <1>1, <2>1, GotStartupInfoMaps DEF GotStartupInfo
<1>2. ASSUME NEW id, NEW d, GotRemoveStartupInfo(id, d)
      PROVE  MapsOK'
  BY <1>2, GotRemoveStartupInfoMaps
<1>3. ASSUME NEW w, CheckStartup(w) PROVE MapsOK'
  BY <1>3, RemoveStartupsMaps DEF CheckStartup
<1>4. CASE WindowAdded
  BY <1>4, RemoveStartupsMaps DEF WindowAdded
<1>5. CASE UNCHANGED maps
  BY <1>5 DEF maps, MapsOK
<1>6. CASE StartupsCleanup
  BY <1>6, <1>5, CleanupInternalMaps DEF StartupsCleanup
<1>7. CASE StartupsCleanupNoAge
  BY <1>7, CleanupInternalMaps DEF StartupsCleanupNoAge
<1>8. ASSUME NEW w, SlotWindowAdded(w) PROVE MapsOK'
  BY <1>8, <1>5 DEF SlotWindowAdded
<1>9. ASSUME NEW secs, SetTimeout(secs) PROVE MapsOK'
  BY <1>9, <1>5 DEF SetTimeout
<1>10. CASE UNCHANGED vars
  BY <1>10, <1>5 DEF vars
<1> QED BY <1>1, <1>2, <1>3, <1>4, <1>6, <1>7, <1>8, <1>9, <1>10 DEF Next

\* What is left of TypeOK beside the maps and what listeners know.
ScalarsOK ==
  /\ flags \in FlagChoices
  /\ timeout \in Timeouts
  /\ cleanup \in BOOLEAN /\ noAge \in BOOLEAN
  /\ delayed \in Seq(WindowKinds)
  /\ received \in 0..MaxMessages /\ windows \in 0..MaxWindows

LEMMA NextScalars == ScalarsOK /\ [Next]_vars => ScalarsOK'
<1> SUFFICES ASSUME ScalarsOK, [Next]_vars PROVE ScalarsOK'
  OBVIOUS
<1> USE KStartupInfoAssumption DEF ScalarsOK
<1>1. ASSUME NEW id, NEW d, NEW update, GotStartupInfo(id, d, update)
      PROVE  ScalarsOK'
  <2>1. cleanup' \in BOOLEAN
    BY <1>1 DEF GotStartupInfo, UpdateStartup, UpdateSilentStartup,
       UpdateUninitedStartup, AddStartup
  <2>2. received' \in 0..MaxMessages
    BY <1>1 DEF GotStartupInfo
  <2> QED BY <1>1, <2>1, <2>2 DEF GotStartupInfo
<1>2. ASSUME NEW id, NEW d, GotRemoveStartupInfo(id, d)
      PROVE  ScalarsOK'
  <2>1. received' \in 0..MaxMessages
    BY <1>2 DEF GotRemoveStartupInfo
  <2> QED BY <1>2, <2>1 DEF GotRemoveStartupInfo
<1>3. ASSUME NEW w, CheckStartup(w) PROVE ScalarsOK'
  <2>1. windows' \in 0..MaxWindows
    BY <1>3 DEF CheckStartup
  <2> QED BY <1>3, <2>1 DEF CheckStartup, RemoveStartups, GotRemoveStartup
<1>4. CASE WindowAdded
  BY <1>4 DEF WindowAdded, RemoveStartups, GotRemoveStartup, bounds
<1>5. CASE StartupsCleanup
  BY <1>5 DEF StartupsCleanup, CleanupInternal, GotRemoveStartup, bounds
<1>6. CASE StartupsCleanupNoAge
  BY <1>6 DEF StartupsCleanupNoAge, CleanupInternal, GotRemoveStartup, bounds
<1>7. ASSUME NEW w \in WindowKinds, SlotWindowAdded(w) PROVE ScalarsOK'
  <2>1. windows' \in 0..MaxWindows
    BY <1>7 DEF SlotWindowAdded
  <2>2. delayed' \in Seq(WindowKinds)
    BY <1>7 DEF SlotWindowAdded
  <2> QED BY <1>7, <2>1, <2>2 DEF SlotWindowAdded
<1>8. ASSUME NEW secs \in Timeouts, SetTimeout(secs) PROVE ScalarsOK'
  BY <1>8 DEF SetTimeout, bounds
<1>9. CASE UNCHANGED vars
  BY <1>9 DEF vars, bounds
<1> QED BY <1>1, <1>2, <1>3, <1>4, <1>5, <1>6, <1>7, <1>8, <1>9 DEF Next

\* The maps map ids to data with an age, whatever messages arrive: a message
\* without an id never makes an entry, which is what listeners key on.
THEOREM TypeCorrect == Spec => []TypeOK
<1>1. Init => MapsOK /\ ScalarsOK
  BY InitTypeOK DEF TypeOK, MapsOK, ScalarsOK
<1>2. MapsOK /\ ScalarsOK /\ [Next]_vars => MapsOK' /\ ScalarsOK'
  BY NextMaps, NextScalars
<1>3. Inv /\ MapsOK /\ ScalarsOK => TypeOK
  BY DEF Inv, ListenersAgree, MapsOK, IsMap, ScalarsOK, TypeOK
<1> QED BY <1>1, <1>2, <1>3, SpecInv, PTL DEF Spec
=============================================================================

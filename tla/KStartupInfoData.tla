--------------------------- MODULE KStartupInfoData ---------------------------
(***************************************************************************)
(* KStartupInfoData (src/kstartupinfo.cpp): what is known about one        *)
(* application that is being started.  Only the fields that decide what    *)
(* KStartupInfo does are kept.  A list of pids is a set: addPid() adds     *)
(* none twice.  Class names and host names are strings, "" if unset; they  *)
(* are lower case, as toLower() leaves them.                               *)
(***************************************************************************)
EXTENDS Integers

CONSTANTS Pids,       \* process ids
          ClassNames, \* window class and program names
          HostNames

ASSUME NamesAssumption ==
  /\ Pids \subseteq Nat \ {0}
  /\ "" \in HostNames
  /\ {"", "0"} \subseteq ClassNames

TriState == {"Yes", "No", "Unknown"}

Data == [silent : TriState, pids : SUBSET Pids, wmclass : ClassNames,
         bin : ClassNames, hostname : HostNames]

\* KStartupInfoData(), before anything is set
EmptyData == [silent |-> "Unknown", pids |-> {}, wmclass |-> "", bin |-> "",
              hostname |-> ""]

\* The field value new if it is set, the old one if not.
Overwrite(old, new, unset) == IF new # unset THEN new ELSE old

\* update()
Update(d, n) ==
  [silent   |-> Overwrite(d.silent, n.silent, "Unknown"),
   pids     |-> d.pids \cup n.pids,
   wmclass  |-> Overwrite(d.wmclass, n.wmclass, ""),
   bin      |-> Overwrite(d.bin, n.bin, ""),
   hostname |-> Overwrite(d.hostname, n.hostname, "")]

FindWMClass(d) == IF d.wmclass \notin {"", "0"} THEN d.wmclass ELSE d.bin
=============================================================================

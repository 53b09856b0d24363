--------------------------- MODULE KStartupInfoText ---------------------------
(***************************************************************************)
(* The text of startup notification messages (src/kstartupinfo.cpp): how   *)
(* KStartupInfoId and KStartupInfoData are written into a message and read *)
(* back by any client.  A text is a sequence of symbols.  A key with its   *)
(* "=", a number and the marker "_TIME" are one symbol each; quotes,       *)
(* backslashes and spaces are symbols of their own, since quoting is what  *)
(* can go wrong.                                                           *)
(***************************************************************************)
EXTENDS Integers, SequencesExt

CONSTANT MaxNumber    \* bound on the numbers in a message

ASSUME MaxNumberAssumption == MaxNumber \in Nat

Space == " "
Quote == "\""
Backslash == "\\"

Numbers == -MaxNumber .. MaxNumber

OnAllDesktops == -1

\* KStartupInfoData, all of it
EmptyInfo ==
  [bin |-> <<>>, name |-> <<>>, description |-> <<>>, icon |-> <<>>,
   desktop |-> 0, wmclass |-> <<>>, hostname |-> <<>>, pids |-> {},
   silent |-> "Unknown", screen |-> -1, xinerama |-> -1, application_id |-> <<>>]

-----------------------------------------------------------------------------
(* Writing *)

escape_str_quotes(str) ==
  FlattenSeq([i \in DOMAIN str |->
    IF str[i] = Quote THEN <<Backslash, str[i]>> ELSE <<str[i]>>])

escape_str(str) ==
  FlattenSeq([i \in DOMAIN str |->
    IF str[i] \in {Backslash, Quote} THEN <<Backslash, str[i]>> ELSE <<str[i]>>])

Bare(key, value) == IF value = <<>> THEN <<>> ELSE <<Space, key>> \o value
Quoted(key, value) == Bare(key, IF value = <<>> THEN <<>> ELSE <<Quote>> \o value \o <<Quote>>)
Number(key, n) == <<Space, key, ToString(n)>>
NumberUnless(unset, key, n) == IF n = unset THEN <<>> ELSE Number(key, n)

\* The specification counts desktops from 0.
DesktopText(d) == IF d = OnAllDesktops THEN OnAllDesktops ELSE d - 1

\* KStartupInfoData::Private::to_text()
to_text(d) ==
  Quoted("BIN=", escape_str(d.bin))
    \o Quoted("NAME=", escape_str(d.name))
    \o Quoted("DESCRIPTION=", escape_str(d.description))
    \o Quoted("ICON=", d.icon)
    \o (IF d.desktop = 0 THEN <<>> ELSE Number("DESKTOP=", DesktopText(d.desktop)))
    \o Quoted("WMCLASS=", d.wmclass)
    \o Bare("HOSTNAME=", d.hostname)
    \o FlattenSeq([i \in 1..Cardinality(d.pids) |-> Number("PID=", SetToSeq(d.pids)[i])])
    \o (IF d.silent = "Unknown" THEN <<>>
        ELSE Number("SILENT=", IF d.silent = "Yes" THEN 1 ELSE 0))
    \o NumberUnless(-1, "SCREEN=", d.screen)
    \o NumberUnless(-1, "XINERAMA=", d.xinerama)
    \o Quoted("APPLICATION_ID=", d.application_id)

\* KStartupInfoId::Private::to_text(); an id that is empty is written, too
IdText(id) == <<Space, "ID=", Quote>> \o escape_str(id) \o <<Quote, Space>>

\* check_required_startup_fields()
RequiredFields(d, screen) ==
  (IF d.name # <<>> THEN <<>>
   ELSE Quoted("NAME=", escape_str(IF d.bin = <<>> THEN <<"UNKNOWN">> ELSE d.bin)))
    \o (IF d.screen = -1 THEN Number("SCREEN=", screen) ELSE <<>>)

-----------------------------------------------------------------------------
(* Reading *)

\* The symbols of txt at the positions that satisfy Keep
Filtered(txt, Keep(_)) ==
  LET order == SelectSeq([i \in DOMAIN txt |-> i], Keep)
  IN  [i \in DOMAIN order |-> txt[order[i]]]

\* QString::simplified(): no white space at the ends, single spaces elsewhere
simplified(txt) ==
  Filtered(txt, LAMBDA i : \/ txt[i] # Space
                           \/ /\ i > 1 /\ txt[i - 1] # Space
                              /\ \E j \in i..Len(txt) : txt[j] # Space)

\* get_fields(): the state of its loop after i symbols
get_fields(txt_P) ==
  LET txt == simplified(txt_P)
      loop[i \in 0..Len(txt)] ==
        IF i = 0 THEN [ret |-> <<>>, item |-> <<>>, in |-> FALSE, escape |-> FALSE]
        ELSE LET s == loop[i - 1]
                 c == txt[i]
             IN  CASE s.escape -> [s EXCEPT !.item = Append(@, c), !.escape = FALSE]
                   [] ~s.escape /\ c = Backslash -> [s EXCEPT !.escape = TRUE]
                   [] ~s.escape /\ c = Quote -> [s EXCEPT !.in = ~@]
                   [] ~s.escape /\ c = Space /\ ~s.in ->
                        [s EXCEPT !.ret = Append(@, s.item), !.item = <<>>]
                   [] OTHER -> [s EXCEPT !.item = Append(@, c)]
      end == loop[Len(txt)]
  IN  Append(end.ret, end.item)

\* get_num(): 0 if it is not a number
get_num(value) ==
  LET n == {k \in Numbers : value = <<ToString(k)>>}
  IN  IF n = {} THEN 0 ELSE CHOOSE k \in n : TRUE

\* One round of the loop of KStartupInfoData(txt)
ReadField(d, item) ==
  IF item = <<>> THEN d
  ELSE LET value == Tail(item)
           n == get_num(value)
       IN  CASE Head(item) = "BIN=" -> [d EXCEPT !.bin = value]
             [] Head(item) = "NAME=" -> [d EXCEPT !.name = value]
             [] Head(item) = "DESCRIPTION=" -> [d EXCEPT !.description = value]
             [] Head(item) = "ICON=" -> [d EXCEPT !.icon = value]
             [] Head(item) = "DESKTOP=" ->
                  [d EXCEPT !.desktop = IF n = OnAllDesktops THEN n ELSE n + 1]
             [] Head(item) = "WMCLASS=" -> [d EXCEPT !.wmclass = value]
             [] Head(item) = "HOSTNAME=" -> [d EXCEPT !.hostname = value]
             [] Head(item) = "PID=" -> [d EXCEPT !.pids = @ \cup {n}]
             [] Head(item) = "SILENT=" -> [d EXCEPT !.silent = IF n # 0 THEN "Yes" ELSE "No"]
             [] Head(item) = "SCREEN=" -> [d EXCEPT !.screen = n]
             [] Head(item) = "XINERAMA=" -> [d EXCEPT !.xinerama = n]
             [] Head(item) = "APPLICATION_ID=" -> [d EXCEPT !.application_id = value]
             [] OTHER -> d

\* KStartupInfoData(txt)
ReadData(txt) == FoldLeft(ReadField, EmptyInfo, get_fields(txt))

\* KStartupInfoId(txt)
ReadId(txt) ==
  FoldLeft(LAMBDA id, item : IF item # <<>> /\ Head(item) = "ID=" THEN Tail(item) ELSE id,
           <<>>, get_fields(txt))
=============================================================================

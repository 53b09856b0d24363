------------------------- MODULE NETRootInfoProofs -------------------------
(***************************************************************************)
(* Theorems about NETRootInfo and KX11Desktops, for any constants: the     *)
(* window manager's callbacks are called for the requests of the client,   *)
(* who follows the signals of KX11Extras knows what its getters say, the   *)
(* parts of a large desktop are where those who go there end up, both      *)
(* objects agree when nothing is left to dispatch, and who names a desktop *)
(* changes no other name.                                                  *)
(***************************************************************************)
EXTENDS KX11Desktops, SequenceTheorems, FiniteSetTheorems, WellFoundedInduction, TLAPS

-----------------------------------------------------------------------------
(* Induction, with a set in the place of the predicate                     *)

LEMMA LeastExists ==
  ASSUME NEW S \in SUBSET Nat, S # {}
  PROVE  \E i \in S : \A j \in S : i <= j
<1> DEFINE R == OpToRel(<, Nat)
<1>1. IsWellFoundedOn(R, Nat)
  BY NatLessThanWellFounded
<1>2. PICK x \in S : \A y \in S : ~(<<y, x>> \in R)
  <2> HIDE DEF R
  <2> QED BY <1>1, WFMin
<1>3. \A y \in S : ~(y < x)
  BY <1>2 DEF OpToRel
<1> QED BY <1>3

LEMMA NatSetInduction ==
  ASSUME NEW S, 0 \in S, \A n \in Nat : n \in S => n + 1 \in S
  PROVE  Nat \subseteq S
<1> DEFINE T == Nat \ S
<1>1. SUFFICES ASSUME T # {} PROVE FALSE
  OBVIOUS
<1>2. PICK x \in T : \A y \in T : x <= y
  <2>1. T \in SUBSET Nat
    OBVIOUS
  <2> HIDE DEF T
  <2> QED BY <1>1, <2>1, LeastExists
<1>3. x - 1 \in Nat \ T /\ x - 1 + 1 = x
  BY <1>2
<1> QED BY <1>2, <1>3

-----------------------------------------------------------------------------
(* The state                                                               *)

FieldNames ==
  {"supported", "clients", "clients_count", "stacking", "number_of_desktops", "geometry",
   "viewport", "current_desktop", "desktop_names", "active", "workarea", "supportwindow",
   "name", "virtual_roots", "layout", "showing_desktop"}

IsObject(f) == f = [x \in FieldNames |-> f[x]]

\* Functions of the right domains.
Shapes ==
  /\ fields = [a \in Agents |-> fields[a]] /\ \A a \in Agents : IsObject(fields[a])
  /\ property = [p \in Properties |-> property[p]]
  /\ queue = [a \in Agents |-> queue[a]]
  /\ todo = [a \in Agents |-> todo[a]]

LEMMA PropertiesAre ==
  Properties = {"Supported", "ClientList", "ClientListStacking", "NumberOfDesktops",
                "DesktopGeometry", "DesktopViewport", "CurrentDesktop", "DesktopNames",
                "ActiveWindow", "WorkArea", "SupportingWMCheck", "VirtualRoots",
                "WM2DesktopLayout", "WM2ShowingDesktop", "SupportName"}
<1>1. DOMAIN Order = {1, 2, 3, 4, 5, 6, 7, 8, 9, 10, 11, 12, 13, 14, 15}
  BY DEF Order
<1>2. Properties = {Order[i] : i \in DOMAIN Order}
  BY DEF Properties, ToSet
<1>3. Properties = {Order[1], Order[2], Order[3], Order[4], Order[5], Order[6], Order[7], Order[8],
                    Order[9], Order[10], Order[11], Order[12], Order[13], Order[14], Order[15]}
  BY <1>1, <1>2
<1> QED BY <1>3 DEF Order

LEMMA ObjectExcept ==
  ASSUME NEW f, IsObject(f), NEW x \in FieldNames, NEW v
  PROVE  /\ IsObject([f EXCEPT ![x] = v])
         /\ [f EXCEPT ![x] = v][x] = v
         /\ \A y \in FieldNames : y # x => [f EXCEPT ![x] = v][y] = f[y]
BY DEF IsObject

\* What currentDesktop(), numberOfDesktops() and the listener look at
View == {"supported", "number_of_desktops", "geometry", "viewport", "current_desktop", "active",
         "showing_desktop"}

\* The property that a field of View is read from
SourceOf(x) ==
  CASE x = "supported" -> "Supported"
    [] x = "number_of_desktops" -> "NumberOfDesktops"
    [] x = "geometry" -> "DesktopGeometry"
    [] x = "viewport" -> "DesktopViewport"
    [] x = "current_desktop" -> "CurrentDesktop"
    [] x = "active" -> "ActiveWindow"
    [] x = "showing_desktop" -> "WM2ShowingDesktop"

\* A reply changes no field but those of its property.
LEMMA ReadKeeps ==
  ASSUME NEW f, IsObject(f), NEW p \in Properties, NEW r
  PROVE  /\ IsObject(Read(p, f, r))
         /\ \A x \in View : SourceOf(x) # p => Read(p, f, r)[x] = f[x]
         /\ p # "ClientList" => \A x \in {"clients", "clients_count"} : Read(p, f, r)[x] = f[x]
         /\ p \notin {"SupportingWMCheck", "SupportName"} => Read(p, f, r).name = f.name
<1> DEFINE new == Read(p, f, r)
<1> USE DEF FieldNames
<1>1. CASE p = "Supported"
  <2>1. new = [f EXCEPT !.supported = IF r.type = "ATOM" THEN Parsed(r.data) ELSE {}]
    BY <1>1 DEF Read
  <2> QED BY <1>1, <2>1 DEF SourceOf, View, IsObject
<1>2. CASE p = "ClientList"
  <2>1. \E u, v : new = [f EXCEPT !.clients = u, !.clients_count = v]
    BY <1>2 DEF Read, ReadClientList
  <2> QED BY <1>2, <2>1 DEF SourceOf, View, IsObject
<1>3. CASE p = "ClientListStacking"
  BY <1>3 DEF Read, SourceOf, View, IsObject
<1>4. CASE p = "NumberOfDesktops"
  <2>1. \E v : new = [f EXCEPT !.number_of_desktops = v]
    BY <1>4 DEF Read
  <2> QED BY <1>4, <2>1 DEF SourceOf, View, IsObject
<1>5. CASE p = "DesktopGeometry"
  <2>1. \E v : new = [f EXCEPT !.geometry = v]
    BY <1>5 DEF Read, ReadDesktopGeometry
  <2> QED BY <1>5, <2>1 DEF SourceOf, View, IsObject
<1>6. CASE p = "DesktopViewport"
  <2>1. \E v : new = [f EXCEPT !.viewport = v]
    BY <1>6 DEF Read, ReadDesktopViewport
  <2> QED BY <1>6, <2>1 DEF SourceOf, View, IsObject
<1>7. CASE p = "CurrentDesktop"
  <2>1. \E v : new = [f EXCEPT !.current_desktop = v]
    BY <1>7 DEF Read, ReadCurrentDesktop
  <2> QED BY <1>7, <2>1 DEF SourceOf, View, IsObject
<1>8. CASE p = "DesktopNames"
  <2>1. \E v : new = [f EXCEPT !.desktop_names = v]
    BY <1>8 DEF Read
  <2> QED BY <1>8, <2>1 DEF SourceOf, View, IsObject
<1>9. CASE p = "ActiveWindow"
  <2>1. \E v : new = [f EXCEPT !.active = v]
    BY <1>9 DEF Read
  <2> QED BY <1>9, <2>1 DEF SourceOf, View, IsObject
<1>10. CASE p = "WorkArea"
  <2>1. \E v : new = [f EXCEPT !.workarea = v]
    BY <1>10 DEF Read, ReadWorkArea
  <2> QED BY <1>10, <2>1 DEF SourceOf, View, IsObject
<1>11. CASE p = "SupportingWMCheck"
  <2>1. \E u, v : new = [f EXCEPT !.supportwindow = u, !.name = v]
    BY <1>11 DEF Read
  <2> QED BY <1>11, <2>1 DEF SourceOf, View, IsObject
<1>12. CASE p = "VirtualRoots"
  <2>1. \E v : new = [f EXCEPT !.virtual_roots = v]
    BY <1>12 DEF Read, ReadVirtualRoots
  <2> QED BY <1>12, <2>1 DEF SourceOf, View, IsObject
<1>13. CASE p = "WM2DesktopLayout"
  <2>1. \E v : new = [f EXCEPT !.layout = v]
    BY <1>13 DEF Read, ReadDesktopLayout
  <2> QED BY <1>13, <2>1 DEF SourceOf, View, IsObject
<1>14. CASE p = "WM2ShowingDesktop"
  <2>1. \E v : new = [f EXCEPT !.showing_desktop = v]
    BY <1>14 DEF Read
  <2> QED BY <1>14, <2>1 DEF SourceOf, View, IsObject
<1>15. CASE p = "SupportName"
  <2>1. \E v : new = [f EXCEPT !.name = v]
    BY <1>15 DEF Read
  <2> QED BY <1>15, <2>1 DEF SourceOf, View, IsObject
<1> QED BY <1>1, <1>2, <1>3, <1>4, <1>5, <1>6, <1>7, <1>8, <1>9, <1>10, <1>11, <1>12, <1>13,
           <1>14, <1>15, PropertiesAre

-----------------------------------------------------------------------------
(* Setters                                                                 *)

LEMMA SetsSteps ==
  ASSUME Shapes, NEW a \in Agents, NEW p \in Properties, NEW new, IsObject(new),
         NEW type, NEW data, Sets(a, p, new, type, data)
  PROVE  /\ Shapes' /\ UNCHANGED <<todo, active, topic, interest, sent, got>>
         /\ fields' = [fields EXCEPT ![a] = new]
         /\ property' = [property EXCEPT ![p] = Property(type, data)]
         /\ \A b \in Agents : \/ queue'[b] = queue[b]
                              \/ queue'[b] = Append(queue[b], [type |-> p, data |-> <<>>])
<1>1. /\ UNCHANGED <<todo, active, topic, interest, sent, got>>
      /\ fields' = [fields EXCEPT ![a] = new]
      /\ property' = [property EXCEPT ![p] = Property(type, data)]
      /\ queue' = [b \in Agents |-> IF p \in Reads(b) /\ b \in active
                                      THEN Append(queue[b], [type |-> p, data |-> <<>>])
                                      ELSE queue[b]]
  BY DEF Sets, Calls, Changed
<1>2. fields' = [b \in Agents |-> fields'[b]] /\ \A b \in Agents : IsObject(fields[b])'
  BY <1>1 DEF Shapes, IsObject
<1>3. queue' = [b \in Agents |-> queue'[b]] /\ todo' = [b \in Agents |-> todo'[b]]
  BY <1>1 DEF Shapes
<1>4. property' = [q \in Properties |-> property'[q]]
  BY <1>1 DEF Shapes
<1> QED BY <1>1, <1>2, <1>3, <1>4 DEF Shapes

\* A setter gives one object one new field, which it publishes.
Gives(a, x, p) ==
  /\ Shapes' /\ UNCHANGED <<todo, active, topic, interest, sent, got>>
  /\ \A b \in Agents, y \in FieldNames : b # a \/ y \notin x => fields'[b][y] = fields[b][y]
  /\ \A q \in Properties \ {p} : property'[q] = property[q]
  /\ \A b \in Agents : \/ queue'[b] = queue[b]
                       \/ queue'[b] = Append(queue[b], [type |-> p, data |-> <<>>])

LEMMA SetsGives ==
  ASSUME Shapes, NEW a \in Agents, NEW p \in Properties, NEW x \in SUBSET FieldNames,
         NEW new, NEW type, NEW data, Sets(a, p, new, type, data),
         new = [y \in FieldNames |-> IF y \in x THEN new[y] ELSE fields[a][y]]
  PROVE  /\ Gives(a, x, p) /\ fields'[a] = new /\ property'[p] = Property(type, data)
<1>1. IsObject(new)
  BY DEF IsObject
<1>2. /\ Shapes' /\ UNCHANGED <<todo, active, topic, interest, sent, got>>
      /\ fields' = [fields EXCEPT ![a] = new]
      /\ property' = [property EXCEPT ![p] = Property(type, data)]
      /\ \A b \in Agents : \/ queue'[b] = queue[b]
                           \/ queue'[b] = Append(queue[b], [type |-> p, data |-> <<>>])
  BY <1>1, SetsSteps
<1>3. fields'[a] = new /\ \A b \in Agents : b # a => fields'[b] = fields[b]
  BY <1>2 DEF Shapes
<1>4. property'[p] = Property(type, data) /\ \A q \in Properties \ {p} : property'[q] = property[q]
  BY <1>2 DEF Shapes
<1> QED BY <1>2, <1>3, <1>4 DEF Gives

\* What a setter does to the properties and fields that are looked at: the window manager
\* sets most; the client's are not among those of View.
Valued == {"NumberOfDesktops", "CurrentDesktop", "DesktopGeometry", "DesktopViewport",
           "SupportName"}
Spared(a) == IF a = client THEN View \cup {"clients", "clients_count", "name"}
                           ELSE {"number_of_desktops", "viewport", "name"}

OtherSetting == \E a \in Agents, p \in Properties \ Valued, x \in SUBSET FieldNames :
  Gives(a, x, p) /\ x \cap Spared(a) = {}
\* setSupported() publishes two properties.
SupportSetting ==
  /\ Shapes' /\ UNCHANGED <<todo, active, topic, interest, sent, got>>
  /\ \A b \in Agents, y \in FieldNames : b # wm \/ y # "supported" =>
       fields'[b][y] = fields[b][y]
  /\ \A q \in Properties \ {"Supported", "SupportingWMCheck"} : property'[q] = property[q]
  /\ queue'[wm] = queue[wm]
NumberSetting == \E n \in 0..MaxDesktops :
  /\ Gives(wm, {"number_of_desktops"}, "NumberOfDesktops")
  /\ fields'[wm].number_of_desktops = n
  /\ property'["NumberOfDesktops"] = Property("CARDINAL", <<n>>)
CurrentSetting == \E n \in 0..MaxDesktops :
  /\ Gives(wm, {"current_desktop"}, "CurrentDesktop")
  /\ property'["CurrentDesktop"] = Property("CARDINAL", <<Unsigned(n - 1)>>)
GeometrySetting == \E size \in Geometries :
  /\ Gives(wm, {"geometry"}, "DesktopGeometry")
  /\ property'["DesktopGeometry"] = Property("CARDINAL", size)
ViewportSetting == \E d \in Desktops, point \in Points :
  LET new == SetAt(fields[wm].viewport, d, NoPoint, point) IN
  /\ Gives(wm, {"viewport"}, "DesktopViewport")
  /\ fields'[wm].viewport = new
  /\ property'["DesktopViewport"] =
       Property("CARDINAL", Flat(new, fields[wm].number_of_desktops, NoPoint))

Settings == \/ OtherSetting \/ SupportSetting \/ NumberSetting \/ CurrentSetting
            \/ GeometrySetting \/ ViewportSetting

\* A setter of one field of the window manager's
LEMMA SetsOne ==
  ASSUME Shapes, NEW p \in Properties, NEW x \in FieldNames, NEW v, NEW type, NEW data,
         NEW new, new = [fields[wm] EXCEPT ![x] = v], Sets(wm, p, new, type, data)
  PROVE  /\ Gives(wm, {x}, p) /\ property'[p] = Property(type, data)
         /\ fields'[wm][x] = v
<1>1. wm \in Agents /\ IsObject(fields[wm])
  BY DEF Shapes, Agents
<1>2. new = [y \in FieldNames |-> IF y \in {x} THEN new[y] ELSE fields[wm][y]] /\ new[x] = v
  BY <1>1 DEF IsObject
<1>3. Sets(wm, p, new, type, data)
  OBVIOUS
<1>4. {x} \in SUBSET FieldNames
  OBVIOUS
<1>5. PICK changed : changed = {x}
  OBVIOUS
<1>6. /\ changed \in SUBSET FieldNames
      /\ new = [y \in FieldNames |-> IF y \in changed THEN new[y] ELSE fields[wm][y]]
  BY <1>2, <1>4, <1>5
<1>7. Gives(wm, changed, p) /\ fields'[wm] = new /\ property'[p] = Property(type, data)
  BY <1>1, <1>3, <1>6, SetsGives
<1> QED BY <1>2, <1>5, <1>7

\* The setters that are of no interest here.
LEMMA OtherSets ==
  ASSUME Shapes, NEW a \in Agents, NEW p \in Properties \ Valued, NEW x \in FieldNames,
         NEW v, NEW type, NEW data,
         Sets(a, p, [fields[a] EXCEPT ![x] = v], type, data),
         x \notin Spared(a)
  PROVE  OtherSetting
<1>1. [fields[a] EXCEPT ![x] = v] =
        [y \in FieldNames |-> IF y \in {x} THEN [fields[a] EXCEPT ![x] = v][y] ELSE fields[a][y]]
  BY DEF Shapes, IsObject
<1>2. Gives(a, {x}, p)
  <2> DEFINE new == [fields[a] EXCEPT ![x] = v]
  <2>1. new = [y \in FieldNames |-> IF y \in {x} THEN new[y] ELSE fields[a][y]]
    BY <1>1
  <2>2. Sets(a, p, new, type, data)
    OBVIOUS
  <2> HIDE DEF new
  <2> QED BY <2>1, <2>2, SetsGives
<1>3. {x} \cap Spared(a) = {}
  OBVIOUS
<1> QED BY <1>2, <1>3 DEF OtherSetting

LEMMA SupportSets ==
  ASSUME Shapes, NEW f, NEW on \in BOOLEAN, SetSupported(f, on)
  PROVE  SupportSetting
<1>1. PICK new : fields' = [fields EXCEPT ![wm].supported = new] /\ PublishSupported(new)
  BY DEF SetSupported
<1>2. UNCHANGED <<todo, active, topic, interest, sent, got>>
  BY DEF SetSupported, Calls
<1>3. /\ fields' = [b \in Agents |-> fields'[b]] /\ \A b \in Agents : IsObject(fields'[b])
      /\ \A b \in Agents, y \in FieldNames : b # wm \/ y # "supported" =>
           fields'[b][y] = fields[b][y]
  <2>1. /\ fields' = [b \in Agents |-> fields'[b]]
        /\ fields'[wm] = [fields[wm] EXCEPT !.supported = new]
        /\ \A b \in Agents : b # wm => fields'[b] = fields[b]
    BY <1>1 DEF Shapes, Agents
  <2>2. /\ IsObject([fields[wm] EXCEPT !.supported = new])
        /\ \A y \in FieldNames : y # "supported" =>
             [fields[wm] EXCEPT !.supported = new][y] = fields[wm][y]
    BY ObjectExcept DEF Shapes, Agents, FieldNames
  <2>3. \A b \in Agents : IsObject(fields'[b])
    BY <2>1, <2>2 DEF Shapes
  <2>4. \A b \in Agents, y \in FieldNames : b # wm \/ y # "supported" =>
          fields'[b][y] = fields[b][y]
    BY <2>1, <2>2
  <2> QED BY <2>1, <2>3, <2>4
<1>4. /\ property' = [p \in Properties |-> property'[p]]
      /\ \A q \in Properties \ {"Supported", "SupportingWMCheck"} : property'[q] = property[q]
  BY <1>1 DEF PublishSupported, Shapes
<1>5. queue' = [b \in Agents |-> queue'[b]] /\ queue'[wm] = queue[wm]
  BY <1>1 DEF PublishSupported, Shapes, Agents, wm, client
<1>6. todo' = [b \in Agents |-> todo'[b]]
  BY <1>2 DEF Shapes
<1>7. Shapes'
  BY <1>3, <1>4, <1>5, <1>6 DEF Shapes, IsObject
<1> QED BY <1>2, <1>3, <1>4, <1>5, <1>7 DEF SupportSetting

LEMMA SettersAre ==
  ASSUME Shapes, Setters
  PROVE  Settings
<1> USE PropertiesAre DEF Valued, Spared, FieldNames, View
<1>1. ASSUME NEW list \in Lists, SetClientList(list) PROVE OtherSetting
  <2> DEFINE new == [fields[wm] EXCEPT !.clients = list, !.clients_count = Len(list)]
             x == {"clients", "clients_count"}
  <2>1. new = [y \in FieldNames |-> IF y \in x THEN new[y] ELSE fields[wm][y]]
    BY DEF Shapes, IsObject, Agents
  <2>2. Sets(wm, "ClientList", new, "WINDOW", list)
    BY <1>1 DEF SetClientList
  <2> HIDE DEF new
  <2>3. Gives(wm, x, "ClientList")
    BY <2>1, <2>2, SetsGives DEF Agents
  <2> QED BY <2>3 DEF OtherSetting, Agents, wm, client
<1>2. ASSUME NEW list \in Lists, SetClientListStacking(list) PROVE OtherSetting
  BY <1>2, OtherSets DEF SetClientListStacking, Agents, wm, client
<1>3. ASSUME NEW list \in Lists, SetVirtualRoots(list) PROVE OtherSetting
  BY <1>3, OtherSets DEF SetVirtualRoots, Agents, wm, client
<1>4. ASSUME NEW n \in 0..MaxDesktops, SetNumberOfDesktops(n) PROVE NumberSetting
  <2>1. PICK new, data : new = [fields[wm] EXCEPT !["number_of_desktops"] = n] /\ data = <<n>>
    OBVIOUS
  <2>2. Sets(wm, "NumberOfDesktops", new, "CARDINAL", data)
    BY <1>4, <2>1 DEF SetNumberOfDesktops
  <2>3. "NumberOfDesktops" \in Properties /\ "number_of_desktops" \in FieldNames
    OBVIOUS
  <2> HIDE PropertiesAre DEF FieldNames, View, Valued
  <2>4. /\ Gives(wm, {"number_of_desktops"}, "NumberOfDesktops")
        /\ fields'[wm].number_of_desktops = n
        /\ property'["NumberOfDesktops"] = Property("CARDINAL", data)
    BY <2>1, <2>2, <2>3, SetsOne
  <2> QED BY <2>1, <2>4 DEF NumberSetting
<1>5. ASSUME NEW n \in 0..MaxDesktops, SetCurrentDesktop(n) PROVE CurrentSetting
  <2>1. PICK new, data : /\ new = [fields[wm] EXCEPT !["current_desktop"] = n]
                         /\ data = <<Unsigned(n - 1)>>
    OBVIOUS
  <2>2. Sets(wm, "CurrentDesktop", new, "CARDINAL", data)
    BY <1>5, <2>1 DEF SetCurrentDesktop
  <2>3. "CurrentDesktop" \in Properties /\ "current_desktop" \in FieldNames
    OBVIOUS
  <2> HIDE PropertiesAre DEF FieldNames, View, Valued
  <2>4. /\ Gives(wm, {"current_desktop"}, "CurrentDesktop")
        /\ property'["CurrentDesktop"] = Property("CARDINAL", data)
    BY <2>1, <2>2, <2>3, SetsOne
  <2> QED BY <2>1, <2>4 DEF CurrentSetting
<1>6. ASSUME NEW a \in Agents, NEW d \in Desktops, DesktopName(a, d) PROVE OtherSetting
  <2>1. /\ UNCHANGED <<property, queue, sent, got, todo, active, topic, interest>>
        /\ \E v : fields' = [fields EXCEPT ![a] = [fields[a] EXCEPT !.desktop_names = v]]
    BY <1>6 DEF DesktopName, Calls
  <2>2. PICK v : fields' = [fields EXCEPT ![a] = [fields[a] EXCEPT !.desktop_names = v]]
    BY <2>1
  <2>3. /\ IsObject([fields[a] EXCEPT !.desktop_names = v])
        /\ \A y \in FieldNames \ {"desktop_names"} :
             [fields[a] EXCEPT !.desktop_names = v][y] = fields[a][y]
    BY DEF Shapes, IsObject
  <2>4. /\ fields' = [b \in Agents |-> fields'[b]]
        /\ \A b \in Agents : b # a => fields'[b] = fields[b]
        /\ fields'[a] = [fields[a] EXCEPT !.desktop_names = v]
    BY <2>2 DEF Shapes
  <2>5. Shapes'
    <3>1. \A b \in Agents : IsObject(fields'[b])
      BY <2>3, <2>4 DEF Shapes
    <3>2. \A b \in Agents : IsObject(fields[b])'
      BY <3>1 DEF IsObject
    <3> QED BY <2>1, <2>4, <3>2 DEF Shapes
  <2>6. Gives(a, {"desktop_names"}, "DesktopNames")
    BY <2>1, <2>3, <2>4, <2>5 DEF Gives
  <2> QED BY <2>6 DEF OtherSetting
<1>7. ASSUME NEW a \in Agents, NEW d \in Desktops, NEW n \in Names, SetDesktopName(a, d, n)
      PROVE OtherSetting
  <2>1. \E u, v, data : Sets(a, "DesktopNames",
                             [[fields[a] EXCEPT !.desktop_names = u] EXCEPT !.desktop_names = v],
                             "UTF8", data)
    BY <1>7 DEF SetDesktopName
  <2>2. \A u, v : [[fields[a] EXCEPT !.desktop_names = u] EXCEPT !.desktop_names = v]
                    = [fields[a] EXCEPT !.desktop_names = v]
    BY DEF Shapes, IsObject
  <2>3. PICK v, data : Sets(a, "DesktopNames", [fields[a] EXCEPT !.desktop_names = v], "UTF8", data)
    BY <2>1, <2>2
  <2> QED BY <2>3, OtherSets
<1>8. ASSUME NEW size \in Geometries, SetDesktopGeometry(size) PROVE GeometrySetting
  <2>1. PICK new : new = [fields[wm] EXCEPT !["geometry"] = size]
    OBVIOUS
  <2>2. Sets(wm, "DesktopGeometry", new, "CARDINAL", size)
    BY <1>8, <2>1 DEF SetDesktopGeometry
  <2>3. "DesktopGeometry" \in Properties /\ "geometry" \in FieldNames
    OBVIOUS
  <2> HIDE PropertiesAre DEF FieldNames, View, Valued
  <2>4. /\ Gives(wm, {"geometry"}, "DesktopGeometry")
        /\ property'["DesktopGeometry"] = Property("CARDINAL", size)
    BY <2>1, <2>2, <2>3, SetsOne
  <2> QED BY <2>4 DEF GeometrySetting
<1>9. ASSUME NEW d \in Desktops, NEW p \in Points, SetDesktopViewport(d, p) PROVE ViewportSetting
  <2>1. PICK v, data : /\ v = SetAt(fields[wm].viewport, d, NoPoint, p)
                       /\ data = Flat(v, fields[wm].number_of_desktops, NoPoint)
    OBVIOUS
  <2>2. PICK new : new = [fields[wm] EXCEPT !["viewport"] = v]
    OBVIOUS
  <2>3. new.viewport = v /\ new.number_of_desktops = fields[wm].number_of_desktops
    BY <2>2 DEF Shapes, IsObject, Agents
  <2>4. Sets(wm, "DesktopViewport", new, "CARDINAL",
             Flat(new.viewport, new.number_of_desktops, NoPoint))
    BY <1>9, <2>1, <2>2 DEF SetDesktopViewport
  <2>5. Sets(wm, "DesktopViewport", new, "CARDINAL", data)
    BY <2>1, <2>3, <2>4
  <2>6. "DesktopViewport" \in Properties /\ "viewport" \in FieldNames
    OBVIOUS
  <2> HIDE PropertiesAre DEF FieldNames, View, Valued
  <2>7. /\ Gives(wm, {"viewport"}, "DesktopViewport") /\ fields'[wm].viewport = v
        /\ property'["DesktopViewport"] = Property("CARDINAL", data)
    BY <2>2, <2>5, <2>6, SetsOne
  <2> QED BY <2>1, <2>7 DEF ViewportSetting
<1>10. ASSUME NEW d \in Desktops, SetWorkArea(d, <<d, 1, 1, 1>>) PROVE OtherSetting
  <2>1. \E v, data : Sets(wm, "WorkArea", [fields[wm] EXCEPT !.workarea = v], "CARDINAL", data)
    BY <1>10 DEF SetWorkArea
  <2> QED BY <2>1, OtherSets DEF Agents, wm, client
<1>11. ASSUME NEW w \in Windows, SetActiveWindow(w) PROVE OtherSetting
  BY <1>11, OtherSets DEF SetActiveWindow, Agents, wm, client
<1>12. ASSUME NEW a \in Agents, NEW layout, SetDesktopLayout(a, layout) PROVE OtherSetting
  BY <1>12, OtherSets DEF SetDesktopLayout
<1>13. ASSUME NEW on \in BOOLEAN, SetShowingDesktop(on) PROVE OtherSetting
  <2>1. \E v, data : Sets(wm, "WM2ShowingDesktop", [fields[wm] EXCEPT !.showing_desktop = v],
                          "CARDINAL", data)
    BY <1>13 DEF SetShowingDesktop
  <2> QED BY <2>1, OtherSets DEF Agents, wm, client
<1>14. ASSUME NEW f, NEW on \in BOOLEAN, SetSupported(f, on) PROVE SupportSetting
  BY <1>14, SupportSets
<1> QED BY <1>1, <1>2, <1>3, <1>4, <1>5, <1>6, <1>7, <1>8, <1>9, <1>10, <1>11, <1>12, <1>13, <1>14
        DEF Setters, Settings

-----------------------------------------------------------------------------
(* Steps as the client's object sees them                                  *)

SameView(f, g) == \A x \in View : f[x] = g[x]

\* Every step but the client's own reading leaves its view alone.
LEMMA StepsShape ==
  ASSUME Shapes, [Next]_vars
  PROVE  /\ Shapes'
         /\ Update(client) \/ SameView(fields[client], fields'[client])
<1> USE DEF Agents, wm, client
<1>1. ASSUME NEW a \in Agents, Activate(a) PROVE Shapes' /\ UNCHANGED fields
  <2>1. UNCHANGED fields
    BY <1>1 DEF Activate
  <2>2. todo' = [b \in Agents |-> todo'[b]] /\ queue' = [b \in Agents |-> queue'[b]]
    BY <1>1 DEF Activate, PublishSupported, Shapes
  <2>3. property' = [p \in Properties |-> property'[p]]
    BY <1>1 DEF Activate, PublishSupported, Shapes
  <2> QED BY <2>1, <2>2, <2>3 DEF Shapes, IsObject
<1>2. ASSUME NEW a \in Agents, Update(a)
      PROVE  Shapes' /\ (a # client => fields'[client] = fields[client])
  <2>1. PICK p \in Properties :
          p = Head(todo[a]) /\ fields' = [fields EXCEPT ![a] = Read(p, fields[a], property[p])]
    BY <1>2 DEF Update
  <2>2. IsObject(Read(p, fields[a], property[p]))
    BY ReadKeeps DEF Shapes
  <2>3. fields' = [b \in Agents |-> fields'[b]]
        /\ (\A b \in Agents : b # a => fields'[b] = fields[b])
        /\ fields'[a] = Read(p, fields[a], property[p])
    BY <2>1 DEF Shapes
  <2>4. \A b \in Agents : IsObject(fields[b])'
    BY <2>2, <2>3 DEF Shapes, IsObject
  <2>5. todo' = [b \in Agents |-> todo'[b]] /\ UNCHANGED <<queue, property>>
    BY <1>2 DEF Update, Shapes
  <2> QED BY <2>3, <2>4, <2>5 DEF Shapes
<1>3. ASSUME NEW a \in Agents, OnPropertyNotify(a) PROVE Shapes' /\ UNCHANGED fields
  BY <1>3 DEF OnPropertyNotify, Dispatch, Shapes, IsObject
<1>4. ASSUME PublishName PROVE Shapes' /\ UNCHANGED fields
  BY <1>4 DEF PublishName, Shapes, IsObject
<1>5. ASSUME OnClientMessage PROVE Shapes' /\ UNCHANGED fields
  BY <1>5 DEF OnClientMessage, Dispatch, Shapes, IsObject
<1>6. ASSUME Settings PROVE Shapes' /\ SameView(fields[client], fields'[client])
  <2>1. View \subseteq FieldNames
    BY DEF View, FieldNames
  <2>2. ASSUME NEW a \in Agents, NEW x, NEW p, Gives(a, x, p), a = client => x \cap View = {}
        PROVE  Shapes' /\ SameView(fields[client], fields'[client])
    BY <2>1, <2>2 DEF Gives, SameView
  <2>3. ASSUME NEW x, NEW p, Gives(wm, x, p)
        PROVE  Shapes' /\ SameView(fields[client], fields'[client])
    BY <2>2, <2>3
  <2>4. CASE OtherSetting
    BY <2>2, <2>4 DEF OtherSetting, Spared
  <2>9. CASE SupportSetting
    BY <2>1, <2>9 DEF SupportSetting, SameView
  <2>5. CASE NumberSetting
    BY <2>3, <2>5 DEF NumberSetting
  <2>6. CASE CurrentSetting
    BY <2>3, <2>6 DEF CurrentSetting
  <2>7. CASE GeometrySetting
    BY <2>3, <2>7 DEF GeometrySetting
  <2>8. CASE ViewportSetting
    BY <2>3, <2>8 DEF ViewportSetting
  <2> QED BY <1>6, <2>4, <2>5, <2>6, <2>7, <2>8, <2>9 DEF Settings
<1>7. ASSUME Senders PROVE Shapes' /\ UNCHANGED fields
  <2>1. /\ UNCHANGED <<fields, property, todo>>
        /\ queue' = queue \/ \E m : queue' = [queue EXCEPT ![wm] = m]
    BY <1>7 DEF Senders, Sends, Calls, Ping, SendNumberOfDesktops, SendCurrentDesktop,
       SendDesktopGeometry, SendDesktopViewport, SendShowingDesktop, SendActiveWindow,
       CloseWindowRequest, MoveResizeRequest, MoveResizeWindowRequest,
       ShowWindowMenuRequest, RestackRequest
  <2> QED BY <2>1 DEF Shapes, IsObject
<1>8. ASSUME UNCHANGED vars PROVE Shapes' /\ UNCHANGED fields
  BY <1>8 DEF vars, Shapes, IsObject
<1>9. UNCHANGED fields => SameView(fields[client], fields'[client])
  BY DEF SameView
<1>10. fields'[client] = fields[client] => SameView(fields[client], fields'[client])
  BY DEF SameView
<1>11. ASSUME Setters PROVE Shapes' /\ SameView(fields[client], fields'[client])
  BY <1>6, <1>11, SettersAre
<1> QED BY <1>1, <1>2, <1>3, <1>4, <1>5, <1>7, <1>8, <1>9, <1>10, <1>11 DEF Next

LEMMA ShapesInit == Init => Shapes
<1> SUFFICES ASSUME Init PROVE Shapes
  OBVIOUS
<1>1. \A a \in Agents : IsObject(fields[a])
  BY DEF Init, NewFields, IsObject, FieldNames
<1> QED BY <1>1 DEF Init, Shapes

-----------------------------------------------------------------------------
(* Listeners                                                               *)

ToldNames == {"active", "showing", "number", "sameMapping", "current", "sameLayout"}

\* What a listener that was told m knows of an object f
Knows(m, f) ==
  /\ m = [x \in ToldNames |-> m[x]]
  /\ m.active = f.active /\ m.showing = f.showing_desktop
  /\ m.sameMapping => m.number = numberOfDesktops(f)
  /\ m.sameLayout => m.current = currentDesktop(f)

\* A listener knows the client's object at any moment, events on their way or not; while
\* a reply to an event is awaited it is the only one, SupportName apart, which comes second.
ListenInv ==
  /\ client \notin active => todo[client] = <<>> /\ announced = Unknown
  /\ announced # Unknown =>
       /\ todo[client] = <<>> \/ \E p \in Properties : todo[client] = <<p>>
       /\ Knows(announced, fields[client])

LEMMA ViewDecides ==
  ASSUME NEW f, NEW g, SameView(f, g)
  PROVE  /\ numberOfDesktops(f) = numberOfDesktops(g) /\ currentDesktop(f) = currentDesktop(g)
         /\ mapViewport(f) <=> mapViewport(g)
<1> USE DEF SameView, View
<1>1. /\ f.supported = g.supported /\ f.number_of_desktops = g.number_of_desktops
      /\ f.geometry = g.geometry /\ f.viewport = g.viewport
      /\ f.current_desktop = g.current_desktop
  OBVIOUS
<1>2. /\ desktopGeometry(f) = desktopGeometry(g) /\ ownCurrentDesktop(f) = ownCurrentDesktop(g)
      /\ ownNumberOfDesktops(f) = ownNumberOfDesktops(g)
  BY <1>1 DEF desktopGeometry, ownCurrentDesktop, ownNumberOfDesktops
<1>3. desktopViewport(f) = desktopViewport(g) /\ (mapViewport(f) <=> mapViewport(g))
  BY <1>1, <1>2 DEF desktopViewport, mapViewport
<1>4. \A p : viewportToDesktop(f, p) = viewportToDesktop(g, p)
  BY <1>2 DEF viewportToDesktop, PartOf, Parts
<1> QED BY <1>2, <1>3, <1>4 DEF numberOfDesktops, currentDesktop

LEMMA SameKnows ==
  ASSUME NEW m, NEW f, NEW g, SameView(f, g), Knows(m, f)
  PROVE  Knows(m, g)
BY ViewDecides DEF Knows, SameView, View

LEMMA ToldKnows ==
  ASSUME NEW f
  PROVE  Knows(Told(f), f)
BY DEF Told, Knows, ToldNames

\* What a property changes that is not announced
LEMMA ReadDecides ==
  ASSUME NEW f, IsObject(f), NEW p \in Properties, NEW r, NEW g, g = Read(p, f, r)
  PROVE  /\ p # "ActiveWindow" => g.active = f.active
         /\ p # "WM2ShowingDesktop" => g.showing_desktop = f.showing_desktop
         /\ (mapViewport(g) <=> mapViewport(f)) =>
              \/ numberOfDesktops(g) = numberOfDesktops(f)
              \/ p = "NumberOfDesktops" \/ (p = "DesktopGeometry" /\ mapViewport(g))
         /\ Layout(g) = Layout(f) =>
              \/ currentDesktop(g) = currentDesktop(f)
              \/ p = "CurrentDesktop" \/ (p = "DesktopViewport" /\ mapViewport(g))
<1>1. /\ p # "Supported" => g.supported = f.supported
      /\ p # "NumberOfDesktops" => g.number_of_desktops = f.number_of_desktops
      /\ p # "DesktopGeometry" => g.geometry = f.geometry
      /\ p # "DesktopViewport" => g.viewport = f.viewport
      /\ p # "CurrentDesktop" => g.current_desktop = f.current_desktop
      /\ p # "ActiveWindow" => g.active = f.active
      /\ p # "WM2ShowingDesktop" => g.showing_desktop = f.showing_desktop
  BY ReadKeeps DEF SourceOf, View
<1>2. ASSUME mapViewport(g) <=> mapViewport(f), p # "NumberOfDesktops",
             ~(p = "DesktopGeometry" /\ mapViewport(g))
      PROVE  numberOfDesktops(g) = numberOfDesktops(f)
  <2>1. ownNumberOfDesktops(g) = ownNumberOfDesktops(f)
    BY <1>1, <1>2 DEF ownNumberOfDesktops
  <2>2. mapViewport(g) => desktopGeometry(g) = desktopGeometry(f)
    BY <1>1, <1>2 DEF desktopGeometry
  <2> QED BY <1>2, <2>1, <2>2 DEF numberOfDesktops
<1>3. ASSUME Layout(g) = Layout(f), p # "CurrentDesktop", ~(p = "DesktopViewport" /\ mapViewport(g))
      PROVE  currentDesktop(g) = currentDesktop(f)
  <2>1. /\ desktopGeometry(g) = desktopGeometry(f) /\ (mapViewport(g) <=> mapViewport(f))
    BY <1>3 DEF Layout
  <2>2. ownCurrentDesktop(g) = ownCurrentDesktop(f)
    BY <1>1, <1>3 DEF ownCurrentDesktop
  <2>3. mapViewport(g) => desktopViewport(g) = desktopViewport(f)
    BY <1>1, <1>3, <2>2 DEF desktopViewport
  <2>4. \A c : viewportToDesktop(g, c) = viewportToDesktop(f, c)
    BY <2>1 DEF viewportToDesktop, PartOf, Parts
  <2> QED BY <2>1, <2>2, <2>3, <2>4 DEF currentDesktop
<1> QED BY <1>1, <1>2, <1>3

LEMMA AnnouncedKnows ==
  ASSUME NEW f, IsObject(f), NEW p \in Properties, NEW r, Knows(announced, f)
  PROVE  Knows(Announced(p, f, Read(p, f, r)), Read(p, f, r))
<1>1. PICK g : g = Read(p, f, r)
  OBVIOUS
<1> DEFINE number == /\ numberOfDesktops(g) # numberOfDesktops(f)
                     /\ p = "NumberOfDesktops" \/ (p = "DesktopGeometry" /\ mapViewport(g))
           current == /\ currentDesktop(g) # currentDesktop(f)
                      /\ p = "CurrentDesktop" \/ (p = "DesktopViewport" /\ mapViewport(g))
           m == Announced(p, f, g)
<1>2. /\ m = [x \in ToldNames |-> m[x]]
      /\ m.active = IF p = "ActiveWindow" THEN g.active ELSE announced.active
      /\ m.showing = IF p = "WM2ShowingDesktop" THEN g.showing_desktop ELSE announced.showing
      /\ m.number = IF number THEN numberOfDesktops(g) ELSE announced.number
      /\ m.sameMapping <=> number \/ (announced.sameMapping /\ mapViewport(g) = mapViewport(f))
      /\ m.current = IF current THEN currentDesktop(g) ELSE announced.current
      /\ m.sameLayout <=> current \/ (announced.sameLayout /\ Layout(g) = Layout(f))
  BY DEF Announced, Knows, ToldNames
<1> HIDE DEF m
<1>3. m.active = g.active /\ m.showing = g.showing_desktop
  BY <1>1, <1>2, ReadDecides DEF Knows
<1>4. m.sameMapping => m.number = numberOfDesktops(g)
  <2>1. CASE number
    BY <1>2, <2>1
  <2>2. CASE ~number
    BY <1>1, <1>2, <2>2, ReadDecides DEF Knows
  <2> QED BY <2>1, <2>2
<1>5. m.sameLayout => m.current = currentDesktop(g)
  <2>1. CASE current
    BY <1>2, <2>1
  <2>2. CASE ~current
    BY <1>1, <1>2, <2>2, ReadDecides DEF Knows
  <2> QED BY <2>1, <2>2
<1>6. Knows(m, g)
  BY <1>2, <1>3, <1>4, <1>5 DEF Knows
<1> QED BY <1>1, <1>6 DEF m

\* What a step does to the replies the client waits for
LEMMA ClientReplies ==
  ASSUME Shapes, [Next]_vars
  PROVE  \/ client \notin active /\ client \in active' /\ UNCHANGED fields
         \/ Update(client)
         \/ /\ client \in active /\ client \in active' /\ todo[client] = <<>>
            /\ \E p \in Properties : todo'[client] = <<p>>
         \/ todo'[client] = todo[client] /\ (client \in active <=> client \in active')
<1> USE DEF Agents, wm, client
<1>1. ASSUME Activate(client) PROVE client \notin active /\ client \in active' /\ UNCHANGED fields
  BY <1>1 DEF Activate
<1>2. ASSUME Activate(wm)
      PROVE  todo'[client] = todo[client] /\ (client \in active <=> client \in active')
  BY <1>2 DEF Activate, Shapes
<1>3. ASSUME Update(wm)
      PROVE  todo'[client] = todo[client] /\ (client \in active <=> client \in active')
  BY <1>3 DEF Update, Shapes
<1>4. ASSUME OnPropertyNotify(client)
      PROVE  /\ client \in active /\ client \in active' /\ todo[client] = <<>>
             /\ \E p \in Properties : todo'[client] = <<p>>
  BY <1>4 DEF OnPropertyNotify, Dispatch, Shapes
<1>5. ASSUME OnPropertyNotify(wm)
      PROVE  todo'[client] = todo[client] /\ (client \in active <=> client \in active')
  BY <1>5 DEF OnPropertyNotify, Dispatch, Shapes
<1>6. ASSUME PublishName \/ OnClientMessage \/ Senders \/ UNCHANGED vars
      PROVE  todo'[client] = todo[client] /\ (client \in active <=> client \in active')
  <2>1. CASE PublishName
    BY <2>1 DEF PublishName, Shapes
  <2>2. CASE OnClientMessage
    BY <2>2 DEF OnClientMessage, Dispatch
  <2>3. CASE Senders
    BY <2>3 DEF Senders, Sends, Calls, Ping, SendNumberOfDesktops, SendCurrentDesktop,
       SendDesktopGeometry, SendDesktopViewport, SendShowingDesktop, SendActiveWindow,
       CloseWindowRequest, MoveResizeRequest, MoveResizeWindowRequest,
       ShowWindowMenuRequest, RestackRequest
  <2>4. CASE UNCHANGED vars
    BY <2>4 DEF vars
  <2> QED BY <1>6, <2>1, <2>2, <2>3, <2>4
<1>7. ASSUME Setters
      PROVE  todo'[client] = todo[client] /\ (client \in active <=> client \in active')
  BY <1>7, SettersAre DEF Settings, OtherSetting, SupportSetting, NumberSetting, CurrentSetting,
     GeometrySetting, ViewportSetting, Gives
<1> QED BY <1>1, <1>2, <1>3, <1>4, <1>5, <1>6, <1>7 DEF Next

LEMMA ListenInvNext ==
  ASSUME Shapes, ListenInv, [DesktopsNext]_<<vars, announced>>
  PROVE  ListenInv'
<1>1. [Next]_vars
  BY DEF DesktopsNext
<1>2. \/ announced' = announced
      \/ todo[client] # <<>> /\ todo'[client] = <<>> /\ Announce
  BY DEF DesktopsNext, Announce
<1>3. ASSUME Update(client) PROVE ListenInv'
  <2>1. PICK p \in Properties :
          /\ p = Head(todo[client]) /\ todo[client] # <<>>
          /\ fields'[client] = Read(p, fields[client], property[p])
          /\ active' = active
          /\ \/ todo'[client] = Tail(todo[client])
             \/ p = "SupportingWMCheck" /\ todo'[client] = Append(Tail(todo[client]), "SupportName")
    BY <1>3 DEF Update, Shapes, Agents
  <2>2. client \in active /\ client \in active'
    BY <2>1 DEF ListenInv
  <2>3. CASE todo'[client] # <<>>
    <3>1. announced' = announced
      BY <1>2, <2>3
    <3>2. CASE announced = Unknown
      BY <2>2, <3>1, <3>2 DEF ListenInv, Unknown
    <3>3. CASE announced # Unknown
      <4>1. todo[client] = <<p>> /\ Knows(announced, fields[client])
        BY <2>1, <3>3 DEF ListenInv
      <4>2. p = "SupportingWMCheck" /\ todo'[client] = <<"SupportName">>
        BY <2>1, <2>3, <4>1
      <4>3. SameView(fields[client], fields'[client])
        BY <2>1, <4>2, ReadKeeps DEF SameView, SourceOf, View, Shapes, Agents
      <4>4. Knows(announced, fields'[client])
        BY <4>1, <4>3, SameKnows
      <4> QED BY <2>2, <3>1, <4>2, <4>4, PropertiesAre DEF ListenInv
    <3> QED BY <3>2, <3>3
  <2>4. CASE todo'[client] = <<>>
    <3>1. Announce
      BY <2>1, <2>4 DEF DesktopsNext, vars, Update, Announce
    <3>2. CASE announced = Unknown
      <4>1. announced' = Told(fields'[client])
        BY <2>1, <2>4, <3>1, <3>2 DEF Announce
      <4>2. Knows(announced', fields'[client])
        BY <4>1, ToldKnows
      <4> QED BY <2>2, <2>4, <4>2 DEF ListenInv
    <3>3. CASE announced # Unknown
      <4>1. Knows(announced, fields[client]) /\ IsObject(fields[client])
        BY <3>3 DEF ListenInv, Shapes, Agents
      <4>2. announced' = Announced(p, fields[client], fields'[client])
        BY <2>1, <2>4, <3>1, <3>3 DEF Announce
      <4>3. Knows(announced', fields'[client])
        BY <2>1, <4>1, <4>2, AnnouncedKnows
      <4> QED BY <2>2, <2>4, <4>3 DEF ListenInv
    <3> QED BY <3>2, <3>3
  <2> QED BY <2>3, <2>4
<1>4. CASE ~Update(client)
  <2>1. SameView(fields[client], fields'[client])
    BY <1>1, <1>4, StepsShape
  <2>2. (announced' = announced /\ announced # Unknown) => Knows(announced', fields'[client])
    BY <2>1, SameKnows DEF ListenInv
  <2>3. CASE client \notin active /\ client \in active' /\ UNCHANGED fields
    BY <1>2, <2>3 DEF ListenInv
  <2>4. CASE /\ client \in active /\ client \in active' /\ todo[client] = <<>>
             /\ \E p \in Properties : todo'[client] = <<p>>
    BY <1>2, <2>2, <2>4 DEF ListenInv
  <2>5. CASE todo'[client] = todo[client] /\ (client \in active <=> client \in active')
    BY <1>2, <2>2, <2>5 DEF ListenInv
  <2> QED BY <1>1, <1>4, <2>3, <2>4, <2>5, ClientReplies
<1> QED BY <1>3, <1>4

LEMMA ListenInvInit == DesktopsInit => ListenInv
BY DEF DesktopsInit, Init, ListenInv, Agents

LEMMA ShapesAlways == DesktopsSpec => []Shapes
<1>1. DesktopsInit => Shapes
  BY ShapesInit DEF DesktopsInit
<1>2. Shapes /\ [DesktopsNext]_<<vars, announced>> => Shapes'
  <2>1. [DesktopsNext]_<<vars, announced>> => [Next]_vars
    BY DEF DesktopsNext
  <2> QED BY <2>1, StepsShape
<1> QED BY <1>1, <1>2, PTL DEF DesktopsSpec

\* kx11extras.cpp, NETEventFilter::nativeEventFilter(): who has followed the signals since
\* the filter was new knows the active window, the showing desktop mode, the number of
\* desktops and the current one, except where ListenersFollow says.
THEOREM ListenersAlwaysFollow == DesktopsSpec => []ListenersFollow
<1>1. DesktopsInit => ListenInv
  BY ListenInvInit
<1>2. Shapes /\ ListenInv /\ [DesktopsNext]_<<vars, announced>> => ListenInv'
  BY ListenInvNext
<1>3. ListenInv => ListenersFollow
  BY DEF ListenInv, ListenersFollow, Knows, f0
<1> QED BY <1>1, <1>2, <1>3, ShapesAlways, PTL DEF DesktopsSpec

-----------------------------------------------------------------------------
(* Requests                                                                *)

IsSequence(s) == \E S : s \in Seq(S)

LEMMA AppendSequence ==
  ASSUME NEW s, IsSequence(s), NEW e
  PROVE  /\ IsSequence(Append(s, e)) /\ Len(s) \in Nat /\ Len(Append(s, e)) = Len(s) + 1
         /\ Append(s, e)[Len(s) + 1] = e
         /\ \A i \in 1..Len(s) : Append(s, e)[i] = s[i]
<1>1. PICK S : s \in Seq(S)
  BY DEF IsSequence
<1> DEFINE T == S \cup {e}
<1>2. s \in Seq(T)
  BY <1>1, SeqMonotonic
<1>3. e \in T
  OBVIOUS
<1> HIDE DEF T
<1>4. Append(s, e) \in Seq(T)
  BY <1>2, <1>3
<1> QED BY <1>2, <1>3, <1>4 DEF IsSequence

LEMMA TailSequence ==
  ASSUME NEW s, IsSequence(s), s # <<>>
  PROVE  /\ IsSequence(Tail(s)) /\ Len(s) \in Nat \ {0} /\ Len(Tail(s)) = Len(s) - 1
         /\ Head(s) = s[1]
         /\ \A i \in 1..(Len(s) - 1) : Tail(s)[i] = s[i + 1]
<1>1. PICK S : s \in Seq(S)
  BY DEF IsSequence
<1>2. Tail(s) \in Seq(S)
  BY <1>1
<1> QED BY <1>1, <1>2 DEF IsSequence

\* place finds the requests of s after the first d in the queue q, in order, and there
\* are no others in q.
Places(place, q, d, s) ==
  /\ place \in [(d + 1)..Len(s) -> 1..Len(q)]
  /\ \A i, j \in (d + 1)..Len(s) : i < j => place[i] < place[j]
  /\ \A i \in (d + 1)..Len(s) : /\ q[place[i]].type \notin Properties
                                /\ Callback(q[place[i]]) = s[i]
  /\ \A k \in 1..Len(q) : q[k].type \notin Properties =>
                            \E i \in (d + 1)..Len(s) : place[i] = k

LEMMA PlacesNotice ==
  ASSUME NEW q, IsSequence(q), NEW d \in Nat, NEW s, IsSequence(s),
         NEW place, Places(place, q, d, s), NEW m, m.type \in Properties
  PROVE  Places(place, Append(q, m), d, s)
<1>1. PICK n \in Nat : n = Len(s)
  BY DEF IsSequence
<1>2. PICK r : r = Append(q, m)
  OBVIOUS
<1>3. PICK k \in Nat : k = Len(q) /\ Len(r) = k + 1 /\ r[k + 1] = m /\ \A i \in 1..k : r[i] = q[i]
  BY <1>2, AppendSequence
<1>4. place \in [(d + 1)..n -> 1..(k + 1)] /\ \A i \in (d + 1)..n : place[i] \in 1..k
  <2>1. place \in [(d + 1)..n -> 1..k]
    BY <1>1, <1>3 DEF Places
  <2>2. \A i \in (d + 1)..n : place[i] \in 1..k
    BY <2>1
  <2>3. 1..k \subseteq 1..(k + 1)
    OBVIOUS
  <2> QED BY <2>1, <2>2, <2>3
<1>5. \A i \in (d + 1)..n : r[place[i]] = q[place[i]]
  BY <1>3, <1>4
<1>6. \A j \in 1..(k + 1) : r[j].type \notin Properties => j \in 1..k
  BY <1>3
<1> QED BY <1>1, <1>2, <1>3, <1>4, <1>5, <1>6 DEF Places

LEMMA PlacesRequest ==
  ASSUME NEW q, IsSequence(q), NEW d \in Nat, NEW s, IsSequence(s), d <= Len(s),
         NEW place, Places(place, q, d, s), NEW m, m.type \notin Properties
  PROVE  \E p : Places(p, Append(q, m), d, Append(s, Callback(m)))
<1>1. PICK t : t = Append(s, Callback(m))
  OBVIOUS
<1>2. PICK n \in Nat : /\ n = Len(s) /\ Len(t) = n + 1 /\ t[n + 1] = Callback(m)
                       /\ \A i \in 1..n : t[i] = s[i]
  BY <1>1, AppendSequence
<1>3. PICK r : r = Append(q, m)
  OBVIOUS
<1>4. PICK k \in Nat : k = Len(q) /\ Len(r) = k + 1 /\ r[k + 1] = m /\ \A i \in 1..k : r[i] = q[i]
  BY <1>3, AppendSequence
<1>5. PICK p : p = [i \in (d + 1)..(n + 1) |-> IF i = n + 1 THEN k + 1 ELSE place[i]]
  OBVIOUS
<1>6. /\ \A i \in (d + 1)..n : place[i] \in 1..k /\ p[i] = place[i] /\ i \in 1..n
      /\ p[n + 1] = k + 1 /\ d <= n
  <2>1. d <= n /\ place \in [(d + 1)..n -> 1..k]
    BY <1>2, <1>4 DEF Places
  <2>2. \A i \in (d + 1)..n : place[i] \in 1..k
    BY <2>1
  <2>3. \A i \in (d + 1)..n : i \in (d + 1)..(n + 1) /\ i # n + 1 /\ i \in 1..n
    OBVIOUS
  <2>4. n + 1 \in (d + 1)..(n + 1)
    BY <2>1
  <2> QED BY <1>5, <2>1, <2>2, <2>3, <2>4
<1>7. p \in [(d + 1)..(n + 1) -> 1..(k + 1)]
  <2>1. \A i \in (d + 1)..(n + 1) : p[i] \in 1..(k + 1)
    <3>1. TAKE i \in (d + 1)..(n + 1)
    <3>2. i = n + 1 \/ i \in (d + 1)..n
      OBVIOUS
    <3>3. \A j \in 1..k : j \in 1..(k + 1)
      OBVIOUS
    <3> QED BY <1>6, <3>2, <3>3
  <2> QED BY <1>5, <2>1
<1>8. \A i \in (d + 1)..(n + 1) : i = n + 1 \/ i \in (d + 1)..n
  OBVIOUS
<1>9. \A i, j \in (d + 1)..(n + 1) : i < j => p[i] < p[j]
  BY <1>2, <1>4, <1>6, <1>8 DEF Places
<1>10. \A i \in (d + 1)..(n + 1) : r[p[i]].type \notin Properties /\ Callback(r[p[i]]) = t[i]
  <2>1. TAKE i \in (d + 1)..(n + 1)
  <2>2. CASE i = n + 1
    BY <1>2, <1>4, <1>6, <2>2
  <2>3. CASE i \in (d + 1)..n
    <3>1. r[p[i]] = q[place[i]] /\ t[i] = s[i]
      BY <1>2, <1>4, <1>6, <2>3
    <3> QED BY <1>2, <2>3, <3>1 DEF Places
  <2> QED BY <1>8, <2>2, <2>3
<1>11. ASSUME NEW j \in 1..(k + 1), r[j].type \notin Properties
       PROVE  \E i \in (d + 1)..(n + 1) : p[i] = j
  <2>1. CASE j = k + 1
    BY <1>6, <2>1
  <2>2. CASE j \in 1..k
    <3>1. q[j].type \notin Properties
      BY <1>4, <1>11, <2>2
    <3>2. PICK i \in (d + 1)..n : place[i] = j
      BY <1>2, <1>4, <2>2, <3>1 DEF Places
    <3> QED BY <1>6, <3>2
  <2> QED BY <2>1, <2>2
<1>12. Places(p, r, d, t)
  BY <1>2, <1>4, <1>7, <1>9, <1>10, <1>11 DEF Places
<1> QED BY <1>1, <1>3, <1>12

LEMMA PlacesTail ==
  ASSUME NEW q, IsSequence(q), q # <<>>, NEW d \in Nat, NEW s, IsSequence(s),
         NEW place, Places(place, q, d, s)
  PROVE  /\ Head(q).type \in Properties => \E p : Places(p, Tail(q), d, s)
         /\ Head(q).type \notin Properties =>
              /\ d + 1 <= Len(s) /\ Callback(Head(q)) = s[d + 1]
              /\ \E p : Places(p, Tail(q), d + 1, s)
<1>1. PICK n \in Nat : n = Len(s)
  BY DEF IsSequence
<1>2. PICK r : r = Tail(q)
  OBVIOUS
<1>3. PICK k \in Nat : /\ k = Len(r) /\ Len(q) = k + 1 /\ Head(q) = q[1]
                       /\ \A i \in 1..k : r[i] = q[i + 1]
  <2>1. /\ Len(q) \in Nat \ {0} /\ Len(r) = Len(q) - 1 /\ Head(q) = q[1]
        /\ \A i \in 1..(Len(q) - 1) : r[i] = q[i + 1]
    BY <1>2, TailSequence
  <2>2. PICK k \in Nat : k + 1 = Len(q)
    BY <2>1
  <2> QED BY <2>1, <2>2
<1>4. /\ \A i \in (d + 1)..n : place[i] \in 1..(k + 1)
      /\ \A i, j \in (d + 1)..n : i < j => place[i] < place[j]
      /\ \A i \in (d + 1)..n : q[place[i]].type \notin Properties /\ Callback(q[place[i]]) = s[i]
      /\ \A j \in 1..(k + 1) : q[j].type \notin Properties => \E i \in (d + 1)..n : place[i] = j
  BY <1>1, <1>3 DEF Places
<1>5. ASSUME NEW c \in {d, d + 1}, \A i \in (c + 1)..n : i \in (d + 1)..n /\ place[i] # 1,
             \A i \in (d + 1)..n : place[i] # 1 => i \in (c + 1)..n
      PROVE  \E p : Places(p, r, c, s)
  <2>1. PICK p : p = [i \in (c + 1)..n |-> place[i] - 1]
    OBVIOUS
  <2>2. \A i \in (c + 1)..n : /\ i \in (d + 1)..n /\ p[i] \in 1..k /\ p[i] + 1 = place[i]
    BY <1>4, <1>5, <2>1
  <2>3. p \in [(c + 1)..n -> 1..k]
    BY <2>1, <2>2
  <2>4. \A i, j \in (c + 1)..n : i < j => p[i] < p[j]
    <3>1. TAKE i \in (c + 1)..n, j \in (c + 1)..n
    <3>2. HAVE i < j
    <3>3. place[i] < place[j] /\ p[i] \in Nat /\ p[j] \in Nat
      BY <1>4, <2>2, <3>2
    <3> QED BY <2>2, <3>3
  <2>5. \A i \in (c + 1)..n : r[p[i]].type \notin Properties /\ Callback(r[p[i]]) = s[i]
    <3>1. TAKE i \in (c + 1)..n
    <3>2. r[p[i]] = q[place[i]]
      BY <1>3, <2>2
    <3> QED BY <1>4, <2>2, <3>2
  <2>6. ASSUME NEW j \in 1..k, r[j].type \notin Properties PROVE \E i \in (c + 1)..n : p[i] = j
    <3>1. j + 1 \in 1..(k + 1) /\ q[j + 1].type \notin Properties
      BY <1>3, <2>6
    <3>2. PICK i \in (d + 1)..n : place[i] = j + 1
      BY <1>4, <3>1
    <3>3. i \in (c + 1)..n
      BY <1>5, <3>2
    <3> QED BY <2>1, <3>2, <3>3
  <2>7. \A j \in 1..k : r[j].type \notin Properties => \E i \in (c + 1)..n : p[i] = j
    BY <2>6
  <2>8. Places(p, r, c, s)
    BY <1>1, <1>3, <2>3, <2>4, <2>5, <2>7 DEF Places
  <2> QED BY <2>8
<1>6. CASE Head(q).type \in Properties
  <2>1. \A i \in (d + 1)..n : place[i] # 1
    BY <1>3, <1>4, <1>6
  <2> QED BY <1>2, <1>5, <1>6, <2>1
<1>7. CASE Head(q).type \notin Properties
  <2>1. PICK i \in (d + 1)..n : place[i] = 1
    BY <1>3, <1>4, <1>7
  <2>2. d + 1 \in (d + 1)..n /\ place[d + 1] = 1
    <3>1. d + 1 \in (d + 1)..n
      BY <2>1
    <3>2. place[d + 1] \in 1..(k + 1)
      BY <1>4, <3>1
    <3> QED BY <1>4, <2>1, <3>1, <3>2
  <2>3. \A j \in (d + 1)..n : j = d + 1 \/ (j \in (d + 2)..n /\ place[j] # 1)
    BY <1>4, <2>2
  <2>4. \E p : Places(p, r, d + 1, s)
    BY <1>5, <2>2, <2>3
  <2> QED BY <1>1, <1>2, <1>3, <1>4, <1>7, <2>2, <2>4
<1> QED BY <1>6, <1>7

LEMMA ConcatTuples ==
  ASSUME NEW S, NEW s \in Seq(S), NEW t \in Seq(S), NEW u \in Seq(S), Len(u) = Len(s) + Len(t),
         \A i \in 1..Len(u) : u[i] = IF i <= Len(s) THEN s[i] ELSE t[i - Len(s)]
  PROVE  s \o t = u
<1>1. s \o t \in Seq(S) /\ Len(s \o t) = Len(s) + Len(t)
      /\ \A i \in 1..(Len(s) + Len(t)) : (s \o t)[i] = IF i <= Len(s) THEN s[i] ELSE t[i - Len(s)]
  BY ConcatProperties
<1> QED BY <1>1, SeqEqual

\* Messages have six numbers or four.
LEMMA ShortMessage ==
  ASSUME NEW type, NEW w, NEW a, NEW b, NEW c
  PROVE  Message(type, w, <<a, b, c>>) = [type |-> type, data |-> <<w, a, b, c>>]
<1> DEFINE S == {w, a, b, c}
<1>1. PICK s, t, u : s = <<w>> /\ t = <<a, b, c>> /\ u = <<w, a, b, c>>
  OBVIOUS
<1>2. s \in Seq(S) /\ t \in Seq(S) /\ u \in Seq(S)
  <2>1. <<w>> \in Seq(S) /\ <<a, b, c>> \in Seq(S) /\ <<w, a, b, c>> \in Seq(S)
    OBVIOUS
  <2> QED BY <1>1, <2>1
<1>3. Len(s) = 1 /\ Len(t) = 3 /\ Len(u) = 1 + 3
  <2>1. Len(<<w>>) = 1 /\ Len(<<a, b, c>>) = 3 /\ Len(<<w, a, b, c>>) = 1 + 3
    OBVIOUS
  <2> QED BY <1>1, <2>1
<1>4. \A i \in 1..Len(u) : u[i] = IF i <= Len(s) THEN s[i] ELSE t[i - Len(s)]
  <2>1. 1..(1 + 3) = {1, 2, 3, 4} /\ 2 - 1 = 1 /\ 3 - 1 = 2 /\ 4 - 1 = 3
    OBVIOUS
  <2> QED BY <1>1, <1>3, <2>1
<1> HIDE DEF S
<1>5. s \o t = u
  <2>1. Len(u) = Len(s) + Len(t)
    BY <1>3
  <2> QED BY <1>2, <1>4, <2>1, ConcatTuples
<1> QED BY <1>1, <1>5 DEF Message

LEMMA LongMessage ==
  ASSUME NEW type, NEW w, NEW a, NEW b, NEW c, NEW d, NEW e
  PROVE  Message(type, w, <<a, b, c, d, e>>) = [type |-> type, data |-> <<w, a, b, c, d, e>>]
<1> DEFINE S == {w, a, b, c, d, e}
<1>1. PICK s, t, u : s = <<w>> /\ t = <<a, b, c, d, e>> /\ u = <<w, a, b, c, d, e>>
  OBVIOUS
<1>2. s \in Seq(S) /\ t \in Seq(S) /\ u \in Seq(S)
  <2>1. <<w>> \in Seq(S) /\ <<a, b, c, d, e>> \in Seq(S) /\ <<w, a, b, c, d, e>> \in Seq(S)
    OBVIOUS
  <2> QED BY <1>1, <2>1
<1>3. Len(s) = 1 /\ Len(t) = 5 /\ Len(u) = 1 + 5
  <2>1. Len(<<w>>) = 1 /\ Len(<<a, b, c, d, e>>) = 5 /\ Len(<<w, a, b, c, d, e>>) = 1 + 5
    OBVIOUS
  <2> QED BY <1>1, <2>1
<1>4. \A i \in 1..Len(u) : u[i] = IF i <= Len(s) THEN s[i] ELSE t[i - Len(s)]
  <2>1. /\ 1..(1 + 5) = {1, 2, 3, 4, 5, 6}
        /\ 2 - 1 = 1 /\ 3 - 1 = 2 /\ 4 - 1 = 3 /\ 5 - 1 = 4 /\ 6 - 1 = 5
    OBVIOUS
  <2> QED BY <1>1, <1>3, <2>1
<1> HIDE DEF S
<1>5. s \o t = u
  <2>1. Len(u) = Len(s) + Len(t)
    BY <1>3
  <2> QED BY <1>2, <1>4, <2>1, ConcatTuples
<1> QED BY <1>1, <1>5 DEF Message

LEMMA PointMessage == <<1, 2>> \o <<0>> = <<1, 2, 0>>
<1>1. PICK s, t, u : s = <<1, 2>> /\ t = <<0>> /\ u = <<1, 2, 0>>
  OBVIOUS
<1>2. s \in Seq(Int) /\ t \in Seq(Int) /\ u \in Seq(Int)
  <2>1. <<1, 2>> \in Seq(Int) /\ <<0>> \in Seq(Int) /\ <<1, 2, 0>> \in Seq(Int)
    OBVIOUS
  <2> QED BY <1>1, <2>1
<1>3. Len(s) = 2 /\ Len(t) = 1 /\ Len(u) = 2 + 1
  <2>1. Len(<<1, 2>>) = 2 /\ Len(<<0>>) = 1 /\ Len(<<1, 2, 0>>) = 2 + 1
    OBVIOUS
  <2> QED BY <1>1, <2>1
<1>4. \A i \in 1..Len(u) : u[i] = IF i <= Len(s) THEN s[i] ELSE t[i - Len(s)]
  <2>1. 1..(2 + 1) = {1, 2, 3} /\ 3 - 2 = 1
    OBVIOUS
  <2> QED BY <1>1, <1>3, <2>1
<1>5. s \o t = u
  <2>1. Len(u) = Len(s) + Len(t)
    BY <1>3
  <2> QED BY <1>2, <1>4, <2>1, ConcatTuples
<1> QED BY <1>1, <1>5

\* What each message calls
LEMMA CallbackCases ==
  ASSUME NEW m
  PROVE  /\ m.type = "NUMBER_OF_DESKTOPS"
              => Callback(m) = <<"changeNumberOfDesktops", <<m.data[2]>>>>
         /\ m.type = "DESKTOP_GEOMETRY"
              => Callback(m) = <<"changeDesktopGeometry", <<m.data[2], m.data[3]>>>>
         /\ m.type = "DESKTOP_VIEWPORT"
              => Callback(m) = <<"changeDesktopViewport", <<m.data[2], m.data[3]>>>>
         /\ m.type = "CURRENT_DESKTOP"
              => Callback(m) = <<"changeCurrentDesktop", <<Unsigned(m.data[2] + 1)>>>>
         /\ m.type = "ACTIVE_WINDOW" /\ Source(m.data[2])
              => Callback(m) = <<"changeActiveWindow",
                                 <<m.data[1], m.data[2], m.data[3], m.data[4]>>>>
         /\ m.type = "WM_MOVERESIZE"
              => Callback(m) = <<"moveResize", <<m.data[1], m.data[2], m.data[3],
                                                 m.data[4], m.data[5], m.data[6]>>>>
         /\ m.type = "MOVERESIZE_WINDOW"
              => Callback(m) = <<"moveResizeWindow", <<m.data[1], m.data[2], m.data[3],
                                                       m.data[4], m.data[5], m.data[6]>>>>
         /\ m.type = "CLOSE_WINDOW" => Callback(m) = <<"closeWindow", <<m.data[1]>>>>
         /\ m.type = "RESTACK_WINDOW" /\ Source(m.data[2])
              => Callback(m) = <<"restackWindow", <<m.data[1], m.data[2], m.data[3],
                                                    m.data[4], m.data[5]>>>>
         /\ m.type = "WM_PROTOCOLS" => Callback(m) = <<"gotPing", <<m.data[4], m.data[3]>>>>
         /\ m.type = "SHOWING_DESKTOP"
              => Callback(m) = <<"changeShowingDesktop", <<m.data[2] # 0>>>>
         /\ m.type = "GTK_SHOW_WINDOW_MENU"
              => Callback(m) = <<"showWindowMenu", <<m.data[1], m.data[2], m.data[3], m.data[4]>>>>
<1>1. m.type = "NUMBER_OF_DESKTOPS"
     => Callback(m) = <<"changeNumberOfDesktops", <<m.data[2]>>>>
  BY DEF Callback
<1>2. m.type = "DESKTOP_GEOMETRY"
     => Callback(m) = <<"changeDesktopGeometry", <<m.data[2], m.data[3]>>>>
  BY DEF Callback
<1>3. m.type = "DESKTOP_VIEWPORT"
     => Callback(m) = <<"changeDesktopViewport", <<m.data[2], m.data[3]>>>>
  BY DEF Callback
<1>4. m.type = "CURRENT_DESKTOP"
     => Callback(m) = <<"changeCurrentDesktop", <<Unsigned(m.data[2] + 1)>>>>
  BY DEF Callback
<1>5. m.type = "ACTIVE_WINDOW" /\ Source(m.data[2])
     => Callback(m) = <<"changeActiveWindow",
     <<m.data[1], m.data[2], m.data[3], m.data[4]>>>>
  BY DEF Callback
<1>6. m.type = "WM_MOVERESIZE"
     => Callback(m) = <<"moveResize", <<m.data[1], m.data[2], m.data[3],
     m.data[4], m.data[5], m.data[6]>>>>
  BY DEF Callback
<1>7. m.type = "MOVERESIZE_WINDOW"
     => Callback(m) = <<"moveResizeWindow", <<m.data[1], m.data[2], m.data[3],
     m.data[4], m.data[5], m.data[6]>>>>
  BY DEF Callback
<1>8. m.type = "CLOSE_WINDOW" => Callback(m) = <<"closeWindow", <<m.data[1]>>>>
  BY DEF Callback
<1>9. m.type = "RESTACK_WINDOW" /\ Source(m.data[2])
     => Callback(m) = <<"restackWindow", <<m.data[1], m.data[2], m.data[3],
     m.data[4], m.data[5]>>>>
  BY DEF Callback
<1>10. m.type = "WM_PROTOCOLS" => Callback(m) = <<"gotPing", <<m.data[4], m.data[3]>>>>
  BY DEF Callback
<1>11. m.type = "SHOWING_DESKTOP"
     => Callback(m) = <<"changeShowingDesktop", <<m.data[2] # 0>>>>
  BY DEF Callback
<1>12. m.type = "GTK_SHOW_WINDOW_MENU"
     => Callback(m) = <<"showWindowMenu", <<m.data[1], m.data[2], m.data[3], m.data[4]>>>>
  BY DEF Callback
<1> QED BY <1>1, <1>2, <1>3, <1>4, <1>5, <1>6, <1>7, <1>8, <1>9,
           <1>10, <1>11, <1>12

\* The window manager is called with the arguments of the request.
Understands(call, args, m) == m.type \notin Properties /\ Callback(m) = <<call, args>>

\* One more request on its way
Requested ==
  \E m : /\ m.type \notin Properties /\ UNCHANGED got
         /\ queue'[wm] = Append(queue[wm], m) /\ sent' = Append(sent, Callback(m))

LEMMA SendsRequest ==
  ASSUME Shapes, NEW call, NEW args, NEW type, NEW w, NEW data,
         Sends(call, args, type, w, data), Understands(call, args, Message(type, w, data))
  PROVE  UNCHANGED <<queue, sent, got>> \/ Requested
<1>1. UNCHANGED got
  BY DEF Sends
<1>2. CASE wm \notin active
  BY <1>1, <1>2 DEF Sends
<1>3. CASE wm \in active
  <2>1. PICK m : m = Message(type, w, data)
    OBVIOUS
  <2>2. sent' = Append(sent, <<call, args>>) /\ queue' = [queue EXCEPT ![wm] = Append(@, m)]
    BY <1>3, <2>1 DEF Sends
  <2>3. queue'[wm] = Append(queue[wm], m)
    BY <2>2 DEF Shapes, Agents
  <2> QED BY <1>1, <2>1, <2>2, <2>3 DEF Requested, Understands
<1> QED BY <1>2, <1>3

LEMMA SendersRequest ==
  ASSUME Shapes, Senders
  PROVE  UNCHANGED <<queue, sent, got>> \/ Requested
<1> USE PropertiesAre
<1>1. ASSUME NEW n \in 0..1, SendNumberOfDesktops(n)
      PROVE  UNCHANGED <<queue, sent, got>> \/ Requested
  <2>1. Understands("changeNumberOfDesktops", <<n>>, Message("NUMBER_OF_DESKTOPS", 0, <<n, 0, 0>>))
    <3>1. Message("NUMBER_OF_DESKTOPS", 0, <<n, 0, 0>>)
          = [type |-> "NUMBER_OF_DESKTOPS", data |-> <<0, n, 0, 0>>]
      BY ShortMessage
    <3>2. PICK m : m = Message("NUMBER_OF_DESKTOPS", 0, <<n, 0, 0>>)
      OBVIOUS
    <3>3. m.type = "NUMBER_OF_DESKTOPS" /\ m.data = <<0, n, 0, 0>>
      BY <3>1, <3>2
    <3> QED BY <3>2, <3>3, CallbackCases DEF Understands
  <2> QED BY <1>1, <2>1, SendsRequest DEF SendNumberOfDesktops
<1>2. ASSUME NEW n \in 0..1, SendCurrentDesktop(n)
      PROVE  UNCHANGED <<queue, sent, got>> \/ Requested
  <2>1. Unsigned(Unsigned(n - 1) + 1) = n
    <3>1. Word \in Nat /\ Word > 1
      BY WordAssumption
    <3>2. CASE n = 0
      <4>1. (0 - 1) % Word = Word - 1
        BY <3>1
      <4>2. (Word - 1 + 1) % Word = 0
        BY <3>1
      <4> QED BY <3>2, <4>1, <4>2 DEF Unsigned
    <3>3. CASE n = 1
      <4>1. (1 - 1) % Word = 0 /\ (0 + 1) % Word = 1
        BY <3>1
      <4> QED BY <3>3, <4>1 DEF Unsigned
    <3> QED BY <3>2, <3>3
  <2>2. Understands("changeCurrentDesktop", <<n>>,
                    Message("CURRENT_DESKTOP", 0, <<Unsigned(n - 1), 0, 0>>))
    <3>1. Message("CURRENT_DESKTOP", 0, <<Unsigned(n - 1), 0, 0>>)
          = [type |-> "CURRENT_DESKTOP", data |-> <<0, Unsigned(n - 1), 0, 0>>]
      BY <2>1, ShortMessage
    <3>2. PICK m : m = Message("CURRENT_DESKTOP", 0, <<Unsigned(n - 1), 0, 0>>)
      OBVIOUS
    <3>3. m.type = "CURRENT_DESKTOP" /\ m.data = <<0, Unsigned(n - 1), 0, 0>>
      BY <3>1, <3>2
    <3> QED BY <3>2, <3>3, <2>1, CallbackCases DEF Understands
  <2> QED BY <1>2, <2>2, SendsRequest DEF SendCurrentDesktop
<1>3. ASSUME SendDesktopGeometry(<<1, 2>>) PROVE UNCHANGED <<queue, sent, got>> \/ Requested
  <2>1. <<1, 2>> \o <<0>> = <<1, 2, 0>>
    BY PointMessage
  <2>2. Understands("changeDesktopGeometry", <<1, 2>>,
                    Message("DESKTOP_GEOMETRY", 0, <<1, 2>> \o <<0>>))
    <3>1. Message("DESKTOP_GEOMETRY", 0, <<1, 2>> \o <<0>>)
          = [type |-> "DESKTOP_GEOMETRY", data |-> <<0, 1, 2, 0>>]
      BY <2>1, ShortMessage
    <3>2. PICK m : m = Message("DESKTOP_GEOMETRY", 0, <<1, 2>> \o <<0>>)
      OBVIOUS
    <3>3. m.type = "DESKTOP_GEOMETRY" /\ m.data = <<0, 1, 2, 0>>
      BY <3>1, <3>2
    <3> QED BY <3>2, <3>3, <2>1, CallbackCases DEF Understands
  <2> QED BY <1>3, <2>2, SendsRequest DEF SendDesktopGeometry
<1>4. ASSUME SendDesktopViewport(<<1, 2>>) PROVE UNCHANGED <<queue, sent, got>> \/ Requested
  <2>1. <<1, 2>> \o <<0>> = <<1, 2, 0>>
    BY PointMessage
  <2>2. Understands("changeDesktopViewport", <<1, 2>>,
                    Message("DESKTOP_VIEWPORT", 0, <<1, 2>> \o <<0>>))
    <3>1. Message("DESKTOP_VIEWPORT", 0, <<1, 2>> \o <<0>>)
          = [type |-> "DESKTOP_VIEWPORT", data |-> <<0, 1, 2, 0>>]
      BY <2>1, ShortMessage
    <3>2. PICK m : m = Message("DESKTOP_VIEWPORT", 0, <<1, 2>> \o <<0>>)
      OBVIOUS
    <3>3. m.type = "DESKTOP_VIEWPORT" /\ m.data = <<0, 1, 2, 0>>
      BY <3>1, <3>2
    <3> QED BY <3>2, <3>3, <2>1, CallbackCases DEF Understands
  <2> QED BY <1>4, <2>2, SendsRequest DEF SendDesktopViewport
<1>5. ASSUME NEW on \in BOOLEAN, SendShowingDesktop(on)
      PROVE  UNCHANGED <<queue, sent, got>> \/ Requested
  <2>1. CASE on = TRUE
    <3>1. Understands("changeShowingDesktop", <<TRUE>>, Message("SHOWING_DESKTOP", 0, <<1, 0, 0>>))
      <4>1. Message("SHOWING_DESKTOP", 0, <<1, 0, 0>>)
            = [type |-> "SHOWING_DESKTOP", data |-> <<0, 1, 0, 0>>]
        BY ShortMessage
      <4>2. PICK m : m = Message("SHOWING_DESKTOP", 0, <<1, 0, 0>>)
        OBVIOUS
      <4>3. m.type = "SHOWING_DESKTOP" /\ m.data[2] = 1
        BY <4>1, <4>2
      <4>4. Callback(m) = <<"changeShowingDesktop", <<m.data[2] # 0>>>>
        BY <4>3 DEF Callback
      <4>5. (m.data[2] # 0) = TRUE
        BY <4>3
      <4>6. m.type \notin Properties
        BY <4>3
      <4>7. Callback(m) = <<"changeShowingDesktop", <<TRUE>>>>
        BY <4>4, <4>5, Zenon
      <4> QED BY <4>2, <4>6, <4>7, Zenon DEF Understands
    <3>2. Sends("changeShowingDesktop", <<TRUE>>, "SHOWING_DESKTOP", 0, <<1, 0, 0>>)
      BY <1>5, <2>1 DEF SendShowingDesktop
    <3> QED BY <3>1, <3>2, SendsRequest
  <2>2. CASE on = FALSE
    <3>1. Understands("changeShowingDesktop", <<FALSE>>, Message("SHOWING_DESKTOP", 0, <<0, 0, 0>>))
      <4>1. Message("SHOWING_DESKTOP", 0, <<0, 0, 0>>)
            = [type |-> "SHOWING_DESKTOP", data |-> <<0, 0, 0, 0>>]
        BY ShortMessage
      <4>2. PICK m : m = Message("SHOWING_DESKTOP", 0, <<0, 0, 0>>)
        OBVIOUS
      <4>3. m.type = "SHOWING_DESKTOP" /\ m.data[2] = 0
        BY <4>1, <4>2
      <4>4. Callback(m) = <<"changeShowingDesktop", <<m.data[2] # 0>>>>
        BY <4>3 DEF Callback
      <4>5. (m.data[2] # 0) = FALSE
        BY <4>3
      <4>6. m.type \notin Properties
        BY <4>3
      <4>7. Callback(m) = <<"changeShowingDesktop", <<FALSE>>>>
        BY <4>4, <4>5, Zenon
      <4> QED BY <4>2, <4>6, <4>7, Zenon DEF Understands
    <3>2. Sends("changeShowingDesktop", <<FALSE>>, "SHOWING_DESKTOP", 0, <<0, 0, 0>>)
      BY <1>5, <2>2 DEF SendShowingDesktop
    <3> QED BY <3>1, <3>2, SendsRequest
  <2> QED BY <2>1, <2>2
<1>6. ASSUME NEW w \in Windows, SendActiveWindow(w, 2, 3, 4)
      PROVE  UNCHANGED <<queue, sent, got>> \/ Requested
  <2>1. Understands("changeActiveWindow", <<w, 2, 3, 4>>,
                    Message("ACTIVE_WINDOW", w, <<2, 3, 4, 0, 0>>))
    <3>1. Message("ACTIVE_WINDOW", w, <<2, 3, 4, 0, 0>>)
          = [type |-> "ACTIVE_WINDOW", data |-> <<w, 2, 3, 4, 0, 0>>]
      BY LongMessage
    <3>2. PICK m : m = Message("ACTIVE_WINDOW", w, <<2, 3, 4, 0, 0>>)
      OBVIOUS
    <3>3. m.type = "ACTIVE_WINDOW" /\ m.data = <<w, 2, 3, 4, 0, 0>>
      BY <3>1, <3>2
    <3> QED BY <3>2, <3>3, CallbackCases DEF Understands, Source
  <2> QED BY <1>6, <2>1, SendsRequest DEF SendActiveWindow
<1>7. ASSUME NEW w \in Windows, CloseWindowRequest(w)
      PROVE  UNCHANGED <<queue, sent, got>> \/ Requested
  <2>1. Understands("closeWindow", <<w>>, Message("CLOSE_WINDOW", w, <<0, 0, 0, 0, 0>>))
    <3>1. Message("CLOSE_WINDOW", w, <<0, 0, 0, 0, 0>>)
          = [type |-> "CLOSE_WINDOW", data |-> <<w, 0, 0, 0, 0, 0>>]
      BY LongMessage
    <3>2. PICK m : m = Message("CLOSE_WINDOW", w, <<0, 0, 0, 0, 0>>)
      OBVIOUS
    <3>3. m.type = "CLOSE_WINDOW" /\ m.data = <<w, 0, 0, 0, 0, 0>>
      BY <3>1, <3>2
    <3> QED BY <3>2, <3>3, CallbackCases DEF Understands
  <2> QED BY <1>7, <2>1, SendsRequest DEF CloseWindowRequest
<1>8. ASSUME NEW w \in Windows, MoveResizeRequest(w, 2, 3, 4, 5, 1)
      PROVE  UNCHANGED <<queue, sent, got>> \/ Requested
  <2>1. Understands("moveResize", <<w, 2, 3, 4, 5, 1>>,
                    Message("WM_MOVERESIZE", w, <<2, 3, 4, 5, 1>>))
    <3>1. Message("WM_MOVERESIZE", w, <<2, 3, 4, 5, 1>>)
          = [type |-> "WM_MOVERESIZE", data |-> <<w, 2, 3, 4, 5, 1>>]
      BY LongMessage
    <3>2. PICK m : m = Message("WM_MOVERESIZE", w, <<2, 3, 4, 5, 1>>)
      OBVIOUS
    <3>3. m.type = "WM_MOVERESIZE" /\ m.data = <<w, 2, 3, 4, 5, 1>>
      BY <3>1, <3>2
    <3> QED BY <3>2, <3>3, CallbackCases DEF Understands
  <2> QED BY <1>8, <2>1, SendsRequest DEF MoveResizeRequest
<1>9. ASSUME NEW w \in Windows, MoveResizeWindowRequest(w, 2, 3, 4, 5, 6)
      PROVE  UNCHANGED <<queue, sent, got>> \/ Requested
  <2>1. Understands("moveResizeWindow", <<w, 2, 3, 4, 5, 6>>,
                    Message("MOVERESIZE_WINDOW", w, <<2, 3, 4, 5, 6>>))
    <3>1. Message("MOVERESIZE_WINDOW", w, <<2, 3, 4, 5, 6>>)
          = [type |-> "MOVERESIZE_WINDOW", data |-> <<w, 2, 3, 4, 5, 6>>]
      BY LongMessage
    <3>2. PICK m : m = Message("MOVERESIZE_WINDOW", w, <<2, 3, 4, 5, 6>>)
      OBVIOUS
    <3>3. m.type = "MOVERESIZE_WINDOW" /\ m.data = <<w, 2, 3, 4, 5, 6>>
      BY <3>1, <3>2
    <3> QED BY <3>2, <3>3, CallbackCases DEF Understands
  <2> QED BY <1>9, <2>1, SendsRequest DEF MoveResizeWindowRequest
<1>10. ASSUME NEW w \in Windows, ShowWindowMenuRequest(w, 2, 3, 4)
       PROVE  UNCHANGED <<queue, sent, got>> \/ Requested
  <2>1. Understands("showWindowMenu", <<w, 2, 3, 4>>,
                    Message("GTK_SHOW_WINDOW_MENU", w, <<2, 3, 4, 0, 0>>))
    <3>1. Message("GTK_SHOW_WINDOW_MENU", w, <<2, 3, 4, 0, 0>>)
          = [type |-> "GTK_SHOW_WINDOW_MENU", data |-> <<w, 2, 3, 4, 0, 0>>]
      BY LongMessage
    <3>2. PICK m : m = Message("GTK_SHOW_WINDOW_MENU", w, <<2, 3, 4, 0, 0>>)
      OBVIOUS
    <3>3. m.type = "GTK_SHOW_WINDOW_MENU" /\ m.data = <<w, 2, 3, 4, 0, 0>>
      BY <3>1, <3>2
    <3> QED BY <3>2, <3>3, CallbackCases DEF Understands
  <2> QED BY <1>10, <2>1, SendsRequest DEF ShowWindowMenuRequest
<1>11. ASSUME NEW w \in Windows, RestackRequest(w, 2, 3, 4, 5)
       PROVE  UNCHANGED <<queue, sent, got>> \/ Requested
  <2>1. Understands("restackWindow", <<w, 2, 3, 4, 5>>,
                    Message("RESTACK_WINDOW", w, <<2, 3, 4, 5, 0>>))
    <3>1. Message("RESTACK_WINDOW", w, <<2, 3, 4, 5, 0>>)
          = [type |-> "RESTACK_WINDOW", data |-> <<w, 2, 3, 4, 5, 0>>]
      BY LongMessage
    <3>2. PICK m : m = Message("RESTACK_WINDOW", w, <<2, 3, 4, 5, 0>>)
      OBVIOUS
    <3>3. m.type = "RESTACK_WINDOW" /\ m.data = <<w, 2, 3, 4, 5, 0>>
      BY <3>1, <3>2
    <3> QED BY <3>2, <3>3, CallbackCases DEF Understands, Source
  <2> QED BY <1>11, <2>1, SendsRequest DEF RestackRequest
<1>12. ASSUME NEW w \in Windows, Ping(w, 2) PROVE Requested
  <2>2. PICK m : m = Message("WM_PROTOCOLS", w, <<"PING", 2, w>>)
    OBVIOUS
  <2>3. Understands("gotPing", <<w, 2>>, m)
    <3>1. m = [type |-> "WM_PROTOCOLS", data |-> <<w, "PING", 2, w>>]
      BY <2>2, ShortMessage
    <3> QED BY <3>1 DEF Understands, Callback
  <2>4. /\ UNCHANGED got /\ sent' = Append(sent, <<"gotPing", <<w, 2>>>>)
        /\ queue'[wm] = Append(queue[wm], m)
    BY <1>12, <2>2 DEF Ping, Shapes, Agents
  <2> QED BY <2>3, <2>4 DEF Understands, Requested
<1> QED BY <1>1, <1>2, <1>3, <1>4, <1>5, <1>6, <1>7, <1>8, <1>9, <1>10, <1>11, <1>12 DEF Senders

\* What a step does to the window manager's queue
LEMMA QueueSteps ==
  ASSUME Shapes, [Next]_vars
  PROVE  \/ UNCHANGED <<queue[wm], sent, got>>
         \/ /\ UNCHANGED <<sent, got>>
            /\ \E m : m.type \in Properties /\ queue'[wm] = Append(queue[wm], m)
         \/ Requested
         \/ /\ queue[wm] # <<>> /\ Head(queue[wm]).type \in Properties
            /\ queue'[wm] = Tail(queue[wm]) /\ UNCHANGED <<sent, got>>
         \/ /\ queue[wm] # <<>> /\ Head(queue[wm]).type \notin Properties
            /\ queue'[wm] = Tail(queue[wm]) /\ UNCHANGED sent
            /\ got' = Append(got, Callback(Head(queue[wm])))
<1> USE DEF Agents
<1>1. ASSUME NEW a \in Agents, Activate(a) PROVE UNCHANGED <<queue[wm], sent, got>>
  BY <1>1 DEF Activate, PublishSupported, Shapes, wm, client
<1>2. ASSUME NEW a \in Agents, Update(a) PROVE UNCHANGED <<queue[wm], sent, got>>
  BY <1>2 DEF Update
<1>3. ASSUME OnPropertyNotify(client) PROVE UNCHANGED <<queue[wm], sent, got>>
  BY <1>3 DEF OnPropertyNotify, Dispatch, Shapes, wm, client
<1>4. ASSUME OnPropertyNotify(wm)
      PROVE  /\ queue[wm] # <<>> /\ Head(queue[wm]).type \in Properties
             /\ queue'[wm] = Tail(queue[wm]) /\ UNCHANGED <<sent, got>>
  BY <1>4 DEF OnPropertyNotify, Dispatch, Shapes
<1>5. ASSUME PublishName \/ UNCHANGED vars PROVE UNCHANGED <<queue[wm], sent, got>>
  BY <1>5 DEF PublishName, vars
<1>6. ASSUME OnClientMessage
      PROVE  /\ queue[wm] # <<>> /\ Head(queue[wm]).type \notin Properties
             /\ queue'[wm] = Tail(queue[wm]) /\ UNCHANGED sent
             /\ got' = Append(got, Callback(Head(queue[wm])))
  BY <1>6 DEF OnClientMessage, Dispatch, Shapes
<1>7. ASSUME Setters
      PROVE  \/ UNCHANGED <<queue[wm], sent, got>>
             \/ /\ UNCHANGED <<sent, got>>
                /\ \E m : m.type \in Properties /\ queue'[wm] = Append(queue[wm], m)
  <2>1. PICK p \in Properties : /\ UNCHANGED <<sent, got>>
                                /\ \/ queue'[wm] = queue[wm]
                                   \/ queue'[wm] = Append(queue[wm], [type |-> p, data |-> <<>>])
    BY <1>7, SettersAre, PropertiesAre DEF Settings, OtherSetting, SupportSetting, NumberSetting,
       CurrentSetting, GeometrySetting, ViewportSetting, Gives
  <2>2. [type |-> p, data |-> <<>>].type \in Properties
    OBVIOUS
  <2> QED BY <2>1, <2>2
<1>8. ASSUME Senders PROVE UNCHANGED <<queue[wm], sent, got>> \/ Requested
  BY <1>8, SendersRequest
<1> QED BY <1>1, <1>2, <1>3, <1>4, <1>5, <1>6, <1>7, <1>8 DEF Next

\* The callbacks so far are those for the first requests, and the other requests are
\* in the queue in order.
RequestInv ==
  /\ IsSequence(queue[wm]) /\ IsSequence(sent) /\ IsSequence(got)
  /\ Len(got) <= Len(sent) /\ \A i \in 1..Len(got) : got[i] = sent[i]
  /\ \E place : Places(place, queue[wm], Len(got), sent)

LEMMA RequestInvInit == Init => RequestInv
<1> SUFFICES ASSUME Init PROVE RequestInv
  OBVIOUS
<1>1. queue[wm] = <<>> /\ sent = <<>> /\ got = <<>>
  BY DEF Init, Agents
<1>2. <<>> \in Seq({}) /\ Len(<<>>) = 0
  OBVIOUS
<1>3. IsSequence(<<>>)
  BY <1>2 DEF IsSequence
<1>4. Places([i \in {} |-> 0], <<>>, 0, <<>>)
  <2>1. (0 + 1)..0 = {} /\ 1..0 = {}
    OBVIOUS
  <2>2. [i \in {} |-> 0] \in [{} -> {}]
    OBVIOUS
  <2> QED BY <1>2, <2>1, <2>2 DEF Places
<1> QED BY <1>1, <1>2, <1>3, <1>4 DEF RequestInv

LEMMA RequestInvNext ==
  ASSUME Shapes, RequestInv, [Next]_vars
  PROVE  RequestInv'
<1>1. PICK place : Places(place, queue[wm], Len(got), sent)
  BY DEF RequestInv
<1>2. PICK d \in Nat : d = Len(got)
  BY DEF RequestInv, IsSequence
<1>3. PICK n \in Nat : n = Len(sent) /\ d <= n
  BY <1>2 DEF RequestInv, IsSequence
<1>4. CASE UNCHANGED <<queue[wm], sent, got>>
  BY <1>1, <1>4 DEF RequestInv
<1>5. ASSUME UNCHANGED <<sent, got>>, NEW m, m.type \in Properties,
             queue'[wm] = Append(queue[wm], m)
      PROVE  RequestInv'
  <2>1. Places(place, queue'[wm], d, sent) /\ IsSequence(queue'[wm])
    BY <1>1, <1>2, <1>5, PlacesNotice, AppendSequence DEF RequestInv
  <2> QED BY <1>2, <1>5, <2>1 DEF RequestInv
<1>6. CASE Requested
  <2>1. PICK m : /\ m.type \notin Properties /\ UNCHANGED got
                 /\ queue'[wm] = Append(queue[wm], m) /\ sent' = Append(sent, Callback(m))
    BY <1>6 DEF Requested
  <2>2. \E p : Places(p, queue'[wm], d, sent')
    BY <1>1, <1>2, <1>3, <2>1, PlacesRequest DEF RequestInv
  <2>3. IsSequence(queue'[wm]) /\ IsSequence(sent') /\ Len(sent') = n + 1
        /\ \A i \in 1..n : sent'[i] = sent[i]
    BY <1>3, <2>1, AppendSequence DEF RequestInv
  <2>4. Len(got') = d /\ got' = got /\ d <= Len(sent') /\ \A i \in 1..d : i \in 1..n
    BY <1>2, <1>3, <2>1, <2>3
  <2>5. \A i \in 1..d : got'[i] = sent'[i]
    BY <1>2, <2>3, <2>4 DEF RequestInv
  <2> QED BY <1>2, <2>2, <2>3, <2>4, <2>5 DEF RequestInv
<1>7. CASE /\ queue[wm] # <<>> /\ Head(queue[wm]).type \in Properties
           /\ queue'[wm] = Tail(queue[wm]) /\ UNCHANGED <<sent, got>>
  <2>1. (\E p : Places(p, queue'[wm], d, sent)) /\ IsSequence(queue'[wm])
    BY <1>1, <1>2, <1>7, PlacesTail, TailSequence DEF RequestInv
  <2> QED BY <1>2, <1>7, <2>1 DEF RequestInv
<1>8. CASE /\ queue[wm] # <<>> /\ Head(queue[wm]).type \notin Properties
           /\ queue'[wm] = Tail(queue[wm]) /\ UNCHANGED sent
           /\ got' = Append(got, Callback(Head(queue[wm])))
  <2>1. /\ d + 1 <= n /\ Callback(Head(queue[wm])) = sent[d + 1]
        /\ (\E p : Places(p, queue'[wm], d + 1, sent)) /\ IsSequence(queue'[wm])
    BY <1>1, <1>2, <1>3, <1>8, PlacesTail, TailSequence DEF RequestInv
  <2>2. /\ IsSequence(got') /\ Len(got') = d + 1 /\ got'[d + 1] = sent[d + 1]
        /\ \A i \in 1..d : got'[i] = got[i]
    BY <1>2, <1>8, <2>1, AppendSequence DEF RequestInv
  <2>3. \A i \in 1..(d + 1) : i = d + 1 \/ i \in 1..d
    OBVIOUS
  <2>4. \A i \in 1..(d + 1) : got'[i] = sent[i]
    BY <1>2, <2>2, <2>3 DEF RequestInv
  <2> QED BY <1>3, <1>8, <2>1, <2>2, <2>4 DEF RequestInv
<1> QED BY <1>4, <1>5, <1>6, <1>7, <1>8, QueueSteps

LEMMA RequestsWaiting ==
  ASSUME RequestInv
  PROVE  RequestsArrive
<1>1. PICK S, T : got \in Seq(S) /\ sent \in Seq(T)
  BY DEF RequestInv, IsSequence
<1>2. PICK d \in Nat, n \in Nat : d = Len(got) /\ n = Len(sent) /\ d <= n
  BY <1>1 DEF RequestInv
<1>3. \A i \in 1..d : got[i] = sent[i]
  BY <1>2 DEF RequestInv
<1>4. IsPrefix(got, sent)
  <2>1. SubSeq(got, 1, d) = [i \in 1..d |-> got[i]] /\ SubSeq(sent, 1, d) = [i \in 1..d |-> sent[i]]
    BY <1>1, <1>2
  <2> QED BY <1>2, <1>3, <2>1 DEF IsPrefix
<1>5. ASSUME AtRest PROVE got = sent
  <2>1. Len(queue[wm]) = 0
    BY <1>5 DEF AtRest, Agents
  <2>2. PICK place : Places(place, queue[wm], d, sent)
    BY <1>2 DEF RequestInv
  <2>3. place \in [(d + 1)..n -> 1..0]
    BY <1>2, <2>1, <2>2 DEF Places
  <2>4. (d + 1)..n = {}
    BY <2>3
  <2>5. d = n
    BY <1>2, <2>4
  <2>6. got \in Seq(S \cup T) /\ sent \in Seq(S \cup T)
    BY <1>1, SeqMonotonic
  <2> QED BY <1>2, <1>3, <2>5, <2>6, SeqEqual
<1> QED BY <1>4, <1>5 DEF RequestsArrive

\* netwm.cpp: every request that the client sends reaches the window manager's callback for
\* it, in order and with its arguments, changes of properties in between or not.
THEOREM RequestsAlwaysArrive == DesktopsSpec => []RequestsArrive
<1>1. DesktopsInit => RequestInv
  BY RequestInvInit DEF DesktopsInit
<1>2. Shapes /\ RequestInv /\ [DesktopsNext]_<<vars, announced>> => RequestInv'
  <2>1. [DesktopsNext]_<<vars, announced>> => [Next]_vars
    BY DEF DesktopsNext
  <2> QED BY <2>1, RequestInvNext
<1> QED BY <1>1, <1>2, ShapesAlways, RequestsWaiting, PTL DEF DesktopsSpec

-----------------------------------------------------------------------------
(* Division                                                                *)

\* Division of integers by a positive number
LEMMA DivisionIs ==
  ASSUME NEW a \in Int, NEW b \in Nat \ {0}
  PROVE  a \div b \in Int /\ a % b \in 0..(b - 1) /\ a = b * (a \div b) + (a % b)
<1>1. a \div b \in Int
  OBVIOUS
<1>2. a % b \in 0..(b - 1)
  OBVIOUS
<1>3. a = b * (a \div b) + (a % b)
  OBVIOUS
<1> QED BY <1>1, <1>2, <1>3

LEMMA AtLeastOnce ==
  ASSUME NEW b \in Nat \ {0}, NEW n \in Nat \ {0}
  PROVE  b * n >= b
<1>1. n - 1 >= 0 /\ b >= 0 /\ n - 1 \in Int /\ b \in Int
  OBVIOUS
<1>2. b * (n - 1) >= 0
  BY <1>1
<1>3. b * n = b * (n - 1) + b
  BY <1>1
<1> QED BY <1>2, <1>3

LEMMA DivisionUnique ==
  ASSUME NEW a \in Int, NEW b \in Nat \ {0}, NEW q \in Int, NEW r \in 0..(b - 1), a = b * q + r
  PROVE  a \div b = q /\ a % b = r
<1>1. PICK u \in Int, v \in 0..(b - 1) : u = a \div b /\ v = a % b /\ a = b * u + v
  BY DivisionIs
<1>2. b * q - b * u = v - r /\ b * (q - u) = b * q - b * u /\ b * (u - q) = b * u - b * q
  BY <1>1
<1>3. ~ (q - u >= 1)
  <2>1. q - u >= 1 => b * (q - u) >= b
    BY AtLeastOnce
  <2> QED BY <1>1, <1>2, <2>1
<1>4. ~ (u - q >= 1)
  <2>1. u - q >= 1 => b * (u - q) >= b
    BY AtLeastOnce
  <2> QED BY <1>1, <1>2, <2>1
<1>5. q = u
  BY <1>1, <1>3, <1>4
<1> QED BY <1>1, <1>5

LEMMA RemainderWraps ==
  ASSUME NEW a \in Int, NEW b \in Nat \ {0}
  PROVE  (IF Rem(a, b) < 0 THEN Rem(a, b) + b ELSE Rem(a, b)) = a % b
<1>1. CASE a >= 0
  <2>1. PICK q \in Int, r \in 0..(b - 1) : q = a \div b /\ r = a % b /\ a = b * q + r
    <3>1. a \div b \in Int /\ a % b \in 0..(b - 1) /\ a = b * (a \div b) + (a % b)
      BY DivisionIs
    <3> QED BY <3>1
  <2>2. Rem(a, b) = a - b * q
    BY <1>1, <2>1 DEF Rem, Quot
  <2>3. PICK e \in Int : e = b * q
    BY <2>1
  <2>4. Rem(a, b) = r
    BY <2>1, <2>2, <2>3
  <2> QED BY <2>1, <2>4
<1>2. CASE a < 0
  <2>1. PICK c \in Int : c = -a /\ c > 0
    BY <1>2
  <2>2. PICK q \in Int, r \in 0..(b - 1) : q = c \div b /\ r = c % b /\ c = b * q + r
    <3>1. c \div b \in Int /\ c % b \in 0..(b - 1) /\ c = b * (c \div b) + (c % b)
      BY DivisionIs
    <3> QED BY <3>1
  <2>3. PICK e \in Int : e = b * q
    BY <2>2
  <2>4. Rem(a, b) = a - b * (-q)
    BY <1>2, <2>1, <2>2 DEF Rem, Quot
  <2>5. b * (-q) = -e /\ b * (-q - 1) = -e - b
    BY <2>2, <2>3
  <2>6. Rem(a, b) = -r
    BY <2>1, <2>2, <2>3, <2>4, <2>5
  <2>7. CASE r = 0
    <3>1. PICK u \in Int, v \in 0..(b - 1) : u = -q /\ v = 0
      BY <2>2
    <3>2. a = b * u + v
      BY <2>1, <2>2, <2>3, <2>5, <2>7, <3>1
    <3>3. a % b = v
      BY <3>2, DivisionUnique
    <3> QED BY <2>6, <2>7, <3>1, <3>3
  <2>8. CASE r > 0
    <3>1. PICK u \in Int, v \in 0..(b - 1) : u = -q - 1 /\ v = b - r
      <4>1. -q - 1 \in Int /\ b - r \in 0..(b - 1)
        BY <2>2, <2>8
      <4> QED BY <4>1
    <3>2. a = b * u + v
      BY <2>1, <2>2, <2>3, <2>5, <3>1
    <3>3. a % b = v
      BY <3>2, DivisionUnique
    <3> QED BY <2>2, <2>6, <2>8, <3>1, <3>3
  <2> QED BY <2>2, <2>7, <2>8
<1> QED BY <1>1, <1>2

LEMMA HalfOfDouble == ASSUME NEW z \in Int PROVE Quot(2 * z, 2) = z
<1>1. CASE z >= 0
  BY <1>1 DEF Quot
<1>2. CASE z < 0
  <2>1. (-(2 * z)) \div 2 = -z
    BY <1>2
  <2> QED BY <1>2, <2>1 DEF Quot
<1> QED BY <1>1, <1>2

\* A window of size 2h + 1 on one axis of a desktop of size G with P displays of size D,
\* its centre at m on a part; it moves by to, where part k is seen from the viewport c, and
\* is put inside the desktop at y.
OnAxis(D, P, G, h, m, c, k, to, y) ==
  /\ D \in Nat \ {0} /\ P \in Nat \ {0} /\ G = P * D
  /\ h \in Nat /\ m \in h..(D - 1) /\ c \in Int /\ k \in 0..(P - 1)
  /\ to \in {D * k - c, D * k - c + G, D * k - c - G}
  /\ y = ((m + to - h + c) % G) - c

\* It ends up with its centre at m on the part k.
LEMMA LandsOnAxis ==
  ASSUME NEW D, NEW P, NEW G, NEW h, NEW m, NEW c, NEW k, NEW to, NEW y,
         OnAxis(D, P, G, h, m, c, k, to, y)
  PROVE  /\ G \in Nat \ {0} /\ y \in Int /\ Quot(2 * y + (2 * h + 1) - 1, 2) + c = m + D * k
         /\ m + D * k >= 0 /\ m + D * k < G /\ (m + D * k) \div D = k
<1>0. /\ D \in Nat \ {0} /\ P \in Nat \ {0} /\ G = P * D
      /\ h \in Nat /\ m \in h..(D - 1) /\ c \in Int /\ k \in 0..(P - 1)
      /\ to \in {D * k - c, D * k - c + G, D * k - c - G}
      /\ y = ((m + to - h + c) % G) - c
  BY DEF OnAxis
<1> USE <1>0
<1>1. D * k \in Nat /\ D * k + D <= G /\ G \in Nat \ {0}
  <2>1. P - k \in Nat \ {0} /\ D * (P - k) >= D
    BY AtLeastOnce
  <2>2. D * (P - k) = P * D - D * k
    OBVIOUS
  <2>3. D * k \in Nat
    OBVIOUS
  <2>4. G \in Int
    OBVIOUS
  <2> QED BY <2>1, <2>2, <2>3, <2>4
<1>2. PICK e \in Nat : e = D * k
  BY <1>1
<1>3. PICK t \in Nat : t = m - h + e /\ t < G /\ m + e < G
  BY <1>1, <1>2
<1>4. (m + to - h + c) % G = t
  <2>1. m + to - h + c = t \/ m + to - h + c = t + G \/ m + to - h + c = t - G
    BY <1>1, <1>2, <1>3
  <2>2. PICK j \in Int : m + to - h + c = G * j + t
    <3>1. G * 0 = 0 /\ G * 1 = G /\ G * (-1) = -G
      BY <1>1
    <3>2. CASE m + to - h + c = t
      <4>1. m + to - h + c = G * 0 + t /\ 0 \in Int
        BY <1>3, <3>1, <3>2
      <4> QED BY <4>1, Zenon
    <3>3. CASE m + to - h + c = t + G
      BY <1>1, <1>3, <3>1, <3>3
    <3>4. CASE m + to - h + c = t - G
      BY <1>1, <1>3, <3>1, <3>4
    <3> QED BY <2>1, <3>2, <3>3, <3>4
  <2>3. t \in 0..(G - 1) /\ m + to - h + c \in Int
    BY <1>1, <1>3, <2>1
  <2> QED BY <1>1, <2>2, <2>3, DivisionUnique
<1>5. y = t - c /\ y \in Int
  BY <1>3, <1>4
<1>7. Quot(2 * y + (2 * h + 1) - 1, 2) = m + e - c
  <2>1. PICK z \in Int : z = m + e - c
    BY <1>2
  <2>2. 2 * y + (2 * h + 1) - 1 = 2 * z
    BY <1>2, <1>3, <1>5, <2>1
  <2> QED BY <2>1, <2>2, HalfOfDouble
<1>6. (m + D * k) \div D = k
  <2>1. PICK s \in Int, r \in 0..(D - 1), q \in Int : s = m + D * k /\ r = m /\ q = k
    BY <1>1
  <2>2. s = D * q + r
    BY <2>1
  <2>3. s \div D = q
    BY <2>2, DivisionUnique
  <2> QED BY <2>1, <2>3
<1> QED BY <1>1, <1>2, <1>3, <1>5, <1>6, <1>7
-----------------------------------------------------------------------------
(* The parts of a large desktop                                            *)

Pairs == Nat \X Nat

\* What an object knows of the size of the desktop and where the display is on it
Measured(f) == f.geometry \in Pairs /\ f.viewport \in Seq(Pairs)

LEMMA DisplayHas == \A i \in 1..2 : DisplaySize[i] \in Nat \ {0}
BY NETRootInfoAssumption

LEMMA GeometryHas ==
  ASSUME NEW f, Measured(f)
  PROVE  desktopGeometry(f)[1] \in Nat /\ desktopGeometry(f)[2] \in Nat
<1>1. CASE f.geometry[1] # 0
  BY <1>1 DEF desktopGeometry, Measured, Pairs
<1>2. CASE f.geometry[1] = 0
  BY <1>2, DisplayHas DEF desktopGeometry, RootSize
<1> QED BY <1>1, <1>2

LEMMA ViewportHas ==
  ASSUME NEW f, Measured(f)
  PROVE  desktopViewport(f)[1] \in Int /\ desktopViewport(f)[2] \in Int
<1>1. CASE ownCurrentDesktop(f) \in DOMAIN f.viewport
  <2>1. desktopViewport(f) = f.viewport[ownCurrentDesktop(f)]
    BY <1>1 DEF desktopViewport, At
  <2>2. f.viewport[ownCurrentDesktop(f)] \in Nat \X Nat
    BY <1>1 DEF Measured, Pairs
  <2> QED BY <2>1, <2>2
<1>2. CASE ownCurrentDesktop(f) \notin DOMAIN f.viewport
  BY <1>2 DEF desktopViewport, At, NoPoint
<1> QED BY <1>1, <1>2

\* A coordinate that is k displays and less than one more from the edge is on part k.
LEMMA PartIs ==
  ASSUME NEW f, NEW i \in 1..2, NEW D \in Nat \ {0}, D = DisplaySize[i],
         NEW P \in Nat \ {0}, P = Parts(f, i), NEW G \in Int, G = desktopGeometry(f)[i],
         NEW c \in Int, c >= 0, c < G
  PROVE  PartOf(f, c, i) = c \div D
BY DEF PartOf

\* A desktop that is a multiple of the display has at least one part on each axis if it
\* has any, and each desktop is where one part of each axis is.
LEMMA PartsAre ==
  ASSUME NEW f, Measured(f), Whole(f), mapViewport(f)
  PROVE  /\ \A i \in 1..2 : /\ Parts(f, i) \in Nat
                            /\ desktopGeometry(f)[i] = Parts(f, i) * DisplaySize[i]
         /\ numberOfDesktops(f) = Parts(f, 1) * Parts(f, 2)
<1>1. ASSUME NEW i \in 1..2
      PROVE  Parts(f, i) \in Nat /\ desktopGeometry(f)[i] = Parts(f, i) * DisplaySize[i]
  <2>1. PICK D \in Nat \ {0}, G \in Nat : D = DisplaySize[i] /\ G = desktopGeometry(f)[i]
    BY DisplayHas, GeometryHas
  <2>2. G % D = 0
    BY <2>1 DEF Whole
  <2>3. G \div D \in Int /\ G = D * (G \div D) + (G % D)
    BY DivisionIs
  <2>4. PICK q \in Int : q = G \div D /\ G = D * q
    BY <2>2, <2>3
  <2>5. q >= 0
    <3>1. q < 0 => D * (-q) >= D
      BY AtLeastOnce
    <3>2. D * (-q) = -(D * q)
      OBVIOUS
    <3> QED BY <2>4, <3>1, <3>2
  <2>6. D * q = q * D
    OBVIOUS
  <2> QED BY <2>1, <2>4, <2>5, <2>6 DEF Parts
<1>2. numberOfDesktops(f) = Parts(f, 1) * Parts(f, 2)
  <2>1. PICK p \in Nat, q \in Nat, D \in Nat \ {0} :
          p = Parts(f, 1) /\ q = Parts(f, 2) /\ D = DisplaySize[2]
    BY <1>1, DisplayHas
  <2>2. numberOfDesktops(f) = (p * (q * D)) \div D
    BY <1>1, <2>1 DEF numberOfDesktops, Parts
  <2>3. PICK n \in Int, a \in Int : n = p * q /\ a = p * (q * D) /\ a = D * n + 0
    <3>1. p * q \in Int /\ p * (q * D) \in Int /\ p * (q * D) = D * (p * q) + 0
      OBVIOUS
    <3> QED BY <3>1
  <2>4. a \div D = n
    <3>1. 0 \in 0..(D - 1)
      OBVIOUS
    <3> QED BY <2>3, <3>1, DivisionUnique
  <2> QED BY <2>1, <2>2, <2>3, <2>4
<1> QED BY <1>1, <1>2

\* Where desktop d is
LEMMA DesktopHasParts ==
  ASSUME NEW f, Measured(f), Whole(f), mapViewport(f), NEW d \in 1..numberOfDesktops(f)
  PROVE  \E k \in [1..2 -> Nat] :
           /\ \A i \in 1..2 : Parts(f, i) \in Nat \ {0} /\ k[i] \in 0..(Parts(f, i) - 1)
           /\ d = k[2] * Parts(f, 1) + k[1] + 1
           /\ desktopToViewport(f, d) = [i \in 1..2 |-> DisplaySize[i] * k[i]]
<1>1. PICK p \in Nat, q \in Nat : p = Parts(f, 1) /\ q = Parts(f, 2) /\ numberOfDesktops(f) = p * q
  BY PartsAre
<1>2. p # 0 /\ q # 0
  BY <1>1
<1>3. PICK a \in Int, b \in 0..(p - 1) :
        a = (d - 1) \div p /\ b = (d - 1) % p /\ d - 1 = p * a + b
  <2>1. d - 1 \in Int /\ p \in Nat \ {0}
    BY <1>1, <1>2
  <2>2. (d - 1) \div p \in Int /\ (d - 1) % p \in 0..(p - 1)
        /\ d - 1 = p * ((d - 1) \div p) + ((d - 1) % p)
    BY <2>1, DivisionIs
  <2> QED BY <2>2
<1>4. d - 1 >= 0 /\ d - 1 < p * q
  BY <1>1
<1>5. a >= 0
  <2>1. a <= -1 => p * (-a) >= p
    BY <1>2, AtLeastOnce
  <2>2. p * (-a) = -(p * a)
    OBVIOUS
  <2> QED BY <1>3, <1>4, <2>1, <2>2
<1>6. a < q
  <2>1. a - q + 1 >= 1 => p * (a - q + 1) >= p
    BY <1>2, AtLeastOnce
  <2>2. p * (a - q + 1) = p * a - p * q + p
    OBVIOUS
  <2> QED BY <1>3, <1>4, <2>1, <2>2
<1>7. PICK k \in [1..2 -> Nat] : k[1] = b /\ k[2] = a
  <2>1. PICK k : k = [i \in 1..2 |-> IF i = 1 THEN b ELSE a]
    OBVIOUS
  <2>2. k \in [1..2 -> Nat] /\ k[1] = b /\ k[2] = a
    BY <1>3, <1>5, <2>1
  <2> QED BY <2>2
<1>8. desktopToViewport(f, d) = <<DisplaySize[1] * b, DisplaySize[2] * a>>
  <2>1. ~(d <= 0 \/ d > p * q)
    BY <1>1
  <2>2. desktopToViewport(f, d) =
          <<DisplaySize[1] * ((d - 1) % p), DisplaySize[2] * ((d - 1) \div p)>>
    BY <1>1, <2>1 DEF desktopToViewport
  <2> QED BY <1>3, <2>2
<1>9. <<DisplaySize[1] * b, DisplaySize[2] * a>> = [i \in 1..2 |-> DisplaySize[i] * k[i]]
  BY <1>7
<1>10. d = k[2] * p + k[1] + 1
  <2>1. p * a = a * p
    BY <1>1, <1>3
  <2> QED BY <1>3, <1>7, <2>1
<1>11. \A i \in 1..2 : Parts(f, i) \in Nat \ {0} /\ k[i] \in 0..(Parts(f, i) - 1)
  <2>1. p \in Nat \ {0} /\ k[1] \in 0..(p - 1)
    BY <1>2, <1>3, <1>7
  <2>2. q \in Nat \ {0} /\ k[2] \in 0..(q - 1)
    BY <1>2, <1>5, <1>6, <1>7
  <2> QED BY <1>1, <2>1, <2>2
<1> QED BY <1>1, <1>8, <1>9, <1>10, <1>11

LEMMA DesktopsReachable ==
  ASSUME NEW f, Measured(f), Whole(f), mapViewport(f)
  PROVE  Reachable(f)
<1> SUFFICES ASSUME NEW d \in 1..numberOfDesktops(f)
             PROVE  viewportToDesktop(f, desktopToViewport(f, d)) = d
  BY PartsAre DEF Reachable
<1>1. PICK k \in [1..2 -> Nat] :
        /\ \A i \in 1..2 : Parts(f, i) \in Nat \ {0} /\ k[i] \in 0..(Parts(f, i) - 1)
        /\ d = k[2] * Parts(f, 1) + k[1] + 1
        /\ desktopToViewport(f, d) = [i \in 1..2 |-> DisplaySize[i] * k[i]]
  BY DesktopHasParts
<1>2. ASSUME NEW i \in 1..2 PROVE PartOf(f, DisplaySize[i] * k[i], i) = k[i]
  <2>1. PICK D \in Nat \ {0}, P \in Nat \ {0}, j \in Nat :
          D = DisplaySize[i] /\ P = Parts(f, i) /\ j = k[i] /\ j < P
    <3>1. /\ DisplaySize[i] \in Nat \ {0} /\ Parts(f, i) \in Nat \ {0}
          /\ k[i] \in Nat /\ k[i] < Parts(f, i)
      BY <1>1, DisplayHas
    <3> QED BY <3>1
  <2>2. PICK G \in Int, c \in Int : G = P * D /\ c = D * j /\ G = desktopGeometry(f)[i]
    BY <2>1, PartsAre
  <2>3. c >= 0 /\ c + D <= G
    <3>1. PICK n \in Nat \ {0} : n = P - j
      BY <2>1
    <3>2. D * n >= D
      BY AtLeastOnce
    <3>3. D * (P - j) = P * D - D * j /\ D * j >= 0
      OBVIOUS
    <3> QED BY <2>2, <3>1, <3>2, <3>3
  <2>4. c \div D = j
    <3>1. c = D * j + 0 /\ 0 \in 0..(D - 1)
      BY <2>2
    <3> QED BY <3>1, DivisionUnique
  <2>5. PartOf(f, c, i) = c \div D
    BY <2>1, <2>2, <2>3, PartIs
  <2> QED BY <2>1, <2>2, <2>4, <2>5
<1> QED BY <1>1, <1>2 DEF viewportToDesktop

\* setOnDesktop() moves a window of odd size to desktop d, which is part k[i] on axis i.
Moves(f, p, size, half, d, k) ==
  /\ Measured(f) /\ Whole(f) /\ mapViewport(f)
  /\ p \in Int \X Int /\ half \in [1..2 -> Nat] /\ k \in [1..2 -> Nat]
  /\ \A i \in 1..2 : /\ size[i] \div 2 = half[i] /\ size[i] = 2 * half[i] + 1
                      /\ (p[i] + size[i] \div 2) % DisplaySize[i] >= size[i] \div 2
                      /\ Parts(f, i) \in Nat \ {0} /\ k[i] \in 0..(Parts(f, i) - 1)
  /\ desktopToViewport(f, d) = [i \in 1..2 |-> DisplaySize[i] * k[i]]

LEMMA MovesOnAxis ==
  ASSUME NEW f, NEW p, NEW size, NEW half, NEW d, NEW k, Moves(f, p, size, half, d, k),
         NEW i \in 1..2, NEW y, y = moveToDesktop(f, p, size, d)
  PROVE  PartOf(f, Quot(2 * y[i] + size[i] - 1, 2) + desktopViewport(f)[i], i) = k[i]
<1>0. /\ Measured(f) /\ Whole(f) /\ mapViewport(f)
      /\ p \in Int \X Int /\ half \in [1..2 -> Nat] /\ k \in [1..2 -> Nat]
      /\ size[i] \div 2 = half[i] /\ size[i] = 2 * half[i] + 1
      /\ (p[i] + size[i] \div 2) % DisplaySize[i] >= size[i] \div 2
      /\ Parts(f, i) \in Nat \ {0} /\ k[i] \in 0..(Parts(f, i) - 1)
      /\ desktopToViewport(f, d) = [z \in 1..2 |-> DisplaySize[z] * k[z]]
  BY DEF Moves
<1> USE <1>0
<1>1. PICK D \in Nat \ {0}, P \in Nat \ {0}, j \in 0..(Parts(f, i) - 1), h \in Nat,
          a \in Int, c \in Int :
        /\ D = DisplaySize[i] /\ P = Parts(f, i) /\ j = k[i] /\ h = half[i] /\ a = p[i]
        /\ c = desktopViewport(f)[i]
  <2>1. p[i] \in Int /\ half[i] \in Nat /\ DisplaySize[i] \in Nat \ {0}
    BY DisplayHas
  <2>2. desktopViewport(f)[i] \in Int
    BY ViewportHas
  <2> QED BY <2>1, <2>2
<1>2. PICK G \in Int : G = desktopGeometry(f)[i] /\ G = P * D
  BY <1>1, PartsAre
<1>3. PICK m \in h..(D - 1) : m = (a + h) % D
  <2>1. PICK s \in Int : s = a + h
    OBVIOUS
  <2>2. s % D \in 0..(D - 1)
    BY DivisionIs
  <2>3. s % D >= h
    BY <1>1, <2>1
  <2> QED BY <2>1, <2>2, <2>3
<1>4. CentreOnPart(p, size)[i] = m
  <2>1. CentreOnPart(p, size)[i] =
          IF Rem(a + h, D) < 0 THEN Rem(a + h, D) + D ELSE Rem(a + h, D)
    BY <1>1 DEF CentreOnPart
  <2>2. a + h \in Int
    BY <1>1
  <2> QED BY <1>3, <2>1, <2>2, RemainderWraps
<1>5. PICK to : to = relativeViewport(f, d)
  OBVIOUS
<1>6. to[i] \in {D * j - c, D * j - c + G, D * j - c - G}
  <2>1. desktopToViewport(f, d)[i] = D * j
    BY <1>1
  <2>2. to[i] = IF D * j - c >= G THEN D * j - c - G
                ELSE IF D * j - c < 0 THEN D * j - c + G ELSE D * j - c
    BY <1>1, <1>2, <1>5, <2>1 DEF relativeViewport
  <2> QED BY <2>2
<1>7. y[i] = ((m + to[i] - h + c) % G) - c
  <2>1. PICK q : q = [z \in 1..2 |-> CentreOnPart(p, size)[z] + to[z] - size[z] \div 2]
    OBVIOUS
  <2>2. y = constrainViewportRelativePosition(f, q)
    BY <1>5, <2>1 DEF moveToDesktop
  <2>3. q[i] = m + to[i] - h
    BY <1>1, <1>4, <2>1
  <2>4. y[i] = (IF Rem(q[i] + c, G) < 0 THEN Rem(q[i] + c, G) + G ELSE Rem(q[i] + c, G)) - c
    BY <1>1, <1>2, <2>2 DEF constrainViewportRelativePosition
  <2>5. q[i] + c \in Int
    BY <1>1, <1>2, <1>6, <2>3
  <2>6. G \in Nat \ {0}
    BY <1>1, <1>2
  <2> QED BY <2>3, <2>4, <2>5, <2>6, RemainderWraps
<1>8. j \in 0..(P - 1)
  BY <1>1
<1>9. /\ Quot(2 * y[i] + (2 * h + 1) - 1, 2) + c = m + D * j
      /\ m + D * j >= 0 /\ m + D * j < G /\ (m + D * j) \div D = j
  <2>1. PICK u, v : u = to[i] /\ v = y[i]
    OBVIOUS
  <2>2. OnAxis(D, P, G, h, m, c, j, u, v)
    BY <1>2, <1>6, <1>7, <1>8, <2>1 DEF OnAxis
  <2>3. /\ Quot(2 * v + (2 * h + 1) - 1, 2) + c = m + D * j
        /\ m + D * j >= 0 /\ m + D * j < G /\ (m + D * j) \div D = j
    BY <2>2, LandsOnAxis
  <2> QED BY <2>1, <2>3
<1>10. PartOf(f, m + D * j, i) = (m + D * j) \div D
  <2>1. PICK s \in Int : s = m + D * j
    OBVIOUS
  <2>2. s >= 0 /\ s < G
    BY <1>9, <2>1
  <2>3. PartOf(f, s, i) = s \div D
    BY <1>1, <1>2, <2>2 DEF PartOf
  <2> QED BY <2>1, <2>3
<1> QED BY <1>1, <1>9, <1>10

LEMMA WindowsLand ==
  ASSUME NEW f, Measured(f), Whole(f), mapViewport(f)
  PROVE  WindowLands(f)
<1> SUFFICES ASSUME NEW p \in Positions, NEW size \in {<<1, 1>>, <<3, 3>>},
                    \A i \in 1..2 : (p[i] + size[i] \div 2) % DisplaySize[i] >= size[i] \div 2,
                    NEW d \in 1..numberOfDesktops(f)
             PROVE  viewportWindowToDesktop(f, moveToDesktop(f, p, size, d), size) = d
  BY DEF WindowLands
<1>1. PICK k \in [1..2 -> Nat] :
        /\ \A i \in 1..2 : Parts(f, i) \in Nat \ {0} /\ k[i] \in 0..(Parts(f, i) - 1)
        /\ d = k[2] * Parts(f, 1) + k[1] + 1
        /\ desktopToViewport(f, d) = [i \in 1..2 |-> DisplaySize[i] * k[i]]
  BY DesktopHasParts
<1>2. PICK half \in [1..2 -> Nat] :
        \A i \in 1..2 : size[i] \div 2 = half[i] /\ size[i] = 2 * half[i] + 1
  <2>1. PICK n \in Nat : \A i \in 1..2 : size[i] \div 2 = n /\ size[i] = 2 * n + 1
    <3>1. CASE size = <<1, 1>>
      <4>1. \A i \in 1..2 : size[i] \div 2 = 0 /\ size[i] = 2 * 0 + 1
        BY <3>1
      <4> QED BY <4>1
    <3>2. CASE size = <<3, 3>>
      <4>1. \A i \in 1..2 : size[i] \div 2 = 1 /\ size[i] = 2 * 1 + 1
        BY <3>2
      <4> QED BY <4>1
    <3> QED BY <3>1, <3>2
  <2>2. PICK half : half = [i \in 1..2 |-> n]
    OBVIOUS
  <2>3. half \in [1..2 -> Nat] /\ \A i \in 1..2 : half[i] = n
    BY <2>2
  <2> QED BY <2>1, <2>3
<1>3. PICK y : y = moveToDesktop(f, p, size, d)
  OBVIOUS
<1>4. p \in Int \X Int
  BY PositionsAssumption
<1>5. \A i \in 1..2 :
        PartOf(f, Quot(2 * y[i] + size[i] - 1, 2) + desktopViewport(f)[i], i) = k[i]
  <2>1. Moves(f, p, size, half, d, k)
    BY <1>1, <1>2, <1>4 DEF Moves
  <2> QED BY <1>3, <2>1, MovesOnAxis
<1>6. PICK q : q = [i \in 1..2 |-> Quot(2 * y[i] + size[i] - 1, 2) + desktopViewport(f)[i]]
  OBVIOUS
<1>7. PartOf(f, q[1], 1) = k[1] /\ PartOf(f, q[2], 2) = k[2]
  BY <1>5, <1>6
<1>8. viewportToDesktop(f, q) = d
  BY <1>1, <1>7 DEF viewportToDesktop
<1> QED BY <1>3, <1>6, <1>8 DEF viewportWindowToDesktop

-----------------------------------------------------------------------------
(* What is published                                                       *)

\* Numbers and pairs of them in the properties and the fields on which mapViewport() depends
Values ==
  /\ \A p \in {"NumberOfDesktops", "DesktopGeometry", "DesktopViewport"} :
       property[p].data \in Seq(Nat)
  /\ \A a \in Agents :
       fields[a].number_of_desktops \in Nat /\ fields[a].viewport \in Seq(Pairs)
  /\ fields[client].geometry \in Pairs

LEMMA ArrayReply ==
  ASSUME NEW r, r.data \in Seq(Nat), NEW type
  PROVE  GetArrayReply(r, type) \in Seq(Nat)
<1>1. <<>> \in Seq(Nat)
  OBVIOUS
<1> QED BY <1>1 DEF GetArrayReply

LEMMA PairOfTwo ==
  ASSUME NEW s \in Seq(Nat), Len(s) = 2
  PROVE  s \in Pairs
<1>1. PICK a \in Nat, b \in Nat : a = s[1] /\ b = s[2]
  <2>1. 1 \in 1..Len(s) /\ 2 \in 1..Len(s)
    OBVIOUS
  <2>2. s[1] \in Nat /\ s[2] \in Nat
    BY <2>1, ElementOfSeq
  <2> QED BY <2>2
<1>2. PICK t : t = <<a, b>>
  OBVIOUS
<1>3. t \in Seq(Nat) /\ t \in Pairs /\ Len(t) = 2 /\ t[1] = a /\ t[2] = b
  <2>1. <<a, b>> \in Seq(Nat) /\ Len(<<a, b>>) = 2
    OBVIOUS
  <2>2. <<a, b>> \in Nat \X Nat
    OBVIOUS
  <2> QED BY <1>2, <2>1, <2>2 DEF Pairs
<1>4. \A i \in 1..2 : s[i] = t[i]
  <2>1. \A i \in 1..2 : i = 1 \/ i = 2
    OBVIOUS
  <2> QED BY <1>1, <1>3, <2>1
<1>5. s = t
  BY <1>3, <1>4, SeqEqual
<1> QED BY <1>3, <1>5

LEMMA PairIsSeq == Pairs \subseteq Seq(Nat)
<1>1. ASSUME NEW p \in Pairs PROVE p \in Seq(Nat)
  <2>1. PICK a \in Nat, b \in Nat : p = <<a, b>>
    BY DEF Pairs
  <2>2. <<a, b>> \in Seq(Nat)
    OBVIOUS
  <2> QED BY <2>1, <2>2
<1> QED BY <1>1

LEMMA NoPointIsPair == NoPoint \in Pairs
BY DEF NoPoint, Pairs

LEMMA AtIsPair ==
  ASSUME NEW s \in Seq(Pairs), NEW n
  PROVE  At(s, n, NoPoint) \in Pairs
<1>1. \A i \in DOMAIN s : s[i] \in Pairs
  OBVIOUS
<1> QED BY <1>1, NoPointIsPair DEF At

LEMMA TuplesArePairs ==
  ASSUME NEW s \in Seq(Nat)
  PROVE  Tuples(s, 2) \in Seq(Pairs)
<1>1. PICK n \in Nat : n = Len(s) \div 2 /\ 2 * n <= Len(s)
  OBVIOUS
<1>2. ASSUME NEW i \in 1..n PROVE SubSeq(s, (i - 1) * 2 + 1, i * 2) \in Pairs
  <2>1. PICK from \in Nat \ {0}, to \in Nat : from = (i - 1) * 2 + 1 /\ to = i * 2 /\ to = from + 1
                                             /\ to <= Len(s)
    BY <1>1
  <2>2. SubSeq(s, from, to) \in Seq(Nat) /\ Len(SubSeq(s, from, to)) = 2
    BY <2>1, SubSeqProperties
  <2> QED BY <2>1, <2>2, PairOfTwo
<1>3. [i \in 1..n |-> SubSeq(s, (i - 1) * 2 + 1, i * 2)] \in Seq(Pairs)
  BY <1>2
<1> QED BY <1>1, <1>3 DEF Tuples

LEMMA SetAtIsPairs ==
  ASSUME NEW s \in Seq(Pairs), NEW n \in Nat \ {0}, NEW p \in Pairs
  PROVE  SetAt(s, n, NoPoint, p) \in Seq(Pairs)
<1> USE NoPointIsPair
<1>1. PICK g : g = Grow(s, n, NoPoint)
  OBVIOUS
<1>2. g \in Seq(Pairs) /\ n <= Len(g)
  <2>1. CASE n <= Len(s)
    BY <1>1, <2>1 DEF Grow
  <2>2. CASE ~(n <= Len(s))
    <3>1. PICK k \in Nat : k = n - Len(s)
      BY <2>2
    <3>2. PICK t : t = [i \in 1..k |-> NoPoint]
      OBVIOUS
    <3>3. t \in Seq(Pairs) /\ Len(t) = k
      BY <3>2
    <3>4. s \o t \in Seq(Pairs) /\ Len(s \o t) = Len(s) + k
      BY <3>3, ConcatProperties
    <3>5. g = s \o t
      BY <1>1, <2>2, <3>1, <3>2 DEF Grow
    <3> QED BY <3>1, <3>4, <3>5
  <2> QED BY <2>1, <2>2
<1>3. [g EXCEPT ![n] = p] \in Seq(Pairs)
  BY <1>2
<1> QED BY <1>1, <1>3 DEF SetAt

\* FlattenSeq is a recursive function: it has a value for every length.
LEMMA FlattenRuns ==
  ASSUME NEW s, NEW k \in Nat
  PROVE  \E g : g = [i \in 1..k |-> IF i = 1 THEN s[i] ELSE g[i - 1] \o s[i]]
<1> DEFINE Do(g, i) == g \o s[i]
           Runs(n) == \E g : g = [i \in 1..n |-> IF i = 1 THEN s[i] ELSE Do(g[i - 1], i)]
           S == {n \in Nat : Runs(n)}
<1>1. 0 \in S
  <2>1. \A i \in 1..0 : FALSE
    OBVIOUS
  <2>2. \A x, y : [i \in 1..0 |-> x] = [i \in 1..0 |-> IF i = 1 THEN s[i] ELSE Do(y[i - 1], i)]
    BY <2>1
  <2> HIDE DEF Do
  <2> QED BY <2>2
<1>2. ASSUME NEW n \in Nat, n \in S PROVE n + 1 \in S
  <2>1. PICK g : g = [i \in 1..n |-> IF i = 1 THEN s[i] ELSE Do(g[i - 1], i)]
    BY <1>2
  <2> HIDE DEF Do
  <2> DEFINE Step == IF n = 0 THEN s[1] ELSE Do(g[n], n + 1)
             G == [i \in 1..(n + 1) |-> IF i = n + 1 THEN Step ELSE g[i]]
  <2>2. \A i \in 1..n : G[i] = g[i]
    OBVIOUS
  <2>3. \A i \in 1..n : g[i] = IF i = 1 THEN s[i] ELSE Do(g[i - 1], i)
    BY <2>1
  <2>4. \A i \in 1..(n + 1) : G[i] = IF i = 1 THEN s[i] ELSE Do(G[i - 1], i)
    <3>1. TAKE i \in 1..(n + 1)
    <3>2. CASE i = n + 1
      <4>1. G[i] = Step /\ (n # 0 => G[n] = g[n] /\ i # 1) /\ i - 1 = n
        BY <3>2
      <4> HIDE DEF G
      <4> QED BY <3>2, <4>1
    <3>3. CASE i \in 1..n
      <4>1. G[i] = g[i] /\ (i # 1 => i - 1 \in 1..n /\ G[i - 1] = g[i - 1])
        BY <2>2, <3>3
      <4> HIDE DEF G
      <4> QED BY <2>3, <3>3, <4>1
    <3> QED BY <3>2, <3>3
  <2>5. G = [i \in 1..(n + 1) |-> IF i = 1 THEN s[i] ELSE Do(G[i - 1], i)]
    <3>1. G = [i \in 1..(n + 1) |-> G[i]]
      OBVIOUS
    <3> HIDE DEF G
    <3> QED BY <2>4, <3>1
  <2> HIDE DEF G
  <2> QED BY <2>5
<1>3. Nat \subseteq S
  <2> HIDE DEF S
  <2> QED BY <1>1, <1>2, NatSetInduction
<1> QED BY <1>3

LEMMA FlattenedPairs ==
  ASSUME NEW s \in Seq(Pairs)
  PROVE  FlattenSeq(s) \in Seq(Nat)
<1>1. PICK n \in Nat : n = Len(s) /\ \A i \in 1..n : s[i] \in Seq(Nat)
  <2>1. Len(s) \in Nat /\ \A i \in 1..Len(s) : s[i] \in Pairs
    BY ElementOfSeq
  <2> QED BY <2>1, PairIsSeq
<1>2. CASE n = 0
  <2>1. FlattenSeq(s) = s
    <3>1. Len(s) = 0
      BY <1>1, <1>2
    <3> QED BY <3>1, SMT DEF FlattenSeq
  <2>2. s \in Seq(Nat)
    <3>1. s = <<>>
      BY <1>1, <1>2, EmptySeq
    <3>2. <<>> \in Seq(Nat)
      OBVIOUS
    <3> QED BY <3>1, <3>2
  <2> QED BY <2>1, <2>2
<1>3. CASE n # 0
  <2>1. PICK g : /\ g = [i \in 1..Len(s) |-> IF i = 1 THEN s[i] ELSE g[i - 1] \o s[i]]
                 /\ FlattenSeq(s) = g[Len(s)]
    <3> DEFINE A == CHOOSE g : g = [i \in 1..Len(s) |-> IF i = 1 THEN s[i] ELSE g[i - 1] \o s[i]]
    <3>1. A = [i \in 1..Len(s) |-> IF i = 1 THEN s[i] ELSE A[i - 1] \o s[i]]
      BY <1>1, FlattenRuns
    <3>2. FlattenSeq(s) = A[Len(s)]
      BY <1>1, <1>3 DEF FlattenSeq
    <3> HIDE DEF A
    <3> QED BY <3>1, <3>2
  <2> DEFINE S == {i \in Nat : i + 1 <= n => g[i + 1] \in Seq(Nat)}
  <2>2. 0 \in S
    <3>1. g[1] = s[1]
      BY <1>1, <1>3, <2>1
    <3> QED BY <1>1, <1>3, <3>1
  <2>3. ASSUME NEW i \in Nat, i \in S PROVE i + 1 \in S
    <3>1. SUFFICES ASSUME i + 2 <= n PROVE g[i + 2] \in Seq(Nat)
      OBVIOUS
    <3>2. PICK j \in 1..n : j = i + 2 /\ j # 1 /\ j - 1 = i + 1
      BY <3>1
    <3>3. g[j] = g[j - 1] \o s[j]
      BY <1>1, <2>1, <3>2
    <3>4. g[i + 1] \in Seq(Nat) /\ s[j] \in Seq(Nat)
      BY <1>1, <2>3, <3>1, <3>2
    <3>5. g[i + 1] \o s[j] \in Seq(Nat)
      BY <3>4, ConcatProperties
    <3> QED BY <3>2, <3>3, <3>5
  <2>4. Nat \subseteq S
    <3> HIDE DEF S
    <3> QED BY <2>2, <2>3, NatSetInduction
  <2>5. n - 1 \in S /\ n - 1 + 1 = n
    <3>1. n - 1 \in Nat /\ n - 1 + 1 = n
      BY <1>1, <1>3
    <3> HIDE DEF S
    <3> QED BY <2>4, <3>1
  <2> QED BY <1>1, <2>1, <2>5
<1> QED BY <1>2, <1>3

LEMMA FlatPairs ==
  ASSUME NEW s \in Seq(Pairs), NEW n \in Nat
  PROVE  Flat(s, n, NoPoint) \in Seq(Nat)
<1>1. [i \in 1..n |-> At(s, i, NoPoint)] \in Seq(Pairs)
  BY AtIsPair
<1> QED BY <1>1, FlattenedPairs DEF Flat

LEMMA ValuesInit == Init => Values
<1> SUFFICES ASSUME Init PROVE Values
  OBVIOUS
<1>1. <<>> \in Seq(Nat) /\ <<>> \in Seq(Pairs)
  OBVIOUS
<1>2. \A p \in {"NumberOfDesktops", "DesktopGeometry", "DesktopViewport"} :
        property[p].data \in Seq(Nat)
  <2>1. \A p \in Properties : property[p].data = <<>>
    BY DEF Init, NoProperty, Property
  <2> QED BY <1>1, <2>1, PropertiesAre
<1>3. \A a \in Agents : /\ fields[a].number_of_desktops = 0 /\ fields[a].viewport = <<>>
                        /\ fields[a].geometry = NoPoint
  BY DEF Init, NewFields
<1>4. \A a \in Agents : fields[a].number_of_desktops \in Nat /\ fields[a].viewport \in Seq(Pairs)
  <2>1. PICK e : e = <<>>
    OBVIOUS
  <2>2. e \in Seq(Pairs) /\ \A a \in Agents : fields[a].viewport = e
    BY <1>1, <1>3, <2>1
  <2>3. \A a \in Agents : fields[a].number_of_desktops \in Nat
    BY <1>3
  <2> QED BY <2>2, <2>3
<1>5. fields[client].geometry \in Pairs
  BY <1>3, NoPointIsPair DEF Agents
<1> QED BY <1>2, <1>4, <1>5 DEF Values

\* A reply
LEMMA ReadValues ==
  ASSUME NEW f, IsObject(f), NEW p \in Properties, NEW r,
         p \in {"NumberOfDesktops", "DesktopGeometry", "DesktopViewport"} => r.data \in Seq(Nat),
         f.number_of_desktops \in Nat, f.viewport \in Seq(Pairs), NEW g, g = Read(p, f, r)
  PROVE  /\ g.number_of_desktops \in Nat /\ g.viewport \in Seq(Pairs)
         /\ f.geometry \in Pairs => g.geometry \in Pairs
<1>1. /\ p # "NumberOfDesktops" => g.number_of_desktops = f.number_of_desktops
      /\ p # "DesktopGeometry" => g.geometry = f.geometry
      /\ p # "DesktopViewport" => g.viewport = f.viewport
  BY ReadKeeps DEF SourceOf, View
<1>2. ASSUME p = "NumberOfDesktops" PROVE g.number_of_desktops \in Nat
  <2>1. g.number_of_desktops = GetValueReply(r, "CARDINAL", 0)
    BY <1>2 DEF Read, IsObject, FieldNames
  <2>2. Len(r.data) = 1 => r.data[1] \in Nat
    BY <1>2, ElementOfSeq
  <2> QED BY <2>1, <2>2 DEF GetValueReply
<1>3. ASSUME p = "DesktopGeometry" PROVE g.geometry \in Pairs
  <2>1. PICK data : data = GetArrayReply(r, "CARDINAL")
    OBVIOUS
  <2>2. g.geometry = IF Len(data) = 2 THEN data ELSE RootSize
    BY <1>3, <2>1 DEF Read, ReadDesktopGeometry, IsObject, FieldNames
  <2>3. Len(data) = 2 => data \in Pairs
    BY <1>3, <2>1, ArrayReply, PairOfTwo
  <2>4. RootSize \in Pairs
    BY NETRootInfoAssumption DEF RootSize, Pairs
  <2> QED BY <2>2, <2>3, <2>4
<1>4. ASSUME p = "DesktopViewport" PROVE g.viewport \in Seq(Pairs)
  <2>1. PICK points : points = Tuples(GetArrayReply(r, "CARDINAL"), 2)
    OBVIOUS
  <2>2. points \in Seq(Pairs)
    <3>1. GetArrayReply(r, "CARDINAL") \in Seq(Nat)
      BY <1>4, ArrayReply
    <3> QED BY <2>1, <3>1, TuplesArePairs
  <2>3. PICK n \in Nat : n = IF Len(points) > Len(f.viewport) THEN Len(points) ELSE Len(f.viewport)
    BY <2>2
  <2>4. g.viewport = [i \in 1..n |-> At(points, i, NoPoint)]
    BY <1>4, <2>1, <2>3 DEF Read, ReadDesktopViewport, IsObject, FieldNames
  <2>5. \A i \in 1..n : At(points, i, NoPoint) \in Pairs
    BY <2>2, AtIsPair
  <2>6. [i \in 1..n |-> At(points, i, NoPoint)] \in Seq(Pairs)
    BY <2>5
  <2> QED BY <2>4, <2>6
<1> QED BY <1>1, <1>2, <1>3, <1>4

\* A setter
LEMMA SettingsValues ==
  ASSUME Shapes, Values, Settings
  PROVE  Values'
<1> USE PropertiesAre DEF Valued, FieldNames, View, Agents, wm, client
<1>1. CASE OtherSetting
  <2>1. PICK a \in Agents, p \in Properties \ Valued, x \in SUBSET FieldNames :
          Gives(a, x, p) /\ x \cap Spared(a) = {}
    BY <1>1 DEF OtherSetting
  <2>2. \A b \in Agents : /\ fields'[b].number_of_desktops = fields[b].number_of_desktops
                          /\ fields'[b].viewport = fields[b].viewport
    BY <2>1 DEF Gives, Spared
  <2>3. fields'[client].geometry = fields[client].geometry
    BY <2>1 DEF Gives, Spared
  <2>4. \A q \in Valued : property'[q] = property[q]
    BY <2>1 DEF Gives
  <2> QED BY <2>2, <2>3, <2>4 DEF Values
<1>2. CASE NumberSetting
  <2>1. PICK n \in 0..MaxDesktops :
          /\ Gives(wm, {"number_of_desktops"}, "NumberOfDesktops")
          /\ fields'[wm].number_of_desktops = n
          /\ property'["NumberOfDesktops"] = Property("CARDINAL", <<n>>)
    BY <1>2 DEF NumberSetting
  <2>2. n \in Nat /\ <<n>> \in Seq(Nat)
    BY NETRootInfoAssumption
  <2>3. property'["NumberOfDesktops"].data \in Seq(Nat)
    BY <2>1, <2>2 DEF Property
  <2>4. \A b \in Agents, y \in {"viewport", "geometry"} : fields'[b][y] = fields[b][y]
    BY <2>1 DEF Gives
  <2>5. fields'[client].number_of_desktops = fields[client].number_of_desktops
    BY <2>1 DEF Gives
  <2>6. \A q \in Properties \ {"NumberOfDesktops"} : property'[q] = property[q]
    BY <2>1 DEF Gives
  <2> QED BY <2>1, <2>2, <2>3, <2>4, <2>5, <2>6 DEF Values
<1>3. CASE CurrentSetting
  <2>1. Gives(wm, {"current_desktop"}, "CurrentDesktop")
    BY <1>3 DEF CurrentSetting
  <2>2. \A b \in Agents, y \in {"number_of_desktops", "viewport", "geometry"} :
          fields'[b][y] = fields[b][y]
    BY <2>1 DEF Gives
  <2>3. \A q \in Properties \ {"CurrentDesktop"} : property'[q] = property[q]
    BY <2>1 DEF Gives
  <2> QED BY <2>2, <2>3 DEF Values
<1>4. CASE GeometrySetting
  <2>1. PICK size \in Geometries :
          /\ Gives(wm, {"geometry"}, "DesktopGeometry")
          /\ property'["DesktopGeometry"] = Property("CARDINAL", size)
    BY <1>4 DEF GeometrySetting
  <2>2. size \in Seq(Nat)
    BY NETRootInfoAssumption, PairIsSeq DEF Pairs
  <2>3. property'["DesktopGeometry"].data \in Seq(Nat)
    BY <2>1, <2>2 DEF Property
  <2>4. \A b \in Agents, y \in {"number_of_desktops", "viewport"} : fields'[b][y] = fields[b][y]
    BY <2>1 DEF Gives
  <2>5. fields'[client].geometry = fields[client].geometry
    BY <2>1 DEF Gives
  <2>6. \A q \in Properties \ {"DesktopGeometry"} : property'[q] = property[q]
    BY <2>1 DEF Gives
  <2> QED BY <2>3, <2>4, <2>5, <2>6 DEF Values
<1>5. CASE ViewportSetting
  <2>1. /\ Gives(wm, {"viewport"}, "DesktopViewport")
        /\ \E new : /\ \E d \in Desktops, point \in Points :
                        new = SetAt(fields[wm].viewport, d, NoPoint, point)
                   /\ fields'[wm].viewport = new
                   /\ property'["DesktopViewport"] =
                        Property("CARDINAL", Flat(new, fields[wm].number_of_desktops, NoPoint))
    BY <1>5 DEF ViewportSetting
  <2>2. PICK new : /\ \E d \in Desktops, point \in Points :
                        new = SetAt(fields[wm].viewport, d, NoPoint, point)
                   /\ fields'[wm].viewport = new
                   /\ property'["DesktopViewport"] =
                        Property("CARDINAL", Flat(new, fields[wm].number_of_desktops, NoPoint))
    BY <2>1
  <2>3. new \in Seq(Pairs)
    <3>1. PICK d \in Desktops, point \in Points :
            new = SetAt(fields[wm].viewport, d, NoPoint, point)
      BY <2>2
    <3>2. d \in Nat \ {0} /\ point \in Pairs /\ fields[wm].viewport \in Seq(Pairs)
      BY NETRootInfoAssumption DEF Desktops, Pairs, Values
    <3> QED BY <3>1, <3>2, SetAtIsPairs
  <2>4. Flat(new, fields[wm].number_of_desktops, NoPoint) \in Seq(Nat)
    BY <2>3, FlatPairs DEF Values
  <2>5. property'["DesktopViewport"].data \in Seq(Nat)
    BY <2>2, <2>4 DEF Property
  <2>6. \A b \in Agents, y \in {"number_of_desktops", "geometry"} : fields'[b][y] = fields[b][y]
    BY <2>1 DEF Gives
  <2>7. fields'[client].viewport = fields[client].viewport
    BY <2>1 DEF Gives
  <2>8. \A q \in Properties \ {"DesktopViewport"} : property'[q] = property[q]
    BY <2>1 DEF Gives
  <2> QED BY <2>2, <2>3, <2>5, <2>6, <2>7, <2>8 DEF Values
<1>6. CASE SupportSetting
  BY <1>6 DEF SupportSetting, Values
<1> QED BY <1>1, <1>2, <1>3, <1>4, <1>5, <1>6 DEF Settings

LEMMA ValuesNext ==
  ASSUME Shapes, Values, [Next]_vars
  PROVE  Values'
<1> USE DEF Agents, wm, client
<1>1. ASSUME UNCHANGED fields,
             \A p \in {"NumberOfDesktops", "DesktopGeometry", "DesktopViewport"} :
               property'[p] = property[p]
      PROVE  Values'
  BY <1>1 DEF Values
<1>2. ASSUME NEW a \in Agents, Activate(a) PROVE Values'
  <2>1. \A p \in Properties \ {"Supported", "SupportingWMCheck"} : property'[p] = property[p]
    BY <1>2 DEF Activate, PublishSupported, Shapes
  <2> QED BY <1>1, <1>2, <2>1, PropertiesAre DEF Activate
<1>3. ASSUME PublishName PROVE Values'
  <2>1. \A p \in Properties \ {"SupportName"} : property'[p] = property[p]
    BY <1>3 DEF PublishName, Shapes
  <2> QED BY <1>1, <1>3, <2>1, PropertiesAre DEF PublishName
<1>4. ASSUME NEW a \in Agents, Update(a) PROVE Values'
  <2>1. PICK p, g :
          /\ p \in Properties /\ UNCHANGED property
          /\ g = Read(p, fields[a], property[p]) /\ fields' = [fields EXCEPT ![a] = g]
    BY <1>4 DEF Update
  <2>2. fields'[a] = g /\ \A b \in Agents \ {a} : fields'[b] = fields[b]
    BY <2>1 DEF Shapes
  <2>3. /\ g.number_of_desktops \in Nat /\ g.viewport \in Seq(Pairs)
        /\ fields[a].geometry \in Pairs => g.geometry \in Pairs
    <3>1. PICK f, r : f = fields[a] /\ r = property[p]
      OBVIOUS
    <3>2. IsObject(f) /\ f.number_of_desktops \in Nat /\ f.viewport \in Seq(Pairs)
      BY <3>1 DEF Values, Shapes
    <3>3. p \in {"NumberOfDesktops", "DesktopGeometry", "DesktopViewport"} => r.data \in Seq(Nat)
      BY <3>1 DEF Values
    <3>4. g = Read(p, f, r)
      BY <2>1, <3>1
    <3> QED BY <2>1, <3>1, <3>2, <3>3, <3>4, ReadValues
  <2> QED BY <2>1, <2>2, <2>3 DEF Values
<1>5. ASSUME NEW a \in Agents, OnPropertyNotify(a) PROVE Values'
  BY <1>1, <1>5 DEF OnPropertyNotify, Dispatch
<1>6. ASSUME OnClientMessage PROVE Values'
  BY <1>1, <1>6 DEF OnClientMessage, Dispatch
<1>7. ASSUME Setters PROVE Values'
  BY <1>7, SettersAre, SettingsValues
<1>8. ASSUME Senders PROVE Values'
  <2>1. UNCHANGED <<fields, property>>
    BY <1>8 DEF Senders, Sends, Calls, Ping, SendNumberOfDesktops, SendCurrentDesktop,
       SendDesktopGeometry, SendDesktopViewport, SendShowingDesktop, SendActiveWindow,
       CloseWindowRequest, MoveResizeRequest, MoveResizeWindowRequest,
       ShowWindowMenuRequest, RestackRequest
  <2> QED BY <1>1, <2>1
<1>9. ASSUME UNCHANGED vars PROVE Values'
  BY <1>1, <1>9 DEF vars
<1> QED BY <1>2, <1>3, <1>4, <1>5, <1>6, <1>7, <1>8, <1>9 DEF Next

\* kx11extras.cpp, viewportToDesktop(), desktopToViewport(), setOnDesktop() and the functions
\* they call: on any desktop that is a multiple of the display, with any viewport, the parts
\* that are counted as desktops are reached by those who switch to them and by the windows
\* that are sent there.
THEOREM ViewportsAlwaysInverse == DesktopsSpec => []ViewportsInverse
<1>1. DesktopsInit => Values
  BY ValuesInit DEF DesktopsInit
<1>2. Shapes /\ Values /\ [DesktopsNext]_<<vars, announced>> => Values'
  <2>1. [DesktopsNext]_<<vars, announced>> => [Next]_vars
    BY DEF DesktopsNext
  <2> QED BY <2>1, ValuesNext
<1>3. Values => ViewportsInverse
  <2>1. SUFFICES ASSUME Values, mapViewport(f0), Whole(f0)
                 PROVE  Reachable(f0) /\ WindowLands(f0)
    BY DEF ViewportsInverse
  <2>2. Measured(f0)
    BY <2>1 DEF Values, Measured, f0, Pairs, Agents
  <2> QED BY <2>1, <2>2, DesktopsReachable, WindowsLand
<1> QED BY <1>1, <1>2, <1>3, ShapesAlways, PTL DEF DesktopsSpec

-----------------------------------------------------------------------------
(* Lists that are flattened, and lists made of sets                        *)

Joined(s, t) == s \o t
FlattenStep(s, n, g) ==
  g = [i \in 1..n |-> IF i = 1 THEN s[i] ELSE Joined(g[i - 1], s[i])]

LEMMA FlattenIs ==
  ASSUME NEW s, NEW n \in Nat \ {0}, n = Len(s)
  PROVE  \E g : FlattenStep(s, n, g) /\ FlattenSeq(s) = g[n]
<1> DEFINE A == CHOOSE g : g = [i \in 1..Len(s) |-> IF i = 1 THEN s[i] ELSE g[i - 1] \o s[i]]
<1>1. A = [i \in 1..Len(s) |-> IF i = 1 THEN s[i] ELSE A[i - 1] \o s[i]]
  <2>1. n \in Nat
    OBVIOUS
  <2>2. \E g : g = [i \in 1..Len(s) |-> IF i = 1 THEN s[i] ELSE g[i - 1] \o s[i]]
    BY <2>1, FlattenRuns
  <2> QED BY <2>2
<1>2. FlattenSeq(s) = A[Len(s)]
  BY DEF FlattenSeq
<1> HIDE DEF A
<1> QED BY <1>1, <1>2 DEF FlattenStep, Joined

LEMMA FlattenNone == FlattenSeq(<<>>) = <<>>
<1>1. Len(<<>>) = 0
  OBVIOUS
<1> QED BY <1>1 DEF FlattenSeq

\* One more part
LEMMA FlattenAppend ==
  ASSUME NEW S, NEW s \in Seq(Seq(S)), NEW x \in Seq(S), FlattenSeq(s) \in Seq(S)
  PROVE  FlattenSeq(Append(s, x)) = FlattenSeq(s) \o x
<1>a. PICK n \in Nat : n = Len(s)
  OBVIOUS
<1>b. PICK t : t = Append(s, x)
  OBVIOUS
<1>1. n = Len(s) /\ t = Append(s, x)
  BY <1>a, <1>b
<1>2. Len(t) = n + 1 /\ t[n + 1] = x /\ \A i \in 1..n : t[i] = s[i]
  BY <1>1, AppendProperties
<1>3. PICK h : FlattenStep(t, n + 1, h) /\ FlattenSeq(t) = h[n + 1]
  <2>1. n + 1 \in Nat \ {0} /\ n + 1 = Len(t)
    BY <1>2
  <2> QED BY <2>1, FlattenIs
<1>4. h[1] = t[1] /\ \A i \in 2..(n + 1) : h[i] = Joined(h[i - 1], t[i])
  BY <1>2, <1>3 DEF FlattenStep
<1>5. CASE n = 0
  <2>1. s = <<>>
    BY <1>1, <1>5, EmptySeq
  <2>2. FlattenSeq(t) = x
    BY <1>2, <1>3, <1>4, <1>5
  <2> QED BY <1>1, <2>1, <2>2, FlattenNone, ConcatEmptySeq
<1>6. CASE n # 0
  <2>1. PICK g : FlattenStep(s, n, g) /\ FlattenSeq(s) = g[n]
    BY <1>1, <1>6, FlattenIs
  <2>2. g[1] = s[1] /\ \A i \in 2..n : g[i] = Joined(g[i - 1], s[i])
    <3>1. 1 \in 1..n /\ \A i \in 2..n : i \in 1..n /\ i # 1
      BY <1>6
    <3> QED BY <2>1, <3>1 DEF FlattenStep
  <2> DEFINE I == {i \in Nat : i + 1 <= n => h[i + 1] = g[i + 1]}
  <2>3. 0 \in I
    BY <1>2, <1>4, <1>6, <2>2
  <2>4. ASSUME NEW i \in Nat, i \in I PROVE i + 1 \in I
    <3>1. SUFFICES ASSUME i + 2 <= n PROVE h[i + 2] = g[i + 2]
      OBVIOUS
    <3>2. PICK j \in 2..n : j = i + 2 /\ j - 1 = i + 1
      BY <3>1
    <3>3. h[j] = Joined(h[j - 1], t[j]) /\ g[j] = Joined(g[j - 1], s[j]) /\ t[j] = s[j]
      BY <1>2, <1>4, <2>2, <3>2
    <3>4. h[j - 1] = g[j - 1]
      BY <2>4, <3>1, <3>2
    <3> QED BY <3>2, <3>3, <3>4
  <2>5. Nat \subseteq I
    <3> HIDE DEF I
    <3> QED BY <2>3, <2>4, NatSetInduction
  <2>6. n - 1 \in I /\ n - 1 + 1 = n
    <3>1. n - 1 \in Nat /\ n - 1 + 1 = n
      BY <1>1, <1>6
    <3> HIDE DEF I
    <3> QED BY <2>5, <3>1
  <2>7. h[n] = g[n]
    BY <2>6
  <2>8. n + 1 \in 2..(n + 1) /\ n + 1 - 1 = n
    BY <1>6
  <2>9. h[n + 1] = Joined(h[n], x)
    BY <1>2, <1>4, <2>8
  <2> QED BY <1>1, <1>3, <2>1, <2>7, <2>9 DEF Joined
<1> QED BY <1>5, <1>6

LEMMA FlattenIsSeq ==
  ASSUME NEW S, NEW s \in Seq(Seq(S))
  PROVE  FlattenSeq(s) \in Seq(S)
<1> DEFINE I == {n \in Nat : \A t \in Seq(Seq(S)) : Len(t) = n => FlattenSeq(t) \in Seq(S)}
<1>1. 0 \in I
  <2>1. ASSUME NEW t \in Seq(Seq(S)), Len(t) = 0 PROVE FlattenSeq(t) \in Seq(S)
    <3>1. t = <<>> /\ <<>> \in Seq(S)
      BY <2>1, EmptySeq
    <3> QED BY <3>1, FlattenNone
  <2> QED BY <2>1
<1>2. ASSUME NEW n \in Nat, n \in I PROVE n + 1 \in I
  <2>1. ASSUME NEW t \in Seq(Seq(S)), Len(t) = n + 1 PROVE FlattenSeq(t) \in Seq(S)
    <3>1. PICK front \in Seq(Seq(S)), last \in Seq(S) : t = Append(front, last)
      <4>1. t # <<>>
        BY <2>1, EmptySeq
      <4> QED BY <4>1, SequenceEmptyOrAppend
    <3>2. Len(front) = n
      BY <2>1, <3>1
    <3>3. FlattenSeq(front) \in Seq(S)
      BY <1>2, <3>2
    <3>4. FlattenSeq(t) = FlattenSeq(front) \o last
      BY <3>1, <3>3, FlattenAppend
    <3> QED BY <3>3, <3>4, ConcatProperties
  <2> QED BY <2>1
<1>3. Nat \subseteq I
  <2> HIDE DEF I
  <2> QED BY <1>1, <1>2, NatSetInduction
<1>4. Len(s) \in Nat
  OBVIOUS
<1> QED BY <1>3, <1>4

\* What the parts have, and nothing else
LEMMA FlattenMembers ==
  ASSUME NEW S, NEW s \in Seq(Seq(S))
  PROVE  /\ \A i \in 1..Len(s) : \A k \in 1..Len(s[i]) :
              \E j \in 1..Len(FlattenSeq(s)) : FlattenSeq(s)[j] = s[i][k]
         /\ \A j \in 1..Len(FlattenSeq(s)) :
              \E i \in 1..Len(s) : \E k \in 1..Len(s[i]) : FlattenSeq(s)[j] = s[i][k]
<1> DEFINE All(t) == /\ \A i \in 1..Len(t) : \A k \in 1..Len(t[i]) :
                          \E j \in 1..Len(FlattenSeq(t)) : FlattenSeq(t)[j] = t[i][k]
                     /\ \A j \in 1..Len(FlattenSeq(t)) :
                          \E i \in 1..Len(t) : \E k \in 1..Len(t[i]) : FlattenSeq(t)[j] = t[i][k]
           I == {n \in Nat : \A t \in Seq(Seq(S)) : Len(t) = n => All(t)}
<1>1. 0 \in I
  <2>1. ASSUME NEW t \in Seq(Seq(S)), Len(t) = 0 PROVE All(t)
    <3>1. t = <<>> /\ FlattenSeq(t) = <<>>
      BY <2>1, EmptySeq, FlattenNone
    <3>2. Len(<<>>) = 0 /\ 1..0 = {}
      OBVIOUS
    <3> QED BY <3>1, <3>2
  <2> QED BY <2>1
<1>2. ASSUME NEW n \in Nat, n \in I PROVE n + 1 \in I
  <2>1. ASSUME NEW t \in Seq(Seq(S)), Len(t) = n + 1 PROVE All(t)
    <3>1. PICK u \in Seq(Seq(S)), x \in Seq(S) : t = Append(u, x)
      <4>1. t # <<>>
        BY <2>1, EmptySeq
      <4> QED BY <4>1, SequenceEmptyOrAppend
    <3>2. Len(u) = n /\ t[n + 1] = x /\ \A i \in 1..n : t[i] = u[i]
      BY <2>1, <3>1, AppendProperties
    <3>3. PICK f \in Seq(S) : f = FlattenSeq(u)
      BY FlattenIsSeq
    <3>4. PICK g : g = FlattenSeq(t) /\ g = f \o x
      BY <3>1, <3>3, FlattenAppend
    <3>5. PICK m \in Nat, l \in Nat : m = Len(f) /\ l = Len(x)
      OBVIOUS
    <3>6. Len(g) = m + l /\ (\A j \in 1..m : g[j] = f[j])
          /\ \A j \in 1..(m + l) : ~(j <= m) => g[j] = x[j - m]
      BY <3>4, <3>5, ConcatProperties
    <3>7. /\ \A i \in 1..n : \A k \in 1..Len(u[i]) : \E j \in 1..m : f[j] = u[i][k]
          /\ \A j \in 1..m : \E i \in 1..n : \E k \in 1..Len(u[i]) : f[j] = u[i][k]
      <4>1. All(u)
        BY <1>2, <3>2
      <4> QED BY <3>2, <3>3, <3>5, <4>1
    <3>8. ASSUME NEW i \in 1..(n + 1), NEW k \in 1..Len(t[i])
          PROVE  \E j \in 1..(m + l) : g[j] = t[i][k]
      <4>1. CASE i = n + 1
        <5>1. k \in 1..l /\ t[i][k] = x[k]
          BY <3>2, <3>5, <3>8, <4>1
        <5>2. m + k \in 1..(m + l) /\ ~(m + k <= m) /\ m + k - m = k
          BY <5>1
        <5>3. g[m + k] = x[k]
          BY <3>6, <5>2
        <5> QED BY <5>1, <5>2, <5>3
      <4>2. CASE i \in 1..n
        <5>1. t[i] = u[i] /\ k \in 1..Len(u[i])
          BY <3>2, <3>8, <4>2
        <5>2. PICK j \in 1..m : f[j] = u[i][k]
          BY <3>7, <4>2, <5>1
        <5>3. j \in 1..(m + l) /\ g[j] = f[j]
          BY <3>6
        <5> QED BY <5>1, <5>2, <5>3
      <4> QED BY <3>8, <4>1, <4>2
    <3>9. ASSUME NEW j \in 1..(m + l)
          PROVE  \E i \in 1..(n + 1) : \E k \in 1..Len(t[i]) : g[j] = t[i][k]
      <4>1. CASE j <= m
        <5>1. j \in 1..m
          BY <4>1
        <5>2. \E i \in 1..n : \E k \in 1..Len(u[i]) : f[j] = u[i][k]
          BY <3>7, <5>1
        <5>3. PICK i \in 1..n : \E k \in 1..Len(u[i]) : f[j] = u[i][k]
          BY <5>2
        <5>4. i \in 1..(n + 1) /\ t[i] = u[i]
          BY <3>2
        <5>5. g[j] = f[j]
          BY <3>6, <5>1
        <5> QED BY <5>3, <5>4, <5>5
      <4>2. CASE ~(j <= m)
        <5>1. j - m \in 1..Len(x) /\ g[j] = x[j - m]
          BY <3>5, <3>6, <4>2
        <5>2. n + 1 \in 1..(n + 1)
          OBVIOUS
        <5> QED BY <3>2, <5>1, <5>2
      <4> QED BY <4>1, <4>2
    <3>10. Len(FlattenSeq(t)) = m + l /\ Len(t) = n + 1
      BY <2>1, <3>4, <3>6
    <3>11. \A i \in 1..Len(t) : \A k \in 1..Len(t[i]) :
             \E j \in 1..Len(FlattenSeq(t)) : FlattenSeq(t)[j] = t[i][k]
      <4> TAKE i \in 1..Len(t)
      <4> TAKE k \in 1..Len(t[i])
      <4>2. PICK j \in 1..(m + l) : g[j] = t[i][k]
        BY <2>1, <3>8
      <4>3. j \in 1..Len(FlattenSeq(t))
        BY <3>10
      <4> QED BY <3>4, <4>2, <4>3
    <3>12. \A j \in 1..Len(FlattenSeq(t)) :
             \E i \in 1..Len(t) : \E k \in 1..Len(t[i]) : FlattenSeq(t)[j] = t[i][k]
      <4> TAKE j \in 1..Len(FlattenSeq(t))
      <4>2. PICK i \in 1..Len(t) : \E k \in 1..Len(t[i]) : g[j] = t[i][k]
        BY <2>1, <3>9, <3>10
      <4> QED BY <3>4, <4>2
    <3> QED BY <3>11, <3>12
  <2> QED BY <2>1
<1>3. Nat \subseteq I
  <2> HIDE DEF I
  <2> QED BY <1>1, <1>2, NatSetInduction
<1>4. Len(s) \in Nat
  OBVIOUS
<1> QED BY <1>3, <1>4

\* The members of a list that are wanted
LEMMA ThoseMembers ==
  ASSUME NEW L, NEW list \in Seq(L), NEW S
  PROVE  /\ Those(list, S) \in Seq(L \cap S)
         /\ \A i \in 1..Len(list) : list[i] \in S =>
              \E j \in 1..Len(Those(list, S)) : Those(list, S)[j] = list[i]
<1>1. PICK n \in Nat : n = Len(list)
  OBVIOUS
<1>2. PICK s : s = [i \in 1..n |-> IF list[i] \in S THEN <<list[i]>> ELSE <<>>]
  OBVIOUS
<1>3. s \in Seq(Seq(L \cap S))
  <2>1. ASSUME NEW i \in 1..n
        PROVE  (IF list[i] \in S THEN <<list[i]>> ELSE <<>>) \in Seq(L \cap S)
    <3>1. PICK x \in L : x = list[i]
      BY <1>1, ElementOfSeq
    <3>2. <<>> \in Seq(L \cap S) /\ (x \in S => <<x>> \in Seq(L \cap S))
      OBVIOUS
    <3> QED BY <3>1, <3>2
  <2> QED BY <1>2, <2>1
<1>4. Len(s) = n
  BY <1>2
<1>5. Those(list, S) = FlattenSeq(s)
  BY <1>1, <1>2 DEF Those
<1>6. ASSUME NEW i \in 1..n, list[i] \in S
      PROVE  \E j \in 1..Len(Those(list, S)) : Those(list, S)[j] = list[i]
  <2>1. s[i] = <<list[i]>>
    BY <1>2, <1>6
  <2>2. 1 \in 1..Len(s[i]) /\ s[i][1] = list[i]
    BY <2>1
  <2>3. i \in 1..Len(s)
    BY <1>4
  <2>4. \A k \in 1..Len(s[i]) :
          \E j \in 1..Len(FlattenSeq(s)) : FlattenSeq(s)[j] = s[i][k]
    BY <1>3, <2>3, FlattenMembers
  <2>5. \E j \in 1..Len(FlattenSeq(s)) : FlattenSeq(s)[j] = s[i][1]
    BY <2>2, <2>4
  <2> QED BY <1>5, <2>2, <2>5
<1> QED BY <1>1, <1>3, <1>5, <1>6, FlattenIsSeq

LEMMA OrderHasAll ==
  /\ Order \in Seq(Properties)
  /\ \A p \in Properties : \E i \in 1..Len(Order) : Order[i] = p
<1>1. Len(Order) = 15 /\ DOMAIN Order = 1..15
  BY DEF Order
<1>2. PICK n \in Nat : n = 15
  OBVIOUS
<1>3. Properties = {Order[i] : i \in 1..n}
  BY <1>1, <1>2 DEF Properties, ToSet
<1>4. Order = [i \in 1..n |-> Order[i]]
  <2>1. Order = [i \in DOMAIN Order |-> Order[i]]
    BY DEF Order
  <2> QED BY <1>1, <1>2, <2>1
<1>5. [i \in 1..n |-> Order[i]] \in Seq(Properties)
  BY <1>3
<1> QED BY <1>1, <1>2, <1>3, <1>4, <1>5

\* What activate() asks for
LEMMA AskedFor ==
  ASSUME NEW S
  PROVE  /\ Those(Order, S) \in Seq(Properties \cap S)
         /\ \A p \in Properties \cap S :
              \E j \in 1..Len(Those(Order, S)) : Those(Order, S)[j] = p
BY OrderHasAll, ThoseMembers

\* Pairs one after the other
LEMMA FlattenedPairsAre ==
  ASSUME NEW s \in Seq(Pairs), NEW f, f = FlattenSeq(s)
  PROVE  /\ f \in Seq(Nat) /\ Len(f) = 2 * Len(s)
         /\ \A i \in 1..Len(s) : f[2 * i - 1] = s[i][1] /\ f[2 * i] = s[i][2]
<1> DEFINE Right(t, g) == /\ Len(g) = 2 * Len(t)
                          /\ \A i \in 1..Len(t) : g[2 * i - 1] = t[i][1] /\ g[2 * i] = t[i][2]
           I == {n \in Nat : \A t \in Seq(Pairs) : Len(t) = n => Right(t, FlattenSeq(t))}
<1>0. ASSUME NEW t \in Seq(Pairs) PROVE t \in Seq(Seq(Nat))
  BY PairIsSeq, SeqMonotonic
<1>1. 0 \in I
  <2>1. ASSUME NEW t \in Seq(Pairs), Len(t) = 0 PROVE Right(t, FlattenSeq(t))
    <3>1. t = <<>> /\ FlattenSeq(t) = <<>>
      BY <2>1, EmptySeq, FlattenNone
    <3>2. Len(<<>>) = 0 /\ 1..0 = {}
      OBVIOUS
    <3> QED BY <3>1, <3>2
  <2> QED BY <2>1
<1>2. ASSUME NEW n \in Nat, n \in I PROVE n + 1 \in I
  <2>1. ASSUME NEW t \in Seq(Pairs), Len(t) = n + 1 PROVE Right(t, FlattenSeq(t))
    <3>1. PICK u \in Seq(Pairs), x \in Pairs : t = Append(u, x)
      <4>1. t # <<>>
        BY <2>1, EmptySeq
      <4> QED BY <4>1, SequenceEmptyOrAppend
    <3>2. Len(u) = n /\ t[n + 1] = x /\ \A i \in 1..n : t[i] = u[i]
      BY <2>1, <3>1, AppendProperties
    <3>3. PICK g \in Seq(Nat) : g = FlattenSeq(u)
      BY <1>0, FlattenIsSeq
    <3>4. PICK h : h = FlattenSeq(t)
      OBVIOUS
    <3>5. x \in Seq(Nat) /\ u \in Seq(Seq(Nat)) /\ Len(x) = 2
      BY <1>0, PairIsSeq DEF Pairs
    <3>6. h = g \o x
      BY <3>1, <3>3, <3>4, <3>5, FlattenAppend
    <3>7. Len(g) = 2 * n /\ \A i \in 1..n : g[2 * i - 1] = u[i][1] /\ g[2 * i] = u[i][2]
      BY <1>2, <3>2, <3>3
    <3>8. /\ Len(h) = 2 * n + 2 /\ (\A j \in 1..(2 * n) : h[j] = g[j])
          /\ h[2 * n + 1] = x[1] /\ h[2 * n + 2] = x[2]
      <4>1. PICK m \in Nat : m = 2 * n
        OBVIOUS
      <4>2. /\ Len(h) = m + 2
            /\ \A j \in 1..(m + 2) : h[j] = IF j <= m THEN g[j] ELSE x[j - m]
        <5>1. Len(g) = m
          BY <3>7, <4>1
        <5>2. /\ Len(h) = Len(g) + Len(x)
              /\ \A j \in 1..(Len(g) + Len(x)) :
                   h[j] = IF j <= Len(g) THEN g[j] ELSE x[j - Len(g)]
          BY <3>3, <3>5, <3>6, ConcatProperties
        <5> QED BY <3>5, <5>1, <5>2
      <4>3. m + 1 - m = 1 /\ m + 2 - m = 2 /\ m + 1 \in 1..(m + 2) /\ m + 2 \in 1..(m + 2)
        OBVIOUS
      <4> QED BY <4>1, <4>2, <4>3
    <3>9. ASSUME NEW i \in 1..(n + 1) PROVE h[2 * i - 1] = t[i][1] /\ h[2 * i] = t[i][2]
      <4>1. CASE i = n + 1
        <5>1. 2 * i - 1 = 2 * n + 1 /\ 2 * i = 2 * n + 2
          BY <4>1
        <5> QED BY <3>2, <3>8, <4>1, <5>1
      <4>2. CASE i \in 1..n
        <5>1. 2 * i - 1 \in 1..(2 * n) /\ 2 * i \in 1..(2 * n)
          BY <4>2
        <5> QED BY <3>2, <3>7, <3>8, <4>2, <5>1
      <4> QED BY <4>1, <4>2
    <3>10. Right(t, h)
      BY <2>1, <3>8, <3>9
    <3> QED BY <3>4, <3>10
  <2> QED BY <2>1
<1>3. Nat \subseteq I
  <2> HIDE DEF I
  <2> QED BY <1>1, <1>2, NatSetInduction
<1>4. Len(s) \in Nat
  OBVIOUS
<1>5. Right(s, FlattenSeq(s))
  BY <1>3, <1>4
<1>6. FlattenSeq(s) \in Seq(Nat)
  BY <1>0, FlattenIsSeq
<1> QED BY <1>5, <1>6

\* Points that are published are read as they were.
LEMMA TuplesOfFlat ==
  ASSUME NEW v \in Seq(Pairs), NEW n \in Nat, NEW data, data = Flat(v, n, NoPoint)
  PROVE  /\ data \in Seq(Nat) /\ Len(data) = 2 * n
         /\ \A d \in 1..n : At(Tuples(data, 2), d, NoPoint) = At(v, d, NoPoint)
<1>1. PICK s : s = [i \in 1..n |-> At(v, i, NoPoint)]
  OBVIOUS
<1>2. s \in Seq(Pairs) /\ Len(s) = n
  BY <1>1, AtIsPair
<1>3. /\ data \in Seq(Nat) /\ Len(data) = 2 * n
      /\ \A i \in 1..n : data[2 * i - 1] = s[i][1] /\ data[2 * i] = s[i][2]
  <2>1. data = FlattenSeq(s)
    BY <1>1 DEF Flat
  <2> QED BY <1>2, <2>1, FlattenedPairsAre
<1>4. ASSUME NEW d \in 1..n PROVE At(Tuples(data, 2), d, NoPoint) = At(v, d, NoPoint)
  <2>1. PICK t : t = SubSeq(data, (d - 1) * 2 + 1, d * 2)
    OBVIOUS
  <2>2. PICK from \in Nat \ {0}, to \in Nat :
          from = (d - 1) * 2 + 1 /\ to = d * 2 /\ to = from + 1 /\ to <= Len(data)
    BY <1>3
  <2>3. t \in Seq(Nat) /\ Len(t) = 2 /\ t[1] = data[from] /\ t[2] = data[to]
    <3>1. /\ \A i \in from..to : data[i] \in Nat
          /\ from <= to /\ to - from + 1 = 2 /\ from + 1 - 1 = from /\ from + 2 - 1 = to
      <4>1. \A i \in from..to : i \in 1..Len(data)
        BY <1>3, <2>2
      <4>2. \A i \in 1..Len(data) : data[i] \in Nat
        BY <1>3, ElementOfSeq
      <4> QED BY <2>2, <4>1, <4>2
    <3>2. t = SubSeq(data, from, to)
      BY <2>1, <2>2
    <3>3. /\ t \in Seq(Nat) /\ Len(t) = 2
          /\ \A i \in 1..2 : t[i] = data[from + i - 1]
      BY <2>2, <3>1, <3>2, SubSeqProperties
    <3>4. 1 \in 1..2 /\ 2 \in 1..2
      OBVIOUS
    <3> QED BY <3>1, <3>3, <3>4
  <2>4. from = 2 * d - 1 /\ to = 2 * d
    BY <2>2
  <2>5. t[1] = s[d][1] /\ t[2] = s[d][2]
    BY <1>3, <2>3, <2>4
  <2>6. s[d] \in Pairs
    BY <1>2, ElementOfSeq
  <2>7. t \in Pairs
    BY <2>3, PairOfTwo
  <2>8. t = s[d]
    <3>1. \A a \in Pairs, b \in Pairs : a[1] = b[1] /\ a[2] = b[2] => a = b
      BY DEF Pairs
    <3> QED BY <2>5, <2>6, <2>7, <3>1
  <2>9. Len(data) \div 2 = n
    BY <1>3
  <2>10. Tuples(data, 2)[d] = t /\ d \in DOMAIN Tuples(data, 2)
    BY <2>1, <2>9 DEF Tuples
  <2> QED BY <1>1, <2>8, <2>10 DEF At
<1> QED BY <1>3, <1>4

\* A list without repetitions that is as long as the set has members has them all.
LEMMA InjectiveIsOnto ==
  ASSUME NEW S, IsFiniteSet(S), NEW n, n = Cardinality(S), NEW l \in [1..n -> S], IsInjective(l)
  PROVE  \A x \in S : \E i \in 1..n : l[i] = x
<1>1. n \in Nat /\ IsFiniteSet(1..n) /\ Cardinality(1..n) = n
  <2>0. Cardinality(S) \in Nat
    BY FS_CardinalityType
  <2>1. n \in Nat
    BY <2>0
  <2>2. Cardinality(1..n) = IF 1 > n THEN 0 ELSE n - 1 + 1
    <3>1. 1 \in Int /\ n \in Int
      BY <2>1
    <3> QED BY <3>1, FS_Interval, Zenon
  <2>3. IsFiniteSet(1..n)
    BY <2>1, FS_Interval
  <2> QED BY <2>1, <2>2, <2>3
<1>2. l \in Injection(1..n, S)
  BY DEF Injection
<1>3. l \in Surjection(1..n, S)
  BY <1>1, <1>2, FS_Injection
<1> QED BY <1>3 DEF Surjection

LEMMA SetToSeqHasAll ==
  ASSUME NEW S, IsFiniteSet(S), NEW l, l = SetToSeq(S)
  PROVE  l \in Seq(S) /\ \A x \in S : \E i \in 1..Len(l) : l[i] = x
<1>1. PICK n \in Nat : n = Cardinality(S)
  BY FS_CardinalityType
<1>2. \E f \in [1..n -> S] : IsInjective(f)
  <2>1. ExistsBijection(1..n, S)
    BY <1>1, FS_CardinalityType
  <2> QED BY <2>1 DEF ExistsBijection, Bijection, Injection
<1>3. l \in [1..n -> S] /\ IsInjective(l)
  BY <1>1, <1>2 DEF SetToSeq
<1>4. l \in Seq(S) /\ Len(l) = n
  BY <1>1, <1>3
<1> QED BY <1>1, <1>3, <1>4, InjectiveIsOnto

LEMMA GreatestExists ==
  ASSUME NEW S, S \subseteq Nat, IsFiniteSet(S), S # {}
  PROVE  \E m \in S : \A x \in S : x <= m
<1> DEFINE I == {n \in Nat : \A T \in SUBSET Nat :
                   IsFiniteSet(T) /\ Cardinality(T) = n /\ T # {} =>
                     \E m \in T : \A x \in T : x <= m}
<1>1. 0 \in I
  BY FS_EmptySet
<1>2. ASSUME NEW n \in Nat, n \in I PROVE n + 1 \in I
  <2>1. ASSUME NEW T \in SUBSET Nat, IsFiniteSet(T), Cardinality(T) = n + 1, T # {}
        PROVE  \E m \in T : \A x \in T : x <= m
    <3>1. PICK y \in T : TRUE
      BY <2>1
    <3>2. PICK R : R = T \ {y}
      OBVIOUS
    <3>3. R \in SUBSET Nat /\ IsFiniteSet(R) /\ Cardinality(R) = n
      <4>1. IsFiniteSet(R) /\ Cardinality(R) = Cardinality(T) - 1
        BY <2>1, <3>1, <3>2, FS_RemoveElement
      <4> QED BY <2>1, <3>2, <4>1
    <3>4. CASE R = {}
      <4>1. \A x \in T : x = y
        BY <3>2, <3>4
      <4> QED BY <2>1, <3>1, <4>1
    <3>5. CASE R # {}
      <4>1. PICK m \in R : \A x \in R : x <= m
        BY <1>2, <3>3, <3>5
      <4>2. m \in T /\ m \in Nat /\ y \in Nat
        BY <2>1, <3>1, <3>2, <4>1
      <4>3. \A x \in T : x = y \/ x \in R
        BY <3>2
      <4>4. CASE m <= y
        <5>1. \A x \in T : x <= y
          BY <2>1, <4>1, <4>2, <4>3, <4>4
        <5> QED BY <3>1, <5>1
      <4>5. CASE y <= m
        <5>1. \A x \in T : x <= m
          BY <4>1, <4>2, <4>3, <4>5
        <5> QED BY <4>2, <5>1
      <4> QED BY <4>2, <4>4, <4>5
    <3> QED BY <3>4, <3>5
  <2> QED BY <2>1
<1>3. Nat \subseteq I
  <2> HIDE DEF I
  <2> QED BY <1>1, <1>2, NatSetInduction
<1>4. Cardinality(S) \in Nat
  BY FS_CardinalityType
<1> QED BY <1>3, <1>4

Ascends(list, n) == \A i, j \in 1..n : i < j => list[i] < list[j]

LEMMA AscendingExists ==
  ASSUME NEW S, S \subseteq Nat, IsFiniteSet(S)
  PROVE  \E list \in [1..Cardinality(S) -> S] : Ascends(list, Cardinality(S))
<1> DEFINE I == {n \in Nat : \A T \in SUBSET Nat : IsFiniteSet(T) /\ Cardinality(T) = n =>
                   \E list \in [1..n -> T] : Ascends(list, n)}
<1>1. 0 \in I
  <2>1. ASSUME NEW T PROVE \E list \in [1..0 -> T] : Ascends(list, 0)
    <3>1. 1..0 = {} /\ [i \in {} |-> 0] \in [{} -> T]
      OBVIOUS
    <3>2. Ascends([i \in {} |-> 0], 0)
      BY <3>1 DEF Ascends
    <3> QED BY <3>1, <3>2
  <2> QED BY <2>1
<1>2. ASSUME NEW n \in Nat, n \in I PROVE n + 1 \in I
  <2>1. ASSUME NEW T \in SUBSET Nat, IsFiniteSet(T), Cardinality(T) = n + 1
        PROVE  \E list \in [1..(n + 1) -> T] : Ascends(list, n + 1)
    <3>1. T # {}
      BY <2>1, FS_EmptySet
    <3>2. PICK m \in T : \A x \in T : x <= m
      BY <2>1, <3>1, GreatestExists
    <3>3. PICK R : R = T \ {m}
      OBVIOUS
    <3>4. R \in SUBSET Nat /\ IsFiniteSet(R) /\ Cardinality(R) = n
      <4>1. IsFiniteSet(R) /\ Cardinality(R) = Cardinality(T) - 1
        BY <2>1, <3>2, <3>3, FS_RemoveElement
      <4> QED BY <2>1, <3>3, <4>1
    <3>5. PICK front \in [1..n -> R] : Ascends(front, n)
      BY <1>2, <3>4
    <3>6. PICK list : list = [i \in 1..(n + 1) |-> IF i = n + 1 THEN m ELSE front[i]]
      OBVIOUS
    <3>7. list \in [1..(n + 1) -> T]
      <4>1. \A i \in 1..(n + 1) : i = n + 1 \/ i \in 1..n
        OBVIOUS
      <4> QED BY <3>2, <3>3, <3>5, <3>6, <4>1
    <3>8. ASSUME NEW i \in 1..(n + 1), NEW j \in 1..(n + 1), i < j PROVE list[i] < list[j]
      <4>1. i \in 1..n /\ (j = n + 1 \/ j \in 1..n)
        BY <3>8
      <4>2. list[i] = front[i] /\ front[i] \in R
        BY <3>5, <3>6, <4>1
      <4>3. CASE j = n + 1
        <5>1. list[j] = m /\ front[i] <= m /\ front[i] # m /\ front[i] \in Nat /\ m \in Nat
          BY <2>1, <3>2, <3>3, <3>6, <4>2, <4>3
        <5> QED BY <4>2, <5>1
      <4>4. CASE j \in 1..n
        <5>1. list[j] = front[j]
          BY <3>6, <4>4
        <5> QED BY <3>5, <3>8, <4>1, <4>2, <4>4, <5>1 DEF Ascends
      <4> QED BY <4>1, <4>3, <4>4
    <3>9. Ascends(list, n + 1)
      BY <3>8 DEF Ascends
    <3> QED BY <3>7, <3>9
  <2> QED BY <2>1
<1>3. Nat \subseteq I
  <2> HIDE DEF I
  <2> QED BY <1>1, <1>2, NatSetInduction
<1>4. PICK n \in Nat : n = Cardinality(S)
  BY FS_CardinalityType
<1> HIDE DEF I
<1>5. n \in I
  BY <1>3
<1> USE DEF I
<1> QED BY <1>4, <1>5

\* The list of clients that has been read
LEMMA AscendingHasAll ==
  ASSUME NEW S, S \subseteq Nat, IsFiniteSet(S), NEW l, l = Ascending(S)
  PROVE  l \in Seq(S) /\ ToSet(l) = S
<1>1. PICK n \in Nat : n = Cardinality(S)
  BY FS_CardinalityType
<1>2. PICK k \in [1..n -> S] : Ascends(k, n)
  BY <1>1, AscendingExists
<1>3. DOMAIN k = 1..n /\ \A i, j \in DOMAIN k : i < j => k[i] < k[j]
  BY <1>2 DEF Ascends
<1>4. \E list \in [1..n -> S] : \A i, j \in DOMAIN list : i < j => list[i] < list[j]
  BY <1>2, <1>3
<1>5. l = CHOOSE list \in [1..n -> S] : \A i, j \in DOMAIN list : i < j => list[i] < list[j]
  BY <1>1 DEF Ascending
<1>6. l \in [1..n -> S] /\ \A i, j \in DOMAIN l : i < j => l[i] < l[j]
  BY <1>4, <1>5
<1>7. IsInjective(l)
  <2>1. ASSUME NEW i \in 1..n, NEW j \in 1..n, l[i] = l[j] PROVE i = j
    <3>1. l[i] \in Nat /\ l[j] \in Nat
      BY <1>6
    <3>2. i < j => l[i] < l[j]
      BY <1>6
    <3>3. j < i => l[j] < l[i]
      BY <1>6
    <3> QED BY <2>1, <3>1, <3>2, <3>3
  <2> QED BY <1>6, <2>1 DEF IsInjective
<1>8. \A x \in S : \E i \in 1..n : l[i] = x
  BY <1>1, <1>6, <1>7, InjectiveIsOnto
<1>9. l \in Seq(S)
  BY <1>6
<1>10. ToSet(l) = S
  BY <1>6, <1>8 DEF ToSet
<1> QED BY <1>9, <1>10

-----------------------------------------------------------------------------
(* What is supported                                                       *)

Tables == PropertyTables \cup {TypeAtoms, StateAtoms, ActionAtoms}
Fits(table, parsed) == \A f \in DOMAIN table : \A a \in table[f] \cap DOMAIN parsed : parsed[a] = f

\* An atom is parsed as the flag that it was published for, or not at all.
LEMMA TablesFit ==
  ASSUME NEW table \in Tables, NEW parsed \in FlagTables
  PROVE  Fits(table, parsed)
<1>1. ASSUME NEW F \in FlagTables PROVE Fits(RootAtoms, F)
  BY DEF FlagTables, Fits, RootAtoms, RootFlag, WindowFlag, MoreWindowFlag, ExtensionFlag,
     TypeFlag, StateFlag, ActionFlag
<1>2. ASSUME NEW F \in FlagTables PROVE Fits(WindowAtoms, F)
  BY DEF FlagTables, Fits, WindowAtoms, RootFlag, WindowFlag, MoreWindowFlag, ExtensionFlag,
     TypeFlag, StateFlag, ActionFlag
<1>3. ASSUME NEW F \in FlagTables PROVE Fits(MoreWindowAtoms, F)
  BY DEF FlagTables, Fits, MoreWindowAtoms, RootFlag, WindowFlag, MoreWindowFlag, ExtensionFlag,
     TypeFlag, StateFlag, ActionFlag
<1>4. ASSUME NEW F \in FlagTables PROVE Fits(ExtensionAtoms, F)
  BY DEF FlagTables, Fits, ExtensionAtoms, RootFlag, WindowFlag, MoreWindowFlag, ExtensionFlag,
     TypeFlag, StateFlag, ActionFlag
<1>5. ASSUME NEW F \in FlagTables PROVE Fits(TypeAtoms, F)
  BY DEF FlagTables, Fits, TypeAtoms, RootFlag, WindowFlag, MoreWindowFlag, ExtensionFlag,
     TypeFlag, StateFlag, ActionFlag
<1>6. ASSUME NEW F \in FlagTables PROVE Fits(StateAtoms, F)
  BY DEF FlagTables, Fits, StateAtoms, RootFlag, WindowFlag, MoreWindowFlag, ExtensionFlag,
     TypeFlag, StateFlag, ActionFlag
<1>7. ASSUME NEW F \in FlagTables PROVE Fits(ActionAtoms, F)
  BY DEF FlagTables, Fits, ActionAtoms, RootFlag, WindowFlag, MoreWindowFlag, ExtensionFlag,
     TypeFlag, StateFlag, ActionFlag
<1> QED BY <1>1, <1>2, <1>3, <1>4, <1>5, <1>6, <1>7 DEF Tables, PropertyTables

\* Every flag is published as an atom at least that is known.
LEMMA FlagsAreKnown ==
  ASSUME NEW table \in Tables, NEW f \in DOMAIN table
  PROVE  \E a \in table[f] : \E parsed \in FlagTables : a \in DOMAIN parsed
<1>1. \A g \in DOMAIN RootAtoms : \E a \in RootAtoms[g] : a \in DOMAIN RootFlag
  BY DEF RootAtoms, RootFlag
<1>2. \A g \in DOMAIN WindowAtoms : \E a \in WindowAtoms[g] : a \in DOMAIN WindowFlag
  BY DEF WindowAtoms, WindowFlag
<1>3. \A g \in DOMAIN MoreWindowAtoms : \E a \in MoreWindowAtoms[g] : a \in DOMAIN MoreWindowFlag
  BY DEF MoreWindowAtoms, MoreWindowFlag
<1>4. \A g \in DOMAIN ExtensionAtoms : \E a \in ExtensionAtoms[g] : a \in DOMAIN ExtensionFlag
  BY DEF ExtensionAtoms, ExtensionFlag
<1>5. \A g \in DOMAIN TypeAtoms : \E a \in TypeAtoms[g] : a \in DOMAIN TypeFlag
  BY DEF TypeAtoms, TypeFlag
<1>6. \A g \in DOMAIN StateAtoms : \E a \in StateAtoms[g] : a \in DOMAIN StateFlag
  BY DEF StateAtoms, StateFlag
<1>7. \A g \in DOMAIN ActionAtoms : \E a \in ActionAtoms[g] : a \in DOMAIN ActionFlag
  BY DEF ActionAtoms, ActionFlag
<1>8. /\ table \in {RootAtoms, WindowAtoms, MoreWindowAtoms, ExtensionAtoms, TypeAtoms, StateAtoms,
                  ActionAtoms}
      /\ {RootFlag, WindowFlag, MoreWindowFlag, ExtensionFlag, TypeFlag, StateFlag, ActionFlag}
           \subseteq FlagTables
  BY DEF Tables, PropertyTables, FlagTables
<1> QED BY <1>1, <1>2, <1>3, <1>4, <1>5, <1>6, <1>7, <1>8

BaseFlags == {"Supported", "SupportingWMCheck"}
BaseAtoms == {"SUPPORTED", "SUPPORTING_WM_CHECK"}

LEMMA BaseIsKnown ==
  /\ \A parsed \in FlagTables : \A a \in BaseAtoms \cap DOMAIN parsed : parsed[a] \in BaseFlags
  /\ \A f \in BaseFlags : \E a \in BaseAtoms : \E parsed \in FlagTables :
       a \in DOMAIN parsed /\ parsed[a] = f
<1>1. \A parsed \in FlagTables : \A a \in BaseAtoms \cap DOMAIN parsed : parsed[a] \in BaseFlags
  BY DEF FlagTables, BaseAtoms, BaseFlags, RootFlag, WindowFlag, MoreWindowFlag, ExtensionFlag,
     TypeFlag, StateFlag, ActionFlag
<1>2. /\ "SUPPORTED" \in DOMAIN RootFlag /\ RootFlag["SUPPORTED"] = "Supported"
      /\ "SUPPORTING_WM_CHECK" \in DOMAIN RootFlag
      /\ RootFlag["SUPPORTING_WM_CHECK"] = "SupportingWMCheck"
  BY DEF RootFlag
<1>3. RootFlag \in FlagTables
  BY DEF FlagTables
<1> QED BY <1>1, <1>2, <1>3 DEF BaseAtoms, BaseFlags

\* The tables whose atoms are published for flags
Shown(flags) ==
  {table \in Tables : \/ table \in PropertyTables
                      \/ table = TypeAtoms /\ "WMWindowType" \in flags
                      \/ table = StateAtoms /\ "WMState" \in flags
                      \/ table = ActionAtoms /\ "WM2AllowedActions" \in flags}

LEMMA PublishedAre ==
  ASSUME NEW flags
  PROVE  Published(flags) = BaseAtoms \cup UNION {AtomsOf(table, flags) : table \in Shown(flags)}
<1> DEFINE T == IF "WMWindowType" \in flags THEN AtomsOf(TypeAtoms, flags) ELSE {}
           S == IF "WMState" \in flags THEN AtomsOf(StateAtoms, flags) ELSE {}
           A == IF "WM2AllowedActions" \in flags THEN AtomsOf(ActionAtoms, flags) ELSE {}
           P == UNION {AtomsOf(table, flags) : table \in PropertyTables}
<1>1. Published(flags) = {"SUPPORTED", "SUPPORTING_WM_CHECK"} \cup P \cup T \cup S \cup A
  BY DEF Published
<1>2. ASSUME NEW a, a \in P \cup T \cup S \cup A
      PROVE  \E table \in Shown(flags) : a \in AtomsOf(table, flags)
  <2> HIDE DEF BaseAtoms
  <2>1. CASE a \in P
    <3>1. PICK table \in PropertyTables : a \in AtomsOf(table, flags)
      BY <2>1
    <3> QED BY <3>1 DEF Shown, Tables
  <2>2. CASE a \in T
    BY <2>2 DEF Shown, Tables
  <2>3. CASE a \in S
    BY <2>3 DEF Shown, Tables
  <2>4. CASE a \in A
    BY <2>4 DEF Shown, Tables
  <2> QED BY <1>2, <2>1, <2>2, <2>3, <2>4
<1>3. ASSUME NEW table \in Shown(flags), NEW a \in AtomsOf(table, flags)
      PROVE  a \in P \cup T \cup S \cup A
  <2>1. CASE table \in PropertyTables
    BY <2>1
  <2>2. CASE table = TypeAtoms /\ "WMWindowType" \in flags
    BY <2>2
  <2>3. CASE table = StateAtoms /\ "WMState" \in flags
    BY <2>3
  <2>4. CASE table = ActionAtoms /\ "WM2AllowedActions" \in flags
    BY <2>4
  <2> QED BY <2>1, <2>2, <2>3, <2>4 DEF Shown
<1> HIDE DEF P, T, S, A
<1> QED BY <1>1, <1>2, <1>3 DEF BaseAtoms

LEMMA VisibleAre ==
  ASSUME NEW flags, BaseFlags \subseteq flags
  PROVE  Visible(flags) =
           BaseFlags \cup {f \in flags : \E table \in Shown(flags) : f \in DOMAIN table}
<1>1. ASSUME NEW f
      PROVE  (\E table \in Shown(flags) : f \in DOMAIN table)
               <=> \/ \E table \in PropertyTables : f \in DOMAIN table
                   \/ f \in DOMAIN TypeAtoms /\ "WMWindowType" \in flags
                   \/ f \in DOMAIN StateAtoms /\ "WMState" \in flags
                   \/ f \in DOMAIN ActionAtoms /\ "WM2AllowedActions" \in flags
  BY DEF Shown, Tables
<1>2. \A f : f \in Visible(flags) <=>
          f \in flags /\ (f \in BaseFlags \/ \E table \in Shown(flags) : f \in DOMAIN table)
  BY <1>1 DEF Visible, BaseFlags
<1> QED BY <1>2

\* What a client takes the atoms for is what it can know.
LEMMA SupportedIsParsed ==
  ASSUME NEW flags, BaseFlags \subseteq flags
  PROVE  Parsed(Published(flags)) = Visible(flags)
<1>1. ASSUME NEW f \in Parsed(Published(flags)) PROVE f \in Visible(flags)
  <2>1. PICK parsed \in FlagTables, a \in Published(flags) : a \in DOMAIN parsed /\ f = parsed[a]
    BY <1>1 DEF Parsed
  <2>2. CASE a \in BaseAtoms
    BY <2>1, <2>2, BaseIsKnown, VisibleAre
  <2>3. CASE \E table \in Shown(flags) : a \in AtomsOf(table, flags)
    <3>1. PICK table \in Shown(flags) : a \in AtomsOf(table, flags)
      BY <2>3
    <3>2. PICK g \in flags \cap DOMAIN table : a \in table[g]
      BY <3>1 DEF AtomsOf
    <3>3. Fits(table, parsed)
      BY TablesFit DEF Shown
    <3>4. f = g
      BY <2>1, <3>2, <3>3 DEF Fits
    <3> QED BY <3>2, <3>4, VisibleAre
  <2> QED BY <2>1, <2>2, <2>3, PublishedAre
<1>2. ASSUME NEW f \in Visible(flags) PROVE f \in Parsed(Published(flags))
  <2>1. CASE f \in BaseFlags
    <3>1. PICK a \in BaseAtoms, parsed \in FlagTables : a \in DOMAIN parsed /\ parsed[a] = f
      BY <2>1, BaseIsKnown
    <3>2. a \in Published(flags)
      BY PublishedAre
    <3> QED BY <3>1, <3>2 DEF Parsed
  <2>2. CASE f \in flags /\ \E table \in Shown(flags) : f \in DOMAIN table
    <3>1. PICK table \in Shown(flags) : f \in DOMAIN table
      BY <2>2
    <3>2. PICK a \in table[f], parsed \in FlagTables : a \in DOMAIN parsed
      BY <3>1, FlagsAreKnown DEF Shown
    <3>3. a \in AtomsOf(table, flags)
      BY <2>2, <3>1, <3>2 DEF AtomsOf
    <3>4. a \in Published(flags)
      BY <3>3, PublishedAre
    <3>5. parsed[a] = f
      BY <3>1, <3>2, TablesFit DEF Shown, Fits
    <3> QED BY <3>2, <3>4, <3>5 DEF Parsed
  <2> QED BY <2>1, <2>2, VisibleAre
<1> QED BY <1>1, <1>2

-----------------------------------------------------------------------------
(* What an object has that has read a property                             *)

Shared == {"DesktopNames", "WM2DesktopLayout"}
Looked == Properties \ {"SupportName"}

FieldOf(p) ==
  CASE p = "Supported" -> "supported"
    [] p = "ClientList" -> "clients"
    [] p = "ClientListStacking" -> "stacking"
    [] p = "NumberOfDesktops" -> "number_of_desktops"
    [] p = "DesktopGeometry" -> "geometry"
    [] p = "DesktopViewport" -> "viewport"
    [] p = "CurrentDesktop" -> "current_desktop"
    [] p = "DesktopNames" -> "desktop_names"
    [] p = "ActiveWindow" -> "active"
    [] p = "WorkArea" -> "workarea"
    [] p = "SupportingWMCheck" -> "supportwindow"
    [] p = "VirtualRoots" -> "virtual_roots"
    [] p = "WM2DesktopLayout" -> "layout"
    [] p = "WM2ShowingDesktop" -> "showing_desktop"

\* What the field v of an object is that has read the reply r for p
Held(p, v, r) ==
  CASE p = "Supported" -> v = IF r.type = "ATOM" THEN Parsed(r.data) ELSE {}
    [] p = "ClientList" -> ToSet(v) = ToSet(GetArrayReply(r, "WINDOW"))
    [] p = "ClientListStacking" -> v = GetArrayReply(r, "WINDOW")
    [] p = "NumberOfDesktops" -> v = GetValueReply(r, "CARDINAL", 0)
    [] p = "DesktopGeometry" ->
         v = IF Len(GetArrayReply(r, "CARDINAL")) = 2 THEN GetArrayReply(r, "CARDINAL")
             ELSE RootSize
    [] p = "DesktopViewport" ->
         \A d \in 1..(Len(r.data) \div 2) : At(v, d, NoPoint) = At(Tuples(r.data, 2), d, NoPoint)
    [] p = "CurrentDesktop" -> v = Unsigned(GetValueReply(r, "CARDINAL", 0) + 1)
    [] p = "DesktopNames" ->
         \A d \in Desktops : At(v, d, NoName) = At(GetStringlistReply(r, "UTF8"), d, NoName)
    [] p = "ActiveWindow" -> v = GetValueReply(r, "WINDOW", 0)
    [] p = "WorkArea" -> v \in {<<>>, Tuples(r.data, 4)}
    [] p = "SupportingWMCheck" -> v = GetValueReply(r, "WINDOW", 0)
    [] p = "WM2DesktopLayout" -> v = ReadDesktopLayout(NewFields(client), r).layout
    [] p = "WM2ShowingDesktop" -> v = (GetValueReply(r, "CARDINAL", 0) # 0)
    [] OTHER -> TRUE

\* How the window manager publishes the field v of its object
Encodes(p, r, v) ==
  CASE p = "Supported" -> r = Property("ATOM", Published(v)) /\ BaseFlags \subseteq v
    [] p = "ClientList" -> r = Property("WINDOW", v) /\ v \in Seq(Windows)
    [] p = "ClientListStacking" -> r = Property("WINDOW", v)
    [] p = "NumberOfDesktops" -> r = Property("CARDINAL", <<v>>)
    [] p = "DesktopGeometry" -> r = Property("CARDINAL", v) /\ v \in Pairs
    [] p = "DesktopViewport" ->
         /\ r.type = "CARDINAL" /\ r.data \in Seq(Nat)
         /\ \A d \in 1..(Len(r.data) \div 2) :
              At(Tuples(r.data, 2), d, NoPoint) = At(v, d, NoPoint)
    [] p = "CurrentDesktop" -> r = Property("CARDINAL", <<Unsigned(v - 1)>>) /\ v \in 0..MaxDesktops
    [] p = "ActiveWindow" -> r = Property("WINDOW", <<v>>)
    [] p = "WorkArea" -> r.type = "CARDINAL"
    [] p = "SupportingWMCheck" -> r = Property("WINDOW", <<v>>)
    [] p = "WM2ShowingDesktop" ->
         r = Property("CARDINAL", <<IF v THEN 1 ELSE 0>>) /\ v \in BOOLEAN
    [] OTHER -> TRUE

LEMMA NumberReply ==
  ASSUME NEW type, NEW v, NEW default
  PROVE  /\ GetValueReply(Property(type, <<v>>), type, default) = v
         /\ GetArrayReply(Property(type, v), type) = v
BY DEF GetValueReply, GetArrayReply, Property

\* Reading a property
LEMMA ReadHeld ==
  ASSUME NEW f, IsObject(f), NEW p \in Looked, NEW r, f.viewport \in Seq(Pairs),
         NEW v, r = NoProperty \/ p \in Shared \/ Encodes(p, r, v),
         NEW new, new = Read(p, f, r)[FieldOf(p)]
  PROVE  Held(p, new, r)
<1> USE DEF FieldNames
<1>1. CASE p = "Supported"
  BY <1>1 DEF Held, Read, FieldOf, IsObject
<1>2. CASE p = "ClientList"
  <2>1. PICK l : l = GetArrayReply(r, "WINDOW")
    OBVIOUS
  <2>2. new = Ascending(ToSet(l))
    BY <1>2, <2>1 DEF Read, ReadClientList, FieldOf, IsObject
  <2>3. ToSet(l) \subseteq Windows
    <3>1. CASE r = NoProperty
      <4>1. l = <<>>
        BY <2>1, <3>1 DEF NoProperty, Property, GetArrayReply
      <4> QED BY <4>1 DEF ToSet
    <3>2. CASE Encodes(p, r, v)
      <4>1. r = Property("WINDOW", v) /\ v \in Seq(Windows)
        BY <1>2, <3>2 DEF Encodes
      <4>2. l = v
        BY <2>1, <4>1, NumberReply
      <4> QED BY <4>1, <4>2 DEF ToSet
    <3> QED BY <1>2, <3>1, <3>2 DEF Shared
  <2>4. ToSet(l) \subseteq Nat /\ IsFiniteSet(ToSet(l))
    BY <2>3, NETRootInfoAssumption, FS_Subset
  <2>5. ToSet(new) = ToSet(l)
    BY <2>2, <2>4, AscendingHasAll
  <2> QED BY <1>2, <2>1, <2>5 DEF Held
<1>3. CASE p = "ClientListStacking"
  BY <1>3 DEF Held, Read, FieldOf, IsObject
<1>4. CASE p = "NumberOfDesktops"
  BY <1>4 DEF Held, Read, FieldOf, IsObject
<1>5. CASE p = "DesktopGeometry"
  BY <1>5 DEF Held, Read, ReadDesktopGeometry, FieldOf, IsObject
<1>6. CASE p = "DesktopViewport"
  <2>1. PICK points : points = Tuples(GetArrayReply(r, "CARDINAL"), 2)
    OBVIOUS
  <2>2. CASE r = NoProperty
    <3>1. Len(r.data) \div 2 = 0
      BY <2>2 DEF NoProperty, Property
    <3>2. 1..0 = {}
      OBVIOUS
    <3> QED BY <1>6, <3>1, <3>2 DEF Held
  <2>3. CASE Encodes(p, r, v)
    <3>1. r.type = "CARDINAL" /\ r.data \in Seq(Nat)
      BY <1>6, <2>3 DEF Encodes
    <3>2. points = Tuples(r.data, 2) /\ points \in Seq(Pairs)
      <4>1. GetArrayReply(r, "CARDINAL") = r.data
        BY <3>1 DEF GetArrayReply
      <4> QED BY <2>1, <3>1, <4>1, TuplesArePairs
    <3>3. PICK l \in Nat, m \in Nat : l = Len(points) /\ m = Len(f.viewport)
      BY <3>2
    <3>4. PICK n \in Nat : n = (IF l > m THEN l ELSE m) /\ l <= n
      <4>1. (IF l > m THEN l ELSE m) \in Nat /\ l <= (IF l > m THEN l ELSE m)
        OBVIOUS
      <4> QED BY <4>1
    <3>5. new = [i \in 1..n |-> At(points, i, NoPoint)]
      <4>1. new = [i \in 1..(IF l > m THEN l ELSE m) |-> At(points, i, NoPoint)]
        BY <1>6, <2>1, <3>3 DEF Read, ReadDesktopViewport, FieldOf, IsObject
      <4> QED BY <3>4, <4>1
    <3>6. Len(r.data) \div 2 = l
      <4>0. PICK x \in Nat : x = Len(r.data)
        BY <3>1, LenProperties
      <4>1. PICK k \in Nat : k = Len(r.data) \div 2
        <5>1. x \div 2 \in Nat
          OBVIOUS
        <5> QED BY <4>0, <5>1
      <4>2. points = [i \in 1..k |-> SubSeq(r.data, (i - 1) * 2 + 1, i * 2)]
        <5>1. Tuples(r.data, 2) =
                [i \in 1..(Len(r.data) \div 2) |-> SubSeq(r.data, (i - 1) * 2 + 1, i * 2)]
          BY DEF Tuples
        <5> QED BY <3>2, <4>1, <5>1
      <4>3. Len(points) = k
        BY <4>2
      <4> QED BY <3>3, <4>1, <4>3
    <3>7. \A d \in 1..l : At(new, d, NoPoint) = At(points, d, NoPoint)
      <4>1. TAKE d \in 1..l
      <4>2. d \in 1..n
        BY <3>4
      <4> QED BY <3>5, <4>2 DEF At
    <3> QED BY <1>6, <3>2, <3>6, <3>7 DEF Held
  <2> QED BY <1>6, <2>2, <2>3 DEF Shared
<1>7. CASE p = "CurrentDesktop"
  BY <1>7 DEF Held, Read, ReadCurrentDesktop, FieldOf, IsObject
<1>8. CASE p = "DesktopNames"
  BY <1>8 DEF Held, Read, FieldOf, IsObject
<1>9. CASE p = "ActiveWindow"
  BY <1>9 DEF Held, Read, FieldOf, IsObject
<1>10. CASE p = "WorkArea"
  <2>1. GetArrayReply(r, "CARDINAL") = r.data
    <3>1. r.type = "CARDINAL" \/ r.data = <<>>
      BY <1>10 DEF Shared, Encodes, NoProperty, Property
    <3> QED BY <3>1 DEF GetArrayReply
  <2>2. new \in {<<>>, Tuples(r.data, 4)}
    BY <1>10, <2>1 DEF Read, ReadWorkArea, FieldOf, IsObject
  <2> QED BY <1>10, <2>2 DEF Held
<1>11. CASE p = "SupportingWMCheck"
  BY <1>11 DEF Held, Read, FieldOf, IsObject
<1>12. CASE p = "VirtualRoots"
  BY <1>12 DEF Held
<1>13. CASE p = "WM2DesktopLayout"
  BY <1>13 DEF Held, Read, ReadDesktopLayout, FieldOf, IsObject, NewFields
<1>14. CASE p = "WM2ShowingDesktop"
  BY <1>14 DEF Held, Read, FieldOf, IsObject
<1> QED BY <1>1, <1>2, <1>3, <1>4, <1>5, <1>6, <1>7, <1>8, <1>9, <1>10, <1>11, <1>12, <1>13,
           <1>14, PropertiesAre DEF Looked

\* A reply changes the field of its property only.
LEMMA ReadElsewhere ==
  ASSUME NEW f, IsObject(f), NEW p \in Properties, NEW r, NEW q \in Looked, p # q
  PROVE  Read(p, f, r)[FieldOf(q)] = f[FieldOf(q)]
<1> DEFINE new == Read(p, f, r)
<1>0. FieldOf(q) \in FieldNames
  BY PropertiesAre DEF Looked, FieldOf, FieldNames
<1>1. CASE p = "Supported"
  <2>1. \E v : new = [f EXCEPT !["supported"] = v]
    BY <1>1 DEF Read
  <2>2. "supported" \in FieldNames /\ "supported" # FieldOf(q)
    BY <1>1, PropertiesAre DEF Looked, FieldOf, FieldNames
  <2> QED BY <1>0, <2>1, <2>2 DEF IsObject
<1>2. CASE p = "ClientListStacking"
  <2>1. \E v : new = [f EXCEPT !["stacking"] = v]
    BY <1>2 DEF Read
  <2>2. "stacking" \in FieldNames /\ "stacking" # FieldOf(q)
    BY <1>2, PropertiesAre DEF Looked, FieldOf, FieldNames
  <2> QED BY <1>0, <2>1, <2>2 DEF IsObject
<1>3. CASE p = "NumberOfDesktops"
  <2>1. \E v : new = [f EXCEPT !["number_of_desktops"] = v]
    BY <1>3 DEF Read
  <2>2. "number_of_desktops" \in FieldNames /\ "number_of_desktops" # FieldOf(q)
    BY <1>3, PropertiesAre DEF Looked, FieldOf, FieldNames
  <2> QED BY <1>0, <2>1, <2>2 DEF IsObject
<1>4. CASE p = "DesktopGeometry"
  <2>1. \E v : new = [f EXCEPT !["geometry"] = v]
    BY <1>4 DEF Read, ReadDesktopGeometry
  <2>2. "geometry" \in FieldNames /\ "geometry" # FieldOf(q)
    BY <1>4, PropertiesAre DEF Looked, FieldOf, FieldNames
  <2> QED BY <1>0, <2>1, <2>2 DEF IsObject
<1>5. CASE p = "DesktopViewport"
  <2>1. \E v : new = [f EXCEPT !["viewport"] = v]
    BY <1>5 DEF Read, ReadDesktopViewport
  <2>2. "viewport" \in FieldNames /\ "viewport" # FieldOf(q)
    BY <1>5, PropertiesAre DEF Looked, FieldOf, FieldNames
  <2> QED BY <1>0, <2>1, <2>2 DEF IsObject
<1>6. CASE p = "CurrentDesktop"
  <2>1. \E v : new = [f EXCEPT !["current_desktop"] = v]
    BY <1>6 DEF Read, ReadCurrentDesktop
  <2>2. "current_desktop" \in FieldNames /\ "current_desktop" # FieldOf(q)
    BY <1>6, PropertiesAre DEF Looked, FieldOf, FieldNames
  <2> QED BY <1>0, <2>1, <2>2 DEF IsObject
<1>7. CASE p = "DesktopNames"
  <2>1. \E v : new = [f EXCEPT !["desktop_names"] = v]
    BY <1>7 DEF Read
  <2>2. "desktop_names" \in FieldNames /\ "desktop_names" # FieldOf(q)
    BY <1>7, PropertiesAre DEF Looked, FieldOf, FieldNames
  <2> QED BY <1>0, <2>1, <2>2 DEF IsObject
<1>8. CASE p = "ActiveWindow"
  <2>1. \E v : new = [f EXCEPT !["active"] = v]
    BY <1>8 DEF Read
  <2>2. "active" \in FieldNames /\ "active" # FieldOf(q)
    BY <1>8, PropertiesAre DEF Looked, FieldOf, FieldNames
  <2> QED BY <1>0, <2>1, <2>2 DEF IsObject
<1>9. CASE p = "WorkArea"
  <2>1. \E v : new = [f EXCEPT !["workarea"] = v]
    BY <1>9 DEF Read, ReadWorkArea
  <2>2. "workarea" \in FieldNames /\ "workarea" # FieldOf(q)
    BY <1>9, PropertiesAre DEF Looked, FieldOf, FieldNames
  <2> QED BY <1>0, <2>1, <2>2 DEF IsObject
<1>10. CASE p = "VirtualRoots"
  <2>1. \E v : new = [f EXCEPT !["virtual_roots"] = v]
    BY <1>10 DEF Read, ReadVirtualRoots
  <2>2. "virtual_roots" \in FieldNames /\ "virtual_roots" # FieldOf(q)
    BY <1>10, PropertiesAre DEF Looked, FieldOf, FieldNames
  <2> QED BY <1>0, <2>1, <2>2 DEF IsObject
<1>11. CASE p = "WM2DesktopLayout"
  <2>1. \E v : new = [f EXCEPT !["layout"] = v]
    BY <1>11 DEF Read, ReadDesktopLayout
  <2>2. "layout" \in FieldNames /\ "layout" # FieldOf(q)
    BY <1>11, PropertiesAre DEF Looked, FieldOf, FieldNames
  <2> QED BY <1>0, <2>1, <2>2 DEF IsObject
<1>12. CASE p = "WM2ShowingDesktop"
  <2>1. \E v : new = [f EXCEPT !["showing_desktop"] = v]
    BY <1>12 DEF Read
  <2>2. "showing_desktop" \in FieldNames /\ "showing_desktop" # FieldOf(q)
    BY <1>12, PropertiesAre DEF Looked, FieldOf, FieldNames
  <2> QED BY <1>0, <2>1, <2>2 DEF IsObject
<1>13. CASE p = "SupportName"
  <2>1. \E v : new = [f EXCEPT !["name"] = v]
    BY <1>13 DEF Read
  <2>2. "name" \in FieldNames /\ "name" # FieldOf(q)
    BY <1>13, PropertiesAre DEF Looked, FieldOf, FieldNames
  <2> QED BY <1>0, <2>1, <2>2 DEF IsObject
<1>14. CASE p = "ClientList"
  <2>1. \E u, v : new = [f EXCEPT !["clients"] = u, !["clients_count"] = v]
    BY <1>14 DEF Read, ReadClientList
  <2>2. /\ "clients" \in FieldNames /\ "clients" # FieldOf(q)
        /\ "clients_count" \in FieldNames /\ "clients_count" # FieldOf(q)
    BY <1>14, PropertiesAre DEF Looked, FieldOf, FieldNames
  <2> QED BY <1>0, <2>1, <2>2 DEF IsObject
<1>15. CASE p = "SupportingWMCheck"
  <2>1. \E u, v : new = [f EXCEPT !["supportwindow"] = u, !["name"] = v]
    BY <1>15 DEF Read
  <2>2. /\ "supportwindow" \in FieldNames /\ "supportwindow" # FieldOf(q)
        /\ "name" \in FieldNames /\ "name" # FieldOf(q)
    BY <1>15, PropertiesAre DEF Looked, FieldOf, FieldNames
  <2> QED BY <1>0, <2>1, <2>2 DEF IsObject
<1> QED BY <1>1, <1>2, <1>3, <1>4, <1>5, <1>6, <1>7, <1>8, <1>9, <1>10, <1>11, <1>12, <1>13, <1>14,
           <1>15, PropertiesAre

LEMMA UnsignedIs ==
  /\ \A n \in 0..(Word - 1) : Unsigned(n) = n
  /\ Unsigned(-1) = Word - 1 /\ Unsigned(Word) = 0
BY WordAssumption DEF Unsigned

LEMMA DesktopUnsigned ==
  ASSUME NEW d \in 0..MaxDesktops
  PROVE  Unsigned(Unsigned(d - 1) + 1) = d
<1>1. Word \in Nat /\ Word > 1 /\ MaxDesktops \in Nat /\ MaxDesktops < Word
  BY WordAssumption, NETRootInfoAssumption
<1>2. CASE d = 0
  <2>1. d - 1 = -1 /\ Word - 1 + 1 = Word
    BY <1>1, <1>2
  <2> QED BY <1>2, <2>1, UnsignedIs
<1>3. CASE d # 0
  <2>1. d - 1 \in 0..(Word - 1) /\ d \in 0..(Word - 1) /\ d - 1 + 1 = d
    BY <1>1, <1>3
  <2> QED BY <2>1, UnsignedIs
<1> QED BY <1>2, <1>3

\* What update() keeps beside the field of a property
CountsAndNames(c, w) ==
  (c.clients # <<>> => c.clients_count = Len(c.clients)) /\ c.name \in {NoName, w.name}

\* A client that has read what the window manager has published agrees with it.
LEMMA HeldAgrees ==
  ASSUME NEW p \in Compared, NEW r, r = property[p],
         Held(p, fields[client][FieldOf(p)], r),
         CountsAndNames(fields[client], fields[wm]),
         IF p \in Shared THEN Held(p, fields[wm][FieldOf(p)], r)
                         ELSE Encodes(p, r, fields[wm][FieldOf(p)])
  PROVE  Agrees(p)
<1> USE DEF Shared
<1> DEFINE c == fields[client]
           w == fields[wm]
<1>0. Held(p, c[FieldOf(p)], r)
  OBVIOUS
<1>a. CountsAndNames(c, w)
  OBVIOUS
<1> HIDE DEF c, w
<1>1. CASE p = "Supported"
  <2>1. r = Property("ATOM", Published(w.supported)) /\ BaseFlags \subseteq w.supported
    BY <1>1 DEF Encodes, FieldOf, w
  <2>2. c.supported = Parsed(Published(w.supported))
    BY <1>0, <1>1, <2>1 DEF Held, FieldOf, Property
  <2>3. c.supported = Visible(w.supported)
    BY <2>1, <2>2, SupportedIsParsed
  <2> QED BY <1>1, <2>3 DEF Agrees, c, w
<1>2. CASE p = "ClientList"
  <2>1. GetArrayReply(r, "WINDOW") = w.clients
    BY <1>2, NumberReply DEF Encodes, FieldOf, w
  <2> QED BY <1>0, <1>a, <1>2, <2>1 DEF CountsAndNames, Held, FieldOf, Agrees, c, w
<1>3. CASE p = "ClientListStacking"
  <2>1. GetArrayReply(r, "WINDOW") = w.stacking
    BY <1>3, NumberReply DEF Encodes, FieldOf, w
  <2> QED BY <1>0, <1>3, <2>1 DEF Held, FieldOf, Agrees, c, w
<1>4. CASE p = "NumberOfDesktops"
  <2>1. GetValueReply(r, "CARDINAL", 0) = w.number_of_desktops
    BY <1>4, NumberReply DEF Encodes, FieldOf, w
  <2> QED BY <1>0, <1>4, <2>1 DEF Held, FieldOf, Agrees, c, w
<1>5. CASE p = "DesktopGeometry"
  <2>1. GetArrayReply(r, "CARDINAL") = w.geometry /\ w.geometry \in Pairs
    BY <1>5, NumberReply DEF Encodes, FieldOf, w
  <2>2. Len(w.geometry) = 2
    <3>1. ASSUME NEW g \in Pairs PROVE Len(g) = 2
      <4>1. PICK a \in Nat, b \in Nat : g = <<a, b>>
        BY DEF Pairs
      <4> QED BY <4>1
    <3> QED BY <2>1, <3>1
  <2> QED BY <1>0, <1>5, <2>1, <2>2 DEF Held, FieldOf, Agrees, c, w
<1>6. CASE p = "DesktopViewport"
  BY <1>0, <1>6 DEF Encodes, Held, FieldOf, Agrees, c, w
<1>7. CASE p = "CurrentDesktop"
  <2>1. PICK v \in 0..MaxDesktops :
          v = w.current_desktop /\ r = Property("CARDINAL", <<Unsigned(v - 1)>>)
    BY <1>7 DEF Encodes, FieldOf, w
  <2>2. GetValueReply(r, "CARDINAL", 0) = Unsigned(v - 1)
    <3>1. PICK x : x = Unsigned(v - 1)
      OBVIOUS
    <3>2. r = Property("CARDINAL", <<x>>)
      BY <2>1, <3>1
    <3>3. GetValueReply(r, "CARDINAL", 0) = x
      <4>1. r.type = "CARDINAL" /\ r.data = <<x>>
        BY <3>2 DEF Property
      <4> QED BY <4>1 DEF GetValueReply
    <3> QED BY <3>1, <3>3
  <2>3. c.current_desktop = v
    <3>1. c.current_desktop = Unsigned(GetValueReply(r, "CARDINAL", 0) + 1)
      <4>1. Held(p, c[FieldOf(p)], r) /\ FieldOf(p) = "current_desktop"
        BY <1>0, <1>7 DEF FieldOf
      <4> QED BY <1>7, <4>1 DEF Held
    <3>2. Unsigned(Unsigned(v - 1) + 1) = v
      BY DesktopUnsigned
    <3> QED BY <2>2, <3>1, <3>2
  <2> QED BY <1>7, <2>1, <2>3 DEF Agrees, c, w
<1>8. CASE p = "DesktopNames"
  BY <1>0, <1>8 DEF Held, FieldOf, Agrees, c, w
<1>9. CASE p = "ActiveWindow"
  <2>1. GetValueReply(r, "WINDOW", 0) = w.active
    BY <1>9, NumberReply DEF Encodes, FieldOf, w
  <2> QED BY <1>0, <1>9, <2>1 DEF Held, FieldOf, Agrees, c, w
<1>10. CASE p = "SupportingWMCheck"
  <2>1. GetValueReply(r, "WINDOW", 0) = w.supportwindow
    BY <1>10, NumberReply DEF Encodes, FieldOf, w
  <2> QED BY <1>0, <1>a, <1>10, <2>1 DEF CountsAndNames, Held, FieldOf, Agrees, c, w
<1>11. CASE p = "WM2DesktopLayout"
  BY <1>0, <1>11 DEF Held, FieldOf, Agrees, c, w
<1>12. CASE p = "WM2ShowingDesktop"
  <2>1. /\ GetValueReply(r, "CARDINAL", 0) = (IF w.showing_desktop THEN 1 ELSE 0)
        /\ w.showing_desktop \in BOOLEAN
    BY <1>12, NumberReply DEF Encodes, FieldOf, w
  <2>2. c.showing_desktop = ((IF w.showing_desktop THEN 1 ELSE 0) # 0)
    BY <1>0, <1>12, <2>1 DEF Held, FieldOf
  <2> QED BY <1>12, <2>1, <2>2 DEF Agrees, c, w
<1> QED BY <1>1, <1>2, <1>3, <1>4, <1>5, <1>6, <1>7, <1>8, <1>9, <1>10, <1>11, <1>12,
           PropertiesAre DEF Compared

-----------------------------------------------------------------------------
(* Lists of what is still to come                                          *)

Among(x, s) == \E i \in 1..Len(s) : s[i] = x
Noticed(p, q) == \E i \in 1..Len(q) : q[i].type = p

LEMMA NothingAmong == \A x : ~Among(x, <<>>) /\ ~Noticed(x, <<>>)
<1>1. 1..Len(<<>>) = {}
  OBVIOUS
<1> QED BY <1>1 DEF Among, Noticed

LEMMA AmongAppended ==
  ASSUME NEW s, IsSequence(s), NEW e, NEW x
  PROVE  /\ Among(x, Append(s, e)) <=> x = e \/ Among(x, s)
         /\ Noticed(x, Append(s, e)) <=> x = e.type \/ Noticed(x, s)
<1>1. PICK n, t : n = Len(s) /\ t = Append(s, e)
  OBVIOUS
<1>2. /\ n \in Nat /\ Len(t) = n + 1 /\ t[n + 1] = e
      /\ \A i \in 1..n : t[i] = s[i]
  BY <1>1, AppendSequence
<1>3. n + 1 \in 1..(n + 1) /\ \A i \in 1..n : i \in 1..(n + 1)
  BY <1>2
<1>4. \A i \in 1..(n + 1) : i = n + 1 \/ i \in 1..n
  BY <1>2
<1> QED BY <1>1, <1>2, <1>3, <1>4 DEF Among, Noticed

LEMMA AmongTail ==
  ASSUME NEW s, IsSequence(s), s # <<>>, NEW x
  PROVE  /\ Among(x, s) <=> x = Head(s) \/ Among(x, Tail(s))
         /\ Noticed(x, s) <=> x = Head(s).type \/ Noticed(x, Tail(s))
<1>1. PICK n, t : n = Len(s) /\ t = Tail(s)
  OBVIOUS
<1>2. n \in Nat \ {0} /\ Len(t) = n - 1 /\ Head(s) = s[1] /\ \A i \in 1..(n - 1) : t[i] = s[i + 1]
  BY <1>1, TailSequence
<1>3. 1 \in 1..n /\ \A i \in 1..(n - 1) : i + 1 \in 1..n
  BY <1>2
<1>4. \A i \in 1..n : i = 1 \/ (i - 1 \in 1..(n - 1) /\ s[i] = t[i - 1])
  <2>1. TAKE i \in 1..n
  <2>2. i = 1 \/ (i - 1 \in 1..(n - 1) /\ i - 1 + 1 = i)
    BY <1>2
  <2> QED BY <1>2, <2>2
<1>5. ASSUME NEW i \in 1..n PROVE s[i] = Head(s) \/ \E j \in 1..(n - 1) : s[i] = t[j]
  BY <1>2, <1>4
<1>6. \E i \in 1..n : s[i] = Head(s)
  BY <1>2, <1>3
<1>7. ASSUME NEW j \in 1..(n - 1) PROVE \E i \in 1..n : s[i] = t[j]
  BY <1>2, <1>3
<1>8. Len(s) = n /\ Len(t) = n - 1
  BY <1>1, <1>2
<1>9. Among(x, s) <=> x = Head(s) \/ Among(x, t)
  BY <1>5, <1>6, <1>7, <1>8 DEF Among
<1>10. Noticed(x, s) <=> x = Head(s).type \/ Noticed(x, t)
  <2>1. Noticed(x, s) => x = Head(s).type \/ Noticed(x, t)
    BY <1>5, <1>8 DEF Noticed
  <2>2. x = Head(s).type => Noticed(x, s)
    BY <1>6, <1>8 DEF Noticed
  <2>3. Noticed(x, t) => Noticed(x, s)
    BY <1>7, <1>8 DEF Noticed
  <2> QED BY <2>1, <2>2, <2>3
<1> QED BY <1>1, <1>9, <1>10

LEMMA AmongOne == \A x, e : (Among(x, <<e>>) <=> x = e) /\ IsSequence(<<e>>)
<1>1. TAKE x, e
<1>2. Len(<<e>>) = 1 /\ <<e>>[1] = e /\ 1..1 = {1}
  OBVIOUS
<1>3. <<e>> \in Seq({e})
  OBVIOUS
<1> QED BY <1>2, <1>3 DEF Among, IsSequence

LEMMA AmongConcat ==
  ASSUME NEW s, IsSequence(s), NEW t, IsSequence(t), NEW x
  PROVE  /\ IsSequence(s \o t)
         /\ Among(x, s \o t) <=> Among(x, s) \/ Among(x, t)
         /\ Noticed(x, s \o t) <=> Noticed(x, s) \/ Noticed(x, t)
<1>1. PICK S, T : s \in Seq(S) /\ t \in Seq(T)
  BY DEF IsSequence
<1>2. s \in Seq(S \cup T) /\ t \in Seq(S \cup T)
  BY <1>1, SeqMonotonic
<1>3. PICK c : c = s \o t
  OBVIOUS
<1>4. PICK m \in Nat, n \in Nat : m = Len(s) /\ n = Len(t)
  BY <1>1
<1>5. /\ c \in Seq(S \cup T) /\ Len(c) = m + n
      /\ \A i \in 1..(m + n) : c[i] = IF i <= m THEN s[i] ELSE t[i - m]
  BY <1>2, <1>3, <1>4, ConcatProperties
<1>6. \A i \in 1..m : i \in 1..(m + n) /\ c[i] = s[i]
  BY <1>5
<1>7. \A i \in 1..n : i + m \in 1..(m + n) /\ c[i + m] = t[i]
  <2>1. TAKE i \in 1..n
  <2>2. i + m \in 1..(m + n) /\ ~(i + m <= m) /\ i + m - m = i
    OBVIOUS
  <2> QED BY <1>5, <2>2
<1>8. \A i \in 1..(m + n) : i \in 1..m \/ (i - m \in 1..n /\ c[i] = t[i - m])
  <2>1. TAKE i \in 1..(m + n)
  <2>2. i \in 1..m \/ (~(i <= m) /\ i - m \in 1..n)
    OBVIOUS
  <2> QED BY <1>5, <2>2
<1>9. Len(s) = m /\ Len(t) = n /\ Len(c) = m + n
  BY <1>4, <1>5
<1>10. Among(x, c) <=> Among(x, s) \/ Among(x, t)
  BY <1>6, <1>7, <1>8, <1>9 DEF Among
<1>11. Noticed(x, c) <=> Noticed(x, s) \/ Noticed(x, t)
  <2>1. Noticed(x, c) => Noticed(x, s) \/ Noticed(x, t)
    BY <1>6, <1>8, <1>9 DEF Noticed
  <2>2. Noticed(x, s) => Noticed(x, c)
    BY <1>6, <1>9 DEF Noticed
  <2>3. Noticed(x, t) => Noticed(x, c)
    BY <1>7, <1>9 DEF Noticed
  <2> QED BY <2>1, <2>2, <2>3
<1>12. IsSequence(c)
  BY <1>5 DEF IsSequence
<1> QED BY <1>3, <1>10, <1>11, <1>12

\* Every looked at property has a field of its own.
LEMMA FieldsDiffer ==
  /\ \A p \in Looked : FieldOf(p) \in FieldNames \ {"clients_count", "name"}
  /\ \A p, q \in Looked : FieldOf(p) = FieldOf(q) => p = q
<1>1. \A p \in Looked : FieldOf(p) \in FieldNames \ {"clients_count", "name"}
  BY PropertiesAre DEF Looked, FieldOf, FieldNames
<1>2. ASSUME NEW p \in Looked, NEW q \in Looked, p # q PROVE FieldOf(p) # FieldOf(q)
  BY <1>2, PropertiesAre DEF Looked, FieldOf
<1> QED BY <1>1, <1>2

-----------------------------------------------------------------------------
(* What setters publish                                                    *)

\* The object of a has a new value for p, and those who read p and are active are told.
Writes(a, p, x) ==
  /\ Gives(a, x, p) /\ x \subseteq {FieldOf(p), "clients_count"}
  /\ queue' = [b \in Agents |-> IF p \in Reads(b) /\ b \in active
                                  THEN Append(queue[b], [type |-> p, data |-> <<>>])
                                  ELSE queue[b]]
  /\ p \in Shared \/ (a = wm /\ Encodes(p, property'[p], fields'[wm][FieldOf(p)]))

Written == Looked \ {"SupportingWMCheck", "DesktopNames"}
Writing == \E a \in Agents, p \in Written, x \in SUBSET FieldNames : Writes(a, p, x)

\* The names that are published
Filled(names, n) ==
  [i \in 1..(IF n > Len(names) THEN n ELSE Len(names)) |-> At(names, i, NoName)]

NameSetting == \E a \in Agents, d \in Desktops, name \in Names :
  /\ a \in active
  /\ Writes(a, "DesktopNames", {"desktop_names"})
  /\ fields'[a].desktop_names =
       Filled(SetAt(fields[a].desktop_names, d, NoName, name), fields[a].number_of_desktops)
  /\ property'["DesktopNames"] = Property("UTF8", Join(fields'[a].desktop_names))

\* desktopName() makes elements that the object is taken to have anyway.
Naming == \E a \in Agents, d \in Desktops :
  /\ Gives(a, {"desktop_names"}, "DesktopNames") /\ UNCHANGED <<queue, property>>
  /\ fields'[a].desktop_names = Grow(fields[a].desktop_names, d, NoName)

\* setSupported() publishes the new flags.
Supporting ==
  /\ SupportSetting /\ PublishSupported(fields'[wm].supported)
  /\ BaseFlags \subseteq fields'[wm].supported

LEMMA SetsWrites ==
  ASSUME Shapes, NEW a \in Agents, NEW p \in Looked,
         NEW x \in SUBSET FieldNames, x \subseteq {FieldOf(p), "clients_count"},
         NEW new, new = [y \in FieldNames |-> IF y \in x THEN new[y] ELSE fields[a][y]],
         NEW type, NEW data, Sets(a, p, new, type, data),
         p \in Shared \/ (a = wm /\ Encodes(p, Property(type, data), new[FieldOf(p)]))
  PROVE  /\ Writes(a, p, x) /\ fields'[a] = new /\ property'[p] = Property(type, data)
         /\ p \in Written => Writing
<1>1. p \in Properties
  BY DEF Looked
<1>2. Gives(a, x, p) /\ fields'[a] = new /\ property'[p] = Property(type, data)
  BY <1>1, SetsGives
<1>3. queue' = [b \in Agents |-> IF p \in Reads(b) /\ b \in active
                                   THEN Append(queue[b], [type |-> p, data |-> <<>>])
                                   ELSE queue[b]]
  BY DEF Sets, Changed
<1>4. p \in Shared \/ (a = wm /\ Encodes(p, property'[p], fields'[wm][FieldOf(p)]))
  BY <1>2
<1>5. Writes(a, p, x)
  BY <1>2, <1>3, <1>4 DEF Writes
<1> QED BY <1>2, <1>5 DEF Writing

\* A setter of one field
LEMMA SetsOneWrites ==
  ASSUME Shapes, NEW a \in Agents, NEW p \in Written,
         NEW field, field = FieldOf(p), NEW v,
         NEW new, new = [fields[a] EXCEPT ![field] = v],
         NEW type, NEW data, Sets(a, p, new, type, data),
         p \in Shared \/ (a = wm /\ Encodes(p, Property(type, data), v))
  PROVE  Writing
<1>1. field \in FieldNames /\ p \in Looked
  BY FieldsDiffer DEF Written
<1>2. PICK x : x = {field}
  OBVIOUS
<1>3. new = [y \in FieldNames |-> IF y \in x THEN new[y] ELSE fields[a][y]] /\ new[field] = v
  BY <1>1, <1>2 DEF Shapes, IsObject
<1>4. x \in SUBSET FieldNames /\ x \subseteq {FieldOf(p), "clients_count"}
  BY <1>1, <1>2
<1>5. p \in Shared \/ (a = wm /\ Encodes(p, Property(type, data), new[FieldOf(p)]))
  BY <1>3
<1> QED BY <1>1, <1>3, <1>4, <1>5, SetsWrites

LEMMA ListsAre == \A list \in Lists : list \in Seq(Windows)
<1>1. SetToSeq(Windows) \in Seq(Windows)
  BY NETRootInfoAssumption, SetToSeqHasAll
<1>2. \A w \in Windows : <<w>> \in Seq(Windows)
  OBVIOUS
<1>3. <<>> \in Seq(Windows)
  OBVIOUS
<1> QED BY <1>1, <1>2, <1>3 DEF Lists

LEMMA LookedAre ==
  Looked = {"Supported", "ClientList", "ClientListStacking", "NumberOfDesktops",
            "DesktopGeometry", "DesktopViewport", "CurrentDesktop", "DesktopNames",
            "ActiveWindow", "WorkArea", "SupportingWMCheck", "VirtualRoots",
            "WM2DesktopLayout", "WM2ShowingDesktop"}
BY PropertiesAre DEF Looked

LEMMA SettersWrite ==
  ASSUME Shapes, Values, BaseFlags \subseteq fields[wm].supported, Setters
  PROVE  Writing \/ NameSetting \/ Naming \/ Supporting
<1> USE LookedAre DEF Written
<1>a. wm \in Agents /\ Shared = {"DesktopNames", "WM2DesktopLayout"}
  BY DEF Agents, Shared
<1>1. ASSUME NEW list \in Lists, SetClientList(list) PROVE Writing
  <2>1. PICK new, x : /\ new = [fields[wm] EXCEPT !.clients = list, !.clients_count = Len(list)]
                      /\ x = {"clients", "clients_count"}
    OBVIOUS
  <2>2. /\ new = [y \in FieldNames |-> IF y \in x THEN new[y] ELSE fields[wm][y]]
        /\ new.clients = list /\ x \in SUBSET FieldNames
    BY <2>1 DEF Shapes, IsObject, Agents, FieldNames
  <2>3. Sets(wm, "ClientList", new, "WINDOW", list)
    BY <1>1, <2>1 DEF SetClientList
  <2>4. FieldOf("ClientList") = "clients"
    BY DEF FieldOf
  <2>5. Encodes("ClientList", Property("WINDOW", list), new[FieldOf("ClientList")])
    BY <2>2, <2>4, ListsAre DEF Encodes
  <2>6. x \subseteq {FieldOf("ClientList"), "clients_count"}
    BY <2>1, <2>4
  <2>7. PICK p : p = "ClientList"
    OBVIOUS
  <2>8. p \in Looked /\ p \in Written /\ wm \in Agents
    BY <1>a, <2>7
  <2>9. /\ Sets(wm, p, new, "WINDOW", list) /\ x \subseteq {FieldOf(p), "clients_count"}
        /\ Encodes(p, Property("WINDOW", list), new[FieldOf(p)])
    BY <2>3, <2>5, <2>6, <2>7
  <2> HIDE LookedAre DEF Written
  <2> QED BY <2>2, <2>8, <2>9, SetsWrites
<1>2. ASSUME NEW list \in Lists, SetClientListStacking(list) PROVE Writing
  <2>1. PICK new, p, field :
          /\ new = [fields[wm] EXCEPT ![field] = list]
          /\ p = "ClientListStacking" /\ field = "stacking"
    OBVIOUS
  <2>2. Sets(wm, p, new, "WINDOW", list)
    BY <1>2, <2>1 DEF SetClientListStacking
  <2>3. Encodes(p, Property("WINDOW", list), list) /\ field = FieldOf(p)
    BY <2>1 DEF Encodes, FieldOf
  <2> QED BY <1>a, <2>1, <2>2, <2>3, SetsOneWrites
<1>3. ASSUME NEW list \in Lists, SetVirtualRoots(list) PROVE Writing
  <2>1. PICK new, p, field :
          /\ new = [fields[wm] EXCEPT ![field] = list]
          /\ p = "VirtualRoots" /\ field = "virtual_roots"
    OBVIOUS
  <2>2. Sets(wm, p, new, "WINDOW", list)
    BY <1>3, <2>1 DEF SetVirtualRoots
  <2>3. Encodes(p, Property("WINDOW", list), list) /\ field = FieldOf(p)
    BY <2>1 DEF Encodes, FieldOf
  <2> QED BY <1>a, <2>1, <2>2, <2>3, SetsOneWrites
<1>4. ASSUME NEW n \in 0..MaxDesktops, SetNumberOfDesktops(n) PROVE Writing
  <2>1. PICK new, p, field, data :
          /\ new = [fields[wm] EXCEPT ![field] = n] /\ data = <<n>>
          /\ p = "NumberOfDesktops" /\ field = "number_of_desktops"
    OBVIOUS
  <2>2. Sets(wm, p, new, "CARDINAL", data)
    BY <1>4, <2>1 DEF SetNumberOfDesktops
  <2>3. Encodes(p, Property("CARDINAL", data), n) /\ field = FieldOf(p)
    BY <2>1 DEF Encodes, FieldOf
  <2> QED BY <1>a, <2>1, <2>2, <2>3, SetsOneWrites
<1>5. ASSUME NEW n \in 0..MaxDesktops, SetCurrentDesktop(n) PROVE Writing
  <2>1. PICK new, p, field, data :
          /\ new = [fields[wm] EXCEPT ![field] = n] /\ data = <<Unsigned(n - 1)>>
          /\ p = "CurrentDesktop" /\ field = "current_desktop"
    OBVIOUS
  <2>2. Sets(wm, p, new, "CARDINAL", data)
    BY <1>5, <2>1 DEF SetCurrentDesktop
  <2>3. Encodes(p, Property("CARDINAL", data), n) /\ field = FieldOf(p)
    BY <2>1 DEF Encodes, FieldOf
  <2> QED BY <1>a, <2>1, <2>2, <2>3, SetsOneWrites
<1>6. ASSUME NEW a \in Agents, NEW d \in Desktops, DesktopName(a, d) PROVE Naming
  <2>0. PICK v : v = Grow(fields[a].desktop_names, d, NoName)
    OBVIOUS
  <2>1. /\ UNCHANGED <<property, queue, sent, got, todo, active, topic, interest>>
        /\ fields' = [fields EXCEPT ![a] = [fields[a] EXCEPT !.desktop_names = v]]
    BY <1>6, <2>0 DEF DesktopName, Calls
  <2>3. /\ IsObject([fields[a] EXCEPT !.desktop_names = v])
        /\ \A y \in FieldNames \ {"desktop_names"} :
             [fields[a] EXCEPT !.desktop_names = v][y] = fields[a][y]
        /\ [fields[a] EXCEPT !.desktop_names = v].desktop_names = v
    BY DEF Shapes, IsObject, FieldNames
  <2>4. /\ fields' = [b \in Agents |-> fields'[b]]
        /\ \A b \in Agents : b # a => fields'[b] = fields[b]
        /\ fields'[a] = [fields[a] EXCEPT !.desktop_names = v]
    BY <2>1 DEF Shapes
  <2>5. Shapes'
    <3>1. \A b \in Agents : IsObject(fields'[b])
      BY <2>3, <2>4 DEF Shapes
    <3>2. \A b \in Agents : IsObject(fields[b])'
      BY <3>1 DEF IsObject
    <3> QED BY <2>1, <2>4, <3>2 DEF Shapes
  <2>6. Gives(a, {"desktop_names"}, "DesktopNames")
    BY <2>1, <2>3, <2>4, <2>5 DEF Gives
  <2> QED BY <2>0, <2>1, <2>3, <2>4, <2>6 DEF Naming
<1>7. ASSUME NEW a \in Agents, NEW d \in Desktops, NEW name \in Names, SetDesktopName(a, d, name)
      PROVE NameSetting
  <2>1. PICK v, n : /\ v = SetAt(fields[a].desktop_names, d, NoName, name)
                    /\ n = fields[a].number_of_desktops
    OBVIOUS
  <2>2. PICK f, all : f = [fields[a] EXCEPT !.desktop_names = v] /\ all = Filled(v, n)
    OBVIOUS
  <2>3. PICK new, p, x : /\ new = [f EXCEPT !.desktop_names = all]
                         /\ p = "DesktopNames" /\ x = {"desktop_names"}
    OBVIOUS
  <2>4. f.desktop_names = v /\ f.number_of_desktops = n
    BY <2>1, <2>2 DEF Shapes, IsObject, FieldNames
  <2>5. PublishedNames(f) = all
    BY <2>2, <2>4 DEF PublishedNames, Filled
  <2>6. Sets(a, p, new, "UTF8", Join(all))
    BY <1>7, <2>1, <2>2, <2>3, <2>5 DEF SetDesktopName
  <2>7. /\ new = [y \in FieldNames |-> IF y \in x THEN new[y] ELSE fields[a][y]]
        /\ new.desktop_names = all /\ x \in SUBSET FieldNames
    BY <2>2, <2>3 DEF Shapes, IsObject, FieldNames
  <2>8. x \subseteq {FieldOf(p), "clients_count"} /\ p \in Shared
    BY <1>a, <2>3 DEF FieldOf
  <2>9. PICK data : data = Join(all)
    OBVIOUS
  <2>10. Sets(a, p, new, "UTF8", data)
    BY <2>6, <2>9
  <2>11. Writes(a, p, x) /\ fields'[a] = new /\ property'[p] = Property("UTF8", data)
    <3>1. p \in Looked
      BY <2>3
    <3> HIDE LookedAre DEF Written
    <3> QED BY <2>7, <2>8, <2>10, <3>1, SetsWrites
  <2>12. /\ Writes(a, "DesktopNames", {"desktop_names"})
         /\ fields'[a].desktop_names = all
         /\ property'["DesktopNames"] = Property("UTF8", Join(all))
    BY <2>3, <2>7, <2>9, <2>11
  <2>13. all = Filled(SetAt(fields[a].desktop_names, d, NoName, name), fields[a].number_of_desktops)
    BY <2>1, <2>2
  <2>14. a \in active
    BY <1>7 DEF SetDesktopName, Sets, Calls
  <2> QED BY <2>12, <2>13, <2>14 DEF NameSetting
<1>8. ASSUME NEW size \in Geometries, SetDesktopGeometry(size) PROVE Writing
  <2>1. PICK new, p, field :
          /\ new = [fields[wm] EXCEPT ![field] = size]
          /\ p = "DesktopGeometry" /\ field = "geometry"
    OBVIOUS
  <2>2. Sets(wm, p, new, "CARDINAL", size)
    BY <1>8, <2>1 DEF SetDesktopGeometry
  <2>3. Encodes(p, Property("CARDINAL", size), size) /\ field = FieldOf(p)
    <3>1. size \in Pairs
      BY NETRootInfoAssumption DEF Pairs
    <3> QED BY <2>1, <3>1 DEF Encodes, FieldOf
  <2> QED BY <1>a, <2>1, <2>2, <2>3, SetsOneWrites
<1>9. ASSUME NEW d \in Desktops, NEW point \in Points, SetDesktopViewport(d, point) PROVE Writing
  <2>1. PICK v, n, data : /\ v = SetAt(fields[wm].viewport, d, NoPoint, point)
                          /\ n = fields[wm].number_of_desktops /\ data = Flat(v, n, NoPoint)
    OBVIOUS
  <2>2. PICK new, p, field :
          /\ new = [fields[wm] EXCEPT ![field] = v]
          /\ p = "DesktopViewport" /\ field = "viewport"
    OBVIOUS
  <2>3. new.viewport = v /\ new.number_of_desktops = n
    BY <2>1, <2>2 DEF Shapes, IsObject, Agents, FieldNames
  <2>4. Sets(wm, p, new, "CARDINAL", Flat(new.viewport, new.number_of_desktops, NoPoint))
    BY <1>9, <2>1, <2>2 DEF SetDesktopViewport
  <2>5. Sets(wm, p, new, "CARDINAL", data)
    BY <2>1, <2>3, <2>4
  <2>6. v \in Seq(Pairs) /\ n \in Nat
    <3>1. d \in Nat \ {0} /\ point \in Pairs
      BY NETRootInfoAssumption DEF Desktops, Pairs
    <3>2. fields[wm].viewport \in Seq(Pairs) /\ fields[wm].number_of_desktops \in Nat
      BY <1>a DEF Values
    <3> QED BY <2>1, <3>1, <3>2, SetAtIsPairs
  <2>7. /\ data \in Seq(Nat) /\ Len(data) = 2 * n
        /\ \A i \in 1..n : At(Tuples(data, 2), i, NoPoint) = At(v, i, NoPoint)
    <3>1. data = Flat(v, n, NoPoint)
      BY <2>1
    <3> HIDE LookedAre
    <3>2. data \in Seq(Nat) /\ Len(data) = 2 * n
      BY <2>6, <3>1, TuplesOfFlat
    <3>3. \A i \in 1..n : At(Tuples(data, 2), i, NoPoint) = At(v, i, NoPoint)
      BY <2>6, <3>1, TuplesOfFlat
    <3> QED BY <3>2, <3>3
  <2>8. Len(data) \div 2 = n
    BY <2>6, <2>7
  <2>9. PICK r : r = Property("CARDINAL", data)
    OBVIOUS
  <2>10. r.type = "CARDINAL" /\ r.data = data
    BY <2>9 DEF Property
  <2>11. Encodes(p, r, v) /\ field = FieldOf(p)
    BY <2>2, <2>7, <2>8, <2>10 DEF Encodes, FieldOf
  <2> QED BY <1>a, <2>2, <2>5, <2>9, <2>11, SetsOneWrites
<1>10. ASSUME NEW d \in Desktops, SetWorkArea(d, <<d, 1, 1, 1>>) PROVE Writing
  <2>1. PICK v : v = SetAt(fields[wm].workarea, d, NoRect, <<d, 1, 1, 1>>)
    OBVIOUS
  <2>2. PICK new, data : /\ new = [fields[wm] EXCEPT !.workarea = v]
                         /\ data = Flat(new.workarea, new.number_of_desktops, NoRect)
    OBVIOUS
  <2>3. PICK p, field :
          /\ new = [fields[wm] EXCEPT ![field] = v] /\ p = "WorkArea" /\ field = "workarea"
    BY <2>2
  <2>4. Sets(wm, p, new, "CARDINAL", data)
    BY <1>10, <2>1, <2>2, <2>3 DEF SetWorkArea
  <2>5. Encodes(p, Property("CARDINAL", data), v) /\ field = FieldOf(p)
    BY <2>3 DEF Encodes, FieldOf, Property
  <2> QED BY <1>a, <2>3, <2>4, <2>5, SetsOneWrites
<1>11. ASSUME NEW w \in Windows, SetActiveWindow(w) PROVE Writing
  <2>1. PICK new, p, field, data :
          /\ new = [fields[wm] EXCEPT ![field] = w] /\ data = <<w>>
          /\ p = "ActiveWindow" /\ field = "active"
    OBVIOUS
  <2>2. Sets(wm, p, new, "WINDOW", data)
    BY <1>11, <2>1 DEF SetActiveWindow
  <2>3. Encodes(p, Property("WINDOW", data), w) /\ field = FieldOf(p)
    BY <2>1 DEF Encodes, FieldOf
  <2> QED BY <1>a, <2>1, <2>2, <2>3, SetsOneWrites
<1>12. ASSUME NEW a \in Agents, NEW layout, SetDesktopLayout(a, layout) PROVE Writing
  <2>1. PICK new, p, field, data :
          /\ new = [fields[a] EXCEPT ![field] = layout]
          /\ data = <<layout.orientation, layout.columns, layout.rows, layout.corner>>
          /\ p = "WM2DesktopLayout" /\ field = "layout"
    OBVIOUS
  <2>2. Sets(a, p, new, "CARDINAL", data)
    BY <1>12, <2>1 DEF SetDesktopLayout
  <2>3. p \in Shared /\ field = FieldOf(p)
    BY <1>a, <2>1 DEF FieldOf
  <2> QED BY <2>1, <2>2, <2>3, SetsOneWrites
<1>13. ASSUME NEW on \in BOOLEAN, SetShowingDesktop(on) PROVE Writing
  <2>1. PICK new, p, field, data :
          /\ new = [fields[wm] EXCEPT ![field] = on] /\ data = <<IF on THEN 1 ELSE 0>>
          /\ p = "WM2ShowingDesktop" /\ field = "showing_desktop"
    OBVIOUS
  <2>2. Sets(wm, p, new, "CARDINAL", data)
    BY <1>13, <2>1 DEF SetShowingDesktop
  <2>3. Encodes(p, Property("CARDINAL", data), on) /\ field = FieldOf(p)
    BY <2>1 DEF Encodes, FieldOf
  <2> QED BY <1>a, <2>1, <2>2, <2>3, SetsOneWrites
<1>14. ASSUME NEW f \in SupportFlags, NEW on \in BOOLEAN, SetSupported(f, on) PROVE Supporting
  <2>1. PICK v : v = IF on THEN fields[wm].supported \cup {f} ELSE fields[wm].supported \ {f}
    OBVIOUS
  <2>2. fields' = [fields EXCEPT ![wm].supported = v] /\ PublishSupported(v)
    BY <1>14, <2>1 DEF SetSupported
  <2>3. BaseFlags \subseteq v
    BY <2>1, NETRootInfoAssumption DEF BaseFlags
  <2>4. fields'[wm].supported = v
    BY <1>a, <2>2 DEF Shapes, IsObject, FieldNames
  <2>5. SupportSetting
    BY <1>14, SupportSets
  <2> QED BY <2>2, <2>3, <2>4, <2>5 DEF Supporting
<1> QED BY <1>1, <1>2, <1>3, <1>4, <1>5, <1>6, <1>7, <1>8, <1>9, <1>10, <1>11, <1>12, <1>13, <1>14
        DEF Setters

-----------------------------------------------------------------------------
(* Lists of names                                                          *)

\* Split() goes through a text: the parts after the first i letters
PartsStep(last, c) == IF c = 0 THEN Append(last, <<>>)
                      ELSE [last EXCEPT ![Len(last)] = Append(@, c)]
PartsOf(text, n, g) ==
  g = [i \in 0..n |-> IF i = 0 THEN << <<>> >> ELSE PartsStep(g[i - 1], text[i])]

LEMMA PartsRun ==
  ASSUME NEW text, NEW k \in Nat
  PROVE  \E g : PartsOf(text, k, g)
<1> DEFINE Do(g, i) == PartsStep(g, text[i])
           Runs(n) == \E g : g = [i \in 0..n |-> IF i = 0 THEN << <<>> >> ELSE Do(g[i - 1], i)]
           I == {n \in Nat : Runs(n)}
<1> HIDE DEF Do
<1>1. 0 \in I
  <2>1. PICK g : g = [i \in 0..0 |-> << <<>> >>]
    OBVIOUS
  <2>2. g = [i \in 0..0 |-> IF i = 0 THEN << <<>> >> ELSE Do(g[i - 1], i)]
    BY <2>1
  <2> QED BY <2>2
<1>2. ASSUME NEW n \in Nat, n \in I PROVE n + 1 \in I
  <2>1. PICK g : g = [i \in 0..n |-> IF i = 0 THEN << <<>> >> ELSE Do(g[i - 1], i)]
    BY <1>2
  <2>2. PICK h : h = [i \in 0..(n + 1) |-> IF i = n + 1 THEN Do(g[n], i) ELSE g[i]]
    OBVIOUS
  <2>3. ASSUME NEW i \in 0..(n + 1)
        PROVE  h[i] = IF i = 0 THEN << <<>> >> ELSE Do(h[i - 1], i)
    <3>1. CASE i = n + 1
      <4>1. h[i] = Do(g[n], i) /\ i - 1 = n /\ n \in 0..(n + 1) /\ n # n + 1 /\ i # 0
        BY <2>2, <3>1
      <4>2. h[n] = g[n]
        BY <2>2, <4>1
      <4> QED BY <4>1, <4>2
    <3>2. CASE i \in 1..n
      <4>1. i - 1 \in 0..n /\ i - 1 # n + 1 /\ i # n + 1 /\ i \in 0..n /\ i # 0
            /\ i - 1 \in 0..(n + 1)
        BY <3>2
      <4>2. h[i] = g[i] /\ h[i - 1] = g[i - 1]
        BY <2>2, <4>1
      <4>3. g[i] = Do(g[i - 1], i)
        BY <2>1, <4>1
      <4> QED BY <4>1, <4>2, <4>3
    <3>3. CASE i = 0
      <4>1. 0 \in 0..n /\ 0 # n + 1
        OBVIOUS
      <4> QED BY <2>1, <2>2, <3>3, <4>1
    <3> QED BY <3>1, <3>2, <3>3
  <2>4. h = [i \in 0..(n + 1) |-> h[i]]
    BY <2>2
  <2>5. h = [i \in 0..(n + 1) |-> IF i = 0 THEN << <<>> >> ELSE Do(h[i - 1], i)]
    BY <2>3, <2>4
  <2> QED BY <2>5
<1>3. Nat \subseteq I
  <2> HIDE DEF I
  <2> QED BY <1>1, <1>2, NatSetInduction
<1>4. Runs(k)
  BY <1>3
<1> QED BY <1>4 DEF PartsOf, Do

LEMMA SplitIs ==
  ASSUME NEW text, NEW n \in Nat, n = Len(text)
  PROVE  \E g : PartsOf(text, n, g) /\ Split(text) = g[n]
<1> DEFINE A == CHOOSE g : g = [i \in 0..Len(text) |->
                    IF i = 0 THEN << <<>> >>
                    ELSE IF text[i] = 0 THEN Append(g[i - 1], <<>>)
                    ELSE [g[i - 1] EXCEPT ![Len(g[i - 1])] = Append(@, text[i])]]
<1>1. Split(text) = A[Len(text)]
  BY DEF Split
<1>2. \E g : g = [i \in 0..Len(text) |->
                    IF i = 0 THEN << <<>> >>
                    ELSE IF text[i] = 0 THEN Append(g[i - 1], <<>>)
                    ELSE [g[i - 1] EXCEPT ![Len(g[i - 1])] = Append(@, text[i])]]
  BY PartsRun DEF PartsOf, PartsStep
<1>3. PartsOf(text, n, A)
  BY <1>2 DEF PartsOf, PartsStep
<1> HIDE DEF A
<1> QED BY <1>1, <1>3

LEMMA SplitNone == Split(<<>>) = << <<>> >>
<1>1. Len(<<>>) = 0
  OBVIOUS
<1>2. PICK g : PartsOf(<<>>, 0, g) /\ Split(<<>>) = g[0]
  BY <1>1, SplitIs
<1> QED BY <1>2 DEF PartsOf

\* One more letter
LEMMA SplitAppend ==
  ASSUME NEW text \in Seq(Nat), NEW c \in Nat
  PROVE  Split(Append(text, c)) = PartsStep(Split(text), c)
<1>a. PICK n \in Nat : n = Len(text)
  OBVIOUS
<1>b. PICK t : t = Append(text, c)
  OBVIOUS
<1>1. n = Len(text) /\ t = Append(text, c)
  BY <1>a, <1>b
<1>2. Len(t) = n + 1 /\ t[n + 1] = c /\ \A i \in 1..n : t[i] = text[i]
  BY <1>1, AppendProperties
<1>3. PICK g : PartsOf(text, n, g) /\ Split(text) = g[n]
  BY <1>1, SplitIs
<1>4. PICK h : PartsOf(t, n + 1, h) /\ Split(t) = h[n + 1]
  BY <1>2, SplitIs
<1>5. g[0] = << <<>> >> /\ \A i \in 1..n : g[i] = PartsStep(g[i - 1], text[i])
  BY <1>3 DEF PartsOf
<1>6. h[0] = << <<>> >> /\ \A i \in 1..(n + 1) : h[i] = PartsStep(h[i - 1], t[i])
  BY <1>4 DEF PartsOf
<1> DEFINE I == {i \in Nat : i <= n => h[i] = g[i]}
<1>7. 0 \in I
  BY <1>5, <1>6
<1>8. ASSUME NEW i \in Nat, i \in I PROVE i + 1 \in I
  <2>1. SUFFICES ASSUME i + 1 <= n PROVE h[i + 1] = g[i + 1]
    OBVIOUS
  <2>2. PICK j \in 1..n : j = i + 1 /\ j - 1 = i /\ j \in 1..(n + 1)
    BY <2>1
  <2>3. g[j] = PartsStep(g[i], text[j]) /\ h[j] = PartsStep(h[i], t[j])
    BY <1>5, <1>6, <2>2
  <2>4. h[i] = g[i]
    BY <1>8, <2>1
  <2> QED BY <1>2, <2>2, <2>3, <2>4
<1>9. Nat \subseteq I
  <2> HIDE DEF I
  <2> QED BY <1>7, <1>8, NatSetInduction
<1>10. h[n] = g[n]
  BY <1>9
<1>11. n + 1 \in 1..(n + 1) /\ n + 1 - 1 = n
  OBVIOUS
<1>12. h[n + 1] = PartsStep(h[n], c)
  BY <1>2, <1>6, <1>11
<1> QED BY <1>1, <1>3, <1>4, <1>10, <1>12

LEMMA ConcatLast ==
  ASSUME NEW S, NEW s \in Seq(S), NEW t \in Seq(S), NEW e \in S
  PROVE  s \o Append(t, e) = Append(s \o t, e)
<1>1. <<e>> \in Seq(S) /\ s \o t \in Seq(S)
  OBVIOUS
<1>2. Append(t, e) = t \o <<e>>
  BY AppendIsConcat
<1>3. Append(s \o t, e) = (s \o t) \o <<e>>
  BY <1>1, AppendIsConcat
<1> QED BY <1>1, <1>2, <1>3, ConcatAssociative

Letters == Nat \ {0}
Words == Seq(Letters)
NameLists == Seq(Words)

\* A string goes on with letters.
LEMMA SplitWord ==
  ASSUME NEW K \in NameLists, NEW u \in Words, NEW w \in Words,
         NEW text \in Seq(Nat), Split(text) = Append(K, u)
  PROVE  Split(text \o w) = Append(K, u \o w)
<1> DEFINE I == {n \in Nat : \A v \in Words : Len(v) = n => Split(text \o v) = Append(K, u \o v)}
<1>0. Words \subseteq Seq(Nat)
  BY SeqMonotonic DEF Words, Letters
<1>1. 0 \in I
  <2>1. ASSUME NEW v \in Words, Len(v) = 0 PROVE Split(text \o v) = Append(K, u \o v)
    <3>1. v = <<>>
      BY <2>1, EmptySeq DEF Words
    <3>2. text \o <<>> = text /\ u \o <<>> = u
      BY <1>0, ConcatEmptySeq
    <3> QED BY <3>1, <3>2
  <2> QED BY <2>1
<1>2. ASSUME NEW n \in Nat, n \in I PROVE n + 1 \in I
  <2>1. ASSUME NEW v \in Words, Len(v) = n + 1 PROVE Split(text \o v) = Append(K, u \o v)
    <3>1. PICK y \in Words, c \in Letters : v = Append(y, c)
      <4>1. v # <<>>
        BY <2>1, EmptySeq
      <4> QED BY <4>1, SequenceEmptyOrAppend DEF Words
    <3>2. Len(y) = n
      BY <2>1, <3>1, AppendProperties DEF Words
    <3>3. Split(text \o y) = Append(K, u \o y)
      BY <1>2, <3>2
    <3>4. PICK a, b : a = text \o y /\ b = u \o y
      OBVIOUS
    <3>5. a \in Seq(Nat) /\ b \in Words
      BY <1>0, <3>4 DEF Words
    <3>6. text \o v = Append(a, c) /\ u \o v = Append(b, c)
      <4>1. text \o Append(y, c) = Append(text \o y, c)
        <5>1. y \in Seq(Nat) /\ c \in Nat
          BY <1>0 DEF Letters
        <5> QED BY <5>1, ConcatLast
      <4>2. u \o Append(y, c) = Append(u \o y, c)
        BY ConcatLast DEF Words
      <4> QED BY <3>1, <3>4, <4>1, <4>2
    <3>7. Split(Append(a, c)) = PartsStep(Append(K, b), c)
      BY <3>3, <3>4, <3>5, SplitAppend DEF Letters
    <3>8. PICK m \in Nat : m = Len(K)
      BY DEF NameLists
    <3>9. PICK k : k = Append(K, b)
      OBVIOUS
    <3>10. k \in NameLists /\ Len(k) = m + 1 /\ k[m + 1] = b /\ \A i \in 1..m : k[i] = K[i]
      BY <3>5, <3>8, <3>9, AppendProperties DEF NameLists
    <3>11. PICK e : e = Append(b, c)
      OBVIOUS
    <3>12. e \in Words
      BY <3>5, <3>11 DEF Words
    <3>13. PartsStep(k, c) = [k EXCEPT ![m + 1] = e]
      BY <3>10, <3>11 DEF PartsStep, Letters
    <3>14. [k EXCEPT ![m + 1] = e] = Append(K, e)
      <4>1. PICK l, r : l = [k EXCEPT ![m + 1] = e] /\ r = Append(K, e)
        OBVIOUS
      <4>2. l \in NameLists /\ Len(l) = m + 1 /\ l[m + 1] = e /\ \A i \in 1..m : l[i] = K[i]
        BY <3>10, <3>12, <4>1 DEF NameLists
      <4>3. r \in NameLists /\ Len(r) = m + 1 /\ r[m + 1] = e /\ \A i \in 1..m : r[i] = K[i]
        BY <3>8, <3>12, <4>1, AppendProperties DEF NameLists
      <4>4. \A i \in 1..(m + 1) : l[i] = r[i]
        <5>1. \A i \in 1..(m + 1) : i = m + 1 \/ i \in 1..m
          OBVIOUS
        <5> QED BY <4>2, <4>3, <5>1
      <4>5. l = r
        BY <4>2, <4>3, <4>4, SeqEqual DEF NameLists
      <4> QED BY <4>1, <4>5
    <3> QED BY <3>6, <3>7, <3>9, <3>11, <3>13, <3>14
  <2> QED BY <2>1
<1>3. Nat \subseteq I
  <2> HIDE DEF I
  <2> QED BY <1>1, <1>2, NatSetInduction
<1>4. Len(w) \in Nat
  BY DEF Words
<1> QED BY <1>3, <1>4

\* What is written as a list of strings is read as that list.
LEMMA SplitJoin ==
  ASSUME NEW L \in NameLists, L # <<>>
  PROVE  \E text \in Seq(Nat) : Join(L) = Append(text, 0) /\ Split(text) = L
<1> DEFINE Good(l) == \E text \in Seq(Nat) : Join(l) = Append(text, 0) /\ Split(text) = l
           I == {n \in Nat : \A l \in NameLists : Len(l) = n + 1 => Good(l)}
<1>0. Words \subseteq Seq(Nat)
  BY SeqMonotonic DEF Words, Letters
<1>a. ASSUME NEW l \in NameLists
      PROVE  /\ Join(l) \in Seq(Nat)
             /\ \A w \in Words : Join(Append(l, w)) = Join(l) \o Append(w, 0)
  <2>1. PICK n \in Nat : n = Len(l)
    BY DEF NameLists
  <2>2. PICK k : k = [i \in DOMAIN l |-> Append(l[i], 0)]
    OBVIOUS
  <2>3. DOMAIN l = 1..n /\ \A i \in 1..n : l[i] \in Words
    BY <2>1 DEF NameLists
  <2>4. \A w \in Words : Append(w, 0) \in Seq(Nat)
    BY <1>0
  <2>5. k \in Seq(Seq(Nat)) /\ Len(k) = n /\ \A i \in 1..n : k[i] = Append(l[i], 0)
    <3>1. k \in [1..n -> Seq(Nat)]
      BY <2>2, <2>3, <2>4
    <3> QED BY <2>2, <2>3, <3>1
  <2>6. Join(l) = FlattenSeq(k)
    BY <2>2 DEF Join
  <2>7. FlattenSeq(k) \in Seq(Nat)
    BY <2>5, FlattenIsSeq
  <2>8. ASSUME NEW w \in Words PROVE Join(Append(l, w)) = Join(l) \o Append(w, 0)
    <3>1. PICK m : m = Append(l, w)
      OBVIOUS
    <3>2. Len(m) = n + 1 /\ m[n + 1] = w /\ m \in NameLists /\ \A i \in 1..n : m[i] = l[i]
      BY <2>1, <3>1, AppendProperties DEF NameLists
    <3>3. PICK j : j = [i \in DOMAIN m |-> Append(m[i], 0)]
      OBVIOUS
    <3>4. PICK x : x = Append(w, 0)
      OBVIOUS
    <3>5. x \in Seq(Nat)
      BY <2>4, <3>4
    <3>6. j = Append(k, x)
      <4>1. DOMAIN m = 1..(n + 1)
        BY <3>2 DEF NameLists
      <4>2. \A i \in 1..(n + 1) : i = n + 1 \/ i \in 1..n
        OBVIOUS
      <4>3. \A i \in 1..n : j[i] = k[i]
        <5>1. TAKE i \in 1..n
        <5>2. i \in DOMAIN m
          BY <4>1
        <5>3. j[i] = Append(m[i], 0)
          BY <3>3, <5>2
        <5> QED BY <2>5, <3>2, <5>3
      <4>4. j[n + 1] = x
        BY <3>2, <3>3, <3>4, <4>1
      <4>5. j = [i \in 1..(n + 1) |-> j[i]]
        BY <3>3, <4>1
      <4>6. \A i \in 1..(n + 1) : j[i] \in Seq(Nat)
        <5>1. \A i \in 1..n : k[i] \in Seq(Nat)
          BY <2>5, ElementOfSeq
        <5> QED BY <3>5, <4>2, <4>3, <4>4, <5>1
      <4>7. j \in Seq(Seq(Nat)) /\ Len(j) = n + 1
        BY <4>5, <4>6
      <4>8. PICK a : a = Append(k, x)
        OBVIOUS
      <4>9. /\ a \in Seq(Seq(Nat)) /\ Len(a) = n + 1 /\ a[n + 1] = x
            /\ \A i \in 1..n : a[i] = k[i]
        BY <2>5, <3>5, <4>8, AppendProperties
      <4>10. \A i \in 1..(n + 1) : j[i] = a[i]
        BY <4>2, <4>3, <4>4, <4>9
      <4>11. j = a
        BY <4>7, <4>9, <4>10, SeqEqual
      <4> QED BY <4>8, <4>11
    <3>7. FlattenSeq(Append(k, x)) = FlattenSeq(k) \o x
      BY <2>5, <2>7, <3>5, FlattenAppend
    <3>8. Join(m) = FlattenSeq(j)
      BY <3>3 DEF Join
    <3> QED BY <2>6, <3>1, <3>4, <3>6, <3>7, <3>8
  <2> QED BY <2>6, <2>7, <2>8
<1>1. 0 \in I
  <2>1. ASSUME NEW l \in NameLists, Len(l) = 1 PROVE Good(l)
    <3>1. PICK w \in Words : l = Append(<<>>, w)
      <4>1. PICK w : w = l[1]
        OBVIOUS
      <4>2. w \in Words
        BY <2>1, <4>1, ElementOfSeq DEF NameLists
      <4>3. l = <<w>>
        BY <2>1, <4>1 DEF NameLists
      <4>4. <<w>> = Append(<<>>, w)
        OBVIOUS
      <4> QED BY <4>2, <4>3, <4>4
    <3>2. <<>> \in NameLists /\ <<>> \in Words /\ <<>> \in Seq(Nat)
      BY DEF NameLists, Words
    <3>3. Join(<<>>) = <<>>
      <4>1. DOMAIN <<>> = {} /\ [i \in {} |-> Append(<<>>[i], 0)] = <<>>
        OBVIOUS
      <4>2. [i \in DOMAIN <<>> |-> Append(<<>>[i], 0)] = <<>>
        BY <4>1
      <4>3. Join(<<>>) = FlattenSeq([i \in DOMAIN <<>> |-> Append(<<>>[i], 0)])
        BY DEF Join
      <4> HIDE DEF Join
      <4> QED BY <4>2, <4>3, FlattenNone
    <3>4. PICK e : e = <<>>
      OBVIOUS
    <3>5. e \in NameLists /\ e \in Words /\ e \in Seq(Nat) /\ Join(e) = e /\ l = Append(e, w)
      BY <3>1, <3>2, <3>3, <3>4
    <3>6. w \in Seq(Nat) /\ Append(w, 0) \in Seq(Nat)
      BY <1>0
    <3>7. e \o w = w /\ e \o Append(w, 0) = Append(w, 0)
      BY <3>4, <3>6, ConcatEmptySeq
    <3>8. Join(l) = Append(w, 0)
      BY <1>a, <3>5, <3>7
    <3>9. Split(e) = Append(e, e)
      BY <3>4, SplitNone
    <3>10. Split(e \o w) = Append(e, e \o w)
      BY <3>5, <3>9, SplitWord
    <3>11. Split(w) = l
      BY <3>5, <3>7, <3>10
    <3> QED BY <3>6, <3>8, <3>11
  <2> QED BY <2>1
<1>2. ASSUME NEW n \in Nat, n \in I PROVE n + 1 \in I
  <2>1. ASSUME NEW l \in NameLists, Len(l) = n + 1 + 1 PROVE Good(l)
    <3>1. PICK k \in NameLists, w \in Words : l = Append(k, w)
      <4>1. l # <<>>
        BY <2>1, EmptySeq
      <4> QED BY <4>1, SequenceEmptyOrAppend DEF NameLists
    <3>2. Len(k) = n + 1
      BY <2>1, <3>1, AppendProperties DEF NameLists
    <3>3. PICK text \in Seq(Nat) : Join(k) = Append(text, 0) /\ Split(text) = k
      BY <1>2, <3>2
    <3>4. PICK t, e : t = Append(text, 0) /\ e = <<>>
      OBVIOUS
    <3>5. t \in Seq(Nat) /\ e \in Words
      BY <3>4 DEF Words
    <3>6. Split(t) = Append(k, e)
      <4>1. Split(Append(text, 0)) = PartsStep(Split(text), 0)
        BY SplitAppend
      <4> QED BY <3>3, <3>4, <4>1 DEF PartsStep
    <3>7. e \o w = w /\ w \in Seq(Nat)
      BY <1>0, <3>4, ConcatEmptySeq
    <3>8. Split(t \o w) = l
      <4>1. Split(t \o w) = Append(k, e \o w)
        BY <3>5, <3>6, SplitWord
      <4> QED BY <3>1, <3>7, <4>1
    <3>9. Join(l) = t \o Append(w, 0)
      BY <1>a, <3>1, <3>3, <3>4
    <3>10. t \o Append(w, 0) = Append(t \o w, 0)
      BY <3>5, <3>7, ConcatLast
    <3>11. t \o w \in Seq(Nat)
      BY <3>5, <3>7
    <3> QED BY <3>8, <3>9, <3>10, <3>11
  <2> QED BY <2>1
<1>3. Nat \subseteq I
  <2> HIDE DEF I
  <2> QED BY <1>1, <1>2, NatSetInduction
<1>4. PICK n \in Nat : Len(L) = n + 1
  <2>1. Len(L) \in Nat \ {0}
    BY EmptySeq DEF NameLists
  <2>2. Len(L) - 1 \in Nat /\ Len(L) = Len(L) - 1 + 1
    BY <2>1
  <2> QED BY <2>2
<1> QED BY <1>3, <1>4

\* A list of names that was published is read as it was.
LEMMA NamesRead ==
  ASSUME NEW L \in NameLists, L # <<>>, NEW r, r = Property("UTF8", Join(L))
  PROVE  GetStringlistReply(r, "UTF8") = L
<1>1. PICK text \in Seq(Nat) : Join(L) = Append(text, 0) /\ Split(text) = L
  BY SplitJoin
<1>2. PICK data : data = Append(text, 0)
  OBVIOUS
<1>3. r.type = "UTF8" /\ r.data = data
  BY <1>1, <1>2 DEF Property
<1>4. GetArrayReply(r, "UTF8") = data
  BY <1>3 DEF GetArrayReply
<1>5. data # <<>> /\ Last(data) = 0 /\ Front(data) = text
  <2>1. PICK n \in Nat : n = Len(text)
    OBVIOUS
  <2>2. /\ data \in Seq(Nat) /\ Len(data) = n + 1 /\ data[n + 1] = 0
        /\ \A i \in 1..n : data[i] = text[i]
    BY <1>2, <2>1, AppendProperties
  <2>3. data # <<>> /\ Last(data) = 0
    BY <2>2, EmptySeq DEF Last
  <2>4. PICK f : f = Front(data)
    OBVIOUS
  <2>5. f = SubSeq(data, 1, n)
    BY <2>2, <2>4 DEF Front
  <2>6. f \in Seq(Nat) /\ Len(f) = n /\ \A i \in 1..n : f[i] = data[i]
    <3>1. \A i \in 1..n : data[i] \in Nat
      BY <2>2, ElementOfSeq
    <3>2. f = [i \in 1..n |-> data[i]]
      <4>1. SubSeq(data, 1, n) = [i \in 1..n |-> data[i]]
        BY <2>2
      <4> QED BY <2>5, <4>1
    <3>3. f \in [1..n -> Nat] /\ \A i \in 1..n : f[i] = data[i]
      BY <3>1, <3>2
    <3> QED BY <3>3
  <2>7. f = text
    BY <2>1, <2>2, <2>6, SeqEqual
  <2> QED BY <2>3, <2>4, <2>7
<1>6. GetStringReply(r, "UTF8") = text
  BY <1>4, <1>5 DEF GetStringReply
<1> QED BY <1>1, <1>4, <1>5, <1>6 DEF GetStringlistReply

LEMMA NoNameIsWord == NoName \in Words /\ <<>> \in NameLists
BY DEF NoName, Words, NameLists

LEMMA GrowIs ==
  ASSUME NEW s \in NameLists, NEW n \in Nat \ {0}, NEW g, g = Grow(s, n, NoName)
  PROVE  /\ g \in NameLists /\ n <= Len(g)
         /\ \A e \in Nat \ {0} : At(g, e, NoName) = At(s, e, NoName)
<1> USE NoNameIsWord DEF NameLists
<1>1. CASE n <= Len(s)
  BY <1>1 DEF Grow
<1>2. CASE ~(n <= Len(s))
  <2>1. PICK k \in Nat : k = n - Len(s) /\ k + Len(s) = n
    BY <1>2
  <2>2. PICK t : t = [i \in 1..k |-> NoName]
    OBVIOUS
  <2>3. t \in Seq(Words) /\ Len(t) = k /\ \A i \in 1..k : t[i] = NoName
    BY <2>2
  <2>4. PICK m \in Nat : m = Len(s)
    OBVIOUS
  <2>5. g = s \o t
    BY <1>2, <2>1, <2>2 DEF Grow
  <2>6. /\ g \in Seq(Words) /\ Len(g) = m + k
        /\ \A i \in 1..(m + k) : g[i] = IF i <= m THEN s[i] ELSE t[i - m]
    <3>1. s \in Seq(Words) /\ t \in Seq(Words)
      BY <2>3
    <3>2. /\ s \o t \in Seq(Words) /\ Len(s \o t) = Len(s) + Len(t)
          /\ \A i \in 1..(Len(s) + Len(t)) :
               (s \o t)[i] = IF i <= Len(s) THEN s[i] ELSE t[i - Len(s)]
      BY <3>1, ConcatProperties
    <3> HIDE NoNameIsWord DEF NameLists
    <3> QED BY <2>3, <2>4, <2>5, <3>2
  <2>7. ASSUME NEW e \in Nat \ {0} PROVE At(g, e, NoName) = At(s, e, NoName)
    <3>1. DOMAIN g = 1..(m + k) /\ DOMAIN s = 1..m
      BY <2>4, <2>6
    <3>2. CASE e <= m
      <4>1. e \in 1..m /\ e \in 1..(m + k)
        BY <3>2
      <4> QED BY <2>6, <3>1, <3>2, <4>1 DEF At
    <3>3. CASE ~(e <= m) /\ e <= m + k
      <4>1. e \notin 1..m /\ e \in 1..(m + k) /\ e - m \in 1..k
        BY <3>3
      <4>2. g[e] = NoName
        BY <2>3, <2>6, <3>3, <4>1
      <4> QED BY <3>1, <4>1, <4>2 DEF At
    <3>4. CASE ~(e <= m + k)
      <4>1. e \notin 1..m /\ e \notin 1..(m + k)
        BY <3>4
      <4> QED BY <3>1, <4>1 DEF At
    <3> QED BY <3>2, <3>3, <3>4
  <2> QED BY <2>1, <2>4, <2>6, <2>7
<1> QED BY <1>1, <1>2

\* What is published with one name set: that name, and the others as they were.
LEMMA FilledIs ==
  ASSUME NEW s \in NameLists, NEW d \in Nat \ {0}, NEW name \in Words, NEW n \in Nat,
         NEW all, all = Filled(SetAt(s, d, NoName, name), n)
  PROVE  /\ all \in NameLists /\ all # <<>>
         /\ \A e \in Nat \ {0} : e # d => At(all, e, NoName) = At(s, e, NoName)
<1> USE NoNameIsWord DEF NameLists
<1>1. PICK g : g = Grow(s, d, NoName)
  OBVIOUS
<1>2. /\ g \in NameLists /\ d <= Len(g)
      /\ \A e \in Nat \ {0} : At(g, e, NoName) = At(s, e, NoName)
  BY <1>1, GrowIs
<1>3. PICK h : h = [g EXCEPT ![d] = name]
  OBVIOUS
<1>4. PICK m \in Nat : m = Len(g) /\ d <= m /\ d \in 1..m
  BY <1>2
<1>5. h \in Seq(Words) /\ Len(h) = m /\ \A i \in 1..m : i # d => h[i] = g[i]
  BY <1>2, <1>3, <1>4
<1>6. all = Filled(h, n)
  BY <1>1, <1>3 DEF SetAt
<1>7. PICK k \in Nat : k = (IF n > m THEN n ELSE m) /\ m <= k
  <2>1. (IF n > m THEN n ELSE m) \in Nat /\ m <= (IF n > m THEN n ELSE m)
    OBVIOUS
  <2> QED BY <2>1
<1>8. all = [i \in 1..k |-> At(h, i, NoName)]
  BY <1>5, <1>6, <1>7 DEF Filled
<1>9. DOMAIN h = 1..m /\ DOMAIN g = 1..m /\ \A i \in 1..m : h[i] \in Words
  BY <1>2, <1>4, <1>5
<1>10. \A i \in 1..k : At(h, i, NoName) \in Words
  BY <1>9 DEF At
<1>11. all \in Seq(Words) /\ Len(all) = k
  BY <1>8, <1>10
<1>12. all # <<>>
  <2>1. k # 0
    BY <1>4, <1>7
  <2> QED BY <1>11, <2>1, EmptySeq
<1>13. ASSUME NEW e \in Nat \ {0}, e # d PROVE At(all, e, NoName) = At(s, e, NoName)
  <2>1. DOMAIN all = 1..k
    BY <1>11
  <2>2. At(g, e, NoName) = At(s, e, NoName)
    BY <1>2
  <2>3. At(h, e, NoName) = At(g, e, NoName)
    BY <1>5, <1>9, <1>13 DEF At
  <2>4. CASE e \in 1..k
    BY <1>8, <2>1, <2>2, <2>3, <2>4 DEF At
  <2>5. CASE e \notin 1..k
    <3>1. e \notin 1..m
      BY <1>7, <2>5
    <3> QED BY <1>9, <2>1, <2>2, <2>3, <2>5, <3>1 DEF At
  <2> QED BY <2>4, <2>5
<1> QED BY <1>11, <1>12, <1>13

-----------------------------------------------------------------------------
(* The objects follow the properties                                       *)

\* The names are lists of strings, and so is the property once it is there.
NamesInv ==
  /\ \A a \in Agents : fields[a].desktop_names \in NameLists
  /\ \/ property["DesktopNames"] = NoProperty
     \/ \E L \in NameLists \ {<<>>} : property["DesktopNames"] = Property("UTF8", Join(L))

\* The window manager reads what clients write, too, and nothing else.
Orderly ==
  /\ active \subseteq Agents
  /\ \A a \in Agents : IsSequence(todo[a]) /\ IsSequence(queue[a])
  /\ \A p \in Properties : Among(p, todo[wm]) \/ Noticed(p, queue[wm]) => p \in Shared

\* What the window manager has published is what its object has.
Own ==
  /\ fields[wm].supportwindow = SupportWindow /\ BaseFlags \subseteq fields[wm].supported
  /\ \A p \in Looked \ Shared :
       property[p] # NoProperty => Encodes(p, property[p], fields[wm][FieldOf(p)])

\* An object has what a property says, or will be told.
Informed(a, p) ==
  \/ Noticed(p, queue[a]) \/ Among(p, todo[a])
  \/ property[p] = NoProperty /\ p # "WorkArea"
  \/ Held(p, fields[a][FieldOf(p)], property[p])
AllTold == \A a \in active : \A p \in Reads(a) \cap Looked : Informed(a, p)

FollowInv == Orderly /\ NamesInv /\ Own /\ AllTold

LEMMA FollowInvInit ==
  ASSUME Init
  PROVE  FollowInv
<1>1. \A a \in Agents : todo[a] = <<>> /\ queue[a] = <<>> /\ fields[a] = NewFields(a)
  BY DEF Init
<1>2. active = {} /\ \A p \in Properties : property[p] = NoProperty
  BY DEF Init
<1>3. wm \in Agents
  BY DEF Agents
<1>4. Orderly
  <2>1. <<>> \in Seq({})
    OBVIOUS
  <2>2. IsSequence(<<>>)
    BY <2>1 DEF IsSequence
  <2> QED BY <1>1, <1>2, <1>3, <2>2, NothingAmong DEF Orderly
<1>5. NamesInv
  <2>1. \A a \in Agents : fields[a].desktop_names = <<>>
    <3>1. \A a : NewFields(a).desktop_names = <<>>
      BY DEF NewFields
    <3> QED BY <1>1, <3>1
  <2>2. property["DesktopNames"] = NoProperty
    BY <1>2, PropertiesAre
  <2> QED BY <2>1, <2>2, NoNameIsWord DEF NamesInv
<1>6. Own
  <2>1. fields[wm].supportwindow = SupportWindow /\ BaseFlags \subseteq fields[wm].supported
    <3>1. /\ NewFields(wm).supportwindow = SupportWindow
          /\ NewFields(wm).supported = Advertised \cup {"Supported", "SupportingWMCheck"}
      BY DEF NewFields
    <3>2. fields[wm] = NewFields(wm)
      BY <1>1, <1>3
    <3>3. BaseFlags \subseteq Advertised \cup {"Supported", "SupportingWMCheck"}
      BY DEF BaseFlags
    <3> QED BY <3>1, <3>2, <3>3
  <2> QED BY <1>2, <2>1 DEF Own, Looked
<1>7. AllTold
  BY <1>2 DEF AllTold
<1> QED BY <1>4, <1>5, <1>6, <1>7 DEF FollowInv

LEMMA WriteFollows ==
  ASSUME Shapes, Orderly, Own, AllTold, NEW a \in Agents, NEW p \in Looked \ {"SupportingWMCheck"},
         NEW x, Writes(a, p, x)
  PROVE  Orderly' /\ Own' /\ AllTold'
<1>1. /\ UNCHANGED <<todo, active, interest>>
      /\ \A b \in Agents, y \in FieldNames : b # a \/ y \notin x => fields'[b][y] = fields[b][y]
      /\ \A q \in Properties \ {p} : property'[q] = property[q]
  BY DEF Writes, Gives
<1>2. \A q \in Looked : q # p => FieldOf(q) \notin x
  BY FieldsDiffer DEF Writes
<1>3. \A q \in Looked : FieldOf(q) \in FieldNames /\ q \in Properties
  BY FieldsDiffer DEF Looked
<1>4. \A b \in Agents, q \in Looked : b # a \/ q # p =>
          fields'[b][FieldOf(q)] = fields[b][FieldOf(q)]
  BY <1>1, <1>2, <1>3
<1>5. PICK e : e = [type |-> p, data |-> <<>>] /\ e.type = p
  <2>1. [type |-> p, data |-> <<>>].type = p
    OBVIOUS
  <2> QED BY <2>1
<1>6. \A b \in Agents : queue'[b] = IF p \in Reads(b) /\ b \in active
                                      THEN Append(queue[b], e) ELSE queue[b]
  BY <1>5 DEF Writes
<1>7. wm \in Agents /\ Reads(wm) = Shared /\ \A b \in Agents : Reads(b)' = Reads(b)
  BY <1>1 DEF Agents, Reads, Shared
<1>8. ASSUME NEW b \in Agents
      PROVE  /\ IsSequence(queue'[b])
             /\ \A q : Noticed(q, queue[b]) => Noticed(q, queue'[b])
             /\ \A q : Noticed(q, queue'[b]) => Noticed(q, queue[b]) \/ (q = p /\ p \in Reads(b))
             /\ p \in Reads(b) /\ b \in active => Noticed(p, queue'[b])
  <2>1. IsSequence(queue[b])
    BY DEF Orderly
  <2>2. CASE p \in Reads(b) /\ b \in active
    <3>1. queue'[b] = Append(queue[b], e)
      BY <1>6, <2>2
    <3> QED BY <1>5, <2>1, <2>2, <3>1, AmongAppended, AppendSequence
  <2>3. CASE ~(p \in Reads(b) /\ b \in active)
    BY <1>6, <2>1, <2>3
  <2> QED BY <2>2, <2>3
<1>9. Orderly'
  BY <1>1, <1>7, <1>8 DEF Orderly
<1>10. Own'
  <2>1. "SupportingWMCheck" \in Looked /\ "Supported" \in Looked \ Shared
        /\ FieldOf("SupportingWMCheck") = "supportwindow" /\ FieldOf("Supported") = "supported"
    BY PropertiesAre DEF Looked, FieldOf, Shared
  <2>2. fields'[wm].supportwindow = SupportWindow
    BY <1>4, <1>7, <2>1 DEF Own
  <2>3. ASSUME NEW q \in Looked \ Shared, property'[q] # NoProperty
        PROVE  Encodes(q, property'[q], fields'[wm][FieldOf(q)])
    <3>1. CASE q = p
      BY <3>1 DEF Writes
    <3>2. CASE q # p
      <4>1. property'[q] = property[q] /\ fields'[wm][FieldOf(q)] = fields[wm][FieldOf(q)]
        BY <1>1, <1>3, <1>4, <1>7, <3>2
      <4> QED BY <2>3, <4>1 DEF Own
    <3> QED BY <3>1, <3>2
  <2>4. BaseFlags \subseteq fields'[wm].supported
    <3>1. CASE p = "Supported"
      <4>1. Encodes(p, property'[p], fields'[wm][FieldOf(p)])
        BY <2>1, <3>1 DEF Writes
      <4> QED BY <2>1, <3>1, <4>1 DEF Encodes
    <3>2. CASE p # "Supported"
      BY <1>4, <1>7, <2>1, <3>2 DEF Own
    <3> QED BY <3>1, <3>2
  <2> QED BY <2>2, <2>3, <2>4 DEF Own
<1>11. ASSUME NEW b \in active, NEW q \in Reads(b) \cap Looked PROVE Informed(b, q)'
  <2>1. b \in Agents /\ Informed(b, q)
    BY DEF Orderly, AllTold
  <2>2. CASE q = p
    BY <1>8, <1>11, <2>1, <2>2 DEF Informed
  <2>3. CASE q # p
    <3>1. property'[q] = property[q] /\ fields'[b][FieldOf(q)] = fields[b][FieldOf(q)]
      BY <1>1, <1>3, <1>4, <2>1, <2>3
    <3>2. todo'[b] = todo[b] /\ (Noticed(q, queue[b]) => Noticed(q, queue'[b]))
      BY <1>1, <1>8, <2>1
    <3> QED BY <2>1, <3>1, <3>2 DEF Informed
  <2> QED BY <2>2, <2>3
<1>12. AllTold'
  BY <1>1, <1>7, <1>11 DEF AllTold, Orderly
<1> QED BY <1>9, <1>10, <1>12

\* What is published together is read by the client only, which is told of both.
LEMMA PublishingTells ==
  ASSUME Shapes, Orderly, NEW flags, PublishSupported(flags)
  PROVE  /\ queue'[wm] = queue[wm] /\ IsSequence(queue'[client])
         /\ \A q : Noticed(q, queue[client]) => Noticed(q, queue'[client])
         /\ client \in active => \A q \in BaseFlags \cap interest : Noticed(q, queue'[client])
         /\ property'["Supported"] = Property("ATOM", Published(flags))
         /\ property'["SupportingWMCheck"] = Property("WINDOW", <<SupportWindow>>)
         /\ \A q \in Properties \ BaseFlags : property'[q] = property[q]
<1>0. wm \in Agents /\ client \in Agents /\ wm # client
  BY DEF Agents, wm, client
<1>1. PICK l, events : /\ l = Those(Order, BaseFlags \cap interest)
                       /\ events = [i \in DOMAIN l |-> [type |-> l[i], data |-> <<>>]]
  OBVIOUS
<1>2. /\ property' = [property EXCEPT
               !["Supported"] = Property("ATOM", Published(flags)),
               !["SupportingWMCheck"] = Property("WINDOW", <<SupportWindow>>)]
      /\ queue' = [queue EXCEPT ![client] = IF client \in active THEN @ \o events ELSE @]
  BY <1>1 DEF PublishSupported, BaseFlags
<1>3. BaseFlags \subseteq Properties
  BY PropertiesAre DEF BaseFlags
<1>4. IsSequence(events) /\ \A q \in BaseFlags \cap interest : Noticed(q, events)
  <2>1. PICK S : S = BaseFlags \cap interest
    OBVIOUS
  <2>2. l \in Seq(Properties \cap S) /\ \A q \in Properties \cap S : \E i \in 1..Len(l) : l[i] = q
    <3>1. l = Those(Order, S)
      BY <1>1, <2>1
    <3> QED BY <3>1, AskedFor
  <2>3. PICK n \in Nat : n = Len(l) /\ DOMAIN l = 1..n
    BY <2>2
  <2>4. PICK R : R = {[type |-> q, data |-> <<>>] : q \in S}
    OBVIOUS
  <2>5. \A i \in 1..n : [type |-> l[i], data |-> <<>>] \in R
    <3>1. \A i \in 1..n : l[i] \in Properties \cap S
      BY <2>2, <2>3, ElementOfSeq
    <3>2. \A q \in S : [type |-> q, data |-> <<>>] \in R
      BY <2>4
    <3> QED BY <3>1, <3>2
  <2>6. events \in [1..n -> R]
    BY <1>1, <2>3, <2>5
  <2>7. events \in Seq(R) /\ Len(events) = n
    BY <2>6
  <2>8. \A i \in 1..n : events[i].type = l[i]
    <3>1. TAKE i \in 1..n
    <3>2. events[i] = [type |-> l[i], data |-> <<>>]
      BY <1>1, <2>3
    <3>3. [type |-> l[i], data |-> <<>>].type = l[i]
      OBVIOUS
    <3> QED BY <3>2, <3>3
  <2> QED BY <1>3, <2>1, <2>2, <2>3, <2>7, <2>8 DEF IsSequence, Noticed
<1>5. /\ queue'[wm] = queue[wm]
      /\ queue'[client] = IF client \in active THEN queue[client] \o events ELSE queue[client]
  BY <1>0, <1>2 DEF Shapes
<1>6. /\ IsSequence(queue'[client])
      /\ \A q : Noticed(q, queue[client]) => Noticed(q, queue'[client])
      /\ client \in active => \A q \in BaseFlags \cap interest : Noticed(q, queue'[client])
  <2>1. IsSequence(queue[client])
    BY <1>0 DEF Orderly
  <2>2. IsSequence(queue[client] \o events)
    BY <1>4, <2>1, AmongConcat
  <2>3. \A q : Noticed(q, queue[client] \o events) <=>
                  Noticed(q, queue[client]) \/ Noticed(q, events)
    BY <1>4, <2>1, AmongConcat
  <2> QED BY <1>4, <1>5, <2>1, <2>2, <2>3
<1>7. /\ property'["Supported"] = Property("ATOM", Published(flags))
      /\ property'["SupportingWMCheck"] = Property("WINDOW", <<SupportWindow>>)
      /\ \A q \in Properties \ BaseFlags : property'[q] = property[q]
  BY <1>2, PropertiesAre DEF Shapes, BaseFlags
<1> QED BY <1>5, <1>6, <1>7

\* Then the window manager's own flags are published.
LEMMA PublishingOwn ==
  ASSUME Shapes, Orderly, Own, NEW flags, PublishSupported(flags), BaseFlags \subseteq flags,
         fields'[wm].supported = flags,
         \A y \in FieldNames \ {"supported"} : fields'[wm][y] = fields[wm][y]
  PROVE  Own'
<1>1. FieldOf("SupportingWMCheck") = "supportwindow" /\ FieldOf("Supported") = "supported"
      /\ "supportwindow" \in FieldNames
  BY DEF FieldOf, FieldNames
<1>2. /\ property'["Supported"] = Property("ATOM", Published(flags))
      /\ property'["SupportingWMCheck"] = Property("WINDOW", <<SupportWindow>>)
      /\ \A q \in Properties \ BaseFlags : property'[q] = property[q]
  BY PublishingTells
<1>3. fields'[wm].supportwindow = SupportWindow
  BY <1>1 DEF Own
<1>4. Encodes("Supported", property'["Supported"], fields'[wm][FieldOf("Supported")])
  BY <1>1, <1>2 DEF Encodes
<1>5. Encodes("SupportingWMCheck", property'["SupportingWMCheck"],
              fields'[wm][FieldOf("SupportingWMCheck")])
  BY <1>1, <1>2, <1>3 DEF Encodes
<1>6. ASSUME NEW q \in Looked \ Shared, property'[q] # NoProperty
      PROVE  Encodes(q, property'[q], fields'[wm][FieldOf(q)])
  <2>1. CASE q = "Supported"
    BY <1>4, <2>1
  <2>2. CASE q = "SupportingWMCheck"
    BY <1>5, <2>2
  <2>3. CASE q \notin BaseFlags
    <3>1. property'[q] = property[q]
      BY <1>2, <2>3 DEF Looked
    <3>2. FieldOf(q) \in FieldNames \ {"supported"}
      <4>1. "Supported" \in Looked /\ q # "Supported"
        BY <2>3, PropertiesAre DEF Looked, BaseFlags
      <4> QED BY <1>1, <4>1, FieldsDiffer
    <3> QED BY <1>6, <3>1, <3>2 DEF Own
  <2> QED BY <2>1, <2>2, <2>3 DEF BaseFlags
<1> QED BY <1>3, <1>6 DEF Own

\* setSupported()
LEMMA SupportingFollows ==
  ASSUME Shapes, FollowInv, Supporting
  PROVE  FollowInv'
<1> USE DEF FollowInv
<1>0. wm \in Agents /\ client \in Agents /\ wm # client /\ \A b \in Agents : b = wm \/ b = client
  BY DEF Agents, wm, client
<1>1. PICK flags : flags = fields'[wm].supported
  OBVIOUS
<1>2. /\ PublishSupported(flags) /\ BaseFlags \subseteq flags
      /\ UNCHANGED <<todo, active, interest>>
      /\ \A b \in Agents, y \in FieldNames : b # wm \/ y # "supported" =>
           fields'[b][y] = fields[b][y]
  BY <1>1 DEF Supporting, SupportSetting
<1>3. /\ queue'[wm] = queue[wm] /\ IsSequence(queue'[client])
      /\ \A q : Noticed(q, queue[client]) => Noticed(q, queue'[client])
      /\ client \in active => \A q \in BaseFlags \cap interest : Noticed(q, queue'[client])
      /\ \A q \in Properties \ BaseFlags : property'[q] = property[q]
  BY <1>2, PublishingTells
<1>4. Orderly'
  <2>1. \A b \in Agents : IsSequence(todo'[b]) /\ IsSequence(queue'[b])
    BY <1>0, <1>2, <1>3 DEF Orderly
  <2> QED BY <1>2, <1>3, <2>1 DEF Orderly
<1>5. NamesInv'
  <2>1. "desktop_names" \in FieldNames /\ property'["DesktopNames"] = property["DesktopNames"]
    BY <1>3, PropertiesAre DEF FieldNames, BaseFlags
  <2> QED BY <1>2, <2>1 DEF NamesInv
<1>6. Own'
  BY <1>0, <1>1, <1>2, PublishingOwn
<1>7. Reads(wm) = Shared /\ Reads(client) = interest /\ \A b \in Agents : Reads(b)' = Reads(b)
  BY <1>0, <1>2 DEF Reads, Shared
<1>8. ASSUME NEW b \in active, NEW q \in Reads(b) \cap Looked PROVE Informed(b, q)'
  <2>1. b \in Agents /\ Informed(b, q) /\ q \in Properties /\ FieldOf(q) \in FieldNames
    BY FieldsDiffer DEF Orderly, AllTold, Looked
  <2>2. CASE q \in BaseFlags
    <3>1. b = client /\ q \in interest
      BY <1>0, <1>7, <2>1, <2>2 DEF BaseFlags, Shared
    <3> QED BY <1>3, <2>2, <3>1 DEF Informed
  <2>3. CASE q \notin BaseFlags
    <3>1. property'[q] = property[q] /\ todo'[b] = todo[b]
      BY <1>2, <1>3, <2>1, <2>3
    <3>2. Noticed(q, queue[b]) => Noticed(q, queue'[b])
      BY <1>0, <1>3, <2>1
    <3>3. fields'[b][FieldOf(q)] = fields[b][FieldOf(q)]
      <4>1. "Supported" \in Looked /\ FieldOf("Supported") = "supported" /\ q # "Supported"
        BY <2>3, PropertiesAre DEF Looked, FieldOf, BaseFlags
      <4> QED BY <1>2, <2>1, <4>1, FieldsDiffer
    <3> QED BY <2>1, <3>1, <3>2, <3>3 DEF Informed
  <2> QED BY <2>2, <2>3
<1>9. AllTold'
  BY <1>2, <1>7, <1>8 DEF AllTold, Orderly
<1> QED BY <1>4, <1>5, <1>6, <1>9

\* Setters, and desktopName()
LEMMA SettingFollows ==
  ASSUME Shapes, Values, FollowInv, Setters
  PROVE  FollowInv'
<1> USE DEF FollowInv
<1>1. "DesktopNames" \in Looked /\ FieldOf("DesktopNames") = "desktop_names"
  BY PropertiesAre DEF Looked, FieldOf
<1>2. Writing \/ NameSetting \/ Naming \/ Supporting
  BY SettersWrite DEF Own
<1>3. CASE Writing
  <2>1. PICK a \in Agents, p \in Written, x \in SUBSET FieldNames : Writes(a, p, x)
    BY <1>3 DEF Writing
  <2>2. p \in Looked \ {"SupportingWMCheck"} /\ p # "DesktopNames"
    BY DEF Written
  <2>3. Orderly' /\ Own' /\ AllTold'
    BY <2>1, <2>2, WriteFollows
  <2>4. "desktop_names" \notin x /\ "desktop_names" \in FieldNames
    BY <1>1, <2>1, <2>2, FieldsDiffer DEF Writes
  <2>5. \A b \in Agents : fields'[b].desktop_names = fields[b].desktop_names
    BY <2>1, <2>4 DEF Writes, Gives
  <2>6. property'["DesktopNames"] = property["DesktopNames"]
    BY <1>1, <2>1, <2>2 DEF Writes, Gives, Looked
  <2>7. NamesInv'
    BY <2>5, <2>6 DEF NamesInv
  <2> QED BY <2>3, <2>7
<1>4. CASE NameSetting
  <2>1. PICK a \in Agents, d \in Desktops, name \in Names :
          /\ Writes(a, "DesktopNames", {"desktop_names"})
          /\ fields'[a].desktop_names =
               Filled(SetAt(fields[a].desktop_names, d, NoName, name), fields[a].number_of_desktops)
          /\ property'["DesktopNames"] = Property("UTF8", Join(fields'[a].desktop_names))
    BY <1>4 DEF NameSetting
  <2>2. Orderly' /\ Own' /\ AllTold'
    <3>1. PICK p : p = "DesktopNames"
      OBVIOUS
    <3>2. p \in Looked \ {"SupportingWMCheck"} /\ Writes(a, p, {"desktop_names"})
      BY <1>1, <2>1, <3>1
    <3> QED BY <3>2, WriteFollows
  <2>3. PICK s, n, all : /\ s = fields[a].desktop_names /\ n = fields[a].number_of_desktops
                         /\ all = fields'[a].desktop_names
    OBVIOUS
  <2>4. s \in NameLists /\ n \in Nat /\ d \in Nat \ {0} /\ name \in Words
    BY <2>3, NETRootInfoAssumption DEF NamesInv, Values, Desktops, Words, Letters
  <2>5. all = Filled(SetAt(s, d, NoName, name), n)
    BY <2>1, <2>3
  <2>6. all \in NameLists /\ all # <<>>
    BY <2>4, <2>5, FilledIs
  <2>7. property'["DesktopNames"] = Property("UTF8", Join(all))
    BY <2>1, <2>3
  <2>8. "desktop_names" \in FieldNames
    BY DEF FieldNames
  <2>9. \A b \in Agents : b # a => fields'[b].desktop_names = fields[b].desktop_names
    BY <2>1, <2>8 DEF Writes, Gives
  <2>10. NamesInv'
    BY <2>3, <2>6, <2>7, <2>9 DEF NamesInv
  <2> QED BY <2>2, <2>10
<1>5. CASE Naming
  <2>1. PICK a \in Agents, d \in Desktops :
          /\ Gives(a, {"desktop_names"}, "DesktopNames") /\ UNCHANGED <<queue, property>>
          /\ fields'[a].desktop_names = Grow(fields[a].desktop_names, d, NoName)
    BY <1>5 DEF Naming
  <2>2. PICK s, g : s = fields[a].desktop_names /\ g = fields'[a].desktop_names
    OBVIOUS
  <2>3. s \in NameLists /\ d \in Nat \ {0} /\ g = Grow(s, d, NoName)
    BY <2>1, <2>2 DEF NamesInv, Desktops
  <2>4. g \in NameLists /\ \A e \in Nat \ {0} : At(g, e, NoName) = At(s, e, NoName)
    BY <2>3, GrowIs
  <2>5. /\ UNCHANGED <<todo, active, interest>>
        /\ \A b \in Agents, y \in FieldNames : b # a \/ y # "desktop_names" =>
             fields'[b][y] = fields[b][y]
    BY <2>1 DEF Gives
  <2>6. \A b \in Agents, q \in Looked : b # a \/ q # "DesktopNames" =>
          fields'[b][FieldOf(q)] = fields[b][FieldOf(q)]
    BY <1>1, <2>5, FieldsDiffer
  <2>7. NamesInv'
    <3>1. \A b \in Agents : b # a => fields'[b].desktop_names = fields[b].desktop_names
      BY <1>1, <2>6
    <3> QED BY <2>1, <2>2, <2>4, <3>1 DEF NamesInv
  <2>8. Own'
    <3>1. "SupportingWMCheck" \in Looked /\ "Supported" \in Looked /\ wm \in Agents
          /\ FieldOf("SupportingWMCheck") = "supportwindow" /\ FieldOf("Supported") = "supported"
      BY PropertiesAre DEF Looked, FieldOf, Agents
    <3>2. \A q \in Looked \ Shared : fields'[wm][FieldOf(q)] = fields[wm][FieldOf(q)]
      BY <2>6, <3>1 DEF Shared
    <3>3. /\ fields'[wm].supportwindow = fields[wm].supportwindow
          /\ fields'[wm].supported = fields[wm].supported
      BY <2>6, <3>1
    <3> QED BY <2>1, <3>2, <3>3 DEF Own
  <2>9. AllTold'
    <3>1. ASSUME NEW b \in active, NEW q \in Reads(b) \cap Looked PROVE Informed(b, q)'
      <4>1. b \in Agents /\ Informed(b, q)
        BY DEF AllTold, Orderly
      <4>2. CASE b # a \/ q # "DesktopNames"
        <5>1. fields'[b][FieldOf(q)] = fields[b][FieldOf(q)]
          BY <2>6, <4>1, <4>2
        <5> QED BY <2>1, <2>5, <4>1, <5>1 DEF Informed
      <4>3. CASE b = a /\ q = "DesktopNames"
        <5>1. ASSUME Held(q, s, property[q]) PROVE Held(q, g, property[q])
          <6>1. Desktops \subseteq Nat \ {0}
            BY NETRootInfoAssumption DEF Desktops
          <6> QED BY <2>4, <4>3, <5>1, <6>1 DEF Held
        <5> QED BY <1>1, <2>1, <2>2, <2>5, <4>1, <4>3, <5>1 DEF Informed
      <4> QED BY <4>2, <4>3
    <3> QED BY <2>5, <3>1 DEF AllTold, Reads
  <2>10. Orderly'
    BY <2>1, <2>5 DEF Orderly
  <2> QED BY <2>7, <2>8, <2>9, <2>10
<1>6. CASE Supporting
  BY <1>6, SupportingFollows
<1> QED BY <1>2, <1>3, <1>4, <1>5, <1>6

\* Steps that change lists only
LEMMA QuietFollows ==
  ASSUME FollowInv, UNCHANGED <<fields, active, interest>>,
         \A p \in Looked : property'[p] = property[p],
         \A a \in Agents : IsSequence(todo'[a]) /\ IsSequence(queue'[a]),
         \A a \in Agents, p \in Looked : Noticed(p, queue[a]) \/ Among(p, todo[a]) =>
                                           Noticed(p, queue'[a]) \/ Among(p, todo'[a]),
         \A p \in Properties : Noticed(p, queue'[wm]) \/ Among(p, todo'[wm]) =>
                                 Noticed(p, queue[wm]) \/ Among(p, todo[wm])
  PROVE  FollowInv'
<1> USE DEF FollowInv
<1>1. Orderly'
  BY DEF Orderly
<1>2. NamesInv'
  <2>1. property'["DesktopNames"] = property["DesktopNames"]
    BY PropertiesAre DEF Looked
  <2> QED BY <2>1 DEF NamesInv
<1>3. Own'
  BY DEF Own
<1>4. AllTold'
  <2>1. ASSUME NEW b \in active, NEW q \in Reads(b) \cap Looked PROVE Informed(b, q)'
    <3>1. b \in Agents /\ Informed(b, q) /\ property'[q] = property[q]
      BY DEF AllTold, Orderly
    <3> QED BY <3>1 DEF Informed
  <2> QED BY <2>1 DEF AllTold, Reads
<1> QED BY <1>1, <1>2, <1>3, <1>4

LEMMA NamesReply ==
  ASSUME NamesInv
  PROVE  GetStringlistReply(property["DesktopNames"], "UTF8") \in NameLists
<1>1. CASE property["DesktopNames"] = NoProperty
  <2>1. GetArrayReply(NoProperty, "UTF8") = <<>>
    BY DEF GetArrayReply, NoProperty, Property
  <2>2. GetStringlistReply(NoProperty, "UTF8") = <<>>
    BY <2>1 DEF GetStringlistReply
  <2> QED BY <1>1, <2>2, NoNameIsWord
<1>2. CASE \E L \in NameLists \ {<<>>} : property["DesktopNames"] = Property("UTF8", Join(L))
  <2>1. PICK L \in NameLists \ {<<>>} : property["DesktopNames"] = Property("UTF8", Join(L))
    BY <1>2
  <2> QED BY <2>1, NamesRead
<1> QED BY <1>1, <1>2 DEF NamesInv

LEMMA UpdateFollows ==
  ASSUME Shapes, Values, FollowInv, NEW a \in Agents, Update(a)
  PROVE  FollowInv'
<1> USE DEF FollowInv
<1>1. PICK p, r, f, new : /\ p = Head(todo[a]) /\ r = property[p] /\ f = fields[a]
                          /\ new = Read(p, f, r)
  OBVIOUS
<1>2. /\ todo[a] # <<>> /\ p \in Properties /\ fields' = [fields EXCEPT ![a] = new]
      /\ UNCHANGED <<property, queue, active, topic, interest, sent, got, changes>>
      /\ todo' = [todo EXCEPT ![a] = IF p = "SupportingWMCheck" /\ new.supportwindow # 0
                                       THEN Append(Tail(todo[a]), "SupportName") ELSE Tail(todo[a])]
  BY <1>1 DEF Update
<1>3. fields'[a] = new /\ IsObject(f) /\ \A b \in Agents : b # a => fields'[b] = fields[b]
  BY <1>1, <1>2 DEF Shapes
<1>4. /\ \A b \in Agents : b # a => todo'[b] = todo[b]
      /\ \/ todo'[a] = Append(Tail(todo[a]), "SupportName") /\ p = "SupportingWMCheck"
         \/ todo'[a] = Tail(todo[a])
  BY <1>2 DEF Shapes
<1>5. IsSequence(todo[a]) /\ IsSequence(Tail(todo[a]))
  BY <1>2, TailSequence DEF Orderly
<1>6. \A x : Among(x, todo[a]) <=> x = p \/ Among(x, Tail(todo[a]))
  BY <1>1, <1>2, <1>5, AmongTail
<1>7. /\ IsSequence(todo'[a])
      /\ \A x : Among(x, todo[a]) => x = p \/ Among(x, todo'[a])
      /\ \A x : Among(x, todo'[a]) =>
           Among(x, todo[a]) \/ (x = "SupportName" /\ p = "SupportingWMCheck")
  <2>1. CASE todo'[a] = Tail(todo[a])
    BY <1>5, <1>6, <2>1
  <2>2. CASE todo'[a] = Append(Tail(todo[a]), "SupportName") /\ p = "SupportingWMCheck"
    <3>1. \A x : Among(x, todo'[a]) <=> x = "SupportName" \/ Among(x, Tail(todo[a]))
      BY <1>5, <2>2, AmongAppended
    <3> QED BY <1>5, <1>6, <2>2, <3>1, AppendSequence
  <2> QED BY <1>4, <2>1, <2>2
<1>8. a = wm => p \in Shared
  BY <1>2, <1>6 DEF Orderly
<1>9. Orderly'
  <2>1. \A b \in Agents : IsSequence(todo'[b]) /\ IsSequence(queue'[b])
    BY <1>2, <1>4, <1>7 DEF Orderly
  <2>2. \A q \in Properties : Among(q, todo'[wm]) => Among(q, todo[wm])
    BY <1>4, <1>7, <1>8 DEF Shared, Agents
  <2> QED BY <1>2, <2>1, <2>2 DEF Orderly
<1>10. \A q \in Looked : q # p => new[FieldOf(q)] = f[FieldOf(q)]
  BY <1>1, <1>2, <1>3, ReadElsewhere
<1>11. NamesInv'
  <2>1. "DesktopNames" \in Looked /\ FieldOf("DesktopNames") = "desktop_names"
    BY PropertiesAre DEF Looked, FieldOf
  <2>2. new.desktop_names \in NameLists
    <3>1. CASE p = "DesktopNames"
      <4>1. new.desktop_names = GetStringlistReply(r, "UTF8")
        BY <1>1, <1>3, <3>1 DEF Read, IsObject, FieldNames
      <4> QED BY <1>1, <3>1, <4>1, NamesReply
    <3>2. CASE p # "DesktopNames"
      BY <1>1, <1>10, <2>1, <3>2 DEF NamesInv
    <3> QED BY <3>1, <3>2
  <2> QED BY <1>2, <1>3, <2>2 DEF NamesInv
<1>12. Own'
  <2>1. CASE a # wm
    <3>1. fields'[wm] = fields[wm]
      BY <1>3, <2>1 DEF Agents
    <3> QED BY <1>2, <3>1 DEF Own
  <2>2. CASE a = wm
    <3>1. \A q \in Looked \ Shared : fields'[wm][FieldOf(q)] = fields[wm][FieldOf(q)]
      BY <1>1, <1>3, <1>8, <1>10, <2>2
    <3>2. "SupportingWMCheck" \in Looked \ Shared /\ "Supported" \in Looked \ Shared
          /\ FieldOf("SupportingWMCheck") = "supportwindow" /\ FieldOf("Supported") = "supported"
      BY PropertiesAre DEF Looked, FieldOf, Shared
    <3>3. /\ fields'[wm].supportwindow = fields[wm].supportwindow
          /\ fields'[wm].supported = fields[wm].supported
      BY <3>1, <3>2
    <3> QED BY <1>2, <3>1, <3>3 DEF Own
  <2> QED BY <2>1, <2>2
<1>13. ASSUME NEW b \in active, NEW q \in Reads(b) \cap Looked PROVE Informed(b, q)'
  <2>1. b \in Agents /\ Informed(b, q)
    BY DEF AllTold, Orderly
  <2>2. CASE b # a
    BY <1>2, <1>3, <1>4, <2>1, <2>2 DEF Informed
  <2>3. CASE b = a /\ q # p
    BY <1>1, <1>2, <1>3, <1>7, <1>10, <2>1, <2>3 DEF Informed
  <2>4. CASE b = a /\ q = p
    <3>1. PICK v : v = fields[wm][FieldOf(p)]
      OBVIOUS
    <3>2. p \in Looked /\ f.viewport \in Seq(Pairs)
      BY <1>1, <2>4 DEF Values
    <3>3. r = NoProperty \/ p \in Shared \/ Encodes(p, r, v)
      BY <1>1, <3>1, <3>2 DEF Own
    <3>4. Held(p, new[FieldOf(p)], r)
      BY <1>1, <1>3, <3>2, <3>3, ReadHeld
    <3> QED BY <1>1, <1>2, <1>3, <2>4, <3>4 DEF Informed
  <2> QED BY <2>2, <2>3, <2>4
<1>14. AllTold'
  BY <1>2, <1>13 DEF AllTold, Reads
<1> QED BY <1>9, <1>11, <1>12, <1>14

LEMMA ActivateFollows ==
  ASSUME Shapes, FollowInv, NEW a \in Agents, Activate(a)
  PROVE  FollowInv'
<1> USE DEF FollowInv
<1>0. wm \in Agents /\ client \in Agents /\ wm # client /\ \A b \in Agents : b \in {wm, client}
  BY DEF Agents, wm, client
<1>1. PICK asked : asked = Those(Order, Reads(a))
  OBVIOUS
<1>2. /\ IsSequence(asked) /\ (\A q \in Properties \cap Reads(a) : Among(q, asked))
      /\ \A q : Among(q, asked) => q \in Properties \cap Reads(a)
  <2>1. /\ asked \in Seq(Properties \cap Reads(a))
        /\ \A q \in Properties \cap Reads(a) : \E j \in 1..Len(asked) : asked[j] = q
    BY <1>1, AskedFor
  <2>2. \A j \in 1..Len(asked) : asked[j] \in Properties \cap Reads(a)
    BY <2>1, ElementOfSeq
  <2> QED BY <2>1, <2>2 DEF IsSequence, Among
<1>3. /\ active' = active \cup {a} /\ UNCHANGED <<fields, interest>>
      /\ todo' = [todo EXCEPT ![a] = (IF a = wm THEN <<"PublishName">> ELSE <<>>) \o asked]
  BY <1>1 DEF Activate
<1>4. \A b \in Agents : b # a => todo'[b] = todo[b]
  BY <1>3 DEF Shapes
<1>5. /\ IsSequence(todo'[a]) /\ (\A q \in Properties \cap Reads(a) : Among(q, todo'[a]))
      /\ \A q \in Properties : Among(q, todo'[a]) => q \in Reads(a)
  <2>1. PICK first : /\ first = IF a = wm THEN <<"PublishName">> ELSE <<>>
                     /\ first = <<"PublishName">> \/ first = <<>>
    OBVIOUS
  <2>2. IsSequence(first) /\ \A q : Among(q, first) => q = "PublishName"
    <3>1. <<>> \in Seq({})
      OBVIOUS
    <3>2. IsSequence(<<>>)
      BY <3>1 DEF IsSequence
    <3> QED BY <2>1, <3>2, NothingAmong, AmongOne
  <2>3. todo'[a] = first \o asked
    BY <1>3, <2>1 DEF Shapes
  <2>4. "PublishName" \notin Properties
    BY PropertiesAre
  <2>5. IsSequence(first \o asked)
    BY <1>2, <2>2, AmongConcat
  <2>6. \A q : Among(q, first \o asked) <=> Among(q, first) \/ Among(q, asked)
    BY <1>2, <2>2, AmongConcat
  <2> QED BY <1>2, <2>2, <2>3, <2>4, <2>5, <2>6
<1>6. Reads(wm) = Shared /\ \A b \in Agents : Reads(b)' = Reads(b)
  BY <1>3 DEF Reads, Shared
<1>7. CASE a = client
  <2>1. UNCHANGED <<property, queue>>
    BY <1>0, <1>7 DEF Activate
  <2>2. Orderly'
    BY <1>0, <1>3, <1>4, <1>5, <1>7, <2>1 DEF Orderly
  <2>3. NamesInv' /\ Own'
    BY <1>3, <2>1 DEF NamesInv, Own
  <2>4. ASSUME NEW b \in active', NEW q \in Reads(b) \cap Looked PROVE Informed(b, q)'
    <3>1. CASE b = client
      BY <1>5, <1>7, <3>1 DEF Informed, Looked
    <3>2. CASE b # client
      <4>1. b \in active /\ b \in Agents
        BY <1>3, <1>7, <3>2 DEF Orderly
      <4> QED BY <1>3, <1>4, <1>7, <2>1, <3>2, <4>1 DEF Informed, AllTold
    <3> QED BY <3>1, <3>2
  <2>5. AllTold'
    BY <1>3, <1>6, <2>2, <2>4 DEF AllTold, Orderly
  <2> QED BY <2>2, <2>3, <2>5
<1>8. CASE a = wm
  <2>1. PICK flags : flags = fields[wm].supported
    OBVIOUS
  <2>2. PublishSupported(flags) /\ BaseFlags \subseteq flags
    BY <1>8, <2>1 DEF Activate, Own
  <2>3. /\ queue'[wm] = queue[wm] /\ IsSequence(queue'[client])
        /\ \A q : Noticed(q, queue[client]) => Noticed(q, queue'[client])
        /\ client \in active => \A q \in BaseFlags \cap interest : Noticed(q, queue'[client])
        /\ \A q \in Properties \ BaseFlags : property'[q] = property[q]
    BY <2>2, PublishingTells
  <2>4. Orderly'
    <3>1. \A b \in Agents : IsSequence(todo'[b]) /\ IsSequence(queue'[b])
      BY <1>0, <1>4, <1>5, <1>8, <2>3 DEF Orderly
    <3>2. active' \subseteq Agents
      BY <1>3 DEF Orderly
    <3>3. \A q \in Properties : Among(q, todo'[wm]) \/ Noticed(q, queue'[wm]) => q \in Shared
      BY <1>5, <1>6, <1>8, <2>3 DEF Orderly
    <3> QED BY <3>1, <3>2, <3>3 DEF Orderly
  <2>5. NamesInv'
    <3>1. property'["DesktopNames"] = property["DesktopNames"]
      BY <2>3, PropertiesAre DEF BaseFlags
    <3> QED BY <1>3, <3>1 DEF NamesInv
  <2>6. Own'
    BY <1>3, <2>1, <2>2, PublishingOwn
  <2>7. ASSUME NEW b \in active', NEW q \in Reads(b) \cap Looked PROVE Informed(b, q)'
    <3>1. CASE b = wm
      BY <1>5, <1>8, <3>1 DEF Informed, Looked
    <3>2. CASE b # wm
      <4>1. b = client /\ client \in active /\ Reads(b) = interest
        BY <1>0, <1>3, <1>8, <3>2 DEF Orderly, Reads
      <4>2. CASE q \in BaseFlags
        BY <2>3, <4>1, <4>2 DEF Informed
      <4>3. CASE q \notin BaseFlags
        <5>1. property'[q] = property[q]
          BY <2>3, <4>3 DEF Looked
        <5>2. Informed(client, q)
          BY <4>1 DEF AllTold
        <5>3. todo'[client] = todo[client]
          BY <1>0, <1>4, <1>8
        <5> QED BY <1>3, <2>3, <4>1, <5>1, <5>2, <5>3 DEF Informed
      <4> QED BY <4>2, <4>3
    <3> QED BY <3>1, <3>2
  <2>8. AllTold'
    BY <1>6, <2>4, <2>7 DEF AllTold, Orderly
  <2> QED BY <2>4, <2>5, <2>6, <2>8
<1> QED BY <1>0, <1>7, <1>8

\* A request changes nothing but the queue of the window manager.
LEMMA SendersAre ==
  ASSUME Shapes, Senders
  PROVE  /\ UNCHANGED <<fields, property, todo, active, interest>>
         /\ queue'[client] = queue[client]
<1>1. UNCHANGED <<fields, property, todo, active, interest>>
  BY DEF Senders, Sends, Calls, Ping, SendNumberOfDesktops, SendCurrentDesktop,
     SendDesktopGeometry, SendDesktopViewport, SendShowingDesktop, SendActiveWindow,
     CloseWindowRequest, MoveResizeRequest, MoveResizeWindowRequest,
     ShowWindowMenuRequest, RestackRequest
<1>2. queue' = queue \/ \E m : queue' = [queue EXCEPT ![wm] = m]
  BY DEF Senders, Sends, Calls, Ping, SendNumberOfDesktops, SendCurrentDesktop,
     SendDesktopGeometry, SendDesktopViewport, SendShowingDesktop, SendActiveWindow,
     CloseWindowRequest, MoveResizeRequest, MoveResizeWindowRequest,
     ShowWindowMenuRequest, RestackRequest
<1>3. queue'[client] = queue[client]
  BY <1>2 DEF Shapes, Agents, wm, client
<1> QED BY <1>1, <1>3

LEMMA PublishNameFollows ==
  ASSUME Shapes, FollowInv, PublishName
  PROVE  FollowInv'
<1>0. wm \in Agents
  BY DEF Agents
<1>1. PICK t : t = todo[wm]
  OBVIOUS
<1>2. /\ t # <<>> /\ Head(t) = "PublishName" /\ todo' = [todo EXCEPT ![wm] = Tail(t)]
      /\ UNCHANGED <<queue, fields, active, interest>>
  BY <1>1 DEF PublishName
<1>3. \A a \in Agents : todo'[a] = IF a = wm THEN Tail(t) ELSE todo[a]
  BY <1>2 DEF Shapes
<1>4. IsSequence(t) /\ IsSequence(Tail(t)) /\ "PublishName" \notin Properties
  BY <1>0, <1>1, <1>2, TailSequence, PropertiesAre DEF FollowInv, Orderly
<1>5. \A q : Among(q, t) <=> q = "PublishName" \/ Among(q, Tail(t))
  BY <1>2, <1>4, AmongTail
<1>6. \A q \in Looked : property'[q] = property[q]
  BY DEF PublishName, Shapes, Looked
<1>7. \A a \in Agents : IsSequence(todo'[a]) /\ IsSequence(queue'[a])
  BY <1>2, <1>3, <1>4 DEF FollowInv, Orderly
<1>8. \A a \in Agents, q \in Properties :
        /\ Noticed(q, queue'[a]) <=> Noticed(q, queue[a])
        /\ Among(q, todo'[a]) <=> Among(q, todo[a])
  BY <1>1, <1>2, <1>3, <1>4, <1>5
<1> QED BY <1>0, <1>2, <1>6, <1>7, <1>8, QuietFollows DEF Looked

LEMMA NotifyFollows ==
  ASSUME Shapes, FollowInv, NEW a \in Agents, OnPropertyNotify(a)
  PROVE  FollowInv'
<1>0. wm \in Agents
  BY DEF Agents
<1>1. PICK u, p : u = queue[a] /\ p = Head(u).type
  OBVIOUS
<1>2. /\ u # <<>> /\ todo[a] = <<>> /\ p \in Properties
      /\ queue' = [queue EXCEPT ![a] = Tail(u)] /\ todo' = [todo EXCEPT ![a] = <<p>>]
      /\ UNCHANGED <<property, fields, active, interest>>
  BY <1>1 DEF OnPropertyNotify, Dispatch
<1>3. \A b \in Agents : /\ queue'[b] = IF b = a THEN Tail(u) ELSE queue[b]
                        /\ todo'[b] = IF b = a THEN <<p>> ELSE todo[b]
  BY <1>2 DEF Shapes
<1>4. IsSequence(u) /\ IsSequence(Tail(u))
  BY <1>1, <1>2, TailSequence DEF FollowInv, Orderly
<1>5. \A q : Noticed(q, u) <=> q = p \/ Noticed(q, Tail(u))
  BY <1>1, <1>2, <1>4, AmongTail
<1>6. \A q : (Among(q, <<p>>) <=> q = p) /\ ~Among(q, todo[a])
  BY <1>2, AmongOne, NothingAmong
<1>7. IsSequence(<<p>>)
  BY AmongOne
<1>8. \A b \in Agents : IsSequence(todo'[b]) /\ IsSequence(queue'[b])
  BY <1>3, <1>4, <1>7 DEF FollowInv, Orderly
<1>9. \A b \in Agents, q \in Properties :
        Noticed(q, queue'[b]) \/ Among(q, todo'[b]) <=> Noticed(q, queue[b]) \/ Among(q, todo[b])
  <2>1. TAKE b \in Agents, q \in Properties
  <2>2. CASE b = a
    BY <1>1, <1>3, <1>5, <1>6, <2>2
  <2>3. CASE b # a
    BY <1>3, <2>3
  <2> QED BY <2>2, <2>3
<1> QED BY <1>0, <1>2, <1>8, <1>9, QuietFollows DEF Looked

LEMMA MessageFollows ==
  ASSUME Shapes, FollowInv, OnClientMessage
  PROVE  FollowInv'
<1>0. wm \in Agents
  BY DEF Agents
<1>1. PICK u, p : u = queue[wm] /\ p = Head(u).type
  OBVIOUS
<1>2. /\ u # <<>> /\ p \notin Properties
      /\ queue' = [queue EXCEPT ![wm] = Tail(u)]
      /\ UNCHANGED <<property, fields, active, interest, todo>>
  BY <1>1 DEF OnClientMessage, Dispatch
<1>3. \A b \in Agents : queue'[b] = IF b = wm THEN Tail(u) ELSE queue[b]
  BY <1>2 DEF Shapes
<1>4. IsSequence(u) /\ IsSequence(Tail(u))
  BY <1>0, <1>1, <1>2, TailSequence DEF FollowInv, Orderly
<1>5. \A q : Noticed(q, u) <=> q = p \/ Noticed(q, Tail(u))
  BY <1>1, <1>2, <1>4, AmongTail
<1>6. \A b \in Agents : IsSequence(todo'[b]) /\ IsSequence(queue'[b])
  BY <1>2, <1>3, <1>4 DEF FollowInv, Orderly
<1>7. \A b \in Agents, q \in Properties :
        (Noticed(q, queue'[b]) <=> Noticed(q, queue[b])) /\ todo'[b] = todo[b]
  BY <1>1, <1>2, <1>3, <1>5
<1> QED BY <1>0, <1>2, <1>6, <1>7, QuietFollows DEF Looked

LEMMA SendingFollows ==
  ASSUME Shapes, FollowInv, Senders
  PROVE  FollowInv'
<1>0. wm \in Agents /\ client \in Agents /\ \A b \in Agents : b = wm \/ b = client
  BY DEF Agents
<1>1. UNCHANGED <<fields, property, todo, active, interest>> /\ queue'[client] = queue[client]
  BY SendersAre
<1>2. queue' = queue \/ \E m : m.type \notin Properties /\ queue'[wm] = Append(queue[wm], m)
  BY SendersRequest DEF Requested
<1>3. IsSequence(queue[wm])
  BY <1>0 DEF FollowInv, Orderly
<1>4. /\ IsSequence(queue'[wm])
      /\ \A q \in Properties : Noticed(q, queue'[wm]) <=> Noticed(q, queue[wm])
  <2>1. CASE queue' = queue
    BY <1>3, <2>1
  <2>2. CASE \E m : m.type \notin Properties /\ queue'[wm] = Append(queue[wm], m)
    <3>1. PICK m, u : /\ m.type \notin Properties /\ u = queue[wm]
                      /\ queue'[wm] = Append(u, m)
      BY <2>2
    <3>2. IsSequence(u)
      BY <1>3, <3>1
    <3>3. /\ IsSequence(Append(u, m))
          /\ \A q : Noticed(q, Append(u, m)) <=> q = m.type \/ Noticed(q, u)
      BY <3>2, AppendSequence, AmongAppended
    <3> QED BY <3>1, <3>3
  <2> QED BY <1>2, <2>1, <2>2
<1>5. \A b \in Agents : IsSequence(todo'[b]) /\ IsSequence(queue'[b])
  BY <1>0, <1>1, <1>4 DEF FollowInv, Orderly
<1>6. \A b \in Agents, q \in Properties :
        (Noticed(q, queue'[b]) <=> Noticed(q, queue[b])) /\ todo'[b] = todo[b]
  BY <1>0, <1>1, <1>4
<1> QED BY <1>0, <1>1, <1>5, <1>6, QuietFollows DEF Looked

LEMMA FollowInvNext ==
  ASSUME Shapes, Values, FollowInv, [Next]_vars
  PROVE  FollowInv'
<1>1. CASE Setters
  BY <1>1, SettingFollows
<1>2. CASE Senders
  BY <1>2, SendingFollows
<1>3. CASE PublishName
  BY <1>3, PublishNameFollows
<1>4. CASE OnClientMessage
  BY <1>4, MessageFollows
<1>5. ASSUME NEW a \in Agents, Activate(a) PROVE FollowInv'
  BY <1>5, ActivateFollows
<1>6. ASSUME NEW a \in Agents, Update(a) PROVE FollowInv'
  BY <1>6, UpdateFollows
<1>7. ASSUME NEW a \in Agents, OnPropertyNotify(a) PROVE FollowInv'
  BY <1>7, NotifyFollows
<1>8. CASE UNCHANGED vars
  BY <1>8 DEF vars, FollowInv, Orderly, NamesInv, Own, AllTold, Informed, Reads
<1> QED BY <1>1, <1>2, <1>3, <1>4, <1>5, <1>6, <1>7, <1>8 DEF Next

LEMMA FollowAlways == DesktopsSpec => [](Shapes /\ Values /\ FollowInv)
<1>1. DesktopsInit => Values /\ FollowInv
  BY ValuesInit, FollowInvInit DEF DesktopsInit
<1>2. Shapes /\ Values /\ FollowInv /\ [DesktopsNext]_<<vars, announced>> =>
        Values' /\ FollowInv'
  <2>1. [DesktopsNext]_<<vars, announced>> => [Next]_vars
    BY DEF DesktopsNext
  <2> QED BY <2>1, ValuesNext, FollowInvNext
<1> QED BY <1>1, <1>2, ShapesAlways, PTL DEF DesktopsSpec

-----------------------------------------------------------------------------
(* What the client keeps beside the properties                             *)

\* The count is that of the list unless the list is empty, and whoever knows a name of the
\* window manager knows the one there is.
Copied ==
  /\ LET c == fields[client] IN
       (c.clients # <<>> => c.clients_count = Len(c.clients)) /\ c.name \in {NoName, WMName}
  /\ fields[wm].name = WMName
  /\ property["SupportName"] \in {NoProperty, Property("UTF8", WMName)}

\* Fields that no step but update() changes
CopiedSame ==
  /\ \A x \in {"clients", "clients_count", "name"} : fields'[client][x] = fields[client][x]
  /\ fields'[wm].name = fields[wm].name
  /\ property'["SupportName"] = property["SupportName"]

LEMMA CopiedKept == ASSUME Copied, CopiedSame PROVE Copied'
<1>1. PICK c, d : c = fields[client] /\ d = fields'[client]
  OBVIOUS
<1>2. d.clients = c.clients /\ d.clients_count = c.clients_count /\ d.name = c.name
  BY <1>1 DEF CopiedSame
<1>3. fields'[wm].name = fields[wm].name /\ property'["SupportName"] = property["SupportName"]
  BY DEF CopiedSame
<1>4. (d.clients # <<>> => d.clients_count = Len(d.clients)) /\ d.name \in {NoName, WMName}
  BY <1>1, <1>2 DEF Copied
<1> QED BY <1>1, <1>3, <1>4 DEF Copied

LEMMA CopiedInit == ASSUME Init PROVE Copied
<1>1. fields[client] = NewFields(client) /\ fields[wm] = NewFields(wm)
  BY DEF Init, Agents
<1>2. NewFields(client).clients = <<>> /\ NewFields(client).name = NoName
  BY DEF NewFields, wm, client
<1>3. NewFields(wm).name = WMName
  BY DEF NewFields
<1>4. property["SupportName"] = NoProperty
  BY PropertiesAre DEF Init
<1> QED BY <1>1, <1>2, <1>3, <1>4 DEF Copied

LEMMA CopiedSetters == ASSUME Shapes, Setters PROVE CopiedSame
<1>0. wm \in Agents /\ client \in Agents /\ wm # client
  BY DEF Agents, wm, client
<1>1. PICK fs : fs = {"clients", "clients_count", "name"} /\ fs \subseteq FieldNames
  BY DEF FieldNames
<1>2. "SupportName" \in Properties
  BY PropertiesAre
<1>3. ASSUME NEW a \in Agents, NEW p \in Properties \ {"SupportName"}, NEW x, Gives(a, x, p),
             a = client => x \cap fs = {}, "name" \notin x
      PROVE  CopiedSame
  <2>1. \A y \in fs : fields'[client][y] = fields[client][y]
    BY <1>0, <1>1, <1>3 DEF Gives
  <2>2. fields'[wm].name = fields[wm].name
    BY <1>0, <1>1, <1>3 DEF Gives
  <2>3. property'["SupportName"] = property["SupportName"]
    BY <1>2, <1>3 DEF Gives
  <2> QED BY <1>1, <2>1, <2>2, <2>3 DEF CopiedSame
<1>4. Settings
  BY SettersAre
<1>5. CASE OtherSetting
  <2>1. PICK a \in Agents, p \in Properties \ Valued, x \in SUBSET FieldNames :
          Gives(a, x, p) /\ x \cap Spared(a) = {}
    BY <1>5 DEF OtherSetting
  <2>2. p \in Properties \ {"SupportName"} /\ "name" \notin x /\ (a = client => x \cap fs = {})
    BY <1>1, <2>1 DEF Valued, Spared
  <2> QED BY <1>3, <2>1, <2>2
<1>6. CASE SupportSetting
  <2>1. \A y \in fs : fields'[client][y] = fields[client][y]
    BY <1>0, <1>1, <1>6 DEF SupportSetting
  <2>2. fields'[wm].name = fields[wm].name
    BY <1>0, <1>1, <1>6 DEF SupportSetting
  <2>3. property'["SupportName"] = property["SupportName"]
    BY <1>2, <1>6 DEF SupportSetting
  <2> QED BY <1>1, <2>1, <2>2, <2>3 DEF CopiedSame
<1>7. \A p \in {"NumberOfDesktops", "CurrentDesktop", "DesktopGeometry", "DesktopViewport"} :
        p \in Properties \ {"SupportName"}
  BY PropertiesAre
<1>8. CASE NumberSetting
  <2>1. PICK x : x = {"number_of_desktops"} /\ Gives(wm, x, "NumberOfDesktops")
    BY <1>8 DEF NumberSetting
  <2> QED BY <1>0, <1>3, <1>7, <2>1
<1>9. CASE CurrentSetting
  <2>1. PICK x : x = {"current_desktop"} /\ Gives(wm, x, "CurrentDesktop")
    BY <1>9 DEF CurrentSetting
  <2> QED BY <1>0, <1>3, <1>7, <2>1
<1>10. CASE GeometrySetting
  <2>1. PICK x : x = {"geometry"} /\ Gives(wm, x, "DesktopGeometry")
    BY <1>10 DEF GeometrySetting
  <2> QED BY <1>0, <1>3, <1>7, <2>1
<1>11. CASE ViewportSetting
  <2>1. PICK x : x = {"viewport"} /\ Gives(wm, x, "DesktopViewport")
    BY <1>11 DEF ViewportSetting
  <2> QED BY <1>0, <1>3, <1>7, <2>1
<1> QED BY <1>4, <1>5, <1>6, <1>8, <1>9, <1>10, <1>11 DEF Settings

LEMMA CopiedUpdate ==
  ASSUME Shapes, Orderly, Copied, NEW a \in Agents, Update(a)
  PROVE  Copied'
<1>0. wm \in Agents /\ client \in Agents /\ wm # client /\ (a = wm \/ a = client)
  BY DEF Agents, wm, client
<1>1. PICK p, r, f, new : /\ p = Head(todo[a]) /\ r = property[p] /\ f = fields[a]
                          /\ new = Read(p, f, r)
  OBVIOUS
<1>2. p \in Properties /\ UNCHANGED property /\ fields' = [fields EXCEPT ![a] = new]
      /\ todo[a] # <<>>
  BY <1>1 DEF Update
<1>3. fields'[a] = new /\ IsObject(f) /\ \A b \in Agents : b # a => fields'[b] = fields[b]
  BY <1>1, <1>2 DEF Shapes
<1>4. /\ p # "ClientList" => new.clients = f.clients /\ new.clients_count = f.clients_count
      /\ p \notin {"SupportingWMCheck", "SupportName"} => new.name = f.name
  BY <1>1, <1>2, <1>3, ReadKeeps
<1>5. CASE a = wm
  <2>1. IsSequence(todo[wm])
    BY <1>0 DEF Orderly
  <2>2. Among(p, todo[wm])
    BY <1>1, <1>2, <1>5, <2>1, AmongTail
  <2>3. p \in Shared
    BY <1>2, <2>2 DEF Orderly
  <2>4. new.name = f.name
    BY <1>4, <2>3 DEF Shared
  <2>5. fields'[wm].name = fields[wm].name /\ fields'[client] = fields[client]
    BY <1>0, <1>1, <1>3, <1>5, <2>4
  <2> QED BY <1>2, <2>5, CopiedKept DEF CopiedSame
<1>6. CASE a = client
  <2>1. (f.clients # <<>> => f.clients_count = Len(f.clients)) /\ f.name \in {NoName, WMName}
    BY <1>1, <1>6 DEF Copied
  <2>2. new.clients # <<>> => new.clients_count = Len(new.clients)
    <3>1. CASE p = "ClientList"
      <4>1. PICK list : new = [f EXCEPT !.clients = list,
                                !.clients_count = IF list # <<>> THEN Len(list) ELSE @]
        BY <1>1, <3>1 DEF Read, ReadClientList
      <4>2. new.clients = list /\ (list # <<>> => new.clients_count = Len(list))
        BY <1>3, <4>1 DEF IsObject, FieldNames
      <4> QED BY <4>2
    <3>2. CASE p # "ClientList"
      BY <1>4, <2>1, <3>2
    <3> QED BY <3>1, <3>2
  <2>3. new.name \in {NoName, WMName}
    <3>1. CASE p = "SupportingWMCheck"
      <4>1. PICK v : new = [f EXCEPT !.supportwindow = v, !.name = NoName]
        BY <1>1, <3>1 DEF Read
      <4> QED BY <1>3, <4>1 DEF IsObject, FieldNames
    <3>2. CASE p = "SupportName"
      <4>1. PICK v : v = GetStringReply(r, "UTF8") /\ new = [f EXCEPT !.name = v]
        BY <1>1, <3>2 DEF Read
      <4>2. new.name = v
        BY <1>3, <4>1 DEF IsObject, FieldNames
      <4>3. CASE r = NoProperty
        <5>1. r.type = "NONE"
          BY <4>3 DEF NoProperty, Property
        <5>2. v = <<>>
          BY <4>1, <5>1 DEF GetStringReply, GetArrayReply
        <5> QED BY <4>2, <5>2 DEF NoName
      <4>4. CASE r = Property("UTF8", WMName)
        <5>1. r.type = "UTF8" /\ r.data = <<1>>
          BY <4>4 DEF Property, WMName
        <5>2. GetArrayReply(r, "UTF8") = <<1>>
          BY <5>1 DEF GetArrayReply
        <5>3. Last(<<1>>) = 1
          BY DEF Last
        <5>4. v = <<1>>
          BY <4>1, <5>2, <5>3 DEF GetStringReply
        <5> QED BY <4>2, <5>4 DEF WMName
      <4> QED BY <1>1, <3>2, <4>3, <4>4 DEF Copied
    <3>3. CASE p \notin {"SupportingWMCheck", "SupportName"}
      BY <1>4, <2>1, <3>3
    <3> QED BY <3>1, <3>2, <3>3
  <2>4. fields'[client] = new /\ fields'[wm] = fields[wm]
    BY <1>0, <1>3, <1>6
  <2> QED BY <1>2, <2>2, <2>3, <2>4 DEF Copied
<1> QED BY <1>0, <1>5, <1>6

LEMMA CopiedNext ==
  ASSUME Shapes, Orderly, Copied, [Next]_vars
  PROVE  Copied'
<1>1. CASE Setters
  BY <1>1, CopiedSetters, CopiedKept
<1>2. CASE Senders
  BY <1>2, SendersAre, CopiedKept DEF CopiedSame
<1>3. CASE PublishName
  <2>1. /\ fields' = fields
        /\ property' = [property EXCEPT !["SupportName"] = Property("UTF8", WMName)]
    BY <1>3 DEF PublishName
  <2>2. property'["SupportName"] = Property("UTF8", WMName)
    BY <2>1, PropertiesAre DEF Shapes
  <2> QED BY <2>1, <2>2 DEF Copied
<1>4. CASE OnClientMessage
  BY <1>4, CopiedKept DEF CopiedSame, OnClientMessage, Dispatch
<1>5. ASSUME NEW a \in Agents, Activate(a) PROVE Copied'
  <2>1. property'["SupportName"] = property["SupportName"]
    <3>1. CASE PublishSupported(fields[wm].supported)
      BY <3>1, PropertiesAre DEF PublishSupported, Shapes
    <3>2. CASE UNCHANGED <<property, queue>>
      BY <3>2
    <3> QED BY <1>5, <3>1, <3>2 DEF Activate
  <2> QED BY <1>5, <2>1, CopiedKept DEF CopiedSame, Activate
<1>6. ASSUME NEW a \in Agents, Update(a) PROVE Copied'
  BY <1>6, CopiedUpdate
<1>7. ASSUME NEW a \in Agents, OnPropertyNotify(a) PROVE Copied'
  BY <1>7, CopiedKept DEF CopiedSame, OnPropertyNotify, Dispatch
<1>8. CASE UNCHANGED vars
  BY <1>8, CopiedKept DEF CopiedSame, vars
<1> QED BY <1>1, <1>2, <1>3, <1>4, <1>5, <1>6, <1>7, <1>8 DEF Next

LEMMA CopiedAlways == DesktopsSpec => []Copied
<1>1. DesktopsInit => Copied
  BY CopiedInit DEF DesktopsInit
<1>2. Shapes /\ FollowInv /\ Copied /\ [DesktopsNext]_<<vars, announced>> => Copied'
  <2>1. [DesktopsNext]_<<vars, announced>> => [Next]_vars
    BY DEF DesktopsNext
  <2> QED BY <2>1, CopiedNext DEF FollowInv
<1> QED BY <1>1, <1>2, FollowAlways, PTL DEF DesktopsSpec

\* At rest there is nothing that an object has still to be told.
LEMMA AtRestHeld ==
  ASSUME FollowInv, AtRest, NEW a \in Agents, NEW p \in Reads(a) \cap Looked,
         property[p] # NoProperty \/ p = "WorkArea"
  PROVE  Held(p, fields[a][FieldOf(p)], property[p])
<1>1. a \in active /\ queue[a] = <<>> /\ todo[a] = <<>>
  BY DEF AtRest
<1>2. Informed(a, p)
  BY <1>1 DEF FollowInv, AllTold
<1>3. ~Noticed(p, queue[a]) /\ ~Among(p, todo[a])
  BY <1>1, NothingAmong
<1> QED BY <1>2, <1>3 DEF Informed

LEMMA FollowersAgree ==
  ASSUME Shapes, Values, FollowInv, Copied
  PROVE  ClientAgrees
<1> SUFFICES ASSUME AtRest
             PROVE  /\ \A p \in interest \cap Compared : property[p] # NoProperty => Agrees(p)
                    /\ "WorkArea" \in interest =>
                         fields[client].workarea \in {<<>>, Tuples(property["WorkArea"].data, 4)}
  BY DEF ClientAgrees
<1>0. wm \in Agents /\ client \in Agents /\ Reads(wm) = Shared /\ Reads(client) = interest
  BY DEF Agents, wm, client, Reads, Shared
<1>1. ASSUME NEW p \in interest \cap Compared, property[p] # NoProperty PROVE Agrees(p)
  <2>1. PICK r : r = property[p]
    OBVIOUS
  <2>2. p \in Looked
    BY DEF Compared, Looked
  <2>3. Held(p, fields[client][FieldOf(p)], r)
    BY <1>0, <1>1, <2>1, <2>2, AtRestHeld
  <2>4. CountsAndNames(fields[client], fields[wm])
    BY DEF Copied, CountsAndNames
  <2>5. CASE p \in Shared
    <3>1. Held(p, fields[wm][FieldOf(p)], r)
      BY <1>0, <1>1, <2>1, <2>2, <2>5, AtRestHeld
    <3> QED BY <2>1, <2>3, <2>4, <2>5, <3>1, HeldAgrees
  <2>6. CASE p \notin Shared
    <3>1. Encodes(p, r, fields[wm][FieldOf(p)])
      BY <1>1, <2>1, <2>2, <2>6 DEF FollowInv, Own
    <3> QED BY <2>1, <2>3, <2>4, <2>6, <3>1, HeldAgrees
  <2> QED BY <2>5, <2>6
<1>2. ASSUME "WorkArea" \in interest
      PROVE  fields[client].workarea \in {<<>>, Tuples(property["WorkArea"].data, 4)}
  <2>1. PICK p, r : p = "WorkArea" /\ r = property[p]
    OBVIOUS
  <2>2. p \in Looked /\ FieldOf(p) = "workarea"
    BY <2>1, PropertiesAre DEF Looked, FieldOf
  <2>3. Held(p, fields[client][FieldOf(p)], property[p])
    BY <1>0, <1>2, <2>1, <2>2, AtRestHeld
  <2> QED BY <2>1, <2>2, <2>3 DEF Held
<1> QED BY <1>1, <1>2

\* netwm.cpp, update(), activate() and the setters: whatever is set, in whatever order events
\* and replies come, and whenever the client starts, both objects say the same of what
\* interests the client once nothing is left to dispatch, the virtual roots, the count of an
\* empty client list and a name that is not known excepted; and the client's work areas are
\* those published or none.
THEOREM ClientAlwaysAgrees == DesktopsSpec => []ClientAgrees
<1>1. Shapes /\ Values /\ FollowInv /\ Copied => ClientAgrees
  BY FollowersAgree
<1> QED BY <1>1, FollowAlways, CopiedAlways, PTL

-----------------------------------------------------------------------------
(* Names of desktops                                                       *)

\* As long as nothing is published, no object has a name for a desktop.
Unnamed ==
  property["DesktopNames"] = NoProperty =>
    \A a \in Agents : \A e \in Nat \ {0} : At(fields[a].desktop_names, e, NoName) = NoName

LEMMA NothingAt == \A e \in Nat \ {0} : At(<<>>, e, NoName) = NoName
<1>1. DOMAIN <<>> = {}
  OBVIOUS
<1> QED BY <1>1 DEF At

\* What a step does to the names an object has
Renamed(s, t) ==
  \/ t = s
  \/ \E d \in Nat \ {0} : t = Grow(s, d, NoName)
  \/ t = GetStringlistReply(property["DesktopNames"], "UTF8")

LEMMA NamesSteps ==
  ASSUME Shapes, Values, Own, [Next]_vars
  PROVE  \/ NameSetting
         \/ /\ property'["DesktopNames"] = property["DesktopNames"]
            /\ \A a \in Agents : Renamed(fields[a].desktop_names, fields'[a].desktop_names)
<1> DEFINE Kept == /\ property'["DesktopNames"] = property["DesktopNames"]
                   /\ \A a \in Agents : Renamed(fields[a].desktop_names, fields'[a].desktop_names)
<1>0. "DesktopNames" \in Looked /\ FieldOf("DesktopNames") = "desktop_names"
  BY PropertiesAre DEF Looked, FieldOf
<1>1. ASSUME UNCHANGED fields, property'["DesktopNames"] = property["DesktopNames"] PROVE Kept
  BY <1>1 DEF Renamed
<1>2. CASE Setters
  <2>1. CASE Writing
    <3>1. PICK a \in Agents, p \in Written, x \in SUBSET FieldNames : Writes(a, p, x)
      BY <2>1 DEF Writing
    <3>2. p \in Looked \ {"SupportingWMCheck"} /\ p # "DesktopNames"
      BY DEF Written
    <3>3. "desktop_names" \notin x /\ "desktop_names" \in FieldNames
      BY <1>0, <3>1, <3>2, FieldsDiffer DEF Writes
    <3>4. \A b \in Agents : fields'[b].desktop_names = fields[b].desktop_names
      BY <3>1, <3>3 DEF Writes, Gives
    <3>5. property'["DesktopNames"] = property["DesktopNames"]
      BY <1>0, <3>1, <3>2 DEF Writes, Gives, Looked
    <3> QED BY <3>4, <3>5 DEF Renamed
  <2>2. CASE Naming
    <3>1. PICK a \in Agents, d \in Desktops :
            /\ Gives(a, {"desktop_names"}, "DesktopNames") /\ UNCHANGED <<queue, property>>
            /\ fields'[a].desktop_names = Grow(fields[a].desktop_names, d, NoName)
      BY <2>2 DEF Naming
    <3>2. \A b \in Agents : b # a => fields'[b].desktop_names = fields[b].desktop_names
      <4>1. "desktop_names" \in FieldNames
        BY DEF FieldNames
      <4> QED BY <3>1, <4>1 DEF Gives
    <3>3. d \in Nat \ {0}
      BY NETRootInfoAssumption DEF Desktops
    <3> QED BY <3>1, <3>2, <3>3 DEF Renamed
  <2>3. CASE Supporting
    <3>1. /\ \A b \in Agents : fields'[b].desktop_names = fields[b].desktop_names
          /\ property'["DesktopNames"] = property["DesktopNames"]
      <4>1. "desktop_names" \in FieldNames
        BY DEF FieldNames
      <4> QED BY <2>3, <4>1, PropertiesAre DEF Supporting, SupportSetting
    <3> QED BY <3>1 DEF Renamed
  <2>4. Writing \/ NameSetting \/ Naming \/ Supporting
    BY <1>2, SettersWrite DEF Own
  <2> QED BY <2>1, <2>2, <2>3, <2>4
<1>3. CASE Senders
  BY <1>1, <1>3, SendersAre
<1>4. CASE PublishName
  BY <1>0, <1>1, <1>4 DEF PublishName, Shapes, Looked
<1>5. CASE OnClientMessage
  BY <1>1, <1>5 DEF OnClientMessage, Dispatch
<1>6. ASSUME NEW a \in Agents, Activate(a) PROVE Kept
  <2>1. \A p \in Properties \ {"Supported", "SupportingWMCheck"} : property'[p] = property[p]
    BY <1>6 DEF Activate, PublishSupported, Shapes
  <2> QED BY <1>1, <1>6, <2>1, PropertiesAre DEF Activate
<1>7. ASSUME NEW a \in Agents, OnPropertyNotify(a) PROVE Kept
  BY <1>1, <1>7 DEF OnPropertyNotify, Dispatch
<1>8. ASSUME NEW a \in Agents, Update(a) PROVE Kept
  <2>1. PICK p, r, f, new : /\ p = Head(todo[a]) /\ r = property[p] /\ f = fields[a]
                            /\ new = Read(p, f, r)
    OBVIOUS
  <2>2. p \in Properties /\ fields' = [fields EXCEPT ![a] = new] /\ UNCHANGED property
    BY <1>8, <2>1 DEF Update
  <2>3. fields'[a] = new /\ IsObject(f) /\ \A b \in Agents : b # a => fields'[b] = fields[b]
    BY <2>1, <2>2 DEF Shapes
  <2>4. new.desktop_names = f.desktop_names
        \/ new.desktop_names = GetStringlistReply(property["DesktopNames"], "UTF8")
    <3>1. CASE p = "DesktopNames"
      <4>1. new.desktop_names = GetStringlistReply(r, "UTF8")
        BY <2>1, <2>3, <3>1 DEF Read, IsObject, FieldNames
      <4> QED BY <2>1, <3>1, <4>1
    <3>2. CASE p # "DesktopNames"
      BY <1>0, <2>1, <2>2, <2>3, <3>2, ReadElsewhere
    <3> QED BY <3>1, <3>2
  <2> QED BY <2>1, <2>2, <2>3, <2>4 DEF Renamed
<1>9. CASE UNCHANGED vars
  BY <1>1, <1>9 DEF vars
<1> QED BY <1>2, <1>3, <1>4, <1>5, <1>6, <1>7, <1>8, <1>9 DEF Next

LEMMA UnnamedNext ==
  ASSUME Shapes, Values, FollowInv, Unnamed, [Next]_vars
  PROVE  Unnamed'
<1>1. CASE NameSetting
  <2>1. property'["DesktopNames"].type = "UTF8"
    BY <1>1 DEF NameSetting, Property
  <2>2. NoProperty.type = "NONE"
    BY DEF NoProperty, Property
  <2> QED BY <2>1, <2>2 DEF Unnamed
<1>2. CASE /\ property'["DesktopNames"] = property["DesktopNames"]
           /\ \A a \in Agents : Renamed(fields[a].desktop_names, fields'[a].desktop_names)
  <2>1. ASSUME property["DesktopNames"] = NoProperty, NEW a \in Agents, NEW e \in Nat \ {0}
        PROVE  At(fields'[a].desktop_names, e, NoName) = NoName
    <3>1. PICK s, t : s = fields[a].desktop_names /\ t = fields'[a].desktop_names
      OBVIOUS
    <3>2. Renamed(s, t) /\ s \in NameLists /\ At(s, e, NoName) = NoName
      BY <1>2, <2>1, <3>1 DEF FollowInv, NamesInv, Unnamed
    <3>3. ASSUME NEW d \in Nat \ {0}, t = Grow(s, d, NoName) PROVE At(t, e, NoName) = NoName
      BY <3>2, <3>3, GrowIs
    <3>4. CASE t = GetStringlistReply(property["DesktopNames"], "UTF8")
      <4>1. GetArrayReply(NoProperty, "UTF8") = <<>>
        BY DEF GetArrayReply, NoProperty, Property
      <4>2. GetStringlistReply(NoProperty, "UTF8") = <<>>
        BY <4>1 DEF GetStringlistReply
      <4>3. t = <<>>
        BY <2>1, <3>4, <4>2
      <4> QED BY <3>1, <4>3, NothingAt
    <3> QED BY <3>1, <3>2, <3>3, <3>4 DEF Renamed
  <2> QED BY <1>2, <2>1 DEF Unnamed
<1> QED BY <1>1, <1>2, NamesSteps DEF FollowInv

LEMMA UnnamedAlways == DesktopsSpec => []Unnamed
<1>1. DesktopsInit => Unnamed
  <2>1. ASSUME Init PROVE \A a \in Agents : fields[a].desktop_names = <<>>
    <3>1. \A a : NewFields(a).desktop_names = <<>>
      BY DEF NewFields
    <3> QED BY <2>1, <3>1 DEF Init
  <2> QED BY <2>1, NothingAt DEF DesktopsInit, Unnamed
<1>2. Shapes /\ Values /\ FollowInv /\ Unnamed /\ [DesktopsNext]_<<vars, announced>> => Unnamed'
  <2>1. [DesktopsNext]_<<vars, announced>> => [Next]_vars
    BY DEF DesktopsNext
  <2> QED BY <2>1, UnnamedNext
<1> QED BY <1>1, <1>2, FollowAlways, PTL DEF DesktopsSpec

\* A step that sets the name of d changes no other name, if the writer is up to date.
LEMMA OneNameTouched ==
  ASSUME Shapes, Values, FollowInv, Unnamed, [Next]_vars,
         \A a \in Agents : ReadsNames(a) /\ UpToDate(a)
  PROVE  Cardinality(NamesTouched) <= 1
<1>1. \E d : NamesTouched \subseteq {d}
  <2>1. CASE NameSetting
    <3>1. PICK a \in Agents, d \in Desktops, name \in Names :
            /\ a \in active
            /\ Writes(a, "DesktopNames", {"desktop_names"})
            /\ fields'[a].desktop_names =
                 Filled(SetAt(fields[a].desktop_names, d, NoName, name),
                        fields[a].number_of_desktops)
            /\ property'["DesktopNames"] = Property("UTF8", Join(fields'[a].desktop_names))
      BY <2>1 DEF NameSetting
    <3>2. PICK s, n, all, r : /\ s = fields[a].desktop_names /\ n = fields[a].number_of_desktops
                              /\ all = fields'[a].desktop_names /\ r = property["DesktopNames"]
      OBVIOUS
    <3>3. s \in NameLists /\ n \in Nat /\ d \in Nat \ {0} /\ name \in Words
      BY <3>2, NETRootInfoAssumption DEF FollowInv, NamesInv, Values, Desktops, Words, Letters
    <3>4. all = Filled(SetAt(s, d, NoName, name), n)
      BY <3>1, <3>2
    <3>5. /\ all \in NameLists /\ all # <<>>
          /\ \A e \in Nat \ {0} : e # d => At(all, e, NoName) = At(s, e, NoName)
      BY <3>3, <3>4, FilledIs
    <3>6. GetStringlistReply(property'["DesktopNames"], "UTF8") = all
      <4>1. property'["DesktopNames"] = Property("UTF8", Join(all))
        BY <3>1, <3>2
      <4> QED BY <3>5, <4>1, NamesRead
    <3>7. PublicNames' = all /\ PublicNames = GetStringlistReply(r, "UTF8")
      BY <3>2, <3>6 DEF PublicNames
    <3>8. ASSUME NEW e \in Desktops
          PROVE  At(s, e, NoName) = At(GetStringlistReply(r, "UTF8"), e, NoName)
      <4>0. e \in Nat \ {0}
        BY NETRootInfoAssumption DEF Desktops
      <4>1. CASE r = NoProperty
        <5>1. GetArrayReply(NoProperty, "UTF8") = <<>>
          BY DEF GetArrayReply, NoProperty, Property
        <5>2. GetStringlistReply(NoProperty, "UTF8") = <<>>
          BY <5>1 DEF GetStringlistReply
        <5>3. At(s, e, NoName) = NoName
          BY <3>2, <4>0, <4>1 DEF Unnamed
        <5> QED BY <4>0, <4>1, <5>2, <5>3, NothingAt
      <4>2. CASE r # NoProperty
        <5>1. PICK q : q = "DesktopNames"
          OBVIOUS
        <5>2. q \in Reads(a) \cap Looked /\ q # "WorkArea" /\ FieldOf(q) = "desktop_names"
          BY <5>1, PropertiesAre DEF ReadsNames, Looked, FieldOf
        <5>3. Informed(a, q)
          BY <3>1, <5>2 DEF FollowInv, AllTold
        <5>4. ~Among(q, todo[a]) /\ ~Noticed(q, queue[a])
          <6>1. todo[a] = <<>> /\ \A i \in DOMAIN queue[a] : queue[a][i].type # q
            BY <5>1 DEF UpToDate
          <6>2. IsSequence(queue[a])
            BY DEF FollowInv, Orderly
          <6>3. DOMAIN queue[a] = 1..Len(queue[a])
            BY <6>2 DEF IsSequence
          <6> QED BY <6>1, <6>3, NothingAmong DEF Noticed
        <5>5. Held(q, s, r)
          BY <3>2, <4>2, <5>1, <5>2, <5>3, <5>4 DEF Informed
        <5> QED BY <5>1, <5>5 DEF Held
      <4> QED BY <4>1, <4>2
    <3>9. ASSUME NEW e \in NamesTouched PROVE e = d
      <4>1. e \in Desktops /\ At(all, e, NoName) # At(GetStringlistReply(r, "UTF8"), e, NoName)
        BY <3>7 DEF NamesTouched
      <4>2. e \in Nat \ {0}
        BY <4>1, NETRootInfoAssumption DEF Desktops
      <4> QED BY <3>5, <3>8, <4>1, <4>2
    <3> QED BY <3>9
  <2>2. CASE property'["DesktopNames"] = property["DesktopNames"]
    <3>1. PublicNames' = PublicNames
      BY <2>2 DEF PublicNames
    <3>2. NamesTouched = {}
      BY <3>1 DEF NamesTouched
    <3> QED BY <3>2
  <2> QED BY <2>1, <2>2, NamesSteps DEF FollowInv
<1>2. PICK d : NamesTouched \subseteq {d}
  BY <1>1
<1>3. IsFiniteSet({d}) /\ Cardinality({d}) = 1
  BY FS_Singleton
<1>4. Cardinality(NamesTouched) <= Cardinality({d})
  BY <1>2, <1>3, FS_Subset
<1> QED BY <1>3, <1>4

\* netwm.cpp, setDesktopName(): with every name the object has written out again, the names of
\* other desktops stay as they are, if both have seen what the other wrote last.
THEOREM OtherNamesKept == DesktopsSpec => KeepsOtherNames
<1>1. Shapes /\ Values /\ FollowInv /\ Unnamed /\ [DesktopsNext]_<<vars, announced>> =>
        [(\A a \in Agents : ReadsNames(a) /\ UpToDate(a)) => Cardinality(NamesTouched) <= 1]_vars
  <2>1. [DesktopsNext]_<<vars, announced>> => [Next]_vars
    BY DEF DesktopsNext
  <2> QED BY <2>1, OneNameTouched
<1> QED BY <1>1, FollowAlways, UnnamedAlways, PTL DEF DesktopsSpec, KeepsOtherNames
=============================================================================

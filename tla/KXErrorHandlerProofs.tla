------------------------- MODULE KXErrorHandlerProofs -------------------------
(***************************************************************************)
(* Theorems about KXErrorHandler, for any error codes, any width of the    *)
(* serials and any bounds: every error reaches the handler it is meant for *)
(* and every handler tells of the first error it accepts.                  *)
(***************************************************************************)
EXTENDS KXErrorHandler, TLAPS

-----------------------------------------------------------------------------
(* The comparison of serials                                               *)

LEMMA ModFacts ==
  ASSUME NEW M \in Nat, M > 0, NEW d \in Int
  PROVE  /\ 0 <= d /\ d < M => d % M = d
         /\ -M < d /\ d < 0 => d % M = d + M
OBVIOUS

\* KXUtils::timestampCompare() compares what the serials stand for as long as
\* they are not too far apart.
LEMMA CompareIsRight ==
  ASSUME NEW a \in Nat, NEW b \in Nat, a - b <= Reach, b - a <= Reach + 1
  PROVE  timestampCompare(a, b) >= 0 <=> b <= a
<1> DEFINE half == Modulus \div 2
           d == a - b
<1>1. Modulus \in Nat /\ half \in Nat /\ Modulus = 2 * half /\ half >= 2
  BY ModulusAssumption
<1>2. Reach = half - 2
  BY DEF Reach
<1>3. CASE b <= a
  <2>1. d % Modulus = d /\ d >= 0 /\ d < half - 1
    BY <1>1, <1>2, <1>3, ModFacts
  <2> QED BY <1>1, <1>3, <2>1 DEF timestampCompare
<1>4. CASE a < b
  <2>1. d % Modulus = d + Modulus /\ d + Modulus >= half - 1 /\ d + Modulus # 0
    BY <1>1, <1>2, <1>4, ModFacts
  <2> QED BY <1>1, <1>4, <2>1 DEF timestampCompare
<1> QED BY <1>3, <1>4

-----------------------------------------------------------------------------
(* The invariant                                                           *)

\* Handlers and errors as the proofs need them; a handler that was not in error
\* may hold anything in error_event.
Slot == [first_request : Nat, accepts : SUBSET Codes,
         old_handler : {"application", "wrapper"}, was_error : BOOLEAN,
         error_event : Error \cup {NoError}, owed : SUBSET Error]

Shapes ==
  /\ request \in Nat /\ wire \in Seq(Error) /\ handlers \in Seq(Slot)
  /\ mode \in {"idle", "wrapper", "handle", "return", "handled"}
  /\ mode # "idle" => event \in Error

\* The array is a chain of handlers, each created after the one before it and
\* none too long ago.
Chained ==
  \A i \in DOMAIN handlers :
    /\ handlers[i].first_request <= request + 1
    /\ request - handlers[i].first_request <= Reach
    /\ \A j \in DOMAIN handlers :
         i <= j => handlers[i].first_request <= handlers[j].first_request
    /\ handlers[i].old_handler = IF i = 1 THEN "application" ELSE "wrapper"

\* e is the error of a request of the display, which was not issued too long ago
\* and before the requests of all errors that are still unread.
Recent(e) ==
  e.dpy = "own" /\ e.serial <= request /\ request - e.serial <= Reach

Unread(e) == \A i \in DOMAIN wire : e.serial < wire[i].serial

Ordered ==
  /\ \A i \in DOMAIN wire : Recent(wire[i])
  /\ \A i, j \in DOMAIN wire : i < j => wire[i].serial < wire[j].serial
  /\ mode # "idle" /\ event.dpy = "own" => Recent(event) /\ Unread(event)

\* Where the thread is in handler_wrapper().
Located ==
  LET n == Len(handlers) IN
  /\ xlib = IF n = 0 THEN "application" ELSE "wrapper"
  /\ mode = "idle" => pos = n /\ ~lock /\ reached = 0
  /\ mode = "wrapper" => reached = 0 /\ n > 0 /\ (~lock => pos = n)
  /\ mode = "handle" => reached = 0 /\ n > 0 /\ pos = n - 1 /\ lock
  /\ mode = "return" => reached = Due(event) /\ pos = n - 1 /\ lock
  /\ mode = "handled" => reached = Due(event) /\ pos = n /\ ~lock

InWrapper == mode \in {"wrapper", "handle"}

\* The errors a handler has been shown: those it accepts, without the one that
\* is being handled.
Shown(i) ==
  IF InWrapper THEN handlers[i].owed \ {event} ELSE handlers[i].owed

Remembers(i) ==
  /\ handlers[i].was_error <=> Shown(i) # {}
  /\ handlers[i].was_error =>
       /\ handlers[i].error_event \in Shown(i)
       /\ \A e \in Shown(i) : handlers[i].error_event.serial <= e.serial

\* Errors come in the order of their requests.
Owed(i) ==
  /\ \A e \in handlers[i].owed : e.dpy = "own" /\ e.serial <= request /\ Unread(e)
  /\ InWrapper => /\ event \in handlers[i].owed <=>
                       i = Due(event) /\ event.code \in handlers[i].accepts
                  /\ event.dpy = "own" =>
                       \A e \in handlers[i].owed \ {event} : e.serial < event.serial

ErrorInv ==
  /\ Shapes /\ Chained /\ Ordered /\ Located
  /\ \A i \in DOMAIN handlers : Remembers(i) /\ Owed(i)

LEMMA Implied == ErrorInv => ErrorsRouted /\ FirstErrorKept
<1> SUFFICES ASSUME ErrorInv PROVE ErrorsRouted /\ FirstErrorKept
  OBVIOUS
<1>1. ErrorsRouted
  <2>1. Len(handlers) \in Nat
    BY DEF ErrorInv, Shapes
  <2> QED BY <2>1 DEF ErrorInv, Located, ErrorsRouted
<1>2. FirstErrorKept
  BY DEF ErrorInv, FirstErrorKept, Remembers, Shown, InWrapper
<1> QED BY <1>1, <1>2

-----------------------------------------------------------------------------
(* The handler an error is due to                                          *)

Candidates(e) ==
  {0} \cup {i \in 1..Len(handlers) :
              e.dpy = "own" /\ handlers[i].first_request <= e.serial}

LEMMA DueIsLargest ==
  ASSUME Len(handlers) \in Nat, NEW e, NEW m \in Candidates(e),
         \A i \in Candidates(e) : i <= m
  PROVE  Due(e) = m
<1>1. Candidates(e) \subseteq Nat
  BY DEF Candidates
<1>2. Due(e) = CHOOSE x \in Candidates(e) : \A y \in Candidates(e) : x >= y
  BY DEF Due, Max, Candidates
<1>3. \A x \in Candidates(e) : (\A y \in Candidates(e) : x >= y) => x = m
  BY <1>1
<1>4. \A y \in Candidates(e) : m >= y
  BY <1>1
<1> QED BY <1>2, <1>3, <1>4

\* No handler, or an error of another display.
LEMMA DueToApplication ==
  ASSUME Len(handlers) \in Nat, NEW e,
         \A i \in 1..Len(handlers) : ~(e.dpy = "own" /\ handlers[i].first_request <= e.serial)
  PROVE  Due(e) = 0
<1>1. Candidates(e) = {0}
  BY DEF Candidates
<1> QED BY <1>1, DueIsLargest

\* It depends on when the handlers were created only.
LEMMA DueUnchanged ==
  ASSUME handlers \in Seq(Slot), handlers' \in Seq(Slot),
         Len(handlers') = Len(handlers), NEW e,
         \A i \in DOMAIN handlers :
           handlers'[i].first_request = handlers[i].first_request
  PROVE  Due(e)' = Due(e)
<1>1. Candidates(e)' = Candidates(e)
  BY DEF Candidates
<1> QED BY <1>1 DEF Due, Max, Candidates

-----------------------------------------------------------------------------
(* The application's steps                                                 *)

LEMMA InvFacts ==
  ErrorInv =>
    /\ Shapes /\ Chained /\ Ordered /\ Located
    /\ Len(handlers) \in Nat /\ DOMAIN handlers = 1..Len(handlers)
    /\ Len(wire) \in Nat /\ DOMAIN wire = 1..Len(wire)
    /\ \A i \in DOMAIN handlers : handlers[i] \in Slot /\ Remembers(i) /\ Owed(i)
    /\ \A i \in DOMAIN wire : wire[i] \in Error
BY DEF ErrorInv, Shapes

LEMMA IssueInv == ASSUME ErrorInv, Issue PROVE ErrorInv'
<1> DEFINE n == Len(wire)
<1>1. /\ mode = "idle" /\ mode' = mode /\ handlers' = handlers /\ event' = event
      /\ UNCHANGED <<pos, xlib, lock, reached>>
      /\ request' = request + 1 /\ request \in Nat /\ InReach /\ ReadInTime
  BY InvFacts DEF Issue, Shapes
<1>2. \/ wire' = wire
      \/ \E e \in Error : e.serial = request + 1 /\ e.dpy = "own" /\ wire' = Append(wire, e)
  <2>1. ASSUME NEW c \in Codes
        PROVE  [serial |-> request + 1, code |-> c, dpy |-> "own"] \in Error
    BY <1>1 DEF Error
  <2> QED BY <2>1 DEF Issue
<1>3. PICK m \in {n, n + 1} :
        /\ wire' \in Seq(Error) /\ n \in Nat
        /\ DOMAIN wire = 1..n /\ DOMAIN wire' = 1..m
        /\ \A i \in 1..n : wire'[i] = wire[i] /\ wire[i] \in Error
        /\ m = n + 1 => wire'[m].serial = request + 1 /\ wire'[m].dpy = "own"
  <2>1. /\ wire \in Seq(Error) /\ n \in Nat /\ DOMAIN wire = 1..n
        /\ \A i \in 1..n : wire[i] \in Error
    BY InvFacts DEF Shapes
  <2>2. ASSUME NEW e \in Error, wire' = Append(wire, e)
        PROVE  /\ wire' \in Seq(Error)
               /\ DOMAIN wire' = 1..(n + 1) /\ wire'[n + 1] = e
               /\ \A i \in 1..n : wire'[i] = wire[i]
    BY <2>1, <2>2
  <2> HIDE DEF n
  <2> QED BY <1>2, <2>1, <2>2
<1>4. Shapes'
  <2>1. Shapes
    BY InvFacts
  <2>2. wire' \in Seq(Error)
    BY <1>3
  <2>3. request' \in Nat
    BY <1>1
  <2>4. handlers' = handlers /\ mode' = "idle"
    BY <1>1
  <2> QED BY <2>1, <2>2, <2>3, <2>4 DEF Shapes
<1>5. Chained'
  <2>1. ASSUME NEW i \in DOMAIN handlers
        PROVE  request + 1 - handlers[i].first_request <= Reach
    <3>1. 1 \in DOMAIN handlers /\ pos > 0
      BY <1>1, <2>1, InvFacts DEF Located
    <3>2. /\ handlers[1].first_request <= handlers[i].first_request
          /\ handlers[1].first_request \in Nat /\ handlers[i].first_request \in Nat
      BY <2>1, <3>1, InvFacts DEF Chained, Slot
    <3> QED BY <1>1, <3>1, <3>2, ModulusAssumption DEF InReach, Reach
  <2>2. \A i \in DOMAIN handlers : handlers[i].first_request \in Nat
    BY InvFacts DEF Slot
  <2> QED BY <1>1, <2>1, <2>2, InvFacts DEF Chained
<1>6. Ordered'
  <2>1. Reach \in Int /\ Reach >= 0
    BY ModulusAssumption DEF Reach
  <2>2. ASSUME NEW i \in 1..n
        PROVE  /\ wire[i].dpy = "own" /\ wire[i].serial <= request
               /\ wire[i].serial \in Nat
               /\ request + 1 - wire[i].serial <= Reach
    <3>1. /\ wire[i].dpy = "own" /\ wire[i].serial <= request
          /\ wire[i].serial \in Nat /\ wire[1].serial \in Nat
          /\ wire[1].serial <= wire[i].serial
      <4>1. Ordered
        BY InvFacts
      <4>2. wire[1] \in Error /\ wire[i] \in Error /\ 1 \in DOMAIN wire /\ i \in DOMAIN wire
        BY <1>3, <2>2
      <4>3. wire[1].serial \in Nat /\ wire[i].serial \in Nat
        BY <4>2 DEF Error
      <4>4. i = 1 \/ wire[1].serial < wire[i].serial
        BY <1>3, <2>2, <4>1, <4>2 DEF Ordered
      <4> QED BY <4>1, <4>2, <4>3, <4>4 DEF Ordered, Recent
    <3>2. wire # <<>> /\ Head(wire) = wire[1]
      BY <2>2, InvFacts DEF Shapes
    <3>3. request + 1 - wire[1].serial <= Reach
      BY <1>1, <3>2 DEF ReadInTime
    <3> QED BY <1>1, <2>1, <3>1, <3>3
  <2> HIDE DEF n
  <2>3. ASSUME NEW i \in DOMAIN wire' PROVE Recent(wire[i])'
    <3>1. CASE i \in 1..n
      BY <1>1, <1>3, <2>1, <2>2, <3>1 DEF Recent
    <3>2. CASE i = m /\ m = n + 1
      BY <1>1, <1>3, <2>1, <3>2 DEF Recent
    <3> QED BY <1>3, <3>1, <3>2
  <2>4. ASSUME NEW i \in DOMAIN wire', NEW j \in DOMAIN wire', i < j
        PROVE  wire'[i].serial < wire'[j].serial
    <3>1. i \in 1..n
      BY <1>3, <2>4
    <3>2. CASE j \in 1..n
      BY <1>3, <2>4, <3>1, <3>2, InvFacts DEF Ordered
    <3>3. CASE j = m /\ m = n + 1
      BY <1>1, <1>3, <2>2, <3>1, <3>3
    <3> QED BY <1>3, <3>2, <3>3
  <2> QED BY <1>1, <2>3, <2>4 DEF Ordered
<1>7. Located'
  BY <1>1, InvFacts DEF Located
<1> HIDE DEF n
<1>8. ASSUME NEW i \in DOMAIN handlers' PROVE Remembers(i)' /\ Owed(i)'
  <2>1. Remembers(i)'
    BY <1>1, <1>8, InvFacts DEF Remembers, Shown, InWrapper
  <2>2. ASSUME NEW e \in handlers[i].owed
        PROVE  e.dpy = "own" /\ e.serial <= request' /\ Unread(e)'
    <3>1. e.dpy = "own" /\ e.serial <= request /\ Unread(e) /\ e.serial \in Nat
      BY <1>1, <1>8, <2>2, InvFacts DEF Owed, Slot, Error
    <3>2. ASSUME NEW j \in DOMAIN wire' PROVE e.serial < wire'[j].serial
      BY <1>1, <1>3, <3>1, <3>2 DEF Unread
    <3> QED BY <1>1, <3>1, <3>2 DEF Unread
  <2> QED BY <1>1, <2>1, <2>2 DEF Owed, InWrapper
<1> QED BY <1>4, <1>5, <1>6, <1>7, <1>8 DEF ErrorInv

LEMMA CreateInv == ASSUME ErrorInv, Create PROVE ErrorInv'
<1> DEFINE n == Len(handlers)
<1>1. /\ mode = "idle" /\ mode' = mode /\ event' = event /\ pos' = pos + 1
      /\ UNCHANGED <<request, wire, lock, reached>>
      /\ xlib' = "wrapper" /\ request \in Nat /\ pos = n /\ n \in Nat
  BY InvFacts DEF Create, Shapes, Located
<1>2. PICK h \in Slot :
        /\ handlers' = Append(handlers, h)
        /\ h.first_request = request + 1 /\ h.old_handler = xlib
        /\ ~h.was_error /\ h.owed = {}
  <2>1. PICK accepts \in Accepts \cup {Codes} :
          handlers' = Append(handlers,
                        [first_request |-> request + 1, accepts |-> accepts,
                         old_handler |-> xlib, was_error |-> FALSE,
                         error_event |-> NoError, owed |-> {}])
    BY DEF Create
  <2>2. accepts \in SUBSET Codes /\ xlib \in {"application", "wrapper"}
    BY KXErrorHandlerAssumption, InvFacts DEF Located
  <2>3. [first_request |-> request + 1, accepts |-> accepts, old_handler |-> xlib,
         was_error |-> FALSE, error_event |-> NoError, owed |-> {}] \in Slot
    BY <1>1, <2>2 DEF Slot
  <2> QED BY <2>1, <2>3
<1>3. /\ handlers' \in Seq(Slot) /\ Len(handlers') = n + 1
      /\ DOMAIN handlers' = 1..(n + 1) /\ DOMAIN handlers = 1..n
      /\ \A i \in 1..n : handlers'[i] = handlers[i]
      /\ handlers'[n + 1] = h
  BY <1>2, InvFacts DEF Shapes
<1>4. Shapes'
  BY <1>1, <1>3, InvFacts DEF Shapes
<1>5. Chained'
  <2>1. \A i \in 1..n : handlers[i].first_request \in Nat
    BY InvFacts DEF Slot
  <2>2. Reach \in Int /\ Reach >= 0
    BY ModulusAssumption DEF Reach
  <2> QED BY <1>1, <1>2, <1>3, <2>1, <2>2, InvFacts DEF Chained, Located
<1>6. Ordered'
  BY <1>1, InvFacts DEF Ordered, Recent, Unread
<1>7. Located'
  BY <1>1, <1>3, InvFacts DEF Located
<1>8. ASSUME NEW i \in DOMAIN handlers' PROVE Remembers(i)' /\ Owed(i)'
  <2>1. CASE i = n + 1
    BY <1>1, <1>2, <1>3, <2>1 DEF Remembers, Owed, Shown, InWrapper
  <2>2. CASE i \in 1..n
    BY <1>1, <1>3, <2>2, InvFacts DEF Remembers, Owed, Shown, InWrapper, Unread
  <2> QED BY <1>1, <1>3, <2>1, <2>2
<1> QED BY <1>4, <1>5, <1>6, <1>7, <1>8 DEF ErrorInv

LEMMA DestroyInv == ASSUME ErrorInv, Destroy PROVE ErrorInv'
<1> DEFINE n == Len(handlers)
<1>1. /\ mode = "idle" /\ mode' = mode /\ event' = event /\ pos' = n - 1
      /\ UNCHANGED <<request, wire, lock, reached>>
      /\ n \in Nat /\ n > 0 /\ pos = n
      /\ xlib' = handlers[n].old_handler
      /\ handlers' = SubSeq(handlers, 1, n - 1)
  BY InvFacts DEF Destroy, Restored, Located
<1>2. /\ handlers' \in Seq(Slot) /\ Len(handlers') = n - 1
      /\ DOMAIN handlers' = 1..(n - 1) /\ DOMAIN handlers = 1..n
      /\ \A i \in 1..(n - 1) : handlers'[i] = handlers[i]
  BY <1>1, InvFacts DEF Shapes
<1>3. Shapes'
  BY <1>1, <1>2, InvFacts DEF Shapes
<1>4. Chained'
  BY <1>1, <1>2, InvFacts DEF Chained
<1>5. Ordered'
  BY <1>1, InvFacts DEF Ordered, Recent, Unread
<1>6. Located'
  BY <1>1, <1>2, InvFacts DEF Located, Chained
<1>7. ASSUME NEW i \in DOMAIN handlers' PROVE Remembers(i)' /\ Owed(i)'
  BY <1>1, <1>2, <1>7, InvFacts DEF Remembers, Owed, Shown, InWrapper, Unread
<1> QED BY <1>3, <1>4, <1>5, <1>6, <1>7 DEF ErrorInv

-----------------------------------------------------------------------------
(* The handling of an error                                                *)

\* Errors that are unread stay in order when the first is taken.
LEMMA ReadErrorOrder ==
  ASSUME ErrorInv, mode = "idle", wire # <<>>, wire' = Tail(wire), request' = request
  PROVE  /\ Head(wire) \in Error /\ wire' \in Seq(Error) /\ Recent(Head(wire))
         /\ \A i \in DOMAIN wire' : Head(wire).serial < wire'[i].serial
         /\ \A i \in DOMAIN wire' : Recent(wire[i])'
         /\ \A i, j \in DOMAIN wire' : i < j => wire'[i].serial < wire'[j].serial
         /\ \A e : Unread(e) => Unread(e)' /\ e.serial < Head(wire).serial
<1> DEFINE n == Len(wire)
<1>1. /\ n \in Nat /\ n > 0 /\ wire' \in Seq(Error) /\ Head(wire) \in Error
      /\ DOMAIN wire = 1..n /\ DOMAIN wire' = 1..(n - 1) /\ Head(wire) = wire[1]
      /\ \A i \in 1..(n - 1) : wire'[i] = wire[i + 1]
  BY InvFacts DEF Shapes
<1>2. Ordered
  BY InvFacts
<1> HIDE DEF n
<1>3. /\ Recent(wire[1])
      /\ \A i \in 1..(n - 1) : i + 1 \in DOMAIN wire /\ 1 \in DOMAIN wire
  BY <1>1, <1>2 DEF Ordered
<1>4. \A i \in DOMAIN wire' : Recent(wire[i])' /\ wire[1].serial < wire'[i].serial
  BY <1>1, <1>2, <1>3 DEF Ordered, Recent
<1>5. \A i, j \in DOMAIN wire' : i < j => wire'[i].serial < wire'[j].serial
  BY <1>1, <1>2, <1>3 DEF Ordered
<1>6. \A e : Unread(e) => Unread(e)' /\ e.serial < Head(wire).serial
  BY <1>1, <1>3 DEF Unread
<1> QED BY <1>1, <1>3, <1>4, <1>5, <1>6

\* Xlib calls its handler with e; the handlers learn of it as they should.
LEMMA CallHandlerInv ==
  ASSUME ErrorInv, NEW e \in Error, CallHandler(e), wire' \in Seq(Error),
         Ordered',
         \A i \in DOMAIN handlers : \A x \in handlers[i].owed :
           Unread(x)' /\ (e.dpy = "own" => x.serial < e.serial)
  PROVE  ErrorInv'
<1> DEFINE n == Len(handlers)
           Owes(i) == i = Due(e) /\ e.code \in handlers[i].accepts
<1>1. /\ mode = "idle" /\ event' = e
      /\ UNCHANGED <<request, pos, xlib, lock, reached>>
      /\ mode' = IF xlib = "wrapper" THEN "wrapper" ELSE "handled"
  BY DEF CallHandler
<1>2. /\ handlers \in Seq(Slot) /\ n \in Nat /\ DOMAIN handlers = 1..n
      /\ \A i \in 1..n : handlers[i] \in Slot
  BY InvFacts DEF Shapes
<1>3. /\ handlers' \in Seq(Slot) /\ Len(handlers') = n /\ DOMAIN handlers' = 1..n
      /\ \A i \in 1..n :
           handlers'[i] = IF Owes(i)
                          THEN [handlers[i] EXCEPT !.owed = @ \cup {e}] ELSE handlers[i]
  <2>1. handlers' = [i \in 1..n |-> IF Owes(i)
                       THEN [handlers[i] EXCEPT !.owed = @ \cup {e}] ELSE handlers[i]]
    BY <1>2 DEF CallHandler, Owe
  <2>2. \A i \in 1..n : [handlers[i] EXCEPT !.owed = @ \cup {e}] \in Slot
    BY <1>2 DEF Slot
  <2> HIDE DEF Owes
  <2>3. \A i \in 1..n : (IF Owes(i) THEN [handlers[i] EXCEPT !.owed = @ \cup {e}]
                                    ELSE handlers[i]) \in Slot
    BY <1>2, <2>2
  <2> QED BY <1>2, <2>1, <2>3
<1>4. \A i \in 1..n :
        /\ handlers'[i].first_request = handlers[i].first_request
        /\ handlers'[i].old_handler = handlers[i].old_handler
        /\ handlers'[i].accepts = handlers[i].accepts
        /\ handlers'[i].was_error = handlers[i].was_error
        /\ handlers'[i].error_event = handlers[i].error_event
        /\ Owes(i) => handlers'[i].owed = handlers[i].owed \cup {e}
        /\ ~Owes(i) => handlers'[i].owed = handlers[i].owed
  <2> HIDE DEF Owes
  <2> QED BY <1>2, <1>3 DEF Slot
<1> HIDE DEF n
<1>5. Due(e)' = Due(e)
  <2>1. Len(handlers') = Len(handlers)
    BY <1>3 DEF n
  <2>2. \A i \in DOMAIN handlers : handlers'[i].first_request = handlers[i].first_request
    BY <1>2, <1>4
  <2> QED BY <1>2, <1>3, <2>1, <2>2, DueUnchanged
<1>6. Shapes'
  BY <1>1, <1>3, InvFacts DEF Shapes
<1>7. Chained'
  <2>1. Chained
    BY InvFacts
  <2> QED BY <1>1, <1>2, <1>3, <1>4, <2>1 DEF Chained
<1>8. Located'
  <2>1. /\ Located /\ n = Len(handlers) /\ Len(handlers') = n
    BY <1>3, InvFacts DEF n
  <2>2. CASE n = 0
    <3>1. Due(e) = 0
      BY <1>2, <2>1, <2>2, DueToApplication
    <3> QED BY <1>1, <1>5, <2>1, <2>2, <3>1 DEF Located
  <2>3. CASE n # 0
    BY <1>1, <1>2, <2>1, <2>3 DEF Located
  <2> QED BY <2>2, <2>3
<1>9. ASSUME NEW i \in DOMAIN handlers' PROVE Remembers(i)' /\ Owed(i)'
  <2>1. i \in 1..n /\ Remembers(i) /\ Owed(i) /\ i \in DOMAIN handlers
    BY <1>2, <1>3, <1>9, InvFacts
  <2>2. e \notin handlers[i].owed
    <3>1. \A x \in handlers[i].owed : x.dpy = "own" /\ (e.dpy = "own" => x.serial < e.serial)
      BY <2>1 DEF Owed
    <3>2. e.serial \in Nat
      BY DEF Error
    <3> QED BY <3>1, <3>2
  <2>3. Owes(i) => e.dpy = "own"
    <3>1. ASSUME e.dpy # "own" PROVE Due(e) = 0
      <4>1. Len(handlers) \in Nat
        BY <1>2 DEF n
      <4> QED BY <3>1, <4>1, DueToApplication
    <3> QED BY <2>1, <3>1
  <2>4. CASE xlib = "wrapper"
    <3>1. InWrapper'
      BY <1>1, <2>4 DEF InWrapper
    <3>2. Shown(i)' = handlers[i].owed
      BY <1>1, <1>4, <2>1, <2>2, <3>1 DEF Shown
    <3>3. Remembers(i)'
      BY <1>1, <1>4, <2>1, <3>2 DEF Remembers, Shown, InWrapper
    <3>4. e \in handlers'[i].owed <=> Owes(i)
      BY <1>4, <2>1, <2>2
    <3>5. ASSUME NEW x \in handlers'[i].owed, x # e
          PROVE  /\ x.dpy = "own" /\ x.serial <= request /\ Unread(x)'
                 /\ e.dpy = "own" => x.serial < e.serial
      <4>1. x \in handlers[i].owed
        BY <1>4, <2>1, <3>5
      <4> QED BY <2>1, <4>1 DEF Owed
    <3>6. e.dpy = "own" => Recent(e)' /\ Unread(e)'
      BY <1>1, <2>4 DEF Ordered
    <3>7. \A x \in handlers'[i].owed : x.dpy = "own" /\ x.serial <= request' /\ Unread(x)'
      BY <1>1, <2>3, <3>4, <3>5, <3>6 DEF Recent
    <3> QED BY <1>1, <1>4, <1>5, <2>1, <3>3, <3>4, <3>5, <3>7 DEF Owed
  <2>5. CASE xlib # "wrapper"
    <3>1. n = 0
      <4>1. Located
        BY InvFacts
      <4> QED BY <2>5, <4>1 DEF Located, n
    <3> QED BY <2>1, <3>1
  <2> QED BY <2>4, <2>5
<1> QED BY <1>6, <1>7, <1>8, <1>9 DEF ErrorInv

LEMMA ReadErrorInv == ASSUME ErrorInv, ReadError PROVE ErrorInv'
<1>1. /\ wire # <<>> /\ CallHandler(Head(wire)) /\ wire' = Tail(wire)
      /\ mode = "idle" /\ event' = Head(wire) /\ request' = request
  BY DEF ReadError, CallHandler
<1>2. /\ Head(wire) \in Error /\ wire' \in Seq(Error) /\ Recent(Head(wire))
      /\ \A i \in DOMAIN wire' : Head(wire).serial < wire'[i].serial
      /\ \A i \in DOMAIN wire' : Recent(wire[i])'
      /\ \A i, j \in DOMAIN wire' : i < j => wire'[i].serial < wire'[j].serial
      /\ \A x : Unread(x) => Unread(x)' /\ x.serial < Head(wire).serial
  BY <1>1, ReadErrorOrder
<1>3. PICK e \in Error : e = Head(wire)
  BY <1>2
<1>4. Ordered'
  BY <1>1, <1>2 DEF Ordered, Recent, Unread
<1>5. \A i \in DOMAIN handlers : \A x \in handlers[i].owed : Unread(x)
  BY DEF ErrorInv, Owed
<1>6. CallHandler(e) /\ \A i \in DOMAIN handlers : \A x \in handlers[i].owed :
                         Unread(x)' /\ x.serial < e.serial
  BY <1>1, <1>2, <1>3, <1>5
<1> QED BY <1>2, <1>4, <1>6, CallHandlerInv

LEMMA ReadOtherErrorInv == ASSUME ErrorInv, ReadOtherError PROVE ErrorInv'
<1>1. PICK s \in {request, request + 1}, c \in Codes :
        CallHandler([serial |-> s, code |-> c, dpy |-> "other"])
  BY DEF ReadOtherError
<1>2. PICK e \in Error : e = [serial |-> s, code |-> c, dpy |-> "other"]
  <2>1. s \in Nat
    BY DEF ErrorInv, Shapes
  <2>2. [serial |-> s, code |-> c, dpy |-> "other"] \in Error
    BY <2>1 DEF Error
  <2> QED BY <2>2
<1>3. mode = "idle" /\ event' = e /\ UNCHANGED <<wire, request>>
  BY <1>1, <1>2 DEF CallHandler, ReadOtherError
<1>4. CallHandler(e)
  BY <1>1, <1>2
<1>5. Ordered' /\ wire' \in Seq(Error)
  <2>1. Ordered /\ Shapes
    BY InvFacts
  <2> QED BY <1>2, <1>3, <2>1 DEF Ordered, Recent, Unread, Shapes
<1>6. \A i \in DOMAIN handlers : \A x \in handlers[i].owed : Unread(x)'
  BY <1>3 DEF ErrorInv, Owed, Unread
<1> QED BY <1>2, <1>4, <1>5, <1>6, CallHandlerInv

LEMMA HandlerWrapperInv == ASSUME ErrorInv, HandlerWrapper PROVE ErrorInv'
<1>1. /\ mode = "wrapper" /\ ~lock /\ lock' = TRUE /\ pos' = pos - 1
      /\ mode' = "handle"
      /\ UNCHANGED <<request, wire, handlers, xlib, event, reached>>
  BY DEF HandlerWrapper
<1>2. Shapes' /\ Chained' /\ Ordered'
  BY <1>1 DEF ErrorInv, Shapes, Chained, Ordered, Recent, Unread
<1>3. Located'
  BY <1>1 DEF ErrorInv, Located
<1>4. ASSUME NEW i \in DOMAIN handlers' PROVE Remembers(i)' /\ Owed(i)'
  <2>1. Remembers(i) /\ Owed(i)
    BY <1>1, <1>4 DEF ErrorInv
  <2>2. Due(event)' = Due(event)
    BY <1>1 DEF Due
  <2> QED BY <1>1, <2>1, <2>2 DEF Remembers, Owed, Shown, InWrapper, Unread
<1> QED BY <1>2, <1>3, <1>4 DEF ErrorInv

\* The innermost handler takes the error exactly if it is due to it.
LEMMA ForUsIsDue ==
  ASSUME ErrorInv, mode = "handle"
  PROVE  LET n == Len(handlers) IN
         /\ ForUs(handlers[n], event) => Due(event) = n
         /\ ~ForUs(handlers[n], event) /\ n = 1 => Due(event) = 0
<1> DEFINE n == Len(handlers)
           h == handlers[n]
<1>1. /\ n \in Nat /\ n > 0 /\ n \in DOMAIN handlers /\ event \in Error
      /\ DOMAIN handlers = 1..n /\ h \in Slot
  BY InvFacts DEF Located, Shapes
<1>2. event.dpy = "own" =>
        (timestampCompare(event.serial, h.first_request) >= 0
           <=> h.first_request <= event.serial)
  <2> SUFFICES ASSUME event.dpy = "own"
               PROVE  timestampCompare(event.serial, h.first_request) >= 0
                        <=> h.first_request <= event.serial
    OBVIOUS
  <2>1. /\ event.serial <= request /\ request - event.serial <= Reach
        /\ h.first_request <= request + 1 /\ request - h.first_request <= Reach
    BY <1>1 DEF ErrorInv, Ordered, Recent, Chained
  <2>2. event.serial \in Nat /\ h.first_request \in Nat /\ request \in Nat
    BY <1>1 DEF Error, Slot, ErrorInv, Shapes
  <2>3. Reach \in Int
    BY ModulusAssumption DEF Reach
  <2> HIDE DEF h
  <2>4. event.serial - h.first_request <= Reach /\ h.first_request - event.serial <= Reach + 1
    BY <2>1, <2>2, <2>3
  <2> QED BY <2>2, <2>4, CompareIsRight
<1>3. ForUs(h, event) <=> event.dpy = "own" /\ h.first_request <= event.serial
  BY <1>2 DEF ForUs
<1> HIDE DEF h
<1>4. ASSUME ForUs(h, event) PROVE Due(event) = n
  <2>1. n \in Candidates(event) /\ \A i \in Candidates(event) : i <= n
    BY <1>1, <1>3, <1>4 DEF Candidates, h
  <2> QED BY <1>1, <2>1, DueIsLargest
<1>5. ASSUME ~ForUs(h, event), n = 1 PROVE Due(event) = 0
  <2>1. \A i \in 1..n : ~(event.dpy = "own" /\ handlers[i].first_request <= event.serial)
    BY <1>3, <1>5 DEF h
  <2> QED BY <1>1, <2>1, DueToApplication
<1> QED BY <1>4, <1>5 DEF h

LEMMA HandleInv == ASSUME ErrorInv, Handle PROVE ErrorInv'
<1>0. PICK n \in Nat : n = Len(handlers)
  BY DEF ErrorInv, Shapes
<1> DEFINE h == handlers[n]
<1>1. /\ mode = "handle" /\ pos = n - 1 /\ pos + 1 = n /\ lock /\ reached = 0
      /\ n \in Nat /\ n > 0 /\ DOMAIN handlers = 1..n /\ n \in 1..n
      /\ handlers \in Seq(Slot) /\ h \in Slot /\ event \in Error
      /\ UNCHANGED <<request, wire, pos, xlib, lock, event>>
      /\ Remembers(n) /\ Owed(n)
  BY <1>0, InvFacts DEF Handle, Located, Shapes
<1>2. CASE /\ ForUs(h, event)
           /\ handlers' = [handlers EXCEPT ![n] = Remembered(h, event)]
           /\ reached' = n /\ mode' = "return"
  <2>1. Due(event) = n
    BY <1>0, <1>1, <1>2, ForUsIsDue
  <2>2. /\ Remembered(h, event) \in Slot
        /\ Remembered(h, event).first_request = h.first_request
        /\ Remembered(h, event).old_handler = h.old_handler
        /\ Remembered(h, event).owed = h.owed
        /\ IF event.code \in h.accepts /\ ~h.was_error
             THEN /\ Remembered(h, event).was_error
                  /\ Remembered(h, event).error_event = event
             ELSE Remembered(h, event) = h
    BY <1>1 DEF Remembered, Slot
  <2>3. /\ handlers' \in Seq(Slot) /\ Len(handlers') = n /\ DOMAIN handlers' = 1..n
        /\ handlers'[n] = Remembered(h, event)
        /\ \A i \in 1..n : i # n => handlers'[i] = handlers[i]
    BY <1>1, <1>2, <2>2
  <2>4. \A i \in 1..n : /\ handlers'[i].first_request = handlers[i].first_request
                        /\ handlers'[i].old_handler = handlers[i].old_handler
                        /\ handlers'[i].owed = handlers[i].owed
    BY <2>2, <2>3
  <2>5. Due(event)' = Due(event)
    <3>1. Due(event') = Due(event)
      BY <1>1
    <3>2. \A e : Due(e)' = Due(e)
      <4>1. \A i \in DOMAIN handlers : handlers'[i].first_request = handlers[i].first_request
        BY <1>1, <2>4
      <4>2. Len(handlers') = Len(handlers)
        BY <1>0, <2>3
      <4> QED BY <1>1, <2>3, <4>1, <4>2, DueUnchanged
    <3> QED BY <1>1, <3>1, <3>2 DEF Due
  <2>6. Shapes'
    BY <1>1, <1>2, <2>3 DEF ErrorInv, Shapes
  <2> HIDE DEF h
  <2>7. Chained'
    BY <1>1, <2>3, <2>4 DEF ErrorInv, Chained
  <2>8. Ordered'
    BY <1>1, <1>2 DEF ErrorInv, Ordered, Recent, Unread
  <2>9. Located'
    <3>1. Len(handlers') = n /\ Len(handlers) = n
      BY <1>0, <2>3
    <3> QED BY <1>1, <1>2, <2>1, <2>5, <3>1 DEF ErrorInv, Located
  <2>10. ASSUME NEW i \in DOMAIN handlers' PROVE Owed(i)'
    BY <1>1, <1>2, <2>3, <2>4, <2>10 DEF ErrorInv, Owed, InWrapper, Unread
  <2>11. ASSUME NEW i \in DOMAIN handlers', i # n PROVE Remembers(i)'
    <3>1. i \in DOMAIN handlers /\ handlers'[i] = handlers[i]
      BY <1>1, <2>3, <2>11
    <3>2. Remembers(i) /\ event \notin handlers[i].owed
      BY <1>1, <2>1, <2>11, <3>1 DEF ErrorInv, Owed, InWrapper
    <3>3. Shown(i)' = Shown(i)
      BY <1>1, <1>2, <3>1, <3>2 DEF Shown, InWrapper
    <3> QED BY <3>1, <3>2, <3>3 DEF Remembers
  <2>12. Remembers(n)'
    <3>1. Shown(n)' = h.owed /\ Shown(n) = h.owed \ {event}
      BY <1>1, <1>2, <2>4 DEF Shown, InWrapper, h
    <3>2. CASE event.code \notin h.accepts
      <4>1. Shown(n)' = Shown(n) /\ handlers'[n] = handlers[n]
        BY <1>1, <2>1, <2>2, <2>3, <3>1, <3>2 DEF Owed, InWrapper, h
      <4> QED BY <1>1, <4>1 DEF Remembers
    <3>3. CASE event.code \in h.accepts
      <4>1. event \in h.owed /\ event.dpy = "own"
        BY <1>1, <2>1, <3>3 DEF Owed, InWrapper, h
      <4>2. \A e \in h.owed \ {event} : e.serial < event.serial /\ e \in Error
        BY <1>1, <4>1 DEF Owed, InWrapper, Slot, h
      <4>3. \A e \in h.owed : e.serial \in Nat
        BY <1>1 DEF Slot, Error
      <4>4. CASE ~h.was_error
        <5>1. h.owed = {event} /\ handlers'[n].was_error /\ handlers'[n].error_event = event
          BY <1>1, <2>2, <2>3, <3>1, <3>3, <4>1, <4>4 DEF Remembers, h
        <5> QED BY <3>1, <4>3, <5>1 DEF Remembers
      <4>5. CASE h.was_error
        <5>1. /\ handlers'[n] = h /\ h.error_event \in h.owed \ {event}
              /\ \A e \in h.owed \ {event} : h.error_event.serial <= e.serial
          BY <1>1, <2>2, <2>3, <3>1, <4>5 DEF Remembers, h
        <5>2. \A e \in h.owed : h.error_event.serial <= e.serial
          BY <4>2, <4>3, <5>1
        <5> QED BY <3>1, <4>1, <4>5, <5>1, <5>2 DEF Remembers
      <4> QED BY <4>4, <4>5
    <3> QED BY <3>2, <3>3
  <2>13. ASSUME NEW i \in DOMAIN handlers' PROVE Remembers(i)' /\ Owed(i)'
    BY <2>10, <2>11, <2>12, <2>13
  <2> QED BY <2>6, <2>7, <2>8, <2>9, <2>13 DEF ErrorInv
<1>3. CASE /\ ~ForUs(h, event)
           /\ mode' = IF h.old_handler = "wrapper" THEN "wrapper" ELSE "return"
           /\ UNCHANGED <<handlers, reached>>
  <2>1. h.old_handler # "wrapper" => n = 1 /\ Due(event) = 0
    <3>1. h.old_handler # "wrapper" => n = 1
      BY <1>1 DEF ErrorInv, Chained
    <3> QED BY <1>0, <1>1, <1>3, <3>1, ForUsIsDue
  <2>2. Due(event)' = Due(event)
    BY <1>1, <1>3 DEF Due
  <2> HIDE DEF h
  <2>3. Shapes' /\ Chained' /\ Ordered'
    BY <1>1, <1>3 DEF ErrorInv, Shapes, Chained, Ordered, Recent, Unread
  <2>4. Located'
    BY <1>1, <1>3, <2>1, <2>2 DEF ErrorInv, Located
  <2>5. ASSUME NEW i \in DOMAIN handlers' PROVE Remembers(i)' /\ Owed(i)'
    <3>1. Remembers(i) /\ Owed(i) /\ i \in DOMAIN handlers
      BY <1>3, <2>5 DEF ErrorInv
    <3>2. Owed(i)'
      BY <1>1, <1>3, <2>2, <3>1 DEF Owed, InWrapper, Unread
    <3>3. CASE mode' = "wrapper"
      <4>1. Shown(i)' = Shown(i) /\ handlers' = handlers
        BY <1>1, <1>3, <3>3 DEF Shown, InWrapper
      <4> QED BY <3>1, <3>2, <4>1 DEF Remembers
    <3>4. CASE mode' = "return"
      <4>1. event \notin handlers[i].owed
        <5>1. h.old_handler # "wrapper" /\ Due(event) = 0 /\ n = 1
          BY <1>3, <2>1, <3>4
        <5>2. i = 1
          BY <1>1, <3>1, <5>1
        <5> QED BY <1>1, <3>1, <5>1, <5>2 DEF Owed, InWrapper
      <4>2. Shown(i)' = Shown(i)
        BY <1>1, <1>3, <3>4, <4>1 DEF Shown, InWrapper
      <4> QED BY <1>3, <3>1, <3>2, <4>2 DEF Remembers
    <3> QED BY <1>3, <3>2, <3>3, <3>4
  <2> QED BY <2>3, <2>4, <2>5 DEF ErrorInv
<1> QED BY <1>1, <1>2, <1>3 DEF Handle

\* The error is handled: nothing any handler knows changes.
LEMMA FinishInv ==
  ASSUME ErrorInv, WrapperReturn \/ Resume
  PROVE  ErrorInv'
<1>1. /\ mode \in {"return", "handled"} /\ mode' \in {"handled", "idle"}
      /\ UNCHANGED <<request, wire, handlers, xlib>>
      /\ mode' # "idle" => event' = event /\ mode = "return"
  BY DEF WrapperReturn, Resume
<1>2. Shapes' /\ Chained' /\ Ordered'
  BY <1>1 DEF ErrorInv, Shapes, Chained, Ordered, Recent, Unread
<1>3. \A e : Due(e)' = Due(e)
  BY <1>1 DEF Due
<1>4. Located'
  <2>1. CASE WrapperReturn
    <3>1. Due(event)' = Due(event)
      BY <1>1, <2>1 DEF Due, WrapperReturn
    <3> QED BY <1>1, <2>1, <3>1, InvFacts DEF WrapperReturn, Located
  <2>2. CASE Resume
    BY <1>1, <2>2 DEF Resume, ErrorInv, Located
  <2> QED BY <2>1, <2>2
<1>5. ASSUME NEW i \in DOMAIN handlers' PROVE Remembers(i)' /\ Owed(i)'
  BY <1>1, <1>5 DEF ErrorInv, Remembers, Owed, Shown, InWrapper, Unread
<1> QED BY <1>2, <1>4, <1>5 DEF ErrorInv

-----------------------------------------------------------------------------
(* The theorems                                                            *)

LEMMA InitInv == Init => ErrorInv
<1> SUFFICES ASSUME Init PROVE ErrorInv
  OBVIOUS
<1>1. DOMAIN handlers = {} /\ DOMAIN wire = {} /\ Len(handlers) = 0
  BY DEF Init
<1>2. handlers \in Seq(Slot) /\ wire \in Seq(Error)
  BY DEF Init
<1> QED BY <1>1, <1>2 DEF Init, ErrorInv, Shapes, Chained, Ordered, Located

LEMMA NextInv == ErrorInv /\ [Next]_vars => ErrorInv'
<1> SUFFICES ASSUME ErrorInv, [Next]_vars PROVE ErrorInv'
  OBVIOUS
<1>1. CASE UNCHANGED vars
  <2>1. Due(event)' = Due(event)
    BY <1>1 DEF vars, Due
  <2>2. Shapes' /\ Chained' /\ Ordered' /\ Located'
    BY <1>1, <2>1
       DEF vars, ErrorInv, Shapes, Chained, Ordered, Recent, Unread, Located
  <2>3. ASSUME NEW i \in DOMAIN handlers' PROVE Remembers(i)' /\ Owed(i)'
    BY <1>1, <2>1, <2>3
       DEF vars, ErrorInv, Remembers, Owed, Shown, InWrapper, Unread
  <2> QED BY <2>2, <2>3 DEF ErrorInv
<1> QED BY <1>1, IssueInv, CreateInv, DestroyInv, ReadErrorInv, ReadOtherErrorInv,
           HandlerWrapperInv, HandleInv, FinishInv DEF Next

LEMMA ErrorInvAlways == Spec => []ErrorInv
BY InitInv, NextInv, PTL DEF Spec

\* handler_wrapper() and handle(): an error is taken by the innermost handler that
\* existed when its request was issued, whatever its serial wrapped to, and
\* handlers[-1] is never used.
THEOREM ErrorsAlwaysRouted == Spec => []ErrorsRouted
BY ErrorInvAlways, Implied, PTL

\* error() and errorEvent() tell of the first error the handler accepts.
THEOREM FirstErrorAlwaysKept == Spec => []FirstErrorKept
BY ErrorInvAlways, Implied, PTL
=============================================================================

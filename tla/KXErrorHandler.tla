---------------------------- MODULE KXErrorHandler ----------------------------
(***************************************************************************)
(* KXErrorHandler (src/kxerrorhandler.cpp): a stack of objects that catch  *)
(* the errors of the requests issued while they exist.  The server answers *)
(* later than a request is issued, so the error of a request may be read   *)
(* when handlers created after it exist, or when the handler meant for it  *)
(* is gone.  One thread creates handlers for its display; any call of Xlib *)
(* may read an error, of another display of the process too, and then      *)
(* calls Xlib's error handler, which is handler_wrapper() as long as there *)
(* is a KXErrorHandler.                                                    *)
(*                                                                         *)
(* Serials are not reduced here; the code's comparison reduces them.       *)
(***************************************************************************)
EXTENDS KXUtils, Sequences, FiniteSetsExt

CONSTANTS Codes,        \* error codes
          Accepts,      \* the codes a handler's function may return non-zero for
          MaxRequests,  \* bound on the requests issued
          MaxInFlight,  \* bound on the errors not read yet
          MaxDepth      \* bound on the nesting of handlers

ASSUME KXErrorHandlerAssumption == Accepts \subseteq SUBSET Codes

VARIABLES request,   \* requests issued on the display
          wire,      \* errors sent by the server and not read yet
          handlers,  \* the array handlers[0..size)
          pos,       \* how many of them are on the stack
          xlib,      \* the error handler Xlib calls
          lock,      \* s_lock is held
          event,     \* the error being handled
          mode,      \* where the thread is in the handling of it
          reached    \* ghost: who took the error, 0 is the application

vars == <<request, wire, handlers, pos, xlib, lock, event, mode, reached>>

Error == [serial : Nat, code : Codes, dpy : {"own", "other"}]
NoError == [serial |-> 0, code |-> CHOOSE c \in Codes : TRUE, dpy |-> "own"]

\* A KXErrorHandler.  A handler without a function accepts every code.  owed is a
\* ghost: the errors it has accepted according to the order of the requests.
Handler == [first_request : Nat, accepts : SUBSET Codes,
            old_handler : {"application", "wrapper"},
            was_error : BOOLEAN, error_event : Error, owed : SUBSET Error]

Init ==
  /\ request = 0 /\ wire = <<>> /\ handlers = <<>> /\ pos = 0
  /\ xlib = "application" /\ lock = FALSE /\ event = NoError
  /\ mode = "idle" /\ reached = 0

-----------------------------------------------------------------------------
(* What the application does between two errors *)

\* Bound: a handler sees fewer than 2^31 requests while it exists.
InReach == pos > 0 => request + 1 - handlers[1].first_request <= Reach

\* Bound: no error stays unread over more than 2^31 requests.
ReadInTime == wire # <<>> => request + 1 - Head(wire).serial <= Reach

\* A request; the server answers it with an error, or not.
Issue ==
  /\ mode = "idle" /\ request < MaxRequests /\ InReach /\ ReadInTime
  /\ request' = request + 1
  /\ \/ wire' = wire
     \/ /\ Len(wire) < MaxInFlight
        /\ \E c \in Codes :
             wire' = Append(wire, [serial |-> request + 1, code |-> c, dpy |-> "own"])
  /\ UNCHANGED <<handlers, pos, xlib, lock, event, mode, reached>>

\* KXErrorHandler(), without a function or with one that accepts some codes.
Create ==
  /\ mode = "idle" /\ pos < MaxDepth
  /\ \E accepts \in Accepts \cup {Codes} :
       handlers' = Append(handlers,
                     [first_request |-> request + 1, accepts |-> accepts,
                      old_handler |-> xlib, was_error |-> FALSE,
                      error_event |-> NoError, owed |-> {}])
  /\ pos' = pos + 1
  /\ xlib' = "wrapper"
  /\ UNCHANGED <<request, wire, lock, event, mode, reached>>

\* ~KXErrorHandler(), in the reverse order of creation.
Restored(h) == h.old_handler

Destroy ==
  /\ mode = "idle" /\ pos > 0
  /\ xlib' = Restored(handlers[pos])
  /\ handlers' = SubSeq(handlers, 1, pos - 1)
  /\ pos' = pos - 1
  /\ UNCHANGED <<request, wire, lock, event, mode, reached>>

-----------------------------------------------------------------------------
(* An error is read *)

\* The innermost handler of the display created before the request of e was
\* issued, 0 if there is none.
Due(e) == Max({0} \cup {i \in 1..Len(handlers) :
                 e.dpy = "own" /\ handlers[i].first_request <= e.serial})

Owe(e) ==
  [i \in DOMAIN handlers |->
     IF i = Due(e) /\ e.code \in handlers[i].accepts
     THEN [handlers[i] EXCEPT !.owed = @ \cup {e}] ELSE handlers[i]]

\* Xlib calls its error handler.
CallHandler(e) ==
  /\ mode = "idle"
  /\ event' = e
  /\ handlers' = Owe(e)
  /\ mode' = IF xlib = "wrapper" THEN "wrapper" ELSE "handled"
  /\ UNCHANGED <<request, pos, xlib, lock, reached>>

ReadError ==
  /\ wire # <<>>
  /\ CallHandler(Head(wire))
  /\ wire' = Tail(wire)

\* An error of another display, whose serials have nothing to do with ours; one of
\* the most recent serials stands for them.
ReadOtherError ==
  /\ \E s \in {request, request + 1}, c \in Codes :
       CallHandler([serial |-> s, code |-> c, dpy |-> "other"])
  /\ UNCHANGED wire

\* handler_wrapper(): std::lock_guard waits for ever if the thread has s_lock.
HandlerWrapper ==
  /\ mode = "wrapper" /\ ~lock
  /\ lock' = TRUE
  /\ pos' = pos - 1
  /\ mode' = "handle"
  /\ UNCHANGED <<request, wire, handlers, xlib, event, reached>>

\* The condition of handle(): the request is not older than the handler.
ForUs(h, e) == e.dpy = "own" /\ timestampCompare(e.serial, h.first_request) >= 0

Remembered_last(h, e) ==
  IF e.code \in h.accepts
  THEN [h EXCEPT !.was_error = TRUE, !.error_event = e] ELSE h

\* Only the first accepted error is remembered.
Remembered(h, e) ==
  IF e.code \in h.accepts /\ ~h.was_error
  THEN [h EXCEPT !.was_error = TRUE, !.error_event = e] ELSE h

\* handle() of handlers[pos]
Handle ==
  /\ mode = "handle"
  /\ LET h == handlers[pos + 1]
     IN  \/ /\ ForUs(h, event)
            /\ handlers' = [handlers EXCEPT ![pos + 1] = Remembered(h, event)]
            /\ reached' = pos + 1
            /\ mode' = "return"
         \/ /\ ~ForUs(h, event)
            /\ mode' = IF h.old_handler = "wrapper" THEN "wrapper" ELSE "return"
            /\ UNCHANGED <<handlers, reached>>
  /\ UNCHANGED <<request, wire, pos, xlib, lock, event>>

\* The end of handler_wrapper()
WrapperReturn ==
  /\ mode = "return"
  /\ pos' = pos + 1
  /\ lock' = FALSE
  /\ mode' = "handled"
  /\ UNCHANGED <<request, wire, handlers, xlib, event, reached>>

\* Xlib goes on with the call that has read the error.
Resume ==
  /\ mode = "handled"
  /\ mode' = "idle" /\ event' = NoError /\ reached' = 0
  /\ UNCHANGED <<request, wire, handlers, pos, xlib, lock>>

Next == Issue \/ Create \/ Destroy \/ ReadError \/ ReadOtherError
          \/ HandlerWrapper \/ Handle \/ WrapperReturn \/ Resume

Spec == Init /\ [][Next]_vars

-----------------------------------------------------------------------------
(* Properties *)

\* The array, the stack pointer and the lock keep their types; between two errors
\* every handler of the array is on the stack and the lock is free.
TypeOK ==
  /\ request \in 0..MaxRequests
  /\ wire \in Seq(Error) /\ handlers \in Seq(Handler)
  /\ pos \in 0..Len(handlers)
  /\ xlib \in {"application", "wrapper"} /\ lock \in BOOLEAN
  /\ event \in Error /\ reached \in 0..Len(handlers)
  /\ mode \in {"idle", "wrapper", "handle", "return", "handled"}
  /\ mode = "idle" => pos = Len(handlers) /\ ~lock

\* An error that has been handled was taken by the innermost handler that existed
\* when its request was issued and still exists, by the application if there is
\* none: handlers created later leave it alone, whatever the serials wrapped to,
\* and a handler that is gone hands its errors to the next outer one.  On the way
\* handler_wrapper() is never entered without a handler on the stack (handlers[-1]).
ErrorsRouted ==
  /\ mode = "handled" => reached = Due(event)
  /\ mode = "wrapper" /\ ~lock => pos > 0

\* error() and errorEvent() of every handler tell of the first error it accepts of
\* the requests issued in its scope, and of no other.
FirstErrorKept ==
  mode = "handled" =>
    \A i \in DOMAIN handlers :
      LET h == handlers[i]
      IN  /\ h.was_error <=> h.owed # {}
          /\ h.was_error => /\ h.error_event \in h.owed
                            /\ \A e \in h.owed : h.error_event.serial <= e.serial

\* kxerrorhandler_p.h: "The handlers may be nested" and "Errors for older requests
\* will be passed to previous error handler": the previous handler, when it is
\* another KXErrorHandler, can be entered.
OlderErrorsPassed == mode = "wrapper" => ~lock
=============================================================================

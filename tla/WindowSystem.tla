---------------------------- MODULE WindowSystem ----------------------------
(***************************************************************************)
(* WindowSystem of the Wayland plugin                                      *)
(* (src/platforms/wayland/windowsystem.cpp, called by KWaylandExtras and   *)
(* KWindowSystem): exported and imported toplevels, tags, activation tokens*)
(* and the showing desktop mode.                                           *)
(*                                                                         *)
(* foreign[w] holds what hangs on the platform window of w:                *)
(*   exported   the surface exported, 0 if none, and its handle when the   *)
(*              compositor has sent it (the handle of surface s is s);     *)
(*   waiting    futures that wait for the handle;                          *)
(*   imports    WaylandXdgForeignImportedV2 objects, number and handle;    *)
(*   imported   the dynamic property: the number of one of them, or 0;     *)
(*   pending    handles of setMainWindow() to import at surfaceRoleCreated;*)
(*   parent     the import whose toplevel is the parent of the surface.    *)
(* A future is settled with a handle or cancelled with its promise.        *)
(***************************************************************************)
EXTENDS QWaylandWindow, FiniteSetsExt

CONSTANTS Handles, Tags, MaxTokens, MaxImports

VARIABLES foreign,
          cookie,       \* cookie[w]: tag, and the platform window it listens to
          tag,          \* tag[w]: what the compositor knows of the toplevel
          asked,        \* asked[w]: the handle of the last setMainWindow()
          late,         \* windows with a toplevel that setMainWindow() came too late for
          failed,       \* what the code takes for granted and was not so
          token,        \* XDG_ACTIVATION_TOKEN, 0 if it is not set
          requests,     \* requests[n]: the state of the n-th request for a token
          activations,  \* tokens used for activate()
          showing       \* the showing desktop mode: real, on the wire, known

NoHandle == "none"
NoTag == "none"
NoForeign == [exported |-> 0, handle |-> 0, waiting |-> 0, imports |-> {}, imported |-> 0,
              pending |-> <<>>, parent |-> 0]
NoCookie == [tag |-> NoTag, platform |-> 0]

foreignVars == <<foreign, asked, late>>
tagVars == <<cookie, tag>>
tokenVars == <<token, requests, activations>>

SystemInit ==
  /\ foreign = [w \in Windows |-> NoForeign] /\ asked = [w \in Windows |-> NoHandle]
  /\ late = {} /\ failed = {}
  /\ cookie = [w \in Windows |-> NoCookie] /\ tag = [w \in Windows |-> NoTag]
  /\ token = 0 /\ requests = <<>> /\ activations = <<>>
  /\ showing = [real |-> FALSE, wire |-> <<>>, known |-> FALSE]

-----------------------------------------------------------------------------

\* Mutant: a handle that has come already is not looked at.
exportToplevel_waits(f, q) ==
  IF "exporter" \notin globals \/ (f.exported = 0 /\ xdgToplevelForWindow(q) = 0) THEN f
  ELSE [f EXCEPT !.exported = IF @ = 0 THEN surfaceForWindow(q) ELSE @, !.waiting = @ + 1]

\* exportToplevel() on f, whose window is q after create(): the first call makes
\* the object, later ones share it.  Windows without a toplevel get an empty
\* handle at once and nothing changes.
exportToplevel(f, q) ==
  IF "exporter" \notin globals \/ (f.exported = 0 /\ xdgToplevelForWindow(q) = 0) THEN f
  ELSE IF f.handle # 0 THEN f
  ELSE [f EXCEPT !.exported = IF @ = 0 THEN surfaceForWindow(q) ELSE @, !.waiting = @ + 1]

\* unexportToplevel(): the object is deleted, and with it the promises of those
\* that wait for the handle.
unexportToplevel(f) == [f EXCEPT !.exported = 0, !.handle = 0, !.waiting = 0]

\* zxdg_exported_v2_handle() and handleReceived()
HandleReceived(f) == [f EXCEPT !.handle = f.exported, !.waiting = 0]

\* Imports with these numbers are deleted, by setMainWindow() or by
\* zxdg_imported_v2_destroyed(): destroyed() clears the property, and the compositor
\* unsets the parent.
DeleteImports(f, numbers) ==
  [f EXCEPT !.imports = {j \in @ : j.number \notin numbers}, !.imported = 0,
            !.parent = IF @ \in numbers THEN 0 ELSE @]

\* The numbers of imports of f that are in use
Numbers(f) == {j.number : j \in f.imports}
FreeNumber(f) == Min((1 .. Cardinality(f.imports) + 1) \ Numbers(f))

\* doSetMainWindow() on f, whose window is q.  The assertion that the property is
\* not valid is compiled out: the new import takes the place of the old one.
doSetMainWindow(f, q, h) ==
  IF xdgToplevelForWindow(q) = 0 \/ "importer" \notin globals THEN f
  ELSE LET n == FreeNumber(f)
       IN [f EXCEPT !.imports = @ \union {[number |-> n, handle |-> h]}, !.imported = n, !.parent = n]

AssertionFails(f, q) ==
  xdgToplevelForWindow(q) # 0 /\ "importer" \in globals /\ f.imported # 0

\* setMainWindow(): an import of another handle is deleted first.
DropImported(f, h) ==
  IF f.imported # 0 /\ [number |-> f.imported, handle |-> h] \notin f.imports
    THEN DeleteImports(f, {f.imported}) ELSE f

setMainWindow(f, q, h) ==
  LET dropped == DropImported(f, h)
  IN IF h = NoHandle THEN dropped
     ELSE IF xdgToplevelForWindow(q) # 0 THEN doSetMainWindow(dropped, q, h)
     ELSE [dropped EXCEPT !.pending = Append(@, h)]

\* Mutant: only the first connection runs.
RolePending_first(f, q) ==
  IF f.pending = <<>> THEN f ELSE doSetMainWindow(f, q, Head(f.pending))

\* All slots of surfaceRoleCreated(), in the order of the calls that connected them
RolePending(f, q) ==
  LET after[n \in 0 .. Len(f.pending)] ==
        IF n = 0 THEN f ELSE doSetMainWindow(after[n - 1], q, f.pending[n])
  IN after[Len(f.pending)]

-----------------------------------------------------------------------------

\* What becomes of it when the window w becomes q.  The objects die with the
\* platform window; a new surface has no parent.
ForeignAfter(f, w, q) ==
  LET f1 == IF q.platform = 0 THEN NoForeign ELSE f
      f2 == IF SurfaceDestroyed(w, q) THEN [f1 EXCEPT !.parent = 0] ELSE f1
  IN IF RoleCreated(w, q) THEN RolePending(f2, q) ELSE f2

FailedAfter(f, w, q) ==
  LET twice == RoleCreated(w, q) /\ "importer" \in globals /\ f.pending # <<>>
                 /\ (f.imported # 0 \/ Len(f.pending) > 1)
      unbound == RoleCreated(w, q) /\ "tags" \notin globals
                   /\ cookie[w].tag # NoTag /\ cookie[w].platform = q.platform
  IN (IF twice THEN {"imported"} ELSE {}) \union (IF unbound THEN {"tags"} ELSE {})

\* The tag is assigned to each toplevel of the platform window it was set for.
TagAfter(w, q) ==
  CASE RoleCreated(w, q) /\ "tags" \in globals /\ cookie[w].platform = q.platform -> cookie[w].tag
    [] q.role /\ window[w].role -> tag[w]
    [] OTHER -> NoTag

CookieAfter(w, q) == IF ~q.alive THEN NoCookie ELSE cookie[w]

\* setXdgToplevelTag(), setXdgToplevelDescription(): a new cookie replaces the old
\* one, with its connection.
setXdgToplevelTag(w, q, t) ==
  /\ cookie' = [cookie EXCEPT ![w] = [tag |-> t, platform |-> q.platform]]
  /\ tag' = [tag EXCEPT ![w] = IF q.role /\ "tags" \in globals THEN t ELSE @]
  /\ failed' = IF q.role /\ "tags" \notin globals THEN failed \union {"tags"} ELSE failed

-----------------------------------------------------------------------------

\* xdgActivationToken() and requestToken(): without the protocol the answer is
\* empty (token 0), at once or from a timer.
RequestToken(kind) ==
  /\ Len(requests) < MaxTokens
  /\ requests' = Append(requests, [kind |-> kind, state |->
       IF "activation" \in globals THEN "sent"
       ELSE IF kind = "signal" THEN "timer" ELSE "empty"])
  /\ UNCHANGED <<token, activations>>

\* done(), or the timer
TokenArrived(n) ==
  /\ \/ requests[n].state = "sent" /\ "activation" \in globals
        /\ requests' = [requests EXCEPT ![n].state = "done"]
     \/ requests[n].state = "timer" /\ requests' = [requests EXCEPT ![n].state = "empty"]
  /\ UNCHANGED <<token, activations>>

\* An application passes a token it got on to this process, which has it once.
setCurrentToken(n) ==
  /\ requests[n].state = "done"
  /\ token' = n /\ requests' = [requests EXCEPT ![n].state = "current"]
  /\ UNCHANGED activations

\* Mutant: without qunsetenv().
consumeCurrentActivationToken_kept == UNCHANGED token

consumeCurrentActivationToken == token' = 0

\* activateWindow() with the token of the environment, which may be empty
activateWindow(q) ==
  /\ surfaceForWindow(q) # 0 /\ "activation" \in globals
  /\ activations' = IF token = 0 THEN activations ELSE Append(activations, token)
  /\ consumeCurrentActivationToken
  /\ UNCHANGED requests

-----------------------------------------------------------------------------

\* setShowingDesktop(): the compositor takes over the mode and tells all clients.
setShowingDesktop(b) ==
  /\ "plasma" \in globals
  /\ showing' = [showing EXCEPT !.real = b, !.wire = Append(@, b)]

\* Mutant: the mode is never left.
ShowDesktopChanged_on ==
  /\ showing.wire # <<>>
  /\ showing' = [showing EXCEPT !.known = @ \/ Head(showing.wire), !.wire = Tail(@)]

ShowDesktopChanged ==
  /\ showing.wire # <<>>
  /\ showing' = [showing EXCEPT !.known = Head(showing.wire), !.wire = Tail(@)]

showingDesktop == "plasma" \in globals /\ showing.known

\* A new global tells the mode at once; what was on the wire of an old one is lost.
ShowingActiveChanged(g, available) ==
  showing' = IF g # "plasma" THEN showing
             ELSE [showing EXCEPT !.wire = IF g \in available THEN <<showing.real>> ELSE <<>>]

-----------------------------------------------------------------------------

HandleOf(f, i) == IF i = 0 THEN NoHandle ELSE (CHOOSE j \in f.imports : j.number = i).handle

SystemTypeOK ==
  /\ foreign \in [Windows -> [exported : 0 .. next - 1, handle : 0 .. next - 1, waiting : Nat,
                              imports : SUBSET [number : 1 .. MaxImports, handle : Handles],
                              imported : 0 .. MaxImports, pending : Seq(Handles),
                              parent : 0 .. MaxImports]]
  /\ \A w \in Windows :
       /\ foreign[w].handle \in {0, foreign[w].exported}
       /\ {foreign[w].imported, foreign[w].parent} \subseteq Numbers(foreign[w]) \union {0}
       /\ Cardinality(Numbers(foreign[w])) = Cardinality(foreign[w].imports)
  /\ cookie \in [Windows -> [tag : Tags \union {NoTag}, platform : 0 .. next - 1]]
  /\ tag \in [Windows -> Tags \union {NoTag}]
  /\ asked \in [Windows -> Handles \union {NoHandle}]
  /\ late \in SUBSET Windows /\ failed \in SUBSET {"imported", "tags"}
  /\ token \in 0 .. MaxTokens
  /\ showing \in [real : BOOLEAN, wire : Seq(BOOLEAN), known : BOOLEAN]
=============================================================================

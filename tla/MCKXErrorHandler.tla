--------------------------- MODULE MCKXErrorHandler ---------------------------
(***************************************************************************)
(* Two error codes and a function that ignores one of them.  Serials wrap  *)
(* at 10, so that the counters wrap within the bound on the requests.      *)
(***************************************************************************)
EXTENDS KXErrorHandler

CodesDef == {"BadWindow", "BadMatch"}
AcceptsDef == {{"BadMatch"}}
=============================================================================

--------------------------- MODULE MCKStartupInfo ---------------------------
(***************************************************************************)
(* Payloads and windows that tell the branches of KStartupInfo apart.      *)
(***************************************************************************)
EXTENDS KStartupInfo

MCPayloads ==
  {EmptyData,
   [EmptyData EXCEPT !.silent = "Yes"],
   [EmptyData EXCEPT !.silent = "No", !.pids = {1}, !.hostname = "h"],
   [EmptyData EXCEPT !.wmclass = "0", !.bin = "a", !.pids = {2}]}

AnyWindow == [id |-> {}, pid |-> 0, hostname |-> "h", class |-> {"b"},
              special |-> FALSE]

MCWindowKinds ==
  {AnyWindow,
   [AnyWindow EXCEPT !.special = TRUE],
   [AnyWindow EXCEPT !.id = {1}],
   [AnyWindow EXCEPT !.pid = 1],
   [AnyWindow EXCEPT !.class = {"a", "b"}]}

MCFlagChoices == SUBSET Flags
=============================================================================

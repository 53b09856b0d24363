------------------------- MODULE MCKStartupInfoSender -------------------------
(***************************************************************************)
(* Names with every arrangement of up to two spaces, quotes and            *)
(* backslashes, next to fields that could be damaged by them.              *)
(***************************************************************************)
EXTENDS KStartupInfoSender

Strings(n) == UNION {[1..k -> {Space, Quote, Backslash}] : k \in 0..n}

PayloadsDef ==
  {[EmptyInfo EXCEPT !.name = s, !.description = <<"b">>] : s \in Strings(2)}
    \cup {[EmptyInfo EXCEPT !.bin = s] : s \in {<<"a">>, <<Quote>>}}
    \cup {[EmptyInfo EXCEPT !.name = <<Backslash, Space, Space, Quote>>, !.icon = <<"i", Space>>,
                            !.desktop = d, !.pids = {3, 4}, !.screen = 0,
                            !.silent = "No", !.hostname = <<"h">>] : d \in {OnAllDesktops, 1}}
    \cup {[EmptyInfo EXCEPT !.icon = <<Quote>>, !.wmclass = <<"w">>, !.silent = "Yes",
                            !.xinerama = 1, !.application_id = <<"p">>]}

ChangesDef ==
  {[EmptyInfo EXCEPT !.name = <<Quote, Backslash>>, !.pids = {2}, !.desktop = 2]}
    \cup {[EmptyInfo EXCEPT !.pids = pids] : pids \in {{3}, {3, 4}}}

ForeignNamesDef == {<<"x", Quote, Space, Backslash>>}
=============================================================================

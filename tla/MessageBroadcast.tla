-------------------------- MODULE MessageBroadcast --------------------------
(***************************************************************************)
(* What KXMessages promises: messages are published one at a time, each to *)
(* the set of receivers that were listening when it was begun, and every   *)
(* receiver gets the messages addressed to it whole, once and in the order *)
(* of publication.                                                         *)
(***************************************************************************)
EXTENDS Integers, Sequences

CONSTANTS Text,       \* what a receiver can be given
          Receivers

VARIABLES log,        \* the messages published so far and their addressees
          got         \* got[r]: the texts given to r so far

vars == <<log, got>>

\* The texts addressed to r, in order.
AddressedTo(l, r) ==
  LET upTo[i \in 0..Len(l)] ==
        IF i = 0 THEN <<>>
        ELSE IF r \in l[i].to THEN Append(upTo[i - 1], l[i].text)
        ELSE upTo[i - 1]
  IN  upTo[Len(l)]

Init == log = <<>> /\ got = [r \in Receivers |-> <<>>]

Publish(t, R) ==
  /\ log' = Append(log, [text |-> t, to |-> R])
  /\ UNCHANGED got

\* r is given the first text that it was not given yet.
Deliver(r) ==
  /\ Len(got[r]) < Len(AddressedTo(log, r))
  /\ got' = [got EXCEPT ![r] = Append(@, AddressedTo(log, r)[Len(@) + 1])]
  /\ UNCHANGED log

Next == \/ \E t \in Text, R \in SUBSET Receivers : Publish(t, R)
        \/ \E r \in Receivers : Deliver(r)

Spec == Init /\ [][Next]_vars
=============================================================================

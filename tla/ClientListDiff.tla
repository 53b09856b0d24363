--------------------------- MODULE ClientListDiff ---------------------------
(***************************************************************************)
(* How NETRootInfo::update() (src/platforms/xcb/netwm.cpp) finds out which *)
(* windows have left and which have entered _NET_CLIENT_LIST: it sorts the *)
(* new list and walks along the old and the new one at the same time.      *)
(***************************************************************************)
EXTENDS Naturals, Sequences, SequencesExt

\* std::sort() of a list that has every window once
Sorted_unsorted(list) == list
Sorted(list) ==
  CHOOSE s \in [DOMAIN list -> ToSet(list)] : ToSet(s) = ToSet(list) /\ IsSorted(s, <)

\* The two iterators, at most one behind the end of each list
Positions(old, new) == (1..(Len(old) + 1)) \X (1..(Len(new) + 1))

\* The walk with && for ||: it ends with the shorter list.
Diff_short(old, new) ==
  LET walk[p \in Positions(old, new)] ==
        LET i == p[1]  j == p[2] IN
        IF i > Len(old) \/ j > Len(new)
          THEN [remove |-> <<>>, add |-> <<>>]
        ELSE IF new[j] < old[i]
          THEN [walk[<<i, j + 1>>] EXCEPT !.add = <<new[j]>> \o @]
        ELSE IF old[i] < new[j]
          THEN [walk[<<i + 1, j>>] EXCEPT !.remove = <<old[i]>> \o @]
        ELSE walk[<<i + 1, j + 1>>]
  IN  walk[<<1, 1>>]

\* clientsToRemove and clientsToAdd for the sorted lists old and new; without
\* an old list everything is added, as if it were empty.
Diff(old, new) ==
  LET walk[p \in Positions(old, new)] ==
        LET i == p[1]  j == p[2] IN
        IF i > Len(old) /\ j > Len(new)
          THEN [remove |-> <<>>, add |-> <<>>]
        ELSE IF i > Len(old) \/ (j <= Len(new) /\ new[j] < old[i])
          THEN [walk[<<i, j + 1>>] EXCEPT !.add = <<new[j]>> \o @]
        ELSE IF j > Len(new) \/ old[i] < new[j]
          THEN [walk[<<i + 1, j>>] EXCEPT !.remove = <<old[i]>> \o @]
        ELSE walk[<<i + 1, j + 1>>]
  IN  walk[<<1, 1>>]
=============================================================================

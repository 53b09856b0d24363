------------------------ MODULE NETEventFilterProofs ------------------------
(***************************************************************************)
(* Theorems about NETEventFilter, for any windows, struts and number of    *)
(* changes: the lists, the strut cache and the compositing state that a    *)
(* process follows are right as soon as its events are dispatched.         *)
(*                                                                         *)
(* They begin with what the walk of NETRootInfo::update() along two client *)
(* lists finds, for lists of any length: exactly the windows that have     *)
(* left and those that have come, each once.                               *)
(***************************************************************************)
EXTENDS NETEventFilter, FiniteSetTheorems, SequenceTheorems, WellFoundedInduction, TLAPS

-----------------------------------------------------------------------------
(* Induction, with a set in the place of the predicate                     *)

LEMMA LeastExists ==
  ASSUME NEW S \in SUBSET Nat, S # {}
  PROVE  \E i \in S : \A j \in S : i <= j
<1> DEFINE R == OpToRel(<, Nat)
<1>1. IsWellFoundedOn(R, Nat)
  BY NatLessThanWellFounded
<1>2. PICK x \in S : \A y \in S : ~(<<y, x>> \in R)
  <2> HIDE DEF R
  <2> QED BY <1>1, WFMin
<1>3. \A y \in S : ~(y < x)
  BY <1>2 DEF OpToRel
<1> QED BY <1>3

LEMMA NatSetInduction ==
  ASSUME NEW S, 0 \in S, \A n \in Nat : n \in S => n + 1 \in S
  PROVE  Nat \subseteq S
<1> DEFINE T == Nat \ S
<1>1. SUFFICES ASSUME T # {} PROVE FALSE
  OBVIOUS
<1>2. PICK x \in T : \A y \in T : x <= y
  <2>1. T \in SUBSET Nat
    OBVIOUS
  <2> HIDE DEF T
  <2> QED BY <1>1, <2>1, LeastExists
<1>3. x - 1 \in Nat \ T /\ x - 1 + 1 = x
  BY <1>2
<1> QED BY <1>2, <1>3

-----------------------------------------------------------------------------
(* Sorting                                                                 *)

\* Every list that is not empty has a largest element.
LEMMA LargestExists ==
  ASSUME NEW n \in Nat, NEW f \in [1..(n + 1) -> Nat]
  PROVE  \E k \in 1..(n + 1) : \A i \in 1..(n + 1) : f[i] <= f[k]
<1> DEFINE S == {m \in Nat : m > n \/ \E k \in 1..(m + 1) : \A i \in 1..(m + 1) : f[i] <= f[k]}
<1>1. 0 \in S
  <2>1. \A i \in 1..(0 + 1) : i = 1
    OBVIOUS
  <2>2. f[1] \in Nat
    OBVIOUS
  <2> QED BY <2>1, <2>2
<1>2. ASSUME NEW m \in Nat, m \in S PROVE m + 1 \in S
  <2>1. CASE m + 1 > n
    BY <2>1
  <2>2. CASE ~(m + 1 > n)
    <3>1. PICK k \in 1..(m + 1) : \A i \in 1..(m + 1) : f[i] <= f[k]
      BY <1>2, <2>2
    <3>2. /\ m + 2 \in 1..(n + 1) /\ k \in 1..(n + 1)
          /\ \A i \in 1..(m + 2) : i = m + 2 \/ i \in 1..(m + 1)
          /\ \A i \in 1..(m + 2) : f[i] \in Nat
      BY <2>2
    <3>3. CASE f[m + 2] <= f[k]
      <4>1. k \in 1..((m + 1) + 1) /\ \A i \in 1..((m + 1) + 1) : f[i] <= f[k]
        BY <3>1, <3>2, <3>3
      <4> QED BY <4>1
    <3>4. CASE ~(f[m + 2] <= f[k])
      <4>1. \A i \in 1..((m + 1) + 1) : f[i] <= f[m + 2]
        BY <3>1, <3>2, <3>4
      <4>2. m + 2 \in 1..((m + 1) + 1)
        OBVIOUS
      <4> QED BY <4>1, <4>2
    <3> QED BY <3>3, <3>4
  <2> QED BY <2>1, <2>2
<1> HIDE DEF S
<1>3. n \in S
  BY <1>1, <1>2, NatSetInduction
<1> QED BY <1>3 DEF S

\* Lists of n different numbers can be sorted.
Increasing(n) ==
  {f \in [1..n -> Nat] : \A i, j \in 1..n : i < j => f[i] < f[j]}

LEMMA SortExists ==
  ASSUME NEW n \in Nat, NEW f \in [1..n -> Nat], IsInjective(f)
  PROVE  \E g \in Increasing(n) : ToSet(g) = ToSet(f)
<1> DEFINE P(m) == \A h \in [1..m -> Nat] :
                     IsInjective(h) => \E g \in Increasing(m) : ToSet(g) = ToSet(h)
           S == {m \in Nat : P(m)}
<1>1. 0 \in S
  <2>1. ASSUME NEW h \in [1..0 -> Nat] PROVE h \in Increasing(0)
    BY DEF Increasing
  <2> QED BY <2>1
<1>2. ASSUME NEW m \in Nat, m \in S PROVE m + 1 \in S
  <2> SUFFICES ASSUME NEW h \in [1..(m + 1) -> Nat], IsInjective(h)
               PROVE  \E g \in Increasing(m + 1) : ToSet(g) = ToSet(h)
    OBVIOUS
  <2>1. PICK k \in 1..(m + 1) : \A i \in 1..(m + 1) : h[i] <= h[k]
    BY LargestExists
  <2> DEFINE r == [i \in 1..m |-> IF i = k THEN h[m + 1] ELSE h[i]]
  <2>2. r \in [1..m -> Nat]
    OBVIOUS
  <2>3. IsInjective(r)
    BY DEF IsInjective
  <2>4. PICK g \in Increasing(m) : ToSet(g) = ToSet(r)
    <3> HIDE DEF r
    <3> QED BY <1>2, <2>2, <2>3
  <2>5. \A i \in 1..m : r[i] < h[k]
    <3>1. \A i \in 1..m : r[i] \in Nat /\ r[i] <= h[k] /\ r[i] # h[k]
      BY <2>1 DEF IsInjective
    <3> QED BY <3>1
  <2> DEFINE q == [i \in 1..(m + 1) |-> IF i = m + 1 THEN h[k] ELSE g[i]]
  <2>6. /\ g \in [1..m -> Nat]
        /\ \A i \in 1..m : g[i] < h[k]
        /\ \A i, j \in 1..m : i < j => g[i] < g[j]
    <3>1. g \in [1..m -> Nat] /\ \A i, j \in 1..m : i < j => g[i] < g[j]
      BY <2>4 DEF Increasing
    <3>2. \A i \in 1..m : g[i] \in ToSet(r)
      BY <2>4, <3>1 DEF ToSet
    <3>3. \A i \in 1..m : \E j \in 1..m : g[i] = r[j]
      BY <2>2, <3>2 DEF ToSet
    <3> QED BY <2>5, <3>1, <3>3
  <2>7. q \in Increasing(m + 1)
    <3>1. q \in [1..(m + 1) -> Nat]
      BY <2>6
    <3>2. \A i \in 1..(m + 1) : i = m + 1 \/ i \in 1..m
      OBVIOUS
    <3>3. \A i, j \in 1..(m + 1) : i < j => q[i] < q[j]
      BY <2>6, <3>2
    <3> QED BY <3>1, <3>3 DEF Increasing
  <2>8. ToSet(q) = ToSet(r) \cup {h[k]}
    <3>1. ToSet(q) = {q[i] : i \in 1..(m + 1)} /\ ToSet(g) = {g[i] : i \in 1..m}
      <4>1. DOMAIN q = 1..(m + 1) /\ DOMAIN g = 1..m
        BY <2>6
      <4> HIDE DEF q
      <4> QED BY <4>1 DEF ToSet
    <3>2. \A i \in 1..(m + 1) : i = m + 1 \/ i \in 1..m
      OBVIOUS
    <3>3. \A i \in 1..m : i \in 1..(m + 1) /\ i # m + 1
      OBVIOUS
    <3>4. \A i \in 1..m : q[i] = g[i]
      BY <3>3
    <3>5. q[m + 1] = h[k]
      OBVIOUS
    <3> HIDE DEF q
    <3>6. {q[i] : i \in 1..(m + 1)} = {g[i] : i \in 1..m} \cup {h[k]}
      <4> DEFINE A == {q[i] : i \in 1..(m + 1)}
                 B == {g[i] : i \in 1..m}
      <4>1. m + 1 \in 1..(m + 1)
        OBVIOUS
      <4>2. ASSUME NEW x \in A PROVE x \in B \cup {h[k]}
        BY <3>2, <3>4, <3>5
      <4>3. ASSUME NEW x \in B \cup {h[k]} PROVE x \in A
        BY <3>3, <3>4, <3>5, <4>1
      <4> QED BY <4>2, <4>3
    <3> QED BY <2>4, <3>1, <3>6
  <2>9. ToSet(h) = ToSet(r) \cup {h[k]}
    <3>1. ToSet(h) = {h[i] : i \in 1..(m + 1)} /\ ToSet(r) = {r[i] : i \in 1..m}
      <4>1. DOMAIN h = 1..(m + 1) /\ DOMAIN r = 1..m
        OBVIOUS
      <4> HIDE DEF r
      <4> QED BY <4>1 DEF ToSet
    <3>2. \A i \in 1..(m + 1) : h[i] = h[k] \/ \E j \in 1..m : r[j] = h[i]
      <4> SUFFICES ASSUME NEW i \in 1..(m + 1), i # k
                   PROVE  \E j \in 1..m : r[j] = h[i]
        OBVIOUS
      <4>1. CASE i = m + 1
        <5>1. k \in 1..m
          BY <4>1
        <5> QED BY <4>1, <5>1
      <4>2. CASE i # m + 1
        <5>1. i \in 1..m
          BY <4>2
        <5> QED BY <5>1
      <4> QED BY <4>1, <4>2
    <3>3. \A j \in 1..m : \E i \in 1..(m + 1) : r[j] = h[i]
      OBVIOUS
    <3> HIDE DEF r
    <3>4. {h[i] : i \in 1..(m + 1)} = {r[i] : i \in 1..m} \cup {h[k]}
      <4> DEFINE A == {h[i] : i \in 1..(m + 1)}
                 B == {r[i] : i \in 1..m}
      <4>1. ASSUME NEW x \in A PROVE x \in B \cup {h[k]}
        BY <3>2
      <4>2. ASSUME NEW x \in B \cup {h[k]} PROVE x \in A
        BY <3>3
      <4> QED BY <4>1, <4>2
    <3> QED BY <3>1, <3>4
  <2> QED BY <2>7, <2>8, <2>9
<1> HIDE DEF S
<1>3. n \in S
  BY <1>1, <1>2, NatSetInduction
<1> QED BY <1>3 DEF S

LEMMA SortedFacts ==
  ASSUME NEW n \in Nat, NEW list \in [1..n -> Nat], IsInjective(list)
  PROVE  Sorted(list) \in Increasing(n) /\ ToSet(Sorted(list)) = ToSet(list)
<1>1. PICK g \in Increasing(n) : ToSet(g) = ToSet(list)
  BY SortExists
<1>2. \A s \in [1..n -> Nat] : IsSorted(s, <) <=> s \in Increasing(n)
  <2> SUFFICES ASSUME NEW s \in [1..n -> Nat] PROVE IsSorted(s, <) <=> s \in Increasing(n)
    OBVIOUS
  <2>1. Len(s) = n
    OBVIOUS
  <2> QED BY <2>1 DEF IsSorted, Increasing
<1>3. \A s \in [1..n -> ToSet(list)] : s \in [1..n -> Nat]
  <2>1. ToSet(list) \subseteq Nat
    BY DEF ToSet
  <2> QED BY <2>1
<1>4. g \in [DOMAIN list -> ToSet(list)] /\ g \in [1..n -> Nat]
  <2>1. g \in [1..n -> Nat] /\ \A i \in 1..n : g[i] \in ToSet(g)
    BY DEF Increasing, ToSet
  <2> QED BY <1>1, <2>1
<1>5. \E s \in [DOMAIN list -> ToSet(list)] : ToSet(s) = ToSet(list) /\ IsSorted(s, <)
  BY <1>1, <1>2, <1>4
<1>6. /\ Sorted(list) \in [DOMAIN list -> ToSet(list)]
      /\ ToSet(Sorted(list)) = ToSet(list) /\ IsSorted(Sorted(list), <)
  BY <1>5 DEF Sorted
<1> QED BY <1>2, <1>3, <1>6

-----------------------------------------------------------------------------
(* The walk                                                                *)

Changes == [remove : Seq(Nat), add : Seq(Nat)]

\* One round of the loop at p, when f says what is found after it.
Round(old, new, f, p) ==
  LET i == p[1]  j == p[2] IN
  IF i > Len(old) /\ j > Len(new)
    THEN [remove |-> <<>>, add |-> <<>>]
  ELSE IF i > Len(old) \/ (j <= Len(new) /\ new[j] < old[i])
    THEN [f[<<i, j + 1>>] EXCEPT !.add = <<new[j]>> \o @]
  ELSE IF j > Len(new) \/ old[i] < new[j]
    THEN [f[<<i + 1, j>>] EXCEPT !.remove = <<old[i]>> \o @]
  ELSE f[<<i + 1, j + 1>>]

IsWalk(f, old, new) == f = [p \in Positions(old, new) |-> Round(old, new, f, p)]

LEMMA DiffIsWalk ==
  ASSUME NEW old, NEW new, \E f : IsWalk(f, old, new)
  PROVE  \E f : IsWalk(f, old, new) /\ Diff(old, new) = f[<<1, 1>>]
<1> DEFINE w == CHOOSE f : IsWalk(f, old, new)
<1>1. IsWalk(w, old, new)
  OBVIOUS
<1>2. Diff(old, new) = w[<<1, 1>>]
  BY DEF Diff, IsWalk, Round
<1> QED BY <1>1, <1>2

\* How many rounds are left at p at most
Left(old, new, p) == (Len(old) + 1 - p[1]) + (Len(new) + 1 - p[2])

\* A round looks at what later rounds find only.
LEMMA RoundFacts ==
  ASSUME NEW old \in Seq(Nat), NEW new \in Seq(Nat), NEW p \in Positions(old, new),
         NEW f \in [Positions(old, new) -> Changes]
  PROVE  /\ Round(old, new, f, p) \in Changes
         /\ Left(old, new, p) \in Nat
         /\ \A g :
              (\A q \in Positions(old, new) :
                 Left(old, new, q) < Left(old, new, p) => f[q] = g[q])
              => Round(old, new, f, p) = Round(old, new, g, p)
<1> PICK m \in Nat, n \in Nat : m = Len(old) /\ n = Len(new)
  OBVIOUS
<1>1. PICK i \in 1..(m + 1), j \in 1..(n + 1) : p = <<i, j>>
  BY DEF Positions
<1>2. p[1] = i /\ p[2] = j
  BY <1>1
<1>3. /\ j <= n => <<i, j + 1>> \in Positions(old, new)
      /\ i <= m => <<i + 1, j>> \in Positions(old, new)
      /\ i <= m /\ j <= n => <<i + 1, j + 1>> \in Positions(old, new)
  <2>1. Positions(old, new) = (1..(m + 1)) \X (1..(n + 1))
    BY DEF Positions
  <2>2. /\ j <= n => j + 1 \in 1..(n + 1)
        /\ i <= m => i + 1 \in 1..(m + 1)
    OBVIOUS
  <2> QED BY <2>1, <2>2
<1>4. /\ Left(old, new, p) = (m + 1 - i) + (n + 1 - j)
      /\ Left(old, new, <<i, j + 1>>) = (m + 1 - i) + (n + 1 - (j + 1))
      /\ Left(old, new, <<i + 1, j>>) = (m + 1 - (i + 1)) + (n + 1 - j)
      /\ Left(old, new, <<i + 1, j + 1>>) = (m + 1 - (i + 1)) + (n + 1 - (j + 1))
  BY <1>2 DEF Left
<1>5. Left(old, new, p) \in Nat
  BY <1>4
<1>6. \A h : Round(old, new, h, p) =
        IF i > m /\ j > n THEN [remove |-> <<>>, add |-> <<>>]
        ELSE IF i > m \/ (j <= n /\ new[j] < old[i])
          THEN [h[<<i, j + 1>>] EXCEPT !.add = <<new[j]>> \o @]
        ELSE IF j > n \/ old[i] < new[j]
          THEN [h[<<i + 1, j>>] EXCEPT !.remove = <<old[i]>> \o @]
        ELSE h[<<i + 1, j + 1>>]
  BY <1>2 DEF Round
<1>7. Round(old, new, f, p) \in Changes
  <2>1. j <= n => new[j] \in Nat
    OBVIOUS
  <2>2. i <= m => old[i] \in Nat
    OBVIOUS
  <2>3. \A c \in Changes, x \in Nat : /\ [c EXCEPT !.add = <<x>> \o @] \in Changes
                                     /\ [c EXCEPT !.remove = <<x>> \o @] \in Changes
    <3> SUFFICES ASSUME NEW c \in Changes, NEW x \in Nat
                 PROVE  /\ [c EXCEPT !.add = <<x>> \o @] \in Changes
                        /\ [c EXCEPT !.remove = <<x>> \o @] \in Changes
      OBVIOUS
    <3>1. <<x>> \o c.add \in Seq(Nat) /\ <<x>> \o c.remove \in Seq(Nat)
      BY DEF Changes
    <3> QED BY <3>1 DEF Changes
  <2>4. [remove |-> <<>>, add |-> <<>>] \in Changes
    BY DEF Changes
  <2> HIDE DEF Changes
  <2>5. CASE i > m /\ j > n
    BY <1>6, <2>4, <2>5
  <2>6. CASE ~(i > m /\ j > n) /\ (i > m \/ (j <= n /\ new[j] < old[i]))
    <3>1. j <= n
      BY <2>6
    <3>2. Round(old, new, f, p) = [f[<<i, j + 1>>] EXCEPT !.add = <<new[j]>> \o @]
      BY <1>6, <2>6
    <3>3. f[<<i, j + 1>>] \in Changes
      BY <1>3, <3>1
    <3> QED BY <2>1, <2>3, <3>1, <3>2, <3>3
  <2>7. CASE /\ ~(i > m /\ j > n) /\ ~(i > m \/ (j <= n /\ new[j] < old[i]))
             /\ j > n \/ old[i] < new[j]
    <3>1. i <= m
      BY <2>7
    <3>2. Round(old, new, f, p) = [f[<<i + 1, j>>] EXCEPT !.remove = <<old[i]>> \o @]
      BY <1>6, <2>7
    <3>3. f[<<i + 1, j>>] \in Changes
      BY <1>3, <3>1
    <3> QED BY <2>2, <2>3, <3>1, <3>2, <3>3
  <2>8. CASE /\ ~(i > m /\ j > n) /\ ~(i > m \/ (j <= n /\ new[j] < old[i]))
             /\ ~(j > n \/ old[i] < new[j])
    <3>1. i <= m /\ j <= n
      BY <2>8
    <3>2. Round(old, new, f, p) = f[<<i + 1, j + 1>>]
      BY <1>6, <2>8
    <3> QED BY <1>3, <3>1, <3>2
  <2> QED BY <2>5, <2>6, <2>7, <2>8
<1>8. ASSUME NEW g,
             \A q \in Positions(old, new) :
               Left(old, new, q) < Left(old, new, p) => f[q] = g[q]
      PROVE  Round(old, new, f, p) = Round(old, new, g, p)
  <2>1. /\ j <= n => f[<<i, j + 1>>] = g[<<i, j + 1>>]
        /\ i <= m => f[<<i + 1, j>>] = g[<<i + 1, j>>]
        /\ i <= m /\ j <= n => f[<<i + 1, j + 1>>] = g[<<i + 1, j + 1>>]
    <3>1. /\ Left(old, new, <<i, j + 1>>) < Left(old, new, p)
          /\ Left(old, new, <<i + 1, j>>) < Left(old, new, p)
          /\ Left(old, new, <<i + 1, j + 1>>) < Left(old, new, p)
      BY <1>4
    <3> QED BY <1>3, <1>8, <3>1
  <2>2. CASE i > m /\ j > n
    BY <1>6, <2>2
  <2>3. CASE ~(i > m /\ j > n) /\ (i > m \/ (j <= n /\ new[j] < old[i]))
    <3>1. \A h : Round(old, new, h, p) = [h[<<i, j + 1>>] EXCEPT !.add = <<new[j]>> \o @]
      BY <1>6, <2>3
    <3>2. f[<<i, j + 1>>] = g[<<i, j + 1>>]
      BY <2>1, <2>3
    <3> QED BY <3>1, <3>2, Zenon
  <2>4. CASE /\ ~(i > m /\ j > n) /\ ~(i > m \/ (j <= n /\ new[j] < old[i]))
             /\ j > n \/ old[i] < new[j]
    <3>1. \A h : Round(old, new, h, p) = [h[<<i + 1, j>>] EXCEPT !.remove = <<old[i]>> \o @]
      BY <1>6, <2>4
    <3>2. f[<<i + 1, j>>] = g[<<i + 1, j>>]
      BY <2>1, <2>4
    <3> QED BY <3>1, <3>2, Zenon
  <2>5. CASE /\ ~(i > m /\ j > n) /\ ~(i > m \/ (j <= n /\ new[j] < old[i]))
             /\ ~(j > n \/ old[i] < new[j])
    <3>1. \A h : Round(old, new, h, p) = h[<<i + 1, j + 1>>]
      BY <1>6, <2>5
    <3>2. f[<<i + 1, j + 1>>] = g[<<i + 1, j + 1>>]
      BY <2>1, <2>5
    <3> QED BY <3>1, <3>2, Zenon
  <2> QED BY <2>2, <2>3, <2>4, <2>5
<1> QED BY <1>5, <1>7, <1>8

\* There is a function that satisfies the recursion.
LEMMA WalkExists ==
  ASSUME NEW old \in Seq(Nat), NEW new \in Seq(Nat)
  PROVE  \E f \in [Positions(old, new) -> Changes] : IsWalk(f, old, new)
<1> DEFINE P == Positions(old, new)
           UpTo(n, f) == \A p \in P : Left(old, new, p) <= n => f[p] = Round(old, new, f, p)
           S == {n \in Nat : \E f \in [P -> Changes] : UpTo(n, f)}
<1> USE DEF IsWalk
<1>1. \A p \in P : Left(old, new, p) \in Nat
  <2> DEFINE f == [p \in P |-> [remove |-> <<>>, add |-> <<>>]]
  <2>1. f \in [P -> Changes]
    BY DEF Changes
  <2> QED BY <2>1, RoundFacts
<1>2. ASSUME NEW n \in Nat, NEW f \in [P -> Changes],
             \A p \in P : Left(old, new, p) < n => f[p] = Round(old, new, f, p)
      PROVE  \E g \in [P -> Changes] : UpTo(n, g)
  <2> DEFINE g == [p \in P |-> IF Left(old, new, p) < n THEN f[p]
                               ELSE Round(old, new, f, p)]
  <2> HIDE DEF P
  <2>1. g \in [P -> Changes]
    BY RoundFacts DEF P
  <2>2. ASSUME NEW p \in P, Left(old, new, p) <= n PROVE g[p] = Round(old, new, g, p)
    <3>1. \A q \in P : Left(old, new, q) < Left(old, new, p) => f[q] = g[q]
      BY <1>1, <2>2
    <3>2. Round(old, new, f, p) = Round(old, new, g, p)
      <4> HIDE DEF g
      <4> QED BY <2>1, <3>1, RoundFacts DEF P
    <3>3. g[p] = Round(old, new, f, p)
      BY <1>2
    <3> QED BY <3>2, <3>3
  <2> HIDE DEF g
  <2> QED BY <2>1, <2>2
<1>3. 0 \in S
  <2> DEFINE f == [p \in P |-> [remove |-> <<>>, add |-> <<>>]]
  <2>1. f \in [P -> Changes]
    BY DEF Changes
  <2>2. \A p \in P : Left(old, new, p) < 0 => f[p] = Round(old, new, f, p)
    BY <1>1
  <2> HIDE DEF f, P
  <2> QED BY <1>2, <2>1, <2>2
<1>4. ASSUME NEW n \in Nat, n \in S PROVE n + 1 \in S
  <2>1. PICK f \in [P -> Changes] : UpTo(n, f)
    BY <1>4
  <2>2. \A p \in P : Left(old, new, p) < n + 1 => f[p] = Round(old, new, f, p)
    BY <1>1, <2>1
  <2> HIDE DEF P
  <2>3. \E g \in [P -> Changes] : UpTo(n + 1, g)
    BY <1>2, <2>2
  <2> QED BY <2>3
<1>5. Nat \subseteq S
  <2> HIDE DEF S
  <2> QED BY <1>3, <1>4, NatSetInduction
<1>6. PICK n \in Nat : n = Len(old) + Len(new)
  OBVIOUS
<1>7. PICK f \in [P -> Changes] : UpTo(n, f)
  BY <1>5
<1>8. \A p \in P : Left(old, new, p) <= n
  BY <1>6 DEF Positions, Left
<1>9. \A p \in P : f[p] = Round(old, new, f, p)
  BY <1>7, <1>8
<1>10. f = [p \in P |-> Round(old, new, f, p)]
  <2> HIDE DEF P
  <2> QED BY <1>9
<1> QED BY <1>10

-----------------------------------------------------------------------------
(* What the walk finds                                                     *)

\* The windows of list from its i-th on
From(list, i) == {list[k] : k \in {x \in DOMAIN list : i <= x}}

LEMMA FromFacts ==
  ASSUME NEW n \in Nat, NEW list \in Increasing(n), NEW i \in 1..(n + 1)
  PROVE  /\ list \in Seq(Nat) /\ Len(list) = n /\ IsInjective(list)
         /\ From(list, 1) = ToSet(list)
         /\ From(list, i) \subseteq Nat
         /\ i > n => From(list, i) = {}
         /\ i <= n => /\ From(list, i) = {list[i]} \cup From(list, i + 1)
                      /\ \A x \in From(list, i + 1) : list[i] < x
                      /\ list[i] \in Nat
<1>1. list \in [1..n -> Nat] /\ \A x, y \in 1..n : x < y => list[x] < list[y]
  BY DEF Increasing
<1>2. list \in Seq(Nat) /\ Len(list) = n /\ DOMAIN list = 1..n
  BY <1>1
<1>3. IsInjective(list)
  <2> SUFFICES ASSUME NEW x \in 1..n, NEW y \in 1..n, list[x] = list[y] PROVE x = y
    BY <1>2 DEF IsInjective
  <2>1. list[x] \in Nat /\ list[y] \in Nat /\ x \in Nat /\ y \in Nat
    BY <1>1
  <2> QED BY <1>1, <2>1
<1>4. From(list, 1) = ToSet(list)
  BY <1>2 DEF From, ToSet
<1>5. From(list, i) \subseteq Nat
  BY <1>1, <1>2 DEF From
<1>6. i > n => From(list, i) = {}
  BY <1>2 DEF From
<1>7. ASSUME i <= n
      PROVE  /\ From(list, i) = {list[i]} \cup From(list, i + 1)
             /\ \A x \in From(list, i + 1) : list[i] < x
             /\ list[i] \in Nat
  <2>1. i \in 1..n /\ list[i] \in Nat
    BY <1>1, <1>7
  <2>2. ASSUME NEW x \in From(list, i) PROVE x \in {list[i]} \cup From(list, i + 1)
    <3>1. PICK k \in 1..n : i <= k /\ x = list[k]
      BY <1>2, <2>2 DEF From
    <3>2. k = i \/ i + 1 <= k
      BY <3>1
    <3> QED BY <1>2, <3>1, <3>2 DEF From
  <2>3. \A x \in From(list, i + 1) : \E k \in 1..n : i + 1 <= k /\ x = list[k]
    BY <1>2 DEF From
  <2>4. \A k \in 1..n : i + 1 <= k => i <= k /\ i < k
    OBVIOUS
  <2>5. From(list, i + 1) \subseteq From(list, i) /\ list[i] \in From(list, i)
    BY <1>2, <2>1, <2>3, <2>4 DEF From
  <2>6. \A x \in From(list, i + 1) : list[i] < x
    BY <1>1, <2>1, <2>3, <2>4
  <2> QED BY <2>1, <2>2, <2>5, <2>6
<1> QED BY <1>2, <1>3, <1>4, <1>5, <1>6, <1>7

\* list has the windows of S, each once.
Enumerates(list, S) == list \in Seq(Nat) /\ ToSet(list) = S /\ IsInjective(list)

LEMMA ConsFacts ==
  ASSUME NEW x \in Nat, NEW list, NEW S, Enumerates(list, S), x \notin S
  PROVE  Enumerates(<<x>> \o list, {x} \cup S)
<1> PICK n \in Nat : n = Len(list) /\ DOMAIN list = 1..n
  BY DEF Enumerates
<1> DEFINE c == <<x>> \o list
<1>1. /\ c \in Seq(Nat) /\ DOMAIN c = 1..(n + 1) /\ c[1] = x
      /\ \A k \in 1..n : c[k + 1] = list[k]
  BY DEF Enumerates
<1> HIDE DEF c
<1>2. \A k \in 1..(n + 1) : k = 1 \/ \E l \in 1..n : k = l + 1 /\ c[k] = list[l]
  <2> SUFFICES ASSUME NEW k \in 1..(n + 1), k # 1
               PROVE  \E l \in 1..n : k = l + 1 /\ c[k] = list[l]
    OBVIOUS
  <2>1. k - 1 \in 1..n /\ k = (k - 1) + 1
    OBVIOUS
  <2> QED BY <1>1, <2>1
<1>3. ToSet(c) = {x} \cup S
  <2>1. \A y \in ToSet(c) : y \in {x} \cup S
    <3> SUFFICES ASSUME NEW k \in 1..(n + 1) PROVE c[k] \in {x} \cup S
      BY <1>1 DEF ToSet
    <3>1. \A l \in 1..n : list[l] \in S
      BY DEF ToSet, Enumerates
    <3> QED BY <1>1, <1>2, <3>1
  <2>2. \A l \in 1..n : l + 1 \in 1..(n + 1)
    OBVIOUS
  <2>3. \A y \in S : y \in ToSet(c)
    BY <1>1, <2>2 DEF ToSet, Enumerates
  <2>4. 1 \in 1..(n + 1)
    OBVIOUS
  <2>5. x \in ToSet(c)
    BY <1>1, <2>4 DEF ToSet
  <2> QED BY <2>1, <2>3, <2>5
<1>4. IsInjective(c)
  <2>1. \A l \in 1..n : list[l] # x
    BY DEF ToSet, Enumerates
  <2>2. \A k, l \in 1..n : list[k] = list[l] => k = l
    BY DEF IsInjective, Enumerates
  <2> SUFFICES ASSUME NEW a \in 1..(n + 1), NEW b \in 1..(n + 1), c[a] = c[b] PROVE a = b
    BY <1>1 DEF IsInjective
  <2> QED BY <1>1, <1>2, <2>1, <2>2
<1> QED BY <1>1, <1>3, <1>4 DEF Enumerates, c

\* c is what is to be found from p on.
Found(old, new, p, c) ==
  /\ c \in Changes
  /\ Enumerates(c.remove, From(old, p[1]) \ From(new, p[2]))
  /\ Enumerates(c.add, From(new, p[2]) \ From(old, p[1]))

LEMMA RoundFinds ==
  ASSUME NEW m \in Nat, NEW old \in Increasing(m), NEW n \in Nat, NEW new \in Increasing(n),
         NEW p \in Positions(old, new), NEW f \in [Positions(old, new) -> Changes],
         \A q \in Positions(old, new) :
           Left(old, new, q) < Left(old, new, p) => Found(old, new, q, f[q])
  PROVE  Found(old, new, p, Round(old, new, f, p))
<1>1. /\ old \in Seq(Nat) /\ Len(old) = m /\ new \in Seq(Nat) /\ Len(new) = n
      /\ 1 \in 1..(m + 1) /\ 1 \in 1..(n + 1)
  BY FromFacts
<1>2. PICK i \in 1..(m + 1), j \in 1..(n + 1) : p = <<i, j>>
  BY <1>1 DEF Positions
<1>3. Round(old, new, f, p) \in Changes
  BY <1>1, RoundFacts
<1>4. ASSUME NEW k \in 1..(m + 1), NEW l \in 1..(n + 1), k + l > i + j
      PROVE  /\ f[<<k, l>>] \in Changes
             /\ Enumerates(f[<<k, l>>].remove, From(old, k) \ From(new, l))
             /\ Enumerates(f[<<k, l>>].add, From(new, l) \ From(old, k))
  <2>1. <<k, l>> \in Positions(old, new)
    BY <1>1 DEF Positions
  <2>2. Left(old, new, <<k, l>>) < Left(old, new, p)
    BY <1>1, <1>2, <1>4 DEF Left
  <2> QED BY <2>1, <2>2 DEF Found
<1>5. Round(old, new, f, p) =
        IF i > m /\ j > n THEN [remove |-> <<>>, add |-> <<>>]
        ELSE IF i > m \/ (j <= n /\ new[j] < old[i])
          THEN [f[<<i, j + 1>>] EXCEPT !.add = <<new[j]>> \o @]
        ELSE IF j > n \/ old[i] < new[j]
          THEN [f[<<i + 1, j>>] EXCEPT !.remove = <<old[i]>> \o @]
        ELSE f[<<i + 1, j + 1>>]
  BY <1>1, <1>2 DEF Round
<1> DEFINE r == Round(old, new, f, p)
<1> SUFFICES /\ Enumerates(r.remove, From(old, i) \ From(new, j))
             /\ Enumerates(r.add, From(new, j) \ From(old, i))
  BY <1>2, <1>3 DEF Found
<1>6. /\ i > m => From(old, i) = {}
      /\ i <= m => /\ From(old, i) = {old[i]} \cup From(old, i + 1)
                   /\ \A x \in From(old, i + 1) : old[i] < x
                   /\ old[i] \in Nat /\ i + 1 \in 1..(m + 1)
      /\ j > n => From(new, j) = {}
      /\ j <= n => /\ From(new, j) = {new[j]} \cup From(new, j + 1)
                   /\ \A x \in From(new, j + 1) : new[j] < x
                   /\ new[j] \in Nat /\ j + 1 \in 1..(n + 1)
      /\ From(old, i) \subseteq Nat /\ From(new, j) \subseteq Nat
  BY FromFacts
<1>7. CASE i > m /\ j > n
  <2>1. r.remove = <<>> /\ r.add = <<>>
    BY <1>5, <1>7
  <2>2. Enumerates(<<>>, {})
    BY DEF Enumerates, ToSet, IsInjective
  <2> QED BY <1>6, <1>7, <2>1, <2>2
<1>8. CASE ~(i > m /\ j > n) /\ (i > m \/ (j <= n /\ new[j] < old[i]))
  <2>1. j <= n
    BY <1>8
  <2>2. r = [f[<<i, j + 1>>] EXCEPT !.add = <<new[j]>> \o @]
    BY <1>5, <1>8
  <2>3. /\ f[<<i, j + 1>>] \in Changes
        /\ Enumerates(f[<<i, j + 1>>].remove, From(old, i) \ From(new, j + 1))
        /\ Enumerates(f[<<i, j + 1>>].add, From(new, j + 1) \ From(old, i))
    <3>1. j + 1 \in 1..(n + 1) /\ (i) + (j + 1) > i + j
      BY <1>6, <2>1
    <3> QED BY <1>4, <3>1
  <2>4. new[j] \notin From(old, i) /\ new[j] \notin From(new, j + 1)
    <3>1. new[j] \notin From(new, j + 1)
      BY <1>6, <2>1
    <3>2. new[j] \notin From(old, i)
      BY <1>6, <1>8, <2>1
    <3> QED BY <3>1, <3>2
  <2>5. /\ r.remove = f[<<i, j + 1>>].remove
        /\ r.add = <<new[j]>> \o f[<<i, j + 1>>].add
    BY <2>2, <2>3 DEF Changes
  <2>6. /\ From(old, i) \ From(new, j) = From(old, i) \ From(new, j + 1)
        /\ From(new, j) \ From(old, i) = {new[j]} \cup (From(new, j + 1) \ From(old, i))
    BY <1>6, <2>1, <2>4
  <2>7. Enumerates(r.add, {new[j]} \cup (From(new, j + 1) \ From(old, i)))
    <3> DEFINE S == From(new, j + 1) \ From(old, i)
    <3>1. new[j] \in Nat /\ new[j] \notin S
      BY <1>6, <2>1, <2>4
    <3>2. Enumerates(f[<<i, j + 1>>].add, S)
      BY <2>3
    <3> HIDE DEF S
    <3>3. Enumerates(<<new[j]>> \o f[<<i, j + 1>>].add, {new[j]} \cup S)
      BY <3>1, <3>2, ConsFacts
    <3>4. Enumerates(r.add, {new[j]} \cup S)
      BY <2>5, <3>3
    <3> QED BY <3>4 DEF S
  <2> QED BY <2>3, <2>5, <2>6, <2>7
<1>9. CASE /\ ~(i > m /\ j > n) /\ ~(i > m \/ (j <= n /\ new[j] < old[i]))
           /\ j > n \/ old[i] < new[j]
  <2>1. i <= m
    BY <1>9
  <2>2. r = [f[<<i + 1, j>>] EXCEPT !.remove = <<old[i]>> \o @]
    BY <1>5, <1>9
  <2>3. /\ f[<<i + 1, j>>] \in Changes
        /\ Enumerates(f[<<i + 1, j>>].remove, From(old, i + 1) \ From(new, j))
        /\ Enumerates(f[<<i + 1, j>>].add, From(new, j) \ From(old, i + 1))
    <3>1. i + 1 \in 1..(m + 1) /\ (i + 1) + (j) > i + j
      BY <1>6, <2>1
    <3> QED BY <1>4, <3>1
  <2>4. old[i] \notin From(new, j) /\ old[i] \notin From(old, i + 1)
    <3>1. old[i] \notin From(old, i + 1)
      BY <1>6, <2>1
    <3>2. old[i] \notin From(new, j)
      BY <1>6, <1>9, <2>1
    <3> QED BY <3>1, <3>2
  <2>5. /\ r.add = f[<<i + 1, j>>].add
        /\ r.remove = <<old[i]>> \o f[<<i + 1, j>>].remove
    BY <2>2, <2>3 DEF Changes
  <2>6. /\ From(new, j) \ From(old, i) = From(new, j) \ From(old, i + 1)
        /\ From(old, i) \ From(new, j) = {old[i]} \cup (From(old, i + 1) \ From(new, j))
    BY <1>6, <2>1, <2>4
  <2>7. Enumerates(r.remove, {old[i]} \cup (From(old, i + 1) \ From(new, j)))
    BY <1>6, <2>1, <2>3, <2>4, <2>5, ConsFacts
  <2> QED BY <2>3, <2>5, <2>6, <2>7
<1>10. CASE /\ ~(i > m /\ j > n) /\ ~(i > m \/ (j <= n /\ new[j] < old[i]))
            /\ ~(j > n \/ old[i] < new[j])
  <2>1. i <= m /\ j <= n
    BY <1>10
  <2>2. r = f[<<i + 1, j + 1>>]
    BY <1>5, <1>10
  <2>3. /\ Enumerates(r.remove, From(old, i + 1) \ From(new, j + 1))
        /\ Enumerates(r.add, From(new, j + 1) \ From(old, i + 1))
    BY <1>4, <1>6, <2>1, <2>2
  <2>4. old[i] = new[j]
    BY <1>6, <1>10, <2>1
  <2>5. old[i] \notin From(old, i + 1) /\ new[j] \notin From(new, j + 1)
    BY <1>6, <2>1
  <2>6. /\ From(new, j) \ From(old, i) = From(new, j + 1) \ From(old, i + 1)
        /\ From(old, i) \ From(new, j) = From(old, i + 1) \ From(new, j + 1)
    BY <1>6, <2>1, <2>4, <2>5
  <2> QED BY <2>3, <2>6
<1> QED BY <1>7, <1>8, <1>9, <1>10

\* clientsToRemove has the windows that have left and clientsToAdd those that have
\* entered the list, each once, whatever the lists (NETRootInfo::update()).
THEOREM DiffIsRight ==
  ASSUME NEW m \in Nat, NEW old \in Increasing(m), NEW n \in Nat, NEW new \in Increasing(n)
  PROVE  /\ Diff(old, new) \in Changes
         /\ Enumerates(Diff(old, new).remove, ToSet(old) \ ToSet(new))
         /\ Enumerates(Diff(old, new).add, ToSet(new) \ ToSet(old))
<1> DEFINE P == Positions(old, new)
<1>1. /\ old \in Seq(Nat) /\ new \in Seq(Nat) /\ Len(old) = m /\ Len(new) = n
      /\ From(old, 1) = ToSet(old) /\ From(new, 1) = ToSet(new)
  <2>1. 1 \in 1..(m + 1) /\ 1 \in 1..(n + 1)
    OBVIOUS
  <2> QED BY <2>1, FromFacts
<1>2. PICK f : IsWalk(f, old, new) /\ Diff(old, new) = f[<<1, 1>>]
  BY <1>1, WalkExists, DiffIsWalk
<1>3. \A p \in P : f[p] = Round(old, new, f, p)
  BY <1>2 DEF IsWalk
<1>4. PICK g \in [P -> Changes] : \A p \in P : g[p] = Round(old, new, g, p)
  <2>1. PICK g \in [P -> Changes] : IsWalk(g, old, new)
    BY <1>1, WalkExists
  <2> QED BY <2>1 DEF IsWalk
<1>5. \A p \in P : Left(old, new, p) \in Nat
  BY <1>1, <1>4, RoundFacts
<1> HIDE DEF P
<1>6. ASSUME NEW k \in Nat,
             \A p \in P : Left(old, new, p) < k => f[p] = g[p] /\ Found(old, new, p, g[p])
      PROVE  \A p \in P : Left(old, new, p) <= k => f[p] = g[p] /\ Found(old, new, p, g[p])
  <2> SUFFICES ASSUME NEW p \in P, Left(old, new, p) <= k
               PROVE  f[p] = g[p] /\ Found(old, new, p, g[p])
    OBVIOUS
  <2>1. \A q \in P : Left(old, new, q) < Left(old, new, p)
                      => g[q] = f[q] /\ Found(old, new, q, g[q])
    BY <1>5, <1>6
  <2>2. Round(old, new, g, p) = Round(old, new, f, p)
    BY <1>1, <2>1, RoundFacts DEF P
  <2>3. Found(old, new, p, Round(old, new, g, p))
    BY <2>1, RoundFinds DEF P
  <2> QED BY <1>3, <1>4, <2>2, <2>3
<1> DEFINE S == {k \in Nat : \A p \in P : Left(old, new, p) <= k
                                   => f[p] = g[p] /\ Found(old, new, p, g[p])}
<1>7. 0 \in S
  <2>1. \A p \in P : ~(Left(old, new, p) < 0)
    BY <1>5
  <2> QED BY <1>6, <2>1
<1>8. ASSUME NEW k \in Nat, k \in S PROVE k + 1 \in S
  <2>1. \A p \in P : Left(old, new, p) < k + 1 => Left(old, new, p) <= k
    BY <1>5
  <2>2. \A p \in P : Left(old, new, p) < k + 1 => f[p] = g[p] /\ Found(old, new, p, g[p])
    BY <1>8, <2>1
  <2>3. k + 1 \in Nat
    OBVIOUS
  <2> HIDE DEF P
  <2> QED BY <1>6, <2>2, <2>3
<1>9. Nat \subseteq S
  <2> HIDE DEF S
  <2> QED BY <1>7, <1>8, NatSetInduction
<1>10. PICK p \in P : p = <<1, 1>>
  <2>1. 1 \in 1..(m + 1) /\ 1 \in 1..(n + 1)
    OBVIOUS
  <2>2. <<1, 1>> \in P
    BY <1>1, <2>1 DEF P, Positions
  <2> QED BY <2>2
<1>11. f[p] = g[p] /\ Found(old, new, p, g[p])
  BY <1>5, <1>9
<1> QED BY <1>1, <1>2, <1>4, <1>10, <1>11 DEF Found

-----------------------------------------------------------------------------
(* The invariant                                                           *)

Events == [type : {"ClientList", "Stacking", "Strut", "Selection"},
           window : Windows \cup {0} \cup {"basic", "windows", "root"},
           owner : BOOLEAN]

WalkSteps == {"remove", "select", "add"} \X Windows

Shapes ==
  /\ clientList \in Lists /\ stacking \in Lists
  /\ alive \subseteq Windows /\ selected \subseteq alive
  /\ strut \in [Windows -> Struts]
  /\ cm \in BOOLEAN /\ qtTracks \in BOOLEAN
  /\ queue \in Seq(Events)
  /\ what \in {"none", "basic", "windows"}
  /\ windows \in Seq(Windows)
  /\ \E n \in Nat : clients \in Increasing(n)
  /\ ToSet(clients) \subseteq Windows
  /\ todo \in Seq(WalkSteps)
  /\ compositing \in BOOLEAN /\ was \in BOOLEAN /\ told \in BOOLEAN
  /\ strutSignalConnected \in BOOLEAN /\ inWorkArea \in BOOLEAN
  /\ then \in {"return", "connect", "workArea"}
  /\ pc \in {"idle", "owner", "clients", "stacking", "activate", "event"}

\* init() has not come to its end.
Initializing == pc \in {"owner", "clients", "stacking", "activate"}

\* The filter that init() is making has read the lists.
ListsRead == what # "none" /\ pc \notin {"owner", "clients"}

Located ==
  /\ what = "none" => pc = "idle" /\ windows = <<>> /\ clients = <<>>
  /\ pc = "clients" => windows = <<>> /\ clients = <<>>
  /\ todo # <<>> => pc \in {"stacking", "activate", "event"}
  /\ inWorkArea => pc \in {"idle", "activate", "event"} /\ what = "windows"
  /\ then \in {"connect", "workArea"} => Initializing /\ what = "windows"

\* What is left of a walk leads from windows to clients: every window that has
\* left is still to be removed, every window that has entered still to be added,
\* each once.
Walking ==
  /\ IsInjective(windows)
  /\ \A i \in DOMAIN todo :
       /\ todo[i][1] = "remove" => todo[i][2] \in ToSet(windows) \ ToSet(clients)
       /\ todo[i][1] # "remove" => todo[i][2] \in ToSet(clients) \ ToSet(windows)
       /\ todo[i][1] = "add" => i = 1
       /\ \A j \in DOMAIN todo : todo[i][2] = todo[j][2] => i = j
  /\ \A w \in Windows :
       w \in ToSet(windows) \/ w \in ToSet(clients) =>
         \/ w \in ToSet(windows) /\ w \in ToSet(clients)
         \/ \E i \in DOMAIN todo : todo[i][2] = w
  /\ ToSet(windows) \subseteq known

\* The lists are those of the window manager, or the event about the new ones is
\* in the queue.
Following ==
  /\ ListsRead => ToSet(clients) = ToSet(clientList) \/ Pending("ClientList", 0)
  /\ pc = "activate" => reply = stacking \/ Pending("Stacking", 0)
  /\ what # "none" /\ ~Initializing =>
       stackingOrder = stacking \/ Pending("Stacking", 0)

\* The strut of a window is known or known to be unknown, or the event about it
\* will come: its events were selected before it was read.
Caching ==
  /\ DOMAIN strutWindows \cup possible \subseteq ToSet(windows)
  /\ what # "windows" \/ pc = "owner" =>
       /\ ToSet(windows) \subseteq possible
       /\ ~strutSignalConnected /\ ~inWorkArea
  /\ what = "windows" /\ pc # "owner" =>
       /\ ToSet(windows) \cap alive \subseteq selected
       /\ \A i \in DOMAIN todo : todo[i][1] = "add" /\ todo[i][2] \in alive
                                   => todo[i][2] \in selected
  /\ \A w \in ToSet(windows) \cap alive : UsedStrut(w) = strut[w] \/ Pending("Strut", w)

Reported(map) == {<<w, map[w]>> : w \in {x \in DOMAIN map : map[x] # 0}}

\* What a listener knows since its last call of workArea() is the cache.
Viewing ==
  /\ view # NoView => strutSignalConnected
  /\ view # NoView /\ ~inWorkArea =>
       /\ possible = {}
       /\ view = Reported(strutWindows)

\* The i-th event of queue q is about the compositor and the filter listens to it.
Heard(q, kind, i) == q[i].type = "Selection" /\ q[i].window \in {kind, "root"}

\* An event of Qt's tracker is in the queue only if there is one, and one about
\* the filter's own window only if there is or was such a filter.  With a tracker
\* the root window's event comes after it.
Sound(q, kind, tracks) ==
  \A i \in DOMAIN q : q[i].type = "Selection" =>
    /\ q[i].window = "root" => tracks
    /\ q[i].window # "root" =>
         /\ q[i].window \in {"basic", "windows"}
         /\ Rank[q[i].window] <= Rank[kind]
         /\ tracks => \E j \in DOMAIN q : i < j /\ Heard(q, "root", j)

\* The last event that the filter listens to tells how things are.
Latest(q, kind, owned) ==
  \A i \in DOMAIN q :
    /\ Heard(q, kind, i)
    /\ \A j \in DOMAIN q : i < j => ~Heard(q, kind, j)
    => q[i].owner = owned

\* The filter knows whether there is a compositing manager, or an event will tell
\* it, and listeners know what the filter does.
Composited ==
  /\ Sound(queue, what, qtTracks)
  /\ Latest(queue, what, cm)
  /\ what # "none" /\ pc # "owner" =>
       compositing = cm \/ \E i \in DOMAIN queue : Heard(queue, what, i)
  /\ told = IF Initializing THEN was ELSE compositing

FilterInv ==
  /\ Shapes /\ Located /\ Walking /\ Following
  /\ Caching /\ Viewing /\ Composited

-----------------------------------------------------------------------------
(* Lists                                                                   *)

LEMMA ListFacts ==
  ASSUME NEW list \in Lists
  PROVE  /\ list \in Seq(Windows) /\ IsInjective(list) /\ ToSet(list) \subseteq Windows
         /\ \E n \in Nat : Sorted(list) \in Increasing(n)
         /\ ToSet(Sorted(list)) = ToSet(list)
<1>1. PICK n \in 0..Cardinality(Windows) : list \in [1..n -> Windows]
  BY DEF Lists
<1>2. Cardinality(Windows) \in Nat /\ Windows \subseteq Nat
  BY FilterAssumption, FS_CardinalityType
<1>3. IsInjective(list)
  BY DEF Lists
<1>4. n \in Nat /\ list \in [1..n -> Nat]
  <2>1. \A i \in 1..n : list[i] \in Nat
    BY <1>1, <1>2
  <2>2. DOMAIN list = 1..n /\ list = [i \in 1..n |-> list[i]]
    BY <1>1
  <2>3. n \in Nat
    BY <1>2
  <2> QED BY <2>1, <2>2, <2>3
<1>5. Sorted(list) \in Increasing(n) /\ ToSet(Sorted(list)) = ToSet(list)
  BY <1>3, <1>4, SortedFacts
<1>6. list \in Seq(Windows) /\ ToSet(list) \subseteq Windows
  BY <1>1, <1>4 DEF ToSet
<1> QED BY <1>3, <1>4, <1>5, <1>6

LEMMA AppendFacts ==
  ASSUME NEW S, NEW list \in Seq(S), NEW w \in S
  PROVE  /\ Append(list, w) \in Seq(S)
         /\ ToSet(Append(list, w)) = ToSet(list) \cup {w}
         /\ IsInjective(list) /\ w \notin ToSet(list) => IsInjective(Append(list, w))
<1> DEFINE a == Append(list, w)
<1>1. PICK n \in Nat : n = Len(list) /\ DOMAIN list = 1..n
  OBVIOUS
<1>2. /\ a \in Seq(S) /\ DOMAIN a = 1..(n + 1) /\ a[n + 1] = w
      /\ \A i \in 1..n : a[i] = list[i]
  BY <1>1
<1>3. \A i \in 1..(n + 1) : i = n + 1 \/ i \in 1..n
  OBVIOUS
<1>4. n + 1 \in 1..(n + 1) /\ \A i \in 1..n : i \in 1..(n + 1) /\ i # n + 1
  OBVIOUS
<1> HIDE DEF a
<1>5. ToSet(a) = ToSet(list) \cup {w}
  <2>1. ASSUME NEW i \in 1..(n + 1) PROVE a[i] \in ToSet(list) \cup {w}
    BY <1>1, <1>2, <1>3 DEF ToSet
  <2>2. ASSUME NEW i \in 1..n PROVE list[i] \in ToSet(a)
    BY <1>2, <1>4 DEF ToSet
  <2>3. w \in ToSet(a)
    BY <1>2, <1>4 DEF ToSet
  <2> QED BY <1>1, <1>2, <2>1, <2>2, <2>3 DEF ToSet
<1>6. ASSUME IsInjective(list), w \notin ToSet(list) PROVE IsInjective(a)
  <2>1. \A i \in 1..n : list[i] # w
    BY <1>1, <1>6 DEF ToSet
  <2>2. \A i, j \in 1..n : list[i] = list[j] => i = j
    BY <1>1, <1>6 DEF IsInjective
  <2> SUFFICES ASSUME NEW i \in 1..(n + 1), NEW j \in 1..(n + 1), a[i] = a[j] PROVE i = j
    BY <1>2 DEF IsInjective
  <2> QED BY <1>2, <1>3, <2>1, <2>2
<1> QED BY <1>2, <1>5, <1>6 DEF a

LEMMA RemoveFacts ==
  ASSUME NEW S, NEW list \in Seq(S), IsInjective(list), NEW w \in ToSet(list)
  PROVE  /\ RemoveFirst(list, w) \in Seq(S)
         /\ ToSet(RemoveFirst(list, w)) = ToSet(list) \ {w}
         /\ IsInjective(RemoveFirst(list, w))
<1> DEFINE r == RemoveFirst(list, w)
<1>1. PICK n \in Nat : n = Len(list) /\ DOMAIN list = 1..n
  OBVIOUS
<1>2. PICK k \in 1..n : list[k] = w
  BY <1>1 DEF ToSet
<1>3. \A i, j \in 1..n : list[i] = list[j] => i = j
  BY <1>1 DEF IsInjective
<1>4. SelectInSeq(list, LAMBDA v : v = w) = k
  <2> DEFINE I == {i \in 1..Len(list) : list[i] = w}
  <2>1. I = {k}
    BY <1>1, <1>2, <1>3
  <2>2. Min({k}) = k
    BY DEF Min
  <2>3. SelectInSeq(list, LAMBDA v : v = w) = Min(I)
    <3>1. I # {}
      BY <2>1
    <3> QED BY <3>1 DEF SelectInSeq
  <2> HIDE DEF I
  <2> QED BY <2>1, <2>2, <2>3
<1>5. r = SubSeq(list, 1, k - 1) \o SubSeq(list, k + 1, n)
  <2>1. \E i \in 1..Len(list) : list[i] = w
    BY <1>1, <1>2
  <2>2. r = RemoveAt(list, k)
    BY <1>4, <2>1 DEF RemoveFirst
  <2> QED BY <1>1, <2>2 DEF RemoveAt
<1> HIDE DEF r
<1>6. /\ r \in Seq(S) /\ DOMAIN r = 1..(n - 1)
      /\ \A i \in 1..(n - 1) : r[i] = IF i < k THEN list[i] ELSE list[i + 1]
  <2>1. SubSeq(list, 1, k - 1) \in Seq(S) /\ Len(SubSeq(list, 1, k - 1)) = k - 1
    BY <1>1
  <2>2. SubSeq(list, k + 1, n) \in Seq(S) /\ Len(SubSeq(list, k + 1, n)) = n - k
    BY <1>1
  <2>3. \A i \in 1..(k - 1) : SubSeq(list, 1, k - 1)[i] = list[i]
    BY <1>1
  <2>4. \A i \in 1..(n - k) : SubSeq(list, k + 1, n)[i] = list[k + i]
    BY <1>1
  <2>5. r \in Seq(S) /\ Len(r) = n - 1 /\ DOMAIN r = 1..(n - 1)
    BY <1>5, <2>1, <2>2
  <2>6. ASSUME NEW i \in 1..(n - 1) PROVE r[i] = IF i < k THEN list[i] ELSE list[i + 1]
    <3>1. CASE i < k
      BY <1>5, <2>1, <2>2, <2>3, <3>1
    <3>2. CASE ~(i < k)
      <4>1. r[i] = SubSeq(list, k + 1, n)[i - (k - 1)] /\ i - (k - 1) \in 1..(n - k)
        <5>1. PICK a \in Seq(S) : a = SubSeq(list, 1, k - 1)
          BY <2>1
        <5>2. PICK b \in Seq(S) : b = SubSeq(list, k + 1, n)
          BY <2>2
        <5>3. r = a \o b /\ Len(a) = k - 1 /\ Len(b) = n - k
          BY <1>5, <2>1, <2>2, <5>1, <5>2
        <5>4. i - (k - 1) \in 1..(n - k) /\ i \in 1..((k - 1) + (n - k)) /\ ~(i <= k - 1)
          BY <3>2
        <5>5. \A j \in 1..(n - k) : (a \o b)[(k - 1) + j] = b[j]
          BY <5>3
        <5>6. (k - 1) + (i - (k - 1)) = i
          OBVIOUS
        <5>7. r[i] = b[i - (k - 1)]
          BY <5>3, <5>4, <5>5, <5>6
        <5> QED BY <5>2, <5>4, <5>7
      <4>2. k + (i - (k - 1)) = i + 1
        OBVIOUS
      <4> QED BY <2>4, <3>2, <4>1, <4>2
    <3> QED BY <3>1, <3>2
  <2> QED BY <2>5, <2>6
<1>7. \A i \in 1..(n - 1) : i \in 1..n /\ i + 1 \in 1..n
  OBVIOUS
<1>8. ToSet(r) = ToSet(list) \ {w}
  <2>3. /\ \A x : x \in ToSet(list) <=> \E i \in 1..n : x = list[i]
        /\ \A x : x \in ToSet(r) <=> \E i \in 1..(n - 1) : x = r[i]
    BY <1>1, <1>6 DEF ToSet
  <2>1. ASSUME NEW i \in 1..(n - 1) PROVE r[i] \in ToSet(list) /\ r[i] # w
    <3>1. CASE i < k
      <4>1. i \in 1..n /\ i # k /\ r[i] = list[i]
        BY <1>6, <1>7, <3>1
      <4> QED BY <1>2, <1>3, <2>3, <4>1
    <3>2. CASE ~(i < k)
      <4>1. i + 1 \in 1..n /\ i + 1 # k /\ r[i] = list[i + 1]
        BY <1>6, <1>7, <3>2
      <4> QED BY <1>2, <1>3, <2>3, <4>1
    <3> QED BY <3>1, <3>2
  <2>2. ASSUME NEW i \in 1..n, list[i] # w PROVE list[i] \in ToSet(r)
    <3>1. CASE i < k
      <4>1. i \in 1..(n - 1)
        BY <3>1
      <4> QED BY <1>6, <2>3, <3>1, <4>1
    <3>2. CASE ~(i < k)
      <4>1. i - 1 \in 1..(n - 1) /\ ~(i - 1 < k) /\ (i - 1) + 1 = i
        BY <1>2, <2>2, <3>2
      <4> QED BY <1>6, <2>3, <4>1
    <3> QED BY <3>1, <3>2
  <2>4. \A x \in ToSet(r) : x \in ToSet(list) \ {w}
    BY <2>1, <2>3
  <2>5. \A x \in ToSet(list) \ {w} : x \in ToSet(r)
    BY <2>2, <2>3
  <2> QED BY <2>4, <2>5
<1>9. IsInjective(r)
  <2> SUFFICES ASSUME NEW i \in 1..(n - 1), NEW j \in 1..(n - 1), r[i] = r[j] PROVE i = j
    BY <1>6 DEF IsInjective
  <2>1. r[i] = list[IF i < k THEN i ELSE i + 1] /\ r[j] = list[IF j < k THEN j ELSE j + 1]
    BY <1>6
  <2>2. (IF i < k THEN i ELSE i + 1) \in 1..n /\ (IF j < k THEN j ELSE j + 1) \in 1..n
    OBVIOUS
  <2>3. (IF i < k THEN i ELSE i + 1) = (IF j < k THEN j ELSE j + 1)
    BY <1>3, <2>1, <2>2
  <2> QED BY <2>3
<1> QED BY <1>6, <1>8, <1>9 DEF r

\* The calls of a walk, for the changes it has found
LEMMA CallsFacts ==
  ASSUME NEW d \in Changes, NEW R \in SUBSET Windows, NEW A \in SUBSET Windows,
         Enumerates(d.remove, R), Enumerates(d.add, A), R \cap A = {}
  PROVE  /\ Calls(d) \in Seq(WalkSteps)
         /\ \A i \in DOMAIN Calls(d) :
              /\ \/ Calls(d)[i][1] = "remove" /\ Calls(d)[i][2] \in R
                 \/ Calls(d)[i][1] = "select" /\ Calls(d)[i][2] \in A
              /\ \A j \in DOMAIN Calls(d) : Calls(d)[i][2] = Calls(d)[j][2] => i = j
         /\ \A w \in R \cup A : \E i \in DOMAIN Calls(d) : Calls(d)[i][2] = w
<1>1. PICK m \in Nat : m = Len(d.remove) /\ DOMAIN d.remove = 1..m
  BY DEF Changes
<1>2. PICK n \in Nat : n = Len(d.add) /\ DOMAIN d.add = 1..n
  BY DEF Changes
<1>3. /\ \A i \in 1..m : d.remove[i] \in R
      /\ \A w \in R : \E i \in 1..m : d.remove[i] = w
      /\ \A i, j \in 1..m : d.remove[i] = d.remove[j] => i = j
  BY <1>1 DEF Enumerates, ToSet, IsInjective
<1>4. /\ \A i \in 1..n : d.add[i] \in A
      /\ \A w \in A : \E i \in 1..n : d.add[i] = w
      /\ \A i, j \in 1..n : d.add[i] = d.add[j] => i = j
  BY <1>2 DEF Enumerates, ToSet, IsInjective
<1> DEFINE r == [i \in 1..m |-> <<"remove", d.remove[i]>>]
           a == [i \in 1..n |-> <<"select", d.add[i]>>]
<1>5. r \in Seq(WalkSteps) /\ Len(r) = m /\ \A i \in 1..m : r[i] = <<"remove", d.remove[i]>>
  <2>1. \A i \in 1..m : <<"remove", d.remove[i]>> \in WalkSteps
    BY <1>3 DEF WalkSteps
  <2> QED BY <2>1
<1>6. a \in Seq(WalkSteps) /\ Len(a) = n /\ \A i \in 1..n : a[i] = <<"select", d.add[i]>>
  <2>1. \A i \in 1..n : <<"select", d.add[i]>> \in WalkSteps
    BY <1>4 DEF WalkSteps
  <2> QED BY <2>1
<1>7. Calls(d) = r \o a
  BY <1>1, <1>2 DEF Calls
<1> HIDE DEF r, a
<1> DEFINE c == Calls(d)
<1>8. /\ c \in Seq(WalkSteps) /\ DOMAIN c = 1..(m + n)
      /\ \A i \in 1..(m + n) : c[i] = IF i <= m THEN r[i] ELSE a[i - m]
  <2> PICK x \in Seq(WalkSteps) : x = r
    BY <1>5
  <2> PICK y \in Seq(WalkSteps) : y = a
    BY <1>6
  <2>1. c = x \o y /\ Len(x) = m /\ Len(y) = n
    BY <1>5, <1>6, <1>7
  <2> HIDE DEF c
  <2>2. c \in Seq(WalkSteps) /\ Len(c) = m + n
    <3>1. x \o y \in Seq(WalkSteps)
      OBVIOUS
    <3>2. Len(x \o y) = Len(x) + Len(y)
      OBVIOUS
    <3> QED BY <2>1, <3>1, <3>2
  <2>3. \A i \in 1..(m + n) : c[i] = IF i <= m THEN x[i] ELSE y[i - m]
    BY <2>1
  <2> QED BY <2>2, <2>3
<1> HIDE DEF c
<1>9. \A i \in 1..(m + n) :
        /\ i <= m => i \in 1..m /\ c[i][1] = "remove" /\ c[i][2] = d.remove[i]
        /\ ~(i <= m) => i - m \in 1..n /\ c[i][1] = "select" /\ c[i][2] = d.add[i - m]
  <2> SUFFICES ASSUME NEW i \in 1..(m + n)
               PROVE  /\ i <= m => i \in 1..m /\ c[i][1] = "remove" /\ c[i][2] = d.remove[i]
                      /\ ~(i <= m) => i - m \in 1..n /\ c[i][1] = "select" /\ c[i][2] = d.add[i - m]
    OBVIOUS
  <2>1. CASE i <= m
    BY <1>5, <1>8, <2>1
  <2>2. CASE ~(i <= m)
    <3>1. i - m \in 1..n
      BY <2>2
    <3> QED BY <1>6, <1>8, <2>2, <3>1
  <2> QED BY <2>1, <2>2
<1>10. \A i \in DOMAIN c : \/ c[i][1] = "remove" /\ c[i][2] \in R
                           \/ c[i][1] = "select" /\ c[i][2] \in A
  BY <1>3, <1>4, <1>8, <1>9
<1>11. \A i, j \in DOMAIN c : c[i][2] = c[j][2] => i = j
  <2> SUFFICES ASSUME NEW i \in 1..(m + n), NEW j \in 1..(m + n), c[i][2] = c[j][2]
               PROVE  i = j
    BY <1>8
  <2>1. CASE i <= m /\ j <= m
    BY <1>3, <1>9, <2>1
  <2>2. CASE ~(i <= m) /\ ~(j <= m)
    <3>1. i - m = j - m
      BY <1>4, <1>9, <2>2
    <3> QED BY <3>1
  <2>3. CASE (i <= m /\ ~(j <= m)) \/ (~(i <= m) /\ j <= m)
    BY <1>3, <1>4, <1>9, <2>3
  <2> QED BY <2>1, <2>2, <2>3
<1>12. \A w \in R \cup A : \E i \in DOMAIN c : c[i][2] = w
  <2>1. ASSUME NEW w \in R PROVE \E i \in DOMAIN c : c[i][2] = w
    <3>1. PICK i \in 1..m : d.remove[i] = w
      BY <1>3
    <3>2. i \in 1..(m + n) /\ i <= m
      OBVIOUS
    <3> QED BY <1>8, <1>9, <3>1, <3>2
  <2>2. ASSUME NEW w \in A PROVE \E i \in DOMAIN c : c[i][2] = w
    <3>1. PICK k \in 1..n : d.add[k] = w
      BY <1>4
    <3>2. PICK i \in 1..(m + n) : i = k + m
      OBVIOUS
    <3>3. ~(i <= m) /\ i - m = k
      BY <3>2
    <3> QED BY <1>8, <1>9, <3>1, <3>3
  <2> QED BY <2>1, <2>2
<1> QED BY <1>8, <1>10, <1>11, <1>12 DEF c

-----------------------------------------------------------------------------
(* The queue                                                               *)

LEMMA TailFacts ==
  ASSUME NEW S, NEW q \in Seq(S), q # <<>>
  PROVE  /\ Head(q) = q[1] /\ 1 \in DOMAIN q /\ Tail(q) \in Seq(S) /\ DOMAIN q \subseteq Nat
         /\ \A i \in DOMAIN Tail(q) : i + 1 \in DOMAIN q /\ Tail(q)[i] = q[i + 1]
         /\ \A i \in DOMAIN q : i = 1 \/ (i - 1 \in DOMAIN Tail(q) /\ Tail(q)[i - 1] = q[i])
<1>1. PICK n \in Nat : n = Len(q) /\ DOMAIN q = 1..n
  OBVIOUS
<1>2. /\ n > 0 /\ Tail(q) \in Seq(S) /\ DOMAIN Tail(q) = 1..(n - 1)
      /\ \A i \in 1..(n - 1) : Tail(q)[i] = q[i + 1]
  BY <1>1
<1>3. \A i \in 1..n : i = 1 \/ (i - 1 \in 1..(n - 1) /\ (i - 1) + 1 = i)
  OBVIOUS
<1>4. \A i \in 1..n : i = 1 \/ (i - 1 \in DOMAIN Tail(q) /\ Tail(q)[i - 1] = q[i])
  BY <1>2, <1>3
<1>5. Head(q) = q[1] /\ 1 \in 1..n
  BY <1>1, <1>2
<1> QED BY <1>1, <1>2, <1>4, <1>5

LEMMA ConcatFacts ==
  ASSUME NEW S, NEW q \in Seq(S), NEW t \in Seq(S)
  PROVE  /\ q \o t \in Seq(S)
         /\ \A i \in DOMAIN q : i \in DOMAIN (q \o t) /\ (q \o t)[i] = q[i]
         /\ \A i \in DOMAIN (q \o t) :
              i \in DOMAIN q \/ (i - Len(q) \in DOMAIN t /\ (q \o t)[i] = t[i - Len(q)])
         /\ \A i \in DOMAIN t :
              i + Len(q) \in DOMAIN (q \o t) /\ (q \o t)[i + Len(q)] = t[i]
<1>1. PICK m \in Nat : m = Len(q) /\ DOMAIN q = 1..m
  OBVIOUS
<1>2. PICK n \in Nat : n = Len(t) /\ DOMAIN t = 1..n
  OBVIOUS
<1>3. /\ q \o t \in Seq(S) /\ DOMAIN (q \o t) = 1..(m + n)
      /\ \A i \in 1..(m + n) : (q \o t)[i] = IF i <= m THEN q[i] ELSE t[i - m]
  BY <1>1, <1>2
<1>4. \A i \in 1..m : i \in 1..(m + n) /\ i <= m
  OBVIOUS
<1>5. \A i \in 1..(m + n) : i \in 1..m \/ (i - m \in 1..n /\ ~(i <= m))
  OBVIOUS
<1>6. \A i \in 1..n : i + m \in 1..(m + n) /\ ~(i + m <= m) /\ (i + m) - m = i
  OBVIOUS
<1>7. \A i \in 1..n : (q \o t)[i + m] = t[i]
  BY <1>3, <1>6
<1> QED BY <1>1, <1>2, <1>3, <1>4, <1>5, <1>6, <1>7

\* Events stay in the queue until they are dispatched.
LEMMA PendingKept ==
  ASSUME NEW type, NEW win, queue \in Seq(Events), Pending(type, win),
         \/ \E t \in Seq(Events) : queue' = queue \o t
         \/ /\ queue # <<>> /\ queue' = Tail(queue)
            /\ Head(queue).type # type \/ Head(queue).window # win
  PROVE  Pending(type, win)'
<1>1. PICK i \in DOMAIN queue : queue[i].type = type /\ queue[i].window = win
  BY DEF Pending
<1>2. CASE \E t \in Seq(Events) : queue' = queue \o t
  <2>1. PICK t \in Seq(Events) : queue' = queue \o t
    BY <1>2
  <2>2. i \in DOMAIN queue' /\ queue'[i] = queue[i]
    BY <2>1, ConcatFacts
  <2> QED BY <1>1, <2>2 DEF Pending
<1>3. CASE /\ queue # <<>> /\ queue' = Tail(queue)
           /\ Head(queue).type # type \/ Head(queue).window # win
  <2>1. /\ Head(queue) = queue[1]
        /\ i = 1 \/ (i - 1 \in DOMAIN queue' /\ queue'[i - 1] = queue[i])
    BY <1>3, TailFacts
  <2>2. i # 1
    BY <1>1, <1>3, <2>1
  <2> QED BY <1>1, <2>1, <2>2 DEF Pending
<1> QED BY <1>2, <1>3

LEMMA AppendPending ==
  ASSUME NEW e \in Events, queue \in Seq(Events), queue' = Append(queue, e)
  PROVE  /\ \E t \in Seq(Events) : queue' = queue \o t
         /\ Pending(e.type, e.window)'
<1>1. <<e>> \in Seq(Events) /\ queue' = queue \o <<e>>
  OBVIOUS
<1>2. PICK n \in Nat : n = Len(queue)
  OBVIOUS
<1>3. n + 1 \in DOMAIN queue' /\ queue'[n + 1] = e
  BY <1>2
<1> QED BY <1>1, <1>3 DEF Pending

-----------------------------------------------------------------------------
(* What the others do                                                      *)

\* A change shows at once, or its event is in the queue.
LEMMA OthersFacts ==
  ASSUME Shapes, Others
  PROVE  /\ UNCHANGED <<qtTracks, what, listVars, strutVars, compositing, pc, callVars,
                        inWorkArea, known, told, view>>
         /\ \E t \in Seq(Events) : queue' = queue \o t
         /\ clientList' \in Lists /\ stacking' \in Lists
         /\ alive' \subseteq alive /\ selected' = selected \cap alive'
         /\ strut' \in [Windows -> Struts] /\ cm' \in BOOLEAN
         /\ clientList' = clientList \/ Pending("ClientList", 0)'
         /\ stacking' = stacking \/ Pending("Stacking", 0)'
         /\ \A w \in alive' : strut'[w] = strut[w] \/ w \notin selected \/ Pending("Strut", w)'
<1> DEFINE Concat == \E t \in Seq(Events) : queue' = queue \o t
<1>1. <<>> \in Seq(Events) /\ (queue' = queue => queue' = queue \o <<>>)
  BY DEF Shapes
<1>2. \A s \in [Windows -> Struts], v \in Struts, w \in Windows :
        [s EXCEPT ![w] = v] \in [Windows -> Struts]
  OBVIOUS
<1>3. selected = selected \cap alive
  BY DEF Shapes
<1>4. ASSUME NEW list \in Lists, SetClientList(list)
      PROVE  /\ Concat /\ clientList' \in Lists /\ Pending("ClientList", 0)'
             /\ UNCHANGED <<stacking, alive, strut, cm, selected>>
  <2>1. PICK e \in Events : e = RootEvent("ClientList")
    BY DEF RootEvent, Event, Events
  <2>2. e.type = "ClientList" /\ e.window = 0
    BY <2>1 DEF RootEvent, Event
  <2>3. queue' = Append(queue, e)
    BY <1>4, <2>1 DEF SetClientList
  <2>4. Concat /\ Pending("ClientList", 0)'
    BY <2>2, <2>3, AppendPending DEF Shapes
  <2> QED BY <1>4, <2>4 DEF SetClientList
<1>5. ASSUME NEW list \in Lists, SetClientListStacking(list)
      PROVE  /\ Concat /\ stacking' \in Lists /\ Pending("Stacking", 0)'
             /\ UNCHANGED <<clientList, alive, strut, cm, selected>>
  <2>1. PICK e \in Events : e = RootEvent("Stacking")
    BY DEF RootEvent, Event, Events
  <2>2. e.type = "Stacking" /\ e.window = 0
    BY <2>1 DEF RootEvent, Event
  <2>3. queue' = Append(queue, e)
    BY <1>5, <2>1 DEF SetClientListStacking
  <2>4. Concat /\ Pending("Stacking", 0)'
    BY <2>2, <2>3, AppendPending DEF Shapes
  <2> QED BY <1>5, <2>4 DEF SetClientListStacking
<1>6. ASSUME NEW w \in Windows, NEW s \in Struts, SetStrut(w, s)
      PROVE  /\ Concat /\ strut' \in [Windows -> Struts]
             /\ \A x \in Windows : strut'[x] = strut[x] \/ x \notin selected
                                     \/ Pending("Strut", x)'
             /\ UNCHANGED <<clientList, stacking, alive, cm, selected>>
  <2>1. PICK e \in Events : e = Event("Strut", w, FALSE)
    BY DEF Event, Events
  <2>2. e.type = "Strut" /\ e.window = w
    BY <2>1 DEF Event
  <2>3. strut' = [strut EXCEPT ![w] = s]
    BY <1>6 DEF SetStrut
  <2>4. \A x \in Windows : x = w \/ strut'[x] = strut[x]
    BY <2>3 DEF Shapes
  <2>5. CASE w \in selected
    <3>1. queue' = Append(queue, e)
      BY <1>6, <2>1, <2>5 DEF SetStrut
    <3>2. Concat /\ Pending("Strut", w)'
      BY <2>2, <3>1, AppendPending DEF Shapes
    <3> QED BY <1>2, <1>6, <2>3, <2>4, <3>2 DEF Shapes, SetStrut
  <2>6. CASE w \notin selected
    <3>1. queue' = queue
      BY <1>6, <2>6 DEF SetStrut
    <3> QED BY <1>1, <1>2, <1>6, <2>3, <2>4, <2>6, <3>1 DEF Shapes, SetStrut
  <2> QED BY <2>5, <2>6
<1>7. ASSUME NEW w \in Windows, Destroy(w)
      PROVE  /\ Concat /\ strut' \in [Windows -> Struts]
             /\ alive' \subseteq alive /\ selected' = selected \cap alive'
             /\ \A x \in alive' : strut'[x] = strut[x]
             /\ UNCHANGED <<clientList, stacking, cm>>
  <2>1. strut' = [strut EXCEPT ![w] = 0] /\ alive' = alive \ {w}
        /\ selected' = selected \ {w} /\ queue' = queue
    BY <1>7 DEF Destroy
  <2>2. strut' \in [Windows -> Struts]
    BY <1>2, <2>1, FilterAssumption DEF Shapes
  <2>3. \A x \in alive' : strut'[x] = strut[x]
    BY <2>1 DEF Shapes
  <2> QED BY <1>1, <1>3, <1>7, <2>1, <2>2, <2>3 DEF Destroy
<1>8. ASSUME SetCompositor
      PROVE  /\ Concat /\ cm' \in BOOLEAN
             /\ UNCHANGED <<clientList, stacking, alive, strut, selected>>
  <2> DEFINE N(win) == [type |-> "Selection", window |-> win, owner |-> ~cm]
  <2>1. \A win \in {"basic", "windows", "root"} : N(win) \in Events
    BY DEF Events
  <2>2. CASE what = "none" /\ ~qtTracks
    <3>1. queue' = queue \o <<>>
      BY <1>8, <2>2 DEF SetCompositor
    <3> QED BY <1>1, <1>8, <3>1 DEF SetCompositor
  <2>3. CASE what # "none" /\ ~qtTracks
    <3>1. queue' = queue \o <<N(what)>> /\ <<N(what)>> \in Seq(Events)
      BY <1>8, <2>1, <2>3 DEF SetCompositor, Shapes
    <3> QED BY <1>8, <3>1 DEF SetCompositor
  <2>4. CASE qtTracks
    <3>1. PICK kept \in {<<>>, IF what = "none" THEN <<>> ELSE <<N(what)>>} :
             queue' = (queue \o kept) \o <<N("root")>>
      BY <1>8, <2>4 DEF SetCompositor
    <3>2. kept \in Seq(Events)
      <4>1. <<>> \in Seq(Events)
        OBVIOUS
      <4>2. CASE what = "none"
        BY <3>1, <4>1, <4>2
      <4>3. CASE what # "none"
        <5>1. PICK e \in Events : e = N(what)
          BY <2>1, <4>3 DEF Shapes
        <5>2. <<e>> \in Seq(Events) /\ kept \in {<<>>, <<e>>}
          BY <3>1, <4>3, <5>1
        <5> QED BY <4>1, <5>2
      <4> QED BY <4>2, <4>3
    <3>4. <<N("root")>> \in Seq(Events) /\ queue \in Seq(Events)
      <4>1. PICK e \in Events : e = N("root")
        BY <2>1
      <4>2. <<e>> \in Seq(Events)
        OBVIOUS
      <4> QED BY <4>1, <4>2 DEF Shapes
    <3>3. queue' = queue \o (kept \o <<N("root")>>) /\ kept \o <<N("root")>> \in Seq(Events)
      BY <3>1, <3>2, <3>4, ConcatAssociative
    <3> QED BY <1>8, <3>3 DEF SetCompositor
  <2> QED BY <2>2, <2>3, <2>4 DEF Shapes
<1> HIDE DEF Concat
<1>9. UNCHANGED <<qtTracks, what, listVars, strutVars, compositing, pc, callVars,
                  inWorkArea, known, told, view>>
  BY DEF Others, SetClientList, SetClientListStacking, SetStrut, Destroy, SetCompositor, Change
<1>10. \/ \E list \in Lists : SetClientList(list)
       \/ \E list \in Lists : SetClientListStacking(list)
       \/ \E w \in Windows, s \in Struts : SetStrut(w, s)
       \/ \E w \in Windows : Destroy(w)
       \/ SetCompositor
  BY DEF Others
<1>11. Concat /\ clientList' \in Lists /\ stacking' \in Lists
       /\ alive' \subseteq alive /\ selected' = selected \cap alive'
       /\ strut' \in [Windows -> Struts] /\ cm' \in BOOLEAN
  BY <1>3, <1>4, <1>5, <1>6, <1>7, <1>8, <1>10 DEF Shapes
<1>12. clientList' = clientList \/ Pending("ClientList", 0)'
  BY <1>4, <1>5, <1>6, <1>7, <1>8, <1>10
<1>13. stacking' = stacking \/ Pending("Stacking", 0)'
  BY <1>4, <1>5, <1>6, <1>7, <1>8, <1>10
<1>14. \A w \in alive' : strut'[w] = strut[w] \/ w \notin selected \/ Pending("Strut", w)'
  <2>1. alive' \subseteq Windows
    BY <1>11 DEF Shapes
  <2> QED BY <1>4, <1>5, <1>6, <1>7, <1>8, <1>10, <2>1
<1> QED BY <1>9, <1>11, <1>12, <1>13, <1>14 DEF Concat

-----------------------------------------------------------------------------
(* What the process does                                                   *)

\* Between two walks the windows are those of the last client list.
LEMMA WalkDone ==
  ASSUME Shapes, Walking, todo = <<>>
  PROVE  ToSet(windows) = ToSet(clients)
<1>1. ToSet(windows) \subseteq Windows /\ ToSet(clients) \subseteq Windows
  BY DEF Shapes, ToSet
<1>2. DOMAIN todo = {}
  OBVIOUS
<1> QED BY <1>1, <1>2 DEF Walking

\* The walk for a new client list
LEMMA UpdateFacts ==
  ASSUME Shapes, Walking, todo = <<>>, UpdateClientList
  PROVE  /\ \E n \in Nat : clients' \in Increasing(n)
         /\ ToSet(clients') = ToSet(clientList) /\ ToSet(clientList) \subseteq Windows
         /\ todo' \in Seq(WalkSteps)
         /\ \A i \in DOMAIN todo' :
              /\ \/ todo'[i][1] = "remove" /\ todo'[i][2] \in ToSet(windows) \ ToSet(clients')
                 \/ todo'[i][1] = "select" /\ todo'[i][2] \in ToSet(clients') \ ToSet(windows)
              /\ \A j \in DOMAIN todo' : todo'[i][2] = todo'[j][2] => i = j
         /\ \A w : w \in ToSet(windows) \/ w \in ToSet(clients') =>
              \/ w \in ToSet(windows) /\ w \in ToSet(clients')
              \/ \E i \in DOMAIN todo' : todo'[i][2] = w
<1>1. PICK n \in Nat : Sorted(clientList) \in Increasing(n)
  BY ListFacts DEF Shapes
<1>2. PICK new \in Increasing(n) : new = Sorted(clientList)
  BY <1>1
<1>3. /\ clients' = new /\ ToSet(new) = ToSet(clientList)
      /\ ToSet(clientList) \subseteq Windows
  BY <1>2, ListFacts DEF UpdateClientList, Shapes
<1>4. PICK m \in Nat : clients \in Increasing(m)
  BY DEF Shapes
<1>5. PICK d \in Changes : d = Diff(clients, new)
  BY <1>4, DiffIsRight
<1>6. todo' = Calls(d)
  BY <1>2, <1>5 DEF UpdateClientList
<1> DEFINE R == ToSet(windows) \ ToSet(new)
           A == ToSet(new) \ ToSet(windows)
<1>7. Enumerates(d.remove, R) /\ Enumerates(d.add, A)
  BY <1>4, <1>5, DiffIsRight, WalkDone
<1>8. R \in SUBSET Windows /\ A \in SUBSET Windows /\ R \cap A = {}
  <2>1. ToSet(windows) \subseteq Windows
    BY DEF Shapes, ToSet
  <2> QED BY <1>3, <2>1
<1>9. /\ Calls(d) \in Seq(WalkSteps)
      /\ \A i \in DOMAIN Calls(d) :
           /\ \/ Calls(d)[i][1] = "remove" /\ Calls(d)[i][2] \in R
              \/ Calls(d)[i][1] = "select" /\ Calls(d)[i][2] \in A
           /\ \A j \in DOMAIN Calls(d) : Calls(d)[i][2] = Calls(d)[j][2] => i = j
      /\ \A w \in R \cup A : \E i \in DOMAIN Calls(d) : Calls(d)[i][2] = w
  <2> HIDE DEF R, A
  <2> QED BY <1>7, <1>8, CallsFacts, SMTT(30)
<1>10. \A w : w \in ToSet(windows) \/ w \in ToSet(new) =>
              w \in R \cup A \/ (w \in ToSet(windows) /\ w \in ToSet(new))
  OBVIOUS
<1>11. clients' \in Increasing(n)
  BY <1>2, <1>3
<1> QED BY <1>3, <1>6, <1>9, <1>10, <1>11

\* The first of the calls that are left
LEMMA FirstFacts ==
  ASSUME Shapes, Walking, todo # <<>>
  PROVE  /\ Head(todo) = todo[1] /\ 1 \in DOMAIN todo
         /\ todo[1] = <<todo[1][1], todo[1][2]>> /\ todo[1][2] \in Windows
         /\ Tail(todo) \in Seq(WalkSteps)
         /\ \A i \in DOMAIN Tail(todo) : i + 1 \in DOMAIN todo /\ Tail(todo)[i] = todo[i + 1]
         /\ \A i \in DOMAIN Tail(todo) :
              Tail(todo)[i][1] # "add" /\ Tail(todo)[i][2] # todo[1][2]
         /\ \A w : (\E i \in DOMAIN todo : todo[i][2] = w) =>
              w = todo[1][2] \/ \E i \in DOMAIN Tail(todo) : Tail(todo)[i][2] = w
<1>1. todo \in Seq(WalkSteps)
  BY DEF Shapes
<1>2. /\ Head(todo) = todo[1] /\ 1 \in DOMAIN todo /\ Tail(todo) \in Seq(WalkSteps)
      /\ DOMAIN todo \subseteq Nat
      /\ \A i \in DOMAIN Tail(todo) : i + 1 \in DOMAIN todo /\ Tail(todo)[i] = todo[i + 1]
      /\ \A i \in DOMAIN todo :
           i = 1 \/ (i - 1 \in DOMAIN Tail(todo) /\ Tail(todo)[i - 1] = todo[i])
  BY <1>1, TailFacts
<1>3. todo[1] \in WalkSteps
  BY <1>1, <1>2
<1>4. todo[1] = <<todo[1][1], todo[1][2]>> /\ todo[1][2] \in Windows
  BY <1>3 DEF WalkSteps
<1>5. DOMAIN Tail(todo) \subseteq Nat \ {0}
  BY <1>2
<1>6. \A i \in DOMAIN Tail(todo) : i + 1 # 1
  BY <1>5
<1>7. \A i \in DOMAIN Tail(todo) : Tail(todo)[i][1] # "add" /\ Tail(todo)[i][2] # todo[1][2]
  BY <1>2, <1>6 DEF Walking
<1>8. \A w : (\E i \in DOMAIN todo : todo[i][2] = w) =>
              w = todo[1][2] \/ \E i \in DOMAIN Tail(todo) : Tail(todo)[i][2] = w
  BY <1>2
<1> QED BY <1>2, <1>4, <1>7, <1>8

\* addClient() has selected the events of its window.
LEMMA AdvanceFacts ==
  ASSUME Shapes, todo # <<>>, todo' = <<<<"add", todo[1][2]>>>> \o Tail(todo)
  PROVE  /\ DOMAIN todo' = DOMAIN todo /\ 1 \in DOMAIN todo
         /\ todo'[1][1] = "add" /\ todo'[1][2] = todo[1][2]
         /\ \A i \in DOMAIN todo : i # 1 => todo'[i] = todo[i]
<1>1. todo \in Seq(WalkSteps)
  BY DEF Shapes
<1>2. PICK n \in Nat : n = Len(todo) /\ DOMAIN todo = 1..n /\ n > 0
  BY <1>1
<1>3. 1 \in 1..n
  BY <1>2
<1>4. PICK s \in WalkSteps : s = <<"add", todo[1][2]>>
  <2>1. todo[1] \in WalkSteps
    BY <1>1, <1>2, <1>3
  <2> QED BY <2>1 DEF WalkSteps
<1>5. PICK t \in Seq(WalkSteps) : t = Tail(todo) /\ Len(t) = n - 1
  <2>1. Tail(todo) \in Seq(WalkSteps)
    BY TailFacts, <1>1
  <2>2. Len(Tail(todo)) = n - 1
    BY <1>1, <1>2
  <2> QED BY <2>1, <2>2
<1>6. <<s>> \in Seq(WalkSteps) /\ Len(<<s>>) = 1 /\ <<s>>[1] = s
  OBVIOUS
<1>7. Len(<<s>> \o t) = n /\ DOMAIN (<<s>> \o t) = 1..n /\ (<<s>> \o t)[1] = s
  BY <1>2, <1>5, <1>6
<1>8. \A i \in 1..n : i # 1 => (<<s>> \o t)[i] = t[i - 1] /\ t[i - 1] = todo[i]
  BY <1>1, <1>2, <1>5, <1>6
<1>9. todo' = <<s>> \o t
  BY <1>4, <1>5
<1>10. s[1] = "add" /\ s[2] = todo[1][2]
  BY <1>4
<1> QED BY <1>2, <1>3, <1>7, <1>8, <1>9, <1>10

-----------------------------------------------------------------------------
(* Each step keeps the invariant                                           *)

\* A step of the process leaves the server alone.
OwnStep ==
  \/ CallWindows \/ ConnectWindowChanged \/ ConnectStrutChanged \/ CallWorkArea
  \/ ReadOwner \/ ReadClients \/ ReadStacking \/ Activated
  \/ RemoveClient \/ SelectEvents \/ AddClient
  \/ WorkAreaRead \/ WorkAreaReturn
  \/ OnClientList \/ ClientListUpdated \/ OnStacking \/ OnStrut \/ OnSelection

LEMMA StepIs ==
  ASSUME [Next]_vars
  PROVE  Others \/ OwnStep \/ UNCHANGED vars
BY DEF Next, OwnStep

LEMMA OwnStepFacts ==
  ASSUME Shapes, OwnStep
  PROVE  /\ UNCHANGED serverVars
         /\ queue' = queue \/ (queue # <<>> /\ queue' = Tail(queue))
         /\ queue' \in Seq(Events)
<1>1. UNCHANGED serverVars /\ (queue' = queue \/ (queue # <<>> /\ queue' = Tail(queue)))
  BY DEF OwnStep, CallWindows, ConnectWindowChanged, ConnectStrutChanged, CallWorkArea, Call,
         ReadOwner, ReadClients, ReadStacking, Activated, RemoveClient, SelectEvents,
         AddClient, Doing, WorkAreaRead, WorkAreaReturn, OnClientList, ClientListUpdated,
         OnStacking, OnStrut, OnSelection, Dispatch
<1>2. queue # <<>> => Tail(queue) \in Seq(Events)
  BY TailFacts DEF Shapes
<1> QED BY <1>1, <1>2 DEF Shapes

\* A call of init(): the filter is enough, or a larger one is made.
LEMMA CallFacts ==
  ASSUME CallWindows \/ ConnectWindowChanged \/ ConnectStrutChanged \/ CallWorkArea
  PROVE  \E info \in {"basic", "windows"}, next \in {"return", "connect", "workArea"} :
           Call(info, next) /\ (next # "return" => info = "windows")
BY DEF CallWindows, ConnectWindowChanged, ConnectStrutChanged, CallWorkArea

LEMMA RankFacts ==
  /\ Rank["none"] = 0 /\ Rank["basic"] = 1 /\ Rank["windows"] = 2
BY DEF Rank

LEMMA ShapesKept ==
  ASSUME FilterInv, [Next]_vars
  PROVE  Shapes'
<1> USE DEF FilterInv
<1>1. CASE Others
  <2>1. queue' \in Seq(Events)
    <3>1. PICK t \in Seq(Events) : queue' = queue \o t
      BY <1>1, OthersFacts
    <3>2. queue \o t \in Seq(Events)
      BY ConcatFacts DEF Shapes
    <3> QED BY <3>1, <3>2
  <2>2. alive' \subseteq Windows /\ selected' \subseteq alive'
    BY <1>1, OthersFacts DEF Shapes
  <2> QED BY <1>1, <2>1, <2>2, OthersFacts DEF Shapes, listVars, strutVars, callVars
<1>2. CASE OwnStep
  <2>1. UNCHANGED serverVars /\ queue' \in Seq(Events)
    BY <1>2, OwnStepFacts
  <2> DEFINE Server == /\ clientList \in Lists /\ stacking \in Lists /\ alive \subseteq Windows
                       /\ strut \in [Windows -> Struts] /\ cm \in BOOLEAN
                       /\ qtTracks \in BOOLEAN /\ queue \in Seq(Events)
             Lists2 == /\ windows \in Seq(Windows)
                       /\ \E n \in Nat : clients \in Increasing(n)
                       /\ ToSet(clients) \subseteq Windows
                       /\ todo \in Seq(WalkSteps)
             Flags == /\ what \in {"none", "basic", "windows"}
                      /\ compositing \in BOOLEAN /\ was \in BOOLEAN /\ told \in BOOLEAN
                      /\ strutSignalConnected \in BOOLEAN /\ inWorkArea \in BOOLEAN
                      /\ then \in {"return", "connect", "workArea"}
                      /\ pc \in {"idle", "owner", "clients", "stacking", "activate", "event"}
  <2>2. Server'
    BY <2>1 DEF Shapes, serverVars
  <2>3. selected' \subseteq alive'
    <3>1. selected' = selected \/ \E w \in alive : selected' = selected \cup {w}
      BY <1>2 DEF OwnStep, CallWindows, ConnectWindowChanged, ConnectStrutChanged,
         CallWorkArea, Call, ReadOwner, ReadClients, ReadStacking, Activated, RemoveClient,
         SelectEvents, SelectsEvents, AddClient, WorkAreaRead, WorkAreaReturn, OnClientList,
         ClientListUpdated, OnStacking, OnStrut, OnSelection, Dispatch
    <3> QED BY <2>1, <3>1 DEF Shapes, serverVars
  <2>4. Flags'
    <3>1. CASE OnSelection
      <4>1. queue[1] \in Events /\ Head(queue) = queue[1]
        BY <3>1, TailFacts DEF Shapes, OnSelection, Dispatch
      <4>2. Head(queue).owner \in BOOLEAN
        BY <4>1 DEF Events
      <4> QED BY <3>1, <4>2 DEF Shapes, OnSelection, Dispatch, listVars
    <3>2. CASE CallWindows \/ ConnectWindowChanged \/ ConnectStrutChanged \/ CallWorkArea
      <4>1. PICK info \in {"basic", "windows"}, next \in {"return", "connect", "workArea"} :
              Call(info, next)
        BY <3>2, CallFacts
      <4>2. UNCHANGED <<compositing, told>>
        BY <4>1 DEF Call
      <4>3. CASE Rank[what] < Rank[info]
        BY <4>1, <4>2, <4>3 DEF Call, Shapes
      <4>4. CASE ~(Rank[what] < Rank[info])
        <5>1. Continue(next) /\ UNCHANGED <<what, was, then, pc>>
          BY <4>1, <4>4 DEF Call
        <5>2. strutSignalConnected' \in BOOLEAN /\ inWorkArea' \in BOOLEAN
          BY <5>1 DEF Continue
        <5> QED BY <4>2, <5>1, <5>2 DEF Shapes
      <4> QED BY <4>3, <4>4
    <3>3. CASE ReadOwner \/ ReadClients \/ ReadStacking \/ Activated
      BY <3>3 DEF ReadOwner, ReadClients, ReadStacking, Activated, Continue,
         AnnounceCompositing, Shapes, serverVars, callVars, listVars, strutVars
    <3>4. CASE RemoveClient \/ SelectEvents \/ AddClient
      BY <3>4 DEF RemoveClient, SelectEvents, AddClient, Doing, StrutChanged, LosesStrut, Shapes
    <3>5. CASE WorkAreaRead \/ WorkAreaReturn \/ ClientListUpdated
      <4>1. CASE WorkAreaRead
        BY <4>1 DEF WorkAreaRead, callVars, Shapes
      <4>2. CASE WorkAreaReturn
        BY <4>2 DEF WorkAreaReturn, strutVars, callVars, Shapes
      <4>3. CASE ClientListUpdated
        BY <4>3 DEF ClientListUpdated, strutVars, callVars, Shapes
      <4> QED BY <3>5, <4>1, <4>2, <4>3
    <3>6. CASE OnClientList \/ OnStacking \/ OnStrut
      BY <3>6 DEF OnClientList, OnStacking, OnStrut, Dispatch, StrutChanged, Shapes, listVars
    <3> QED BY <1>2, <3>1, <3>2, <3>3, <3>4, <3>5, <3>6 DEF OwnStep
  <2>5. Lists2'
    <3>1. CASE UNCHANGED <<windows, clients, todo>>
      BY <3>1 DEF Shapes
    <3>2. CASE ReadOwner
      <4>1. <<>> \in Increasing(0) /\ ToSet(<<>>) = {}
        BY DEF Increasing, ToSet
      <4> QED BY <3>2, <4>1 DEF ReadOwner, callVars, Shapes
    <3>3. CASE UpdateClientList /\ todo = <<>> /\ windows' = windows
      BY <3>3, UpdateFacts DEF Shapes
    <3>4. CASE RemoveClient
      <4>1. todo # <<>> /\ windows' = RemoveFirst(windows, Head(todo)[2])
            /\ todo' = Tail(todo) /\ clients' = clients /\ todo[1][1] = "remove"
        BY <3>4, FirstFacts DEF RemoveClient, Doing
      <4>2. Head(todo)[2] \in ToSet(windows)
        BY <4>1, FirstFacts DEF Walking
      <4> QED BY <4>1, <4>2, FirstFacts, RemoveFacts DEF Shapes, Walking
    <3>5. CASE SelectEvents
      <4>1. todo # <<>> /\ windows' = windows /\ clients' = clients
            /\ todo' = <<<<"add", todo[1][2]>>>> \o Tail(todo)
        BY <3>5, FirstFacts DEF SelectEvents, Doing
      <4>2. <<"add", todo[1][2]>> \in WalkSteps
        BY <4>1, FirstFacts DEF WalkSteps
      <4>3. <<<<"add", todo[1][2]>>>> \in Seq(WalkSteps)
        BY <4>2
      <4> QED BY <4>1, <4>3, FirstFacts, ConcatFacts DEF Shapes
    <3>6. CASE AddClient
      <4>1. todo # <<>> /\ windows' = Append(windows, todo[1][2])
            /\ todo' = Tail(todo) /\ clients' = clients
        BY <3>6, FirstFacts DEF AddClient, Doing
      <4> QED BY <4>1, FirstFacts, AppendFacts DEF Shapes
    <3>7. UNCHANGED <<windows, clients, todo>> \/ ReadOwner \/ RemoveClient \/ SelectEvents
          \/ AddClient \/ ReadClients \/ (OnClientList /\ UpdateClientList)
      BY <1>2 DEF OwnStep, CallWindows, ConnectWindowChanged, ConnectStrutChanged,
         CallWorkArea, Call, ReadStacking, Activated, WorkAreaRead, WorkAreaReturn,
         OnClientList, ClientListUpdated, OnStacking, OnStrut, OnSelection, listVars, callVars
    <3>8. CASE ReadClients \/ (OnClientList /\ UpdateClientList)
      <4>1. UpdateClientList /\ todo = <<>> /\ windows' = windows
        BY <3>8 DEF ReadClients, OnClientList, Dispatch, Located
      <4> QED BY <3>3, <4>1
    <3> QED BY <3>1, <3>2, <3>4, <3>5, <3>6, <3>7, <3>8
  <2> QED BY <2>2, <2>3, <2>4, <2>5 DEF Shapes
<1>3. CASE UNCHANGED vars
  BY <1>3 DEF Shapes, vars, serverVars, listVars, strutVars, callVars
<1> QED BY <1>1, <1>2, <1>3, StepIs

LEMMA LocatedKept ==
  ASSUME FilterInv, [Next]_vars
  PROVE  Located'
<1> USE DEF FilterInv
<1>1. CASE Others
  BY <1>1, OthersFacts DEF Located, Initializing, listVars, strutVars, callVars
<1>2. CASE UNCHANGED vars
  BY <1>2 DEF Located, Initializing, vars, serverVars, listVars, strutVars, callVars
<1>3. CASE CallWindows \/ ConnectWindowChanged \/ ConnectStrutChanged \/ CallWorkArea
  <2>1. PICK info \in {"basic", "windows"}, next \in {"return", "connect", "workArea"} :
          Call(info, next) /\ (next # "return" => info = "windows")
    BY <1>3, CallFacts
  <2>2. pc = "idle" /\ ~inWorkArea /\ todo = <<>> /\ then = "return"
    BY <2>1 DEF Call, Located, Initializing, Shapes
  <2>3. UNCHANGED <<windows, clients, todo>>
    BY <2>1 DEF Call, listVars
  <2>4. CASE Rank[what] < Rank[info]
    <3>1. what' = info /\ then' = next /\ pc' = "owner" /\ inWorkArea' = inWorkArea
      BY <2>1, <2>4 DEF Call
    <3> QED BY <2>1, <2>2, <2>3, <3>1 DEF Located, Initializing
  <2>5. CASE ~(Rank[what] < Rank[info])
    <3>1. UNCHANGED <<what, then, pc>> /\ inWorkArea' = (next = "workArea")
      BY <2>1, <2>5 DEF Call, Continue
    <3>2. next = "workArea" => what = "windows"
      BY <2>1, <2>5, RankFacts DEF Shapes
    <3> QED BY <2>2, <2>3, <3>1, <3>2 DEF Located, Initializing
  <2> QED BY <2>4, <2>5
<1>4. CASE ReadOwner
  BY <1>4 DEF ReadOwner, Located, Initializing, callVars
<1>5. CASE ReadClients
  BY <1>5 DEF ReadClients, UpdateClientList, Located, Initializing
<1>6. CASE ReadStacking
  BY <1>6 DEF ReadStacking, Located, Initializing, listVars
<1>7. CASE Activated
  BY <1>7 DEF Activated, Continue, Located, Initializing, Shapes
<1>8. CASE RemoveClient \/ SelectEvents \/ AddClient
  <2>1. /\ pc \in {"activate", "event"} /\ todo # <<>>
        /\ UNCHANGED <<what, clients, pc, then, strutSignalConnected>>
        /\ ~inWorkArea
    BY <1>8 DEF RemoveClient, SelectEvents, AddClient, Doing
  <2>2. inWorkArea' => strutSignalConnected
    BY <1>8, <2>1 DEF RemoveClient, SelectEvents, AddClient, StrutChanged
  <2>3. strutSignalConnected => what = "windows"
    BY DEF Caching
  <2>4. what # "none"
    BY <2>1 DEF Located
  <2> QED BY <2>1, <2>2, <2>3, <2>4 DEF Located, Initializing
<1>9. CASE WorkAreaRead \/ WorkAreaReturn \/ ClientListUpdated
  BY <1>9 DEF WorkAreaRead, WorkAreaReturn, ClientListUpdated, Located, Initializing,
     listVars, callVars, strutVars
<1>10. CASE OnClientList
  BY <1>10 DEF OnClientList, Dispatch, UpdateClientList, Located, Initializing
<1>11. CASE OnStacking \/ OnSelection
  BY <1>11 DEF OnStacking, OnSelection, Dispatch, Located, Initializing, listVars
<1>12. CASE OnStrut
  <2>1. /\ pc = "idle" /\ ~inWorkArea
        /\ UNCHANGED <<what, clients, windows, pc, then, todo>>
    BY <1>12 DEF OnStrut, Dispatch, listVars
  <2>2. inWorkArea' => strutSignalConnected
    BY <1>12, <2>1 DEF OnStrut, Dispatch, StrutChanged
  <2>3. strutSignalConnected => what = "windows"
    BY DEF Caching
  <2> QED BY <2>1, <2>2, <2>3 DEF Located, Initializing
<1> QED BY <1>1, <1>2, <1>3, <1>4, <1>5, <1>6, <1>7, <1>8, <1>9, <1>10, <1>11, <1>12, StepIs
        DEF OwnStep

LEMMA WalkingKept ==
  ASSUME FilterInv, [Next]_vars
  PROVE  Walking'
<1> USE DEF FilterInv
<1>1. CASE UNCHANGED <<windows, clients, todo, known>>
  BY <1>1 DEF Walking
<1>2. CASE ReadOwner
  <2>1. windows' = <<>> /\ clients' = <<>> /\ todo' = <<>>
    BY <1>2 DEF ReadOwner, callVars, Located
  <2>2. ToSet(<<>>) = {} /\ IsInjective(<<>>) /\ DOMAIN <<>> = {}
    BY DEF ToSet, IsInjective
  <2> QED BY <2>1, <2>2 DEF Walking
<1>3. CASE ReadClients \/ (OnClientList /\ UpdateClientList)
  <2>1. UpdateClientList /\ todo = <<>> /\ windows' = windows /\ known' = known
    BY <1>3 DEF ReadClients, OnClientList, Dispatch, Located
  <2>2. /\ \A i \in DOMAIN todo' :
             /\ \/ todo'[i][1] = "remove" /\ todo'[i][2] \in ToSet(windows) \ ToSet(clients')
                \/ todo'[i][1] = "select" /\ todo'[i][2] \in ToSet(clients') \ ToSet(windows)
             /\ \A j \in DOMAIN todo' : todo'[i][2] = todo'[j][2] => i = j
        /\ \A w : w \in ToSet(windows) \/ w \in ToSet(clients') =>
             \/ w \in ToSet(windows) /\ w \in ToSet(clients')
             \/ \E i \in DOMAIN todo' : todo'[i][2] = w
    BY <2>1, UpdateFacts
  <2>3. ToSet(windows') = ToSet(windows) /\ IsInjective(windows')
    BY <2>1 DEF Walking
  <2>4. ToSet(windows') \subseteq known'
    BY <2>1, <2>3 DEF Walking
  <2> QED BY <2>2, <2>3, <2>4 DEF Walking
<1>4. CASE RemoveClient
  <2>1. todo # <<>> /\ todo' = Tail(todo) /\ clients' = clients /\ todo[1][1] = "remove"
        /\ windows' = RemoveFirst(windows, todo[1][2]) /\ known' = known \ {todo[1][2]}
    BY <1>4, FirstFacts DEF RemoveClient, Doing
  <2>2. todo[1][2] \in ToSet(windows) \ ToSet(clients)
    BY <2>1, FirstFacts DEF Walking
  <2>3. ToSet(windows') = ToSet(windows) \ {todo[1][2]} /\ IsInjective(windows')
    BY <2>1, <2>2, RemoveFacts DEF Shapes, Walking
  <2>4. /\ \A i \in DOMAIN todo' : i + 1 \in DOMAIN todo /\ todo'[i] = todo[i + 1]
        /\ \A i \in DOMAIN todo' : todo'[i][1] # "add" /\ todo'[i][2] # todo[1][2]
        /\ DOMAIN todo' \subseteq Nat
    BY <2>1, FirstFacts
  <2>5. \A i \in DOMAIN todo' :
          /\ todo'[i][1] = "remove" => todo'[i][2] \in ToSet(windows') \ ToSet(clients')
          /\ todo'[i][1] # "remove" => todo'[i][2] \in ToSet(clients') \ ToSet(windows')
          /\ \A j \in DOMAIN todo' : todo'[i][2] = todo'[j][2] => i + 1 = j + 1
    BY <2>1, <2>3, <2>4 DEF Walking
  <2>6. \A i, j \in DOMAIN todo' : i + 1 = j + 1 => i = j
    BY <2>4
  <2>7. \A w \in Windows : w \in ToSet(windows') \/ w \in ToSet(clients') =>
          \/ w \in ToSet(windows') /\ w \in ToSet(clients')
          \/ \E i \in DOMAIN todo' : todo'[i][2] = w
    BY <2>1, <2>2, <2>3, FirstFacts DEF Walking
  <2>8. ToSet(windows') \subseteq known'
    BY <2>1, <2>3 DEF Walking
  <2> QED BY <2>3, <2>4, <2>5, <2>6, <2>7, <2>8 DEF Walking
<1>5. CASE SelectEvents
  <2>1. todo # <<>> /\ UNCHANGED <<windows, clients, known>> /\ todo[1][1] = "select"
        /\ todo' = <<<<"add", todo[1][2]>>>> \o Tail(todo)
    BY <1>5, FirstFacts DEF SelectEvents, Doing
  <2>2. /\ DOMAIN todo' = DOMAIN todo /\ 1 \in DOMAIN todo
        /\ todo'[1][1] = "add" /\ todo'[1][2] = todo[1][2]
        /\ \A i \in DOMAIN todo : i # 1 => todo'[i] = todo[i]
    BY <2>1, AdvanceFacts
  <2>3. \A i \in DOMAIN todo : todo'[i][2] = todo[i][2]
    BY <2>2
  <2>4. \A i \in DOMAIN todo : /\ todo'[i][1] = "remove" <=> todo[i][1] = "remove"
                               /\ todo'[i][1] = "add" => i = 1
    BY <2>1, <2>2 DEF Walking
  <2>5. \A i \in DOMAIN todo :
          /\ todo'[i][1] = "remove" => todo'[i][2] \in ToSet(windows) \ ToSet(clients)
          /\ todo'[i][1] # "remove" => todo'[i][2] \in ToSet(clients) \ ToSet(windows)
          /\ \A j \in DOMAIN todo : todo'[i][2] = todo'[j][2] => i = j
    BY <2>3, <2>4 DEF Walking
  <2>6. \A w : (\E i \in DOMAIN todo : todo[i][2] = w) => \E i \in DOMAIN todo' : todo'[i][2] = w
    BY <2>2, <2>3
  <2>7. \A w \in Windows : w \in ToSet(windows) \/ w \in ToSet(clients) =>
          \/ w \in ToSet(windows) /\ w \in ToSet(clients)
          \/ \E i \in DOMAIN todo' : todo'[i][2] = w
    BY <2>6 DEF Walking
  <2>8. ToSet(windows)' = ToSet(windows) /\ ToSet(clients)' = ToSet(clients)
        /\ IsInjective(windows)' /\ (ToSet(windows) \subseteq known)'
    BY <2>1 DEF Walking
  <2> QED BY <2>2, <2>4, <2>5, <2>7, <2>8 DEF Walking
<1>6. CASE AddClient
  <2>1. todo # <<>> /\ todo' = Tail(todo) /\ clients' = clients /\ todo[1][1] = "add"
        /\ windows' = Append(windows, todo[1][2]) /\ known' = known \cup {todo[1][2]}
    BY <1>6, FirstFacts DEF AddClient, Doing
  <2>2. todo[1][2] \in ToSet(clients) \ ToSet(windows)
    BY <2>1, FirstFacts DEF Walking
  <2>3. ToSet(windows') = ToSet(windows) \cup {todo[1][2]} /\ IsInjective(windows')
    BY <2>1, <2>2, FirstFacts, AppendFacts DEF Shapes, Walking
  <2>4. /\ \A i \in DOMAIN todo' : i + 1 \in DOMAIN todo /\ todo'[i] = todo[i + 1]
        /\ \A i \in DOMAIN todo' : todo'[i][1] # "add" /\ todo'[i][2] # todo[1][2]
        /\ DOMAIN todo' \subseteq Nat
    BY <2>1, FirstFacts
  <2>5. \A i \in DOMAIN todo' :
          /\ todo'[i][1] = "remove" => todo'[i][2] \in ToSet(windows') \ ToSet(clients')
          /\ todo'[i][1] # "remove" => todo'[i][2] \in ToSet(clients') \ ToSet(windows')
          /\ \A j \in DOMAIN todo' : todo'[i][2] = todo'[j][2] => i + 1 = j + 1
    BY <2>1, <2>3, <2>4 DEF Walking
  <2>6. \A i, j \in DOMAIN todo' : i + 1 = j + 1 => i = j
    BY <2>4
  <2>7. \A w \in Windows : w \in ToSet(windows') \/ w \in ToSet(clients') =>
          \/ w \in ToSet(windows') /\ w \in ToSet(clients')
          \/ \E i \in DOMAIN todo' : todo'[i][2] = w
    BY <2>1, <2>2, <2>3, FirstFacts DEF Walking
  <2>8. ToSet(windows') \subseteq known'
    BY <2>1, <2>3 DEF Walking
  <2> QED BY <2>3, <2>4, <2>5, <2>6, <2>7, <2>8 DEF Walking
<1>7. Others \/ UNCHANGED vars => UNCHANGED <<windows, clients, todo, known>>
  BY OthersFacts DEF vars, listVars, callVars
<1>8. OwnStep => \/ UNCHANGED <<windows, clients, todo, known>>
                 \/ ReadOwner \/ ReadClients \/ RemoveClient \/ SelectEvents \/ AddClient
                 \/ (OnClientList /\ UpdateClientList)
  BY DEF OwnStep, CallWindows, ConnectWindowChanged, ConnectStrutChanged,
     CallWorkArea, Call, ReadStacking, Activated, WorkAreaRead, WorkAreaReturn,
     OnClientList, Dispatch, ClientListUpdated, OnStacking, OnStrut, OnSelection, listVars,
     callVars
<1> QED BY <1>1, <1>2, <1>3, <1>4, <1>5, <1>6, <1>7, <1>8, StepIs

\* Only its dispatch takes an event from the queue.
LEMMA PendingUntil ==
  ASSUME Shapes, OwnStep, NEW type, NEW win, Pending(type, win)
  PROVE  \/ Pending(type, win)'
         \/ /\ queue # <<>> /\ queue' = Tail(queue)
            /\ Head(queue).type = type /\ Head(queue).window = win
<1>1. queue \in Seq(Events)
  BY DEF Shapes
<1>2. CASE queue' = queue
  BY <1>2 DEF Pending
<1>3. CASE queue # <<>> /\ queue' = Tail(queue)
  BY <1>1, <1>3, PendingKept
<1> QED BY <1>2, <1>3, OwnStepFacts

LEMMA FollowingKept ==
  ASSUME FilterInv, [Next]_vars
  PROVE  Following'
<1> USE DEF FilterInv
<1> DEFINE SameList == ToSet(clients) = ToSet(clientList) \/ Pending("ClientList", 0)
           SameReply == reply = stacking \/ Pending("Stacking", 0)
           SameStacking == stackingOrder = stacking \/ Pending("Stacking", 0)
<1>1. CASE Others
  <2>1. PICK t \in Seq(Events) : queue' = queue \o t
    BY <1>1, OthersFacts
  <2>2. /\ Pending("ClientList", 0) => Pending("ClientList", 0)'
        /\ Pending("Stacking", 0) => Pending("Stacking", 0)'
    BY <2>1, PendingKept DEF Shapes
  <2>3. UNCHANGED <<clients, reply, stackingOrder, what, pc>>
    BY <1>1, OthersFacts DEF listVars, callVars
  <2>4. /\ clientList' = clientList \/ Pending("ClientList", 0)'
        /\ stacking' = stacking \/ Pending("Stacking", 0)'
    BY <1>1, OthersFacts
  <2>5. (SameList => SameList') /\ (SameReply => SameReply') /\ (SameStacking => SameStacking')
    BY <2>2, <2>3, <2>4
  <2>6. ListsRead' = ListsRead /\ Initializing' = Initializing
    BY <2>3 DEF ListsRead, Initializing
  <2> QED BY <2>3, <2>5, <2>6 DEF Following
<1>2. CASE UNCHANGED vars
  <2>1. UNCHANGED <<clients, clientList, queue, reply, stacking, stackingOrder, what, pc>>
    BY <1>2 DEF vars, serverVars, listVars, callVars
  <2> QED BY <2>1 DEF Following, Pending, ListsRead, Initializing
<1>3. OwnStep => clientList' = clientList /\ stacking' = stacking
  BY OwnStepFacts DEF serverVars
<1>4. CASE CallWindows \/ ConnectWindowChanged \/ ConnectStrutChanged \/ CallWorkArea
  <2>1. /\ UNCHANGED <<clients, reply, stackingOrder, queue, clientList, stacking>>
        /\ UNCHANGED <<what, pc>> \/ pc' = "owner"
    BY <1>4, CallFacts DEF Call, listVars, serverVars
  <2> QED BY <2>1 DEF Following, Pending, ListsRead, Initializing
<1>5. CASE ReadOwner
  BY <1>5 DEF ReadOwner, Following, ListsRead, Initializing
<1>6. CASE ReadClients
  <2>1. UpdateClientList /\ todo = <<>> /\ pc' = "stacking" /\ clientList' = clientList
    BY <1>6 DEF ReadClients, Located, serverVars
  <2> QED BY <2>1, UpdateFacts DEF Following, Initializing
<1>7. CASE ReadStacking
  <2>1. /\ UNCHANGED <<clients, queue, clientList, stacking, what>>
        /\ pc = "stacking" /\ pc' = "activate" /\ reply' = stacking
    BY <1>7 DEF ReadStacking, listVars, serverVars
  <2> QED BY <2>1 DEF Following, Pending, ListsRead, Initializing
<1>8. CASE Activated
  <2>1. /\ UNCHANGED <<clients, queue, clientList, stacking, what>>
        /\ pc = "activate" /\ pc' = "idle" /\ stackingOrder' = reply
    BY <1>8 DEF Activated, serverVars
  <2> QED BY <2>1 DEF Following, Pending, ListsRead, Initializing
<1>9. CASE RemoveClient \/ SelectEvents \/ AddClient \/ WorkAreaRead \/ WorkAreaReturn
           \/ ClientListUpdated
  <2>1. /\ UNCHANGED <<clients, queue, clientList, stacking, what, reply, stackingOrder>>
        /\ pc' = pc \/ (pc = "event" /\ pc' = "idle")
    BY <1>9 DEF RemoveClient, SelectEvents, AddClient, Doing, WorkAreaRead, WorkAreaReturn,
       ClientListUpdated, serverVars, listVars, callVars
  <2> QED BY <2>1 DEF Following, Pending, ListsRead, Initializing
<1>10. CASE OnClientList
  <2>1. Dispatch("ClientList") /\ stackingOrder' = stackingOrder /\ pc = "idle" /\ what' = what
    BY <1>10 DEF OnClientList, Dispatch
  <2>2. CASE what = "none"
    <3>1. pc' = pc
      BY <1>10, <2>2 DEF OnClientList
    <3> QED BY <2>1, <2>2, <3>1 DEF Following, ListsRead, Initializing
  <2>3. CASE what # "none"
    <3>1. UpdateClientList /\ todo = <<>> /\ pc' = "event"
      BY <1>10, <2>1, <2>3 DEF OnClientList, Located
    <3>2. SameList'
      BY <1>3, <1>10, <3>1, UpdateFacts DEF OwnStep
    <3>3. Pending("Stacking", 0) => Pending("Stacking", 0)'
      BY <2>1, PendingKept DEF Dispatch, Shapes
    <3>4. SameStacking => SameStacking'
      BY <1>3, <1>10, <2>1, <3>3 DEF OwnStep
    <3> QED BY <2>1, <3>1, <3>2, <3>4 DEF Following, Initializing
  <2> QED BY <2>2, <2>3
<1>11. CASE OnStacking
  <2>1. /\ Dispatch("Stacking") /\ UNCHANGED <<what, pc, clients>> /\ pc = "idle"
        /\ what # "none" => stackingOrder' = stacking
    BY <1>11 DEF OnStacking, Dispatch
  <2>2. Pending("ClientList", 0) => Pending("ClientList", 0)'
    BY <2>1, PendingKept DEF Dispatch, Shapes
  <2>3. SameList => SameList'
    BY <1>3, <1>11, <2>1, <2>2 DEF OwnStep
  <2> QED BY <1>3, <1>11, <2>1, <2>3 DEF Following, ListsRead, Initializing, OwnStep
<1>12. CASE OnStrut \/ OnSelection
  <2>1. /\ Dispatch("Strut") \/ Dispatch("Selection")
        /\ UNCHANGED <<what, pc, clients, stackingOrder>> /\ pc = "idle"
    BY <1>12 DEF OnStrut, OnSelection, Dispatch, listVars
  <2>2. /\ Pending("ClientList", 0) => Pending("ClientList", 0)'
        /\ Pending("Stacking", 0) => Pending("Stacking", 0)'
    BY <2>1, PendingKept DEF Dispatch, Shapes
  <2>3. (SameList => SameList') /\ (SameStacking => SameStacking')
    BY <1>3, <1>12, <2>1, <2>2 DEF OwnStep
  <2> QED BY <2>1, <2>3 DEF Following, ListsRead, Initializing
<1> QED BY <1>1, <1>2, <1>4, <1>5, <1>6, <1>7, <1>8, <1>9, <1>10, <1>11, <1>12, StepIs
        DEF OwnStep

LEMMA StrutPending ==
  ASSUME Shapes,
         \/ queue' = queue
         \/ queue # <<>> /\ queue' = Tail(queue) /\ Head(queue).type # "Strut"
  PROVE  \A w : Pending("Strut", w) => Pending("Strut", w)'
<1>1. CASE queue' = queue
  BY <1>1 DEF Pending
<1>2. CASE queue # <<>> /\ queue' = Tail(queue) /\ Head(queue).type # "Strut"
  BY <1>2, PendingKept DEF Shapes
<1> QED BY <1>1, <1>2

\* Steps that leave the cache and what it is about alone
LEMMA CacheSame ==
  ASSUME Caching, UNCHANGED <<windows, strutWindows, possible, strut, alive, selected, what>>,
         pc' = "owner" <=> pc = "owner",
         what # "windows" \/ pc = "owner" => ~strutSignalConnected' /\ ~inWorkArea',
         \A i \in DOMAIN todo' : todo'[i][1] = "add" => todo' = todo,
         \A w : Pending("Strut", w) => Pending("Strut", w)'
  PROVE  Caching'
<1>1. \A w : UsedStrut(w)' = UsedStrut(w)
  BY DEF UsedStrut
<1>2. \A w \in ToSet(windows) \cap alive : (UsedStrut(w) = strut[w] \/ Pending("Strut", w))'
  BY <1>1 DEF Caching
<1>3. ToSet(windows)' = ToSet(windows) /\ (DOMAIN strutWindows)' = DOMAIN strutWindows
  OBVIOUS
<1>4. what' = "windows" /\ pc' # "owner" =>
        \A i \in DOMAIN todo' : todo'[i][1] = "add" /\ todo'[i][2] \in alive'
                                  => todo'[i][2] \in selected'
  BY DEF Caching
<1> QED BY <1>2, <1>3, <1>4 DEF Caching

LEMMA CachingKept ==
  ASSUME FilterInv, [Next]_vars
  PROVE  Caching'
<1> USE DEF FilterInv
<1>1. CASE Others
  <2>1. PICK t \in Seq(Events) : queue' = queue \o t
    BY <1>1, OthersFacts
  <2>2. \A w : Pending("Strut", w) => Pending("Strut", w)'
    BY <2>1, PendingKept DEF Shapes
  <2>3. /\ UNCHANGED <<windows, strutWindows, possible, strutSignalConnected, inWorkArea, todo,
                       what, pc>>
        /\ alive' \subseteq alive /\ selected' = selected \cap alive'
    BY <1>1, OthersFacts DEF listVars, strutVars, callVars
  <2>4. \A w \in alive' : strut'[w] = strut[w] \/ w \notin selected \/ Pending("Strut", w)'
    BY <1>1, OthersFacts
  <2>5. ASSUME NEW w \in ToSet(windows), w \in alive'
        PROVE  (UsedStrut(w) = strut[w] \/ Pending("Strut", w))'
    <3>1. CASE w \in possible
      BY <2>3, <3>1 DEF UsedStrut
    <3>2. CASE w \notin possible
      <4>1. w \in selected
        BY <2>3, <2>5, <3>2 DEF Caching
      <4>2. UsedStrut(w)' = UsedStrut(w)
        BY <2>3, <3>2 DEF UsedStrut
      <4> QED BY <2>2, <2>3, <2>4, <2>5, <4>1, <4>2 DEF Caching
    <3> QED BY <3>1, <3>2
  <2>6. ToSet(windows)' = ToSet(windows) /\ (DOMAIN strutWindows)' = DOMAIN strutWindows
    BY <2>3
  <2> QED BY <2>3, <2>5, <2>6 DEF Caching
<1>2. CASE UNCHANGED vars
  <2>1. UNCHANGED <<windows, strutWindows, possible, strut, alive, selected, what, pc,
                    strutSignalConnected, inWorkArea, todo, queue>>
    BY <1>2 DEF vars, serverVars, listVars, strutVars, callVars
  <2> QED BY <2>1, CacheSame DEF Caching, Pending
<1>3. OwnStep => strut' = strut /\ alive' = alive
  BY OwnStepFacts DEF serverVars
<1>4. CASE CallWindows \/ ConnectWindowChanged \/ ConnectStrutChanged \/ CallWorkArea
  <2>1. PICK info \in {"basic", "windows"}, next \in {"return", "connect", "workArea"} :
          Call(info, next) /\ (next # "return" => info = "windows")
    BY <1>4, CallFacts
  <2>2. /\ pc = "idle" /\ ~inWorkArea /\ todo = <<>> /\ todo' = todo
        /\ UNCHANGED <<windows, strutWindows, possible, strut, alive, selected, queue>>
    BY <2>1 DEF Call, Located, serverVars, listVars
  <2>3. CASE Rank[what] < Rank[info]
    <3>1. pc' = "owner" /\ UNCHANGED <<strutSignalConnected, inWorkArea>> /\ what # "windows"
      BY <2>1, <2>3, RankFacts DEF Call
    <3>2. \A w : UsedStrut(w)' = UsedStrut(w)
      BY <2>2 DEF UsedStrut
    <3>3. \A w \in ToSet(windows) \cap alive : (UsedStrut(w) = strut[w] \/ Pending("Strut", w))'
      BY <2>2, <3>2 DEF Caching, Pending
    <3>4. ToSet(windows)' = ToSet(windows) /\ (DOMAIN strutWindows)' = DOMAIN strutWindows
      BY <2>2
    <3> QED BY <2>2, <3>1, <3>3, <3>4 DEF Caching
  <2>4. CASE ~(Rank[what] < Rank[info])
    <3>1. Continue(next) /\ UNCHANGED <<what, pc>>
      BY <2>1, <2>4 DEF Call
    <3>2. next # "return" => what = "windows"
      BY <2>1, <2>4, RankFacts DEF Shapes
    <3>3. what # "windows" => ~strutSignalConnected' /\ ~inWorkArea'
      BY <3>1, <3>2 DEF Continue, Caching
    <3>4. \A w : Pending("Strut", w) => Pending("Strut", w)'
      BY <2>2 DEF Pending
    <3> QED BY <2>2, <3>1, <3>3, <3>4, CacheSame
  <2> QED BY <2>3, <2>4
<1>5. CASE ReadOwner
  <2>1. /\ windows' = <<>> /\ strutWindows' = [w \in {} |-> 0] /\ possible' = {}
        /\ strutSignalConnected' = FALSE /\ inWorkArea' = FALSE /\ todo' = <<>>
    BY <1>5 DEF ReadOwner, callVars, Located, Caching, Shapes
  <2>2. ToSet(windows)' = {} /\ (DOMAIN strutWindows)' = {} /\ (DOMAIN todo)' = {}
    BY <2>1 DEF ToSet
  <2> QED BY <2>1, <2>2 DEF Caching
<1>6. CASE ReadClients \/ (OnClientList /\ UpdateClientList)
  <2>1. /\ UpdateClientList /\ todo = <<>>
        /\ UNCHANGED <<windows, strutWindows, possible, selected, what, strutSignalConnected,
                       inWorkArea>>
        /\ pc' # "owner" /\ pc # "owner"
    BY <1>6 DEF ReadClients, OnClientList, Dispatch, Located, strutVars
  <2>2. \A i \in DOMAIN todo' : todo'[i][1] # "add"
    BY <2>1, UpdateFacts
  <2>3. \A w : Pending("Strut", w) => Pending("Strut", w)'
    BY <1>6, StrutPending DEF ReadClients, OnClientList, Dispatch
  <2> QED BY <1>3, <1>6, <2>1, <2>2, <2>3, CacheSame DEF Caching, OwnStep
<1>7. CASE ReadStacking \/ WorkAreaReturn \/ ClientListUpdated \/ OnStacking \/ OnSelection
           \/ (OnClientList /\ ~UpdateClientList)
  <2>1. /\ UNCHANGED <<windows, strutWindows, possible, selected, what, strutSignalConnected,
                       todo>>
        /\ inWorkArea' => inWorkArea
        /\ pc' # "owner" /\ pc # "owner"
    BY <1>7 DEF ReadStacking, WorkAreaReturn, ClientListUpdated, OnStacking, OnSelection,
       OnClientList, Dispatch, listVars, strutVars, callVars, Located
  <2>2. \A w : Pending("Strut", w) => Pending("Strut", w)'
    BY <1>7, StrutPending DEF ReadStacking, WorkAreaReturn, ClientListUpdated, OnStacking,
       OnSelection, OnClientList, Dispatch
  <2> QED BY <1>3, <1>7, <2>1, <2>2, CacheSame DEF Caching, OwnStep
<1>8. CASE Activated
  <2>1. /\ UNCHANGED <<windows, strutWindows, possible, selected, what, todo, queue>>
        /\ pc = "activate" /\ pc' = "idle" /\ Continue(then)
    BY <1>8 DEF Activated, listVars, strutVars, callVars
  <2>2. what # "windows" => then = "return"
    BY DEF Located, Shapes
  <2>3. what # "windows" => ~strutSignalConnected' /\ ~inWorkArea'
    BY <2>1, <2>2 DEF Continue, Caching
  <2>4. \A w : Pending("Strut", w) => Pending("Strut", w)'
    BY <2>1 DEF Pending
  <2> QED BY <1>3, <1>8, <2>1, <2>3, <2>4, CacheSame DEF OwnStep
<1>9. CASE RemoveClient
  <2> DEFINE v == todo[1][2]
  <2>1. /\ todo # <<>> /\ todo' = Tail(todo) /\ todo[1][1] = "remove"
        /\ UNCHANGED <<what, pc, selected, queue, strutSignalConnected>> /\ ~inWorkArea
        /\ windows' = RemoveFirst(windows, v)
        /\ strutWindows' = Restrict(strutWindows, DOMAIN strutWindows \ {v})
        /\ possible' = possible \ {v} /\ (inWorkArea' => strutSignalConnected)
    BY <1>9, FirstFacts DEF RemoveClient, Doing, RemoveStrutWindow, StrutChanged
  <2>2. v \in ToSet(windows)
    BY <2>1, FirstFacts DEF Walking
  <2>3. ToSet(windows)' = ToSet(windows) \ {v}
    BY <2>1, <2>2, RemoveFacts DEF Shapes, Walking
  <2>4. /\ (DOMAIN strutWindows)' = DOMAIN strutWindows \ {v}
        /\ \A w \in DOMAIN strutWindows \ {v} : strutWindows'[w] = strutWindows[w]
    BY <2>1 DEF Restrict
  <2>5. \A w : w # v => UsedStrut(w)' = UsedStrut(w)
    BY <1>3, <1>9, <2>1, <2>4 DEF UsedStrut, OwnStep
  <2>6. \A i \in DOMAIN todo' : todo'[i][1] # "add"
    BY <2>1, FirstFacts
  <2>7. \A w : Pending("Strut", w) => Pending("Strut", w)'
    BY <2>1 DEF Pending
  <2>8. \A w \in ToSet(windows)' \cap alive' : (UsedStrut(w) = strut[w] \/ Pending("Strut", w))'
    BY <1>3, <1>9, <2>3, <2>5, <2>7 DEF Caching, OwnStep
  <2>9. alive' = alive
    BY <1>3, <1>9 DEF OwnStep
  <2> QED BY <2>1, <2>3, <2>4, <2>6, <2>8, <2>9 DEF Caching
<1>10. CASE SelectEvents
  <2> DEFINE v == todo[1][2]
  <2>1. /\ todo # <<>> /\ todo' = <<<<"add", v>>>> \o Tail(todo)
        /\ UNCHANGED <<what, pc, queue, strutSignalConnected, windows, strutWindows, possible,
                       inWorkArea>>
        /\ selected' = IF what = "windows" /\ v \in alive THEN selected \cup {v} ELSE selected
    BY <1>10, FirstFacts DEF SelectEvents, SelectsEvents, Doing
  <2>2. /\ DOMAIN todo' = DOMAIN todo /\ 1 \in DOMAIN todo
        /\ todo'[1][1] = "add" /\ todo'[1][2] = v
        /\ \A i \in DOMAIN todo : i # 1 => todo'[i] = todo[i]
    BY <2>1, AdvanceFacts
  <2>3. alive' = alive /\ strut' = strut
    BY <1>3, <1>10 DEF OwnStep
  <2>4. what' = "windows" /\ pc' # "owner" =>
          \A i \in DOMAIN todo' : todo'[i][1] = "add" /\ todo'[i][2] \in alive'
                                    => todo'[i][2] \in selected'
    <3> SUFFICES ASSUME what = "windows", pc # "owner", NEW i \in DOMAIN todo,
                        todo'[i][1] = "add", todo'[i][2] \in alive
                 PROVE  todo'[i][2] \in selected'
      BY <2>1, <2>2, <2>3
    <3>1. CASE i = 1
      BY <2>1, <2>2, <3>1
    <3>2. CASE i # 1
      BY <2>1, <2>2, <3>2 DEF Caching
    <3> QED BY <3>1, <3>2
  <2>5. \A w \in ToSet(windows) \cap alive : (UsedStrut(w) = strut[w] \/ Pending("Strut", w))'
    BY <2>1, <2>3 DEF Caching, UsedStrut, Pending
  <2>6. ToSet(windows)' = ToSet(windows) /\ (DOMAIN strutWindows)' = DOMAIN strutWindows
        /\ selected \subseteq selected'
    BY <2>1
  <2> QED BY <2>1, <2>3, <2>4, <2>5, <2>6 DEF Caching
<1>11. CASE AddClient
  <2> PICK v : v = todo[1][2]
    OBVIOUS
  <2> DEFINE read == strutSignalConnected /\ strut[v] # 0
  <2>1. /\ todo # <<>> /\ todo' = Tail(todo) /\ todo[1][1] = "add"
        /\ UNCHANGED <<what, pc, selected, queue, strutSignalConnected>> /\ ~inWorkArea
        /\ windows' = Append(windows, v)
        /\ strutWindows' = IF read THEN Put(strutWindows, v, strut[v]) ELSE strutWindows
        /\ possible' = IF strutSignalConnected THEN possible ELSE possible \cup {v}
        /\ (inWorkArea' => strutSignalConnected)
    BY <1>11, FirstFacts DEF AddClient, Doing, StrutChanged
  <2>2. v \notin ToSet(windows) /\ v \in Windows
    BY <2>1, FirstFacts DEF Walking
  <2>3. ToSet(windows)' = ToSet(windows) \cup {v}
    BY <2>1, <2>2, AppendFacts DEF Shapes
  <2>4. alive' = alive /\ strut' = strut
    BY <1>3, <1>11 DEF OwnStep
  <2>5. /\ (DOMAIN strutWindows)' \subseteq DOMAIN strutWindows \cup {v}
        /\ DOMAIN strutWindows \subseteq (DOMAIN strutWindows)'
        /\ \A w \in DOMAIN strutWindows \ {v} : strutWindows'[w] = strutWindows[w]
        /\ read => v \in (DOMAIN strutWindows)' /\ strutWindows'[v] = strut[v]
        /\ ~read => strutWindows' = strutWindows
    BY <2>1 DEF Put
  <2>6. \A w : w # v => UsedStrut(w)' = UsedStrut(w)
    BY <2>1, <2>4, <2>5 DEF UsedStrut
  <2>7. UsedStrut(v)' = strut'[v]
    <3>1. v \notin possible /\ v \notin DOMAIN strutWindows
      BY <2>2 DEF Caching
    <3>2. CASE ~strutSignalConnected
      <4>1. v \in possible'
        BY <2>1, <3>2
      <4> QED BY <4>1 DEF UsedStrut
    <3>3. CASE read
      <4>1. v \notin possible'
        BY <2>1, <3>1, <3>3
      <4> QED BY <2>4, <2>5, <3>3, <4>1 DEF UsedStrut
    <3>4. CASE strutSignalConnected /\ strut[v] = 0
      <4>1. v \notin possible' /\ v \notin (DOMAIN strutWindows)'
        BY <2>1, <3>1, <3>4
      <4> QED BY <2>4, <3>4, <4>1 DEF UsedStrut
    <3> QED BY <3>2, <3>3, <3>4
  <2>8. \A i \in DOMAIN todo' : todo'[i][1] # "add"
    BY <2>1, FirstFacts
  <2>9. \A w \in ToSet(windows)' \cap alive' : (UsedStrut(w) = strut[w] \/ Pending("Strut", w))'
    BY <2>1, <2>3, <2>4, <2>6, <2>7 DEF Caching, Pending
  <2>10. what = "windows" /\ pc # "owner" /\ v \in alive => v \in selected
    BY <2>1, FirstFacts DEF Caching
  <2>11. ASSUME what' # "windows" \/ pc' = "owner"
         PROVE  (ToSet(windows) \subseteq possible /\ ~strutSignalConnected /\ ~inWorkArea)'
    <3>1. ToSet(windows) \subseteq possible /\ ~strutSignalConnected
      BY <2>1, <2>11 DEF Caching
    <3>2. possible' = possible \cup {v}
      BY <2>1, <3>1
    <3> QED BY <2>1, <2>3, <3>1, <3>2
  <2>12. possible' \subseteq possible \cup {v}
    BY <2>1
  <2>13. (DOMAIN strutWindows \cup possible \subseteq ToSet(windows))'
    BY <2>3, <2>5, <2>12 DEF Caching
  <2> QED BY <2>1, <2>3, <2>4, <2>8, <2>9, <2>10, <2>11, <2>13 DEF Caching
<1>12. CASE WorkAreaRead
  <2> DEFINE ask == {i \in DOMAIN windows : windows[i] \in possible}
             k == CHOOSE i \in ask : \A j \in ask : i <= j
  <2>1. PICK v : v = windows[k]
    OBVIOUS
  <2>2. /\ UNCHANGED <<what, pc, selected, queue, strutSignalConnected, windows, todo,
                       inWorkArea>>
        /\ inWorkArea
        /\ strutWindows' = Put(strutWindows, v, strut[v])
        /\ possible' = possible \ {v} /\ ask # {}
    BY <1>12, <2>1 DEF WorkAreaRead, listVars, callVars
  <2>3. v \in ToSet(windows)
    <3>1. \E i \in ask : \A j \in ask : i <= j
      <4>1. ask \subseteq Nat
        BY DEF Shapes
      <4> HIDE DEF ask
      <4> QED BY <2>2, <4>1, LeastExists
    <3>2. k \in ask
      BY <3>1
    <3> QED BY <2>1, <3>2 DEF ToSet
  <2>4. alive' = alive /\ strut' = strut
    BY <1>3, <1>12 DEF OwnStep
  <2> HIDE DEF ask, k
  <2>5. /\ (DOMAIN strutWindows)' = DOMAIN strutWindows \cup {v}
        /\ strutWindows'[v] = strut[v]
        /\ \A w \in DOMAIN strutWindows \ {v} : strutWindows'[w] = strutWindows[w]
    BY <2>2 DEF Put
  <2>6. /\ \A w : w # v => UsedStrut(w)' = UsedStrut(w)
        /\ UsedStrut(v)' = strut'[v]
    BY <2>2, <2>4, <2>5 DEF UsedStrut
  <2>7. \A w \in ToSet(windows) \cap alive : (UsedStrut(w) = strut[w] \/ Pending("Strut", w))'
    BY <2>2, <2>4, <2>6 DEF Caching, Pending
  <2>8. ~(what # "windows" \/ pc = "owner")
    BY <2>2 DEF Caching
  <2>9. ToSet(windows)' = ToSet(windows)
    BY <2>2
  <2> QED BY <2>2, <2>3, <2>4, <2>5, <2>7, <2>8, <2>9 DEF Caching
<1>13. CASE OnStrut
  <2> PICK v : v = Head(queue).window
    OBVIOUS
  <2>1. /\ Dispatch("Strut") /\ UNCHANGED <<windows, todo, what, pc, selected,
                                            strutSignalConnected>>
        /\ pc = "idle"
    BY <1>13 DEF OnStrut, Dispatch, listVars
  <2>2. \A w : w # v /\ Pending("Strut", w) => Pending("Strut", w)'
    BY <2>1, PendingKept DEF Dispatch, Shapes
  <2>3. alive' = alive /\ strut' = strut /\ ToSet(windows)' = ToSet(windows)
    BY <1>3, <1>13, <2>1 DEF OwnStep
  <2>4. CASE v \in ToSet(windows)
    <3>1. /\ strutWindows' = Restrict(strutWindows, DOMAIN strutWindows \ {v})
          /\ possible' = possible \cup {v} /\ inWorkArea' = strutSignalConnected
      BY <1>13, <2>1, <2>4 DEF OnStrut, RemoveStrutWindow, StrutChanged, Shapes
    <3>2. /\ (DOMAIN strutWindows)' = DOMAIN strutWindows \ {v}
          /\ \A w \in DOMAIN strutWindows \ {v} : strutWindows'[w] = strutWindows[w]
      BY <3>1 DEF Restrict
    <3>3. /\ \A w : w # v => UsedStrut(w)' = UsedStrut(w)
          /\ UsedStrut(v)' = strut'[v]
      BY <2>3, <3>1, <3>2 DEF UsedStrut
    <3>4. \A w \in ToSet(windows) \cap alive : (UsedStrut(w) = strut[w] \/ Pending("Strut", w))'
      BY <2>2, <2>3, <3>3 DEF Caching
    <3> QED BY <2>1, <2>3, <2>4, <3>1, <3>2, <3>4 DEF Caching
  <2>5. CASE v \notin ToSet(windows)
    <3>1. UNCHANGED <<strutWindows, possible, inWorkArea>>
      BY <1>13, <2>5 DEF OnStrut
    <3>2. \A w : UsedStrut(w)' = UsedStrut(w)
      BY <2>3, <3>1 DEF UsedStrut
    <3>3. \A w \in ToSet(windows) \cap alive : (UsedStrut(w) = strut[w] \/ Pending("Strut", w))'
      BY <2>2, <2>3, <2>5, <3>2 DEF Caching
    <3> QED BY <2>1, <2>3, <3>1, <3>3 DEF Caching
  <2> QED BY <2>4, <2>5
<1> QED BY <1>1, <1>2, <1>4, <1>5, <1>6, <1>7, <1>8, <1>9, <1>10, <1>11, <1>12, <1>13, StepIs
        DEF OwnStep

LEMMA ViewingKept ==
  ASSUME FilterInv, [Next]_vars
  PROVE  Viewing'
<1> USE DEF FilterInv
<1>1. CASE /\ UNCHANGED <<strutWindows, possible, view>>
           /\ strutSignalConnected => strutSignalConnected'
           /\ inWorkArea => inWorkArea'
  BY <1>1 DEF Viewing
<1>2. Others \/ UNCHANGED vars => UNCHANGED <<strutVars, inWorkArea, view>>
  BY OthersFacts DEF vars
<1>3. CASE CallWindows \/ ConnectWindowChanged \/ ConnectStrutChanged \/ CallWorkArea
  <2>1. PICK info \in {"basic", "windows"}, next \in {"return", "connect", "workArea"} :
          Call(info, next)
    BY <1>3, CallFacts
  <2>2. UNCHANGED <<strutWindows, possible, view>> /\ ~inWorkArea
        /\ (strutSignalConnected => strutSignalConnected')
    BY <2>1 DEF Call, Continue
  <2> QED BY <1>1, <2>2
<1>4. CASE ReadOwner
  <2>1. view' = view /\ pc = "owner"
    BY <1>4 DEF ReadOwner
  <2>2. view = NoView
    BY <2>1 DEF Viewing, Caching
  <2> QED BY <2>1, <2>2 DEF Viewing
<1>5. CASE Activated
  <2>1. UNCHANGED <<strutWindows, possible, view>> /\ ~inWorkArea
        /\ (strutSignalConnected => strutSignalConnected')
    BY <1>5 DEF Activated, Continue
  <2> QED BY <1>1, <2>1
<1>6. CASE RemoveClient
  <2> PICK v : v = todo[1][2]
    OBVIOUS
  <2>1. /\ todo # <<>> /\ UNCHANGED <<view, strutSignalConnected>> /\ ~inWorkArea
        /\ strutWindows' = Restrict(strutWindows, DOMAIN strutWindows \ {v})
        /\ possible' = possible \ {v}
        /\ inWorkArea' = (LosesStrut(v) /\ strutSignalConnected)
    BY <1>6, FirstFacts DEF RemoveClient, Doing, RemoveStrutWindow, StrutChanged
  <2> SUFFICES ASSUME view # NoView, ~inWorkArea'
               PROVE  possible' = {} /\ view = Reported(strutWindows)'
    BY <2>1 DEF Viewing
  <2>2. v \notin DOMAIN strutWindows
    BY <2>1 DEF Viewing, LosesStrut
  <2>3. /\ (DOMAIN strutWindows)' = DOMAIN strutWindows
        /\ \A w \in DOMAIN strutWindows : strutWindows'[w] = strutWindows[w]
    BY <2>1, <2>2 DEF Restrict
  <2>4. Reported(strutWindows)' = Reported(strutWindows)
    BY <2>3 DEF Reported
  <2> QED BY <2>1, <2>4 DEF Viewing
<1>7. CASE AddClient
  <2> PICK v : v = todo[1][2]
    OBVIOUS
  <2>1. /\ todo # <<>> /\ UNCHANGED <<view, strutSignalConnected>> /\ ~inWorkArea
        /\ strutWindows' = IF strutSignalConnected /\ strut[v] # 0
                             THEN Put(strutWindows, v, strut[v]) ELSE strutWindows
        /\ possible' = IF strutSignalConnected THEN possible ELSE possible \cup {v}
        /\ inWorkArea' = ((strutSignalConnected /\ strut[v] # 0) /\ strutSignalConnected)
    BY <1>7, FirstFacts DEF AddClient, Doing, StrutChanged
  <2> SUFFICES ASSUME view # NoView, ~inWorkArea'
               PROVE  possible' = {} /\ view = Reported(strutWindows)'
    BY <2>1 DEF Viewing
  <2>2. strutSignalConnected /\ strut[v] = 0
    BY <2>1 DEF Viewing
  <2> QED BY <2>1, <2>2 DEF Viewing
<1>8. CASE WorkAreaRead
  BY <1>8 DEF WorkAreaRead, Viewing
<1>9. CASE WorkAreaReturn
  <2>1. UNCHANGED strutVars /\ \A i \in DOMAIN windows : windows[i] \notin possible
    BY <1>9 DEF WorkAreaReturn
  <2>2. possible = {}
    BY <2>1 DEF Caching, ToSet
  <2>3. CASE strutSignalConnected
    <3>1. view' = Reported(strutWindows)
      BY <1>9, <2>3 DEF WorkAreaReturn, Reported
    <3> QED BY <2>1, <2>2, <2>3, <3>1 DEF Viewing, strutVars
  <2>4. CASE ~strutSignalConnected
    <3>1. view' = view
      BY <1>9, <2>4 DEF WorkAreaReturn
    <3> QED BY <2>4, <3>1 DEF Viewing
  <2> QED BY <2>3, <2>4
<1>10. CASE OnStrut
  <2>1. /\ view' = view /\ strutSignalConnected' = strutSignalConnected /\ ~inWorkArea
        /\ UNCHANGED <<strutWindows, possible, inWorkArea>>
             \/ inWorkArea' = (TRUE /\ strutSignalConnected)
    BY <1>10 DEF OnStrut, Dispatch, StrutChanged
  <2> QED BY <2>1 DEF Viewing
<1>11. CASE ReadClients \/ ReadStacking \/ SelectEvents \/ OnClientList \/ ClientListUpdated
            \/ OnStacking \/ OnSelection
  <2>1. UNCHANGED <<strutVars, view, inWorkArea>>
    BY <1>11 DEF ReadClients, ReadStacking, SelectEvents, Doing, OnClientList, ClientListUpdated,
       OnStacking, OnSelection, Dispatch, strutVars
  <2> QED BY <1>1, <2>1 DEF strutVars
<1> QED BY <1>1, <1>2, <1>3, <1>4, <1>5, <1>6, <1>7, <1>8, <1>9, <1>10, <1>11, StepIs
        DEF OwnStep, strutVars

-----------------------------------------------------------------------------
(* The compositing manager                                                 *)

\* An event about something else joins the queue.
LEMMA OtherEvent ==
  ASSUME NEW q \in Seq(Events), NEW e \in Events, e.type # "Selection", NEW kind, NEW tracks,
         NEW owned, Sound(q, kind, tracks), Latest(q, kind, owned)
  PROVE  /\ Sound(Append(q, e), kind, tracks) /\ Latest(Append(q, e), kind, owned)
         /\ (\E i \in DOMAIN q : Heard(q, kind, i))
              => \E i \in DOMAIN Append(q, e) : Heard(Append(q, e), kind, i)
<1>1. PICK n \in Nat : n = Len(q) /\ DOMAIN q = 1..n
  OBVIOUS
<1>2. PICK a : a = Append(q, e)
  OBVIOUS
<1>3. /\ DOMAIN a = 1..(n + 1) /\ a[n + 1] = e /\ \A i \in 1..n : a[i] = q[i]
  BY <1>1, <1>2
<1>4. \A i \in 1..(n + 1) : i \in 1..n \/ i = n + 1
  OBVIOUS
<1>5. \A i \in 1..n : i \in 1..(n + 1)
  OBVIOUS
<1>6. \A i \in 1..(n + 1) : a[i].type = "Selection" => i \in 1..n /\ a[i] = q[i]
  BY <1>3, <1>4
<1>7. \A k : \A i \in 1..n : Heard(a, k, i) <=> Heard(q, k, i)
  BY <1>3 DEF Heard
<1>8. \A k : \A i \in 1..(n + 1) : Heard(a, k, i) => i \in 1..n
  BY <1>6 DEF Heard
<1>9. Sound(a, kind, tracks)
  BY <1>1, <1>3, <1>5, <1>6, <1>7 DEF Sound
<1>10. Latest(a, kind, owned)
  <2> SUFFICES ASSUME NEW i \in 1..(n + 1), Heard(a, kind, i),
                      \A j \in 1..(n + 1) : i < j => ~Heard(a, kind, j)
               PROVE  a[i].owner = owned
    BY <1>3 DEF Latest
  <2>1. i \in 1..n /\ Heard(q, kind, i) /\ \A j \in 1..n : i < j => ~Heard(q, kind, j)
    BY <1>5, <1>7, <1>8
  <2> QED BY <1>1, <1>3, <2>1 DEF Latest
<1>11. (\E i \in DOMAIN q : Heard(q, kind, i)) => \E i \in DOMAIN a : Heard(a, kind, i)
  BY <1>1, <1>3, <1>5, <1>7
<1> QED BY <1>2, <1>9, <1>10, <1>11

\* An event is dispatched.
LEMMA EventTaken ==
  ASSUME NEW q \in Seq(Events), q # <<>>, NEW kind, NEW tracks,
         NEW owned, Sound(q, kind, tracks), Latest(q, kind, owned)
  PROVE  /\ Sound(Tail(q), kind, tracks) /\ Latest(Tail(q), kind, owned)
         /\ (\E i \in DOMAIN q : Heard(q, kind, i)) =>
              \/ \E i \in DOMAIN Tail(q) : Heard(Tail(q), kind, i)
              \/ Heard(q, kind, 1) /\ Head(q).owner = owned
         /\ (\E i \in DOMAIN Tail(q) : Heard(Tail(q), kind, i))
              => \E i \in DOMAIN q : Heard(q, kind, i)
<1>1. PICK n \in Nat : n = Len(q) /\ DOMAIN q = 1..n /\ n > 0
  OBVIOUS
<1>2. PICK t : t = Tail(q)
  OBVIOUS
<1>3. /\ DOMAIN t = 1..(n - 1) /\ \A i \in 1..(n - 1) : t[i] = q[i + 1]
      /\ Head(q) = q[1]
  BY <1>1, <1>2
<1>4. \A i \in 1..(n - 1) : i + 1 \in 1..n
  OBVIOUS
<1>5. \A k : \A i \in 1..(n - 1) : Heard(t, k, i) <=> Heard(q, k, i + 1)
  BY <1>3 DEF Heard
<1>6. \A i \in 1..(n - 1), j \in 1..n :
        i + 1 < j => j - 1 \in 1..(n - 1) /\ i < j - 1 /\ (j - 1) + 1 = j
  OBVIOUS
<1>7. Sound(t, kind, tracks)
  <2> SUFFICES ASSUME NEW i \in 1..(n - 1), t[i].type = "Selection"
               PROVE  /\ t[i].window = "root" => tracks
                      /\ t[i].window # "root" =>
                           /\ t[i].window \in {"basic", "windows"}
                           /\ Rank[t[i].window] <= Rank[kind]
                           /\ tracks => \E j \in DOMAIN t : i < j /\ Heard(t, "root", j)
    BY <1>3 DEF Sound
  <2>1. i + 1 \in 1..n /\ t[i] = q[i + 1]
    BY <1>3, <1>4
  <2>2. t[i].window # "root" /\ tracks => \E j \in 1..n : i + 1 < j /\ Heard(q, "root", j)
    BY <1>1, <2>1 DEF Sound
  <2>3. ASSUME t[i].window # "root", tracks
        PROVE  \E j \in 1..(n - 1) : i < j /\ Heard(t, "root", j)
    <3>1. PICK j \in 1..n : i + 1 < j /\ Heard(q, "root", j)
      BY <2>2, <2>3
    <3>2. j - 1 \in 1..(n - 1) /\ i < j - 1 /\ (j - 1) + 1 = j
      BY <1>6, <3>1
    <3>3. Heard(t, "root", j - 1)
      BY <1>5, <3>1, <3>2
    <3> QED BY <3>2, <3>3
  <2> QED BY <1>1, <1>3, <2>1, <2>3 DEF Sound
<1>8. Latest(t, kind, owned)
  <2> SUFFICES ASSUME NEW i \in 1..(n - 1), Heard(t, kind, i),
                      \A j \in 1..(n - 1) : i < j => ~Heard(t, kind, j)
               PROVE  t[i].owner = owned
    BY <1>3 DEF Latest
  <2>1. i + 1 \in 1..n /\ t[i] = q[i + 1] /\ Heard(q, kind, i + 1)
    BY <1>3, <1>4, <1>5
  <2>2. \A j \in 1..n : i + 1 < j => ~Heard(q, kind, j)
    BY <1>5, <1>6
  <2> QED BY <1>1, <2>1, <2>2 DEF Latest
<1>9. ASSUME \E i \in 1..n : Heard(q, kind, i)
      PROVE  \/ \E i \in 1..(n - 1) : Heard(t, kind, i)
             \/ Heard(q, kind, 1) /\ Head(q).owner = owned
  <2>1. CASE \E i \in 1..n : i # 1 /\ Heard(q, kind, i)
    <3>1. PICK i \in 1..n : i # 1 /\ Heard(q, kind, i)
      BY <2>1
    <3>2. i - 1 \in 1..(n - 1) /\ (i - 1) + 1 = i
      BY <3>1
    <3> QED BY <1>5, <3>1, <3>2
  <2>2. CASE ~ \E i \in 1..n : i # 1 /\ Heard(q, kind, i)
    <3>1. Heard(q, kind, 1) /\ 1 \in 1..n /\ \A j \in 1..n : 1 < j => ~Heard(q, kind, j)
      BY <1>9, <2>2
    <3> QED BY <1>1, <1>3, <3>1 DEF Latest
  <2> QED BY <2>1, <2>2
<1>10. ASSUME NEW i \in 1..(n - 1), Heard(t, kind, i) PROVE \E k \in 1..n : Heard(q, kind, k)
  BY <1>4, <1>5, <1>10
<1> QED BY <1>1, <1>2, <1>3, <1>7, <1>8, <1>9, <1>10

\* The last event of a queue is about the new owner.
LEMMA OwnerEvent ==
  ASSUME NEW q \in Seq(Events), NEW e \in Events, e.type = "Selection", NEW kind, NEW tracks,
         Heard(<<e>>, kind, 1)
  PROVE  /\ Latest(Append(q, e), kind, e.owner)
         /\ \E i \in DOMAIN Append(q, e) : Heard(Append(q, e), kind, i)
<1>1. PICK n \in Nat : n = Len(q) /\ DOMAIN q = 1..n
  OBVIOUS
<1>2. PICK a : a = Append(q, e)
  OBVIOUS
<1>3. DOMAIN a = 1..(n + 1) /\ a[n + 1] = e /\ n + 1 \in 1..(n + 1)
  BY <1>1, <1>2
<1>4. <<e>>[1] = e
  OBVIOUS
<1>5. Heard(a, kind, n + 1)
  BY <1>3, <1>4 DEF Heard
<1>6. Latest(a, kind, e.owner)
  <2> SUFFICES ASSUME NEW i \in 1..(n + 1), Heard(a, kind, i),
                      \A j \in 1..(n + 1) : i < j => ~Heard(a, kind, j)
               PROVE  a[i].owner = e.owner
    BY <1>3 DEF Latest
  <2>1. ~(i < n + 1)
    BY <1>3, <1>5
  <2>2. i = n + 1
    BY <2>1
  <2> QED BY <1>3, <2>2
<1> QED BY <1>2, <1>3, <1>5, <1>6

\* The event of the filter's own window joins the queue.
LEMMA OwnEvent ==
  ASSUME NEW q \in Seq(Events), NEW e \in Events, e.type = "Selection",
         NEW kind \in {"basic", "windows"}, e.window = kind
  PROVE  \A tracks : Sound(q, kind, tracks) => \A i \in DOMAIN Append(q, e) :
           /\ Append(q, e)[i].type = "Selection" =>
                /\ Append(q, e)[i].window = "root" => tracks
                /\ Append(q, e)[i].window # "root" =>
                     /\ Append(q, e)[i].window \in {"basic", "windows"}
                     /\ Rank[Append(q, e)[i].window] <= Rank[kind]
<1> SUFFICES ASSUME NEW tracks, Sound(q, kind, tracks), NEW i \in DOMAIN Append(q, e),
                    Append(q, e)[i].type = "Selection"
             PROVE  /\ Append(q, e)[i].window = "root" => tracks
                    /\ Append(q, e)[i].window # "root" =>
                         /\ Append(q, e)[i].window \in {"basic", "windows"}
                         /\ Rank[Append(q, e)[i].window] <= Rank[kind]
  OBVIOUS
<1>1. PICK n \in Nat : n = Len(q) /\ DOMAIN q = 1..n
  OBVIOUS
<1>2. (i \in 1..n /\ Append(q, e)[i] = q[i]) \/ Append(q, e)[i] = e
  BY <1>1
<1>3. e.window # "root" /\ e.window \in {"basic", "windows"} /\ Rank[e.window] <= Rank[kind]
  BY RankFacts
<1>4. CASE i \in 1..n /\ Append(q, e)[i] = q[i]
  BY <1>1, <1>4 DEF Sound
<1>5. CASE Append(q, e)[i] = e
  BY <1>3, <1>5
<1> QED BY <1>2, <1>4, <1>5

\* The root window's event joins the queue, perhaps after the one of the filter's own
\* window.
LEMMA RootEventSound ==
  ASSUME NEW q \in Seq(Events), NEW e \in Events, e.type = "Selection", e.window = "root",
         NEW kind,
         \A i \in DOMAIN q : q[i].type = "Selection" /\ q[i].window # "root" =>
            q[i].window \in {"basic", "windows"} /\ Rank[q[i].window] <= Rank[kind]
  PROVE  Sound(Append(q, e), kind, TRUE)
<1>1. PICK n \in Nat : n = Len(q) /\ DOMAIN q = 1..n
  OBVIOUS
<1>2. PICK a : a = Append(q, e)
  OBVIOUS
<1>3. /\ DOMAIN a = 1..(n + 1) /\ a[n + 1] = e /\ n + 1 \in 1..(n + 1)
      /\ \A i \in 1..n : a[i] = q[i]
  BY <1>1, <1>2
<1>4. \A i \in 1..(n + 1) : (i \in 1..n /\ i < n + 1) \/ i = n + 1
  OBVIOUS
<1>5. Heard(a, "root", n + 1)
  BY <1>3 DEF Heard
<1>6. Sound(a, kind, TRUE)
  <2> SUFFICES ASSUME NEW i \in 1..(n + 1), a[i].type = "Selection", a[i].window # "root"
               PROVE  /\ a[i].window \in {"basic", "windows"}
                      /\ Rank[a[i].window] <= Rank[kind]
                      /\ \E j \in 1..(n + 1) : i < j /\ Heard(a, "root", j)
    BY <1>3 DEF Sound
  <2>1. i \in 1..n /\ i < n + 1
    BY <1>3, <1>4
  <2> QED BY <1>1, <1>3, <1>5, <2>1
<1> QED BY <1>2, <1>6

\* A larger filter hears the root window's events only.
LEMMA ReplacedFilter ==
  ASSUME NEW q \in Seq(Events), NEW kind \in {"none", "basic"}, NEW larger \in {"basic", "windows"},
         Rank[kind] < Rank[larger], NEW tracks, NEW owned,
         Sound(q, kind, tracks), Latest(q, kind, owned)
  PROVE  Sound(q, larger, tracks) /\ Latest(q, larger, owned)
<1>1. Rank["basic"] = 1 /\ Rank["windows"] = 2 /\ Rank[kind] \in Nat /\ Rank[larger] \in Nat
  BY RankFacts
<1>2. \A win \in {"basic", "windows"} : Rank[win] <= Rank[kind] =>
                                           Rank[win] <= Rank[larger] /\ win # larger
  BY <1>1
<1>3. \A i \in DOMAIN q : Heard(q, larger, i) => q[i].window = "root"
  BY <1>2 DEF Heard, Sound
<1>4. \A i \in DOMAIN q : Heard(q, larger, i) <=> Heard(q, "root", i)
  BY <1>3 DEF Heard
<1>5. Sound(q, larger, tracks)
  BY <1>2 DEF Sound
<1>6. Latest(q, larger, owned)
  <2> SUFFICES ASSUME NEW i \in DOMAIN q, Heard(q, "root", i),
                      \A j \in DOMAIN q : i < j => ~Heard(q, "root", j)
               PROVE  q[i].owner = owned
    BY <1>4 DEF Latest
  <2>1. DOMAIN q \subseteq Nat
    OBVIOUS
  <2>2. tracks /\ Heard(q, kind, i)
    BY DEF Heard, Sound
  <2>3. ASSUME NEW j \in DOMAIN q, i < j, Heard(q, kind, j) PROVE FALSE
    <3>1. q[j].type = "Selection" /\ q[j].window # "root"
      BY <2>3 DEF Heard
    <3>2. PICK k \in DOMAIN q : j < k /\ Heard(q, "root", k)
      BY <2>2, <3>1 DEF Sound
    <3>3. i < k
      BY <2>1, <2>3, <3>2
    <3> QED BY <3>2, <3>3
  <2> QED BY <2>2, <2>3 DEF Latest
<1> QED BY <1>5, <1>6

\* Of what others do, only SetCompositor concerns the compositing manager.
LEMMA OtherQueues ==
  ASSUME Shapes, Others, ~SetCompositor
  PROVE  /\ cm' = cm
         /\ queue' = queue \/ \E e \in Events : e.type # "Selection" /\ queue' = Append(queue, e)
<1> DEFINE Goal == /\ cm' = cm
                   /\ \/ queue' = queue
                      \/ \E e \in Events : e.type # "Selection" /\ queue' = Append(queue, e)
<1>1. ASSUME NEW list, SetClientList(list) PROVE Goal
  <2>1. PICK e \in Events : e = RootEvent("ClientList")
    BY DEF RootEvent, Event, Events
  <2>2. e.type = "ClientList"
    BY <2>1 DEF RootEvent, Event
  <2> QED BY <1>1, <2>1, <2>2 DEF SetClientList
<1>2. ASSUME NEW list, SetClientListStacking(list) PROVE Goal
  <2>1. PICK e \in Events : e = RootEvent("Stacking")
    BY DEF RootEvent, Event, Events
  <2>2. e.type = "Stacking"
    BY <2>1 DEF RootEvent, Event
  <2> QED BY <1>2, <2>1, <2>2 DEF SetClientListStacking
<1>3. ASSUME NEW w \in Windows, NEW s, SetStrut(w, s) PROVE Goal
  <2>1. PICK e \in Events : e = Event("Strut", w, FALSE)
    BY DEF Event, Events
  <2>2. e.type = "Strut"
    BY <2>1 DEF Event
  <2> QED BY <1>3, <2>1, <2>2 DEF SetStrut
<1>4. ASSUME NEW w, Destroy(w) PROVE Goal
  BY <1>4 DEF Destroy
<1> HIDE DEF Goal
<1>5. Goal
  BY <1>1, <1>2, <1>3, <1>4 DEF Others
<1> QED BY <1>5 DEF Goal

LEMMA CompositorTurns ==
  ASSUME Shapes, Composited, SetCompositor
  PROVE  /\ Sound(queue', what, qtTracks) /\ Latest(queue', what, cm')
         /\ what # "none" => \E i \in DOMAIN queue' : Heard(queue', what, i)
<1> DEFINE N(win) == [type |-> "Selection", window |-> win, owner |-> ~cm]
<1>1. cm' = ~cm /\ queue \in Seq(Events)
  BY DEF SetCompositor, Shapes
<1>2. PICK r \in Events : r = N("root")
  <2>1. N("root") \in Events
    BY DEF Events
  <2> HIDE DEF N
  <2> QED BY <2>1
<1>3. r.type = "Selection" /\ r.window = "root" /\ r.owner = cm' /\ Heard(<<r>>, what, 1)
  BY <1>1, <1>2 DEF Heard
<1>4. ASSUME what # "none"
      PROVE  \E e \in Events : /\ e = N(what) /\ e.type = "Selection" /\ e.window = what
                               /\ e.owner = cm' /\ Heard(<<e>>, what, 1)
  <2>1. N(what) \in Events
    BY <1>4 DEF Events, Shapes
  <2>2. PICK e \in Events : e = N(what)
    BY <2>1
  <2> QED BY <1>1, <2>2 DEF Heard
<1> DEFINE Fits(q) == \A i \in DOMAIN q : q[i].type = "Selection" /\ q[i].window # "root" =>
                        q[i].window \in {"basic", "windows"} /\ Rank[q[i].window] <= Rank[what]
<1>5. Fits(queue)
  BY DEF Composited, Sound
<1>6. CASE qtTracks
  <2>1. PICK kept \in {<<>>, IF what = "none" THEN <<>> ELSE <<N(what)>>} :
          queue' = queue \o kept \o <<r>>
    BY <1>2, <1>6 DEF SetCompositor
  <2>2. PICK q \in Seq(Events) : q = queue \o kept /\ Fits(q)
    <3>1. CASE kept = <<>>
      BY <1>1, <1>5, <3>1
    <3>2. CASE kept # <<>>
      <4>1. what # "none" /\ kept = <<N(what)>>
        BY <2>1, <3>2
      <4>2. PICK e \in Events : e = N(what) /\ e.type = "Selection" /\ e.window = what
        BY <1>4, <4>1
      <4>3. queue \o kept = Append(queue, e)
        BY <1>1, <4>1, <4>2
      <4>4. what \in {"basic", "windows"}
        BY <4>1 DEF Shapes
      <4>5. Append(queue, e) \in Seq(Events) /\ Fits(Append(queue, e))
        BY <1>1, <4>2, <4>4, OwnEvent DEF Composited
      <4> HIDE DEF Fits
      <4> QED BY <4>3, <4>5
    <3> QED BY <3>1, <3>2
  <2>3. queue' = Append(q, r)
    BY <2>1, <2>2
  <2>4. Sound(queue', what, TRUE)
    BY <1>3, <2>2, <2>3, RootEventSound
  <2>5. Latest(queue', what, cm') /\ \E i \in DOMAIN queue' : Heard(queue', what, i)
    BY <1>3, <2>2, <2>3, OwnerEvent
  <2>6. Sound(queue', what, qtTracks)
    BY <1>6, <2>4 DEF Sound
  <2> QED BY <2>5, <2>6
<1>7. CASE ~qtTracks /\ what = "none"
  <2>1. queue' = queue
    BY <1>1, <1>7 DEF SetCompositor
  <2>2. \A i \in DOMAIN queue : ~Heard(queue, what, i)
    BY <1>7 DEF Heard, Composited, Sound
  <2> QED BY <1>7, <2>1, <2>2 DEF Latest, Composited
<1>8. CASE ~qtTracks /\ what # "none"
  <2>1. PICK e \in Events : /\ e = N(what) /\ e.type = "Selection" /\ e.window = what
                            /\ e.owner = cm' /\ Heard(<<e>>, what, 1)
    BY <1>4, <1>8
  <2>2. queue' = Append(queue, e)
    BY <1>1, <1>8, <2>1 DEF SetCompositor
  <2>3. what \in {"basic", "windows"}
    BY <1>8 DEF Shapes
  <2>4. Sound(queue', what, qtTracks)
    <3>1. Sound(queue, what, qtTracks) /\ ~qtTracks /\ queue \in Seq(Events)
      BY <1>1, <1>8 DEF Composited
    <3>2. \A i \in DOMAIN Append(queue, e) : Append(queue, e)[i].type = "Selection" =>
            /\ Append(queue, e)[i].window = "root" => qtTracks
            /\ Append(queue, e)[i].window # "root" =>
                 /\ Append(queue, e)[i].window \in {"basic", "windows"}
                 /\ Rank[Append(queue, e)[i].window] <= Rank[what]
      BY <2>1, <2>3, <3>1, OwnEvent
    <3>3. \A i \in DOMAIN queue' : queue'[i].type = "Selection" =>
            /\ queue'[i].window = "root" => qtTracks
            /\ queue'[i].window # "root" =>
                 /\ queue'[i].window \in {"basic", "windows"}
                 /\ Rank[queue'[i].window] <= Rank[what]
      BY <2>2, <3>2
    <3> QED BY <3>1, <3>3 DEF Sound
  <2> QED BY <1>1, <2>1, <2>2, <2>4, OwnerEvent
<1> QED BY <1>6, <1>7, <1>8

LEMMA CompositedKept ==
  ASSUME FilterInv, [Next]_vars
  PROVE  Composited'
<1> USE DEF FilterInv
<1> DEFINE Knows == what # "none" /\ pc # "owner" =>
                      compositing = cm \/ \E i \in DOMAIN queue : Heard(queue, what, i)
           Tells == told = IF Initializing THEN was ELSE compositing
<1>1. CASE Others /\ ~SetCompositor
  <2>1. UNCHANGED <<what, qtTracks, pc, compositing, told, was>>
    BY <1>1, OthersFacts DEF callVars
  <2>2. cm' = cm
    BY <1>1, OtherQueues
  <2>3. CASE queue' = queue
    BY <2>1, <2>2, <2>3 DEF Composited, Sound, Latest, Heard, Initializing
  <2>4. CASE \E e \in Events : e.type # "Selection" /\ queue' = Append(queue, e)
    <3>1. PICK e \in Events : e.type # "Selection" /\ queue' = Append(queue, e)
      BY <2>4
    <3>2. /\ Sound(queue', what, qtTracks) /\ Latest(queue', what, cm)
          /\ (\E i \in DOMAIN queue : Heard(queue, what, i))
               => \E i \in DOMAIN queue' : Heard(queue', what, i)
      BY <3>1, OtherEvent DEF Composited, Shapes
    <3> QED BY <2>1, <2>2, <3>2 DEF Composited, Initializing
  <2> QED BY <1>1, <2>3, <2>4, OtherQueues
<1>2. CASE SetCompositor
  <2>1. UNCHANGED <<what, qtTracks, pc, compositing, told, was>>
    BY <1>2, OthersFacts DEF callVars, Others
  <2>2. /\ Sound(queue', what, qtTracks) /\ Latest(queue', what, cm')
        /\ what # "none" => \E i \in DOMAIN queue' : Heard(queue', what, i)
    BY <1>2, CompositorTurns
  <2> QED BY <2>1, <2>2 DEF Composited, Initializing
<1>3. CASE UNCHANGED vars
  <2>1. UNCHANGED <<what, qtTracks, pc, compositing, told, was, cm, queue>>
    BY <1>3 DEF vars, serverVars, callVars
  <2> QED BY <2>1 DEF Composited, Sound, Latest, Heard, Initializing
<1>4. OwnStep => cm' = cm /\ qtTracks' = qtTracks
  BY OwnStepFacts DEF serverVars
<1>5. CASE CallWindows \/ ConnectWindowChanged \/ ConnectStrutChanged \/ CallWorkArea
  <2>1. PICK info \in {"basic", "windows"}, next \in {"return", "connect", "workArea"} :
          Call(info, next)
    BY <1>5, CallFacts
  <2>2. UNCHANGED <<queue, compositing, told, cm, qtTracks>> /\ pc = "idle"
    BY <2>1 DEF Call, serverVars
  <2>3. CASE Rank[what] < Rank[info]
    <3>1. what' = info /\ was' = compositing /\ pc' = "owner"
      BY <2>1, <2>3 DEF Call
    <3>2. what \in {"none", "basic"}
      BY <2>3, RankFacts DEF Shapes
    <3>3. Sound(queue, info, qtTracks) /\ Latest(queue, info, cm)
      BY <2>3, <3>2, ReplacedFilter DEF Composited, Shapes
    <3> QED BY <2>2, <3>1, <3>3 DEF Composited, Initializing
  <2>4. CASE ~(Rank[what] < Rank[info])
    <3>1. UNCHANGED <<what, was, pc>>
      BY <2>1, <2>4 DEF Call
    <3> QED BY <2>2, <3>1 DEF Composited, Initializing
  <2> QED BY <2>3, <2>4
<1>6. CASE ReadOwner
  <2>1. UNCHANGED <<queue, what, cm, qtTracks, told, was>> /\ compositing' = cm
        /\ pc = "owner" /\ pc' = "clients"
    BY <1>6 DEF ReadOwner, serverVars, callVars
  <2> QED BY <2>1 DEF Composited, Initializing
<1>7. CASE ReadClients \/ ReadStacking
  <2>1. UNCHANGED <<queue, what, cm, qtTracks, told, was, compositing>>
        /\ pc \in {"clients", "stacking"} /\ pc' \in {"stacking", "activate"}
    BY <1>7 DEF ReadClients, ReadStacking, serverVars
  <2> QED BY <2>1 DEF Composited, Initializing
<1>8. CASE Activated
  <2>1. UNCHANGED <<queue, what, cm, qtTracks, compositing>>
        /\ pc = "activate" /\ pc' = "idle" /\ AnnounceCompositing
    BY <1>8 DEF Activated, serverVars
  <2>2. told = was /\ told' = compositing
    BY <2>1 DEF Composited, Initializing, AnnounceCompositing
  <2> QED BY <2>1, <2>2 DEF Composited, Initializing
<1>9. CASE RemoveClient \/ SelectEvents \/ AddClient \/ WorkAreaRead \/ WorkAreaReturn
  <2>1. UNCHANGED <<queue, what, cm, qtTracks, compositing, told, was, pc>>
    BY <1>9 DEF RemoveClient, SelectEvents, AddClient, Doing, WorkAreaRead, WorkAreaReturn,
       serverVars, callVars
  <2> QED BY <2>1 DEF Composited, Initializing
<1>10. CASE ClientListUpdated
  <2>1. UNCHANGED <<queue, what, cm, qtTracks, compositing, told, was>>
        /\ pc = "event" /\ pc' = "idle"
    BY <1>10 DEF ClientListUpdated, serverVars, callVars
  <2> QED BY <2>1 DEF Composited, Initializing
<1>11. CASE OnClientList \/ OnStacking \/ OnStrut
  <2>1. /\ UNCHANGED <<what, compositing, told, was>> /\ pc = "idle" /\ pc' \in {"idle", "event"}
        /\ queue # <<>> /\ queue' = Tail(queue) /\ Head(queue).type # "Selection"
    BY <1>11 DEF OnClientList, OnStacking, OnStrut, Dispatch
  <2>2. ~Heard(queue, what, 1)
    BY <2>1, TailFacts DEF Heard, Shapes
  <2>3. /\ Sound(queue', what, qtTracks) /\ Latest(queue', what, cm)
        /\ (\E i \in DOMAIN queue : Heard(queue, what, i)) =>
             \E i \in DOMAIN queue' : Heard(queue', what, i)
    BY <2>1, <2>2, EventTaken DEF Composited, Shapes
  <2> QED BY <1>4, <1>11, <2>1, <2>3 DEF Composited, Initializing, OwnStep
<1>12. CASE OnSelection
  <2>1. /\ UNCHANGED <<what, pc, was>> /\ pc = "idle" /\ queue # <<>> /\ queue' = Tail(queue)
        /\ Head(queue).type = "Selection"
    BY <1>12 DEF OnSelection, Dispatch
  <2>2. /\ Sound(queue', what, qtTracks) /\ Latest(queue', what, cm)
        /\ (\E i \in DOMAIN queue : Heard(queue, what, i)) =>
             \/ \E i \in DOMAIN queue' : Heard(queue', what, i)
             \/ Heard(queue, what, 1) /\ Head(queue).owner = cm
    BY <2>1, EventTaken DEF Composited, Shapes
  <2>3. Heard(queue, what, 1) <=> Head(queue).window \in {what, "root"}
    BY <2>1, TailFacts DEF Heard, Shapes
  <2>4. told = compositing
    BY <2>1 DEF Composited, Initializing
  <2>5. told' = compositing'
    BY <1>12, <2>4 DEF OnSelection
  <2>6. ASSUME what # "none"
        PROVE  compositing' = cm \/ \E i \in DOMAIN queue' : Heard(queue', what, i)
    <3>1. CASE Heard(queue, what, 1) /\ Head(queue).owner = cm
      <4>1. compositing' = Head(queue).owner
        BY <1>12, <2>3, <2>6, <3>1 DEF OnSelection
      <4> QED BY <3>1, <4>1
    <3>2. CASE Heard(queue, what, 1) /\ Head(queue).owner # cm
      <4>1. 1 \in DOMAIN queue
        BY <2>1, TailFacts DEF Shapes
      <4> QED BY <2>2, <3>2, <4>1
    <3>3. CASE ~Heard(queue, what, 1)
      <4>1. compositing' = compositing
        BY <1>12, <2>3, <3>3 DEF OnSelection
      <4>2. pc # "owner"
        BY <2>1
      <4> QED BY <2>2, <2>6, <3>3, <4>1, <4>2 DEF Composited
    <3> QED BY <3>1, <3>2, <3>3
  <2> QED BY <1>4, <1>12, <2>1, <2>2, <2>5, <2>6 DEF Composited, Initializing, OwnStep
<1> QED BY <1>1, <1>2, <1>3, <1>5, <1>6, <1>7, <1>8, <1>9, <1>10, <1>11, <1>12, StepIs
        DEF OwnStep

-----------------------------------------------------------------------------
(* The theorems                                                            *)

LEMMA InitFilter == Init => FilterInv
<1> SUFFICES ASSUME Init PROVE FilterInv
  OBVIOUS
<1> USE DEF Init
<1>1. <<>> \in Increasing(0) /\ ToSet(<<>>) = {} /\ IsInjective(<<>>) /\ DOMAIN <<>> = {}
  BY DEF Increasing, ToSet, IsInjective
<1>2. Shapes
  <2>1. queue \in Seq(Events) /\ windows \in Seq(Windows) /\ todo \in Seq(WalkSteps)
    OBVIOUS
  <2>2. (\E n \in Nat : clients \in Increasing(n)) /\ ToSet(clients) \subseteq Windows
    BY <1>1
  <2> QED BY <2>1, <2>2 DEF Shapes
<1>3. Located
  BY DEF Located
<1>4. Walking
  BY <1>1 DEF Walking
<1>5. Following
  BY DEF Following, ListsRead
<1>6. Caching
  BY <1>1 DEF Caching
<1>7. Viewing
  BY DEF Viewing
<1>8. Composited
  BY <1>1 DEF Composited, Sound, Latest, Initializing
<1> QED BY <1>2, <1>3, <1>4, <1>5, <1>6, <1>7, <1>8 DEF FilterInv

LEMMA FilterHolds == Spec => []FilterInv
<1>1. FilterInv /\ [Next]_vars => FilterInv'
  BY ShapesKept, LocatedKept, WalkingKept, FollowingKept, CachingKept, ViewingKept,
     CompositedKept DEF FilterInv
<1> QED BY InitFilter, <1>1, PTL DEF Spec

\* Whatever the client lists that the window manager publishes one after the other,
\* removeClient() is called for windows that have left only and addClient() for new
\* ones only.
THEOREM ChangesOnly == Spec => []OnlyChangesAnnounced
<1>1. FilterInv => OnlyChangesAnnounced
  BY DEF FilterInv, Walking, OnlyChangesAnnounced
<1> QED BY <1>1, FilterHolds, PTL

\* windows() and stackingOrder() are the window manager's lists when the events about
\* them are dispatched.
THEOREM ListsAlwaysFollow == Spec => []ListsFollow
<1>1. FilterInv => ListsFollow
  <2> SUFFICES ASSUME FilterInv, AtRest PROVE ListsFollow
    BY DEF ListsFollow
  <2> USE DEF FilterInv
  <2>1. what # "none" /\ todo = <<>> /\ ListsRead /\ ~Initializing
    BY DEF AtRest, Located, ListsRead, Initializing
  <2>2. ToSet(windows) = ToSet(clients)
    BY <2>1, WalkDone
  <2> QED BY <2>1, <2>2 DEF ListsFollow, Following, Walking
<1> QED BY <1>1, FilterHolds, PTL

\* For a window that exists, workArea() uses its strut or the event about it is in the
\* queue.
THEOREM StrutsFresh == Spec => []StrutCacheFresh
<1>1. FilterInv => StrutCacheFresh
  BY DEF FilterInv, Caching, StrutCacheFresh
<1> QED BY <1>1, FilterHolds, PTL

\* No strut of a managed window escapes a listener that calls workArea() at each
\* strutChanged().
THEOREM ListenersUpToDate == Spec => []StrutListenerUpToDate
<1>1. FilterInv => StrutListenerUpToDate
  <2> SUFFICES ASSUME FilterInv, AtRest, view # NoView, ~Pending("ClientList", 0),
                      \A w \in Windows : ~Pending("Strut", w),
                      NEW w \in alive, NEW s \in Struts \ {0}
               PROVE  <<w, s>> \in view <=> (w \in ToSet(clientList) /\ strut[w] = s)
    BY DEF StrutListenerUpToDate
  <2> USE DEF FilterInv
  <2>1. what # "none" /\ todo = <<>> /\ ListsRead
    BY DEF AtRest, Located, ListsRead
  <2>2. ToSet(windows) = ToSet(clientList)
    BY <2>1, WalkDone DEF Following
  <2>3. possible = {} /\ view = Reported(strutWindows)
    BY DEF Viewing, AtRest
  <2>4. <<w, s>> \in view <=> w \in DOMAIN strutWindows /\ strutWindows[w] = s
    BY <2>3 DEF Reported
  <2>5. w \in DOMAIN strutWindows => w \in ToSet(clientList)
    BY <2>2 DEF Caching
  <2>6. w \in Windows
    BY DEF Shapes
  <2>7. w \in ToSet(clientList) => strut[w] = UsedStrut(w)
    BY <2>2, <2>6 DEF Caching
  <2>8. UsedStrut(w) = IF w \in DOMAIN strutWindows THEN strutWindows[w] ELSE 0
    BY <2>3 DEF UsedStrut
  <2> QED BY <2>4, <2>5, <2>7, <2>8
<1> QED BY <1>1, FilterHolds, PTL

\* compositingActive() and compositingChanged() tell whether there is a compositing
\* manager when the events about it are dispatched, also across a replaced filter.
THEOREM CompositingAlwaysKnown == Spec => []CompositingKnown
<1>1. FilterInv => CompositingKnown
  <2> SUFFICES ASSUME FilterInv, AtRest PROVE CompositingKnown
    BY DEF CompositingKnown
  <2> USE DEF FilterInv
  <2>1. what # "none" /\ pc # "owner" /\ ~Initializing
    BY DEF AtRest, Initializing
  <2>2. told = compositing
    BY <2>1 DEF Composited
  <2>3. ASSUME NEW i \in DOMAIN queue, Heard(queue, what, i)
        PROVE  Pending("Selection", what) \/ Pending("Selection", "root")
    BY <2>3 DEF Heard, Pending
  <2>4. compositing = cm \/ \E i \in DOMAIN queue : Heard(queue, what, i)
    BY <2>1 DEF Composited
  <2> QED BY <2>2, <2>3, <2>4 DEF CompositingKnown
<1> QED BY <1>1, FilterHolds, PTL
=============================================================================

-------------------------- MODULE KWindowInfoProofs --------------------------
(***************************************************************************)
(* Theorems about NETWinInfo and KWindowInfo, for every set of topics,     *)
(* states, texts, icons and numbers.                                       *)
(***************************************************************************)
EXTENDS KWindowInfo, SequenceTheorems, FiniteSetTheorems, WellFoundedInduction, TLAPS

-----------------------------------------------------------------------------
(* Induction, with a set in the place of the predicate                     *)

LEMMA LeastExists ==
  ASSUME NEW S \in SUBSET Nat, S # {}
  PROVE  \E i \in S : \A j \in S : i <= j
<1> DEFINE R == OpToRel(<, Nat)
<1>1. IsWellFoundedOn(R, Nat)
  BY NatLessThanWellFounded
<1>2. PICK x \in S : \A y \in S : ~(<<y, x>> \in R)
  <2> HIDE DEF R
  <2> QED BY <1>1, WFMin
<1>3. \A y \in S : ~(y < x)
  BY <1>2 DEF OpToRel
<1> QED BY <1>3

LEMMA NatSetInduction ==
  ASSUME NEW S, 0 \in S, \A n \in Nat : n \in S => n + 1 \in S
  PROVE  Nat \subseteq S
<1> DEFINE T == Nat \ S
<1>1. SUFFICES ASSUME T # {} PROVE FALSE
  OBVIOUS
<1>2. PICK x \in T : \A y \in T : x <= y
  <2>1. T \in SUBSET Nat
    OBVIOUS
  <2> HIDE DEF T
  <2> QED BY <1>1, <2>1, LeastExists
<1>3. x - 1 \in Nat \ T /\ x - 1 + 1 = x
  BY <1>2
<1> QED BY <1>2, <1>3

\* FlattenSeq is a recursive function: it has a value for every length.
LEMMA FlattenRuns ==
  ASSUME NEW s, NEW k \in Nat
  PROVE  \E g : g = [i \in 1..k |-> IF i = 1 THEN s[i] ELSE g[i - 1] \o s[i]]
<1> DEFINE Do(g, i) == g \o s[i]
           Runs(n) == \E g : g = [i \in 1..n |-> IF i = 1 THEN s[i] ELSE Do(g[i - 1], i)]
           S == {n \in Nat : Runs(n)}
<1>1. 0 \in S
  <2>1. \A i \in 1..0 : FALSE
    OBVIOUS
  <2>2. \A x, y : [i \in 1..0 |-> x] = [i \in 1..0 |-> IF i = 1 THEN s[i] ELSE Do(y[i - 1], i)]
    BY <2>1
  <2> HIDE DEF Do
  <2> QED BY <2>2
<1>2. ASSUME NEW n \in Nat, n \in S PROVE n + 1 \in S
  <2>1. PICK g : g = [i \in 1..n |-> IF i = 1 THEN s[i] ELSE Do(g[i - 1], i)]
    BY <1>2
  <2> HIDE DEF Do
  <2> DEFINE Step == IF n = 0 THEN s[1] ELSE Do(g[n], n + 1)
             G == [i \in 1..(n + 1) |-> IF i = n + 1 THEN Step ELSE g[i]]
  <2>2. \A i \in 1..n : G[i] = g[i]
    OBVIOUS
  <2>3. \A i \in 1..n : g[i] = IF i = 1 THEN s[i] ELSE Do(g[i - 1], i)
    BY <2>1
  <2>4. \A i \in 1..(n + 1) : G[i] = IF i = 1 THEN s[i] ELSE Do(G[i - 1], i)
    <3>1. TAKE i \in 1..(n + 1)
    <3>2. CASE i = n + 1
      <4>1. G[i] = Step /\ (n # 0 => G[n] = g[n] /\ i # 1) /\ i - 1 = n
        BY <3>2
      <4> HIDE DEF G
      <4> QED BY <3>2, <4>1
    <3>3. CASE i \in 1..n
      <4>1. G[i] = g[i] /\ (i # 1 => i - 1 \in 1..n /\ G[i - 1] = g[i - 1])
        BY <2>2, <3>3
      <4> HIDE DEF G
      <4> QED BY <2>3, <3>3, <4>1
    <3> QED BY <3>2, <3>3
  <2>5. G = [i \in 1..(n + 1) |-> IF i = 1 THEN s[i] ELSE Do(G[i - 1], i)]
    <3>1. G = [i \in 1..(n + 1) |-> G[i]]
      OBVIOUS
    <3> HIDE DEF G
    <3> QED BY <2>4, <3>1
  <2> HIDE DEF G
  <2> QED BY <2>5
<1>3. Nat \subseteq S
  <2> HIDE DEF S
  <2> QED BY <1>1, <1>2, NatSetInduction
<1> QED BY <1>3

Joined(s, t) == s \o t
FlattenStep(s, n, g) ==
  g = [i \in 1..n |-> IF i = 1 THEN s[i] ELSE Joined(g[i - 1], s[i])]

LEMMA FlattenIs ==
  ASSUME NEW s, NEW n \in Nat \ {0}, n = Len(s)
  PROVE  \E g : FlattenStep(s, n, g) /\ FlattenSeq(s) = g[n]
<1> DEFINE A == CHOOSE g : g = [i \in 1..Len(s) |-> IF i = 1 THEN s[i] ELSE g[i - 1] \o s[i]]
<1>1. A = [i \in 1..Len(s) |-> IF i = 1 THEN s[i] ELSE A[i - 1] \o s[i]]
  <2>1. n \in Nat
    OBVIOUS
  <2>2. \E g : g = [i \in 1..Len(s) |-> IF i = 1 THEN s[i] ELSE g[i - 1] \o s[i]]
    BY <2>1, FlattenRuns
  <2> QED BY <2>2
<1>2. FlattenSeq(s) = A[Len(s)]
  BY DEF FlattenSeq
<1> HIDE DEF A
<1> QED BY <1>1, <1>2 DEF FlattenStep, Joined

LEMMA FlattenNone == FlattenSeq(<<>>) = <<>>
<1>1. Len(<<>>) = 0
  OBVIOUS
<1> QED BY <1>1 DEF FlattenSeq

\* One more part
LEMMA FlattenAppend ==
  ASSUME NEW S, NEW s \in Seq(Seq(S)), NEW x \in Seq(S), FlattenSeq(s) \in Seq(S)
  PROVE  FlattenSeq(Append(s, x)) = FlattenSeq(s) \o x
<1>a. PICK n \in Nat : n = Len(s)
  OBVIOUS
<1>b. PICK t : t = Append(s, x)
  OBVIOUS
<1>1. n = Len(s) /\ t = Append(s, x)
  BY <1>a, <1>b
<1>2. Len(t) = n + 1 /\ t[n + 1] = x /\ \A i \in 1..n : t[i] = s[i]
  BY <1>1, AppendProperties
<1>3. PICK h : FlattenStep(t, n + 1, h) /\ FlattenSeq(t) = h[n + 1]
  <2>1. n + 1 \in Nat \ {0} /\ n + 1 = Len(t)
    BY <1>2
  <2> QED BY <2>1, FlattenIs
<1>4. h[1] = t[1] /\ \A i \in 2..(n + 1) : h[i] = Joined(h[i - 1], t[i])
  BY <1>2, <1>3 DEF FlattenStep
<1>5. CASE n = 0
  <2>1. s = <<>>
    BY <1>1, <1>5, EmptySeq
  <2>2. FlattenSeq(t) = x
    BY <1>2, <1>3, <1>4, <1>5
  <2> QED BY <1>1, <2>1, <2>2, FlattenNone, ConcatEmptySeq
<1>6. CASE n # 0
  <2>1. PICK g : FlattenStep(s, n, g) /\ FlattenSeq(s) = g[n]
    BY <1>1, <1>6, FlattenIs
  <2>2. g[1] = s[1] /\ \A i \in 2..n : g[i] = Joined(g[i - 1], s[i])
    <3>1. 1 \in 1..n /\ \A i \in 2..n : i \in 1..n /\ i # 1
      BY <1>6
    <3> QED BY <2>1, <3>1 DEF FlattenStep
  <2> DEFINE I == {i \in Nat : i + 1 <= n => h[i + 1] = g[i + 1]}
  <2>3. 0 \in I
    BY <1>2, <1>4, <1>6, <2>2
  <2>4. ASSUME NEW i \in Nat, i \in I PROVE i + 1 \in I
    <3>1. SUFFICES ASSUME i + 2 <= n PROVE h[i + 2] = g[i + 2]
      OBVIOUS
    <3>2. PICK j \in 2..n : j = i + 2 /\ j - 1 = i + 1
      BY <3>1
    <3>3. h[j] = Joined(h[j - 1], t[j]) /\ g[j] = Joined(g[j - 1], s[j]) /\ t[j] = s[j]
      BY <1>2, <1>4, <2>2, <3>2
    <3>4. h[j - 1] = g[j - 1]
      BY <2>4, <3>1, <3>2
    <3> QED BY <3>2, <3>3, <3>4
  <2>5. Nat \subseteq I
    <3> HIDE DEF I
    <3> QED BY <2>3, <2>4, NatSetInduction
  <2>6. n - 1 \in I /\ n - 1 + 1 = n
    <3>1. n - 1 \in Nat /\ n - 1 + 1 = n
      BY <1>1, <1>6
    <3> HIDE DEF I
    <3> QED BY <2>5, <3>1
  <2>7. h[n] = g[n]
    BY <2>6
  <2>8. n + 1 \in 2..(n + 1) /\ n + 1 - 1 = n
    BY <1>6
  <2>9. h[n + 1] = Joined(h[n], x)
    BY <1>2, <1>4, <2>8
  <2> QED BY <1>1, <1>3, <2>1, <2>7, <2>9 DEF Joined
<1> QED BY <1>5, <1>6

LEMMA FlattenIsSeq ==
  ASSUME NEW S, NEW s \in Seq(Seq(S))
  PROVE  FlattenSeq(s) \in Seq(S)
<1> DEFINE I == {n \in Nat : \A t \in Seq(Seq(S)) : Len(t) = n => FlattenSeq(t) \in Seq(S)}
<1>1. 0 \in I
  <2>1. ASSUME NEW t \in Seq(Seq(S)), Len(t) = 0 PROVE FlattenSeq(t) \in Seq(S)
    <3>1. t = <<>> /\ <<>> \in Seq(S)
      BY <2>1, EmptySeq
    <3> QED BY <3>1, FlattenNone
  <2> QED BY <2>1
<1>2. ASSUME NEW n \in Nat, n \in I PROVE n + 1 \in I
  <2>1. ASSUME NEW t \in Seq(Seq(S)), Len(t) = n + 1 PROVE FlattenSeq(t) \in Seq(S)
    <3>1. PICK front \in Seq(Seq(S)), last \in Seq(S) : t = Append(front, last)
      <4>1. t # <<>>
        BY <2>1, EmptySeq
      <4> QED BY <4>1, SequenceEmptyOrAppend
    <3>2. Len(front) = n
      BY <2>1, <3>1
    <3>3. FlattenSeq(front) \in Seq(S)
      BY <1>2, <3>2
    <3>4. FlattenSeq(t) = FlattenSeq(front) \o last
      BY <3>1, <3>3, FlattenAppend
    <3> QED BY <3>3, <3>4, ConcatProperties
  <2> QED BY <2>1
<1>3. Nat \subseteq I
  <2> HIDE DEF I
  <2> QED BY <1>1, <1>2, NatSetInduction
<1>4. Len(s) \in Nat
  OBVIOUS
<1> QED BY <1>3, <1>4

\* The members of a list that are wanted, in the order of the list
LEMMA ThoseNone ==
  ASSUME NEW S
  PROVE  Those(<<>>, S) = <<>>
<1>1. [i \in DOMAIN <<>> |-> IF <<>>[i] \in S THEN <<(<<>>)[i]>> ELSE <<>>] = <<>>
  <2>1. DOMAIN <<>> = {} /\ \A f, g : DOMAIN f = {} /\ DOMAIN g = {}
          /\ f = [i \in DOMAIN f |-> f[i]] /\ g = [i \in DOMAIN g |-> g[i]] => f = g
    OBVIOUS
  <2> QED BY <2>1
<1> QED BY <1>1, FlattenNone DEF Those

Parts(list, S) == [i \in DOMAIN list |-> IF list[i] \in S THEN <<list[i]>> ELSE <<>>]

LEMMA PartsAreLists ==
  ASSUME NEW L, NEW list \in Seq(L), NEW S
  PROVE  Parts(list, S) \in Seq(Seq(L \cap S)) /\ Len(Parts(list, S)) = Len(list)
<1>1. PICK n \in Nat : n = Len(list)
  OBVIOUS
<1>2. Parts(list, S) = [i \in 1..n |-> IF list[i] \in S THEN <<list[i]>> ELSE <<>>]
  BY <1>1 DEF Parts
<1>3. ASSUME NEW i \in 1..n
      PROVE  (IF list[i] \in S THEN <<list[i]>> ELSE <<>>) \in Seq(L \cap S)
  <2>1. PICK x \in L : x = list[i]
    BY <1>1, ElementOfSeq
  <2>2. <<>> \in Seq(L \cap S) /\ (x \in S => <<x>> \in Seq(L \cap S))
    OBVIOUS
  <2> QED BY <2>1, <2>2
<1> QED BY <1>1, <1>2, <1>3

LEMMA ThoseAppend ==
  ASSUME NEW L, NEW list \in Seq(L), NEW x \in L, NEW S
  PROVE  /\ Those(list, S) \in Seq(L \cap S)
         /\ Those(Append(list, x), S)
              = IF x \in S THEN Append(Those(list, S), x) ELSE Those(list, S)
<1>1. PICK n \in Nat : n = Len(list)
  OBVIOUS
<1>a. PICK s \in Seq(Seq(L \cap S)) : s = Parts(list, S)
  BY PartsAreLists
<1>b. PICK y \in Seq(L \cap S) : y = IF x \in S THEN <<x>> ELSE <<>>
  <2>1. <<>> \in Seq(L \cap S) /\ (x \in S => <<x>> \in Seq(L \cap S))
    OBVIOUS
  <2> QED BY <2>1
<1>2. s = Parts(list, S) /\ y = IF x \in S THEN <<x>> ELSE <<>>
  BY <1>a, <1>b
<1>3. PICK t \in Seq(L) : t = Append(list, x)
  BY AppendProperties
<1>4. Len(t) = n + 1 /\ t[n + 1] = x /\ \A i \in 1..n : t[i] = list[i]
  BY <1>1, <1>3, AppendProperties
<1>5. Parts(t, S) = Append(s, y)
  <2>1. PICK u \in Seq(Seq(L \cap S)) : u = Parts(t, S) /\ Len(u) = n + 1
    BY <1>4, PartsAreLists
  <2>2. Len(s) = n
    BY <1>1, <1>2, PartsAreLists
  <2>3. PICK v \in Seq(Seq(L \cap S)) : v = Append(s, y)
    BY AppendProperties
  <2>4. Len(v) = n + 1 /\ v[n + 1] = y /\ \A i \in 1..n : v[i] = s[i]
    BY <2>2, <2>3, AppendProperties
  <2>5. ASSUME NEW i \in 1..(n + 1) PROVE u[i] = v[i]
    <3>1. u[i] = IF t[i] \in S THEN <<t[i]>> ELSE <<>>
      BY <1>4, <2>1 DEF Parts
    <3>2. CASE i = n + 1
      BY <1>2, <1>4, <2>4, <3>1, <3>2
    <3>3. CASE i \in 1..n
      <4>1. s[i] = IF list[i] \in S THEN <<list[i]>> ELSE <<>>
        BY <1>1, <1>2, <3>3 DEF Parts
      <4> QED BY <1>4, <2>4, <3>1, <3>3, <4>1
    <3> QED BY <3>2, <3>3
  <2> QED BY <2>1, <2>3, <2>4, <2>5, SeqEqual
<1>6. Those(list, S) = FlattenSeq(s) /\ Those(t, S) = FlattenSeq(Append(s, y))
  BY <1>2, <1>5 DEF Those, Parts
<1>7. FlattenSeq(s) \in Seq(L \cap S)
  BY FlattenIsSeq
<1>8. FlattenSeq(Append(s, y)) = FlattenSeq(s) \o y
  BY <1>7, FlattenAppend
<1>9. CASE x \in S
  <2>1. x \in L \cap S /\ y = <<x>>
    BY <1>2, <1>9
  <2>2. FlattenSeq(s) \o <<x>> = Append(FlattenSeq(s), x)
    BY <1>7, <2>1, AppendIsConcat
  <2> QED BY <1>3, <1>6, <1>7, <1>8, <1>9, <2>1, <2>2
<1>10. CASE x \notin S
  <2>1. y = <<>>
    BY <1>2, <1>10
  <2> QED BY <1>3, <1>6, <1>7, <1>8, <1>10, <2>1, ConcatEmptySeq
<1> QED BY <1>9, <1>10

InOrder(list, S, those) ==
  /\ \A i \in 1..Len(list) : list[i] \in S => \E k \in 1..Len(those) : those[k] = list[i]
  /\ \A k \in 1..Len(those) : \E i \in 1..Len(list) :
       those[k] = list[i] /\ \A j \in 1..Len(list) :
         i < j /\ list[j] \in S => \E l \in 1..Len(those) : k < l /\ those[l] = list[j]
  /\ Len(list) > 0 /\ list[1] \in S => Len(those) > 0 /\ those[1] = list[1]

LEMMA ThoseInOrder ==
  ASSUME NEW L, NEW list \in Seq(L), NEW S
  PROVE  Those(list, S) \in Seq(L \cap S) /\ InOrder(list, S, Those(list, S))
<1> DEFINE Right(s) == Those(s, S) \in Seq(L \cap S) /\ InOrder(s, S, Those(s, S))
           I == {n \in Nat : \A s \in Seq(L) : Len(s) = n => Right(s)}
<1>1. 0 \in I
  <2>1. ASSUME NEW s \in Seq(L), Len(s) = 0 PROVE Right(s)
    <3>1. s = <<>> /\ Those(s, S) = <<>>
      BY <2>1, EmptySeq, ThoseNone
    <3>2. Len(<<>>) = 0 /\ 1..0 = {} /\ <<>> \in Seq(L \cap S)
      OBVIOUS
    <3> QED BY <3>1, <3>2 DEF InOrder
  <2> QED BY <2>1
<1>2. ASSUME NEW n \in Nat, n \in I PROVE n + 1 \in I
  <2>1. ASSUME NEW s \in Seq(L), Len(s) = n + 1 PROVE Right(s)
    <3>1. PICK u \in Seq(L), x \in L : s = Append(u, x)
      <4>1. s # <<>>
        BY <2>1, EmptySeq
      <4> QED BY <4>1, SequenceEmptyOrAppend
    <3>2. Len(u) = n /\ s[n + 1] = x /\ \A i \in 1..n : s[i] = u[i]
      BY <2>1, <3>1, AppendProperties
    <3>3. PICK t \in Seq(L \cap S) : t = Those(u, S)
      BY ThoseAppend
    <3>4. InOrder(u, S, t)
      BY <1>2, <3>2, <3>3
    <3>5. PICK m \in Nat : m = Len(t)
      OBVIOUS
    <3>6. /\ \A i \in 1..n : s[i] \in S => \E k \in 1..m : t[k] = s[i]
          /\ n > 0 /\ s[1] \in S => m > 0 /\ t[1] = s[1]
      <4>1. n > 0 => 1 \in 1..n
        OBVIOUS
      <4>2. /\ \A i \in 1..n : u[i] \in S => \E k \in 1..m : t[k] = u[i]
            /\ n > 0 /\ u[1] \in S => m > 0 /\ t[1] = u[1]
        BY <3>2, <3>4, <3>5 DEF InOrder
      <4> QED BY <3>2, <4>1, <4>2
    <3>9. ASSUME NEW k \in 1..m
          PROVE  \E i \in 1..n : t[k] = s[i] /\ \A j \in 1..n :
                   i < j /\ s[j] \in S => \E l \in 1..m : k < l /\ t[l] = s[j]
      <4>1. PICK i \in 1..n : t[k] = u[i] /\ \A j \in 1..n :
                   i < j /\ u[j] \in S => \E l \in 1..m : k < l /\ t[l] = u[j]
        <5>1. \E i \in 1..Len(u) : t[k] = u[i] /\ \A j \in 1..Len(u) :
                   i < j /\ u[j] \in S => \E l \in 1..Len(t) : k < l /\ t[l] = u[j]
          BY <3>4, <3>5 DEF InOrder
        <5> QED BY <3>2, <3>5, <5>1
      <4>2. \A j \in 1..n : i < j /\ s[j] \in S => \E l \in 1..m : k < l /\ t[l] = s[j]
        <5> TAKE j \in 1..n
        <5>1. s[j] = u[j]
          BY <3>2
        <5> QED BY <4>1, <5>1
      <4>3. t[k] = s[i]
        BY <3>2, <4>1
      <4> QED BY <4>2, <4>3
    <3>7. CASE x \notin S
      <4>1. Those(s, S) = t
        BY <3>1, <3>3, <3>7, ThoseAppend
      <4>2. \A i \in 1..(n + 1) : s[i] \in S => i \in 1..n
        BY <3>2, <3>7
      <4>3. s[1] \in S => n > 0
        BY <3>2, <3>7
      <4>5. ASSUME NEW k \in 1..m
            PROVE  \E i \in 1..(n + 1) : t[k] = s[i] /\ \A j \in 1..(n + 1) :
                     i < j /\ s[j] \in S => \E l \in 1..m : k < l /\ t[l] = s[j]
        <5>1. PICK i \in 1..n : t[k] = s[i] /\ \A j \in 1..n :
                   i < j /\ s[j] \in S => \E l \in 1..m : k < l /\ t[l] = s[j]
          BY <3>9
        <5>2. i \in 1..(n + 1)
          OBVIOUS
        <5> QED BY <4>2, <5>1, <5>2
      <4>6. Len(s) = n + 1 /\ Len(t) = m
        BY <2>1, <3>5
      <4>4. InOrder(s, S, t)
        BY <3>6, <4>2, <4>3, <4>5, <4>6 DEF InOrder
      <4> QED BY <4>1, <4>4
    <3>8. CASE x \in S
      <4>1. PICK v \in Seq(L \cap S) : v = Those(s, S) /\ v = Append(t, x)
        <5>1. x \in L \cap S
          BY <3>8
        <5>2. Append(t, x) \in Seq(L \cap S)
          BY <5>1, AppendProperties
        <5>3. Those(s, S) = Append(t, x)
          BY <3>1, <3>3, <3>8, ThoseAppend
        <5> QED BY <5>2, <5>3
      <4>2. Len(v) = m + 1 /\ v[m + 1] = x /\ \A k \in 1..m : v[k] = t[k]
        BY <3>5, <4>1, AppendProperties
      <4>3. ASSUME NEW i \in 1..(n + 1), s[i] \in S PROVE \E k \in 1..(m + 1) : v[k] = s[i]
        <5>1. CASE i = n + 1
          <6>1. m + 1 \in 1..(m + 1)
            OBVIOUS
          <6>2. v[m + 1] = s[i]
            BY <3>2, <4>2, <5>1
          <6> QED BY <6>1, <6>2
        <5>2. CASE i \in 1..n
          <6>1. PICK k \in 1..m : t[k] = s[i]
            BY <3>6, <4>3, <5>2
          <6>2. k \in 1..(m + 1) /\ v[k] = s[i]
            BY <4>2, <6>1
          <6> QED BY <6>2
        <5> QED BY <4>3, <5>1, <5>2
      <4>4. ASSUME NEW k \in 1..(m + 1)
            PROVE  \E i \in 1..(n + 1) : v[k] = s[i] /\ \A j \in 1..(n + 1) :
                     i < j /\ s[j] \in S => \E l \in 1..(m + 1) : k < l /\ v[l] = s[j]
        <5>1. CASE k = m + 1
          <6>1. n + 1 \in 1..(n + 1) /\ v[k] = s[n + 1]
            BY <3>2, <4>2, <5>1
          <6>2. \A j \in 1..(n + 1) : ~(n + 1 < j)
            OBVIOUS
          <6> QED BY <6>1, <6>2
        <5>2. CASE k \in 1..m
          <6>1. PICK i \in 1..n : t[k] = s[i] /\ \A j \in 1..n :
                   i < j /\ s[j] \in S => \E l \in 1..m : k < l /\ t[l] = s[j]
            BY <3>9, <5>2
          <6>2. ASSUME NEW j \in 1..(n + 1), i < j, s[j] \in S
                PROVE  \E l \in 1..(m + 1) : k < l /\ v[l] = s[j]
            <7>1. CASE j = n + 1
              <8>1. m + 1 \in 1..(m + 1) /\ k < m + 1 /\ v[m + 1] = s[j]
                BY <3>2, <4>2, <5>2, <7>1
              <8> QED BY <8>1
            <7>2. CASE j \in 1..n
              <8>1. PICK l \in 1..m : k < l /\ t[l] = s[j]
                BY <6>1, <6>2, <7>2
              <8>2. l \in 1..(m + 1) /\ v[l] = t[l]
                BY <4>2
              <8> QED BY <8>1, <8>2
            <7>3. j = n + 1 \/ j \in 1..n
              BY <6>2
            <7> QED BY <7>1, <7>2, <7>3
          <6>3. i \in 1..(n + 1) /\ v[k] = s[i]
            BY <4>2, <5>2, <6>1
          <6> QED BY <6>2, <6>3
        <5> QED BY <5>1, <5>2
      <4>5. s[1] \in S => m + 1 > 0 /\ v[1] = s[1]
        <5>1. CASE n > 0
          <6>1. s[1] \in S => 1 \in 1..m /\ t[1] = s[1]
            BY <3>6, <5>1
          <6> QED BY <4>2, <6>1
        <5>2. CASE n = 0
          <6>1. m = 0
            <7>1. u = <<>>
              BY <3>2, <5>2, EmptySeq
            <7> QED BY <3>3, <3>5, <7>1, ThoseNone
          <6> QED BY <3>2, <4>2, <5>2, <6>1
        <5> QED BY <5>1, <5>2
      <4>6. Len(s) = n + 1 /\ Len(v) = m + 1
        BY <2>1, <4>2
      <4>7. InOrder(s, S, v)
        <5>1. \A i \in 1..Len(s) : s[i] \in S => \E k \in 1..Len(v) : v[k] = s[i]
          BY <4>3, <4>6
        <5>2. \A k \in 1..Len(v) : \E i \in 1..Len(s) :
                v[k] = s[i] /\ \A j \in 1..Len(s) :
                  i < j /\ s[j] \in S => \E l \in 1..Len(v) : k < l /\ v[l] = s[j]
          BY <4>4, <4>6
        <5>3. Len(s) > 0 /\ s[1] \in S => Len(v) > 0 /\ v[1] = s[1]
          BY <4>5, <4>6
        <5> QED BY <5>1, <5>2, <5>3 DEF InOrder
      <4> QED BY <4>1, <4>7
    <3> QED BY <3>7, <3>8
  <2> QED BY <2>1
<1>3. Nat \subseteq I
  <2> HIDE DEF I
  <2> QED BY <1>1, <1>2, NatSetInduction
<1>4. Len(list) \in Nat
  OBVIOUS
<1> QED BY <1>3, <1>4

\* Lists of anything
IsList(s) == \E S : s \in Seq(S)

LEMMA ShortLists ==
  ASSUME NEW x, NEW y, NEW z
  PROVE  /\ IsList(<<>>) /\ IsList(<<x>>) /\ IsList(<<x, y>>) /\ IsList(<<x, y, z>>)
         /\ Len(<<>>) = 0 /\ Len(<<x>>) = 1 /\ Len(<<x, y>>) = 2 /\ Len(<<x, y, z>>) = 3
         /\ <<x>>[1] = x /\ <<x, y>>[1] = x /\ <<x, y>>[2] = y
         /\ <<x, y, z>>[1] = x /\ <<x, y, z>>[2] = y /\ <<x, y, z>>[3] = z
<1>1. PICK S : S = {x, y, z}
  OBVIOUS
<1>2. <<>> \in Seq(S) /\ <<x>> \in Seq(S)
  BY <1>1
<1>3. <<x, y>> \in Seq(S)
  BY <1>1
<1>4. <<x, y, z>> \in Seq(S)
  BY <1>1
<1>5. /\ Len(<<>>) = 0 /\ Len(<<x>>) = 1 /\ Len(<<x, y>>) = 2 /\ Len(<<x, y, z>>) = 3
      /\ <<x>>[1] = x /\ <<x, y>>[1] = x /\ <<x, y>>[2] = y
      /\ <<x, y, z>>[1] = x /\ <<x, y, z>>[2] = y /\ <<x, y, z>>[3] = z
  OBVIOUS
<1> QED BY <1>2, <1>3, <1>4, <1>5 DEF IsList

LEMMA ListLength == ASSUME NEW s, IsList(s) PROVE Len(s) \in Nat /\ (s = <<>> <=> Len(s) = 0)
BY EmptySeq DEF IsList

LEMMA ListTail ==
  ASSUME NEW s, IsList(s), s # <<>>
  PROVE  /\ IsList(Tail(s)) /\ Len(Tail(s)) = Len(s) - 1 /\ Len(s) \in Nat \ {0}
         /\ Head(s) = s[1] /\ \A i \in 1..(Len(s) - 1) : Tail(s)[i] = s[i + 1]
<1>1. PICK S : s \in Seq(S)
  BY DEF IsList
<1>2. Tail(s) \in Seq(S) /\ Len(Tail(s)) = Len(s) - 1
      /\ \A i \in 1..Len(Tail(s)) : Tail(s)[i] = s[i + 1]
  BY <1>1, HeadTailProperties
<1>3. Len(s) \in Nat \ {0}
  BY <1>1, EmptySeq
<1>4. Head(s) = s[1]
  BY <1>1
<1> QED BY <1>2, <1>3, <1>4 DEF IsList

LEMMA ListConcat ==
  ASSUME NEW s, IsList(s), NEW t, IsList(t)
  PROVE  /\ IsList(s \o t) /\ Len(s \o t) = Len(s) + Len(t)
         /\ \A i \in 1..Len(s) : (s \o t)[i] = s[i]
         /\ \A i \in 1..Len(t) : (s \o t)[Len(s) + i] = t[i]
         /\ \A i \in 1..(Len(s) + Len(t)) :
              (s \o t)[i] = IF i <= Len(s) THEN s[i] ELSE t[i - Len(s)]
<1>1. PICK S : s \in Seq(S)
  BY DEF IsList
<1>2. PICK T : t \in Seq(T)
  BY DEF IsList
<1>3. PICK U : U = S \cup T
  OBVIOUS
<1>4. s \in Seq(U) /\ t \in Seq(U)
  BY <1>1, <1>2, <1>3, SeqMonotonic
<1>5. PICK u : u = s \o t
  OBVIOUS
<1>6. /\ u \in Seq(U) /\ Len(u) = Len(s) + Len(t)
      /\ \A i \in 1..(Len(s) + Len(t)) : u[i] = IF i <= Len(s) THEN s[i] ELSE t[i - Len(s)]
  BY <1>4, <1>5, ConcatProperties
<1>7. PICK m \in Nat, n \in Nat : m = Len(s) /\ n = Len(t)
  BY <1>4
<1>8. \A i \in 1..m : u[i] = s[i]
  BY <1>6, <1>7
<1>9. \A i \in 1..n : u[m + i] = t[i]
  <2> TAKE i \in 1..n
  <2>1. m + i \in 1..(m + n) /\ ~(m + i <= m) /\ m + i - m = i
    BY <1>7
  <2> QED BY <1>6, <1>7, <2>1
<1> QED BY <1>5, <1>6, <1>7, <1>8, <1>9 DEF IsList

LEMMA ListAppend ==
  ASSUME NEW s, IsList(s), NEW x
  PROVE  /\ IsList(Append(s, x)) /\ Len(Append(s, x)) = Len(s) + 1
         /\ Append(s, x)[Len(s) + 1] = x /\ \A i \in 1..Len(s) : Append(s, x)[i] = s[i]
<1>1. PICK S : s \in Seq(S)
  BY DEF IsList
<1>2. PICK U : U = S \cup {x}
  OBVIOUS
<1>3. s \in Seq(U) /\ x \in U
  BY <1>1, <1>2, SeqMonotonic
<1> QED BY <1>3, AppendProperties DEF IsList

LEMMA ListsEqual ==
  ASSUME NEW s, IsList(s), NEW t, IsList(t), Len(s) = Len(t), \A i \in 1..Len(s) : s[i] = t[i]
  PROVE  s = t
<1>1. PICK S : s \in Seq(S)
  BY DEF IsList
<1>2. PICK T : t \in Seq(T)
  BY DEF IsList
<1>3. PICK U : U = S \cup T
  OBVIOUS
<1>4. s \in Seq(U) /\ t \in Seq(U)
  BY <1>1, <1>2, <1>3, SeqMonotonic
<1> QED BY <1>4, SeqEqual

-----------------------------------------------------------------------------
(* What a window and its properties say                                    *)

LEMMA OrderedAtoms ==
  /\ Order \in Seq(Atoms) /\ Len(Order) = 36 /\ DOMAIN Order = 1..36
  /\ \A i \in 1..36 : Order[i] \in Atoms
<1>1. Len(Order) = 36 /\ DOMAIN Order = 1..36
  BY DEF Order
<1>2. PICK n \in Nat : n = 36
  OBVIOUS
<1>3. \A i \in 1..n : Order[i] \in Atoms
  BY <1>1, <1>2 DEF Atoms, ToSet
<1>4. Order = [i \in 1..n |-> Order[i]]
  <2>1. Order = [i \in DOMAIN Order |-> Order[i]]
    BY DEF Order
  <2> QED BY <1>1, <1>2, <2>1
<1>5. [i \in 1..n |-> Order[i]] \in Seq(Atoms)
  BY <1>3
<1> QED BY <1>1, <1>2, <1>3, <1>4, <1>5

LEMMA ReadOf ==
  ASSUME NEW f, NEW r
  PROVE  /\ Read("XAWMState", f, r) = MappingState(GetValueReply(r, "WM_STATE", 0))
         /\ Read("WMState", f, r) = ReadAtoms(r, StateFlag)
         /\ Read("WM2AllowedActions", f, r) = ReadAtoms(r, ActionFlag)
         /\ Read("WM2Protocols", f, r) = ReadAtoms(r, Protocols)
         /\ Read("WMDesktop", f, r) = ReadDesktop(r)
         /\ Read("WMWindowType", f, r) = ReadWindowType(r)
         /\ Read("WM2ExtendedStrut", f, r) = ReadTuple(r, 12, NoExtendedStrut)
         /\ Read("WM2FullscreenMonitors", f, r) = ReadTuple(r, 4, NoMonitors)
         /\ Read("WMFrameExtents", f, r)
              = IF GetArrayReply(r, "CARDINAL") = <<>> THEN <<>> ELSE ReadTuple(r, 4, NoStrut)
         /\ Read("_KDE_NET_WM_FRAME_STRUT", f, r)
              = IF f = <<>> THEN ReadTuple(r, 4, NoStrut) ELSE f
         /\ Read("WMIcon", f, r) = ReadIcon(r)
         /\ Read("WM2BlockCompositing", f, r) = (GetValueReply(r, "CARDINAL", 0) # 0)
         /\ Read("WM_BYPASS_COMPOSITOR", f, r) = ReadBypassCompositor(f, r)
         /\ Read("WMPid", f, r) = GetValueReply(r, "CARDINAL", 0)
         /\ Read("WM2TransientFor", f, r) = GetValueReply(r, "WINDOW", 0)
         /\ Read("WM2WindowClass", f, r) = ReadWindowClass(r)
         /\ Read("WM2OpaqueRegion", f, r)
              = [i \in DOMAIN Tuples(GetArrayReply(r, "CARDINAL"), 4) |->
                   Signeds(Tuples(GetArrayReply(r, "CARDINAL"), 4)[i])]
<1>1. /\ Read("XAWMState", f, r) = MappingState(GetValueReply(r, "WM_STATE", 0))
      /\ Read("WMState", f, r) = ReadAtoms(r, StateFlag)
      /\ Read("WM2AllowedActions", f, r) = ReadAtoms(r, ActionFlag)
      /\ Read("WM2Protocols", f, r) = ReadAtoms(r, Protocols)
      /\ Read("WMDesktop", f, r) = ReadDesktop(r)
  BY DEF Read, Texts, Utf8Texts, LatinTexts, NameAtoms, Four
<1>2. /\ Read("WMWindowType", f, r) = ReadWindowType(r)
      /\ Read("WM2ExtendedStrut", f, r) = ReadTuple(r, 12, NoExtendedStrut)
      /\ Read("WM2FullscreenMonitors", f, r) = ReadTuple(r, 4, NoMonitors)
  BY DEF Read, Texts, Utf8Texts, LatinTexts, NameAtoms, Four
<1>7. Read("WMFrameExtents", f, r)
        = IF GetArrayReply(r, "CARDINAL") = <<>> THEN <<>> ELSE ReadTuple(r, 4, NoStrut)
  BY DEF Read, Texts, Utf8Texts, LatinTexts, NameAtoms, Four
<1>8. Read("_KDE_NET_WM_FRAME_STRUT", f, r) = IF f = <<>> THEN ReadTuple(r, 4, NoStrut) ELSE f
  BY DEF Read, Texts, Utf8Texts, LatinTexts, NameAtoms, Four
<1>3. Read("WMIcon", f, r) = ReadIcon(r)
  BY DEF Read, Texts, Utf8Texts, LatinTexts, NameAtoms, Four
<1>4. Read("WM2BlockCompositing", f, r) = (GetValueReply(r, "CARDINAL", 0) # 0)
  BY DEF Read, Texts, Utf8Texts, LatinTexts, NameAtoms, Four
<1>5. /\ Read("WM_BYPASS_COMPOSITOR", f, r) = ReadBypassCompositor(f, r)
      /\ Read("WMPid", f, r) = GetValueReply(r, "CARDINAL", 0)
      /\ Read("WM2TransientFor", f, r) = GetValueReply(r, "WINDOW", 0)
      /\ Read("WM2WindowClass", f, r) = ReadWindowClass(r)
  BY DEF Read, Texts, Utf8Texts, LatinTexts, NameAtoms, Four
<1>6. Read("WM2OpaqueRegion", f, r)
       = [i \in DOMAIN Tuples(GetArrayReply(r, "CARDINAL"), 4) |->
            Signeds(Tuples(GetArrayReply(r, "CARDINAL"), 4)[i])]
  BY DEF Read, Texts, Utf8Texts, LatinTexts, NameAtoms, Four
<1> QED BY <1>1, <1>2, <1>3, <1>4, <1>5, <1>6, <1>7, <1>8

LEMMA ReadGroups ==
  ASSUME NEW f, NEW r, NEW atom
  PROVE  /\ atom \in Texts => Read(atom, f, r) = GetStringReply(r, TextType(atom))
         /\ atom \in Four
              => Read(atom, f, r) = ReadTuple(r, 4, NoStrut)
         /\ atom \in {"WM2Opacity", "WM2UserTime"}
              => Read(atom, f, r) = GetValueReply(r, "CARDINAL", Word - 1)
<1>1. atom \in Texts => Read(atom, f, r) = GetStringReply(r, TextType(atom))
  BY DEF Read, Texts, Utf8Texts, LatinTexts, NameAtoms, Four
<1>2. atom \in Four
        => Read(atom, f, r) = ReadTuple(r, 4, NoStrut)
  BY DEF Read, Texts, Utf8Texts, LatinTexts, NameAtoms, Four
<1>3. atom \in {"WM2Opacity", "WM2UserTime"}
        => Read(atom, f, r) = GetValueReply(r, "CARDINAL", Word - 1)
  BY DEF Read, Texts, Utf8Texts, LatinTexts, NameAtoms, Four
<1> QED BY <1>1, <1>2, <1>3

\* The flags with two properties, and those whose fields follow from the properties.
Paired == {"WMFrameExtents", "WM2BlockCompositing"}
Second(flag) == IF flag = "WMFrameExtents" THEN "_KDE_NET_WM_FRAME_STRUT"
                ELSE "WM_BYPASS_COMPOSITOR"
Known == (Flags \cap ToSet(Order)) \ {"Hints"}

Others == Known \ Paired
Single == {"XAWMState", "WMState", "WMDesktop", "WMWindowType", "WM2ExtendedStrut",
           "WM2FullscreenMonitors", "WMStrut", "WMIconGeometry", "WMIcon", "WM2FrameOverlap",
           "WM2GTKFrameExtents", "WMPid", "WM2Opacity", "WM2UserTime", "WM2AllowedActions",
           "WM2TransientFor", "WM2WindowClass", "WM2Protocols", "WM2OpaqueRegion"} \cup Texts

LEMMA OrderedAre ==
  ASSUME NEW atom \in ToSet(Order)
  PROVE  atom \in Single \cup Paired \cup {"_KDE_NET_WM_FRAME_STRUT", "WM_BYPASS_COMPOSITOR",
                                           "Hints"}
<1>1. PICK i \in 1..36 : atom = Order[i]
  BY OrderedAtoms DEF ToSet
<1>2. PICK n \in 1..36 : n = i
  OBVIOUS
<1> QED BY <1>1, <1>2 DEF Order, Single, Paired, Texts, Utf8Texts, LatinTexts

LEMMA FlagIs ==
  ASSUME NEW atom
  PROVE  /\ atom \notin {"_KDE_NET_WM_FRAME_STRUT", "WM_BYPASS_COMPOSITOR"} => FlagOf(atom) = atom
         /\ FlagOf("_KDE_NET_WM_FRAME_STRUT") = "WMFrameExtents"
         /\ FlagOf("WM_BYPASS_COMPOSITOR") = "WM2BlockCompositing"
         /\ FlagOf(atom) \notin {"_KDE_NET_WM_FRAME_STRUT", "WM_BYPASS_COMPOSITOR"}
<1>1. CASE atom = "_KDE_NET_WM_FRAME_STRUT"
  BY <1>1 DEF FlagOf
<1>2. CASE atom = "WM_BYPASS_COMPOSITOR"
  BY <1>2 DEF FlagOf
<1>3. CASE atom \notin {"_KDE_NET_WM_FRAME_STRUT", "WM_BYPASS_COMPOSITOR"}
  BY <1>3 DEF FlagOf
<1> QED BY <1>1, <1>2, <1>3 DEF FlagOf

LEMMA KnownAre == Known \subseteq Single \cup Paired
<1>1. ASSUME NEW flag \in Known PROVE flag \in Single \cup Paired
  <2>1. PICK atom \in Atoms : flag = FlagOf(atom)
    BY DEF Known, Flags
  <2>2. flag \notin {"_KDE_NET_WM_FRAME_STRUT", "WM_BYPASS_COMPOSITOR"}
    BY <2>1, FlagIs
  <2> QED BY <2>2, OrderedAre DEF Known
<1> QED BY <1>1

\* What a field is read from does not matter for what is read.
LEMMA SingleRead ==
  ASSUME NEW flag \in Single, NEW f, NEW g, NEW r
  PROVE  Read(flag, f, r) = Read(flag, g, r)
<1>1. CASE flag \in Texts
  BY <1>1, ReadGroups
<1>2. CASE flag \in Four \cup {"WM2Opacity", "WM2UserTime"}
  BY <1>2, ReadGroups
<1>3. CASE flag \in {"XAWMState", "WMState", "WMDesktop", "WMWindowType", "WM2ExtendedStrut",
                     "WM2FullscreenMonitors", "WMIcon", "WMPid", "WM2AllowedActions",
                     "WM2TransientFor", "WM2WindowClass", "WM2Protocols", "WM2OpaqueRegion"}
  BY <1>3, ReadOf
<1> QED BY <1>1, <1>2, <1>3 DEF Single, Four

-----------------------------------------------------------------------------
(* What setters write is what update() reads                               *)

LEMMA WordIs == Word \in Nat /\ Word >= 2
BY WordAssumption

LEMMA SignedAgain ==
  ASSUME NEW n \in Ints
  PROVE  Unsigned(n) \in Nat /\ Signed(Unsigned(n)) = n
<1>1. PICK h \in Nat : h = Word \div 2 /\ 2 * h <= Word /\ Word <= 2 * h + 1
  BY WordIs
<1>2. n \in Int /\ -h <= n /\ n < h
  BY <1>1 DEF Ints
<1>3. CASE n >= 0
  <2>1. n % Word = n
    BY <1>1, <1>2, <1>3, WordIs
  <2> QED BY <1>1, <1>2, <1>3, <2>1 DEF Signed, Unsigned
<1>4. CASE n < 0
  <2>1. n % Word = n + Word
    BY <1>1, <1>2, <1>4, WordIs
  <2> QED BY <1>1, <1>2, <1>4, <2>1, WordIs DEF Signed, Unsigned
<1> QED BY <1>2, <1>3, <1>4

LEMMA SignedsAgain ==
  ASSUME NEW n \in Nat, NEW v \in [1..n -> Ints]
  PROVE  /\ Unsigneds(v) \in Seq(Nat) /\ Len(Unsigneds(v)) = n
         /\ Signeds(Unsigneds(v)) = v
<1>1. PICK u : u = Unsigneds(v) /\ u = [i \in 1..n |-> Unsigned(v[i])]
  BY DEF Unsigneds
<1>2. u \in [1..n -> Nat]
  BY <1>1, SignedAgain
<1>3. u \in Seq(Nat) /\ Len(u) = n /\ DOMAIN u = 1..n
  BY <1>2
<1>4. Signeds(u) = [i \in 1..n |-> v[i]]
  <2>1. Signeds(u) = [i \in 1..n |-> Signed(u[i])]
    BY <1>3 DEF Signeds
  <2>2. \A i \in 1..n : Signed(u[i]) = v[i]
    BY <1>1, SignedAgain
  <2> QED BY <2>1, <2>2
<1> QED BY <1>1, <1>3, <1>4

ReadAll(flag, f, p, q) ==
  IF flag \in Paired THEN Read(Second(flag), Read(flag, f, p), q) ELSE Read(flag, f, p)

\* A field that is read from p, or from two such properties, says value.
Says(flag, p, value) == \A f : Shown(flag, ReadAll(flag, f, p, p)) = value

LEMMA ShownIs ==
  ASSUME NEW flag, NEW value
  PROVE  /\ flag \notin {"WMIcon", "WMWindowType"} => Shown(flag, value) = value
         /\ Shown("WMIcon", value) = SubSeq(value.icons, 1, value.count)
         /\ Shown("WMWindowType", value) = WindowType(value, DOMAIN TypeNames)
BY DEF Shown

LEMMA SaysSingle ==
  ASSUME NEW flag \in Single, flag \notin {"WMIcon", "WMWindowType"}, NEW p, NEW value,
         \A f : Read(flag, f, p) = value
  PROVE  Says(flag, p, value)
<1>1. flag \notin Paired
  BY DEF Single, Paired, Texts, Utf8Texts, LatinTexts
<1> QED BY <1>1, ShownIs DEF Says, ReadAll

LEMMA PropertyHas ==
  ASSUME NEW type, NEW data
  PROVE  /\ Property(type, data).type = type /\ Property(type, data).data = data
         /\ NoProperty.type = "NONE" /\ NoProperty.data = <<>>
         /\ type # "NONE" => Property(type, data) # NoProperty
BY DEF Property, NoProperty

LEMMA TextSays ==
  ASSUME NEW flag \in Texts, NEW text \in Seq(Nat \ {0})
  PROVE  /\ Says(flag, Property(TextType(flag), text), text)
         /\ Says(flag, NoProperty, NoText)
<1>1. TextType(flag) # "NONE"
  BY DEF TextType
<1>2. GetStringReply(Property(TextType(flag), text), TextType(flag)) = text
  <2>1. text # <<>> => Last(text) # 0
    <3>1. text # <<>> => Len(text) \in 1..Len(text)
      BY EmptySeq
    <3>2. \A i \in 1..Len(text) : text[i] # 0
      BY ElementOfSeq
    <3> QED BY <3>1, <3>2 DEF Last
  <2>2. GetArrayReply(Property(TextType(flag), text), TextType(flag)) = text
    BY PropertyHas DEF GetArrayReply
  <2> QED BY <2>1, <2>2 DEF GetStringReply
<1>3. GetStringReply(NoProperty, TextType(flag)) = NoText
  BY <1>1, PropertyHas DEF GetStringReply, GetArrayReply, NoText
<1>4. flag \in Single /\ flag \notin {"WMIcon", "WMWindowType"}
  BY DEF Single, Texts, Utf8Texts, LatinTexts
<1> QED BY <1>2, <1>3, <1>4, ReadGroups, SaysSingle

LEMMA TupleRead ==
  ASSUME NEW n \in Nat, NEW v \in [1..n -> Ints], NEW default
  PROVE  ReadTuple(Property("CARDINAL", Unsigneds(v)), n, default) = v
<1>1. GetArrayReply(Property("CARDINAL", Unsigneds(v)), "CARDINAL") = Unsigneds(v)
  BY PropertyHas DEF GetArrayReply
<1> QED BY <1>1, SignedsAgain DEF ReadTuple

LEMMA FourSays ==
  ASSUME NEW flag \in Four \cup {"WM2FullscreenMonitors", "WMFrameExtents"},
         NEW v \in [1..4 -> Ints]
  PROVE  Says(flag, Property("CARDINAL", Unsigneds(v)), v)
<1>1. PICK p : p = Property("CARDINAL", Unsigneds(v))
  OBVIOUS
<1>2. \A default : ReadTuple(p, 4, default) = v
  BY <1>1, TupleRead
<1>3. CASE flag \in Four
  BY <1>1, <1>2, <1>3, ReadGroups, SaysSingle DEF Four, Single
<1>4. CASE flag = "WM2FullscreenMonitors"
  BY <1>1, <1>2, <1>4, ReadOf, SaysSingle DEF Single
<1>5. CASE flag = "WMFrameExtents"
  <2>1. GetArrayReply(p, "CARDINAL") # <<>> /\ v # <<>>
    <3>1. GetArrayReply(p, "CARDINAL") = Unsigneds(v)
      BY <1>1, PropertyHas DEF GetArrayReply
    <3>2. Len(Unsigneds(v)) = 4
      <4>1. 4 \in Nat
        OBVIOUS
      <4> QED BY <4>1, SignedsAgain
    <3>3. 1 \in DOMAIN v /\ DOMAIN <<>> = {} /\ Len(<<>>) = 0
      OBVIOUS
    <3>4. Unsigneds(v) # <<>>
      BY <3>2, <3>3
    <3>5. v # <<>>
      BY <3>3
    <3> QED BY <3>1, <3>4, <3>5
  <2>2. \A f : Read("WMFrameExtents", f, p) = v
    BY <1>2, <2>1, ReadOf
  <2>3. Read("_KDE_NET_WM_FRAME_STRUT", v, p) = v
    BY <2>1, ReadOf
  <2>4. \A f : ReadAll("WMFrameExtents", f, p, p) = v
    BY <2>2, <2>3 DEF ReadAll, Paired, Second
  <2> QED BY <1>1, <1>5, <2>4, ShownIs DEF Says
<1> QED BY <1>3, <1>4, <1>5

LEMMA ExtendedStrutSays ==
  ASSUME NEW v \in [1..12 -> Ints]
  PROVE  Says("WM2ExtendedStrut", Property("CARDINAL", Unsigneds(v)), v)
<1>1. PICK p : p = Property("CARDINAL", Unsigneds(v))
  OBVIOUS
<1>2. ReadTuple(p, 12, NoExtendedStrut) = v
  <2>1. 12 \in Nat
    OBVIOUS
  <2> QED BY <1>1, <2>1, TupleRead
<1> QED BY <1>1, <1>2, ReadOf, SaysSingle DEF Single

LEMMA RectSays == Says("WMIconGeometry", NoProperty, NoStrut)
<1>1. ReadTuple(NoProperty, 4, NoStrut) = NoStrut
  <2>1. GetArrayReply(NoProperty, "CARDINAL") = <<>> /\ Len(<<>>) # 4
    BY PropertyHas DEF GetArrayReply
  <2> QED BY <2>1 DEF ReadTuple
<1> QED BY <1>1, ReadGroups, SaysSingle DEF Single, Four

LEMMA NumberSays ==
  ASSUME NEW flag \in {"WMPid", "WM2Opacity", "WM2UserTime"}, NEW n
  PROVE  Says(flag, Property("CARDINAL", <<n>>), n)
<1>1. \A default : GetValueReply(Property("CARDINAL", <<n>>), "CARDINAL", default) = n
  <2>1. Len(<<n>>) = 1 /\ <<n>>[1] = n
    OBVIOUS
  <2> QED BY <2>1, PropertyHas DEF GetValueReply
<1> QED BY <1>1, ReadOf, ReadGroups, SaysSingle DEF Single

LEMMA ValueOfOne ==
  ASSUME NEW type, NEW n, NEW default
  PROVE  GetValueReply(Property(type, <<n>>), type, default) = n
<1>1. Len(<<n>>) = 1 /\ <<n>>[1] = n
  OBVIOUS
<1> QED BY <1>1, PropertyHas DEF GetValueReply

LEMMA ValueOfNone ==
  ASSUME NEW type, type # "NONE", NEW default
  PROVE  GetValueReply(NoProperty, type, default) = default
BY PropertyHas DEF GetValueReply

\* A desktop as a number in a property or in a message
LEMMA DesktopAgain ==
  ASSUME NEW d \in -1..(Word - 1), d # 0
  PROVE  /\ DesktopData(d) \in 0..(Word - 1)
         /\ d = IF DesktopData(d) = Word - 1 THEN OnAllDesktops ELSE DesktopData(d) + 1
<1>1. CASE d = -1
  BY <1>1, WordIs DEF DesktopData, OnAllDesktops
<1>2. CASE d # -1
  <2>1. d - 1 \in 0..(Word - 2)
    BY <1>2, WordIs
  <2>2. (d - 1) % Word = d - 1
    BY <2>1, WordIs
  <2>3. DesktopData(d) = d - 1
    BY <1>2, <2>2 DEF DesktopData, OnAllDesktops, Unsigned
  <2> QED BY <2>1, <2>3, WordIs
<1> QED BY <1>1, <1>2

LEMMA DesktopSays ==
  /\ \A d \in -1..(Word - 1) :
       d # 0 => Says("WMDesktop", Property("CARDINAL", <<DesktopData(d)>>), d)
  /\ Says("WMDesktop", NoProperty, 0)
<1>1. ASSUME NEW d \in -1..(Word - 1), d # 0
      PROVE  Says("WMDesktop", Property("CARDINAL", <<DesktopData(d)>>), d)
  <2>1. PICK p : p = Property("CARDINAL", <<DesktopData(d)>>)
    OBVIOUS
  <2>2. GetValueReply(p, "CARDINAL", 0) = DesktopData(d) /\ p # NoProperty
    BY <2>1, ValueOfOne, PropertyHas
  <2>3. ReadDesktop(p) = d
    BY <1>1, <2>2, DesktopAgain DEF ReadDesktop
  <2> QED BY <2>1, <2>3, ReadOf, SaysSingle DEF Single
<1>2. ReadDesktop(NoProperty) = 0
  BY ValueOfNone, WordIs DEF ReadDesktop
<1>3. Says("WMDesktop", NoProperty, 0)
  BY <1>2, ReadOf, SaysSingle DEF Single
<1> QED BY <1>1, <1>3

\* Tables of atoms and the tables for reading them are inverse to each other.
InverseTables(atoms, table) ==
  \A x \in DOMAIN atoms : /\ \E atom \in atoms[x] : TRUE
                          /\ \A atom \in atoms[x] : atom \in DOMAIN table /\ table[atom] = x

LEMMA StatesInverse == InverseTables(StateAtoms, StateFlag)
BY DEF InverseTables, StateAtoms, StateFlag

LEMMA ActionsInverse == InverseTables(ActionAtoms, ActionFlag)
BY DEF InverseTables, ActionAtoms, ActionFlag

LEMMA AtomsAgain ==
  ASSUME NEW atoms, NEW table, InverseTables(atoms, table), NEW S, S \subseteq DOMAIN atoms
  PROVE  ReadAtoms(Property("ATOM", AtomsOf(atoms, S)), table) = S
<1>1. PICK A : A = AtomsOf(atoms, S)
  OBVIOUS
<1>2. ReadAtoms(Property("ATOM", A), table) = {table[atom] : atom \in A \cap DOMAIN table}
  BY PropertyHas DEF ReadAtoms
<1>3. ASSUME NEW x \in S PROVE x \in {table[atom] : atom \in A \cap DOMAIN table}
  <2>1. PICK atom \in atoms[x] : atom \in DOMAIN table /\ table[atom] = x
    BY DEF InverseTables
  <2>2. atom \in A
    BY <1>1, <2>1 DEF AtomsOf
  <2> QED BY <2>1, <2>2
<1>4. ASSUME NEW atom \in A \cap DOMAIN table PROVE table[atom] \in S
  <2>1. PICK x \in S : x \in DOMAIN atoms /\ atom \in atoms[x]
    BY <1>1 DEF AtomsOf
  <2>2. table[atom] = x
    BY <2>1 DEF InverseTables
  <2> QED BY <2>1, <2>2
<1> QED BY <1>1, <1>2, <1>3, <1>4

LEMMA StateSays ==
  /\ \A S \in SUBSET DOMAIN StateAtoms :
       Says("WMState", Property("ATOM", AtomsOf(StateAtoms, S)), S)
  /\ Says("WMState", NoProperty, {})
<1>1. ReadAtoms(NoProperty, StateFlag) = {}
  BY PropertyHas DEF ReadAtoms
<1>2. \A f : Read("WMState", f, NoProperty) = {}
  BY <1>1, ReadOf
<1>3. ASSUME NEW S \in SUBSET DOMAIN StateAtoms
      PROVE  Says("WMState", Property("ATOM", AtomsOf(StateAtoms, S)), S)
  <2>1. PICK p : p = Property("ATOM", AtomsOf(StateAtoms, S))
    OBVIOUS
  <2>2. \A f : Read("WMState", f, p) = S
    BY <2>1, AtomsAgain, StatesInverse, ReadOf
  <2> QED BY <2>1, <2>2, SaysSingle DEF Single
<1>4. Says("WMState", NoProperty, {})
  BY <1>2, SaysSingle DEF Single
<1> QED BY <1>3, <1>4

LEMMA StatesRead ==
  ASSUME NEW f, NEW r
  PROVE  Read("WMState", f, r) \subseteq DOMAIN StateAtoms
<1>1. \A atom \in DOMAIN StateFlag : StateFlag[atom] \in DOMAIN StateAtoms
  BY DEF StateFlag, StateAtoms
<1> QED BY <1>1, ReadOf DEF ReadAtoms

LEMMA ActionSays ==
  ASSUME NEW S, S \subseteq DOMAIN ActionAtoms
  PROVE  Says("WM2AllowedActions", Property("ATOM", AtomsOf(ActionAtoms, S)), S)
BY AtomsAgain, ActionsInverse, ReadOf, SaysSingle DEF Single

LEMMA MappingSays ==
  /\ \A n : Says("XAWMState", Property("WM_STATE", <<n>>), MappingState(n))
  /\ Says("XAWMState", NoProperty, "Withdrawn")
<1>1. MappingState(0) = "Withdrawn"
  BY DEF MappingState
<1> QED BY <1>1, ValueOfOne, ValueOfNone, ReadOf, SaysSingle DEF Single

LEMMA BlockingSays ==
  ASSUME NEW on \in BOOLEAN, NEW p,
         p = IF on THEN Property("CARDINAL", << 1 >>) ELSE NoProperty
  PROVE  Says("WM2BlockCompositing", p, on)
<1>1. PICK n \in {0, 1} : n = GetValueReply(p, "CARDINAL", 0) /\ (n = 1 <=> on)
  BY ValueOfOne, ValueOfNone
<1>2. \A f : Read("WM2BlockCompositing", f, p) = on
  BY <1>1, ReadOf
<1>3. Read("WM_BYPASS_COMPOSITOR", on, p) = on
  <2>1. Read("WM_BYPASS_COMPOSITOR", on, p) = ReadBypassCompositor(on, p)
    BY ReadOf
  <2>2. CASE n = 1
    <3>1. on = TRUE
      BY <1>1, <2>2
    <3>2. GetValueReply(p, "CARDINAL", 0) = 1
      BY <1>1, <2>2
    <3>3. ReadBypassCompositor(on, p) = TRUE
      BY <3>2 DEF ReadBypassCompositor
    <3> QED BY <2>1, <3>1, <3>3
  <2>3. CASE n = 0
    <3>1. GetValueReply(p, "CARDINAL", 0) = 0
      BY <1>1, <2>3
    <3>2. on = FALSE
      BY <1>1, <2>3
    <3>3. ReadBypassCompositor(FALSE, p) = FALSE
      BY <3>1 DEF ReadBypassCompositor
    <3> QED BY <2>1, <3>2, <3>3
  <2> QED BY <2>2, <2>3
<1>4. \A f : ReadAll("WM2BlockCompositing", f, p, p) = on
  BY <1>2, <1>3 DEF ReadAll, Paired, Second
<1> QED BY <1>4, ShownIs DEF Says

LEMMA ApplicationSays ==
  ASSUME NEW flag \in WithoutSetter \cap Single, NEW p, NEW f
  PROVE  Says(flag, p, Read(flag, f, p))
<1>1. flag \notin {"WMIcon", "WMWindowType"}
  BY DEF WithoutSetter
<1> QED BY <1>1, SingleRead, SaysSingle

LEMMA TypeNamesAre ==
  ASSUME NEW type \in DOMAIN TypeNames
  PROVE  /\ IsList(TypeNames[type]) /\ Len(TypeNames[type]) > 0
         /\ TypeNames[type][1] \in DOMAIN TypeOfAtom
         /\ TypeOfAtom[TypeNames[type][1]] = type
<1>1. IsList(TypeNames[type]) /\ Len(TypeNames[type]) > 0
  <2>1. PICK names : names = TypeNames[type]
    OBVIOUS
  <2>2. names = <<names[1]>> \/ names = <<names[1], names[2]>>
    BY <2>1 DEF TypeNames
  <2>3. PICK x, y : x = names[1] /\ y = names[2]
    OBVIOUS
  <2>4. names = <<x>> \/ names = <<x, y>>
    BY <2>2, <2>3
  <2>5. IsList(<<x>>) /\ IsList(<<x, y>>) /\ Len(<<x>>) = 1 /\ Len(<<x, y>>) = 2
    BY ShortLists
  <2> QED BY <2>1, <2>4, <2>5
<1>2. TypeNames[type][1] \in DOMAIN TypeOfAtom
  BY DEF TypeNames, TypeOfAtom
<1>3. PICK atom : atom = TypeNames[type][1]
  OBVIOUS
<1>4. TypeOfAtom[atom] = type
  BY <1>3 DEF TypeNames, TypeOfAtom
<1> QED BY <1>1, <1>2, <1>3, <1>4

LEMMA FirstType ==
  ASSUME NEW s, NEW S, Len(s) \in Nat, Len(s) > 0, s[1] \in S \cap DOMAIN TypeNames
  PROVE  WindowType(s, S) = s[1]
<1>1. PICK I : I = {i \in 1..Len(s) : s[i] \in S \cap DOMAIN TypeNames}
  OBVIOUS
<1>2. 1 \in I /\ \A i \in I : i \in Nat /\ 1 <= i
  BY <1>1
<1>3. Min(I) = 1
  BY <1>2 DEF Min
<1>4. SelectInSeq(s, LAMBDA type : type \in S \cap DOMAIN TypeNames)
        = IF I # {} THEN Min(I) ELSE 0
  BY <1>1 DEF SelectInSeq
<1>5. SelectInSeq(s, LAMBDA type : type \in S \cap DOMAIN TypeNames) = 1
  BY <1>2, <1>3, <1>4
<1> QED BY <1>2, <1>3, <1>1 DEF WindowType, SelectInSeq

LEMMA WindowTypeSays ==
  ASSUME NEW type \in DOMAIN TypeNames
  PROVE  Says("WMWindowType", Property("ATOM", TypeNames[type]), type)
<1>1. PICK p : p = Property("ATOM", TypeNames[type])
  OBVIOUS
<1>2. PICK names : names = TypeNames[type]
  OBVIOUS
<1>a. PICK S : names \in Seq(S)
  BY <1>2, TypeNamesAre DEF IsList
<1>3. Len(names) > 0 /\ names[1] \in DOMAIN TypeOfAtom /\ TypeOfAtom[names[1]] = type
  BY <1>2, TypeNamesAre
<1>4. PICK known : known = Those(names, DOMAIN TypeOfAtom)
  OBVIOUS
<1>5. known \in Seq(S \cap DOMAIN TypeOfAtom) /\ Len(known) > 0 /\ known[1] = names[1]
  BY <1>a, <1>3, <1>4, ThoseInOrder DEF InOrder
<1>6. PICK types : types = [i \in DOMAIN known |-> TypeOfAtom[known[i]]]
  OBVIOUS
<1>7. ReadWindowType(p) = types
  <2>1. GetArrayReply(p, "ATOM") = names
    BY <1>1, <1>2, PropertyHas DEF GetArrayReply
  <2>2. known # <<>>
    BY <1>5
  <2> QED BY <1>4, <1>6, <2>1, <2>2 DEF ReadWindowType
<1>8. Len(types) \in Nat /\ Len(types) > 0 /\ types[1] = type
  BY <1>3, <1>5, <1>6
<1>9. WindowType(types, DOMAIN TypeNames) = type
  BY <1>8, FirstType
<1>10. \A f : ReadAll("WMWindowType", f, p, p) = types
  BY <1>7, ReadOf DEF ReadAll, Paired
<1> QED BY <1>1, <1>9, <1>10, ShownIs DEF Says

-----------------------------------------------------------------------------
(* Icons                                                                   *)

Icons == {x \in [width : 1..MaxIconSize, height : 1..MaxIconSize, data : Seq(Nat)] :
            Len(x.data) = x.width * x.height}
Part(x) == <<x.width, x.height>> \o x.data
Data(s) == FlattenSeq([k \in 1..Len(s) |-> Part(s[k])])

LEMMA PartIs ==
  ASSUME NEW x \in Icons
  PROVE  /\ Part(x) \in Seq(Nat) /\ Len(Part(x)) = 2 + Len(x.data) /\ Len(x.data) \in Nat
         /\ Part(x)[1] = x.width /\ Part(x)[2] = x.height
         /\ \A m \in 1..Len(x.data) : Part(x)[2 + m] = x.data[m]
<1>1. /\ x.width \in Nat /\ x.height \in Nat /\ x.data \in Seq(Nat)
  BY DEF Icons
<1>2. PICK t \in Seq(Nat) : /\ t = <<x.width, x.height>>
                            /\ Len(t) = 2 /\ t[1] = x.width /\ t[2] = x.height
  <2>1. PICK w \in Nat, h \in Nat : w = x.width /\ h = x.height
    BY <1>1
  <2>2. <<w, h>> \in Seq(Nat) /\ Len(<<w, h>>) = 2 /\ <<w, h>>[1] = w /\ <<w, h>>[2] = h
    OBVIOUS
  <2> QED BY <2>1, <2>2
<1>3. PICK u \in Seq(Nat), n \in Nat : u = x.data /\ n = Len(u)
  BY <1>1
<1>4. /\ t \o u \in Seq(Nat) /\ Len(t \o u) = 2 + n
      /\ \A i \in 1..(2 + n) : (t \o u)[i] = IF i <= 2 THEN t[i] ELSE u[i - 2]
  BY <1>2, <1>3, ConcatProperties
<1>5. Part(x) = t \o u
  BY <1>2, <1>3 DEF Part
<1>6. \A m \in 1..n : (t \o u)[2 + m] = u[m]
  <2> TAKE m \in 1..n
  <2>1. 2 + m \in 1..(2 + n) /\ ~(2 + m <= 2) /\ 2 + m - 2 = m
    OBVIOUS
  <2> QED BY <1>4, <2>1
<1>7. (t \o u)[1] = t[1] /\ (t \o u)[2] = t[2]
  BY <1>3, <1>4
<1> QED BY <1>2, <1>3, <1>4, <1>5, <1>6, <1>7

LEMMA DataAppend ==
  ASSUME NEW s \in Seq(Icons), NEW x \in Icons
  PROVE  Data(s) \in Seq(Nat) /\ Data(Append(s, x)) = Data(s) \o Part(x)
<1>1. PICK n \in Nat : n = Len(s)
  OBVIOUS
<1>2. PICK p \in Seq(Seq(Nat)) : p = [k \in 1..n |-> Part(s[k])]
  <2>1. \A k \in 1..n : Part(s[k]) \in Seq(Nat)
    <3> TAKE k \in 1..n
    <3>1. s[k] \in Icons
      BY <1>1, ElementOfSeq
    <3>2. PICK y \in Icons : y = s[k]
      BY <3>1
    <3> QED BY <3>2, PartIs
  <2>2. PICK p : p = [k \in 1..n |-> Part(s[k])]
    OBVIOUS
  <2>3. p \in [1..n -> Seq(Nat)]
    BY <2>1, <2>2
  <2>4. p \in Seq(Seq(Nat))
    BY <2>3, SeqDef
  <2> QED BY <2>2, <2>4
<1>3. PICK t \in Seq(Icons) : t = Append(s, x)
  BY AppendProperties
<1>4. Len(t) = n + 1 /\ t[n + 1] = x /\ \A k \in 1..n : t[k] = s[k]
  BY <1>1, <1>3, AppendProperties
<1>5. PICK y \in Seq(Nat) : y = Part(x)
  BY PartIs
<1>6. Append(p, y) = [k \in 1..(n + 1) |-> Part(t[k])]
  <2>1. Len(p) = n /\ \A k \in 1..n : p[k] = Part(s[k])
    BY <1>2
  <2>2. PICK q \in Seq(Seq(Nat)) : q = Append(p, y)
    BY AppendProperties
  <2>3. Len(q) = n + 1 /\ q[n + 1] = y /\ \A k \in 1..n : q[k] = p[k]
    BY <2>1, <2>2, AppendProperties
  <2>4. \A k \in 1..(n + 1) : q[k] = Part(t[k])
    <3> TAKE k \in 1..(n + 1)
    <3>1. CASE k = n + 1
      BY <1>4, <1>5, <2>3, <3>1
    <3>2. CASE k \in 1..n
      BY <1>4, <2>1, <2>3, <3>2
    <3> QED BY <3>1, <3>2
  <2>5. q = [k \in 1..(n + 1) |-> q[k]]
    BY <2>3
  <2>6. [k \in 1..(n + 1) |-> q[k]] = [k \in 1..(n + 1) |-> Part(t[k])]
    BY <2>4
  <2> QED BY <2>2, <2>5, <2>6
<1>7. Data(s) = FlattenSeq(p) /\ Data(t) = FlattenSeq(Append(p, y))
  BY <1>1, <1>2, <1>4, <1>6 DEF Data
<1>8. FlattenSeq(p) \in Seq(Nat)
  BY FlattenIsSeq
<1> QED BY <1>3, <1>5, <1>7, <1>8, FlattenAppend

LEMMA DataNone == Data(<<>>) = <<>>
<1>1. Len(<<>>) = 0 /\ 1..0 = {}
  OBVIOUS
<1>2. [k \in 1..0 |-> Part(<<>>[k])] = <<>>
  BY <1>1
<1> QED BY <1>1, <1>2, FlattenNone DEF Data

\* Where the icons of the list s are in the data d: number k starts at pos[k].
Positions(s, d, pos) ==
  /\ pos \in [1..(Len(s) + 1) -> Nat \ {0}]
  /\ pos[1] = 1 /\ pos[Len(s) + 1] = Len(d) + 1
  /\ \A k \in 1..Len(s) :
       /\ pos[k + 1] = pos[k] + 2 + Len(s[k].data)
       /\ d[pos[k]] = s[k].width /\ d[pos[k] + 1] = s[k].height
       /\ \A m \in 1..Len(s[k].data) : d[pos[k] + 1 + m] = s[k].data[m]
       /\ pos[k + 1] <= Len(d) + 1

\* readIcon() is a recursive function that goes forward in the data.
Jumps(N, ok, next, part, g) ==
  g = [j \in 1..(N + 1) |-> IF ok[j] THEN part[j] \o g[next[j]] ELSE <<>>]

LEMMA JumpRuns ==
  ASSUME NEW N \in Nat, NEW ok, NEW next, NEW part,
         \A j \in 1..(N + 1) : ok[j] => next[j] \in (j + 1)..(N + 1)
  PROVE  \E g : Jumps(N, ok, next, part, g)
<1> DEFINE Do(g, j) == part[j] \o g
           Runs(k) == \E g : \A j \in (N + 2 - k)..(N + 1) :
                               g[j] = IF ok[j] THEN Do(g[next[j]], j) ELSE <<>>
           S == {k \in Nat : k <= N + 1 => Runs(k)}
<1>1. 0 \in S
  <2>1. (N + 2 - 0)..(N + 1) = {}
    OBVIOUS
  <2> HIDE DEF Do
  <2> QED BY <2>1
<1>2. ASSUME NEW k \in Nat, k \in S PROVE k + 1 \in S
  <2> SUFFICES ASSUME k + 1 <= N + 1 PROVE Runs(k + 1)
    <3> HIDE DEF Runs
    <3> QED OBVIOUS
  <2> HIDE DEF Do
  <2>1. PICK g : \A j \in (N + 2 - k)..(N + 1) :
                    g[j] = IF ok[j] THEN Do(g[next[j]], j) ELSE <<>>
    BY <1>2
  <2> DEFINE m == N + 1 - k
             Step == IF ok[m] THEN Do(g[next[m]], m) ELSE <<>>
             h == [j \in 1..(N + 1) |-> IF j = m THEN Step ELSE g[j]]
  <2>2. m \in 1..(N + 1) /\ N + 2 - (k + 1) = m /\ N + 2 - k = m + 1
    OBVIOUS
  <2>3. h[m] = Step /\ \A j \in (m + 1)..(N + 1) : h[j] = g[j]
    BY <2>2
  <2> HIDE DEF h
  <2>4. \A j \in m..(N + 1) : h[j] = IF ok[j] THEN Do(h[next[j]], j) ELSE <<>>
    <3> TAKE j \in m..(N + 1)
    <3>1. ok[j] => next[j] \in (m + 1)..(N + 1)
      BY <2>2
    <3>2. ok[j] => h[next[j]] = g[next[j]]
      BY <2>3, <3>1
    <3>3. CASE j = m
      BY <2>3, <3>2, <3>3
    <3>4. CASE j # m
      <4>1. j \in (m + 1)..(N + 1) /\ j \in (N + 2 - k)..(N + 1)
        BY <2>2, <3>4
      <4>2. g[j] = IF ok[j] THEN Do(g[next[j]], j) ELSE <<>>
        BY <2>1, <4>1
      <4>3. h[j] = g[j]
        BY <2>3, <4>1
      <4> QED BY <3>2, <4>2, <4>3
    <3> QED BY <3>3, <3>4
  <2> QED BY <2>2, <2>4
<1>3. Nat \subseteq S
  <2> HIDE DEF S
  <2> QED BY <1>1, <1>2, NatSetInduction
<1>4. Runs(N + 1)
  BY <1>3
<1> HIDE DEF Do
<1>5. PICK g : \A j \in 1..(N + 1) : g[j] = IF ok[j] THEN Do(g[next[j]], j) ELSE <<>>
  <2>1. N + 2 - (N + 1) = 1
    OBVIOUS
  <2> QED BY <1>4, <2>1
<1> DEFINE h == [j \in 1..(N + 1) |-> g[j]]
<1>6. \A j \in 1..(N + 1) : h[j] = g[j]
  OBVIOUS
<1>7. h = [j \in 1..(N + 1) |-> h[j]]
  OBVIOUS
<1> HIDE DEF h
<1>8. \A j \in 1..(N + 1) : h[j] = IF ok[j] THEN Do(h[next[j]], j) ELSE <<>>
  <2> TAKE j \in 1..(N + 1)
  <2>1. ok[j] => next[j] \in 1..(N + 1)
    OBVIOUS
  <2> QED BY <1>5, <1>6, <2>1
<1>9. h = [j \in 1..(N + 1) |-> IF ok[j] THEN Do(h[next[j]], j) ELSE <<>>]
  BY <1>7, <1>8
<1> QED BY <1>9 DEF Do, Jumps

\* Whether an icon is at j in data of length N, and where it ends
EndsAt(d, j) == j + 1 + d[j] * d[j + 1]
IsAt(d, N, j) == /\ j + 2 <= N
                 /\ d[j] \in 1..MaxIconSize /\ d[j + 1] \in 1..MaxIconSize
                 /\ EndsAt(d, j) <= N
IconAt(d, j) == [width |-> d[j], height |-> d[j + 1], data |-> SubSeq(d, j + 2, EndsAt(d, j))]
IconSteps(d, N, g) ==
  \A j \in 1..(N + 1) :
    g[j] = IF IsAt(d, N, j) THEN <<IconAt(d, j)>> \o g[EndsAt(d, j) + 1] ELSE <<>>

LEMMA IconSteps_exist ==
  ASSUME NEW d \in Seq(Nat), NEW N \in Nat, N = Len(d)
  PROVE  \E g : g = [j \in 1..(N + 1) |->
                       IF IsAt(d, N, j) THEN <<IconAt(d, j)>> \o g[EndsAt(d, j) + 1] ELSE <<>>]
<1> DEFINE ok == [j \in 1..(N + 1) |-> IsAt(d, N, j)]
           next == [j \in 1..(N + 1) |-> EndsAt(d, j) + 1]
           part == [j \in 1..(N + 1) |-> <<IconAt(d, j)>>]
<1>1. ASSUME NEW j \in 1..(N + 1), IsAt(d, N, j)
      PROVE  EndsAt(d, j) + 1 \in (j + 1)..(N + 1)
  <2>1. PICK w, h : w = d[j] /\ h = d[j + 1]
    OBVIOUS
  <2>2. w \in 1..MaxIconSize /\ h \in 1..MaxIconSize /\ EndsAt(d, j) <= N
    BY <1>1, <2>1 DEF IsAt
  <2>3. w \in Nat /\ h \in Nat
    BY <2>2 DEF MaxIconSize
  <2>4. PICK e \in Nat : e = w * h
    BY <2>3
  <2>5. EndsAt(d, j) = j + 1 + e
    BY <2>1, <2>4 DEF EndsAt
  <2> QED BY <2>2, <2>4, <2>5
<1>2. \A j \in 1..(N + 1) : ok[j] => next[j] \in (j + 1)..(N + 1)
  BY <1>1
<1>3. \A j \in 1..(N + 1) :
        /\ ok[j] = IsAt(d, N, j) /\ next[j] = EndsAt(d, j) + 1 /\ part[j] = <<IconAt(d, j)>>
  OBVIOUS
<1> HIDE DEF ok, next, part
<1>4. PICK g : Jumps(N, ok, next, part, g)
  BY <1>2, JumpRuns
<1>5. \A j \in 1..(N + 1) : (IF ok[j] THEN part[j] \o g[next[j]] ELSE <<>>)
         = IF IsAt(d, N, j) THEN <<IconAt(d, j)>> \o g[EndsAt(d, j) + 1] ELSE <<>>
  BY <1>3
<1>6. [j \in 1..(N + 1) |-> IF ok[j] THEN part[j] \o g[next[j]] ELSE <<>>]
       = [j \in 1..(N + 1) |->
            IF IsAt(d, N, j) THEN <<IconAt(d, j)>> \o g[EndsAt(d, j) + 1] ELSE <<>>]
  BY <1>5
<1> QED BY <1>4, <1>6 DEF Jumps

LEMMA SizeIs == ASSUME NEW n \in 1..MaxIconSize PROVE n \in Nat \ {0}
<1>1. n \in 1..8192
  BY DEF MaxIconSize
<1> QED BY <1>1

LEMMA ReadIconIs ==
  ASSUME NEW d \in Seq(Nat), NEW N \in Nat, N = Len(d),
         NEW p, GetArrayReply(p, "CARDINAL") = d
  PROVE  \E g : /\ IconSteps(d, N, g)
                /\ ReadIcon(p) = [icons |-> g[1], count |-> Len(g[1])]
<1> DEFINE B(g, j) ==
             IF j + 2 > Len(d) THEN <<>>
             ELSE IF \/ d[j] \notin 1..MaxIconSize \/ d[j + 1] \notin 1..MaxIconSize
                     \/ j + 1 + d[j] * d[j + 1] > Len(d)
                    THEN <<>>
                    ELSE <<[width |-> d[j], height |-> d[j + 1],
                            data |-> SubSeq(d, j + 2, j + 1 + d[j] * d[j + 1])]>>
                           \o g[j + 1 + d[j] * d[j + 1] + 1]
           C(g, j) == IF IsAt(d, N, j) THEN <<IconAt(d, j)>> \o g[EndsAt(d, j) + 1] ELSE <<>>
           A == CHOOSE g : g = [j \in 1..(Len(d) + 1) |-> B(g, j)]
<1>2. ReadIcon(p) = [icons |-> A[1], count |-> Len(A[1])]
  BY DEF ReadIcon
<1>3. PICK g : g = [j \in 1..(N + 1) |-> C(g, j)]
  BY IconSteps_exist
<1>4. ASSUME NEW h, NEW j \in 1..(N + 1)
      PROVE  B(h, j) = C(h, j)
  <2>1. CASE IsAt(d, N, j)
    <3>1. /\ ~(j + 2 > Len(d)) /\ d[j] \in 1..MaxIconSize /\ d[j + 1] \in 1..MaxIconSize
          /\ ~(j + 1 + d[j] * d[j + 1] > Len(d))
      <4>1. PICK w, v : w = d[j] /\ v = d[j + 1]
        OBVIOUS
      <4>2. /\ j + 2 <= N /\ w \in 1..MaxIconSize /\ v \in 1..MaxIconSize
            /\ EndsAt(d, j) <= N
        BY <2>1, <4>1 DEF IsAt
      <4>3. PICK e \in Nat : e = w * v
        <5>1. w \in Nat /\ v \in Nat
          BY <4>2, SizeIs
        <5> QED BY <5>1
      <4>4. j + 1 + e <= N
        BY <4>1, <4>2, <4>3 DEF EndsAt
      <4>5. ~(j + 2 > N) /\ ~(j + 1 + e > N)
        BY <4>2, <4>3, <4>4
      <4>6. d[j] * d[j + 1] = e
        BY <4>1, <4>3
      <4>7. ~(j + 2 > Len(d)) /\ ~(j + 1 + d[j] * d[j + 1] > Len(d))
        BY <4>5, <4>6
      <4> QED BY <4>1, <4>2, <4>7
    <3>2. B(h, j) = <<[width |-> d[j], height |-> d[j + 1],
                      data |-> SubSeq(d, j + 2, j + 1 + d[j] * d[j + 1])]>>
                     \o h[j + 1 + d[j] * d[j + 1] + 1]
      BY <3>1
    <3>3. C(h, j) = <<IconAt(d, j)>> \o h[EndsAt(d, j) + 1]
      BY <2>1
    <3> HIDE DEF B, C
    <3> QED BY <3>2, <3>3 DEF EndsAt, IconAt
  <2>2. CASE ~IsAt(d, N, j)
    <3>1. ASSUME ~(j + 2 > Len(d)), d[j] \in 1..MaxIconSize, d[j + 1] \in 1..MaxIconSize
          PROVE  j + 1 + d[j] * d[j + 1] > Len(d)
      <4> HIDE DEF B, C
      <4>6. d[j] \in Nat /\ d[j + 1] \in Nat
        BY <3>1, SizeIs
      <4>1. PICK x \in Nat, y \in Nat : x = d[j] /\ y = d[j + 1]
        BY <4>6
      <4>2. PICK e \in Nat : e = x * y
        OBVIOUS
      <4>3. EndsAt(d, j) = j + 1 + e
        BY <4>1, <4>2 DEF EndsAt
      <4>4. ~(EndsAt(d, j) <= N)
        BY <2>2, <3>1 DEF IsAt
      <4>5. j + 1 + e > Len(d)
        BY <4>2, <4>3, <4>4
      <4> QED BY <4>1, <4>2, <4>5
    <3>4. \/ j + 2 > Len(d) \/ d[j] \notin 1..MaxIconSize \/ d[j + 1] \notin 1..MaxIconSize
          \/ j + 1 + d[j] * d[j + 1] > Len(d)
      BY <3>1
    <3>2. B(h, j) = <<>>
      BY <3>4
    <3>3. C(h, j) = <<>>
      BY <2>2
    <3> HIDE DEF B, C
    <3> QED BY <3>2, <3>3
  <2> QED BY <2>1, <2>2
<1> HIDE DEF B
<1>5. \E h : h = [j \in 1..(Len(d) + 1) |-> B(h, j)]
  <2>1. \A j \in 1..(N + 1) : B(g, j) = C(g, j)
    BY <1>4
  <2> HIDE DEF C
  <2>2. [j \in 1..(N + 1) |-> B(g, j)] = [j \in 1..(N + 1) |-> C(g, j)]
    BY <2>1
  <2> QED BY <1>3, <2>2
<1>6. A = [j \in 1..(Len(d) + 1) |-> B(A, j)]
  BY <1>5
<1> HIDE DEF A
<1>7. \A j \in 1..(N + 1) : A[j] = B(A, j)
  BY <1>6
<1>8. \A j \in 1..(N + 1) : A[j] = C(A, j)
  <2> HIDE DEF C
  <2> QED BY <1>4, <1>7
<1>9. IconSteps(d, N, A)
  BY <1>8 DEF IconSteps
<1> QED BY <1>2, <1>9

\* The positions are there: one more icon is one more position.
LEMMA PositionsExist ==
  ASSUME NEW s \in Seq(Icons)
  PROVE  Data(s) \in Seq(Nat) /\ \E pos : Positions(s, Data(s), pos)
<1> DEFINE Right(t) == Data(t) \in Seq(Nat) /\ \E pos : Positions(t, Data(t), pos)
           I == {n \in Nat : \A t \in Seq(Icons) : Len(t) = n => Right(t)}
<1>1. 0 \in I
  <2>1. ASSUME NEW t \in Seq(Icons), Len(t) = 0 PROVE Right(t)
    <3>1. t = <<>> /\ Data(t) = <<>>
      BY <2>1, EmptySeq, DataNone
    <3>2. PICK pos : pos = [k \in 1..1 |-> 1]
      OBVIOUS
    <3>3. Len(<<>>) = 0 /\ <<>> \in Seq(Nat)
      OBVIOUS
    <3>4. Positions(<<>>, <<>>, pos)
      BY <3>2, <3>3 DEF Positions
    <3> QED BY <3>1, <3>3, <3>4
  <2> QED BY <2>1
<1>2. ASSUME NEW n \in Nat, n \in I PROVE n + 1 \in I
  <2>1. ASSUME NEW t \in Seq(Icons), Len(t) = n + 1 PROVE Right(t)
    <3>1. PICK front \in Seq(Icons), x \in Icons : t = Append(front, x)
      <4>1. t # <<>>
        BY <2>1, EmptySeq
      <4> QED BY <4>1, SequenceEmptyOrAppend
    <3>2. Len(front) = n /\ Right(front)
      BY <1>2, <2>1, <3>1
    <3>3. PICK d, pos : d = Data(front) /\ Positions(front, d, pos)
      BY <3>2
    <3>4. PICK y \in Seq(Nat) : y = Part(x)
      BY PartIs
    <3>16. d \in Seq(Nat)
      BY <3>2, <3>3
    <3>5. PICK m \in Nat, N \in Nat : m = Len(x.data) /\ N = Len(d)
      <4>1. Len(x.data) \in Nat
        BY PartIs
      <4> QED BY <3>16, <4>1
    <3>6. /\ Len(y) = 2 + m /\ y[1] = x.width /\ y[2] = x.height
          /\ \A i \in 1..m : y[2 + i] = x.data[i]
      BY <3>4, <3>5, PartIs
    <3>7. PICK e \in Seq(Nat) : e = d \o y
      BY <3>16, <3>4, ConcatProperties
    <3>8. /\ Len(e) = N + 2 + m
          /\ \A i \in 1..N : e[i] = d[i]
          /\ \A i \in 1..(2 + m) : e[N + i] = y[i]
      <4>1. Len(d \o y) = Len(d) + Len(y)
            /\ \A i \in 1..(Len(d) + Len(y)) :
                 (d \o y)[i] = IF i <= Len(d) THEN d[i] ELSE y[i - Len(d)]
        BY <3>16, <3>4, ConcatProperties
      <4>2. Len(e) = N + 2 + m
            /\ \A i \in 1..(N + 2 + m) : e[i] = IF i <= N THEN d[i] ELSE y[i - N]
        <5>1. Len(d) = N /\ Len(y) = 2 + m /\ N + (2 + m) = N + 2 + m
          <6>1. N + (2 + m) = N + 2 + m
            OBVIOUS
          <6>2. Len(d) = N
            BY <3>5
          <6>3. Len(y) = 2 + m
            BY <3>6
          <6> QED BY <6>1, <6>2, <6>3
        <5> QED BY <3>7, <4>1, <5>1
      <4>3. ASSUME NEW i \in 1..(2 + m) PROVE e[N + i] = y[i]
        <5>1. N + i \in 1..(N + 2 + m) /\ ~(N + i <= N) /\ N + i - N = i
          OBVIOUS
        <5> QED BY <4>2, <5>1
      <4>4. ASSUME NEW i \in 1..N PROVE e[i] = d[i]
        <5>1. i \in 1..(N + 2 + m) /\ i <= N
          OBVIOUS
        <5> QED BY <4>2, <5>1
      <4> QED BY <4>2, <4>3, <4>4
    <3>9. e = Data(t)
      BY <3>1, <3>3, <3>4, <3>7, DataAppend
    <3> DEFINE next == [k \in 1..(n + 2) |-> IF k = n + 2 THEN N + 1 + 2 + m ELSE pos[k]]
    <3>10. next \in [1..(n + 2) -> Nat \ {0}] /\ next[n + 2] = N + 3 + m
           /\ (\A k \in 1..(n + 1) : next[k] = pos[k]) /\ pos[n + 1] = N + 1 /\ pos[1] = 1
      <4>1. /\ pos \in [1..(n + 1) -> Nat \ {0}] /\ pos[1] = 1 /\ pos[n + 1] = N + 1
        BY <3>2, <3>3, <3>5 DEF Positions
      <4>2. \A k \in 1..(n + 1) : k \in 1..(n + 2) /\ k # n + 2 /\ pos[k] \in Nat \ {0}
        BY <4>1
      <4>3. N + 1 + 2 + m \in Nat \ {0} /\ n + 2 \in 1..(n + 2) /\ N + 1 + 2 + m = N + 3 + m
        OBVIOUS
      <4>4. \A k \in 1..(n + 2) : k # n + 2 => k \in 1..(n + 1)
        OBVIOUS
      <4> QED BY <4>1, <4>2, <4>3, <4>4
    <3> HIDE DEF next
    <3>11. \A k \in 1..n : t[k] = front[k]
      BY <3>1, <3>2
    <3>12. t[n + 1] = x
      BY <3>1, <3>2
    <3>13. ASSUME NEW k \in 1..(n + 1)
           PROVE  /\ next[k + 1] = next[k] + 2 + Len(t[k].data)
                  /\ e[next[k]] = t[k].width /\ e[next[k] + 1] = t[k].height
                  /\ \A i \in 1..Len(t[k].data) : e[next[k] + 1 + i] = t[k].data[i]
                  /\ next[k + 1] <= Len(e) + 1
      <4>1. CASE k = n + 1
        <5>1. next[k] = N + 1 /\ next[k + 1] = N + 3 + m /\ t[k] = x
          BY <3>10, <3>12, <4>1
        <5>2. e[N + 1] = y[1] /\ e[N + 1 + 1] = y[2]
          BY <3>8
        <5>3. \A i \in 1..m : e[N + 1 + 1 + i] = y[2 + i]
          <6> TAKE i \in 1..m
          <6>1. 2 + i \in 1..(2 + m) /\ N + (2 + i) = N + 1 + 1 + i
            OBVIOUS
          <6> QED BY <3>8, <6>1
        <5>4. N + 3 + m = N + 1 + 2 + m /\ N + 3 + m <= N + 2 + m + 1
          OBVIOUS
        <5>5. Len(t[k].data) = m /\ t[k].data = x.data /\ t[k].width = y[1]
              /\ t[k].height = y[2]
          BY <3>5, <3>6, <5>1
        <5>6. \A i \in 1..m : e[next[k] + 1 + i] = t[k].data[i]
          <6> TAKE i \in 1..m
          <6>1. e[N + 1 + 1 + i] = y[2 + i] /\ y[2 + i] = x.data[i]
            BY <3>6, <5>3
          <6> QED BY <5>1, <5>5, <6>1
        <5> QED BY <3>8, <5>1, <5>2, <5>4, <5>5, <5>6
      <4>2. CASE k \in 1..n
        <5>1. PICK z \in Icons, l \in Nat : z = front[k] /\ l = Len(z.data)
          <6>1. front[k] \in Icons
            BY <3>2, <4>2, ElementOfSeq
          <6> QED BY <6>1, PartIs
        <5>2. /\ pos[k + 1] = pos[k] + 2 + l
              /\ d[pos[k]] = z.width /\ d[pos[k] + 1] = z.height
              /\ \A i \in 1..l : d[pos[k] + 1 + i] = z.data[i]
              /\ pos[k + 1] <= N + 1
          BY <3>2, <3>3, <3>5, <4>2, <5>1 DEF Positions
        <5>3. PICK q \in Nat \ {0} : q = pos[k]
          <6>1. k \in 1..(n + 1) /\ pos \in [1..(n + 1) -> Nat \ {0}]
            BY <3>2, <3>3, <4>2 DEF Positions
          <6> QED BY <6>1
        <5>4. pos[k + 1] = q + 2 + l /\ q + 2 + l <= N + 1
          BY <5>2, <5>3
        <5>5. next[k] = pos[k] /\ next[k + 1] = pos[k + 1] /\ t[k] = z
          <6>1. k + 1 \in 1..(n + 1) /\ k \in 1..(n + 1)
            BY <4>2
          <6> QED BY <3>10, <3>11, <4>2, <5>1, <6>1
        <5>6. \A i \in 0..(l + 1) : e[pos[k] + i] = d[pos[k] + i]
          <6> TAKE i \in 0..(l + 1)
          <6>1. q + i \in 1..N
            BY <5>4
          <6> QED BY <3>8, <5>3, <6>1
        <5>7. e[pos[k]] = d[pos[k]] /\ e[pos[k] + 1] = d[pos[k] + 1]
          <6>1. 0 \in 0..(l + 1) /\ 1 \in 0..(l + 1) /\ q + 0 = q
            OBVIOUS
          <6> QED BY <5>6, <5>3, <6>1
        <5>8. \A i \in 1..l : e[pos[k] + 1 + i] = d[pos[k] + 1 + i]
          <6> TAKE i \in 1..l
          <6>1. 1 + i \in 0..(l + 1) /\ q + (1 + i) = q + 1 + i
            OBVIOUS
          <6> QED BY <5>6, <5>3, <6>1
        <5>9. next[k + 1] <= Len(e) + 1
          <6>1. q + 2 + l <= N + 2 + m + 1
            BY <5>4
          <6> QED BY <3>8, <5>5, <5>4, <6>1
        <5> QED BY <5>1, <5>2, <5>5, <5>7, <5>8, <5>9
      <4> QED BY <4>1, <4>2
    <3>14. next[1] = 1 /\ next[n + 2] = Len(e) + 1 /\ n + 2 = Len(t) + 1
      <4>1. next[1] = 1
        <5>1. 1 \in 1..(n + 1)
          OBVIOUS
        <5> QED BY <3>10, <5>1
      <4>2. N + 3 + m = N + 2 + m + 1 /\ n + 2 = n + 1 + 1
        OBVIOUS
      <4>3. next[n + 2] = Len(e) + 1
        BY <3>8, <3>10, <4>2
      <4> QED BY <2>1, <4>1, <4>2, <4>3
    <3>15. Positions(t, e, next)
      BY <2>1, <3>10, <3>13, <3>14 DEF Positions
    <3> QED BY <3>7, <3>9, <3>15
  <2> QED BY <2>1
<1>3. Nat \subseteq I
  <2> HIDE DEF I
  <2> QED BY <1>1, <1>2, NatSetInduction
<1>4. Len(s) \in Nat
  OBVIOUS
<1> QED BY <1>3, <1>4

\* What is written for icons is read as them.
LEMMA IconsAgain ==
  ASSUME NEW s \in Seq(Icons), NEW p, GetArrayReply(p, "CARDINAL") = Data(s)
  PROVE  ReadIcon(p) = [icons |-> s, count |-> Len(s)]
<1>1. PICK n \in Nat : n = Len(s)
  OBVIOUS
<1>2. PICK d \in Seq(Nat) : d = Data(s)
  BY PositionsExist
<1>3. PICK pos : Positions(s, d, pos)
  BY <1>2, PositionsExist
<1>4. PICK N \in Nat : N = Len(d)
  OBVIOUS
<1>5. PICK g : /\ IconSteps(d, N, g)
               /\ ReadIcon(p) = [icons |-> g[1], count |-> Len(g[1])]
  BY <1>2, <1>4, ReadIconIs
<1>6. /\ pos \in [1..(n + 1) -> Nat \ {0}] /\ pos[1] = 1 /\ pos[n + 1] = N + 1
  BY <1>1, <1>3, <1>4 DEF Positions
\* From position k on are the icons from number k on.
<1> DEFINE Rest(k) == /\ IsList(g[pos[k]]) /\ Len(g[pos[k]]) = n + 1 - k
                      /\ \A i \in 1..(n + 1 - k) : g[pos[k]][i] = s[k + i - 1]
           I == {m \in Nat : m <= n => Rest(n + 1 - m)}
<1>7. 0 \in I
  <2>1. ~IsAt(d, N, N + 1) /\ N + 1 \in 1..(N + 1)
    BY DEF IsAt
  <2>2. g[N + 1] = <<>>
    BY <1>5, <2>1 DEF IconSteps
  <2>3. IsList(<<>>) /\ Len(<<>>) = 0
    BY ShortLists
  <2>4. n + 1 - 0 = n + 1 /\ n + 1 - (n + 1) = 0 /\ 1..0 = {}
    OBVIOUS
  <2> QED BY <1>6, <2>2, <2>3, <2>4
<1>8. ASSUME NEW m \in Nat, m \in I PROVE m + 1 \in I
  <2> HIDE DEF Rest
  <2> SUFFICES ASSUME m + 1 <= n PROVE Rest(n + 1 - (m + 1))
    OBVIOUS
  <2>1. PICK k \in 1..n : k = n + 1 - (m + 1) /\ n + 1 - m = k + 1
    <3>1. n + 1 - (m + 1) \in 1..n /\ n + 1 - m = n + 1 - (m + 1) + 1
      OBVIOUS
    <3> QED BY <3>1
  <2>2. Rest(k + 1)
    <3>1. m <= n
      BY <2>1
    <3> QED BY <1>8, <2>1, <3>1
  <2> USE DEF Rest
  <2>3. PICK x \in Icons, l \in Nat : x = s[k] /\ l = Len(x.data)
    <3>1. s[k] \in Icons
      BY <1>1, <2>1, ElementOfSeq
    <3> QED BY <3>1, PartIs
  <2>4. PICK q \in Nat \ {0} : q = pos[k]
    <3>1. k \in 1..(n + 1)
      BY <2>1
    <3> QED BY <1>6, <3>1
  <2>5. /\ pos[k + 1] = q + 2 + l /\ q + 2 + l <= N + 1
        /\ d[q] = x.width /\ d[q + 1] = x.height
        /\ \A i \in 1..l : d[q + 1 + i] = x.data[i]
    BY <1>1, <1>3, <1>4, <2>1, <2>3, <2>4 DEF Positions
  <2>6. /\ x.width \in 1..MaxIconSize /\ x.height \in 1..MaxIconSize
        /\ x.data \in Seq(Nat) /\ l = x.width * x.height
        /\ x = [width |-> x.width, height |-> x.height, data |-> x.data]
    BY <2>3 DEF Icons
  <2>7. l >= 1
    <3>1. PICK w, h : w = x.width /\ h = x.height
      OBVIOUS
    <3>3. w \in 1..8192 /\ h \in 1..8192
      <4>1. w \in 1..MaxIconSize /\ h \in 1..MaxIconSize
        BY <2>6, <3>1
      <4> QED BY <4>1 DEF MaxIconSize
    <3>2. w * h >= 1
      <4>1. ASSUME NEW a \in Nat \ {0}, NEW b \in Nat \ {0} PROVE a * b >= 1
        OBVIOUS
      <4>2. w \in Nat \ {0} /\ h \in Nat \ {0}
        BY <3>3
      <4> QED BY <4>1, <4>2
    <3> QED BY <2>6, <3>1, <3>2
  <2>8. EndsAt(d, q) = q + 1 + l
    BY <2>5, <2>6 DEF EndsAt
  <2>9. IsAt(d, N, q) /\ q \in 1..(N + 1)
    <3>1. q + 2 <= N /\ q + 1 + l <= N /\ q \in 1..(N + 1)
      <4>1. q + 2 + l <= N + 1
        BY <2>5
      <4> QED BY <2>7, <4>1
    <3> QED BY <2>5, <2>6, <2>8, <3>1 DEF IsAt
  <2>10. IconAt(d, q) = x
    <3>1. /\ SubSeq(d, q + 2, q + 1 + l) \in Seq(Nat)
          /\ Len(SubSeq(d, q + 2, q + 1 + l)) = l
          /\ \A i \in 1..l : SubSeq(d, q + 2, q + 1 + l)[i] = d[q + 1 + i]
      <4>1. q + 2 \in Int /\ q + 1 + l \in Int /\ q + 2 <= q + 1 + l
            /\ q + 1 + l - (q + 2) + 1 = l
        BY <2>7
      <4>2. \A i \in (q + 2)..(q + 1 + l) : d[i] \in Nat
        <5> TAKE i \in (q + 2)..(q + 1 + l)
        <5>1. i \in 1..N
          BY <2>5
        <5> QED BY <1>4, <5>1, ElementOfSeq
      <4>3. /\ SubSeq(d, q + 2, q + 1 + l) \in Seq(Nat)
            /\ Len(SubSeq(d, q + 2, q + 1 + l)) = l
            /\ \A i \in 1..l : SubSeq(d, q + 2, q + 1 + l)[i] = d[q + 2 + i - 1]
        BY <4>1, <4>2, SubSeqProperties
      <4>4. \A i \in 1..l : q + 2 + i - 1 = q + 1 + i
        OBVIOUS
      <4> QED BY <4>3, <4>4
    <3>2. PICK u : u = SubSeq(d, q + 2, q + 1 + l)
      OBVIOUS
    <3>3. u = x.data
      <4>1. u \in Seq(Nat) /\ Len(u) = l /\ \A i \in 1..l : u[i] = d[q + 1 + i]
        BY <3>1, <3>2
      <4>2. PICK v \in Seq(Nat) : v = x.data
        BY <2>6
      <4>3. Len(v) = l /\ \A i \in 1..l : v[i] = d[q + 1 + i]
        BY <2>3, <2>5, <4>2
      <4>4. u = v
        BY <4>1, <4>3, SeqEqual
      <4> QED BY <4>2, <4>4
    <3>4. IconAt(d, q) = [width |-> x.width, height |-> x.height, data |-> x.data]
      BY <2>5, <2>8, <3>2, <3>3 DEF IconAt
    <3> QED BY <2>6, <3>4
  <2>11. g[q] = <<x>> \o g[q + 2 + l]
    <3>1. EndsAt(d, q) + 1 = q + 2 + l
      BY <2>8
    <3>2. g[q] = <<IconAt(d, q)>> \o g[EndsAt(d, q) + 1]
      BY <1>5, <2>9 DEF IconSteps
    <3> QED BY <2>10, <3>1, <3>2
  <2>12. PICK r : r = g[q + 2 + l]
    OBVIOUS
  <2>13. /\ IsList(r) /\ Len(r) = n - k
         /\ \A i \in 1..(n - k) : r[i] = s[k + i]
    <3>1. n + 1 - (k + 1) = n - k /\ \A i \in 1..(n - k) : k + 1 + i - 1 = k + i
      OBVIOUS
    <3> QED BY <2>2, <2>5, <2>12, <3>1
  <2>14. /\ IsList(<<x>> \o r) /\ Len(<<x>> \o r) = 1 + (n - k)
         /\ \A i \in 1..(1 + (n - k)) : (<<x>> \o r)[i] = IF i <= 1 THEN <<x>>[i] ELSE r[i - 1]
    <3>1. PICK y : y = <<x>>
      OBVIOUS
    <3>2. IsList(y) /\ Len(y) = 1
      BY <3>1, ShortLists
    <3>3. /\ IsList(y \o r) /\ Len(y \o r) = Len(y) + Len(r)
          /\ \A i \in 1..(Len(y) + Len(r)) :
               (y \o r)[i] = IF i <= Len(y) THEN y[i] ELSE r[i - Len(y)]
      BY <2>13, <3>2, ListConcat
    <3>4. Len(y) + Len(r) = 1 + (n - k)
      BY <2>13, <3>2
    <3> QED BY <3>1, <3>2, <3>3, <3>4
  <2>15. \A i \in 1..(1 + (n - k)) : (<<x>> \o r)[i] = s[k + i - 1]
    <3> TAKE i \in 1..(1 + (n - k))
    <3>1. CASE i = 1
      <4>1. <<x>>[1] = x /\ k + 1 - 1 = k
        OBVIOUS
      <4> QED BY <2>3, <2>14, <3>1, <4>1
    <3>2. CASE i # 1
      <4>1. i - 1 \in 1..(n - k) /\ ~(i <= 1) /\ k + (i - 1) = k + i - 1
        BY <3>2
      <4> QED BY <2>13, <2>14, <4>1
    <3> QED BY <3>1, <3>2
  <2>16. 1 + (n - k) = n + 1 - k
    OBVIOUS
  <2>17. Rest(k)
    BY <2>4, <2>11, <2>12, <2>14, <2>15, <2>16
  <2> QED BY <2>1, <2>17
<1>9. Nat \subseteq I
  <2> HIDE DEF I
  <2> QED BY <1>7, <1>8, NatSetInduction
<1>10. Rest(1)
  <2>1. n + 1 - n = 1 /\ n <= n
    OBVIOUS
  <2> HIDE DEF Rest
  <2>2. n \in I
    BY <1>9
  <2> QED BY <2>1, <2>2
<1>11. g[1] = s
  <2>1. IsList(g[1]) /\ Len(g[1]) = n /\ \A i \in 1..n : g[1][i] = s[i]
    <3>1. n + 1 - 1 = n /\ \A i \in 1..n : 1 + i - 1 = i
      OBVIOUS
    <3> QED BY <1>6, <1>10, <3>1
  <2>2. PICK r : r = g[1]
    OBVIOUS
  <2>3. IsList(s)
    BY DEF IsList
  <2> QED BY <1>1, <2>1, <2>2, <2>3, ListsEqual
<1> QED BY <1>2, <1>5, <1>11

\* The icons of an object: those that count, and empty ones after them.
GoodIcons(i) ==
  /\ IsList(i.icons) /\ Len(i.icons) \in Nat /\ i.count \in 0..Len(i.icons)
  /\ \A k \in 1..i.count : i.icons[k] \in Icons
  /\ \A k \in 1..Len(i.icons) : k > i.count => i.icons[k] = NoIcon
Counted(i) == SubSeq(i.icons, 1, i.count)

LEMMA CountedAre ==
  ASSUME NEW i, GoodIcons(i)
  PROVE  /\ Counted(i) \in Seq(Icons) /\ Len(Counted(i)) = i.count /\ i.count \in Nat
         /\ \A k \in 1..i.count : Counted(i)[k] = i.icons[k]
         /\ IconData(i) = Data(Counted(i))
<1>1. PICK n \in Nat : n = i.count
  BY DEF GoodIcons
<1>2. PICK s : s = i.icons
  OBVIOUS
<1>3. 1 \in Int /\ n \in Int /\ \A k \in 1..n : s[k] \in Icons
  BY <1>1, <1>2 DEF GoodIcons
<1>4. PICK c : c = SubSeq(s, 1, n)
  OBVIOUS
<1>5. c \in Seq(Icons) /\ Len(c) = n /\ \A k \in 1..n : c[k] = s[k]
  <2>1. /\ SubSeq(s, 1, n) \in Seq(Icons)
        /\ Len(SubSeq(s, 1, n)) = IF 1 <= n THEN n - 1 + 1 ELSE 0
        /\ \A k \in 1..(n - 1 + 1) : SubSeq(s, 1, n)[k] = s[1 + k - 1]
    BY <1>3, SubSeqProperties
  <2>2. /\ n - 1 + 1 = n /\ (IF 1 <= n THEN n - 1 + 1 ELSE 0) = n
        /\ \A k \in 1..n : 1 + k - 1 = k
    OBVIOUS
  <2> QED BY <1>4, <2>1, <2>2
<1>6. IconData(i) = FlattenSeq([k \in 1..n |-> Part(s[k])])
  BY <1>1, <1>2 DEF IconData, Part
<1>7. [k \in 1..n |-> Part(s[k])] = [k \in 1..n |-> Part(c[k])]
  BY <1>5
<1>8. IconData(i) = Data(c)
  BY <1>5, <1>6, <1>7 DEF Data
<1> QED BY <1>1, <1>2, <1>4, <1>5, <1>8 DEF Counted

LEMMA ListOfIcons ==
  ASSUME NEW s \in Seq(Icons), NEW i, i = [icons |-> s, count |-> Len(s)]
  PROVE  GoodIcons(i) /\ Counted(i) = s
<1>1. i.icons = s /\ i.count = Len(s) /\ Len(s) \in Nat
  OBVIOUS
<1>2. IsList(s)
  BY DEF IsList
<1>3. \A k \in 1..Len(s) : s[k] \in Icons /\ ~(k > Len(s))
  BY ElementOfSeq
<1>4. Counted(i) = s
  BY <1>1, SubSeqFull DEF Counted
<1> QED BY <1>1, <1>2, <1>3, <1>4 DEF GoodIcons

\* A property with icons, or none
GoodIconProperty(p) ==
  p = NoProperty \/ \E i : GoodIcons(i) /\ p = Property("CARDINAL", IconData(i))

LEMMA IconsSay ==
  ASSUME NEW i, GoodIcons(i)
  PROVE  /\ Says("WMIcon", Property("CARDINAL", IconData(i)), Counted(i))
         /\ \A f : GoodIcons(Read("WMIcon", f, Property("CARDINAL", IconData(i))))
<1>1. PICK s \in Seq(Icons) : s = Counted(i)
  BY CountedAre
<1>2. PICK r : r = ReadIcon(Property("CARDINAL", IconData(i)))
  OBVIOUS
<1>3. r = [icons |-> s, count |-> Len(s)]
  <2>1. GetArrayReply(Property("CARDINAL", IconData(i)), "CARDINAL") = Data(s)
    BY <1>1, CountedAre, PropertyHas DEF GetArrayReply
  <2> QED BY <1>2, <2>1, IconsAgain
<1>4. GoodIcons(r) /\ Counted(r) = s
  BY <1>3, ListOfIcons
<1>5. \A f : Read("WMIcon", f, Property("CARDINAL", IconData(i))) = r
  BY <1>2, ReadOf
<1>6. Shown("WMIcon", r) = s
  BY <1>4, ShownIs DEF Counted
<1>7. "WMIcon" \notin Paired
  BY DEF Paired
<1> QED BY <1>1, <1>4, <1>5, <1>6, <1>7 DEF Says, ReadAll

LEMMA IconRead ==
  ASSUME NEW p, GoodIconProperty(p), NEW f
  PROVE  GoodIcons(Read("WMIcon", f, p))
<1>1. CASE p = NoProperty
  <2>1. GetArrayReply(p, "CARDINAL") = <<>>
    BY <1>1, PropertyHas DEF GetArrayReply
  <2>2. <<>> \in Seq(Icons)
    OBVIOUS
  <2>3. PICK s \in Seq(Icons) : s = <<>>
    BY <2>2
  <2>4. ReadIcon(p) = [icons |-> s, count |-> Len(s)]
    BY <2>1, <2>3, DataNone, IconsAgain
  <2>5. GoodIcons(ReadIcon(p))
    BY <2>4, ListOfIcons
  <2> QED BY <2>5, ReadOf
<1>2. CASE \E i : GoodIcons(i) /\ p = Property("CARDINAL", IconData(i))
  BY <1>2, IconsSay
<1> QED BY <1>1, <1>2 DEF GoodIconProperty

\* setIconInternal(): the icons that count are those of before, unless they are
\* replaced, and the new one.
LEMMA IconAdded ==
  ASSUME NEW i, GoodIcons(i), NEW icon \in Icons, NEW replace \in BOOLEAN
  PROVE  /\ GoodIcons(AddIcon(i, icon, replace))
         /\ Counted(AddIcon(i, icon, replace))
              = Append(IF replace THEN <<>> ELSE Counted(i), icon)
<1> DEFINE old == IF replace THEN [icons |-> [k \in DOMAIN i.icons |-> NoIcon], count |-> 0]
                  ELSE i
           start == IF replace THEN <<>> ELSE Counted(i)
<1>1. GoodIcons(old) /\ Counted(old) = start
  <2>1. CASE replace = TRUE
    <3>1. PICK n \in Nat : n = Len(i.icons)
      BY DEF GoodIcons
    <3>2. DOMAIN i.icons = 1..n
      BY <3>1 DEF GoodIcons, IsList
    <3>3. PICK s : s = [k \in 1..n |-> NoIcon]
      OBVIOUS
    <3>4. s \in Seq({NoIcon}) /\ Len(s) = n /\ \A k \in 1..n : s[k] = NoIcon
      BY <3>3
    <3>5. old.icons = s /\ old.count = 0
      BY <2>1, <3>2, <3>3
    <3>6. GoodIcons(old)
      BY <3>4, <3>5 DEF GoodIcons, IsList
    <3>7. start = <<>>
      BY <2>1
    <3>8. SubSeq(s, 1, 0) = <<>>
      BY SubSeqEmpty
    <3> HIDE DEF old, start
    <3> QED BY <3>5, <3>6, <3>7, <3>8 DEF Counted
  <2>2. CASE replace = FALSE
    BY <2>2
  <2> QED BY <2>1, <2>2
<1>2. AddIcon(i, icon, replace)
        = [icons |-> SetAt(old.icons, old.count + 1, NoIcon, icon), count |-> old.count + 1]
  BY DEF AddIcon
<1> HIDE DEF old, start
<1>3. PICK s : s = old.icons
  OBVIOUS
<1>4. PICK n \in Nat, c \in Nat : n = Len(s) /\ c = old.count
  BY <1>1, <1>3 DEF GoodIcons
<1>5. /\ IsList(s) /\ c <= n
      /\ \A k \in 1..c : s[k] \in Icons
      /\ \A k \in 1..n : k > c => s[k] = NoIcon
  BY <1>1, <1>3, <1>4 DEF GoodIcons
<1>6. PICK g : g = Grow(s, c + 1, NoIcon)
  OBVIOUS
<1>7. PICK m \in Nat : m = IF c + 1 <= n THEN n ELSE c + 1
  OBVIOUS
<1>8. IsList(g) /\ Len(g) = m /\ \A k \in 1..m : g[k] = IF k <= n THEN s[k] ELSE NoIcon
  <2>1. CASE c + 1 <= n
    BY <1>4, <1>5, <1>6, <1>7, <2>1 DEF Grow
  <2>2. CASE ~(c + 1 <= n)
    <3>1. c = n /\ c + 1 - n = 1 /\ m = n + 1
      BY <1>5, <1>7, <2>2
    <3>2. PICK y : y = [k \in 1..1 |-> NoIcon]
      OBVIOUS
    <3>3. IsList(y) /\ Len(y) = 1 /\ y[1] = NoIcon
      <4>1. y \in Seq({NoIcon})
        BY <3>2
      <4>2. IsList(y)
        BY <4>1 DEF IsList
      <4>3. DOMAIN y = 1..1 /\ y[1] = NoIcon
        BY <3>2
      <4>4. Len(y) = 1
        BY <4>1, <4>3
      <4> QED BY <4>2, <4>3, <4>4
    <3>4. g = s \o y
      BY <1>4, <1>6, <2>2, <3>1, <3>2 DEF Grow
    <3>5. /\ IsList(g) /\ Len(g) = n + 1
          /\ \A k \in 1..n : g[k] = s[k]
          /\ \A k \in 1..1 : g[n + k] = y[k]
      <4>2. IsList(s) /\ IsList(y)
        BY <1>5, <3>3
      <4>1. /\ IsList(s \o y) /\ Len(s \o y) = Len(s) + Len(y)
            /\ \A k \in 1..Len(s) : (s \o y)[k] = s[k]
            /\ \A k \in 1..Len(y) : (s \o y)[Len(s) + k] = y[k]
        BY <4>2, ListConcat
      <4> QED BY <1>4, <3>3, <3>4, <4>1
    <3>6. g[n + 1] = NoIcon /\ ~(n + 1 <= n)
      BY <3>3, <3>5
    <3> QED BY <3>1, <3>5, <3>6
  <2> QED BY <2>1, <2>2
<1>9. PICK u : u = [g EXCEPT ![c + 1] = icon]
  OBVIOUS
<1>10. /\ c + 1 \in 1..m
       /\ IsList(u) /\ Len(u) = m /\ u[c + 1] = icon
       /\ \A k \in 1..m : k # c + 1 => u[k] = g[k]
  <2>1. c + 1 \in 1..m
    BY <1>7
  <2>2. PICK S : g \in Seq(S)
    BY <1>8 DEF IsList
  <2>3. PICK U : U = S \cup {icon}
    OBVIOUS
  <2>4. g \in Seq(U) /\ icon \in U
    BY <2>2, <2>3, SeqMonotonic
  <2>5. u \in Seq(U)
    BY <1>8, <1>9, <2>1, <2>4, ExceptSeq
  <2> QED BY <1>8, <1>9, <2>1, <2>4, <2>5 DEF IsList
<1>11. PICK new : new = AddIcon(i, icon, replace)
  OBVIOUS
<1>12. new.icons = u /\ new.count = c + 1
  BY <1>2, <1>3, <1>4, <1>6, <1>9, <1>11 DEF SetAt
<1>13. \A k \in 1..(c + 1) : u[k] \in Icons
  <2> TAKE k \in 1..(c + 1)
  <2>1. CASE k = c + 1
    BY <1>10, <2>1
  <2>2. CASE k # c + 1
    <3>1. k \in 1..c /\ k \in 1..m /\ k <= n
      BY <1>5, <1>7, <2>2
    <3> QED BY <1>5, <1>8, <1>10, <2>2, <3>1
  <2> QED BY <2>1, <2>2
<1>14. \A k \in 1..m : k > c + 1 => u[k] = NoIcon
  <2> TAKE k \in 1..m
  <2> HAVE k > c + 1
  <2>1. k # c + 1 /\ (k <= n => k \in 1..n /\ k > c)
    OBVIOUS
  <2> QED BY <1>5, <1>8, <1>10, <2>1
<1>15. GoodIcons(new)
  <2>1. c + 1 \in 0..m
    BY <1>10
  <2> QED BY <1>10, <1>12, <1>13, <1>14, <2>1 DEF GoodIcons
<1>16. Counted(new) = Append(start, icon)
  <2>1. PICK x \in Seq(Icons), y \in Seq(Icons) : x = Counted(new) /\ y = start
    BY <1>1, <1>15, CountedAre
  <2>2. Len(x) = c + 1 /\ \A k \in 1..(c + 1) : x[k] = u[k]
    BY <1>12, <1>15, <2>1, CountedAre
  <2>3. Len(y) = c /\ \A k \in 1..c : y[k] = s[k]
    BY <1>1, <1>3, <1>4, <2>1, CountedAre
  <2>4. PICK z \in Seq(Icons) : z = Append(y, icon)
    BY AppendProperties
  <2>5. Len(z) = c + 1 /\ z[c + 1] = icon /\ \A k \in 1..c : z[k] = y[k]
    BY <2>3, <2>4, AppendProperties
  <2>6. \A k \in 1..(c + 1) : x[k] = z[k]
    <3> TAKE k \in 1..(c + 1)
    <3>1. CASE k = c + 1
      BY <1>10, <2>2, <2>5, <3>1
    <3>2. CASE k # c + 1
      <4>1. k \in 1..c /\ k \in 1..m /\ k <= n
        BY <1>5, <1>7, <3>2
      <4>2. x[k] = u[k] /\ u[k] = g[k] /\ g[k] = s[k] /\ z[k] = y[k] /\ y[k] = s[k]
        BY <1>8, <1>10, <2>2, <2>3, <2>5, <3>2, <4>1
      <4> QED BY <4>2
    <3> QED BY <3>1, <3>2
  <2>7. x = z
    BY <2>2, <2>5, <2>6, SeqEqual
  <2> QED BY <2>1, <2>4, <2>7
<1> QED BY <1>11, <1>15, <1>16 DEF start

-----------------------------------------------------------------------------
(* KWindowInfo                                                             *)

\* What getters look at.
Used == {"XAWMState", "WMState", "WMDesktop", "WMName", "WMVisibleName", "WMIconName",
         "WMVisibleIconName", "WMWindowType", "WMStrut", "WM2ExtendedStrut", "WM2Activities",
         "WM2AllowedActions", "WM2TransientFor", "WM2AppMenuObjectPath", "WM2AppMenuServiceName"}
AllFlags == Flags \ {"WMHandledIcons"}

LEMMA UsedFlags == Used \subseteq AllFlags
<1>1. /\ Order[1] = "XAWMState" /\ Order[2] = "WMState" /\ Order[3] = "WMDesktop"
      /\ Order[4] = "WMName" /\ Order[5] = "WMVisibleName" /\ Order[6] = "WMIconName"
      /\ Order[7] = "WMVisibleIconName" /\ Order[8] = "WMWindowType" /\ Order[9] = "WMStrut"
      /\ Order[10] = "WM2ExtendedStrut" /\ Order[17] = "WM2Activities"
      /\ Order[23] = "WM2AllowedActions" /\ Order[25] = "WM2TransientFor"
      /\ Order[35] = "WM2AppMenuObjectPath" /\ Order[36] = "WM2AppMenuServiceName"
  BY DEF Order
<1>2. ASSUME NEW flag \in Used
      PROVE  flag \in Atoms
  <2>1. PICK i \in {1, 2, 3, 4, 5, 6, 7, 8, 9, 10, 17, 23, 25, 35, 36} : flag = Order[i]
    BY <1>1, <1>2 DEF Used
  <2>2. i \in 1..36
    BY <2>1
  <2> QED
    BY <2>1, <2>2, OrderedAtoms
<1>3. ASSUME NEW flag \in Used
      PROVE  FlagOf(flag) = flag /\ flag # "WMHandledIcons"
  BY <1>3 DEF Used, FlagOf
<1> QED
  BY <1>2, <1>3 DEF AllFlags, Flags

\* What a flag that is read says does not depend on the others.
Fresh(flag) == Read(flag, NewFields[flag], property[flag])
FreshName(flag, old) ==
  IF Fresh(flag) # NoText THEN Fresh(flag) ELSE Read(old, NoText, property[old])

LEMMA ObservedFlag ==
  ASSUME NEW flags, NEW flag \in Flags, flag \in Forced(flags)
  PROVE  Observed(flags).info[flag] = Fresh(flag)
BY DEF Observed, Fresh

LEMMA ObservedName ==
  ASSUME NEW flags
  PROVE  /\ "WMName" \in Forced(flags) => Observed(flags).name = FreshName("WMName", "WM_NAME")
         /\ "WMIconName" \in Forced(flags)
              => Observed(flags).iconic = FreshName("WMIconName", "WM_ICON_NAME")
<1>1. "WMName" \in Flags /\ "WMIconName" \in Flags
  BY UsedFlags DEF Used, AllFlags
<1> QED
  BY <1>1 DEF Observed, FreshName, Fresh

\* The flags that a getter looks at are read with those of the table.
Needs ==
  [name |-> {"WMName"}, visibleName |-> {"WMVisibleName", "WMName"},
   visibleNameWithState |-> {"WMVisibleName", "WMName", "WMState", "XAWMState"},
   visibleIconName |-> {"WMVisibleIconName", "WMIconName", "WMVisibleName", "WMName"},
   visibleIconNameWithState |-> {"WMVisibleIconName", "WMIconName", "WMVisibleName", "WMName",
                                 "WMState", "XAWMState"},
   isMinimized |-> {"WMState", "XAWMState"}, extendedStrut |-> {"WM2ExtendedStrut", "WMStrut"},
   windowType |-> {"WMWindowType", "WM2TransientFor"}, isOnDesktop |-> {"WMDesktop"},
   activities |-> {"WM2Activities"}, actionSupported |-> {"WM2AllowedActions"},
   valid |-> {"XAWMState"}, iconName |-> {"WMIconName", "WMName"},
   applicationMenuServiceName |-> {"WM2AppMenuServiceName"},
   applicationMenuObjectPath |-> {"WM2AppMenuObjectPath"}]

LEMMA NeedsUsed ==
  ASSUME NEW g \in DOMAIN Getters
  PROVE  Needs[g] \subseteq Used
BY DEF Getters, Needs, Used

LEMMA NeedsForced ==
  ASSUME NEW g \in DOMAIN Getters
  PROVE  Needs[g] \subseteq Forced(Getters[g]) /\ Needs[g] \subseteq Forced(AllFlags)
<1>1. Needs[g] \subseteq Forced(AllFlags)
  BY NeedsUsed, UsedFlags DEF Forced
<1>2. Needs[g] \subseteq Forced(Getters[g])
  BY DEF Forced, Getters, Needs
<1> QED
  BY <1>1, <1>2

LEMMA AnswerOf ==
  ASSUME NEW o
  PROVE  /\ Answer("name", o) = o.name
         /\ Answer("visibleName", o) = VisibleName(o)
         /\ Answer("visibleIconName", o) = VisibleIconName(o)
         /\ Answer("visibleNameWithState", o) = <<VisibleName(o), IsMinimized(o, TRUE)>>
         /\ Answer("visibleIconNameWithState", o) = <<VisibleIconName(o), IsMinimized(o, TRUE)>>
         /\ Answer("isMinimized", o) = <<IsMinimized(o, TRUE), IsMinimized(o, FALSE)>>
         /\ Answer("extendedStrut", o) = ExtendedStrut(o)
         /\ Answer("windowType", o) = Type(o, DOMAIN TypeNames)
         /\ Answer("isOnDesktop", o) = [d \in Desktops |-> OnDesktop(o, d)]
         /\ Answer("activities", o) = Activities(o)
         /\ Answer("actionSupported", o) = ActionSupported(o, "ActionMove", TRUE)
         /\ Answer("valid", o) = Valid(o, FALSE)
         /\ Answer("iconName", o) = IconName(o)
         /\ Answer("applicationMenuServiceName", o) = o.info["WM2AppMenuServiceName"]
         /\ Answer("applicationMenuObjectPath", o) = o.info["WM2AppMenuObjectPath"]
BY DEF Answer

LEMMA NeedsOf ==
  /\ Needs["name"] = {"WMName"}
  /\ Needs["visibleName"] = {"WMVisibleName", "WMName"}
  /\ Needs["visibleNameWithState"] = {"WMVisibleName", "WMName", "WMState", "XAWMState"}
  /\ Needs["visibleIconName"] = {"WMVisibleIconName", "WMIconName", "WMVisibleName", "WMName"}
  /\ Needs["visibleIconNameWithState"]
        = {"WMVisibleIconName", "WMIconName", "WMVisibleName", "WMName", "WMState", "XAWMState"}
  /\ Needs["isMinimized"] = {"WMState", "XAWMState"}
  /\ Needs["extendedStrut"] = {"WM2ExtendedStrut", "WMStrut"}
  /\ Needs["windowType"] = {"WMWindowType", "WM2TransientFor"}
  /\ Needs["isOnDesktop"] = {"WMDesktop"}
  /\ Needs["activities"] = {"WM2Activities"}
  /\ Needs["actionSupported"] = {"WM2AllowedActions"}
  /\ Needs["valid"] = {"XAWMState"}
  /\ Needs["iconName"] = {"WMIconName", "WMName"}
  /\ Needs["applicationMenuServiceName"] = {"WM2AppMenuServiceName"}
  /\ Needs["applicationMenuObjectPath"] = {"WM2AppMenuObjectPath"}
BY DEF Needs

\* A getter says the same of two objects that have read what it needs.
LEMMA SameAnswer ==
  ASSUME NEW g \in DOMAIN Getters, NEW one, NEW two,
         Needs[g] \subseteq Forced(one), Needs[g] \subseteq Forced(two)
  PROVE  Answer(g, Observed(one)) = Answer(g, Observed(two))
<1> DEFINE o == Observed(one)
           p == Observed(two)
<1>1. \A flag \in Needs[g] : o.info[flag] = p.info[flag]
  BY NeedsUsed, UsedFlags, ObservedFlag DEF AllFlags
<1>2. "WMName" \in Needs[g] => o.name = p.name
  BY ObservedName
<1>3. "WMIconName" \in Needs[g] => o.iconic = p.iconic
  BY ObservedName
<1> SUFFICES Answer(g, o) = Answer(g, p)
  OBVIOUS
<1> HIDE DEF o, p
<1>4. ASSUME {"WMVisibleName", "WMName"} \subseteq Needs[g]
      PROVE  VisibleName(o) = VisibleName(p)
  <2>1. o.info["WMVisibleName"] = p.info["WMVisibleName"] /\ o.name = p.name
    BY <1>1, <1>2, <1>4
  <2> QED
    BY <2>1 DEF VisibleName
<1>5. ASSUME {"WMVisibleIconName", "WMIconName", "WMVisibleName", "WMName"} \subseteq Needs[g]
      PROVE  VisibleIconName(o) = VisibleIconName(p)
  <2>1. /\ o.info["WMVisibleIconName"] = p.info["WMVisibleIconName"]
        /\ o.info["WMIconName"] = p.info["WMIconName"] /\ o.iconic = p.iconic
        /\ VisibleName(o) = VisibleName(p)
    BY <1>1, <1>3, <1>4, <1>5
  <2> QED
    BY <2>1 DEF VisibleIconName
<1>6. ASSUME {"WMState", "XAWMState"} \subseteq Needs[g], NEW compliant \in BOOLEAN
      PROVE  IsMinimized(o, compliant) = IsMinimized(p, compliant)
  <2>1. o.info["WMState"] = p.info["WMState"] /\ o.info["XAWMState"] = p.info["XAWMState"]
    BY <1>1, <1>6
  <2> QED
    BY <2>1 DEF IsMinimized
<1>7. ASSUME {"WM2ExtendedStrut", "WMStrut"} \subseteq Needs[g]
      PROVE  ExtendedStrut(o) = ExtendedStrut(p)
  <2>1. /\ o.info["WM2ExtendedStrut"] = p.info["WM2ExtendedStrut"]
        /\ o.info["WMStrut"] = p.info["WMStrut"]
    BY <1>1, <1>7
  <2> QED
    BY <2>1 DEF ExtendedStrut
<1>8. ASSUME {"WMWindowType", "WM2TransientFor"} \subseteq Needs[g]
      PROVE  Type(o, DOMAIN TypeNames) = Type(p, DOMAIN TypeNames)
  <2>1. /\ o.info["WMWindowType"] = p.info["WMWindowType"]
        /\ o.info["WM2TransientFor"] = p.info["WM2TransientFor"]
    BY <1>1, <1>8
  <2> QED
    BY <2>1 DEF Type
<1>9. ASSUME NEW flag \in Needs[g]
      PROVE  /\ flag = "WMDesktop" => [d \in Desktops |-> OnDesktop(o, d)]
                                       = [d \in Desktops |-> OnDesktop(p, d)]
             /\ flag = "WM2Activities" => Activities(o) = Activities(p)
             /\ flag = "WM2AllowedActions" => ActionSupported(o, "ActionMove", TRUE)
                                              = ActionSupported(p, "ActionMove", TRUE)
             /\ flag = "XAWMState" => Valid(o, FALSE) = Valid(p, FALSE)
  BY <1>1, <1>9 DEF OnDesktop, Activities, ActionSupported, Valid
<1>10. CASE g = "name"
  <2>1. Needs[g] = {"WMName"}
    BY <1>10, NeedsOf
  <2>2. o.name = p.name
    BY <1>2, <2>1
  <2>3. /\ Answer("name", o) = o.name
        /\ Answer("name", p) = p.name
    BY AnswerOf
  <2> QED BY <1>10, <2>2, <2>3
<1>11. CASE g = "visibleName"
  <2>1. Needs[g] = {"WMVisibleName", "WMName"}
    BY <1>11, NeedsOf
  <2>2. VisibleName(o) = VisibleName(p)
    BY <1>4, <2>1
  <2>3. /\ Answer("visibleName", o) = VisibleName(o)
        /\ Answer("visibleName", p) = VisibleName(p)
    BY AnswerOf
  <2> QED BY <1>11, <2>2, <2>3
<1>12. CASE g = "visibleNameWithState"
  <2>1. Needs[g] = {"WMVisibleName", "WMName", "WMState", "XAWMState"}
    BY <1>12, NeedsOf
  <2>2. VisibleName(o) = VisibleName(p) /\ IsMinimized(o, TRUE) = IsMinimized(p, TRUE)
    BY <1>4, <1>6, <2>1
  <2>3. /\ Answer("visibleNameWithState", o) = <<VisibleName(o), IsMinimized(o, TRUE)>>
        /\ Answer("visibleNameWithState", p) = <<VisibleName(p), IsMinimized(p, TRUE)>>
    BY AnswerOf
  <2> QED BY <1>12, <2>2, <2>3
<1>13. CASE g = "visibleIconName"
  <2>1. Needs[g] = {"WMVisibleIconName", "WMIconName", "WMVisibleName", "WMName"}
    BY <1>13, NeedsOf
  <2>2. VisibleIconName(o) = VisibleIconName(p)
    BY <1>5, <2>1
  <2>3. /\ Answer("visibleIconName", o) = VisibleIconName(o)
        /\ Answer("visibleIconName", p) = VisibleIconName(p)
    BY AnswerOf
  <2> QED BY <1>13, <2>2, <2>3
<1>14. CASE g = "visibleIconNameWithState"
  <2>1. Needs[g] = {"WMVisibleIconName", "WMIconName", "WMVisibleName", "WMName", "WMState",
                       "XAWMState"}
    BY <1>14, NeedsOf
  <2>2. VisibleIconName(o) = VisibleIconName(p) /\ IsMinimized(o, TRUE) = IsMinimized(p, TRUE)
    BY <1>5, <1>6, <2>1
  <2>3. /\ Answer("visibleIconNameWithState", o) = <<VisibleIconName(o), IsMinimized(o, TRUE)>>
        /\ Answer("visibleIconNameWithState", p) = <<VisibleIconName(p), IsMinimized(p, TRUE)>>
    BY AnswerOf
  <2> QED BY <1>14, <2>2, <2>3
<1>15. CASE g = "isMinimized"
  <2>1. Needs[g] = {"WMState", "XAWMState"}
    BY <1>15, NeedsOf
  <2>2. /\ IsMinimized(o, TRUE) = IsMinimized(p, TRUE)
        /\ IsMinimized(o, FALSE) = IsMinimized(p, FALSE)
    BY <1>6, <2>1
  <2>3. /\ Answer("isMinimized", o) = <<IsMinimized(o, TRUE), IsMinimized(o, FALSE)>>
        /\ Answer("isMinimized", p) = <<IsMinimized(p, TRUE), IsMinimized(p, FALSE)>>
    BY AnswerOf
  <2> QED BY <1>15, <2>2, <2>3
<1>16. CASE g = "extendedStrut"
  <2>1. Needs[g] = {"WM2ExtendedStrut", "WMStrut"}
    BY <1>16, NeedsOf
  <2>2. ExtendedStrut(o) = ExtendedStrut(p)
    BY <1>7, <2>1
  <2>3. /\ Answer("extendedStrut", o) = ExtendedStrut(o)
        /\ Answer("extendedStrut", p) = ExtendedStrut(p)
    BY AnswerOf
  <2> QED BY <1>16, <2>2, <2>3
<1>17. CASE g = "windowType"
  <2>1. Needs[g] = {"WMWindowType", "WM2TransientFor"}
    BY <1>17, NeedsOf
  <2>2. Type(o, DOMAIN TypeNames) = Type(p, DOMAIN TypeNames)
    BY <1>8, <2>1
  <2>3. /\ Answer("windowType", o) = Type(o, DOMAIN TypeNames)
        /\ Answer("windowType", p) = Type(p, DOMAIN TypeNames)
    BY AnswerOf
  <2> QED BY <1>17, <2>2, <2>3
<1>18. CASE g = "isOnDesktop"
  <2>1. Needs[g] = {"WMDesktop"}
    BY <1>18, NeedsOf
  <2>2. [d \in Desktops |-> OnDesktop(o, d)] = [d \in Desktops |-> OnDesktop(p, d)]
    BY <1>9, <2>1
  <2>3. /\ Answer("isOnDesktop", o) = [d \in Desktops |-> OnDesktop(o, d)]
        /\ Answer("isOnDesktop", p) = [d \in Desktops |-> OnDesktop(p, d)]
    BY AnswerOf
  <2> QED BY <1>18, <2>2, <2>3
<1>19. CASE g = "activities"
  <2>1. Needs[g] = {"WM2Activities"}
    BY <1>19, NeedsOf
  <2>2. Activities(o) = Activities(p)
    BY <1>9, <2>1
  <2>3. /\ Answer("activities", o) = Activities(o)
        /\ Answer("activities", p) = Activities(p)
    BY AnswerOf
  <2> QED BY <1>19, <2>2, <2>3
<1>20. CASE g = "actionSupported"
  <2>1. Needs[g] = {"WM2AllowedActions"}
    BY <1>20, NeedsOf
  <2>2. ActionSupported(o, "ActionMove", TRUE) = ActionSupported(p, "ActionMove", TRUE)
    BY <1>9, <2>1
  <2>3. /\ Answer("actionSupported", o) = ActionSupported(o, "ActionMove", TRUE)
        /\ Answer("actionSupported", p) = ActionSupported(p, "ActionMove", TRUE)
    BY AnswerOf
  <2> QED BY <1>20, <2>2, <2>3
<1>21. CASE g = "valid"
  <2>1. Needs[g] = {"XAWMState"}
    BY <1>21, NeedsOf
  <2>2. Valid(o, FALSE) = Valid(p, FALSE)
    BY <1>9, <2>1
  <2>3. /\ Answer("valid", o) = Valid(o, FALSE)
        /\ Answer("valid", p) = Valid(p, FALSE)
    BY AnswerOf
  <2> QED BY <1>21, <2>2, <2>3
<1>22. CASE g = "iconName"
  <2>1. Needs[g] = {"WMIconName", "WMName"}
    BY <1>22, NeedsOf
  <2>2. o.info["WMIconName"] = p.info["WMIconName"] /\ o.iconic = p.iconic /\ o.name = p.name
    BY <1>1, <1>2, <1>3, <2>1
  <2>3. IconName(o) = IconName(p)
    BY <2>2 DEF IconName
  <2>4. /\ Answer("iconName", o) = IconName(o)
        /\ Answer("iconName", p) = IconName(p)
    BY AnswerOf
  <2> QED BY <1>22, <2>3, <2>4
<1>23. CASE g = "applicationMenuServiceName"
  <2>1. Needs[g] = {"WM2AppMenuServiceName"}
    BY <1>23, NeedsOf
  <2>2. o.info["WM2AppMenuServiceName"] = p.info["WM2AppMenuServiceName"]
    BY <1>1, <2>1
  <2>3. /\ Answer("applicationMenuServiceName", o) = o.info["WM2AppMenuServiceName"]
        /\ Answer("applicationMenuServiceName", p) = p.info["WM2AppMenuServiceName"]
    BY AnswerOf
  <2> QED BY <1>23, <2>2, <2>3
<1>24. CASE g = "applicationMenuObjectPath"
  <2>1. Needs[g] = {"WM2AppMenuObjectPath"}
    BY <1>24, NeedsOf
  <2>2. o.info["WM2AppMenuObjectPath"] = p.info["WM2AppMenuObjectPath"]
    BY <1>1, <2>1
  <2>3. /\ Answer("applicationMenuObjectPath", o) = o.info["WM2AppMenuObjectPath"]
        /\ Answer("applicationMenuObjectPath", p) = p.info["WM2AppMenuObjectPath"]
    BY AnswerOf
  <2> QED BY <1>24, <2>2, <2>3
<1> QED
  BY <1>10, <1>11, <1>12, <1>13, <1>14, <1>15, <1>16, <1>17, <1>18, <1>19, <1>20, <1>21,
     <1>22, <1>23, <1>24
     DEF Getters

\* A getter of KWindowInfo that does more than to return what was read for its flag says
\* the same with the flags of the table Getters as with all of them: together with those
\* that the constructor adds they are those of every property the getter falls back on.
\* The table has what kwindowinfo.h asks for, and more for iconName() and the two
\* getters of the application menu, where that is not enough.
THEOREM GettersAlwaysSuffice == Spec => []GettersSuffice
<1>1. GettersSuffice
  BY NeedsForced, SameAnswer DEF GettersSuffice, Suffices, AllFlags
<1> QED
  BY <1>1, PTL

-----------------------------------------------------------------------------
(* What an object knows of a property, or will know                        *)

IsGet(r, atom) == r.op = "get" /\ r.atom = atom
IsSet(r, flag) == r.op = "set" /\ FlagOf(r.atom) = flag

\* An event in the queue q; a request in the list s that changes the property, or
\* requests that read it, the second property after the first; f says what is there.
Told(q, flag) == \E i \in 1..Len(q) : q[i].type = "PROPERTY" /\ FlagOf(q[i].data) = flag
WillSet(s, flag) == \E i \in 1..Len(s) : IsSet(s[i], flag)
WillRead(s, f, p, flag) ==
  IF flag \in Paired
    THEN \E j \in 1..Len(s) : /\ IsGet(s[j], Second(flag))
                              /\ \/ f = Read(flag, 0, p[flag])
                                 \/ \E i \in 1..Len(s) : i < j /\ IsGet(s[i], flag)
    ELSE \E j \in 1..Len(s) : IsGet(s[j], flag)
UpToDate(f, p, flag) == f = ReadAll(flag, 0, p[flag], p[Second(flag)])
View(q, s, f, p, flag) ==
  Told(q, flag) \/ WillSet(s, flag) \/ WillRead(s, f, p, flag) \/ UpToDate(f, p, flag)

\* Requests for the first of two properties are followed by those for the second.
GetsPaired(s) ==
  \A i \in 1..Len(s), flag \in Paired :
    IsGet(s[i], flag) => \E j \in 1..Len(s) : i < j /\ IsGet(s[j], Second(flag))

LEMMA ToldAppend ==
  ASSUME NEW q, IsList(q), NEW m, NEW flag,
         Told(q, flag) \/ (m.type = "PROPERTY" /\ FlagOf(m.data) = flag)
  PROVE  Told(Append(q, m), flag)
<1>1. PICK n \in Nat : n = Len(q)
  BY ListLength
<1>2. PICK t : t = Append(q, m)
  OBVIOUS
<1>3. Len(t) = n + 1 /\ t[n + 1] = m /\ \A i \in 1..n : t[i] = q[i]
  BY <1>1, <1>2, ListAppend
<1>4. CASE Told(q, flag)
  <2>1. PICK i \in 1..n : q[i].type = "PROPERTY" /\ FlagOf(q[i].data) = flag
    BY <1>1, <1>4 DEF Told
  <2>2. i \in 1..(n + 1) /\ t[i] = q[i]
    BY <1>3
  <2> QED BY <1>2, <1>3, <2>1, <2>2 DEF Told
<1>5. CASE m.type = "PROPERTY" /\ FlagOf(m.data) = flag
  <2>1. n + 1 \in 1..(n + 1)
    OBVIOUS
  <2> QED BY <1>2, <1>3, <1>5, <2>1 DEF Told
<1> QED BY <1>4, <1>5

LEMMA ToldTail ==
  ASSUME NEW q, IsList(q), q # <<>>, NEW flag, Told(q, flag),
         ~(Head(q).type = "PROPERTY" /\ FlagOf(Head(q).data) = flag)
  PROVE  Told(Tail(q), flag)
<1>1. PICK n, t : n \in Nat /\ n = Len(q) /\ t = Tail(q)
  BY ListLength
<1>2. Len(t) = n - 1 /\ Head(q) = q[1] /\ \A i \in 1..(n - 1) : t[i] = q[i + 1]
  BY <1>1, ListTail
<1>3. PICK i \in 1..n : q[i].type = "PROPERTY" /\ FlagOf(q[i].data) = flag
  BY <1>1 DEF Told
<1>4. i # 1
  BY <1>2, <1>3
<1>5. i - 1 \in 1..(n - 1) /\ i - 1 + 1 = i
  BY <1>1, <1>4
<1>6. t[i - 1] = q[i]
  BY <1>2, <1>5
<1> QED BY <1>1, <1>2, <1>3, <1>5, <1>6 DEF Told

\* Requests about something else
LEMMA ViewTail ==
  ASSUME NEW q, NEW s, IsList(s), s # <<>>, NEW f, NEW p, NEW flag \in Known,
         View(q, s, f, p, flag), ~IsSet(Head(s), flag),
         ~IsGet(Head(s), flag), flag \in Paired => ~IsGet(Head(s), Second(flag))
  PROVE  View(q, Tail(s), f, p, flag)
<1>1. PICK n : n = Len(s)
  OBVIOUS
<1>2. PICK t : t = Tail(s)
  OBVIOUS
<1>3. /\ Len(t) = n - 1 /\ n \in Nat \ {0} /\ Head(s) = s[1]
      /\ \A i \in 1..(n - 1) : t[i] = s[i + 1]
  BY <1>1, <1>2, ListTail
<1>4. \A i \in 1..n : i # 1 => i - 1 \in 1..(n - 1) /\ t[i - 1] = s[i]
  <2> TAKE i \in 1..n
  <2> HAVE i # 1
  <2>1. i - 1 \in 1..(n - 1) /\ i - 1 + 1 = i
    BY <1>3
  <2> QED BY <1>3, <2>1
<1>5. ASSUME WillSet(s, flag) PROVE WillSet(t, flag)
  <2>1. PICK i \in 1..n : IsSet(s[i], flag)
    BY <1>1, <1>5 DEF WillSet
  <2>2. i # 1
    BY <1>3, <2>1
  <2> QED BY <1>3, <1>4, <2>1, <2>2 DEF WillSet
<1>6. ASSUME WillRead(s, f, p, flag) PROVE WillRead(t, f, p, flag)
  <2>1. CASE flag \notin Paired
    <3>1. PICK i \in 1..n : IsGet(s[i], flag)
      BY <1>1, <1>6, <2>1 DEF WillRead
    <3>2. i # 1
      BY <1>3, <3>1
    <3> QED BY <1>3, <1>4, <2>1, <3>1, <3>2 DEF WillRead
  <2>2. CASE flag \in Paired
    <3>1. PICK j \in 1..n : /\ IsGet(s[j], Second(flag))
                            /\ \/ f = Read(flag, 0, p[flag])
                               \/ \E i \in 1..n : i < j /\ IsGet(s[i], flag)
      BY <1>1, <1>6, <2>2 DEF WillRead
    <3>2. j # 1
      BY <1>3, <2>2, <3>1
    <3>3. j - 1 \in 1..(n - 1) /\ IsGet(t[j - 1], Second(flag))
      BY <1>4, <3>1, <3>2
    <3>4. CASE f = Read(flag, 0, p[flag])
      BY <1>3, <2>2, <3>3, <3>4 DEF WillRead
    <3>5. CASE \E i \in 1..n : i < j /\ IsGet(s[i], flag)
      <4>1. PICK i \in 1..n : i < j /\ IsGet(s[i], flag)
        BY <3>5
      <4>2. i # 1
        BY <1>3, <4>1
      <4>3. i - 1 \in 1..(n - 1) /\ IsGet(t[i - 1], flag) /\ i - 1 < j - 1
        BY <1>3, <1>4, <4>1, <4>2
      <4> QED BY <1>3, <2>2, <3>3, <4>3 DEF WillRead
    <3> QED BY <3>1, <3>4, <3>5
  <2> QED BY <2>1, <2>2
<1> QED BY <1>2, <1>5, <1>6 DEF View

\* What a field had before does not matter, except to the second of two properties.
LEMMA ReadFirst ==
  ASSUME NEW flag \in Known, NEW f, NEW r
  PROVE  Read(flag, f, r) = Read(flag, 0, r)
<1>1. CASE flag \in Single
  BY <1>1, SingleRead
<1>2. CASE flag = "WMFrameExtents"
  <2>1. \A g : Read("WMFrameExtents", g, r)
                 = IF GetArrayReply(r, "CARDINAL") = <<>> THEN <<>> ELSE ReadTuple(r, 4, NoStrut)
    BY ReadOf
  <2> QED BY <1>2, <2>1
<1>3. CASE flag = "WM2BlockCompositing"
  <2>1. \A g : Read("WM2BlockCompositing", g, r) = (GetValueReply(r, "CARDINAL", 0) # 0)
    BY ReadOf
  <2>2. PICK on : on = (GetValueReply(r, "CARDINAL", 0) # 0)
    OBVIOUS
  <2>3. \A g : Read("WM2BlockCompositing", g, r) = on
    BY <2>1, <2>2
  <2> QED BY <1>3, <2>3
<1> QED BY <1>1, <1>2, <1>3, KnownAre DEF Paired

\* Reading the second property once more changes nothing.
LEMMA ReadSecond ==
  ASSUME NEW flag \in Paired, NEW f, NEW r
  PROVE  Read(Second(flag), Read(Second(flag), f, r), r) = Read(Second(flag), f, r)
<1>1. CASE flag = "WMFrameExtents"
  <2>1. PICK v : v = ReadTuple(r, 4, NoStrut)
    OBVIOUS
  <2>2. \A g : Read("_KDE_NET_WM_FRAME_STRUT", g, r) = IF g = <<>> THEN v ELSE g
    BY <2>1, ReadOf
  <2>3. Second(flag) = "_KDE_NET_WM_FRAME_STRUT"
    BY <1>1 DEF Second
  <2>4. CASE f = <<>>
    BY <2>2, <2>3, <2>4
  <2>5. CASE f # <<>>
    BY <2>2, <2>3, <2>5
  <2> QED BY <2>4, <2>5
<1>2. CASE flag = "WM2BlockCompositing"
  <2>1. PICK n : n = GetValueReply(r, "CARDINAL", 0)
    OBVIOUS
  <2>2. \A g : Read("WM_BYPASS_COMPOSITOR", g, r) = ReadBypassCompositor(g, r)
    BY ReadOf
  <2>3. Second(flag) = "WM_BYPASS_COMPOSITOR"
    BY <1>2 DEF Second
  <2>4. CASE n = 1
    <3>1. \A g : ReadBypassCompositor(g, r) = TRUE
      BY <2>1, <2>4 DEF ReadBypassCompositor
    <3>2. \A g : Read("WM_BYPASS_COMPOSITOR", g, r) = TRUE
      BY <2>2, <3>1
    <3> QED BY <2>3, <3>2
  <2>5. CASE n = 2
    <3>1. \A g : ReadBypassCompositor(g, r) = FALSE
      BY <2>1, <2>5 DEF ReadBypassCompositor
    <3>2. \A g : Read("WM_BYPASS_COMPOSITOR", g, r) = FALSE
      BY <2>2, <3>1
    <3> QED BY <2>3, <3>2
  <2>6. CASE n # 1 /\ n # 2
    BY <2>1, <2>2, <2>3, <2>6 DEF ReadBypassCompositor
  <2> QED BY <2>4, <2>5, <2>6
<1> QED BY <1>1, <1>2 DEF Paired

LEMMA SecondOf ==
  ASSUME NEW flag \in Paired
  PROVE  FlagOf(Second(flag)) = flag /\ Second(flag) # flag /\ FlagOf(flag) = flag
BY FlagIs DEF Paired, Second

\* The atoms of a flag
LEMMA AtomsOfFlag ==
  ASSUME NEW atom, NEW flag, FlagOf(atom) = flag
  PROVE  /\ atom = flag \/ (flag \in Paired /\ atom = Second(flag))
BY FlagIs DEF Paired, Second

\* One of the requests that read a property
LEMMA ViewRead ==
  ASSUME NEW q, NEW s, IsList(s), s # <<>>, NEW f, NEW p, NEW flag \in Known,
         View(q, s, f, p, flag), GetsPaired(s),
         Head(s).op = "get", FlagOf(Head(s).atom) = flag
  PROVE  View(q, Tail(s), Read(Head(s).atom, f, p[Head(s).atom]), p, flag)
<1>1. PICK n, t, atom : n = Len(s) /\ t = Tail(s) /\ atom = Head(s).atom
  OBVIOUS
<1>2. /\ Len(t) = n - 1 /\ n \in Nat \ {0} /\ Head(s) = s[1]
      /\ \A i \in 1..(n - 1) : t[i] = s[i + 1]
  BY <1>1, ListTail
<1>3. \A i \in 1..n : i # 1 => i - 1 \in 1..(n - 1) /\ t[i - 1] = s[i]
  <2> TAKE i \in 1..n
  <2> HAVE i # 1
  <2>1. i - 1 \in 1..(n - 1) /\ i - 1 + 1 = i
    BY <1>2
  <2> QED BY <1>2, <2>1
<1>4. atom = flag \/ (flag \in Paired /\ atom = Second(flag))
  BY <1>1, AtomsOfFlag
<1>5. ASSUME WillSet(s, flag) PROVE WillSet(t, flag)
  <2>1. PICK i \in 1..n : IsSet(s[i], flag)
    BY <1>1, <1>5 DEF WillSet
  <2>2. i # 1
    BY <1>2, <2>1 DEF IsSet
  <2> QED BY <1>2, <1>3, <2>1, <2>2 DEF WillSet
<1>6. PICK g : g = Read(atom, f, p[atom])
  OBVIOUS
<1>7. CASE flag \notin Paired
  <2>1. atom = flag
    BY <1>4, <1>7
  <2>2. UpToDate(g, p, flag)
    BY <1>6, <1>7, <2>1, ReadFirst DEF UpToDate, ReadAll
  <2> QED BY <1>1, <1>6, <2>2 DEF View
<1>8. CASE flag \in Paired /\ atom = flag
  <2>1. g = Read(flag, 0, p[flag])
    BY <1>6, <1>8, ReadFirst
  <2>2. 1 \in 1..n /\ IsGet(s[1], flag)
    BY <1>1, <1>2, <1>8 DEF IsGet
  <2>3. PICK j \in 1..n : 1 < j /\ IsGet(s[j], Second(flag))
    BY <1>1, <1>8, <2>2 DEF GetsPaired
  <2>4. j - 1 \in 1..(n - 1) /\ IsGet(t[j - 1], Second(flag))
    BY <1>3, <2>3
  <2>5. WillRead(t, g, p, flag)
    BY <1>2, <1>8, <2>1, <2>4 DEF WillRead
  <2> QED BY <1>1, <1>6, <2>5 DEF View
<1>9. CASE flag \in Paired /\ atom = Second(flag)
  <2>1. ASSUME f = Read(flag, 0, p[flag]) PROVE UpToDate(g, p, flag)
    BY <1>6, <1>9, <2>1 DEF UpToDate, ReadAll
  <2>2. ASSUME UpToDate(f, p, flag) PROVE UpToDate(g, p, flag)
    <3>1. PICK h, r : h = Read(flag, 0, p[flag]) /\ r = p[Second(flag)]
      OBVIOUS
    <3>2. f = Read(Second(flag), h, r)
      BY <1>9, <2>2, <3>1 DEF UpToDate, ReadAll
    <3>3. g = f
      BY <1>6, <1>9, <3>1, <3>2, ReadSecond
    <3> QED BY <2>2, <3>3
  <2>3. ASSUME WillRead(s, f, p, flag) PROVE WillRead(t, g, p, flag) \/ UpToDate(g, p, flag)
    <3>1. PICK j \in 1..n : /\ IsGet(s[j], Second(flag))
                            /\ \/ f = Read(flag, 0, p[flag])
                               \/ \E i \in 1..n : i < j /\ IsGet(s[i], flag)
      BY <1>1, <1>9, <2>3 DEF WillRead
    <3>2. CASE f = Read(flag, 0, p[flag])
      BY <2>1, <3>2
    <3>3. CASE \E i \in 1..n : i < j /\ IsGet(s[i], flag)
      <4>1. PICK i \in 1..n : i < j /\ IsGet(s[i], flag)
        BY <3>3
      <4>2. i # 1
        BY <1>1, <1>2, <1>9, <4>1, SecondOf DEF IsGet
      <4>3. j # 1 /\ i - 1 < j - 1
        BY <4>1
      <4>4. j - 1 \in 1..(n - 1) /\ IsGet(t[j - 1], Second(flag))
        BY <1>3, <3>1, <4>3
      <4>5. i - 1 \in 1..(n - 1) /\ IsGet(t[i - 1], flag)
        BY <1>3, <4>1, <4>2
      <4> QED BY <1>2, <1>9, <4>3, <4>4, <4>5 DEF WillRead
    <3> QED BY <3>1, <3>2, <3>3
  <2> QED BY <1>1, <1>5, <1>6, <2>2, <2>3 DEF View
<1> QED BY <1>4, <1>7, <1>8, <1>9

\* A property of another flag is changed.
LEMMA ViewOther ==
  ASSUME NEW q, NEW s, NEW f, NEW p, NEW r, NEW flag,
         View(q, s, f, p, flag), r[flag] = p[flag],
         flag \in Paired => r[Second(flag)] = p[Second(flag)]
  PROVE  View(q, s, f, r, flag)
<1>1. CASE flag \in Paired
  BY <1>1 DEF View, WillRead, UpToDate, ReadAll
<1>2. CASE flag \notin Paired
  BY <1>2 DEF View, WillRead, UpToDate, ReadAll
<1> QED BY <1>1, <1>2

\* An agent that had nothing to do gets a list; it may change a field that it will set.
LEMMA ViewNew ==
  ASSUME NEW q, NEW s, NEW f, NEW g, NEW p, NEW flag,
         View(q, <<>>, f, p, flag), g = f \/ WillSet(s, flag)
  PROVE  View(q, s, g, p, flag)
<1>1. 1..Len(<<>>) = {}
  OBVIOUS
<1>2. Told(q, flag) \/ UpToDate(f, p, flag)
  BY <1>1 DEF View, WillSet, WillRead
<1> QED BY <1>2 DEF View

\* An event about something else
LEMMA ViewDispatch ==
  ASSUME NEW q, IsList(q), q # <<>>, NEW s, NEW f, NEW p, NEW flag, View(q, s, f, p, flag),
         ~(Head(q).type = "PROPERTY" /\ FlagOf(Head(q).data) = flag)
  PROVE  View(Tail(q), s, f, p, flag)
BY ToldTail DEF View

\* The two properties of a flag are next to each other.
LEMMA PairsInOrder ==
  ASSUME NEW flag \in Paired, NEW k \in 1..36, Order[k] = flag
  PROVE  k + 1 \in 1..36 /\ Order[k + 1] = Second(flag)
<1>1. CASE flag = "WMFrameExtents"
  <2>1. k = 14
    BY <1>1 DEF Order
  <2> QED BY <1>1, <2>1 DEF Order, Second
<1>2. CASE flag = "WM2BlockCompositing"
  <2>1. k = 18
    BY <1>2 DEF Order
  <2> QED BY <1>2, <2>1 DEF Order, Second
<1> QED BY <1>1, <1>2 DEF Paired

\* update() reads every property of the flags in question, in the order of replies.
LEMMA UpdateIs ==
  ASSUME NEW a, NEW flags, NEW wanted,
         wanted = (flags \cap passed[a]) \cup (flags \cap {"XAWMState"})
  PROVE  /\ IsList(Update(a, flags))
         /\ \A i \in 1..Len(Update(a, flags)) :
              /\ Update(a, flags)[i].op = "get"
              /\ Update(a, flags)[i].atom \in Atoms /\ FlagOf(Update(a, flags)[i].atom) \in wanted
         /\ \A atom \in ToSet(Order) : FlagOf(atom) \in wanted =>
              \E i \in 1..Len(Update(a, flags)) : IsGet(Update(a, flags)[i], atom)
         /\ GetsPaired(Update(a, flags))
<1>1. PICK S : S = {atom \in Atoms : FlagOf(atom) \in wanted}
  OBVIOUS
<1>2. PICK atoms : atoms = Those(Order, S)
  OBVIOUS
<1>3. atoms \in Seq(Atoms \cap S) /\ InOrder(Order, S, atoms)
  BY <1>2, OrderedAtoms, ThoseInOrder
<1>4. PICK u : u = Update(a, flags)
  OBVIOUS
<1>5. u = [i \in DOMAIN atoms |-> Get(atoms[i])]
  BY <1>1, <1>2, <1>4 DEF Update
<1>6. PICK n \in Nat : n = Len(atoms)
  BY <1>3
<1>7. /\ IsList(u) /\ Len(u) = n
      /\ \A i \in 1..n : u[i].op = "get" /\ u[i].atom = atoms[i] /\ atoms[i] \in Atoms \cap S
  <2>1. DOMAIN atoms = 1..n /\ \A i \in 1..n : atoms[i] \in Atoms \cap S
    BY <1>3, <1>6
  <2>2. PICK T : T = {Get(atom) : atom \in Atoms}
    OBVIOUS
  <2>3. u \in [1..n -> T]
    BY <1>5, <2>1, <2>2
  <2>4. u \in Seq(T) /\ Len(u) = n
    BY <2>3, SeqDef
  <2>5. \A i \in 1..n : u[i] = Get(atoms[i])
    BY <1>5, <2>1
  <2> QED BY <2>1, <2>4, <2>5 DEF IsList, Get
<1>8. ASSUME NEW atom \in ToSet(Order), FlagOf(atom) \in wanted
      PROVE  \E i \in 1..n : IsGet(u[i], atom)
  <2>1. PICK k \in 1..36 : atom = Order[k]
    BY OrderedAtoms DEF ToSet
  <2>2. atom \in S
    BY <1>1, <1>8, <2>1, OrderedAtoms
  <2>3. PICK i \in 1..n : atoms[i] = atom
    BY <1>3, <1>6, <2>1, <2>2, OrderedAtoms DEF InOrder
  <2> QED BY <1>7, <2>3 DEF IsGet
<1>9. ASSUME NEW i \in 1..n, NEW flag \in Paired, IsGet(u[i], flag)
      PROVE  \E j \in 1..n : i < j /\ IsGet(u[j], Second(flag))
  <2>1. atoms[i] = flag /\ FlagOf(flag) \in wanted
    BY <1>1, <1>7, <1>9 DEF IsGet
  <2>2. PICK k \in 1..36 : /\ flag = Order[k]
                           /\ \A l \in 1..36 : k < l /\ Order[l] \in S =>
                                \E j \in 1..n : i < j /\ atoms[j] = Order[l]
    <3>1. \E k \in 1..Len(Order) :
             atoms[i] = Order[k] /\ \A l \in 1..Len(Order) :
               k < l /\ Order[l] \in S => \E j \in 1..Len(atoms) : i < j /\ atoms[j] = Order[l]
      BY <1>3, <1>6 DEF InOrder
    <3> QED BY <1>6, <2>1, <3>1, OrderedAtoms
  <2>3. k + 1 \in 1..36 /\ Order[k + 1] = Second(flag)
    BY <2>2, PairsInOrder
  <2>4. Order[k + 1] \in S
    BY <1>1, <2>1, <2>3, SecondOf, OrderedAtoms
  <2>5. PICK j \in 1..n : i < j /\ atoms[j] = Second(flag)
    BY <2>2, <2>3, <2>4
  <2> QED BY <1>7, <2>5 DEF IsGet
<1>10. \A i \in 1..n : FlagOf(u[i].atom) \in wanted
  BY <1>1, <1>7
<1>11. GetsPaired(u)
  BY <1>7, <1>9 DEF GetsPaired
<1> QED BY <1>4, <1>7, <1>8, <1>10, <1>11

-----------------------------------------------------------------------------
(* The invariant                                                           *)

\* The one that writes the two properties of a flag
Owner(flag) == IF flag = "WMFrameExtents" THEN wm ELSE client

GoodMessage(m) ==
  /\ m.type = "STATE" => m.data.atoms \subseteq DOMAIN StateFlag
  /\ m.type = "DESKTOP" => m.data[1] \in 0..(Word - 1)
  /\ m.type = "FULLSCREEN_MONITORS" => \E v \in [1..4 -> Ints] : m.data = Unsigneds(v)

GoodQueue(q) == IsList(q) /\ \A i \in 1..Len(q) : GoodMessage(q[i])

GoodFields(f) ==
  /\ DOMAIN f = Flags
  /\ f["WMState"] \subseteq DOMAIN StateAtoms
  /\ GoodIcons(f["WMIcon"])

\* A request that sets a property says what the setter was called with.
RightSet(a, r) ==
  /\ r.atom \in Atoms
  /\ FlagOf(r.atom) \in Others => Says(FlagOf(r.atom), r.property, r.value)
  /\ FlagOf(r.atom) = "WMIcon" => GoodIconProperty(r.property)
  /\ FlagOf(r.atom) \in Paired => a = Owner(FlagOf(r.atom))

GoodRequest(a, r) ==
  /\ r.op = "set" => RightSet(a, r)
  /\ r.op = "get" => r.atom \in Atoms
  /\ r.op = "send" => GoodMessage(r.message)
  /\ r.op = "setState" => r.state \subseteq DOMAIN StateAtoms /\ r.mask \subseteq DOMAIN StateAtoms
  /\ r.op = "setDesktop" => r.desktop \in -1..(Word - 1)

\* A decision is the last thing to do.
GoodList(a, s) ==
  /\ IsList(s) /\ \A i \in 1..Len(s) : GoodRequest(a, s[i])
  /\ \A i \in 1..Len(s) : s[i].op \in {"setState", "setDesktop"} => i = Len(s)
  /\ GetsPaired(s)

\* Two properties of a flag: both are to be set to the same, or the second one to what
\* the first one is, or they are the same.
BothToSet(s, flag) ==
  \E x, y : /\ s = <<x, y>> /\ x.op = "set" /\ y.op = "set"
            /\ x.atom = flag /\ y.atom = Second(flag)
            /\ x.property = y.property /\ x.value = y.value
            /\ Says(flag, x.property, x.value)
OneToSet(s, p, flag) ==
  \E y : /\ s = <<y>> /\ y.op = "set" /\ y.atom = Second(flag)
         /\ y.property = p[flag] /\ Says(flag, p[flag], y.value)
Phase(s, p, flag) ==
  \/ ~WillSet(s, flag) /\ p[Second(flag)] = p[flag]
  \/ BothToSet(s, flag) \/ OneToSet(s, p, flag)

Means(m, p, flag) == m = Nothing \/ \E v : m = {v} /\ Says(flag, p, v)

Understanding ==
  /\ alive \subseteq Agents /\ topic \subseteq Flags
  /\ DOMAIN property = Atoms /\ DOMAIN meant = Flags
  /\ DOMAIN queue = Agents /\ DOMAIN fields = Agents /\ DOMAIN todo = Agents
  /\ client \notin alive => todo[client] = <<>>
  /\ GoodIconProperty(property["WMIcon"])
  /\ \A a \in Agents : GoodQueue(queue[a]) /\ GoodFields(fields[a]) /\ GoodList(a, todo[a])
  /\ \A flag \in Known : Means(meant[flag], property[flag], flag)
  /\ \A flag \in Paired : Phase(todo[Owner(flag)], property, flag)
  /\ \A a \in alive : \A flag \in passed[a] \cap Known :
       View(queue[a], todo[a], fields[a][flag], property, flag)

LEMMA KnownAtoms ==
  /\ Known \subseteq Flags /\ Known \subseteq Atoms /\ Known \subseteq ToSet(Order)
  /\ Paired \subseteq Known
  /\ \A flag \in Paired : Second(flag) \in Atoms /\ Second(flag) \in ToSet(Order)
  /\ Flags \subseteq Atoms /\ \A atom \in Atoms : FlagOf(atom) \in Flags
<1>1. /\ Order[14] = "WMFrameExtents" /\ Order[15] = "_KDE_NET_WM_FRAME_STRUT"
      /\ Order[18] = "WM2BlockCompositing" /\ Order[19] = "WM_BYPASS_COMPOSITOR"
  BY DEF Order
<1>2. \A i \in 1..36 : Order[i] \in ToSet(Order)
  BY OrderedAtoms DEF ToSet
<1>3. /\ 14 \in 1..36 /\ 15 \in 1..36 /\ 18 \in 1..36 /\ 19 \in 1..36
  OBVIOUS
<1>4. /\ {"WMFrameExtents", "_KDE_NET_WM_FRAME_STRUT", "WM2BlockCompositing",
          "WM_BYPASS_COMPOSITOR"} \subseteq ToSet(Order)
  BY <1>1, <1>2, <1>3
<1>5. ToSet(Order) \subseteq Atoms
  BY DEF Atoms
<1>6. \A atom \in Atoms : FlagOf(atom) \in Flags
  BY DEF Flags
<1>7. \A atom \in Atoms : FlagOf(atom) \in Atoms
  <2> TAKE atom \in Atoms
  <2>1. FlagOf(atom) = atom \/ FlagOf(atom) \in Paired
    BY AtomsOfFlag, FlagIs DEF Paired
  <2> QED BY <1>4, <1>5, <2>1 DEF Paired
<1>8. Flags \subseteq Atoms
  BY <1>7 DEF Flags
<1>9. Paired \subseteq Known
  <2>1. \A flag \in Paired : flag \in ToSet(Order) /\ FlagOf(flag) = flag /\ flag # "Hints"
    BY <1>4, SecondOf DEF Paired
  <2> QED BY <1>5, <1>6, <2>1 DEF Known
<1> QED BY <1>4, <1>5, <1>6, <1>8, <1>9 DEF Known, Paired, Second

LEMMA NothingToDo == ASSUME NEW a PROVE GoodList(a, <<>>) /\ \A flag : ~WillSet(<<>>, flag)
<1>1. Len(<<>>) = 0 /\ 1..0 = {}
  OBVIOUS
<1> QED BY <1>1, ShortLists DEF GoodList, GetsPaired, WillSet

LEMMA IconIsFlag == "WMIcon" \in Flags
<1>1. Order[13] = "WMIcon" /\ 13 \in 1..36
  BY DEF Order
<1>2. "WMIcon" \in Atoms
  BY <1>1, OrderedAtoms
<1>3. FlagOf("WMIcon") = "WMIcon"
  BY FlagIs
<1> QED BY <1>2, <1>3, KnownAtoms

LEMMA NewFieldsGood == GoodFields(NewFields)
<1>1. "WMState" \in Flags /\ "WMIcon" \in Flags
  BY UsedFlags, IconIsFlag DEF Used, AllFlags
<1>2. DOMAIN NewFields = Flags /\ NewFields["WMState"] = {}
  <2>1. DOMAIN NewFields = Flags
    BY DEF NewFields
  <2>2. NewFields["WMState"] = {}
    BY <1>1 DEF NewFields, Texts, Utf8Texts, LatinTexts, NameAtoms, Four
  <2> QED BY <2>1, <2>2
<1>3. NewFields["WMIcon"] = NoIcons
  BY <1>1 DEF NewFields, Texts, Utf8Texts, LatinTexts, NameAtoms, Four
<1>4. GoodIcons(NoIcons)
  <2>1. <<>> \in Seq(Icons) /\ Len(<<>>) = 0
    OBVIOUS
  <2>2. PICK s \in Seq(Icons) : s = <<>>
    BY <2>1
  <2> QED BY <2>1, <2>2, ListOfIcons DEF NoIcons
<1> QED BY <1>2, <1>3, <1>4 DEF GoodFields

LEMMA UnderstandingAtFirst == Init => Understanding
<1> SUFFICES ASSUME Init PROVE Understanding
  OBVIOUS
<1>1. alive = {} /\ topic \in Topics
  BY DEF Init
<1>2. topic \subseteq Flags
  BY <1>1, NETWinInfoAssumption
<1>3. /\ property = [atom \in Atoms |-> NoProperty] /\ meant = [flag \in Flags |-> Nothing]
      /\ queue = [a \in Agents |-> <<>>] /\ fields = [a \in Agents |-> NewFields]
      /\ todo = [a \in Agents |-> <<>>]
  BY DEF Init
<1>4. \A atom \in Atoms : property[atom] = NoProperty
  BY <1>3
<1>5. GoodIconProperty(property["WMIcon"])
  <2>1. "WMIcon" \in Atoms
    BY KnownAtoms, IconIsFlag
  <2> QED BY <1>4, <2>1 DEF GoodIconProperty
<1>6. ASSUME NEW a \in Agents
      PROVE  GoodQueue(queue[a]) /\ GoodFields(fields[a]) /\ GoodList(a, todo[a])
  <2>1. queue[a] = <<>> /\ fields[a] = NewFields /\ todo[a] = <<>>
    BY <1>3
  <2>2. Len(<<>>) = 0 /\ 1..0 = {}
    OBVIOUS
  <2>3. GoodQueue(<<>>)
    BY <2>2, ShortLists DEF GoodQueue
  <2> QED BY <2>1, <2>3, NothingToDo, NewFieldsGood
<1>7. \A flag \in Known : Means(meant[flag], property[flag], flag)
  BY <1>3, KnownAtoms DEF Means
<1>8. \A flag \in Paired : Phase(todo[Owner(flag)], property, flag)
  <2> TAKE flag \in Paired
  <2>1. Owner(flag) \in Agents
    BY DEF Owner, Agents
  <2>2. todo[Owner(flag)] = <<>>
    BY <1>3, <2>1
  <2>3. property[Second(flag)] = property[flag]
    BY <1>4, KnownAtoms
  <2> QED BY <2>2, <2>3, NothingToDo DEF Phase
<1>8a. todo[client] = <<>>
  BY <1>3 DEF Agents
<1>9. DOMAIN property = Atoms /\ DOMAIN meant = Flags /\ DOMAIN queue = Agents
      /\ DOMAIN fields = Agents /\ DOMAIN todo = Agents
  BY <1>3
<1> QED BY <1>1, <1>2, <1>5, <1>6, <1>7, <1>8, <1>8a, <1>9 DEF Understanding

\* The list L is as good as the one that an agent has: what changes is its own.
Unread(L, flag) ==
  IF flag \in Paired
    THEN \E j \in 1..Len(L) : /\ IsGet(L[j], Second(flag))
                              /\ \E i \in 1..Len(L) : i < j /\ IsGet(L[i], flag)
    ELSE \E j \in 1..Len(L) : IsGet(L[j], flag)

LEMMA UnreadView ==
  ASSUME NEW q, NEW L, NEW f, NEW p, NEW flag, Unread(L, flag)
  PROVE  View(q, L, f, p, flag)
<1>1. WillRead(L, f, p, flag)
  BY DEF Unread, WillRead
<1> QED BY <1>1 DEF View

\* There is no request for a property in a list that has only a decision left.
Idle(s) == \A i \in 1..Len(s) : s[i].op \in {"setState", "setDesktop"}

LEMMA IdleView ==
  ASSUME NEW q, NEW s, Idle(s), NEW f, NEW p, NEW flag, View(q, s, f, p, flag)
  PROVE  Told(q, flag) \/ UpToDate(f, p, flag)
<1>1. ~WillSet(s, flag)
  BY DEF Idle, WillSet, IsSet
<1>2. ~WillRead(s, f, p, flag)
  BY DEF Idle, WillRead, IsGet
<1> QED BY <1>1, <1>2 DEF View

LEMMA IdlePhase ==
  ASSUME NEW s, Idle(s), NEW p, NEW flag \in Paired, Phase(s, p, flag)
  PROVE  p[Second(flag)] = p[flag]
<1>1. ~BothToSet(s, flag)
  <2> SUFFICES ASSUME NEW x, NEW y, s = <<x, y>>, x.op = "set" PROVE FALSE
    BY DEF BothToSet
  <2>1. 1 \in 1..Len(s) /\ s[1] = x
    OBVIOUS
  <2> QED BY <2>1 DEF Idle
<1>2. ~OneToSet(s, p, flag)
  <2> SUFFICES ASSUME NEW y, s = <<y>>, y.op = "set" PROVE FALSE
    BY DEF OneToSet
  <2>1. 1 \in 1..Len(s) /\ s[1] = y
    OBVIOUS
  <2> QED BY <2>1 DEF Idle
<1> QED BY <1>1, <1>2 DEF Phase

\* How two properties are begun to be set
PairStarts(a, L) ==
  \A flag \in Paired : a = Owner(flag) => ~WillSet(L, flag) \/ BothToSet(L, flag)

\* a, which has nothing but decisions to take, gets the list L, and perhaps other
\* fields and another queue.
Working(a, L) ==
  /\ Idle(todo[a]) /\ todo' = [todo EXCEPT ![a] = L]
  /\ property' = property /\ meant' = meant /\ passed' = passed /\ topic' = topic
  /\ alive' \subseteq Agents /\ alive' \subseteq alive \cup {a}
  /\ client \in alive => client \in alive'
  /\ a = client => client \in alive'
  /\ GoodList(a, L) /\ PairStarts(a, L)
  /\ DOMAIN fields' = Agents /\ \A b \in Agents \ {a} : fields'[b] = fields[b]
  /\ DOMAIN queue' = Agents /\ \A b \in Agents \ {a} : queue'[b] = queue[b]
  /\ GoodFields(fields'[a]) /\ GoodQueue(queue'[a])
  /\ a \in alive' => \A flag \in passed[a] \cap Known :
       \/ Unread(L, flag)
       \/ /\ a \in alive
          /\ fields'[a][flag] = fields[a][flag] \/ WillSet(L, flag)
          /\ Told(queue[a], flag) => Told(queue'[a], flag)

LEMMA WorkingKeeps ==
  ASSUME Understanding, NEW a \in Agents, NEW L, Working(a, L)
  PROVE  Understanding'
<1>1. \A b \in Agents : todo'[b] = IF b = a THEN L ELSE todo[b]
  BY DEF Understanding, Working
<1>2. /\ DOMAIN property' = Atoms /\ DOMAIN meant' = Flags /\ DOMAIN queue' = Agents
      /\ DOMAIN fields' = Agents /\ DOMAIN todo' = Agents
      /\ alive' \subseteq Agents /\ topic' \subseteq Flags
      /\ GoodIconProperty(property'["WMIcon"])
  BY DEF Understanding, Working
<1>3. client \notin alive' => todo'[client] = <<>>
  <2>1. client \in Agents
    BY DEF Agents
  <2> QED BY <1>1, <2>1 DEF Understanding, Working
<1>4. ASSUME NEW b \in Agents
      PROVE  GoodQueue(queue'[b]) /\ GoodFields(fields'[b]) /\ GoodList(b, todo'[b])
  <2>1. CASE b = a
    BY <1>1, <2>1 DEF Working
  <2>2. CASE b # a
    <3>1. queue'[b] = queue[b] /\ fields'[b] = fields[b] /\ todo'[b] = todo[b]
      BY <1>1, <2>2 DEF Working
    <3> QED BY <3>1 DEF Understanding
  <2> QED BY <2>1, <2>2
<1>5. \A flag \in Known : Means(meant'[flag], property'[flag], flag)
  BY DEF Understanding, Working
<1>6. ASSUME NEW flag \in Paired
      PROVE  Phase(todo'[Owner(flag)], property', flag)
  <2>1. Owner(flag) \in Agents
    BY DEF Owner, Agents
  <2>2. property' = property /\ Phase(todo[Owner(flag)], property, flag)
    BY DEF Understanding, Working
  <2>3. CASE Owner(flag) # a
    BY <1>1, <2>1, <2>2, <2>3
  <2>4. CASE Owner(flag) = a
    <3>1. Idle(todo[a])
      BY DEF Working
    <3>2. property[Second(flag)] = property[flag]
      BY <2>2, <2>4, <3>1, IdlePhase
    <3>3. ~WillSet(L, flag) \/ BothToSet(L, flag)
      BY <2>4 DEF Working, PairStarts
    <3>4. todo'[Owner(flag)] = L
      BY <1>1, <2>1, <2>4
    <3> QED BY <2>2, <3>2, <3>3, <3>4 DEF Phase
  <2> QED BY <2>3, <2>4
<1>7. ASSUME NEW b \in alive', NEW flag \in passed'[b] \cap Known
      PROVE  View(queue'[b], todo'[b], fields'[b][flag], property', flag)
  <2>1. passed' = passed /\ property' = property /\ b \in Agents /\ flag \in passed[b] \cap Known
    BY <1>2, <1>7 DEF Working
  <2>2. CASE b # a
    <3>1. b \in alive /\ queue'[b] = queue[b] /\ fields'[b] = fields[b] /\ todo'[b] = todo[b]
      BY <1>1, <1>7, <2>1, <2>2 DEF Working
    <3>2. View(queue[b], todo[b], fields[b][flag], property, flag)
      BY <2>1, <3>1 DEF Understanding
    <3> QED BY <2>1, <3>1, <3>2
  <2>3. CASE b = a
    <3>1. todo'[a] = L
      BY <1>1
    <3>2. CASE Unread(L, flag)
      BY <2>3, <3>1, <3>2, UnreadView
    <3>3. CASE ~Unread(L, flag)
      <4>1. /\ a \in alive /\ (fields'[a][flag] = fields[a][flag] \/ WillSet(L, flag))
            /\ Told(queue[a], flag) => Told(queue'[a], flag)
        BY <1>7, <2>1, <2>3, <3>3 DEF Working
      <4>2. View(queue[a], todo[a], fields[a][flag], property, flag)
        BY <2>1, <2>3, <4>1 DEF Understanding
      <4>3. Idle(todo[a])
        BY DEF Working
      <4>4. Told(queue[a], flag) \/ UpToDate(fields[a][flag], property, flag)
        BY <4>2, <4>3, IdleView
      <4>5. View(queue'[a], L, fields'[a][flag], property, flag)
        BY <4>1, <4>4 DEF View
      <4> QED BY <2>1, <2>3, <3>1, <4>5
    <3> QED BY <3>2, <3>3
  <2> QED BY <2>2, <2>3
<1> QED BY <1>2, <1>3, <1>4, <1>5, <1>6, <1>7 DEF Understanding

-----------------------------------------------------------------------------
(* Lists of requests                                                       *)

LEMMA OneRequest ==
  ASSUME NEW a, NEW r, GoodRequest(a, r), r.op = "get" => FlagOf(r.atom) \notin Paired,
         r.op = "set" => FlagOf(r.atom) \notin Paired
  PROVE  GoodList(a, <<r>>) /\ PairStarts(a, <<r>>)
<1>1. PICK s : s = <<r>>
  OBVIOUS
<1>2. IsList(s) /\ Len(s) = 1 /\ s[1] = r
  BY <1>1, ShortLists
<1>3. \A i \in 1..Len(s) : s[i] = r /\ i = 1
  BY <1>2
<1>4. GetsPaired(s)
  BY <1>3, SecondOf DEF GetsPaired, IsGet
<1>5. PairStarts(a, s)
  BY <1>3, SecondOf DEF PairStarts, WillSet, IsSet
<1> QED BY <1>1, <1>2, <1>3, <1>4, <1>5 DEF GoodList

LEMMA WillSetOne ==
  ASSUME NEW r, r.op = "set"
  PROVE  WillSet(<<r>>, FlagOf(r.atom))
<1>1. 1 \in 1..Len(<<r>>) /\ <<r>>[1] = r
  OBVIOUS
<1> QED BY <1>1 DEF WillSet, IsSet

LEMMA RequestsHave ==
  ASSUME NEW atom, NEW type, NEW data, NEW value
  PROVE  /\ Set(atom, type, data, value).op = "set" /\ Set(atom, type, data, value).atom = atom
         /\ Set(atom, type, data, value).property = Property(type, data)
         /\ Set(atom, type, data, value).value = value
         /\ Delete(atom, value).op = "set" /\ Delete(atom, value).atom = atom
         /\ Delete(atom, value).property = NoProperty /\ Delete(atom, value).value = value
         /\ Get(atom).op = "get" /\ Get(atom).atom = atom
         /\ Send(type, data).op = "send" /\ Send(type, data).message.type = type
         /\ Send(type, data).message.data = data
BY DEF Set, Delete, Get, Send

-----------------------------------------------------------------------------
(* Setters                                                                 *)

GoodField(flag, v) ==
  /\ flag = "WMState" => v \subseteq DOMAIN StateAtoms
  /\ flag = "WMIcon" => GoodIcons(v)

LEMMA FieldChanged ==
  ASSUME NEW f, GoodFields(f), NEW flag, NEW v, GoodField(flag, v)
  PROVE  GoodFields([f EXCEPT ![flag] = v])
<1>1. "WMState" \in Flags /\ "WMIcon" \in Flags
  BY UsedFlags, IconIsFlag DEF Used, AllFlags
<1>2. DOMAIN f = Flags
  BY DEF GoodFields
<1>3. PICK g : g = [f EXCEPT ![flag] = v]
  OBVIOUS
<1>4. DOMAIN g = Flags /\ \A x \in Flags : g[x] = IF x = flag THEN v ELSE f[x]
  BY <1>2, <1>3
<1>5. g["WMState"] \subseteq DOMAIN StateAtoms
  BY <1>1, <1>4 DEF GoodFields, GoodField
<1>6. GoodIcons(g["WMIcon"])
  BY <1>1, <1>4 DEF GoodFields, GoodField
<1> QED BY <1>3, <1>4, <1>5, <1>6 DEF GoodFields

\* A field changes, if any, together with its property.
Changed(a, flag, L) ==
  \/ fields' = fields
  \/ /\ WillSet(L, flag)
     /\ \E v : GoodField(flag, v) /\ fields' = [fields EXCEPT ![a][flag] = v]

LEMMA FieldsChange ==
  ASSUME Understanding, NEW a \in Agents, NEW flag, NEW L, Changed(a, flag, L)
  PROVE  /\ DOMAIN fields' = Agents /\ \A b \in Agents \ {a} : fields'[b] = fields[b]
         /\ GoodFields(fields'[a])
         /\ \A x \in passed[a] \cap Known : fields'[a][x] = fields[a][x] \/ WillSet(L, x)
<1>1. /\ DOMAIN fields = Agents /\ GoodFields(fields[a]) /\ DOMAIN fields[a] = Flags
  BY DEF Understanding, GoodFields
<1>2. /\ DOMAIN fields' = Agents /\ \A b \in Agents \ {a} : fields'[b] = fields[b]
      /\ GoodFields(fields'[a])
      /\ WillSet(L, flag) \/ fields' = fields
      /\ \A x \in Flags : x # flag => fields'[a][x] = fields[a][x]
  <2>1. CASE fields' = fields
    BY <1>1, <2>1
  <2>2. CASE /\ WillSet(L, flag)
             /\ \E v : GoodField(flag, v) /\ fields' = [fields EXCEPT ![a][flag] = v]
    <3>1. PICK v : GoodField(flag, v) /\ fields' = [fields EXCEPT ![a][flag] = v]
      BY <2>2
    <3>2. PICK g : g = [fields[a] EXCEPT ![flag] = v]
      OBVIOUS
    <3>3. fields' = [fields EXCEPT ![a] = g]
      BY <3>1, <3>2
    <3>4. /\ DOMAIN fields' = Agents /\ fields'[a] = g
          /\ \A b \in Agents \ {a} : fields'[b] = fields[b]
      BY <1>1, <3>3
    <3>5. GoodFields(g)
      BY <1>1, <3>1, <3>2, FieldChanged
    <3>6. \A x \in Flags : x # flag => g[x] = fields[a][x]
      BY <1>1, <3>2
    <3> QED BY <2>2, <3>4, <3>5, <3>6
  <2> QED BY <2>1, <2>2 DEF Changed
<1> QED BY <1>2, KnownAtoms

LEMMA ChangeKeeps ==
  ASSUME Understanding, NEW a \in Agents, NEW flag, NEW L, Idle(todo[a]),
         a = client => client \in alive,
         property' = property /\ queue' = queue /\ alive' = alive /\ topic' = topic
           /\ passed' = passed /\ meant' = meant,
         todo' = [todo EXCEPT ![a] = L], GoodList(a, L), PairStarts(a, L), Changed(a, flag, L)
  PROVE  Understanding'
<1>1. DOMAIN queue = Agents /\ alive \subseteq Agents /\ GoodQueue(queue[a])
  BY DEF Understanding
<1>2. Working(a, L)
  BY <1>1, FieldsChange DEF Working
<1> QED BY <1>2, WorkingKeeps

LEMMA CallKeeps ==
  ASSUME Understanding, NEW a \in Agents, NEW flag, NEW L, Calls(a, flag),
         todo' = [todo EXCEPT ![a] = L], GoodList(a, L), PairStarts(a, L), Changed(a, flag, L)
  PROVE  Understanding'
<1>1. /\ a \in alive /\ todo[a] = <<>>
      /\ property' = property /\ queue' = queue /\ alive' = alive /\ topic' = topic
      /\ passed' = passed /\ meant' = meant
  BY DEF Calls
<1>2. Idle(todo[a])
  <2>1. 1..Len(<<>>) = {}
    OBVIOUS
  <2> QED BY <1>1, <2>1 DEF Idle
<1> QED BY <1>1, <1>2, ChangeKeeps DEF Changed

LEMMA FlagOfFlag == ASSUME NEW flag \in Flags PROVE FlagOf(flag) = flag
<1>1. PICK atom \in Atoms : flag = FlagOf(atom)
  BY DEF Flags
<1> QED BY <1>1, FlagIs

LEMMA SetKeeps ==
  ASSUME Understanding, NEW a \in Agents, NEW flag, NEW field, NEW r,
         Sets(a, flag, field, <<r>>), r.op = "set", r.atom = flag, flag \notin Paired,
         flag \in Known => Says(flag, r.property, r.value),
         flag = "WMIcon" => GoodIconProperty(r.property), GoodField(flag, field)
  PROVE  Understanding'
<1>1. Calls(a, flag) /\ todo' = [todo EXCEPT ![a] = <<r>>]
  BY DEF Sets
<1>2. flag \in Flags /\ flag \in Atoms /\ FlagOf(flag) = flag
  <2>1. flag \in Flags
    BY <1>1 DEF Calls, Understanding
  <2> QED BY <2>1, FlagOfFlag, KnownAtoms
<1>3. GoodRequest(a, r)
  BY <1>2 DEF GoodRequest, RightSet, Others
<1>4. GoodList(a, <<r>>) /\ PairStarts(a, <<r>>)
  BY <1>2, <1>3, OneRequest
<1>5. WillSet(<<r>>, flag)
  BY <1>2, WillSetOne
<1>6. fields' = [fields EXCEPT ![a][flag] = field]
  BY DEF Sets
<1> QED BY <1>1, <1>4, <1>5, <1>6, CallKeeps DEF Changed

LEMMA NamesKeep ==
  ASSUME Understanding, NEW a \in Agents, NEW text \in TextValues,
         NEW flag \in {"WMName", "WMVisibleName", "WMIconName", "WMVisibleIconName"},
         SetName(a, flag, text)
  PROVE  Understanding'
<1>1. text \in Seq(Nat \ {0})
  BY NETWinInfoAssumption
<1>2. flag \in Texts /\ flag \notin Paired /\ TextType(flag) = "UTF8"
  BY DEF Texts, Utf8Texts, Paired, TextType
<1>3. PICK r : r = IF text = NoText THEN Delete(flag, text) ELSE Set(flag, "UTF8", text, text)
  OBVIOUS
<1>4. r.op = "set" /\ r.atom = flag /\ Says(flag, r.property, r.value)
  BY <1>1, <1>2, <1>3, RequestsHave, TextSays
<1>5. GoodField(flag, text) /\ flag # "WMIcon"
  BY DEF GoodField
<1>6. Sets(a, flag, text, <<r>>)
  BY <1>3 DEF SetName
<1> QED BY <1>2, <1>4, <1>5, <1>6, SetKeeps

LEMMA TextKeeps ==
  ASSUME Understanding, NEW text \in TextValues,
         NEW flag \in {"WM2StartupId", "WM2DesktopFileName", "WM2AppMenuObjectPath",
                       "WM2AppMenuServiceName"},
         SetText(flag, text)
  PROVE  Understanding'
<1>1. text \in Seq(Nat \ {0})
  BY NETWinInfoAssumption
<1>2. flag \in Texts /\ flag \notin Paired
  BY DEF Texts, Utf8Texts, LatinTexts, Paired
<1>3. PICK r : r = Set(flag, TextType(flag), text, text)
  OBVIOUS
<1>4. r.op = "set" /\ r.atom = flag /\ Says(flag, r.property, r.value)
  BY <1>1, <1>2, <1>3, RequestsHave, TextSays
<1>5. GoodField(flag, text) /\ flag # "WMIcon"
  BY DEF GoodField
<1>6. Sets(client, flag, text, <<r>>) /\ client \in Agents
  BY <1>3 DEF SetText, Agents
<1> QED BY <1>2, <1>4, <1>5, <1>6, SetKeeps

LEMMA ActivitiesKeep ==
  ASSUME Understanding, NEW a \in Agents, NEW text \in TextValues, SetActivities(a, text)
  PROVE  Understanding'
<1>1. PICK all : all = IF text = NoText THEN AllActivities ELSE text
  OBVIOUS
<1>2. all \in Seq(Nat \ {0})
  <2>1. <<1, 1, 1>> \in Seq(Nat \ {0})
    OBVIOUS
  <2> QED BY <1>1, <2>1, NETWinInfoAssumption DEF AllActivities
<1>3. "WM2Activities" \in Texts /\ "WM2Activities" \notin Paired
      /\ TextType("WM2Activities") = "STRING"
  BY DEF Texts, Utf8Texts, LatinTexts, Paired, TextType
<1>4. PICK r : r = Set("WM2Activities", "STRING", all, all)
  OBVIOUS
<1>5. /\ r.op = "set" /\ r.atom = "WM2Activities"
      /\ Says("WM2Activities", r.property, r.value)
  BY <1>2, <1>3, <1>4, RequestsHave, TextSays
<1>6. GoodField("WM2Activities", all)
  BY DEF GoodField
<1>7. Sets(a, "WM2Activities", all, <<r>>)
  BY <1>1, <1>4 DEF SetActivities
<1> QED BY <1>3, <1>5, <1>6, <1>7, SetKeeps

LEMMA StrutKeeps ==
  ASSUME Understanding, NEW a \in Agents, NEW v \in [1..4 -> Ints],
         NEW flag \in Four \cup {"WM2FullscreenMonitors"}, SetStrut(a, flag, v)
  PROVE  Understanding'
<1>1. PICK r : r = Set(flag, "CARDINAL", Unsigneds(v), v)
  OBVIOUS
<1>2. flag \notin Paired /\ flag # "WMIcon" /\ GoodField(flag, v)
  BY DEF Four, Paired, GoodField
<1>3. r.op = "set" /\ r.atom = flag /\ Says(flag, r.property, r.value)
  BY <1>1, RequestsHave, FourSays
<1>4. Sets(a, flag, v, <<r>>)
  BY <1>1 DEF SetStrut
<1> QED BY <1>2, <1>3, <1>4, SetKeeps

LEMMA OverlapKeeps ==
  ASSUME Understanding, NEW a \in Agents, NEW v \in [1..4 -> Ints], SetFrameOverlap(a, v)
  PROVE  Understanding'
<1>1. Overlap(v) \in [1..4 -> Ints]
  <2>1. 0 \in Ints
    BY WordIs DEF Ints
  <2>2. \A i \in 1..4 : v[i] \in Ints
    OBVIOUS
  <2>3. [i \in 1..4 |-> IF v[i] < 0 THEN 0 ELSE v[i]] \in [1..4 -> Ints]
    BY <2>1, <2>2
  <2> QED BY <2>3 DEF Overlap
<1>2. SetStrut(a, "WM2FrameOverlap", Overlap(v)) /\ "WM2FrameOverlap" \in Four
  BY DEF SetFrameOverlap, Four
<1> QED BY <1>1, <1>2, StrutKeeps

LEMMA MonitorsKeep ==
  ASSUME Understanding, NEW a \in Agents, NEW v \in [1..4 -> Ints], SetFullscreenMonitors(a, v)
  PROVE  Understanding'
<1>1. CASE a = wm
  BY <1>1, StrutKeeps DEF SetFullscreenMonitors
<1>2. CASE a # wm
  <2>1. PICK r : r = Send("FULLSCREEN_MONITORS", Unsigneds(v))
    OBVIOUS
  <2>2. /\ Calls(client, "WM2FullscreenMonitors")
        /\ todo' = [todo EXCEPT ![client] = <<r>>] /\ fields' = fields
    BY <1>2, <2>1 DEF SetFullscreenMonitors
  <2>3. GoodRequest(client, r) /\ r.op = "send"
    BY <2>1, RequestsHave DEF GoodRequest, GoodMessage
  <2>4. GoodList(client, <<r>>) /\ PairStarts(client, <<r>>)
    BY <2>3, OneRequest
  <2>5. client \in Agents
    BY DEF Agents
  <2> QED BY <2>2, <2>4, <2>5, CallKeeps DEF Changed
<1> QED BY <1>1, <1>2

LEMMA GeometryKeeps ==
  ASSUME Understanding, NEW v \in [1..4 -> Ints], SetIconGeometry(v)
  PROVE  Understanding'
<1>1. PICK r : r = IF v[3] = 0 THEN Delete("WMIconGeometry", v)
                   ELSE Set("WMIconGeometry", "CARDINAL", Unsigneds(v), v)
  OBVIOUS
<1>2. "WMIconGeometry" \in Four /\ "WMIconGeometry" \notin Paired
      /\ GoodField("WMIconGeometry", v)
  BY DEF Four, Paired, GoodField
<1>3. /\ r.op = "set" /\ r.atom = "WMIconGeometry"
      /\ Says("WMIconGeometry", r.property, r.value)
  <2>1. v[3] = 0 => v = NoStrut
    BY DEF SetIconGeometry
  <2> QED BY <1>1, <1>2, <2>1, RequestsHave, FourSays, RectSays
<1>4. Sets(client, "WMIconGeometry", v, <<r>>) /\ client \in Agents
  BY <1>1 DEF SetIconGeometry, Agents
<1> QED BY <1>2, <1>3, <1>4, SetKeeps

LEMMA FunctionIsSeq ==
  ASSUME NEW n \in Nat, NEW S, NEW f \in [1..n -> S]
  PROVE  f \in Seq(S) /\ Len(f) = n
<1>1. f \in Seq(S)
  BY SeqDef
<1>2. DOMAIN f = 1..n
  OBVIOUS
<1> QED BY <1>1, <1>2

LEMMA ExtendedStrutKeeps ==
  ASSUME Understanding, NEW v \in [1..4 -> Ints],
         SetStrut(client, "WM2ExtendedStrut", v \o v \o v)
  PROVE  Understanding'
<1>1. PICK u : u = v \o v \o v
  OBVIOUS
<1>2. u \in [1..12 -> Ints]
  <2>1. v \in Seq(Ints) /\ Len(v) = 4
    <3>1. 4 \in Nat
      OBVIOUS
    <3> QED BY <3>1, FunctionIsSeq
  <2>2. PICK x : x = v \o v
    OBVIOUS
  <2>3. x \in Seq(Ints) /\ Len(x) = 8
    <3>1. v \o v \in Seq(Ints) /\ Len(v \o v) = Len(v) + Len(v)
      BY <2>1, ConcatProperties
    <3> QED BY <2>1, <2>2, <3>1
  <2>4. u \in Seq(Ints) /\ Len(u) = 12
    <3>1. x \o v \in Seq(Ints) /\ Len(x \o v) = Len(x) + Len(v)
      BY <2>1, <2>3, ConcatProperties
    <3> QED BY <1>1, <2>1, <2>2, <2>3, <3>1
  <2>5. u \in [1..Len(u) -> Ints]
    BY <2>4, LenProperties
  <2> QED BY <2>4, <2>5
<1>3. PICK r : r = Set("WM2ExtendedStrut", "CARDINAL", Unsigneds(u), u)
  OBVIOUS
<1>4. "WM2ExtendedStrut" \notin Paired /\ GoodField("WM2ExtendedStrut", u)
  BY DEF Paired, GoodField
<1>5. /\ r.op = "set" /\ r.atom = "WM2ExtendedStrut"
      /\ Says("WM2ExtendedStrut", r.property, r.value)
  BY <1>2, <1>3, RequestsHave, ExtendedStrutSays
<1>6. Sets(client, "WM2ExtendedStrut", u, <<r>>) /\ client \in Agents
  BY <1>1, <1>3 DEF SetStrut, Agents
<1> QED BY <1>4, <1>5, <1>6, SetKeeps

LEMMA NumberKeeps ==
  ASSUME Understanding, NEW a \in Agents, NEW n,
         NEW flag \in {"WMPid", "WM2Opacity", "WM2UserTime"}, SetNumber(a, flag, n)
  PROVE  Understanding'
<1>1. PICK r : r = Set(flag, "CARDINAL", <<n>>, n)
  OBVIOUS
<1>2. flag \notin Paired /\ flag # "WMIcon" /\ GoodField(flag, n)
  BY DEF Paired, GoodField
<1>3. r.op = "set" /\ r.atom = flag /\ Says(flag, r.property, r.value)
  BY <1>1, RequestsHave, NumberSays
<1>4. Sets(a, flag, n, <<r>>)
  BY <1>1 DEF SetNumber
<1> QED BY <1>2, <1>3, <1>4, SetKeeps

LEMMA WindowTypeKeeps ==
  ASSUME Understanding, NEW type \in WindowTypes, SetWindowType(type)
  PROVE  Understanding'
<1>1. PICK r : r = Set("WMWindowType", "ATOM", TypeNames[type], type)
  OBVIOUS
<1>2. "WMWindowType" \notin Paired /\ GoodField("WMWindowType", fields[client]["WMWindowType"])
  BY DEF Paired, GoodField
<1>3. type \in DOMAIN TypeNames
  BY NETWinInfoAssumption
<1>4. r.op = "set" /\ r.atom = "WMWindowType" /\ Says("WMWindowType", r.property, r.value)
  BY <1>1, <1>3, RequestsHave, WindowTypeSays
<1>5. Sets(client, "WMWindowType", fields[client]["WMWindowType"], <<r>>) /\ client \in Agents
  BY <1>1 DEF SetWindowType, Agents
<1> QED BY <1>2, <1>4, <1>5, SetKeeps

LEMMA ActionsKeep ==
  ASSUME Understanding, NEW action \in {"ActionMove", "ActionClose"}, SetAllowedActions({action})
  PROVE  Understanding'
<1>1. PICK r : r = Set("WM2AllowedActions", "ATOM", AtomsOf(ActionAtoms, {action}), {action})
  OBVIOUS
<1>2. "WM2AllowedActions" \notin Paired /\ GoodField("WM2AllowedActions", {action})
  BY DEF Paired, GoodField
<1>3. {action} \subseteq DOMAIN ActionAtoms
  BY DEF ActionAtoms
<1>4. /\ r.op = "set" /\ r.atom = "WM2AllowedActions"
      /\ Says("WM2AllowedActions", r.property, r.value)
  BY <1>1, <1>3, RequestsHave, ActionSays
<1>5. Sets(wm, "WM2AllowedActions", {action}, <<r>>) /\ wm \in Agents
  BY <1>1 DEF SetAllowedActions, Agents
<1> QED BY <1>2, <1>4, <1>5, SetKeeps

LEMMA HandledIconsKeep ==
  ASSUME Understanding, NEW on \in BOOLEAN, SetHandledIcons(on)
  PROVE  Understanding'
<1>1. PICK r : r = Set("WMHandledIcons", "CARDINAL", <<IF on THEN 1 ELSE 0>>, on)
  OBVIOUS
<1>2. "WMHandledIcons" \notin Paired /\ GoodField("WMHandledIcons", on)
  BY DEF Paired, GoodField
<1>3. "WMHandledIcons" \notin Known
  BY KnownAre DEF Single, Paired, Texts, Utf8Texts, LatinTexts
<1>4. r.op = "set" /\ r.atom = "WMHandledIcons"
  BY <1>1, RequestsHave
<1>5. Sets(client, "WMHandledIcons", on, <<r>>) /\ client \in Agents
  BY <1>1 DEF SetHandledIcons, Agents
<1> QED BY <1>2, <1>3, <1>4, <1>5, SetKeeps

LEMMA IconKeeps ==
  ASSUME Understanding, NEW icon \in IconValues, NEW replace \in BOOLEAN, SetIcon(icon, replace)
  PROVE  Understanding'
<1>1. PICK old : old = fields[client]["WMIcon"]
  OBVIOUS
<1>2. PICK new : new = AddIcon(old, icon, replace)
  OBVIOUS
<1>3. client \in Agents
  BY DEF Agents
<1>4. GoodIcons(old)
  BY <1>1, <1>3 DEF Understanding, GoodFields
<1>5. icon \in Icons
  BY NETWinInfoAssumption DEF Icons
<1>6. GoodIcons(new) /\ Counted(new) = Append(IF replace THEN <<>> ELSE Counted(old), icon)
  BY <1>2, <1>4, <1>5, IconAdded
<1>7. PICK r : r = Set("WMIcon", "CARDINAL", IconData(new),
                       Append(IF replace THEN <<>> ELSE SubSeq(old.icons, 1, old.count), icon))
  OBVIOUS
<1>8. r.value = Counted(new)
  <2>1. PICK counted : counted = SubSeq(old.icons, 1, old.count)
    OBVIOUS
  <2>2. Counted(old) = counted
    BY <2>1 DEF Counted
  <2>3. PICK value : value = Append(IF replace THEN <<>> ELSE counted, icon)
    OBVIOUS
  <2>4. r = Set("WMIcon", "CARDINAL", IconData(new), value)
    BY <1>7, <2>1, <2>3
  <2>5. r.value = value
    BY <2>4, RequestsHave
  <2> QED BY <1>6, <2>2, <2>3, <2>5
<1>9. r.op = "set" /\ r.atom = "WMIcon" /\ r.property = Property("CARDINAL", IconData(new))
  BY <1>7, RequestsHave
<1>10. Says("WMIcon", r.property, r.value) /\ GoodIconProperty(r.property)
  BY <1>6, <1>8, <1>9, IconsSay DEF GoodIconProperty
<1>11. "WMIcon" \notin Paired /\ GoodField("WMIcon", new)
  BY <1>6 DEF Paired, GoodField
<1>12. Sets(client, "WMIcon", new, <<r>>)
  BY <1>1, <1>2, <1>7 DEF SetIcon
<1> QED BY <1>3, <1>9, <1>10, <1>11, <1>12, SetKeeps

LEMMA ApplicationKeeps ==
  ASSUME Understanding, NEW v \in ApplicationValues, ApplicationSets(v.flag, v.property)
  PROVE  Understanding'
<1>1. PICK flag, p : flag = v.flag /\ p = v.property
  OBVIOUS
<1>2. flag \in WithoutSetter
  BY <1>1, NETWinInfoAssumption
<1>3. PICK r : r = [op |-> "set", atom |-> flag, property |-> p,
                    value |-> Read(flag, NewFields[flag], p)]
  OBVIOUS
<1>4. r.op = "set" /\ r.atom = flag /\ r.property = p
      /\ r.value = Read(flag, NewFields[flag], p)
  BY <1>3
<1>5. /\ Calls(client, flag) /\ fields' = fields
      /\ todo' = [todo EXCEPT ![client] = <<r>>]
  BY <1>1, <1>3 DEF ApplicationSets
<1>6. flag \notin Paired /\ flag # "WMIcon"
  BY <1>2 DEF WithoutSetter, Paired
<1>7. flag \in Flags /\ flag \in Atoms /\ FlagOf(flag) = flag
  <2>1. flag \in Flags
    BY <1>5 DEF Calls, Understanding
  <2> QED BY <2>1, FlagOfFlag, KnownAtoms
<1>8. flag \in Known => Says(flag, p, r.value)
  <2>1. flag \in Known => flag \in WithoutSetter \cap Single
    BY <1>2, <1>6, KnownAre
  <2> QED BY <1>4, <2>1, ApplicationSays
<1>9. GoodRequest(client, r)
  BY <1>4, <1>6, <1>7, <1>8 DEF GoodRequest, RightSet, Others
<1>10. GoodList(client, <<r>>) /\ PairStarts(client, <<r>>)
  BY <1>4, <1>6, <1>7, <1>9, OneRequest
<1>11. client \in Agents
  BY DEF Agents
<1> QED BY <1>5, <1>10, <1>11, CallKeeps DEF Changed

\* Two properties are set to the same.
LEMMA PairKeeps ==
  ASSUME Understanding, NEW flag \in Paired, NEW field, NEW x, NEW y,
         Sets(Owner(flag), flag, field, <<x, y>>), x.op = "set", y.op = "set",
         x.atom = flag, y.atom = Second(flag), x.property = y.property, x.value = y.value,
         Says(flag, x.property, x.value)
  PROVE  Understanding'
<1>1. PICK a \in Agents : a = Owner(flag)
  BY DEF Owner, Agents
<1>2. PICK L : L = <<x, y>>
  OBVIOUS
<1>3. IsList(L) /\ Len(L) = 2 /\ L[1] = x /\ L[2] = y
  BY <1>2, ShortLists
<1>4. \A i \in 1..Len(L) : L[i] = x \/ L[i] = y
  BY <1>3
<1>5. Calls(a, flag) /\ todo' = [todo EXCEPT ![a] = L]
      /\ fields' = [fields EXCEPT ![a][flag] = field]
  BY <1>1, <1>2 DEF Sets
<1>6. FlagOf(x.atom) = flag /\ FlagOf(y.atom) = flag /\ flag \notin Others /\ flag # "WMIcon"
      /\ x.atom \in Atoms /\ y.atom \in Atoms
  BY SecondOf, KnownAtoms DEF Others, Paired
<1>7. GoodRequest(a, x) /\ GoodRequest(a, y)
  BY <1>1, <1>6 DEF GoodRequest, RightSet
<1>8. GetsPaired(L)
  BY <1>4 DEF GetsPaired, IsGet
<1>9. GoodList(a, L)
  BY <1>3, <1>4, <1>7, <1>8 DEF GoodList
<1>10. WillSet(L, flag)
  BY <1>3, <1>6 DEF WillSet, IsSet
<1>11. BothToSet(L, flag)
  BY <1>2 DEF BothToSet
<1>12. \A other \in Paired \ {flag} : ~WillSet(L, other)
  BY <1>4, <1>6 DEF WillSet, IsSet
<1>13. PairStarts(a, L)
  BY <1>11, <1>12 DEF PairStarts
<1>14. GoodField(flag, field)
  BY DEF GoodField, Paired
<1> QED BY <1>5, <1>9, <1>10, <1>13, <1>14, CallKeeps DEF Changed

LEMMA FrameKeeps ==
  ASSUME Understanding, NEW v \in [1..4 -> Ints], SetFrameExtents(v)
  PROVE  Understanding'
<1> DEFINE flag == "WMFrameExtents"
<1>1. PICK x, y : /\ x = Set(flag, "CARDINAL", Unsigneds(v), v)
                  /\ y = Set("_KDE_NET_WM_FRAME_STRUT", "CARDINAL", Unsigneds(v), v)
  OBVIOUS
<1>2. flag \in Paired /\ Owner(flag) = wm /\ Second(flag) = "_KDE_NET_WM_FRAME_STRUT"
  BY DEF Paired, Owner, Second
<1>3. /\ x.op = "set" /\ y.op = "set" /\ x.atom = flag /\ y.atom = Second(flag)
      /\ x.property = y.property /\ x.value = y.value /\ Says(flag, x.property, x.value)
  BY <1>1, <1>2, RequestsHave, FourSays
<1>4. Sets(wm, flag, v, <<x, y>>)
  BY <1>1 DEF SetFrameExtents
<1> HIDE DEF flag
<1> QED BY <1>2, <1>3, <1>4, PairKeeps

LEMMA BlockingKeeps ==
  ASSUME Understanding, NEW on \in BOOLEAN, SetBlockingCompositing(on)
  PROVE  Understanding'
<1> DEFINE flag == "WM2BlockCompositing"
           Op(atom) == IF on THEN Set(atom, "CARDINAL", <<1>>, on) ELSE Delete(atom, on)
<1>1. PICK x, y : x = Op(flag) /\ y = Op("WM_BYPASS_COMPOSITOR")
  OBVIOUS
<1>2. flag \in Paired /\ Owner(flag) = client /\ Second(flag) = "WM_BYPASS_COMPOSITOR"
  BY DEF Paired, Owner, Second
<1>3. /\ x.op = "set" /\ y.op = "set" /\ x.atom = flag /\ y.atom = Second(flag)
      /\ x.property = y.property /\ x.value = y.value
      /\ x.property = (IF on THEN Property("CARDINAL", <<1>>) ELSE NoProperty) /\ x.value = on
  BY <1>1, <1>2, RequestsHave
<1>4. Says(flag, x.property, x.value)
  BY <1>3, BlockingSays
<1>5. [i \in 1..2 |-> Op(<<flag, "WM_BYPASS_COMPOSITOR">>[i])] = <<x, y>>
  BY <1>1
<1>6. Sets(client, flag, on, <<x, y>>)
  BY <1>5 DEF SetBlockingCompositing
<1> HIDE DEF flag
<1> QED BY <1>2, <1>3, <1>4, <1>6, PairKeeps

-----------------------------------------------------------------------------
(* setState() and setDesktop()                                             *)

LEMMA PerhapsOne ==
  ASSUME NEW x, NEW s \in {<<>>, <<x>>}
  PROVE  IsList(s) /\ Len(s) \in {0, 1} /\ \A i \in 1..Len(s) : s[i] = x
<1>1. CASE s = <<>>
  <2>1. Len(<<>>) = 0 /\ 1..0 = {}
    OBVIOUS
  <2>2. IsList(<<>>)
    BY NothingToDo DEF GoodList
  <2> QED BY <1>1, <2>1, <2>2
<1>2. CASE s = <<x>>
  <2>1. IsList(s) /\ Len(s) = 1 /\ s[1] = x
    BY <1>2, ShortLists
  <2> QED BY <2>1
<1> QED BY <1>1, <1>2

\* What is read before something is decided
LEMMA BeforehandIs ==
  ASSUME NEW a, NEW flag
  PROVE  /\ IsList(Beforehand(a, flag))
         /\ \A i \in 1..Len(Beforehand(a, flag)) :
              /\ Beforehand(a, flag)[i].op = "get"
              /\ Beforehand(a, flag)[i].atom \in {"XAWMState", "WMState"}
<1>1. PICK s, t : /\ s = IF dirty[a] THEN <<Get("XAWMState")>> ELSE <<>>
                  /\ t = IF flag = "WMState" /\ flag \notin passed[a] THEN <<Get("WMState")>>
                         ELSE <<>>
  OBVIOUS
<1>2. PICK b : b = s \o t
  OBVIOUS
<1>3. b = Beforehand(a, flag)
  BY <1>1, <1>2 DEF Beforehand
<1>4. /\ IsList(s) /\ Len(s) \in {0, 1} /\ IsList(t) /\ Len(t) \in {0, 1}
      /\ \A i \in 1..Len(s) : s[i] = Get("XAWMState")
      /\ \A i \in 1..Len(t) : t[i] = Get("WMState")
  <2>2. PICK x, y : x = Get("XAWMState") /\ y = Get("WMState")
    OBVIOUS
  <2>3. s \in {<<>>, <<x>>} /\ t \in {<<>>, <<y>>}
    BY <1>1, <2>2
  <2>4. IsList(s) /\ Len(s) \in {0, 1} /\ \A i \in 1..Len(s) : s[i] = x
    BY <2>3, PerhapsOne
  <2>5. IsList(t) /\ Len(t) \in {0, 1} /\ \A i \in 1..Len(t) : t[i] = y
    BY <2>3, PerhapsOne
  <2> QED BY <2>2, <2>4, <2>5
<1>5. IsList(b) /\ Len(b) = Len(s) + Len(t)
      /\ \A i \in 1..(Len(s) + Len(t)) : b[i] = IF i <= Len(s) THEN s[i] ELSE t[i - Len(s)]
  BY <1>2, <1>4, ListConcat
<1>6. \A i \in 1..Len(b) : b[i] \in {Get("XAWMState"), Get("WMState")}
  BY <1>4, <1>5
<1>7. \A i \in 1..Len(b) : b[i].op = "get" /\ b[i].atom \in {"XAWMState", "WMState"}
  BY <1>6, RequestsHave
<1> QED BY <1>3, <1>5, <1>7

\* The decision itself comes last.
LEMMA DecisionList ==
  ASSUME NEW a, NEW flag, NEW r, r.op \in {"setState", "setDesktop"}, GoodRequest(a, r)
  PROVE  GoodList(a, Beforehand(a, flag) \o <<r>>) /\ PairStarts(a, Beforehand(a, flag) \o <<r>>)
<1>1. PICK b : b = Beforehand(a, flag)
  OBVIOUS
<1>2. PICK t : t = <<r>>
  OBVIOUS
<1>3. PICK L : L = b \o t
  OBVIOUS
<1>4. IsList(b) /\ \A i \in 1..Len(b) : b[i].op = "get" /\ b[i].atom \in {"XAWMState", "WMState"}
  BY <1>1, BeforehandIs
<1>5. IsList(t) /\ Len(t) = 1 /\ t[1] = r
  BY <1>2, ShortLists
<1>6. PICK n \in Nat : n = Len(b)
  BY <1>4, ListLength
<1>7. IsList(L) /\ Len(L) = n + 1
      /\ \A i \in 1..(n + 1) : L[i] = IF i <= n THEN b[i] ELSE t[i - n]
  <2>1. IsList(b) /\ IsList(t)
    BY <1>4, <1>5
  <2>2. /\ IsList(b \o t) /\ Len(b \o t) = Len(b) + Len(t)
        /\ \A i \in 1..(Len(b) + Len(t)) :
             (b \o t)[i] = IF i <= Len(b) THEN b[i] ELSE t[i - Len(b)]
    BY <2>1, ListConcat
  <2> QED BY <1>3, <1>5, <1>6, <2>2
<1>8. \A i \in 1..(n + 1) : IF i = n + 1 THEN L[i] = r ELSE L[i] = b[i] /\ i \in 1..n
  BY <1>5, <1>7
<1>9. "XAWMState" \in Atoms /\ "WMState" \in Atoms
  BY UsedFlags, KnownAtoms DEF Used, AllFlags
<1>10. \A i \in 1..Len(L) : GoodRequest(a, L[i])
  BY <1>4, <1>6, <1>7, <1>8, <1>9 DEF GoodRequest
<1>11. \A i \in 1..Len(L) : L[i].op \in {"setState", "setDesktop"} => i = Len(L)
  BY <1>4, <1>6, <1>7, <1>8
<1>12. GetsPaired(L)
  <2>1. ASSUME NEW i \in 1..Len(L), NEW pair \in Paired, IsGet(L[i], pair) PROVE FALSE
    <3>1. L[i].op = "get" /\ L[i].atom = pair
      BY <2>1 DEF IsGet
    <3>2. L[i].atom \in {"XAWMState", "WMState"}
      BY <1>4, <1>6, <1>7, <1>8, <3>1
    <3> QED BY <3>1, <3>2 DEF Paired
  <2> QED BY <2>1 DEF GetsPaired
<1>13. \A x : ~WillSet(L, x)
  BY <1>4, <1>6, <1>7, <1>8 DEF WillSet, IsSet
<1> QED BY <1>1, <1>2, <1>3, <1>7, <1>10, <1>11, <1>12, <1>13 DEF GoodList, PairStarts

LEMMA StateCallKeeps ==
  ASSUME Understanding, NEW a \in Agents, NEW call \in StateCalls,
         SetState(a, call.state, call.mask)
  PROVE  Understanding'
<1>1. PICK r : r = [op |-> "setState", state |-> call.state, mask |-> call.mask, own |-> TRUE]
  OBVIOUS
<1>2. call.state \subseteq DOMAIN StateAtoms /\ call.mask \subseteq DOMAIN StateAtoms
  <2>1. call.state \cup call.mask \subseteq States /\ States \subseteq DOMAIN StateAtoms
    BY NETWinInfoAssumption
  <2> QED BY <2>1
<1>3. r.op = "setState" /\ GoodRequest(a, r)
  BY <1>1, <1>2 DEF GoodRequest
<1>4. PICK L : L = Beforehand(a, "WMState") \o <<r>>
  OBVIOUS
<1>5. GoodList(a, L) /\ PairStarts(a, L)
  BY <1>3, <1>4, DecisionList
<1>6. /\ Calls(a, "WMState") /\ todo' = [todo EXCEPT ![a] = L] /\ fields' = fields
  BY <1>1, <1>4 DEF SetState
<1> QED BY <1>5, <1>6, CallKeeps DEF Changed

LEMMA DesktopCallKeeps ==
  ASSUME Understanding, NEW a \in Agents, NEW desktop \in Desktops, SetDesktop(a, desktop)
  PROVE  Understanding'
<1>1. PICK r : r = [op |-> "setDesktop", desktop |-> desktop, own |-> TRUE]
  OBVIOUS
<1>2. r.op = "setDesktop" /\ GoodRequest(a, r)
  <2>1. desktop \in -1..(Word - 1)
    BY NETWinInfoAssumption
  <2> QED BY <1>1, <2>1 DEF GoodRequest
<1>3. PICK L : L = Beforehand(a, "WMDesktop") \o <<r>>
  OBVIOUS
<1>4. GoodList(a, L) /\ PairStarts(a, L)
  BY <1>2, <1>3, DecisionList
<1>5. /\ Calls(a, "WMDesktop") /\ todo' = [todo EXCEPT ![a] = L] /\ fields' = fields
  BY <1>1, <1>3 DEF SetDesktop
<1> QED BY <1>4, <1>5, CallKeeps DEF Changed

\* Every setter
LEMMA SettersKeep == Understanding /\ Setters => Understanding'
<1> SUFFICES ASSUME Understanding, Setters PROVE Understanding'
  OBVIOUS
<1>1. \A v \in FourValues : v \in [1..4 -> Ints]
  BY NETWinInfoAssumption
<1>2. ASSUME NEW a \in Agents,
             \E text \in TextValues :
               \/ \E flag \in {"WMName", "WMVisibleName", "WMIconName", "WMVisibleIconName"} :
                    SetName(a, flag, text)
               \/ SetActivities(a, text)
      PROVE  Understanding'
  BY <1>2, NamesKeep, ActivitiesKeep
<1>3. ASSUME NEW a \in Agents,
             \E strut \in FourValues :
               \/ SetStrut(a, "WM2GTKFrameExtents", strut) \/ SetFrameOverlap(a, strut)
               \/ SetFullscreenMonitors(a, strut)
      PROVE  Understanding'
  <2>1. PICK v \in [1..4 -> Ints] :
          \/ SetStrut(a, "WM2GTKFrameExtents", v) \/ SetFrameOverlap(a, v)
          \/ SetFullscreenMonitors(a, v)
    BY <1>1, <1>3
  <2>2. "WM2GTKFrameExtents" \in Four \cup {"WM2FullscreenMonitors"}
    BY DEF Four
  <2> QED BY <2>1, <2>2, StrutKeeps, OverlapKeeps, MonitorsKeep
<1>4. ASSUME NEW a \in Agents,
             \/ \E n \in {0, Word - 2}, flag \in {"WMPid", "WM2Opacity", "WM2UserTime"} :
                  SetNumber(a, flag, n)
             \/ \E call \in StateCalls : SetState(a, call.state, call.mask)
             \/ \E desktop \in Desktops : SetDesktop(a, desktop)
      PROVE  Understanding'
  BY <1>4, NumberKeeps, StateCallKeeps, DesktopCallKeeps
<1>5. ASSUME NEW text \in TextValues \ {NoText},
             NEW flag \in {"WM2StartupId", "WM2DesktopFileName", "WM2AppMenuObjectPath",
                           "WM2AppMenuServiceName"},
             SetText(flag, text)
      PROVE  Understanding'
  BY <1>5, TextKeeps
<1>6. ASSUME NEW strut \in FourValues,
             \/ SetStrut(client, "WMStrut", strut) \/ SetFrameExtents(strut)
             \/ SetIconGeometry(strut)
             \/ SetStrut(client, "WM2ExtendedStrut", strut \o strut \o strut)
      PROVE  Understanding'
  <2>1. PICK v \in [1..4 -> Ints] : v = strut
    BY <1>1
  <2>2. "WMStrut" \in Four \cup {"WM2FullscreenMonitors"} /\ client \in Agents
    BY DEF Four, Agents
  <2>3. CASE SetStrut(client, "WMStrut", strut)
    BY <2>1, <2>2, <2>3, StrutKeeps
  <2>4. CASE SetStrut(client, "WM2ExtendedStrut", strut \o strut \o strut)
    BY <2>1, <2>4, ExtendedStrutKeeps
  <2> QED BY <1>6, <2>1, <2>3, <2>4, FrameKeeps, GeometryKeeps
<1>7. ASSUME NEW icon \in IconValues, NEW replace \in BOOLEAN, SetIcon(icon, replace)
      PROVE  Understanding'
  BY <1>7, IconKeeps
<1>8. ASSUME NEW type \in WindowTypes, SetWindowType(type) PROVE Understanding'
  BY <1>8, WindowTypeKeeps
<1>9. ASSUME NEW action \in {"ActionMove", "ActionClose"}, SetAllowedActions({action})
      PROVE  Understanding'
  BY <1>9, ActionsKeep
<1>10. ASSUME NEW on \in BOOLEAN, SetBlockingCompositing(on) \/ SetHandledIcons(on)
       PROVE  Understanding'
  BY <1>10, BlockingKeeps, HandledIconsKeep
<1>11. ASSUME NEW v \in ApplicationValues, ApplicationSets(v.flag, v.property)
       PROVE  Understanding'
  BY <1>11, ApplicationKeeps
<1> QED BY <1>2, <1>3, <1>4, <1>5, <1>6, <1>7, <1>8, <1>9, <1>10, <1>11 DEF Setters

LEMMA DecisionIsLast ==
  ASSUME Understanding, NEW a \in Agents, todo[a] # <<>>,
         Head(todo[a]).op \in {"setState", "setDesktop"}
  PROVE  /\ Idle(todo[a]) /\ Tail(todo[a]) = <<>> /\ GoodRequest(a, Head(todo[a]))
         /\ a = client => client \in alive
<1>1. PICK s : s = todo[a]
  OBVIOUS
<1>2. GoodList(a, s) /\ s # <<>>
  BY <1>1 DEF Understanding
<1>3. /\ IsList(s) /\ IsList(Tail(s)) /\ Len(Tail(s)) = Len(s) - 1
      /\ Len(s) \in Nat \ {0} /\ Head(s) = s[1]
  BY <1>2, ListTail DEF GoodList
<1>4. 1 \in 1..Len(s)
  BY <1>3
<1>5. Len(s) = 1
  BY <1>1, <1>2, <1>3, <1>4 DEF GoodList
<1>6. Tail(s) = <<>>
  <2>1. PICK S : Tail(s) \in Seq(S)
    BY <1>3 DEF IsList
  <2>2. Len(Tail(s)) = 0
    BY <1>3, <1>5
  <2> QED BY <2>1, <2>2, EmptySeq
<1>7. \A i \in 1..Len(s) : i = 1
  BY <1>5
<1>8. Idle(s)
  BY <1>1, <1>3, <1>7 DEF Idle
<1>9. GoodRequest(a, Head(s))
  BY <1>2, <1>3, <1>4 DEF GoodList
<1>10. a = client => client \in alive
  BY <1>1, <1>2 DEF Understanding
<1> QED BY <1>1, <1>6, <1>8, <1>9, <1>10

LEMMA NothingAfter ==
  ASSUME NEW s, IsList(s)
  PROVE  s \o <<>> = s
<1>1. PICK S : s \in Seq(S)
  BY DEF IsList
<1> QED BY <1>1, ConcatEmptySeq

\* A list of nothing but messages
LEMMA MessagesList ==
  ASSUME NEW a, NEW s, IsList(s),
         \A i \in 1..Len(s) : s[i].op = "send" /\ GoodMessage(s[i].message)
  PROVE  GoodList(a, s) /\ PairStarts(a, s)
<1>1. \A i \in 1..Len(s) : GoodRequest(a, s[i])
  BY DEF GoodRequest
<1>2. GetsPaired(s)
  BY DEF GetsPaired, IsGet
<1>3. \A flag : ~WillSet(s, flag)
  BY DEF WillSet, IsSet
<1> QED BY <1>1, <1>2, <1>3 DEF GoodList, PairStarts

LEMMA StatesInOrder ==
  /\ StateOrder \in Seq(DOMAIN StateAtoms)
  /\ \A s \in DOMAIN StateAtoms : StateAtoms[s] \subseteq DOMAIN StateFlag
<1>1. Len(StateOrder) = 13 /\ DOMAIN StateOrder = 1..13
  BY DEF StateOrder
<1>2. PICK n \in Nat : n = 13
  OBVIOUS
<1>3. \A i \in 1..n : StateOrder[i] \in DOMAIN StateAtoms
  BY <1>2 DEF StateOrder, StateAtoms
<1>4. StateOrder = [i \in 1..n |-> StateOrder[i]]
  <2>1. StateOrder = [i \in DOMAIN StateOrder |-> StateOrder[i]]
    BY DEF StateOrder
  <2> QED BY <1>1, <1>2, <2>1
<1>5. [i \in 1..n |-> StateOrder[i]] \in Seq(DOMAIN StateAtoms)
  BY <1>3
<1>6. \A s \in DOMAIN StateAtoms : StateAtoms[s] \subseteq DOMAIN StateFlag
  BY DEF StateAtoms, StateFlag
<1> QED BY <1>4, <1>5, <1>6

\* The messages of a client are about states.
LEMMA StateMessagesAre ==
  ASSUME NEW current, NEW state, NEW mask
  PROVE  /\ IsList(StateMessages(current, state, mask))
         /\ \A i \in 1..Len(StateMessages(current, state, mask)) :
              /\ StateMessages(current, state, mask)[i].op = "send"
              /\ GoodMessage(StateMessages(current, state, mask)[i].message)
<1> DEFINE Asking(n, atoms) == Send("STATE", [action |-> n, atoms |-> atoms])
           S == {Asking(n, atoms) : n \in {0, 1}, atoms \in SUBSET DOMAIN StateFlag}
           One(s, atoms) == <<Send("STATE", [action |-> On(s, state), atoms |-> atoms])>>
<1>1. \A r \in S : r.op = "send" /\ GoodMessage(r.message)
  <2> TAKE r \in S
  <2>1. PICK n \in {0, 1}, atoms \in SUBSET DOMAIN StateFlag :
          r = Asking(n, atoms)
    <3> HIDE DEF Asking
    <3> QED OBVIOUS
  <2> HIDE DEF S
  <2>2. PICK data : data = [action |-> n, atoms |-> atoms]
    OBVIOUS
  <2>3. r.op = "send" /\ r.message.type = "STATE" /\ r.message.data = data
    BY <2>1, <2>2, RequestsHave DEF Asking
  <2>4. data.atoms = atoms
    BY <2>2
  <2>5. GoodMessage(r.message)
    BY <2>3, <2>4 DEF GoodMessage
  <2> QED BY <2>3, <2>5
<1>2. ASSUME NEW s, NEW atoms \in SUBSET DOMAIN StateFlag PROVE One(s, atoms) \in Seq(S)
  <2>1. Send("STATE", [action |-> On(s, state), atoms |-> atoms]) \in S
    BY DEF On
  <2> HIDE DEF S
  <2> QED BY <2>1
<1>3. PICK differ : differ = {s \in mask : (s \in current) # (s \in state)}
  OBVIOUS
<1>4. PICK different : different = Those(StateOrder, differ)
  OBVIOUS
<1>5. different \in Seq(DOMAIN StateAtoms)
  <2>1. different \in Seq(DOMAIN StateAtoms \cap differ)
    BY <1>4, StatesInOrder, ThoseInOrder
  <2> QED BY <2>1, SeqMonotonic
<1>6. PICK together : together = (/\ {"MaxHoriz", "MaxVert"} \subseteq differ
                                  /\ ("MaxHoriz" \in state) = ("MaxVert" \in state))
  OBVIOUS
<1> DEFINE Messages(s) ==
             CASE s = "KeepAbove" -> One(s, {"STATE_ABOVE"}) \o One(s, {"STATE_STAYS_ON_TOP"})
               [] s = "MaxHoriz" /\ together ->
                    One(s, {"STATE_MAXIMIZED_HORZ", "STATE_MAXIMIZED_VERT"})
               [] s = "MaxVert" /\ together -> <<>>
               [] OTHER -> One(s, StateAtoms[s])
<1>7. ASSUME NEW s \in DOMAIN StateAtoms PROVE Messages(s) \in Seq(S)
  <2>1. /\ {"STATE_ABOVE"} \in SUBSET DOMAIN StateFlag
        /\ {"STATE_STAYS_ON_TOP"} \in SUBSET DOMAIN StateFlag
        /\ {"STATE_MAXIMIZED_HORZ", "STATE_MAXIMIZED_VERT"} \in SUBSET DOMAIN StateFlag
        /\ StateAtoms[s] \in SUBSET DOMAIN StateFlag
    BY StatesInOrder DEF StateFlag
  <2>2. PICK u, v, w, x :
          /\ u = One(s, {"STATE_ABOVE"}) /\ v = One(s, {"STATE_STAYS_ON_TOP"})
          /\ w = One(s, {"STATE_MAXIMIZED_HORZ", "STATE_MAXIMIZED_VERT"})
          /\ x = One(s, StateAtoms[s])
    OBVIOUS
  <2>3. u \in Seq(S) /\ v \in Seq(S) /\ w \in Seq(S) /\ x \in Seq(S)
    <3> HIDE DEF One, S
    <3> QED BY <1>2, <2>1, <2>2
  <2>4. Messages(s) = CASE s = "KeepAbove" -> u \o v [] s = "MaxHoriz" /\ together -> w
                    [] s = "MaxVert" /\ together -> <<>> [] OTHER -> x
    <3> HIDE DEF One
    <3> QED BY <2>2
  <2>5. u \o v \in Seq(S) /\ <<>> \in Seq(S)
    <3> HIDE DEF S
    <3> QED BY <2>3, ConcatProperties
  <2> HIDE DEF One, S, Messages
  <2> QED BY <2>3, <2>4, <2>5
<1>8. PICK parts : parts = [i \in DOMAIN different |-> Messages(different[i])]
  OBVIOUS
<1>9. StateMessages(current, state, mask) = FlattenSeq(parts)
  BY <1>3, <1>4, <1>6, <1>8 DEF StateMessages
<1>10. parts \in Seq(Seq(S))
  <2> HIDE DEF Messages, S
  <2>1. PICK n \in Nat : n = Len(different) /\ DOMAIN different = 1..n
    BY <1>5
  <2>2. \A i \in 1..n : different[i] \in DOMAIN StateAtoms
    BY <1>5, <2>1
  <2>3. parts \in [1..n -> Seq(S)]
    BY <1>7, <1>8, <2>1, <2>2
  <2> QED BY <2>3, FunctionIsSeq
<1> HIDE DEF S, Messages
<1>11. FlattenSeq(parts) \in Seq(S)
  BY <1>10, FlattenIsSeq
<1>12. PICK m : m = StateMessages(current, state, mask)
  OBVIOUS
<1>13. m \in Seq(S)
  BY <1>9, <1>11, <1>12
<1>14. IsList(m) /\ \A i \in 1..Len(m) : m[i] \in S
  BY <1>13 DEF IsList
<1> QED BY <1>1, <1>12, <1>14

\* A property and its field
LEMMA OneSet ==
  ASSUME NEW a, NEW r, r.op = "set", NEW flag \in {"XAWMState", "WMState", "WMDesktop"},
         r.atom = flag, Says(flag, r.property, r.value)
  PROVE  GoodRequest(a, r) /\ GoodList(a, <<r>>) /\ PairStarts(a, <<r>>) /\ WillSet(<<r>>, flag)
<1>1. flag \in Atoms /\ FlagOf(flag) = flag /\ flag \notin Paired /\ flag # "WMIcon"
  BY UsedFlags, KnownAtoms, FlagIs DEF Used, AllFlags, Paired
<1>2. GoodRequest(a, r)
  BY <1>1 DEF GoodRequest, RightSet, Others
<1> QED BY <1>1, <1>2, OneRequest, WillSetOne

LEMMA DecideStateKeeps ==
  ASSUME Understanding, NEW a \in Agents, DecideState(a)
  PROVE  Understanding'
<1>1. PICK r : r = Head(todo[a])
  OBVIOUS
<1>2. PICK current, new : current = fields[a]["WMState"] /\ new = (current \ r.mask) \cup r.state
  OBVIOUS
<1>3. todo[a] # <<>> /\ r.op = "setState"
  BY <1>1 DEF DecideState, Works
<1>4. /\ Idle(todo[a]) /\ Tail(todo[a]) = <<>> /\ GoodRequest(a, r)
      /\ a = client => client \in alive
  BY <1>1, <1>3, DecisionIsLast
<1>5. DOMAIN todo = Agents
  BY DEF Understanding
<1>6. property' = property /\ queue' = queue /\ alive' = alive /\ topic' = topic
        /\ passed' = passed /\ meant' = meant
  BY DEF DecideState
<1>7. CASE Asks(a)
  <2>1. PICK L : L = StateMessages(current, r.state, r.mask)
    OBVIOUS
  <2>2. IsList(L) /\ GoodList(a, L) /\ PairStarts(a, L)
    <3>1. IsList(L) /\ \A i \in 1..Len(L) : L[i].op = "send" /\ GoodMessage(L[i].message)
      BY <2>1, StateMessagesAre
    <3> QED BY <3>1, MessagesList
  <2>3. todo' = [todo EXCEPT ![a] = L \o <<>>] /\ fields' = fields
    BY <1>1, <1>2, <1>4, <1>5, <1>7, <2>1 DEF DecideState
  <2>4. todo' = [todo EXCEPT ![a] = L]
    BY <2>2, <2>3, NothingAfter
  <2> QED BY <1>4, <1>6, <2>2, <2>3, <2>4, ChangeKeeps DEF Changed
<1>8. CASE ~Asks(a)
  <2>1. PICK x : x = Set("WMState", "ATOM", AtomsOf(StateAtoms, new), new)
    OBVIOUS
  <2>2. new \subseteq DOMAIN StateAtoms
    <3>1. current \subseteq DOMAIN StateAtoms
      BY <1>2 DEF Understanding, GoodFields
    <3> QED BY <1>2, <1>3, <1>4, <3>1 DEF GoodRequest
  <2>3. x.op = "set" /\ x.atom = "WMState" /\ Says("WMState", x.property, x.value)
    BY <2>1, <2>2, RequestsHave, StateSays
  <2>4. PICK L : L = <<x>>
    OBVIOUS
  <2>5. GoodList(a, L) /\ PairStarts(a, L) /\ WillSet(L, "WMState")
    BY <2>3, <2>4, OneSet
  <2>6. /\ todo' = [todo EXCEPT ![a] = L \o <<>>]
        /\ fields' = [fields EXCEPT ![a]["WMState"] = new]
    BY <1>1, <1>2, <1>4, <1>5, <1>8, <2>1, <2>4 DEF DecideState
  <2>7. todo' = [todo EXCEPT ![a] = L]
    BY <2>5, <2>6, NothingAfter DEF GoodList
  <2>8. GoodField("WMState", new)
    BY <2>2 DEF GoodField
  <2> QED BY <1>4, <1>6, <2>5, <2>6, <2>7, <2>8, ChangeKeeps DEF Changed
<1> QED BY <1>7, <1>8

LEMMA DecideDesktopKeeps ==
  ASSUME Understanding, NEW a \in Agents, DecideDesktop(a)
  PROVE  Understanding'
<1>1. PICK r : r = Head(todo[a])
  OBVIOUS
<1>2. PICK d : d = r.desktop
  OBVIOUS
<1>3. todo[a] # <<>> /\ r.op = "setDesktop"
  BY <1>1 DEF DecideDesktop, Works
<1>4. /\ Idle(todo[a]) /\ Tail(todo[a]) = <<>> /\ GoodRequest(a, r)
      /\ a = client => client \in alive
  BY <1>1, <1>3, DecisionIsLast
<1>5. d \in -1..(Word - 1)
  BY <1>2, <1>3, <1>4 DEF GoodRequest
<1>6. property' = property /\ queue' = queue /\ alive' = alive /\ topic' = topic
        /\ passed' = passed /\ meant' = meant /\ DOMAIN todo = Agents
  BY DEF DecideDesktop, Understanding
<1>7. PICK w, x, y : /\ w = Send("DESKTOP", <<DesktopData(d)>>) /\ x = Delete("WMDesktop", 0)
                     /\ y = Set("WMDesktop", "CARDINAL", <<DesktopData(d)>>, d)
  OBVIOUS
<1>8. PICK L : L = CASE Asks(a) /\ d = 0 -> <<>> [] Asks(a) /\ d # 0 -> <<w>>
                     [] ~Asks(a) /\ d = 0 -> <<x>> [] ~Asks(a) /\ d # 0 -> <<y>>
  OBVIOUS
<1>9. todo' = [todo EXCEPT ![a] = L \o <<>>]
  BY <1>1, <1>2, <1>4, <1>6, <1>7, <1>8 DEF DecideDesktop
<1>10. /\ Asks(a) => fields' = fields
       /\ ~Asks(a) => fields' = [fields EXCEPT ![a]["WMDesktop"] = d]
  BY <1>1, <1>2 DEF DecideDesktop
<1>11. CASE Asks(a) /\ d = 0
  <2>1. L = <<>> /\ GoodList(a, L) /\ PairStarts(a, L)
    BY <1>8, <1>11, NothingToDo DEF PairStarts
  <2>2. todo' = [todo EXCEPT ![a] = L]
    BY <1>9, <2>1, NothingAfter DEF GoodList
  <2> QED BY <1>4, <1>6, <1>10, <1>11, <2>1, <2>2, ChangeKeeps DEF Changed
<1>12. CASE Asks(a) /\ d # 0
  <2>1. L = <<w>>
    BY <1>8, <1>12
  <2>2. w.op = "send" /\ GoodMessage(w.message)
    <3>1. <<DesktopData(d)>>[1] = DesktopData(d)
      OBVIOUS
    <3>2. w.op = "send" /\ w.message.type = "DESKTOP" /\ w.message.data[1] = DesktopData(d)
      BY <1>7, <3>1, RequestsHave
    <3> QED BY <1>5, <1>12, <3>2, DesktopAgain DEF GoodMessage
  <2>3. GoodRequest(a, w)
    BY <2>2 DEF GoodRequest
  <2>4. GoodList(a, L) /\ PairStarts(a, L)
    BY <2>1, <2>2, <2>3, OneRequest
  <2>5. todo' = [todo EXCEPT ![a] = L]
    BY <1>9, <2>4, NothingAfter DEF GoodList
  <2> QED BY <1>4, <1>6, <1>10, <1>12, <2>4, <2>5, ChangeKeeps DEF Changed
<1>13. CASE ~Asks(a)
  <2>1. PICK z : z = IF d = 0 THEN x ELSE y
    OBVIOUS
  <2>2. L = <<z>>
    BY <1>8, <1>13, <2>1
  <2>3. z.op = "set" /\ z.atom = "WMDesktop" /\ Says("WMDesktop", z.property, z.value)
    BY <1>5, <1>7, <2>1, RequestsHave, DesktopSays
  <2>4. GoodList(a, L) /\ PairStarts(a, L) /\ WillSet(L, "WMDesktop")
    BY <2>2, <2>3, OneSet
  <2>5. todo' = [todo EXCEPT ![a] = L]
    BY <1>9, <2>4, NothingAfter DEF GoodList
  <2>6. GoodField("WMDesktop", d)
    BY DEF GoodField
  <2> QED BY <1>4, <1>6, <1>10, <1>13, <2>4, <2>5, <2>6, ChangeKeeps DEF Changed
<1> QED BY <1>11, <1>12, <1>13

-----------------------------------------------------------------------------
(* Events                                                                  *)

LEMMA QueueTail ==
  ASSUME NEW q, GoodQueue(q), q # <<>>
  PROVE  GoodQueue(Tail(q)) /\ GoodMessage(Head(q))
<1>1. /\ IsList(q) /\ IsList(Tail(q)) /\ Len(Tail(q)) = Len(q) - 1 /\ Len(q) \in Nat \ {0}
      /\ Head(q) = q[1] /\ \A i \in 1..(Len(q) - 1) : Tail(q)[i] = q[i + 1]
  BY ListTail DEF GoodQueue
<1>2. PICK n \in Nat \ {0} : n = Len(q)
  BY <1>1
<1>3. \A i \in 1..n : GoodMessage(q[i])
  BY <1>2 DEF GoodQueue
<1>4. \A i \in 1..(n - 1) : i + 1 \in 1..n
  OBVIOUS
<1>5. \A i \in 1..(n - 1) : GoodMessage(Tail(q)[i])
  BY <1>1, <1>2, <1>3, <1>4
<1>6. 1 \in 1..n
  OBVIOUS
<1> QED BY <1>1, <1>2, <1>3, <1>5, <1>6 DEF GoodQueue

LEMMA QueueAppend ==
  ASSUME NEW q, GoodQueue(q), NEW m, GoodMessage(m)
  PROVE  GoodQueue(Append(q, m))
<1>1. /\ IsList(q) /\ IsList(Append(q, m)) /\ Len(Append(q, m)) = Len(q) + 1
      /\ Append(q, m)[Len(q) + 1] = m /\ \A i \in 1..Len(q) : Append(q, m)[i] = q[i]
  BY ListAppend DEF GoodQueue
<1>2. PICK n \in Nat : n = Len(q)
  BY <1>1, ListLength
<1>3. \A i \in 1..(n + 1) : i \in 1..n \/ i = n + 1
  OBVIOUS
<1>4. \A i \in 1..n : GoodMessage(q[i])
  BY <1>2 DEF GoodQueue
<1>5. \A i \in 1..(n + 1) : GoodMessage(Append(q, m)[i])
  BY <1>1, <1>2, <1>3, <1>4
<1> QED BY <1>1, <1>2, <1>5 DEF GoodQueue

\* An event is followed by requests; one about a property makes the object read it.
LEMMA DispatchKeeps ==
  ASSUME Understanding, NEW a \in Agents, NEW type, NEW flag, NEW L, Dispatch(a, type),
         todo' = [todo EXCEPT ![a] = L], GoodList(a, L), PairStarts(a, L), Changed(a, flag, L),
         type = "PROPERTY" => \A x \in passed[a] \cap Known :
                                x = FlagOf(Head(queue[a]).data) => Unread(L, x)
  PROVE  Understanding'
<1>1. /\ a \in alive /\ todo[a] = <<>> /\ queue[a] # <<>> /\ Head(queue[a]).type = type
      /\ queue' = [queue EXCEPT ![a] = Tail(queue[a])]
      /\ property' = property /\ alive' = alive /\ topic' = topic
      /\ passed' = passed /\ meant' = meant
  BY DEF Dispatch
<1>2. Idle(todo[a])
  <2>1. 1..Len(<<>>) = {}
    OBVIOUS
  <2> QED BY <1>1, <2>1 DEF Idle
<1>3. DOMAIN queue = Agents /\ alive \subseteq Agents /\ GoodQueue(queue[a])
  BY DEF Understanding
<1>4. /\ DOMAIN queue' = Agents /\ queue'[a] = Tail(queue[a])
      /\ \A b \in Agents \ {a} : queue'[b] = queue[b]
  BY <1>1, <1>3
<1>5. GoodQueue(queue'[a])
  BY <1>1, <1>3, <1>4, QueueTail
<1>6. ASSUME NEW x \in passed[a] \cap Known
      PROVE  Unread(L, x) \/ (Told(queue[a], x) => Told(queue'[a], x))
  <2>1. CASE Head(queue[a]).type = "PROPERTY" /\ FlagOf(Head(queue[a]).data) = x
    BY <1>1, <2>1
  <2>2. CASE ~(Head(queue[a]).type = "PROPERTY" /\ FlagOf(Head(queue[a]).data) = x)
    BY <1>1, <1>3, <1>4, <2>2, ToldTail DEF GoodQueue
  <2> QED BY <2>1, <2>2
<1>7. Working(a, L)
  BY <1>1, <1>2, <1>3, <1>4, <1>5, <1>6, FieldsChange DEF Working
<1> QED BY <1>7, WorkingKeeps

\* update() reads the properties of the flags.
LEMMA UpdateReads ==
  ASSUME NEW a, NEW flags
  PROVE  /\ GoodList(a, Update(a, flags)) /\ PairStarts(a, Update(a, flags))
         /\ \A i \in 1..Len(Update(a, flags)) : Update(a, flags)[i].op = "get"
         /\ \A flag \in flags \cap passed[a] \cap Known : Unread(Update(a, flags), flag)
<1>1. PICK wanted : wanted = (flags \cap passed[a]) \cup (flags \cap {"XAWMState"})
  OBVIOUS
<1>2. PICK u : u = Update(a, flags)
  OBVIOUS
<1>3. /\ IsList(u) /\ GetsPaired(u)
      /\ \A i \in 1..Len(u) : u[i].op = "get" /\ u[i].atom \in Atoms
      /\ \A atom \in ToSet(Order) : FlagOf(atom) \in wanted =>
            \E i \in 1..Len(u) : IsGet(u[i], atom)
  BY <1>1, <1>2, UpdateIs
<1>4. GoodList(a, u)
  BY <1>3 DEF GoodList, GoodRequest
<1>5. PairStarts(a, u)
  BY <1>3 DEF PairStarts, WillSet, IsSet
<1>6. ASSUME NEW flag \in flags \cap passed[a] \cap Known PROVE Unread(u, flag)
  <2>1. flag \in wanted /\ flag \in ToSet(Order) /\ FlagOf(flag) = flag
    BY <1>1, KnownAtoms, FlagOfFlag
  <2>2. PICK i \in 1..Len(u) : IsGet(u[i], flag)
    BY <1>3, <2>1
  <2>3. CASE flag \in Paired
    <3>1. PICK j \in 1..Len(u) : i < j /\ IsGet(u[j], Second(flag))
      BY <1>3, <2>2, <2>3 DEF GetsPaired
    <3> QED BY <2>2, <2>3, <3>1 DEF Unread
  <2>4. CASE flag \notin Paired
    BY <2>2, <2>4 DEF Unread
  <2> QED BY <2>3, <2>4
<1> QED BY <1>2, <1>3, <1>4, <1>5, <1>6

LEMMA PropertyNotifyKeeps ==
  ASSUME Understanding, NEW a \in Agents, OnPropertyNotify(a)
  PROVE  Understanding'
<1>1. PICK flags : flags = {FlagOf(Head(queue[a]).data)}
  OBVIOUS
<1>2. PICK L : L = Update(a, flags)
  OBVIOUS
<1>3. /\ Dispatch(a, "PROPERTY") /\ todo' = [todo EXCEPT ![a] = L] /\ fields' = fields
  BY <1>1, <1>2 DEF OnPropertyNotify
<1>4. /\ GoodList(a, L) /\ PairStarts(a, L)
      /\ \A flag \in flags \cap passed[a] \cap Known : Unread(L, flag)
  BY <1>2, UpdateReads
<1> QED BY <1>1, <1>3, <1>4, DispatchKeeps DEF Changed

\* The message at the head of the queue of the window manager
LEMMA MessageGood ==
  ASSUME Understanding, NEW type, Dispatch(wm, type)
  PROVE  GoodMessage(Head(queue[wm])) /\ Head(queue[wm]).type = type /\ wm \in Agents
<1>1. wm \in Agents
  BY DEF Agents
<1>2. GoodQueue(queue[wm]) /\ queue[wm] # <<>> /\ Head(queue[wm]).type = type
  BY <1>1 DEF Understanding, Dispatch
<1> QED BY <1>1, <1>2, QueueTail

LEMMA StateMessageKeeps == ASSUME Understanding, OnStateMessage PROVE Understanding'
<1>1. PICK data : data = Head(queue[wm]).data
  OBVIOUS
<1>2. PICK mask : mask = {StateFlag[atom] : atom \in data.atoms}
  OBVIOUS
<1>3. PICK state : state = CASE data.action = 1 -> mask
                             [] data.action = 2 -> mask \ fields[wm]["WMState"]
                             [] OTHER -> {}
  OBVIOUS
<1>4. PICK r : r = [op |-> "setState", state |-> state, mask |-> mask, own |-> FALSE]
  OBVIOUS
<1>5. PICK L : L = Beforehand(wm, "WMState") \o <<r>>
  OBVIOUS
<1>6. /\ Dispatch(wm, "STATE") /\ todo' = [todo EXCEPT ![wm] = L] /\ fields' = fields
  BY <1>1, <1>2, <1>3, <1>4, <1>5 DEF OnStateMessage
<1>7. data.atoms \subseteq DOMAIN StateFlag /\ wm \in Agents
  BY <1>1, <1>6, MessageGood DEF GoodMessage
<1>8. mask \subseteq DOMAIN StateAtoms
  <2>1. \A atom \in DOMAIN StateFlag : StateFlag[atom] \in DOMAIN StateAtoms
    BY DEF StateFlag, StateAtoms
  <2> QED BY <1>2, <1>7, <2>1
<1>9. state \subseteq mask
  <2>1. CASE data.action = 1
    BY <1>3, <2>1
  <2>2. CASE data.action = 2
    BY <1>3, <2>2
  <2>3. CASE data.action # 1 /\ data.action # 2
    BY <1>3, <2>3
  <2> QED BY <2>1, <2>2, <2>3
<1>10. r.op = "setState" /\ GoodRequest(wm, r)
  BY <1>4, <1>8, <1>9 DEF GoodRequest
<1>11. GoodList(wm, L) /\ PairStarts(wm, L)
  BY <1>5, <1>10, DecisionList
<1> QED BY <1>6, <1>7, <1>11, DispatchKeeps DEF Changed

LEMMA DesktopMessageKeeps == ASSUME Understanding, OnDesktopMessage PROVE Understanding'
<1>1. PICK n : n = Head(queue[wm]).data[1]
  OBVIOUS
<1>2. PICK d : d = IF n = Word - 1 THEN OnAllDesktops ELSE n + 1
  OBVIOUS
<1>3. PICK r : r = [op |-> "setDesktop", own |-> FALSE, desktop |-> d]
  OBVIOUS
<1>4. PICK L : L = Beforehand(wm, "WMDesktop") \o <<r>>
  OBVIOUS
<1>5. /\ Dispatch(wm, "DESKTOP") /\ todo' = [todo EXCEPT ![wm] = L] /\ fields' = fields
  BY <1>1, <1>2, <1>3, <1>4 DEF OnDesktopMessage
<1>6. n \in 0..(Word - 1) /\ wm \in Agents
  BY <1>1, <1>5, MessageGood DEF GoodMessage
<1>7. d \in -1..(Word - 1)
  BY <1>2, <1>6, WordIs DEF OnAllDesktops
<1>8. r.op = "setDesktop" /\ GoodRequest(wm, r)
  BY <1>3, <1>7 DEF GoodRequest
<1>9. GoodList(wm, L) /\ PairStarts(wm, L)
  BY <1>4, <1>8, DecisionList
<1> QED BY <1>5, <1>6, <1>9, DispatchKeeps DEF Changed

LEMMA MonitorsMessageKeeps ==
  ASSUME Understanding, OnFullscreenMonitorsMessage PROVE Understanding'
<1>1. PICK flag : flag = "WM2FullscreenMonitors"
  OBVIOUS
<1>2. PICK v : v = Signeds(Head(queue[wm]).data)
  OBVIOUS
<1>3. PICK r : r = Set(flag, "CARDINAL", Unsigneds(v), v)
  OBVIOUS
<1>4. /\ Dispatch(wm, "FULLSCREEN_MONITORS") /\ todo' = [todo EXCEPT ![wm] = <<r>>]
      /\ fields' = [fields EXCEPT ![wm][flag] = v]
  BY <1>1, <1>2, <1>3 DEF OnFullscreenMonitorsMessage
<1>5. v \in [1..4 -> Ints] /\ wm \in Agents
  <2>1. PICK u \in [1..4 -> Ints] : Head(queue[wm]).data = Unsigneds(u)
    BY <1>4, MessageGood DEF GoodMessage
  <2>2. 4 \in Nat
    OBVIOUS
  <2>3. v = u
    BY <1>2, <2>1, <2>2, SignedsAgain
  <2> QED BY <1>4, <2>3, MessageGood
<1>6. r.op = "set" /\ r.atom = flag /\ Says(flag, r.property, r.value)
  BY <1>1, <1>3, <1>5, RequestsHave, FourSays
<1>7. flag \in Atoms /\ FlagOf(flag) = flag /\ flag \notin Paired /\ flag # "WMIcon"
  <2>1. Order[11] = flag /\ 11 \in 1..36
    BY <1>1 DEF Order
  <2>2. flag \in Atoms
    BY <2>1, OrderedAtoms
  <2> QED BY <1>1, <2>2, FlagIs DEF Paired
<1>8. GoodRequest(wm, r)
  BY <1>6, <1>7 DEF GoodRequest, RightSet, Others
<1>9. GoodList(wm, <<r>>) /\ PairStarts(wm, <<r>>)
  BY <1>6, <1>7, <1>8, OneRequest
<1>10. WillSet(<<r>>, flag)
  BY <1>6, <1>7, WillSetOne
<1>11. GoodField(flag, v)
  BY <1>1 DEF GoodField
<1>12. Changed(wm, flag, <<r>>)
  BY <1>4, <1>10, <1>11 DEF Changed
<1> QED BY <1>4, <1>5, <1>9, <1>12, DispatchKeeps

-----------------------------------------------------------------------------
(* Objects come and go                                                     *)

LEMMA ViewTold ==
  ASSUME NEW q, NEW t, NEW s, NEW f, NEW p, NEW flag, View(q, s, f, p, flag),
         Told(q, flag) => Told(t, flag)
  PROVE  View(t, s, f, p, flag)
BY DEF View

\* A message for the window manager
LEMMA MessageKeeps ==
  ASSUME Understanding, NEW m, GoodMessage(m),
         queue' = [queue EXCEPT ![wm] = Append(@, m)],
         property' = property /\ fields' = fields /\ todo' = todo /\ alive' = alive
           /\ topic' = topic /\ passed' = passed /\ meant' = meant
  PROVE  Understanding'
<1>1. wm \in Agents /\ DOMAIN queue = Agents
  BY DEF Agents, Understanding
<1>2. GoodQueue(queue[wm]) /\ IsList(queue[wm])
  BY <1>1 DEF Understanding, GoodQueue
<1>3. /\ DOMAIN queue' = Agents /\ queue'[wm] = Append(queue[wm], m)
      /\ \A b \in Agents \ {wm} : queue'[b] = queue[b]
  BY <1>1
<1>4. GoodQueue(queue'[wm])
  BY <1>2, <1>3, QueueAppend
<1>5. \A b \in Agents : \A flag : Told(queue[b], flag) => Told(queue'[b], flag)
  <2> TAKE b \in Agents
  <2> TAKE flag
  <2>1. CASE b = wm
    BY <1>2, <1>3, <2>1, ToldAppend
  <2>2. CASE b # wm
    BY <1>3, <2>2
  <2> QED BY <2>1, <2>2
<1>6. \A b \in Agents : GoodQueue(queue'[b])
  BY <1>3, <1>4 DEF Understanding
<1>7. ASSUME NEW b \in alive, NEW flag \in passed[b] \cap Known
      PROVE  View(queue'[b], todo[b], fields[b][flag], property, flag)
  <2>1. b \in Agents /\ View(queue[b], todo[b], fields[b][flag], property, flag)
    BY DEF Understanding
  <2> QED BY <1>5, <2>1, ViewTold
<1>8. /\ alive' \subseteq Agents /\ topic' \subseteq Flags
      /\ DOMAIN property' = Atoms /\ DOMAIN meant' = Flags
      /\ DOMAIN fields' = Agents /\ DOMAIN todo' = Agents
      /\ client \notin alive' => todo'[client] = <<>>
      /\ GoodIconProperty(property'["WMIcon"])
      /\ \A b \in Agents : GoodFields(fields'[b]) /\ GoodList(b, todo'[b])
  BY DEF Understanding
<1>9. /\ \A flag \in Known : Means(meant'[flag], property'[flag], flag)
      /\ \A flag \in Paired : Phase(todo'[Owner(flag)], property', flag)
  BY DEF Understanding
<1> QED BY <1>3, <1>6, <1>7, <1>8, <1>9 DEF Understanding

LEMMA ToggleKeeps == ASSUME Understanding, NEW s \in States, Toggle(s) PROVE Understanding'
<1>1. PICK x : x = CHOOSE y \in StateAtoms[s] : TRUE
  OBVIOUS
<1>2. x \in DOMAIN StateFlag
  <2>1. s \in DOMAIN StateAtoms
    BY NETWinInfoAssumption
  <2>2. StateAtoms[s] # {}
    BY <2>1 DEF StateAtoms
  <2> QED BY <1>1, <2>1, <2>2, StatesInOrder
<1>3. PICK data : data = [action |-> 2, atoms |-> {x}]
  OBVIOUS
<1>4. PICK m : m = [type |-> "STATE", data |-> data]
  OBVIOUS
<1>5. GoodMessage(m)
  <2>1. m.type = "STATE" /\ m.data = data /\ data.atoms = {x}
    BY <1>3, <1>4
  <2> QED BY <1>2, <2>1 DEF GoodMessage
<1>6. queue' = [queue EXCEPT ![wm] = Append(@, m)]
  BY <1>1, <1>3, <1>4 DEF Toggle
<1>7. property' = property /\ fields' = fields /\ todo' = todo /\ alive' = alive
        /\ topic' = topic /\ passed' = passed /\ meant' = meant
  BY DEF Toggle
<1> QED BY <1>5, <1>6, <1>7, MessageKeeps

LEMMA NothingIdle == Idle(<<>>)
<1>1. 1..Len(<<>>) = {}
  OBVIOUS
<1> QED BY <1>1 DEF Idle

\* A new object reads everything.
LEMMA ConstructKeeps == ASSUME Understanding, Construct PROVE Understanding'
<1>1. PICK L : L = Update(client, passed[client])
  OBVIOUS
<1>2. client \in Agents /\ todo[client] = <<>> /\ alive \subseteq Agents
      /\ DOMAIN queue = Agents /\ DOMAIN fields = Agents
      /\ GoodFields(fields[client]) /\ GoodQueue(queue[client])
  BY DEF Agents, Understanding, Construct
<1>3. /\ todo' = [todo EXCEPT ![client] = L] /\ alive' = alive \cup {client}
      /\ property' = property /\ queue' = queue /\ fields' = fields
      /\ topic' = topic /\ passed' = passed /\ meant' = meant
  BY <1>1 DEF Construct
<1>4. /\ GoodList(client, L) /\ PairStarts(client, L)
      /\ \A flag \in passed[client] \cap Known : Unread(L, flag)
  BY <1>1, UpdateReads
<1>5. Idle(todo[client])
  BY <1>2, NothingIdle
<1>6. Working(client, L)
  BY <1>2, <1>3, <1>4, <1>5 DEF Working
<1> QED BY <1>2, <1>6, WorkingKeeps

\* One more request
LEMMA RequestAppended ==
  ASSUME NEW a, NEW s, GoodList(a, s), \A i \in 1..Len(s) : s[i].op = "get",
         NEW r, r.op = "set", GoodRequest(a, r), FlagOf(r.atom) \notin Paired
  PROVE  /\ GoodList(a, s \o <<r>>) /\ PairStarts(a, s \o <<r>>)
         /\ \A flag : Unread(s, flag) => Unread(s \o <<r>>, flag)
<1>1. PICK t, L : t = <<r>> /\ L = s \o t
  OBVIOUS
<1>2. IsList(s) /\ IsList(t) /\ Len(t) = 1 /\ t[1] = r
  BY <1>1, ShortLists DEF GoodList
<1>3. PICK n \in Nat : n = Len(s)
  BY <1>2, ListLength
<1>4. IsList(L) /\ Len(L) = n + 1
      /\ \A i \in 1..(n + 1) : L[i] = IF i <= n THEN s[i] ELSE t[i - n]
  <2>1. /\ IsList(s \o t) /\ Len(s \o t) = Len(s) + Len(t)
        /\ \A i \in 1..(Len(s) + Len(t)) :
             (s \o t)[i] = IF i <= Len(s) THEN s[i] ELSE t[i - Len(s)]
    <3>1. IsList(s) /\ IsList(t)
      BY <1>2
    <3> QED BY <3>1, ListConcat
  <2> QED BY <1>1, <1>2, <1>3, <2>1
<1>5. /\ \A i \in 1..n : i \in 1..(n + 1) /\ L[i] = s[i]
      /\ \A i \in 1..(n + 1) : i \in 1..n \/ (i = n + 1 /\ L[i] = r)
  BY <1>2, <1>4
<1>6. \A i \in 1..(n + 1) : GoodRequest(a, L[i])
  BY <1>3, <1>5 DEF GoodList
<1>7. \A i \in 1..(n + 1) : L[i].op \notin {"setState", "setDesktop"}
  BY <1>3, <1>5
<1>8. GetsPaired(L)
  <2>1. ASSUME NEW i \in 1..(n + 1), NEW flag \in Paired, IsGet(L[i], flag)
        PROVE  \E j \in 1..(n + 1) : i < j /\ IsGet(L[j], Second(flag))
    <3>1. i \in 1..n /\ IsGet(s[i], flag)
      BY <1>5, <2>1 DEF IsGet
    <3>2. PICK j \in 1..n : i < j /\ IsGet(s[j], Second(flag))
      BY <1>3, <3>1 DEF GoodList, GetsPaired
    <3> QED BY <1>5, <3>2
  <2> QED BY <1>4, <2>1 DEF GetsPaired
<1>9. \A flag \in Paired : ~WillSet(L, flag)
  BY <1>3, <1>4, <1>5 DEF WillSet, IsSet
<1>10. ASSUME NEW flag, Unread(s, flag) PROVE Unread(L, flag)
  <2>1. CASE flag \in Paired
    <3>1. PICK j \in 1..n : /\ IsGet(s[j], Second(flag))
                            /\ \E i \in 1..n : i < j /\ IsGet(s[i], flag)
      BY <1>3, <1>10, <2>1 DEF Unread
    <3>2. PICK i \in 1..n : i < j /\ IsGet(s[i], flag)
      BY <3>1
    <3>3. /\ j \in 1..Len(L) /\ i \in 1..Len(L) /\ IsGet(L[j], Second(flag))
          /\ IsGet(L[i], flag)
      BY <1>4, <1>5, <3>1, <3>2
    <3> QED BY <2>1, <3>2, <3>3 DEF Unread
  <2>2. CASE flag \notin Paired
    <3>1. PICK j \in 1..n : IsGet(s[j], flag)
      BY <1>3, <1>10, <2>2 DEF Unread
    <3> QED BY <1>4, <1>5, <2>2, <3>1 DEF Unread
  <2> QED BY <2>1, <2>2
<1> QED BY <1>1, <1>4, <1>6, <1>7, <1>8, <1>9, <1>10 DEF GoodList, PairStarts

LEMMA WMStateGood ==
  ASSUME NEW a, NEW n
  PROVE  /\ WMState(n).op = "set" /\ WMState(n).atom = "XAWMState"
         /\ FlagOf(WMState(n).atom) \notin Paired /\ GoodRequest(a, WMState(n))
         /\ GoodList(a, <<WMState(n)>>) /\ PairStarts(a, <<WMState(n)>>)
<1>1. PICK r : r = WMState(n)
  OBVIOUS
<1>2. /\ r.op = "set" /\ r.atom = "XAWMState" /\ r.value = MappingState(n)
      /\ r.property = Property("WM_STATE", <<n>>)
  BY <1>1 DEF WMState
<1>3. Says("XAWMState", r.property, r.value)
  BY <1>2, MappingSays
<1>4. GoodRequest(a, r) /\ GoodList(a, <<r>>) /\ PairStarts(a, <<r>>)
  BY <1>2, <1>3, OneSet
<1>5. FlagOf("XAWMState") \notin Paired
  BY FlagIs DEF Paired
<1> QED BY <1>1, <1>2, <1>4, <1>5

LEMMA ManageKeeps == ASSUME Understanding, Manage PROVE Understanding'
<1>1. PICK u : u = Update(wm, passed[wm])
  OBVIOUS
<1>2. PICK L : L = u \o <<WMState(1)>>
  OBVIOUS
<1>3. wm \in Agents /\ todo[wm] = <<>> /\ alive \subseteq Agents
      /\ DOMAIN queue = Agents /\ DOMAIN fields = Agents
      /\ GoodFields(fields[wm]) /\ GoodQueue(queue[wm]) /\ wm # client
  BY DEF Agents, Understanding, Manage, wm, client
<1>4. /\ todo' = [todo EXCEPT ![wm] = L] /\ alive' = alive \cup {wm}
      /\ property' = property /\ queue' = queue /\ fields' = fields
      /\ topic' = topic /\ passed' = passed /\ meant' = meant
  BY <1>1, <1>2 DEF Manage
<1>5. /\ GoodList(wm, u) /\ \A flag \in passed[wm] \cap Known : Unread(u, flag)
      /\ \A i \in 1..Len(u) : u[i].op = "get"
  BY <1>1, UpdateReads
<1>6. /\ GoodList(wm, L) /\ PairStarts(wm, L)
      /\ \A flag \in passed[wm] \cap Known : Unread(L, flag)
  BY <1>2, <1>5, WMStateGood, RequestAppended
<1>7. Idle(todo[wm])
  BY <1>3, NothingIdle
<1>8. Working(wm, L)
  BY <1>3, <1>4, <1>6, <1>7 DEF Working
<1> QED BY <1>3, <1>8, WorkingKeeps

LEMMA IconifyKeeps == ASSUME Understanding, NEW n, Iconify(n) PROVE Understanding'
<1>1. PICK L : L = <<WMState(n)>>
  OBVIOUS
<1>2. wm \in Agents /\ wm # client /\ todo[wm] = <<>>
  BY DEF Agents, Iconify, wm, client
<1>3. /\ todo' = [todo EXCEPT ![wm] = L] /\ fields' = fields
      /\ property' = property /\ queue' = queue /\ alive' = alive /\ topic' = topic
        /\ passed' = passed /\ meant' = meant
  BY <1>1 DEF Iconify
<1>4. GoodList(wm, L) /\ PairStarts(wm, L)
  BY <1>1, WMStateGood
<1>5. Idle(todo[wm])
  BY <1>2, NothingIdle
<1> QED BY <1>2, <1>3, <1>4, <1>5, ChangeKeeps DEF Changed

\* The object of the window manager is no more, its state and desktop are removed.
LEMMA WithdrawKeeps == ASSUME Understanding, Withdraw PROVE Understanding'
<1>1. PICK x, y, z : /\ x = Delete("WMState", {}) /\ y = Delete("WMDesktop", 0)
                     /\ z = Delete("XAWMState", "Withdrawn")
  OBVIOUS
<1>2. PICK L : L = <<x, y, z>>
  OBVIOUS
<1>3. wm \in Agents /\ todo[wm] = <<>> /\ alive \subseteq Agents
      /\ DOMAIN queue = Agents /\ DOMAIN fields = Agents /\ wm # client
  BY DEF Agents, Understanding, Withdraw, wm, client
<1>4. /\ todo' = [todo EXCEPT ![wm] = L] /\ alive' = alive \ {wm}
      /\ property' = property /\ queue' = [queue EXCEPT ![wm] = <<>>]
      /\ fields' = [fields EXCEPT ![wm] = NewFields]
      /\ topic' = topic /\ passed' = passed /\ meant' = meant
  BY <1>1, <1>2 DEF Withdraw
<1>5. /\ x.op = "set" /\ x.atom = "WMState" /\ Says("WMState", x.property, x.value)
      /\ y.op = "set" /\ y.atom = "WMDesktop" /\ Says("WMDesktop", y.property, y.value)
      /\ z.op = "set" /\ z.atom = "XAWMState" /\ Says("XAWMState", z.property, z.value)
  BY <1>1, RequestsHave, StateSays, DesktopSays, MappingSays
<1>6. GoodRequest(wm, x) /\ GoodRequest(wm, y) /\ GoodRequest(wm, z)
  BY <1>5, OneSet
<1>7. IsList(L) /\ Len(L) = 3 /\ L[1] = x /\ L[2] = y /\ L[3] = z
  BY <1>2, ShortLists
<1>8. \A i \in 1..Len(L) : L[i] \in {x, y, z}
  BY <1>7
<1>9. GoodList(wm, L)
  <2>1. GetsPaired(L)
    BY <1>5, <1>8 DEF GetsPaired, IsGet
  <2> QED BY <1>5, <1>6, <1>7, <1>8, <2>1 DEF GoodList
<1>10. PairStarts(wm, L)
  <2>1. \A flag \in Paired : ~WillSet(L, flag)
    <3>1. \A i \in 1..Len(L) : L[i].atom \in {"WMState", "WMDesktop", "XAWMState"}
      BY <1>5, <1>8
    <3>2. \A atom \in {"WMState", "WMDesktop", "XAWMState"} : FlagOf(atom) \notin Paired
      BY FlagIs DEF Paired
    <3> QED BY <3>1, <3>2 DEF WillSet, IsSet
  <2> QED BY <2>1 DEF PairStarts
<1>11. Idle(todo[wm])
  BY <1>3, NothingIdle
<1>12. /\ DOMAIN queue' = Agents /\ queue'[wm] = <<>>
       /\ \A b \in Agents \ {wm} : queue'[b] = queue[b]
       /\ DOMAIN fields' = Agents /\ fields'[wm] = NewFields
       /\ \A b \in Agents \ {wm} : fields'[b] = fields[b]
  BY <1>3, <1>4
<1>13. GoodQueue(<<>>)
  <2>1. Len(<<>>) = 0 /\ 1..0 = {}
    OBVIOUS
  <2> QED BY <2>1, NothingToDo DEF GoodQueue, GoodList
<1>14. /\ alive' \subseteq Agents /\ alive' \subseteq alive \cup {wm} /\ wm \notin alive'
       /\ client \in alive => client \in alive'
  BY <1>3, <1>4
<1>15. Working(wm, L)
  BY <1>3, <1>4, <1>9, <1>10, <1>11, <1>12, <1>13, <1>14, NewFieldsGood DEF Working
<1> QED BY <1>3, <1>15, WorkingKeeps

-----------------------------------------------------------------------------
(* Requests are answered                                                   *)

LEMMA GoodListTail ==
  ASSUME NEW a, NEW s, GoodList(a, s), s # <<>>
  PROVE  /\ GoodList(a, Tail(s)) /\ GoodRequest(a, Head(s))
         /\ \A flag : WillSet(Tail(s), flag) => WillSet(s, flag)
<1>1. PICK t : t = Tail(s)
  OBVIOUS
<1>2. PICK n \in Nat \ {0} : n = Len(s)
  BY ListTail DEF GoodList
<1>3. /\ IsList(t) /\ Len(t) = n - 1 /\ Head(s) = s[1]
      /\ \A i \in 1..(n - 1) : t[i] = s[i + 1]
  BY <1>1, <1>2, ListTail DEF GoodList
<1>4. \A i \in 1..(n - 1) : i + 1 \in 1..n /\ t[i] = s[i + 1]
  BY <1>3
<1>5. \A i \in 1..(n - 1) : GoodRequest(a, t[i])
  BY <1>2, <1>4 DEF GoodList
<1>6. \A i \in 1..(n - 1) : t[i].op \in {"setState", "setDesktop"} => i = n - 1
  <2> TAKE i \in 1..(n - 1)
  <2> HAVE t[i].op \in {"setState", "setDesktop"}
  <2>1. i + 1 = n
    BY <1>2, <1>4 DEF GoodList
  <2> QED BY <2>1
<1>7. GetsPaired(t)
  <2>1. ASSUME NEW i \in 1..(n - 1), NEW flag \in Paired, IsGet(t[i], flag)
        PROVE  \E j \in 1..(n - 1) : i < j /\ IsGet(t[j], Second(flag))
    <3>1. i + 1 \in 1..n /\ IsGet(s[i + 1], flag)
      BY <1>4, <2>1
    <3>2. PICK j \in 1..n : i + 1 < j /\ IsGet(s[j], Second(flag))
      BY <1>2, <3>1 DEF GoodList, GetsPaired
    <3>3. j - 1 \in 1..(n - 1) /\ i < j - 1 /\ j - 1 + 1 = j
      BY <3>2
    <3>4. t[j - 1] = s[j]
      BY <1>4, <3>3
    <3> QED BY <3>2, <3>3, <3>4
  <2> QED BY <1>3, <2>1 DEF GetsPaired
<1>8. GoodRequest(a, Head(s))
  <2>1. 1 \in 1..n
    OBVIOUS
  <2> QED BY <1>2, <1>3, <2>1 DEF GoodList
<1>9. \A flag : WillSet(t, flag) => WillSet(s, flag)
  BY <1>2, <1>3, <1>4 DEF WillSet
<1> QED BY <1>1, <1>3, <1>5, <1>6, <1>7, <1>8, <1>9 DEF GoodList

LEMMA WillSetHead ==
  ASSUME NEW s, IsList(s), s # <<>>, NEW flag, IsSet(Head(s), flag)
  PROVE  WillSet(s, flag)
<1>1. Head(s) = s[1] /\ 1 \in 1..Len(s)
  BY ListTail
<1> QED BY <1>1 DEF WillSet

\* Requests about something else do not matter to two properties of a flag.
LEMMA PhaseTail ==
  ASSUME NEW a, NEW s, GoodList(a, s), s # <<>>, NEW p, NEW flag \in Paired, Phase(s, p, flag),
         ~IsSet(Head(s), flag)
  PROVE  ~WillSet(Tail(s), flag) /\ p[Second(flag)] = p[flag]
<1>1. ~BothToSet(s, flag)
  <2> SUFFICES ASSUME NEW x, NEW y, s = <<x, y>>, x.op = "set", x.atom = flag PROVE FALSE
    BY DEF BothToSet
  <2>1. Head(s) = x
    OBVIOUS
  <2> QED BY <2>1, SecondOf DEF IsSet
<1>2. ~OneToSet(s, p, flag)
  <2> SUFFICES ASSUME NEW y, s = <<y>>, y.op = "set", y.atom = Second(flag) PROVE FALSE
    BY DEF OneToSet
  <2>1. Head(s) = y
    OBVIOUS
  <2> QED BY <2>1, SecondOf DEF IsSet
<1> QED BY <1>1, <1>2, GoodListTail DEF Phase

\* The list of the agent whose request is answered
LEMMA AnsweredTodo ==
  ASSUME Understanding, NEW a \in Agents, todo[a] # <<>>, Done(a), alive' = alive
  PROVE  /\ DOMAIN todo' = Agents /\ \A b \in Agents : GoodList(b, todo'[b])
         /\ todo'[a] = Tail(todo[a]) /\ \A b \in Agents \ {a} : todo'[b] = todo[b]
         /\ client \notin alive' => todo'[client] = <<>>
<1>1. todo' = [todo EXCEPT ![a] = Tail(todo[a])] /\ DOMAIN todo = Agents
  BY DEF Done, Understanding
<1>2. /\ DOMAIN todo' = Agents /\ todo'[a] = Tail(todo[a])
      /\ \A b \in Agents \ {a} : todo'[b] = todo[b]
  BY <1>1
<1>3. GoodList(a, Tail(todo[a]))
  BY GoodListTail DEF Understanding
<1>4. \A b \in Agents : GoodList(b, todo'[b])
  BY <1>2, <1>3 DEF Understanding
<1>5. client \in Agents
  BY DEF Agents
<1> QED BY <1>2, <1>4, <1>5 DEF Understanding

\* Requests that change no property
LEMMA PhasesKeep ==
  ASSUME Understanding, NEW a \in Agents, todo[a] # <<>>, Done(a), alive' = alive,
         property' = property, Head(todo[a]).op # "set"
  PROVE  \A flag \in Paired : Phase(todo'[Owner(flag)], property', flag)
<1> TAKE flag \in Paired
<1>1. Owner(flag) \in Agents
  BY DEF Owner, Agents
<1>2. Phase(todo[Owner(flag)], property, flag)
  BY DEF Understanding
<1>3. CASE Owner(flag) = a
  <2>1. GoodList(a, todo[a]) /\ ~IsSet(Head(todo[a]), flag)
    BY DEF Understanding, IsSet
  <2>2. ~WillSet(Tail(todo[a]), flag) /\ property[Second(flag)] = property[flag]
    BY <1>2, <1>3, <2>1, PhaseTail
  <2>3. todo'[a] = Tail(todo[a])
    BY AnsweredTodo
  <2> QED BY <1>3, <2>2, <2>3 DEF Phase
<1>4. CASE Owner(flag) # a
  <2>1. todo'[Owner(flag)] = todo[Owner(flag)]
    BY <1>1, <1>4, AnsweredTodo
  <2> QED BY <1>2, <2>1
<1> QED BY <1>3, <1>4

\* A request for another flag
LEMMA ViewElse ==
  ASSUME NEW a, NEW q, NEW s, GoodList(a, s), s # <<>>, NEW f, NEW p, NEW flag \in Known,
         View(q, s, f, p, flag), Head(s).op \in {"set", "get"} => FlagOf(Head(s).atom) # flag
  PROVE  View(q, Tail(s), f, p, flag)
<1>1. FlagOf(flag) = flag
  BY KnownAtoms, FlagOfFlag
<1>2. ~IsSet(Head(s), flag) /\ ~IsGet(Head(s), flag)
  BY <1>1 DEF IsSet, IsGet
<1>3. flag \in Paired => ~IsGet(Head(s), Second(flag))
  BY SecondOf DEF IsGet
<1> QED BY <1>2, <1>3, ViewTail DEF GoodList

LEMMA GetKeeps == ASSUME Understanding, NEW a \in Agents, RequestGet(a) PROVE Understanding'
<1>1. PICK r, atom, flag : r = Head(todo[a]) /\ atom = r.atom /\ flag = FlagOf(atom)
  OBVIOUS
<1>2. PICK v : v = Read(atom, fields[a][flag], property[atom])
  OBVIOUS
<1>3. /\ todo[a] # <<>> /\ r.op = "get" /\ Done(a)
      /\ property' = property /\ queue' = queue /\ alive' = alive /\ topic' = topic
      /\ passed' = passed /\ meant' = meant
  BY <1>1 DEF RequestGet, Works
<1>4. /\ GoodList(a, todo[a]) /\ IsList(todo[a]) /\ GetsPaired(todo[a])
      /\ DOMAIN fields = Agents /\ GoodFields(fields[a]) /\ DOMAIN fields[a] = Flags
      /\ alive \subseteq Agents
  BY DEF Understanding, GoodList, GoodFields
<1>5. atom \in Atoms /\ flag \in Flags
  <2>1. GoodRequest(a, r)
    BY <1>1, <1>3, <1>4, GoodListTail
  <2> QED BY <1>1, <1>3, <2>1, KnownAtoms DEF GoodRequest
<1>6. fields' = [fields EXCEPT ![a][flag] = v]
  BY <1>1, <1>2, <1>4, <1>5 DEF RequestGet
<1>7. PICK g : g = [fields[a] EXCEPT ![flag] = v]
  OBVIOUS
<1>8. /\ DOMAIN fields' = Agents /\ fields'[a] = g
      /\ \A b \in Agents \ {a} : fields'[b] = fields[b]
      /\ g[flag] = v /\ \A x \in Flags : x # flag => g[x] = fields[a][x]
  <2>1. fields' = [fields EXCEPT ![a] = g]
    BY <1>6, <1>7
  <2> QED BY <1>4, <1>5, <1>7, <2>1
<1>9. GoodFields(g)
  <2>1. flag \notin {"WMState", "WMIcon"} => GoodField(flag, v)
    BY DEF GoodField
  <2>2. flag \in {"WMState", "WMIcon"} => atom = flag
    BY <1>1, AtomsOfFlag DEF Paired
  <2>3. flag = "WMState" => GoodField(flag, v)
    BY <1>2, <2>2, StatesRead DEF GoodField
  <2>4. flag = "WMIcon" => GoodField(flag, v)
    BY <1>2, <2>2, IconRead DEF GoodField, Understanding
  <2> QED BY <1>4, <1>7, <2>1, <2>3, <2>4, FieldChanged
<1>10. \A b \in Agents : GoodFields(fields'[b]) /\ GoodQueue(queue'[b])
  BY <1>3, <1>8, <1>9 DEF Understanding
<1>11. /\ DOMAIN todo' = Agents /\ \A b \in Agents : GoodList(b, todo'[b])
       /\ todo'[a] = Tail(todo[a]) /\ \A b \in Agents \ {a} : todo'[b] = todo[b]
       /\ client \notin alive' => todo'[client] = <<>>
  BY <1>3, AnsweredTodo
<1>12. \A x \in Paired : Phase(todo'[Owner(x)], property', x)
  <2>1. Head(todo[a]).op # "set"
    BY <1>1, <1>3
  <2> QED BY <1>3, <2>1, PhasesKeep
<1>13. ASSUME NEW b \in alive, NEW x \in passed[b] \cap Known
       PROVE  View(queue[b], todo'[b], fields'[b][x], property, x)
  <2>1. b \in Agents /\ View(queue[b], todo[b], fields[b][x], property, x) /\ x \in Flags
    BY KnownAtoms DEF Understanding
  <2>2. CASE b # a
    BY <1>8, <1>11, <2>1, <2>2
  <2>3. CASE b = a /\ x = flag
    <3>1. View(queue[a], Tail(todo[a]), v, property, x)
      BY <1>1, <1>2, <1>3, <1>4, <2>1, <2>3, ViewRead
    <3> QED BY <1>8, <1>11, <2>3, <3>1
  <2>4. CASE b = a /\ x # flag
    <3>1. View(queue[a], Tail(todo[a]), fields[a][x], property, x)
      BY <1>1, <1>3, <1>4, <2>1, <2>4, ViewElse
    <3> QED BY <1>8, <1>11, <2>1, <2>4, <3>1
  <2> QED BY <2>2, <2>3, <2>4
<1>14. /\ alive' \subseteq Agents /\ topic' \subseteq Flags /\ DOMAIN queue' = Agents
       /\ DOMAIN property' = Atoms /\ DOMAIN meant' = Flags
       /\ GoodIconProperty(property'["WMIcon"])
       /\ \A x \in Known : Means(meant'[x], property'[x], x)
  BY <1>3 DEF Understanding
<1>15. \A b \in alive' : \A x \in passed'[b] \cap Known :
         View(queue'[b], todo'[b], fields'[b][x], property', x)
  BY <1>3, <1>13
<1> QED BY <1>8, <1>10, <1>11, <1>12, <1>14, <1>15 DEF Understanding

LEMMA SendKeeps == ASSUME Understanding, NEW a \in Agents, RequestSend(a) PROVE Understanding'
<1>1. PICK r : r = Head(todo[a])
  OBVIOUS
<1>2. /\ todo[a] # <<>> /\ r.op = "send" /\ Done(a)
      /\ property' = property /\ fields' = fields /\ alive' = alive /\ topic' = topic
      /\ passed' = passed /\ meant' = meant
  BY <1>1 DEF RequestSend, Works
<1>3. /\ GoodList(a, todo[a]) /\ wm \in Agents /\ GoodQueue(queue[wm]) /\ IsList(queue[wm])
      /\ DOMAIN queue = Agents /\ alive \subseteq Agents
  BY DEF Understanding, Agents, GoodQueue
<1>4. GoodMessage(r.message)
  BY <1>1, <1>2, <1>3, GoodListTail DEF GoodRequest
<1>5. PICK q : q = IF managed THEN Append(queue[wm], r.message) ELSE queue[wm]
  OBVIOUS
<1>6. queue' = [queue EXCEPT ![wm] = q]
  BY <1>1, <1>5 DEF RequestSend
<1>7. GoodQueue(q) /\ \A flag : Told(queue[wm], flag) => Told(q, flag)
  BY <1>3, <1>4, <1>5, QueueAppend, ToldAppend
<1>8. /\ DOMAIN queue' = Agents
      /\ \A b \in Agents : /\ GoodQueue(queue'[b])
                           /\ \A flag : Told(queue[b], flag) => Told(queue'[b], flag)
  <2>1. /\ DOMAIN queue' = Agents /\ queue'[wm] = q
        /\ \A b \in Agents \ {wm} : queue'[b] = queue[b]
    BY <1>3, <1>6
  <2> QED BY <1>7, <2>1 DEF Understanding
<1>9. /\ DOMAIN todo' = Agents /\ \A b \in Agents : GoodList(b, todo'[b])
      /\ todo'[a] = Tail(todo[a]) /\ \A b \in Agents \ {a} : todo'[b] = todo[b]
      /\ client \notin alive' => todo'[client] = <<>>
  BY <1>2, AnsweredTodo
<1>10. \A x \in Paired : Phase(todo'[Owner(x)], property', x)
  <2>1. Head(todo[a]).op # "set"
    BY <1>1, <1>2
  <2> QED BY <1>2, <2>1, PhasesKeep
<1>11. ASSUME NEW b \in alive, NEW x \in passed[b] \cap Known
       PROVE  View(queue'[b], todo'[b], fields[b][x], property, x)
  <2>1. b \in Agents /\ View(queue[b], todo[b], fields[b][x], property, x)
    BY DEF Understanding
  <2>2. View(queue[b], todo'[b], fields[b][x], property, x)
    <3>1. CASE b # a
      BY <1>9, <2>1, <3>1
    <3>2. CASE b = a
      <4>1. GoodList(a, todo[a]) /\ todo[a] # <<>> /\ todo'[b] = Tail(todo[a])
        BY <1>2, <1>3, <1>9, <3>2
      <4>2. View(queue[a], todo[a], fields[a][x], property, x)
        BY <2>1, <3>2
      <4>3. ~(Head(todo[a]).op \in {"set", "get"})
        BY <1>1, <1>2
      <4>4. View(queue[a], Tail(todo[a]), fields[a][x], property, x)
        BY <4>1, <4>2, <4>3, ViewElse
      <4> QED BY <3>2, <4>1, <4>4
    <3> QED BY <3>1, <3>2
  <2> QED BY <1>8, <2>1, <2>2, ViewTold
<1>12. /\ alive' \subseteq Agents /\ topic' \subseteq Flags
       /\ DOMAIN property' = Atoms /\ DOMAIN meant' = Flags /\ DOMAIN fields' = Agents
       /\ GoodIconProperty(property'["WMIcon"])
       /\ \A x \in Known : Means(meant'[x], property'[x], x)
       /\ \A b \in Agents : GoodFields(fields'[b])
  BY <1>2 DEF Understanding
<1>13. \A b \in alive' : \A x \in passed'[b] \cap Known :
         View(queue'[b], todo'[b], fields'[b][x], property', x)
  BY <1>2, <1>11
<1> QED BY <1>8, <1>9, <1>10, <1>12, <1>13 DEF Understanding

\* A property is set: who reads it is told.
LEMMA SetPhases ==
  ASSUME Understanding, NEW a \in Agents, NEW r, r = Head(todo[a]), todo[a] # <<>>,
         r.op = "set", Done(a), alive' = alive, NEW flag \in Paired,
         property' = [property EXCEPT ![r.atom] = r.property]
  PROVE  /\ Phase(todo'[Owner(flag)], property', flag)
         /\ FlagOf(r.atom) = flag => Says(flag, property'[flag], r.value)
<1>1. PICK s, p : s = todo[a] /\ p = property
  OBVIOUS
<1>2. GoodList(a, s) /\ s # <<>> /\ IsList(s) /\ Owner(flag) \in Agents
      /\ Phase(todo[Owner(flag)], p, flag) /\ DOMAIN p = Atoms
  BY <1>1 DEF Understanding, Owner, Agents, GoodList
<1>3. /\ todo'[a] = Tail(s) /\ \A b \in Agents \ {a} : todo'[b] = todo[b]
  BY <1>1, AnsweredTodo
<1>4. RightSet(a, r)
  BY <1>1, <1>2, GoodListTail DEF GoodRequest
<1>5. \A atom \in Atoms : property'[atom] = IF atom = r.atom THEN r.property ELSE p[atom]
  BY <1>1, <1>2, <1>4 DEF RightSet
<1>6. flag \in Atoms /\ Second(flag) \in Atoms /\ FlagOf(flag) = flag
      /\ FlagOf(Second(flag)) = flag /\ Second(flag) # flag
  BY KnownAtoms, SecondOf
<1>7. CASE FlagOf(r.atom) # flag
  <2>1. property'[flag] = p[flag] /\ property'[Second(flag)] = p[Second(flag)]
    BY <1>5, <1>6, <1>7
  <2>2. CASE Owner(flag) = a
    <3>1. ~WillSet(Tail(s), flag) /\ p[Second(flag)] = p[flag]
      BY <1>1, <1>2, <1>7, <2>2, PhaseTail DEF IsSet
    <3> QED BY <1>3, <1>7, <2>1, <2>2, <3>1 DEF Phase
  <2>3. CASE Owner(flag) # a
    <3>1. todo'[Owner(flag)] = todo[Owner(flag)]
      BY <1>2, <1>3, <2>3
    <3> QED BY <1>2, <1>7, <2>1, <3>1 DEF Phase, OneToSet
  <2> QED BY <2>2, <2>3
<1>8. CASE FlagOf(r.atom) = flag
  <2>1. Owner(flag) = a
    BY <1>4, <1>8 DEF RightSet
  <2>2. WillSet(s, flag)
    BY <1>1, <1>2, <1>8, WillSetHead DEF IsSet
  <2>3. BothToSet(s, flag) \/ OneToSet(s, p, flag)
    BY <1>1, <1>2, <2>1, <2>2 DEF Phase
  <2>4. CASE BothToSet(s, flag)
    <3>1. PICK x, y : /\ s = <<x, y>> /\ y.op = "set"
                      /\ x.atom = flag /\ y.atom = Second(flag)
                      /\ x.property = y.property /\ x.value = y.value
                      /\ Says(flag, x.property, x.value)
      BY <2>4 DEF BothToSet
    <3>2. r = x /\ Tail(s) = <<y>>
      BY <1>1, <3>1
    <3>3. property'[flag] = x.property
      BY <1>5, <1>6, <3>1, <3>2
    <3>4. OneToSet(<<y>>, property', flag)
      BY <3>1, <3>3 DEF OneToSet
    <3> QED BY <1>3, <2>1, <3>1, <3>2, <3>3, <3>4 DEF Phase
  <2>5. CASE OneToSet(s, p, flag)
    <3>1. PICK y : /\ s = <<y>> /\ y.atom = Second(flag)
                   /\ y.property = p[flag] /\ Says(flag, p[flag], y.value)
      BY <2>5 DEF OneToSet
    <3>2. r = y /\ Tail(s) = <<>>
      BY <1>1, <3>1
    <3>3. property'[flag] = p[flag] /\ property'[Second(flag)] = p[flag]
      BY <1>5, <1>6, <3>1, <3>2
    <3> QED BY <1>3, <2>1, <3>1, <3>2, <3>3, NothingToDo DEF Phase
  <2> QED BY <2>3, <2>4, <2>5
<1> QED BY <1>7, <1>8

\* What is in a list, whatever the order
In(s) == {s[i] : i \in 1..Len(s)}

LEMMA InOne == ASSUME NEW x PROVE In(<<>>) = {} /\ In(<<x>>) = {x}
<1>1. Len(<<>>) = 0 /\ 1..0 = {} /\ Len(<<x>>) = 1 /\ 1..1 = {1} /\ <<x>>[1] = x
  OBVIOUS
<1> QED BY <1>1 DEF In

LEMMA InOf ==
  ASSUME NEW s, IsList(s), NEW x
  PROVE  /\ In(Append(s, x)) = In(s) \cup {x}
         /\ s # <<>> => In(s) = {Head(s)} \cup In(Tail(s))
<1>2. PICK n \in Nat : n = Len(s)
  BY ListLength
<1>3. In(Append(s, x)) = In(s) \cup {x}
  <2>1. PICK t : t = Append(s, x)
    OBVIOUS
  <2>2. Len(t) = n + 1 /\ t[n + 1] = x /\ \A i \in 1..n : t[i] = s[i]
    BY <1>2, <2>1, ListAppend
  <2>3. 1..(n + 1) = 1..n \cup {n + 1}
    BY <1>2
  <2> QED BY <1>2, <2>1, <2>2, <2>3 DEF In
<1>4. ASSUME s # <<>> PROVE In(s) = {Head(s)} \cup In(Tail(s))
  <2>1. PICK t : t = Tail(s)
    OBVIOUS
  <2>2. Len(t) = n - 1 /\ n # 0 /\ Head(s) = s[1] /\ \A i \in 1..(n - 1) : t[i] = s[i + 1]
    BY <1>2, <1>4, <2>1, ListTail
  <2>3. ASSUME NEW i \in 1..n PROVE s[i] = Head(s) \/ s[i] \in In(t)
    <3>1. CASE i = 1
      BY <2>2, <3>1
    <3>2. CASE i # 1
      <4>1. i - 1 \in 1..(n - 1) /\ i - 1 + 1 = i
        BY <1>2, <3>2
      <4> QED BY <2>2, <4>1 DEF In
    <3> QED BY <3>1, <3>2
  <2>4. ASSUME NEW i \in 1..(n - 1) PROVE t[i] \in In(s)
    <3>1. i + 1 \in 1..n
      BY <1>2
    <3> QED BY <1>2, <2>2, <3>1 DEF In
  <2>5. Head(s) \in In(s)
    <3>1. 1 \in 1..n
      BY <1>2, <2>2
    <3> QED BY <1>2, <2>2, <3>1 DEF In
  <2>6. In(s) = {s[i] : i \in 1..n} /\ In(t) = {t[i] : i \in 1..(n - 1)}
    BY <1>2, <2>2 DEF In
  <2> QED BY <2>1, <2>3, <2>4, <2>5, <2>6
<1> QED BY <1>3, <1>4

LEMMA InBoth ==
  ASSUME NEW s, IsList(s), NEW t, IsList(t)
  PROVE  In(s \o t) = In(s) \cup In(t)
<1>1. PICK m \in Nat, n \in Nat : m = Len(s) /\ n = Len(t)
  BY ListLength
<1>2. PICK u : u = s \o t
  OBVIOUS
<1>3. /\ Len(u) = m + n /\ \A i \in 1..m : u[i] = s[i]
      /\ \A i \in 1..n : u[m + i] = t[i]
  BY <1>1, <1>2, ListConcat
<1>4. ASSUME NEW i \in 1..(m + n) PROVE u[i] \in In(s) \cup In(t)
  <2>1. CASE i <= m
    BY <1>1, <1>3, <2>1 DEF In
  <2>2. CASE i > m
    <3>1. i - m \in 1..n /\ m + (i - m) = i
      BY <1>1, <2>2
    <3> QED BY <1>1, <1>3, <3>1 DEF In
  <2> QED BY <1>1, <2>1, <2>2
<1>5. ASSUME NEW i \in 1..m PROVE s[i] \in In(u)
  <2>1. i \in 1..(m + n)
    BY <1>1
  <2> QED BY <1>3, <2>1 DEF In
<1>6. ASSUME NEW i \in 1..n PROVE t[i] \in In(u)
  <2>1. m + i \in 1..(m + n)
    BY <1>1
  <2> QED BY <1>3, <2>1 DEF In
<1>7. In(u) = {u[i] : i \in 1..(m + n)} /\ In(s) = {s[i] : i \in 1..m}
      /\ In(t) = {t[i] : i \in 1..n}
  BY <1>1, <1>3 DEF In
<1> QED BY <1>2, <1>4, <1>5, <1>6, <1>7

-----------------------------------------------------------------------------
(* What is deleted                                                         *)

\* Nobody is told that a property is deleted that is not there.  Who deletes one has
\* only properties to write then, and its object says what there will be to read.
Deletion(r) == r.op = "set" /\ r.property.type = "NONE"
Blank(flag) == ReadAll(flag, 0, NoProperty, NoProperty)
Clears(s, f) ==
  \A r \in In(s) : Deletion(r) =>
    /\ r.property = NoProperty
    /\ FlagOf(r.atom) \in Known => f[FlagOf(r.atom)] = Blank(FlagOf(r.atom))
    /\ \A x \in In(s) : x.op = "set"
Deletions ==
  /\ \A atom \in Atoms : property[atom].type = "NONE" => property[atom] = NoProperty
  /\ \A a \in Agents : Clears(todo[a], fields[a])

LEMMA BlankIs ==
  ASSUME NEW flag, flag \notin {"WMIcon", "WMWindowType"}, NEW value,
         Says(flag, NoProperty, value)
  PROVE  Blank(flag) = value
BY ShownIs DEF Says, Blank

LEMMA SetIsNone ==
  ASSUME NEW atom, NEW type, type # "NONE", NEW data, NEW value
  PROVE  ~Deletion(Set(atom, type, data, value))
BY RequestsHave, PropertyHas DEF Deletion

LEMMA OthersHave ==
  ASSUME Understanding, NEW a \in Agents,
         fields' = fields \/ \E f, v : fields' = [fields EXCEPT ![a][f] = v]
  PROVE  \A b \in Agents \ {a} : fields'[b] = fields[b]
<1>1. CASE fields' = fields
  BY <1>1
<1>2. ASSUME NEW f, NEW v, fields' = [fields EXCEPT ![a][f] = v]
      PROVE  \A b \in Agents \ {a} : fields'[b] = fields[b]
  <2>1. PICK g : g = [fields[a] EXCEPT ![f] = v]
    OBVIOUS
  <2>2. fields' = [fields EXCEPT ![a] = g]
    BY <1>2, <2>1
  <2> QED BY <2>2 DEF Understanding
<1> QED BY <1>1, <1>2

\* An agent gets a list without deletions.
LEMMA NoDeletion ==
  ASSUME Understanding, Deletions, NEW a \in Agents, NEW L, todo' = [todo EXCEPT ![a] = L],
         \A r \in In(L) : ~Deletion(r), property' = property,
         \A b \in Agents \ {a} : fields'[b] = fields[b]
  PROVE  Deletions'
<1>1. todo'[a] = L /\ \A b \in Agents \ {a} : todo'[b] = todo[b]
  BY DEF Understanding
<1>2. Clears(L, fields'[a])
  BY DEF Clears
<1>3. \A b \in Agents \ {a} : Clears(todo'[b], fields'[b])
  BY <1>1 DEF Deletions
<1>4. \A b \in Agents : Clears(todo'[b], fields'[b])
  BY <1>1, <1>2, <1>3
<1> QED BY <1>4 DEF Deletions

LEMMA NoDeletionSet ==
  ASSUME Understanding, Deletions, NEW a \in Agents, NEW flag, NEW field, NEW r,
         Sets(a, flag, field, << r >>), ~Deletion(r)
  PROVE  Deletions'
<1>1. /\ todo' = [todo EXCEPT ![a] = << r >>] /\ property' = property
      /\ fields' = [fields EXCEPT ![a][flag] = field]
  BY DEF Sets, Calls
<1>2. \A x \in In(<< r >>) : ~Deletion(x)
  BY InOne
<1>3. \A b \in Agents \ {a} : fields'[b] = fields[b]
  BY <1>1, OthersHave
<1> QED BY <1>1, <1>2, <1>3, NoDeletion

LEMMA NoDeletionCall ==
  ASSUME Understanding, Deletions, NEW a \in Agents, NEW flag, Calls(a, flag), NEW L,
         todo' = [todo EXCEPT ![a] = L], fields' = fields, \A r \in In(L) : ~Deletion(r)
  PROVE  Deletions'
<1>1. property' = property /\ \A b \in Agents \ {a} : fields'[b] = fields[b]
  BY DEF Calls
<1> QED BY <1>1, NoDeletion

\* What is not there any more is in the object before it is deleted.
LEMMA DeletionOf ==
  ASSUME Understanding, Deletions, NEW a \in Agents, NEW L, todo' = [todo EXCEPT ![a] = L],
         property' = property, NEW flag, NEW v, fields' = [fields EXCEPT ![a][flag] = v],
         flag \in Known => v = Blank(flag),
         \A r \in In(L) : r.op = "set" /\ r.property = NoProperty /\ FlagOf(r.atom) = flag
  PROVE  Deletions'
<1>1. todo'[a] = L /\ \A b \in Agents \ {a} : todo'[b] = todo[b]
  BY DEF Understanding
<1>2. \A b \in Agents \ {a} : fields'[b] = fields[b]
  BY OthersHave
<1>3. flag \in Known => fields'[a][flag] = v
  <2>1. PICK g : g = [fields[a] EXCEPT ![flag] = v]
    OBVIOUS
  <2>2. fields'[a] = g
    BY <2>1 DEF Understanding
  <2>3. flag \in Known => flag \in DOMAIN fields[a]
    BY KnownAtoms DEF Understanding, GoodFields
  <2> QED BY <2>1, <2>2, <2>3
<1>4. Clears(L, fields'[a])
  BY <1>3 DEF Clears
<1>5. \A b \in Agents \ {a} : Clears(todo'[b], fields'[b])
  BY <1>1, <1>2 DEF Deletions
<1>6. \A b \in Agents : Clears(todo'[b], fields'[b])
  BY <1>1, <1>4, <1>5
<1> QED BY <1>6 DEF Deletions

LEMMA DeletionSet ==
  ASSUME Understanding, Deletions, NEW a \in Agents, NEW flag, NEW field, NEW atom, NEW value,
         Sets(a, flag, field, << Delete(atom, value) >>), FlagOf(atom) = flag,
         flag \notin {"WMIcon", "WMWindowType"}, Says(flag, NoProperty, field)
  PROVE  Deletions'
<1>1. PICK r : r = Delete(atom, value)
  OBVIOUS
<1>2. /\ todo' = [todo EXCEPT ![a] = << r >>] /\ property' = property
      /\ fields' = [fields EXCEPT ![a][flag] = field]
  BY <1>1 DEF Sets, Calls
<1>3. r.op = "set" /\ r.property = NoProperty /\ FlagOf(r.atom) = flag
  BY <1>1, RequestsHave
<1>4. \A x \in In(<< r >>) : x.op = "set" /\ x.property = NoProperty /\ FlagOf(x.atom) = flag
  BY <1>3, InOne
<1>5. field = Blank(flag)
  BY BlankIs
<1> QED BY <1>2, <1>4, <1>5, DeletionOf

LEMMA BeforehandDeletes ==
  ASSUME NEW a, NEW flag, NEW r, ~Deletion(r)
  PROVE  \A x \in In(Beforehand(a, flag) \o << r >>) : ~Deletion(x)
<1>1. PICK b : b = Beforehand(a, flag)
  OBVIOUS
<1>2. IsList(b) /\ \A x \in In(b) : x.op = "get"
  BY <1>1, BeforehandIs DEF In
<1>3. IsList(<< r >>) /\ In(<< r >>) = {r}
  BY ShortLists, InOne
<1>4. In(b \o << r >>) = In(b) \cup {r}
  BY <1>2, <1>3, InBoth
<1>5. \A x \in In(b \o << r >>) : ~Deletion(x)
  BY <1>2, <1>4 DEF Deletion
<1> QED BY <1>1, <1>5

LEMMA SettersDelete ==
  ASSUME Understanding, Deletions, Setters
  PROVE  Deletions'
<1>0. client \in Agents /\ wm \in Agents
  BY DEF Agents
<1>1. ASSUME NEW a \in Agents, NEW text \in TextValues,
             NEW flag \in {"WMName", "WMVisibleName", "WMIconName", "WMVisibleIconName"},
             SetName(a, flag, text)
      PROVE  Deletions'
  <2>1. CASE text = NoText
    <3>1. Sets(a, flag, text, << Delete(flag, text) >>)
      BY <1>1, <2>1 DEF SetName
    <3>2. FlagOf(flag) = flag /\ flag \in Texts
      BY FlagIs DEF Texts, Utf8Texts
    <3>3. flag \notin {"WMIcon", "WMWindowType"}
      OBVIOUS
    <3>4. Says(flag, NoProperty, text)
      <4>1. text \in Seq(Nat \ {0})
        BY NETWinInfoAssumption
      <4> QED BY <2>1, <3>2, <4>1, TextSays
    <3> QED BY <3>1, <3>2, <3>3, <3>4, DeletionSet
  <2>2. CASE text # NoText
    <3>1. Sets(a, flag, text, << Set(flag, "UTF8", text, text) >>)
      BY <1>1, <2>2 DEF SetName
    <3> QED BY <3>1, SetIsNone, NoDeletionSet
  <2> QED BY <2>1, <2>2
<1>2. ASSUME NEW a \in Agents, NEW text, SetActivities(a, text) PROVE Deletions'
  <2>1. PICK all : all = IF text = NoText THEN AllActivities ELSE text
    OBVIOUS
  <2>2. Sets(a, "WM2Activities", all, << Set("WM2Activities", "STRING", all, all) >>)
    BY <1>2, <2>1 DEF SetActivities
  <2> QED BY <2>2, SetIsNone, NoDeletionSet
<1>3. ASSUME NEW a \in Agents, NEW strut, NEW flag, SetStrut(a, flag, strut) PROVE Deletions'
  <2>1. Sets(a, flag, strut, << Set(flag, "CARDINAL", Unsigneds(strut), strut) >>)
    BY <1>3 DEF SetStrut
  <2> QED BY <2>1, SetIsNone, NoDeletionSet
<1>4. ASSUME NEW a \in Agents, NEW strut,
             \/ SetStrut(a, "WM2GTKFrameExtents", strut) \/ SetFrameOverlap(a, strut)
      PROVE  Deletions'
  BY <1>3, <1>4 DEF SetFrameOverlap
<1>5. ASSUME NEW a \in Agents, NEW strut, SetFullscreenMonitors(a, strut) PROVE Deletions'
  <2>1. CASE a = wm
    BY <1>0, <1>3, <1>5, <2>1 DEF SetFullscreenMonitors
  <2>2. CASE a # wm
    <3>1. PICK r : r = Send("FULLSCREEN_MONITORS", Unsigneds(strut))
      OBVIOUS
    <3>2. /\ Calls(client, "WM2FullscreenMonitors")
          /\ todo' = [todo EXCEPT ![client] = << r >>] /\ fields' = fields
      BY <1>5, <2>2, <3>1 DEF SetFullscreenMonitors
    <3>3. \A x \in In(<< r >>) : ~Deletion(x)
      BY <3>1, RequestsHave, InOne DEF Deletion
    <3> QED BY <1>0, <3>2, <3>3, NoDeletionCall
  <2> QED BY <2>1, <2>2
<1>6. ASSUME NEW a \in Agents, NEW n, NEW flag \in {"WMPid", "WM2Opacity", "WM2UserTime"},
             SetNumber(a, flag, n)
      PROVE  Deletions'
  <2>1. Sets(a, flag, n, << Set(flag, "CARDINAL", << n >>, n) >>)
    BY <1>6 DEF SetNumber
  <2> QED BY <2>1, SetIsNone, NoDeletionSet
<1>7. ASSUME NEW a \in Agents, NEW state, NEW mask, SetState(a, state, mask) PROVE Deletions'
  <2>1. PICK r : r = [op |-> "setState", state |-> state, mask |-> mask, own |-> TRUE]
    OBVIOUS
  <2>2. /\ Calls(a, "WMState") /\ fields' = fields
        /\ todo' = [todo EXCEPT ![a] = Beforehand(a, "WMState") \o << r >>]
    BY <1>7, <2>1 DEF SetState
  <2>3. ~Deletion(r)
    BY <2>1 DEF Deletion
  <2> QED BY <2>2, <2>3, BeforehandDeletes, NoDeletionCall
<1>8. ASSUME NEW a \in Agents, NEW desktop, SetDesktop(a, desktop) PROVE Deletions'
  <2>1. PICK r : r = [op |-> "setDesktop", desktop |-> desktop, own |-> TRUE]
    OBVIOUS
  <2>2. /\ Calls(a, "WMDesktop") /\ fields' = fields
        /\ todo' = [todo EXCEPT ![a] = Beforehand(a, "WMDesktop") \o << r >>]
    BY <1>8, <2>1 DEF SetDesktop
  <2>3. ~Deletion(r)
    BY <2>1 DEF Deletion
  <2> QED BY <2>2, <2>3, BeforehandDeletes, NoDeletionCall
<1>9. ASSUME NEW text, NEW flag, SetText(flag, text) PROVE Deletions'
  <2>1. Sets(client, flag, text, << Set(flag, TextType(flag), text, text) >>)
    BY <1>9 DEF SetText
  <2>2. TextType(flag) # "NONE"
    BY DEF TextType
  <2> QED BY <1>0, <2>1, <2>2, SetIsNone, NoDeletionSet
<1>10. ASSUME NEW strut, SetFrameExtents(strut) PROVE Deletions'
  <2>1. PICK x, y : /\ x = Set("WMFrameExtents", "CARDINAL", Unsigneds(strut), strut)
                    /\ y = Set("_KDE_NET_WM_FRAME_STRUT", "CARDINAL", Unsigneds(strut), strut)
    OBVIOUS
  <2>2. PICK L : L = <<x, y>>
    OBVIOUS
  <2>3. /\ todo' = [todo EXCEPT ![wm] = L] /\ property' = property
        /\ fields' = [fields EXCEPT ![wm]["WMFrameExtents"] = strut]
    BY <1>10, <2>1, <2>2 DEF SetFrameExtents, Sets, Calls
  <2>4. \A i \in 1..Len(L) : L[i] = x \/ L[i] = y
    BY <2>2, ShortLists
  <2>5. \A r \in In(L) : ~Deletion(r)
    BY <2>1, <2>4, SetIsNone DEF In
  <2>6. \A b \in Agents \ {wm} : fields'[b] = fields[b]
    BY <1>0, <2>3, OthersHave
  <2> QED BY <1>0, <2>3, <2>5, <2>6, NoDeletion
<1>11. ASSUME NEW rect, SetIconGeometry(rect) PROVE Deletions'
  <2>1. CASE rect[3] = 0
    <3>1. Sets(client, "WMIconGeometry", rect, << Delete("WMIconGeometry", rect) >>)
      BY <1>11, <2>1 DEF SetIconGeometry
    <3>2. Says("WMIconGeometry", NoProperty, rect)
      BY <1>11, <2>1, RectSays DEF SetIconGeometry
    <3>3. FlagOf("WMIconGeometry") = "WMIconGeometry"
      BY FlagIs
    <3> QED BY <1>0, <3>1, <3>2, <3>3, DeletionSet
  <2>2. CASE rect[3] # 0
    <3>1. Sets(client, "WMIconGeometry", rect,
               << Set("WMIconGeometry", "CARDINAL", Unsigneds(rect), rect) >>)
      BY <1>11, <2>2 DEF SetIconGeometry
    <3> QED BY <1>0, <3>1, SetIsNone, NoDeletionSet
  <2> QED BY <2>1, <2>2
<1>12. ASSUME NEW icon, NEW replace, SetIcon(icon, replace) PROVE Deletions'
  <2>1. PICK old : old = fields[client]["WMIcon"]
    OBVIOUS
  <2>2. PICK new : new = AddIcon(old, icon, replace)
    OBVIOUS
  <2>3. PICK data, value :
          /\ data = IconData(new)
          /\ value = Append(IF replace THEN <<>> ELSE SubSeq(old.icons, 1, old.count), icon)
    OBVIOUS
  <2>4. Sets(client, "WMIcon", new, << Set("WMIcon", "CARDINAL", data, value) >>)
    BY <1>12, <2>1, <2>2, <2>3 DEF SetIcon
  <2> QED BY <1>0, <2>4, SetIsNone, NoDeletionSet
<1>13. ASSUME NEW type, SetWindowType(type) PROVE Deletions'
  <2>1. PICK old : old = fields[client]["WMWindowType"]
    OBVIOUS
  <2>2. Sets(client, "WMWindowType", old,
             << Set("WMWindowType", "ATOM", TypeNames[type], type) >>)
    BY <1>13, <2>1 DEF SetWindowType
  <2> QED BY <1>0, <2>2, SetIsNone, NoDeletionSet
<1>14. ASSUME NEW actions, SetAllowedActions(actions) PROVE Deletions'
  <2>1. Sets(wm, "WM2AllowedActions", actions,
             << Set("WM2AllowedActions", "ATOM", AtomsOf(ActionAtoms, actions), actions) >>)
    BY <1>14 DEF SetAllowedActions
  <2> QED BY <1>0, <2>1, SetIsNone, NoDeletionSet
<1>15. ASSUME NEW on \in BOOLEAN, SetBlockingCompositing(on) PROVE Deletions'
  <2>1. PICK L : L = [i \in 1..2 |->
          LET atom == <<"WM2BlockCompositing", "WM_BYPASS_COMPOSITOR">>[i]
          IN  IF on THEN Set(atom, "CARDINAL", << 1 >>, on) ELSE Delete(atom, on)]
    OBVIOUS
  <2>2. /\ todo' = [todo EXCEPT ![client] = L] /\ property' = property
        /\ fields' = [fields EXCEPT ![client]["WM2BlockCompositing"] = on]
    BY <1>15, <2>1 DEF SetBlockingCompositing, Sets, Calls
  <2>3. Len(L) = 2
    BY <2>1
  <2>4. \A i \in 1..2 : \E atom \in {"WM2BlockCompositing", "WM_BYPASS_COMPOSITOR"} :
          L[i] = IF on THEN Set(atom, "CARDINAL", << 1 >>, on) ELSE Delete(atom, on)
    BY <2>1
  <2>5. CASE on
    <3>0. \A atom : ~Deletion(Set(atom, "CARDINAL", << 1 >>, on))
      BY SetIsNone
    <3>1. \A r \in In(L) : ~Deletion(r)
      <4>1. \A i \in 1..2 : ~Deletion(L[i])
        BY <2>4, <2>5, <3>0
      <4> QED BY <2>3, <4>1 DEF In
    <3>2. \A b \in Agents \ {client} : fields'[b] = fields[b]
      BY <1>0, <2>2, OthersHave
    <3> QED BY <1>0, <2>2, <3>1, <3>2, NoDeletion
  <2>6. CASE ~on
    <3>1. \A r \in In(L) : \E atom \in {"WM2BlockCompositing", "WM_BYPASS_COMPOSITOR"} :
            r = Delete(atom, on)
      BY <2>3, <2>4, <2>6 DEF In
    <3>2. \A atom \in {"WM2BlockCompositing", "WM_BYPASS_COMPOSITOR"} :
            FlagOf(atom) = "WM2BlockCompositing"
      BY FlagIs
    <3>3. \A r \in In(L) : /\ r.op = "set" /\ r.property = NoProperty
                           /\ FlagOf(r.atom) = "WM2BlockCompositing"
      BY <3>1, <3>2, RequestsHave
    <3>4. Says("WM2BlockCompositing", NoProperty, on)
      BY <2>6, BlockingSays
    <3>5. on = Blank("WM2BlockCompositing")
      BY <3>4, BlankIs
    <3> QED BY <1>0, <2>2, <3>3, <3>5, DeletionOf
  <2> QED BY <2>5, <2>6
<1>16. ASSUME NEW on, SetHandledIcons(on) PROVE Deletions'
  <2>1. PICK data : data = << IF on THEN 1 ELSE 0 >>
    OBVIOUS
  <2>2. Sets(client, "WMHandledIcons", on, << Set("WMHandledIcons", "CARDINAL", data, on) >>)
    BY <1>16, <2>1 DEF SetHandledIcons
  <2> QED BY <1>0, <2>2, SetIsNone, NoDeletionSet
<1>17. ASSUME NEW v \in ApplicationValues, ApplicationSets(v.flag, v.property)
       PROVE  Deletions'
  <2>1. PICK r : r = [op |-> "set", atom |-> v.flag, property |-> v.property,
                      value |-> Read(v.flag, NewFields[v.flag], v.property)]
    OBVIOUS
  <2>2. /\ Calls(client, v.flag) /\ todo' = [todo EXCEPT ![client] = << r >>]
        /\ fields' = fields
    BY <1>17, <2>1 DEF ApplicationSets
  <2>3. v.property.type # "NONE"
    BY NETWinInfoAssumption
  <2>4. ~Deletion(r)
    BY <2>1, <2>3 DEF Deletion
  <2>5. \A x \in In(<< r >>) : ~Deletion(x)
    BY <2>4, InOne
  <2> QED BY <1>0, <2>2, <2>5, NoDeletionCall
<1>18. CASE \E a \in Agents :
              \/ \E text \in TextValues :
                   \/ \E flag \in {"WMName", "WMVisibleName", "WMIconName", "WMVisibleIconName"} :
                        SetName(a, flag, text)
                   \/ SetActivities(a, text)
              \/ \E strut \in FourValues :
                   \/ SetStrut(a, "WM2GTKFrameExtents", strut) \/ SetFrameOverlap(a, strut)
                   \/ SetFullscreenMonitors(a, strut)
              \/ \E n \in {0, Word - 2}, flag \in {"WMPid", "WM2Opacity", "WM2UserTime"} :
                   SetNumber(a, flag, n)
              \/ \E call \in StateCalls : SetState(a, call.state, call.mask)
              \/ \E desktop \in Desktops : SetDesktop(a, desktop)
  BY <1>1, <1>2, <1>4, <1>5, <1>6, <1>7, <1>8, <1>18
<1>19. CASE \E text \in TextValues \ {NoText},
               flag \in {"WM2StartupId", "WM2DesktopFileName", "WM2AppMenuObjectPath",
                         "WM2AppMenuServiceName"} : SetText(flag, text)
  BY <1>9, <1>19
<1>20. CASE \E strut \in FourValues :
              \/ SetStrut(client, "WMStrut", strut) \/ SetFrameExtents(strut)
              \/ SetIconGeometry(strut)
              \/ SetStrut(client, "WM2ExtendedStrut", strut \o strut \o strut)
  BY <1>0, <1>3, <1>10, <1>11, <1>20
<1>21. CASE \/ \E icon \in IconValues, replace \in BOOLEAN : SetIcon(icon, replace)
            \/ \E type \in WindowTypes : SetWindowType(type)
            \/ \E action \in {"ActionMove", "ActionClose"} : SetAllowedActions({action})
            \/ \E on \in BOOLEAN : SetBlockingCompositing(on) \/ SetHandledIcons(on)
            \/ \E v \in ApplicationValues : ApplicationSets(v.flag, v.property)
  BY <1>12, <1>13, <1>14, <1>15, <1>16, <1>17, <1>21
<1> QED BY <1>18, <1>19, <1>20, <1>21 DEF Setters

\* A request is answered: nothing is new.
LEMMA DeletionsLeft ==
  ASSUME Understanding, Deletions, NEW a \in Agents, todo[a] # <<>>, Done(a)
  PROVE  /\ DOMAIN todo' = Agents /\ todo'[a] = Tail(todo[a])
         /\ In(todo[a]) = {Head(todo[a])} \cup In(Tail(todo[a]))
         /\ \A f : Clears(todo[a], f) => Clears(Tail(todo[a]), f)
         /\ Head(todo[a]).op # "set" => \A r \in In(Tail(todo[a])) : ~Deletion(r)
<1>1. PICK s, t, h : s = todo[a] /\ t = Tail(todo[a]) /\ h = Head(todo[a])
  OBVIOUS
<1>2. IsList(s)
  BY <1>1 DEF Understanding, GoodList
<1>3. In(s) = {h} \cup In(t)
  BY <1>1, <1>2, InOf
<1>4. \A f : Clears(s, f) => Clears(t, f)
  BY <1>3 DEF Clears
<1>5. h.op # "set" => \A r \in In(t) : ~Deletion(r)
  BY <1>1, <1>3 DEF Deletions, Clears
<1>6. DOMAIN todo' = Agents /\ todo'[a] = t
  BY <1>1 DEF Done, Understanding
<1> QED BY <1>1, <1>3, <1>4, <1>5, <1>6

LEMMA RequestsDelete ==
  ASSUME Understanding, Deletions, NEW a \in Agents,
         RequestSet(a) \/ RequestGet(a) \/ RequestSend(a)
  PROVE  Deletions'
<1>1. todo[a] # <<>> /\ Done(a)
  BY DEF RequestSet, RequestGet, RequestSend, Works
<1>2. todo' = [todo EXCEPT ![a] = Tail(todo[a])]
  BY <1>1 DEF Done
<1>3. CASE RequestSet(a)
  <2>1. PICK r : r = Head(todo[a])
    OBVIOUS
  <2>2. r.op = "set" /\ fields' = fields /\ property' = [property EXCEPT ![r.atom] = r.property]
    BY <1>3, <2>1 DEF RequestSet, Works
  <2>3. \A b \in Agents : Clears(todo'[b], fields'[b])
    <3>1. Clears(todo'[a], fields[a])
      BY <1>1, DeletionsLeft DEF Deletions
    <3>2. \A b \in Agents \ {a} : todo'[b] = todo[b]
      BY <1>2 DEF Understanding
    <3> QED BY <2>2, <3>1, <3>2 DEF Deletions
  <2>4. r.property.type = "NONE" => r.property = NoProperty
    <3>1. r \in In(todo[a])
      BY <1>1, <2>1, DeletionsLeft
    <3> QED BY <2>2, <3>1 DEF Deletions, Clears, Deletion
  <2>5. ASSUME NEW atom \in Atoms, property'[atom].type = "NONE"
        PROVE  property'[atom] = NoProperty
    <3>1. property'[atom] = IF atom = r.atom THEN r.property ELSE property[atom]
      BY <2>2 DEF Understanding
    <3> QED BY <2>4, <2>5, <3>1 DEF Deletions
  <2> QED BY <2>3, <2>5 DEF Deletions
<1>4. CASE RequestGet(a) \/ RequestSend(a)
  <2>1. /\ Head(todo[a]).op # "set" /\ property' = property
        /\ fields' = fields \/ \E f, v : fields' = [fields EXCEPT ![a][f] = v]
    BY <1>4 DEF RequestGet, RequestSend, Works
  <2>2. \A r \in In(Tail(todo[a])) : ~Deletion(r)
    BY <1>1, <2>1, DeletionsLeft
  <2>3. \A b \in Agents \ {a} : fields'[b] = fields[b]
    BY <2>1, OthersHave
  <2> QED BY <1>2, <2>1, <2>2, <2>3, NoDeletion
<1> QED BY <1>3, <1>4

LEMMA DecisionsDelete ==
  ASSUME Understanding, Deletions, NEW a \in Agents, DecideState(a) \/ DecideDesktop(a)
  PROVE  Deletions'
<1>1. PICK r : r = Head(todo[a])
  OBVIOUS
<1>2. todo[a] # <<>> /\ r.op \in {"setState", "setDesktop"} /\ property' = property
  BY <1>1 DEF DecideState, DecideDesktop, Works
<1>3. Tail(todo[a]) = <<>> /\ GoodRequest(a, r)
  BY <1>1, <1>2, DecisionIsLast
<1>4. fields' = fields \/ \E f, v : fields' = [fields EXCEPT ![a][f] = v]
  BY DEF DecideState, DecideDesktop
<1>5. \A b \in Agents \ {a} : fields'[b] = fields[b]
  BY <1>4, OthersHave
<1>6. CASE DecideState(a)
  <2>1. PICK current, new : /\ current = fields[a]["WMState"]
                            /\ new = (current \ r.mask) \cup r.state
    OBVIOUS
  <2>2. PICK x, M : /\ x = Set("WMState", "ATOM", AtomsOf(StateAtoms, new), new)
                    /\ M = StateMessages(current, r.state, r.mask)
    OBVIOUS
  <2>3. PICK L : L = IF Asks(a) THEN M ELSE << x >>
    OBVIOUS
  <2>4. todo' = [todo EXCEPT ![a] = L \o <<>>]
    BY <1>1, <1>3, <1>6, <2>1, <2>2, <2>3 DEF DecideState, Understanding
  <2>5. IsList(M) /\ \A y \in In(M) : y.op = "send"
    BY <2>2, StateMessagesAre DEF In
  <2>6. IsList(L) /\ \A y \in In(L) : ~Deletion(y)
    <3>1. IsList(<< x >>) /\ In(<< x >>) = {x} /\ ~Deletion(x)
      BY <2>2, ShortLists, InOne, SetIsNone
    <3> QED BY <2>3, <2>5, <3>1 DEF Deletion
  <2>7. todo' = [todo EXCEPT ![a] = L]
    BY <2>4, <2>6, NothingAfter
  <2> QED BY <1>2, <1>5, <2>6, <2>7, NoDeletion
<1>7. CASE DecideDesktop(a)
  <2>1. PICK d : d = r.desktop
    OBVIOUS
  <2>2. PICK w, x, y : /\ w = Send("DESKTOP", <<DesktopData(d)>>) /\ x = Delete("WMDesktop", 0)
                       /\ y = Set("WMDesktop", "CARDINAL", <<DesktopData(d)>>, d)
    OBVIOUS
  <2>3. PICK L : L = CASE Asks(a) /\ d = 0 -> <<>> [] Asks(a) /\ d # 0 -> <<w>>
                       [] ~Asks(a) /\ d = 0 -> <<x>> [] ~Asks(a) /\ d # 0 -> <<y>>
    OBVIOUS
  <2>4. todo' = [todo EXCEPT ![a] = L \o <<>>]
    BY <1>1, <1>3, <1>7, <2>1, <2>2, <2>3 DEF DecideDesktop, Understanding
  <2>5. L \in {<<>>, << w >>, << x >>, << y >>} /\ IsList(L)
    <3>1. L \in {<<>>, << w >>, << x >>, << y >>}
      BY <2>3
    <3>2. IsList(<<>>) /\ IsList(<< w >>) /\ IsList(<< x >>) /\ IsList(<< y >>)
      BY ShortLists, NothingToDo DEF GoodList
    <3> QED BY <3>1, <3>2
  <2>6. todo' = [todo EXCEPT ![a] = L]
    BY <2>4, <2>5, NothingAfter
  <2>7. CASE ~Asks(a) /\ d = 0
    <3>1. L = << x >> /\ fields' = [fields EXCEPT ![a]["WMDesktop"] = 0]
      BY <1>1, <1>7, <2>1, <2>3, <2>7 DEF DecideDesktop
    <3>2. FlagOf("WMDesktop") = "WMDesktop"
      BY FlagIs
    <3>3. \A z \in In(L) : /\ z.op = "set" /\ z.property = NoProperty
                           /\ FlagOf(z.atom) = "WMDesktop"
      BY <2>2, <3>1, <3>2, RequestsHave, InOne
    <3>4. 0 = Blank("WMDesktop")
      BY DesktopSays, BlankIs
    <3> QED BY <1>2, <2>6, <3>1, <3>3, <3>4, DeletionOf
  <2>8. CASE Asks(a) \/ d # 0
    <3>1. L \in {<<>>, << w >>, << y >>}
      BY <2>3, <2>8
    <3>2. ~Deletion(w) /\ ~Deletion(y)
      <4>1. w.op = "send"
        BY <2>2, RequestsHave
      <4>2. ~Deletion(y)
        BY <2>2, SetIsNone
      <4> QED BY <4>1, <4>2 DEF Deletion
    <3>3. \A z \in In(L) : ~Deletion(z)
      BY <3>1, <3>2, InOne
    <3> QED BY <1>2, <1>5, <2>6, <3>3, NoDeletion
  <2> QED BY <2>7, <2>8
<1> QED BY <1>6, <1>7

LEMMA UpdateDeletes == ASSUME NEW a, NEW flags PROVE \A r \in In(Update(a, flags)) : ~Deletion(r)
BY UpdateReads DEF In, Deletion

LEMMA EventsDelete ==
  ASSUME Understanding, Deletions,
         \/ \E a \in Agents : OnPropertyNotify(a)
         \/ OnStateMessage \/ OnDesktopMessage \/ OnFullscreenMonitorsMessage
         \/ \E s \in States : Toggle(s)
  PROVE  Deletions'
<1>0. wm \in Agents
  BY DEF Agents
<1>1. ASSUME NEW a \in Agents, OnPropertyNotify(a) PROVE Deletions'
  <2>1. PICK L : L = Update(a, {FlagOf(Head(queue[a]).data)})
    OBVIOUS
  <2>2. todo' = [todo EXCEPT ![a] = L] /\ fields' = fields /\ property' = property
    BY <1>1, <2>1 DEF OnPropertyNotify, Dispatch
  <2> QED BY <2>1, <2>2, UpdateDeletes, NoDeletion
<1>2. ASSUME OnStateMessage PROVE Deletions'
  <2>1. PICK data : data = Head(queue[wm]).data
    OBVIOUS
  <2>2. PICK mask : mask = {StateFlag[atom] : atom \in data.atoms}
    OBVIOUS
  <2>3. PICK state : state = CASE data.action = 1 -> mask
                               [] data.action = 2 -> mask \ fields[wm]["WMState"]
                               [] OTHER -> {}
    OBVIOUS
  <2>4. PICK r : r = [op |-> "setState", state |-> state, mask |-> mask, own |-> FALSE]
    OBVIOUS
  <2>5. PICK L : L = Beforehand(wm, "WMState") \o << r >>
    OBVIOUS
  <2>6. Dispatch(wm, "STATE") /\ todo' = [todo EXCEPT ![wm] = L] /\ fields' = fields
    BY <1>2, <2>1, <2>2, <2>3, <2>4, <2>5 DEF OnStateMessage
  <2>7. property' = property
    BY <2>6 DEF Dispatch
  <2>8. ~Deletion(r)
    BY <2>4 DEF Deletion
  <2>9. \A x \in In(L) : ~Deletion(x)
    BY <2>5, <2>8, BeforehandDeletes
  <2> QED BY <1>0, <2>6, <2>7, <2>9, NoDeletion
<1>3. ASSUME OnDesktopMessage PROVE Deletions'
  <2>1. PICK n : n = Head(queue[wm]).data[1]
    OBVIOUS
  <2>2. PICK d : d = IF n = Word - 1 THEN OnAllDesktops ELSE n + 1
    OBVIOUS
  <2>3. PICK r : r = [op |-> "setDesktop", own |-> FALSE, desktop |-> d]
    OBVIOUS
  <2>4. PICK L : L = Beforehand(wm, "WMDesktop") \o << r >>
    OBVIOUS
  <2>5. Dispatch(wm, "DESKTOP") /\ todo' = [todo EXCEPT ![wm] = L] /\ fields' = fields
    BY <1>3, <2>1, <2>2, <2>3, <2>4 DEF OnDesktopMessage
  <2>6. property' = property
    BY <2>5 DEF Dispatch
  <2>7. ~Deletion(r)
    BY <2>3 DEF Deletion
  <2>8. \A x \in In(L) : ~Deletion(x)
    BY <2>4, <2>7, BeforehandDeletes
  <2> QED BY <1>0, <2>5, <2>6, <2>8, NoDeletion
<1>4. ASSUME OnFullscreenMonitorsMessage PROVE Deletions'
  <2>1. PICK v : v = Signeds(Head(queue[wm]).data)
    OBVIOUS
  <2>2. PICK r : r = Set("WM2FullscreenMonitors", "CARDINAL", Unsigneds(v), v)
    OBVIOUS
  <2>3. /\ Dispatch(wm, "FULLSCREEN_MONITORS") /\ todo' = [todo EXCEPT ![wm] = << r >>]
        /\ fields' = [fields EXCEPT ![wm]["WM2FullscreenMonitors"] = v]
    BY <1>4, <2>1, <2>2 DEF OnFullscreenMonitorsMessage
  <2>4. property' = property
    BY <2>3 DEF Dispatch
  <2>5. \A x \in In(<< r >>) : ~Deletion(x)
    BY <2>2, SetIsNone, InOne
  <2>6. \A b \in Agents \ {wm} : fields'[b] = fields[b]
    BY <1>0, <2>3, OthersHave
  <2> QED BY <1>0, <2>3, <2>4, <2>5, <2>6, NoDeletion
<1>5. ASSUME NEW s \in States, Toggle(s) PROVE Deletions'
  <2>1. property' = property /\ todo' = todo /\ fields' = fields
    BY <1>5 DEF Toggle
  <2> QED BY <2>1 DEF Deletions
<1> QED BY <1>1, <1>2, <1>3, <1>4, <1>5

LEMMA ObjectsDelete ==
  ASSUME Understanding, Deletions,
         \/ Construct \/ Manage \/ Withdraw \/ \E n \in {1, 3} : Iconify(n)
  PROVE  Deletions'
<1>0. wm \in Agents /\ client \in Agents
  BY DEF Agents
<1>1. CASE Construct
  <2>1. PICK L : L = Update(client, passed[client])
    OBVIOUS
  <2>2. todo' = [todo EXCEPT ![client] = L] /\ fields' = fields /\ property' = property
    BY <1>1, <2>1 DEF Construct
  <2> QED BY <1>0, <2>1, <2>2, UpdateDeletes, NoDeletion
<1>2. \A n : ~Deletion(WMState(n))
  <2> TAKE n
  <2>1. PICK r : r = WMState(n)
    OBVIOUS
  <2>2. r.property = Property("WM_STATE", << n >>)
    BY <2>1 DEF WMState
  <2> QED BY <2>1, <2>2, PropertyHas DEF Deletion
<1>3. CASE Manage
  <2>1. PICK u, r : u = Update(wm, passed[wm]) /\ r = WMState(1)
    OBVIOUS
  <2>2. PICK L : L = u \o << r >>
    OBVIOUS
  <2>3. todo' = [todo EXCEPT ![wm] = L] /\ fields' = fields /\ property' = property
    BY <1>3, <2>1, <2>2 DEF Manage
  <2>4. IsList(u) /\ IsList(<< r >>) /\ In(<< r >>) = {r}
    BY <2>1, UpdateReads, ShortLists, InOne DEF GoodList
  <2>5. In(L) = In(u) \cup {r}
    BY <2>2, <2>4, InBoth
  <2>6. \A x \in In(L) : ~Deletion(x)
    BY <1>2, <2>1, <2>5, UpdateDeletes
  <2> QED BY <1>0, <2>3, <2>6, NoDeletion
<1>4. ASSUME NEW n \in {1, 3}, Iconify(n) PROVE Deletions'
  <2>1. PICK r : r = WMState(n)
    OBVIOUS
  <2>2. todo' = [todo EXCEPT ![wm] = << r >>] /\ fields' = fields /\ property' = property
    BY <1>4, <2>1 DEF Iconify
  <2>3. \A x \in In(<< r >>) : ~Deletion(x)
    BY <1>2, <2>1, InOne
  <2> QED BY <1>0, <2>2, <2>3, NoDeletion
<1>5. CASE Withdraw
  <2>1. PICK x, y, z : /\ x = Delete("WMState", {}) /\ y = Delete("WMDesktop", 0)
                       /\ z = Delete("XAWMState", "Withdrawn")
    OBVIOUS
  <2>2. PICK L : L = <<x, y, z>>
    OBVIOUS
  <2>3. /\ todo' = [todo EXCEPT ![wm] = L] /\ property' = property
        /\ fields' = [fields EXCEPT ![wm] = NewFields]
    BY <1>5, <2>1, <2>2 DEF Withdraw
  <2>4. /\ todo'[wm] = L /\ fields'[wm] = NewFields
        /\ \A b \in Agents \ {wm} : todo'[b] = todo[b] /\ fields'[b] = fields[b]
    BY <1>0, <2>3 DEF Understanding
  <2>5. \A i \in 1..Len(L) : L[i] = x \/ L[i] = y \/ L[i] = z
    BY <2>2, ShortLists
  <2>6. \A r \in In(L) : r = x \/ r = y \/ r = z
    BY <2>5 DEF In
  <2>7. /\ x.op = "set" /\ x.property = NoProperty /\ x.atom = "WMState"
        /\ y.op = "set" /\ y.property = NoProperty /\ y.atom = "WMDesktop"
        /\ z.op = "set" /\ z.property = NoProperty /\ z.atom = "XAWMState"
    BY <2>1, RequestsHave
  <2>8. /\ FlagOf("WMState") = "WMState" /\ FlagOf("WMDesktop") = "WMDesktop"
        /\ FlagOf("XAWMState") = "XAWMState"
    BY FlagIs
  <2>9. /\ {} = Blank("WMState") /\ 0 = Blank("WMDesktop")
        /\ "Withdrawn" = Blank("XAWMState")
    BY StateSays, DesktopSays, MappingSays, BlankIs
  <2>10. /\ NewFields["WMState"] = {} /\ NewFields["WMDesktop"] = 0
         /\ NewFields["XAWMState"] = "Withdrawn"
    <3>1. {"WMState", "WMDesktop", "XAWMState"} \subseteq Flags
      BY UsedFlags DEF Used, AllFlags
    <3> QED BY <3>1 DEF NewFields, Texts, Utf8Texts, LatinTexts, NameAtoms, Four
  <2>11. Clears(L, NewFields)
    BY <2>6, <2>7, <2>8, <2>9, <2>10 DEF Clears
  <2>12. \A b \in Agents : Clears(todo'[b], fields'[b])
    BY <2>4, <2>11 DEF Deletions
  <2> QED BY <2>3, <2>12 DEF Deletions
<1> QED BY <1>1, <1>3, <1>4, <1>5

LEMMA StepsDelete == Understanding /\ Deletions /\ [Next]_vars => Deletions'
<1> SUFFICES ASSUME Understanding, Deletions, [Next]_vars PROVE Deletions'
  OBVIOUS
<1>1. ASSUME UNCHANGED vars PROVE Deletions'
  <2>1. property' = property /\ todo' = todo /\ fields' = fields
    BY <1>1 DEF vars
  <2> QED BY <2>1 DEF Deletions
<1>2. ASSUME NEW a \in Agents,
             \/ RequestSet(a) \/ RequestGet(a) \/ RequestSend(a)
             \/ DecideState(a) \/ DecideDesktop(a) \/ OnPropertyNotify(a)
      PROVE  Deletions'
  BY <1>2, RequestsDelete, DecisionsDelete, EventsDelete
<1>3. ASSUME \/ OnStateMessage \/ OnDesktopMessage \/ OnFullscreenMonitorsMessage
             \/ \E s \in States : Toggle(s)
      PROVE  Deletions'
  BY <1>3, EventsDelete
<1>4. ASSUME \/ Construct \/ Manage \/ Withdraw \/ \E n \in {1, 3} : Iconify(n)
      PROVE  Deletions'
  BY <1>4, ObjectsDelete
<1>5. ASSUME Setters PROVE Deletions'
  BY <1>5, SettersDelete
<1> QED BY <1>1, <1>2, <1>3, <1>4, <1>5 DEF Next

LEMMA DeletionsAtFirst == Init => Deletions
<1> SUFFICES ASSUME Init PROVE Deletions
  OBVIOUS
<1>1. property = [atom \in Atoms |-> NoProperty] /\ todo = [a \in Agents |-> <<>>]
  BY DEF Init
<1>2. \A atom \in Atoms : property[atom] = NoProperty
  BY <1>1
<1>3. \A a \in Agents : In(todo[a]) = {}
  BY <1>1, InOne
<1>4. \A a \in Agents : Clears(todo[a], fields[a])
  BY <1>3 DEF Clears
<1> QED BY <1>2, <1>4 DEF Deletions

LEMMA PhaseWillSet ==
  ASSUME NEW flag \in Paired, NEW s, NEW p
  PROVE  /\ BothToSet(s, flag) => WillSet(s, flag)
         /\ OneToSet(s, p, flag) => WillSet(s, flag)
<1>1. FlagOf(Second(flag)) = flag /\ FlagOf(flag) = flag
  BY SecondOf
<1>2. ASSUME NEW x, NEW y, s = <<x, y>>, x.op = "set", x.atom = flag PROVE WillSet(s, flag)
  <2>1. Len(s) = 2 /\ s[1] = x /\ 1 \in 1..2
    BY <1>2, ShortLists
  <2> QED BY <1>1, <1>2, <2>1 DEF WillSet, IsSet
<1>3. ASSUME NEW y, s = << y >>, y.op = "set", y.atom = Second(flag) PROVE WillSet(s, flag)
  <2>1. Len(s) = 1 /\ s[1] = y /\ 1 \in 1..1
    BY <1>3, ShortLists
  <2> QED BY <1>1, <1>3, <2>1 DEF WillSet, IsSet
<1> QED BY <1>2, <1>3 DEF BothToSet, OneToSet

\* A property is deleted that is not there: its owner knows it already, and nothing
\* changes for the other one.
LEMMA DeletedAgain ==
  ASSUME Understanding, Deletions, NEW a \in Agents, NEW r, r = Head(todo[a]),
         todo[a] # <<>>, r.op = "set", r.atom \in Atoms,
         {r.property.type, property[r.atom].type} = {"NONE"},
         \A atom \in Atoms : property'[atom] = IF atom = r.atom THEN r.property
                                               ELSE property[atom],
         Done(a), NEW flag \in Known, FlagOf(r.atom) = flag,
         flag \in Paired => Phase(todo'[Owner(flag)], property', flag),
         NEW b \in Agents, View(queue[b], todo[b], fields[b][flag], property, flag),
         queue'[b] = queue[b]
  PROVE  View(queue'[b], todo'[b], fields[b][flag], property', flag)
<1>1. r \in In(todo[a]) /\ todo'[a] = Tail(todo[a])
  BY DeletionsLeft
<1>2. /\ r.property = NoProperty /\ property[r.atom] = NoProperty
      /\ fields[a][flag] = Blank(flag)
  <2>1. r.property.type = "NONE" /\ property[r.atom].type = "NONE"
    OBVIOUS
  <2> QED BY <1>1, <2>1 DEF Deletions, Clears, Deletion
<1>3. \A atom \in Atoms : property'[atom] = property[atom]
  BY <1>2
<1>4. flag \in Atoms /\ (flag \in Paired => Second(flag) \in Atoms)
  BY KnownAtoms
<1>5. CASE b # a
  <2>1. todo'[b] = todo[b]
    BY <1>5 DEF Done, Understanding
  <2>2. View(queue[b], todo[b], fields[b][flag], property', flag)
    BY <1>3, <1>4, ViewOther
  <2> QED BY <2>1, <2>2
<1>6. CASE b = a
  <2>1. CASE flag \notin Paired
    <3>1. r.atom = flag
      BY <2>1, AtomsOfFlag
    <3>2. property'[flag] = NoProperty
      BY <1>2, <1>3, <3>1
    <3>3. UpToDate(fields[b][flag], property', flag)
      BY <1>2, <1>6, <2>1, <3>2 DEF UpToDate, Blank, ReadAll
    <3> QED BY <3>3 DEF View
  <2>2. CASE flag \in Paired
    <3>1. Owner(flag) = a
      <4>1. GoodList(a, todo[a])
        BY DEF Understanding
      <4>2. GoodRequest(a, r)
        BY <4>1, GoodListTail
      <4> QED BY <2>2, <4>2 DEF GoodRequest, RightSet
    <3>2. CASE WillSet(todo'[a], flag)
      BY <1>6, <3>2 DEF View
    <3>3. CASE ~WillSet(todo'[a], flag)
      <4>1. property'[Second(flag)] = property'[flag]
        <5>1. /\ BothToSet(todo'[a], flag) => WillSet(todo'[a], flag)
              /\ OneToSet(todo'[a], property', flag) => WillSet(todo'[a], flag)
          BY <2>2, PhaseWillSet
        <5> QED BY <2>2, <3>1, <3>3, <5>1 DEF Phase
      <4>2. property'[flag] = NoProperty
        <5>1. r.atom = flag \/ r.atom = Second(flag)
          BY AtomsOfFlag
        <5> QED BY <1>2, <1>3, <4>1, <5>1
      <4>3. UpToDate(fields[b][flag], property', flag)
        BY <1>2, <1>6, <4>1, <4>2 DEF UpToDate, Blank
      <4> QED BY <4>3 DEF View
    <3> QED BY <3>2, <3>3
  <2> QED BY <2>1, <2>2
<1> QED BY <1>5, <1>6

LEMMA SetRequestKeeps ==
  ASSUME Understanding, Deletions, NEW a \in Agents, RequestSet(a)
  PROVE  Understanding'
<1>1. PICK r, flag : r = Head(todo[a]) /\ flag = FlagOf(r.atom)
  OBVIOUS
<1>2. /\ todo[a] # <<>> /\ r.op = "set" /\ Done(a) /\ fields' = fields /\ alive' = alive
      /\ topic' = topic /\ passed' = passed
      /\ property' = [property EXCEPT ![r.atom] = r.property]
      /\ meant' = [meant EXCEPT ![flag] = {r.value}]
  BY <1>1 DEF RequestSet, Works
<1>3. PICK m : m = [type |-> "PROPERTY", data |-> r.atom]
  OBVIOUS
<1>4. PICK told : told = {b \in alive : /\ flag \in passed[b]
                                        /\ {r.property.type, property[r.atom].type} # {"NONE"}}
  OBVIOUS
<1>4a. queue' = [b \in Agents |-> IF b \in told THEN Append(queue[b], m) ELSE queue[b]]
  BY <1>1, <1>3, <1>4 DEF RequestSet
<1>5. m.type = "PROPERTY" /\ m.data = r.atom
  BY <1>3
<1>6. /\ GoodList(a, todo[a]) /\ DOMAIN property = Atoms /\ DOMAIN meant = Flags
      /\ alive \subseteq Agents
  BY DEF Understanding
<1>7. RightSet(a, r) /\ r.atom \in Atoms /\ flag \in Flags
  <2>1. RightSet(a, r)
    BY <1>1, <1>2, <1>6, GoodListTail DEF GoodRequest
  <2> QED BY <1>1, <2>1, KnownAtoms DEF RightSet
<1>8. /\ DOMAIN property' = Atoms /\ DOMAIN meant' = Flags
      /\ \A atom \in Atoms : property'[atom] = IF atom = r.atom THEN r.property ELSE property[atom]
      /\ \A x \in Flags : meant'[x] = IF x = flag THEN {r.value} ELSE meant[x]
  BY <1>2, <1>6, <1>7
<1>9. /\ DOMAIN todo' = Agents /\ \A b \in Agents : GoodList(b, todo'[b])
      /\ todo'[a] = Tail(todo[a]) /\ \A b \in Agents \ {a} : todo'[b] = todo[b]
      /\ client \notin alive' => todo'[client] = <<>>
  BY <1>2, AnsweredTodo
<1>10. /\ DOMAIN queue' = Agents
       /\ \A b \in Agents : GoodQueue(queue'[b])
       /\ \A b \in Agents : \A x : Told(queue[b], x) => Told(queue'[b], x)
       /\ \A b \in told : Told(queue'[b], flag)
  <2>1. GoodMessage(m)
    BY <1>5 DEF GoodMessage
  <2>2. \A b \in Agents : GoodQueue(queue[b]) /\ IsList(queue[b])
    BY DEF Understanding, GoodQueue
  <2>3. \A b \in Agents : queue'[b] = IF b \in told THEN Append(queue[b], m) ELSE queue[b]
    BY <1>4a
  <2>4. DOMAIN queue' = Agents
    BY <1>4a
  <2>5. \A b \in Agents : GoodQueue(queue'[b])
    BY <2>1, <2>2, <2>3, QueueAppend
  <2>6. ASSUME NEW b \in Agents, NEW x, Told(queue[b], x) PROVE Told(queue'[b], x)
    BY <2>2, <2>3, <2>6, ToldAppend
  <2>7. ASSUME NEW b \in told PROVE Told(queue'[b], flag)
    <3>1. b \in Agents /\ queue'[b] = Append(queue[b], m) /\ IsList(queue[b])
      BY <1>4, <1>6, <2>2, <2>3
    <3> QED BY <1>1, <1>5, <3>1, ToldAppend
  <2> QED BY <2>4, <2>5, <2>6, <2>7
<1>11. \A x \in Paired : /\ Phase(todo'[Owner(x)], property', x)
                         /\ flag = x => Says(x, property'[x], r.value)
  BY <1>1, <1>2, SetPhases
<1>12. ASSUME NEW x \in Known PROVE Means(meant'[x], property'[x], x)
  <2>1. x \in Flags /\ x \in Atoms /\ FlagOf(x) = x
    BY KnownAtoms, FlagOfFlag
  <2>2. CASE x # flag
    <3>1. meant'[x] = meant[x] /\ property'[x] = property[x]
      BY <1>1, <1>8, <2>1, <2>2
    <3> QED BY <3>1 DEF Understanding
  <2>3. CASE x = flag /\ x \in Paired
    <3>1. meant'[x] = {r.value} /\ Says(x, property'[x], r.value)
      BY <1>8, <1>11, <2>1, <2>3
    <3> QED BY <3>1 DEF Means
  <2>4. CASE x = flag /\ x \notin Paired
    <3>1. r.atom = x
      BY <1>1, <2>4, AtomsOfFlag
    <3>2. meant'[x] = {r.value} /\ property'[x] = r.property
      BY <1>8, <2>1, <2>4, <3>1
    <3>3. Says(x, r.property, r.value)
      BY <1>1, <1>7, <2>4 DEF RightSet, Others
    <3> QED BY <3>2, <3>3 DEF Means
  <2> QED BY <2>2, <2>3, <2>4
<1>13. GoodIconProperty(property'["WMIcon"])
  <2>1. "WMIcon" \in Atoms /\ FlagOf("WMIcon") = "WMIcon"
    BY KnownAtoms, IconIsFlag, FlagOfFlag
  <2> QED BY <1>7, <1>8, <2>1 DEF Understanding, RightSet
<1>14. ASSUME NEW b \in alive, NEW x \in passed[b] \cap Known
       PROVE  View(queue'[b], todo'[b], fields[b][x], property', x)
  <2>1. b \in Agents /\ View(queue[b], todo[b], fields[b][x], property, x)
    BY DEF Understanding
  <2>2. CASE x = flag /\ b \in told
    BY <1>10, <2>2 DEF View
  <2>2a. CASE x = flag /\ b \notin told
    <3>1. queue'[b] = queue[b]
      BY <1>4a, <2>1, <2>2a
    <3>2. {r.property.type, property[r.atom].type} = {"NONE"}
      BY <1>4, <2>2a
    <3>3. x \in Paired => Phase(todo'[Owner(x)], property', x)
      BY <1>11
    <3>4. x \in Known /\ FlagOf(r.atom) = x
      BY <1>1, <2>2a
    <3> QED BY <1>1, <1>2, <1>7, <1>8, <2>1, <3>1, <3>2, <3>3, <3>4, DeletedAgain
  <2>3. CASE x # flag
    <3>1. x \in Atoms /\ FlagOf(x) = x
      BY KnownAtoms, FlagOfFlag
    <3>2. property'[x] = property[x]
      BY <1>1, <1>8, <2>3, <3>1
    <3>3. x \in Paired => property'[Second(x)] = property[Second(x)]
      BY <1>1, <1>8, <2>3, KnownAtoms, SecondOf
    <3>4. View(queue[b], todo[b], fields[b][x], property', x)
      BY <2>1, <3>2, <3>3, ViewOther
    <3>5. View(queue[b], todo'[b], fields[b][x], property', x)
      <4>1. CASE b # a
        BY <1>9, <2>1, <3>4, <4>1
      <4>2. CASE b = a
        <5>1. PICK q, f, p : q = queue[a] /\ f = fields[a][x] /\ p = property'
          OBVIOUS
        <5>2. View(q, todo[a], f, p, x) /\ FlagOf(Head(todo[a]).atom) # x
          BY <1>1, <2>3, <3>4, <4>2, <5>1
        <5>3. View(q, Tail(todo[a]), f, p, x)
          BY <1>2, <1>6, <5>2, ViewElse
        <5> QED BY <1>9, <4>2, <5>1, <5>3
      <4> QED BY <4>1, <4>2
    <3> QED BY <1>10, <2>1, <3>5, ViewTold
  <2> QED BY <2>2, <2>2a, <2>3
<1>15. /\ alive' \subseteq Agents /\ topic' \subseteq Flags /\ DOMAIN fields' = Agents
       /\ \A b \in Agents : GoodFields(fields'[b])
  BY <1>2 DEF Understanding
<1>16. \A b \in alive' : \A x \in passed'[b] \cap Known :
         View(queue'[b], todo'[b], fields'[b][x], property', x)
  BY <1>2, <1>14
<1> QED BY <1>8, <1>9, <1>10, <1>11, <1>12, <1>13, <1>15, <1>16 DEF Understanding

-----------------------------------------------------------------------------
(* Every step                                                              *)

LEMMA StepsKeep == Understanding /\ Deletions /\ [Next]_vars => Understanding'
<1> SUFFICES ASSUME Understanding, Deletions, [Next]_vars PROVE Understanding'
  OBVIOUS
<1>1. ASSUME UNCHANGED vars PROVE Understanding'
  <2>1. /\ property' = property /\ queue' = queue /\ fields' = fields /\ todo' = todo
        /\ alive' = alive /\ topic' = topic /\ passed' = passed /\ meant' = meant
    BY <1>1 DEF vars
  <2>2. /\ alive' \subseteq Agents /\ topic' \subseteq Flags
        /\ DOMAIN property' = Atoms /\ DOMAIN meant' = Flags
        /\ DOMAIN queue' = Agents /\ DOMAIN fields' = Agents /\ DOMAIN todo' = Agents
        /\ client \notin alive' => todo'[client] = <<>>
        /\ GoodIconProperty(property'["WMIcon"])
    BY <2>1 DEF Understanding
  <2>3. \A a \in Agents : GoodQueue(queue'[a]) /\ GoodFields(fields'[a]) /\ GoodList(a, todo'[a])
    BY <2>1 DEF Understanding
  <2>4. /\ \A flag \in Known : Means(meant'[flag], property'[flag], flag)
        /\ \A flag \in Paired : Phase(todo'[Owner(flag)], property', flag)
        /\ \A a \in alive' : \A flag \in passed'[a] \cap Known :
             View(queue'[a], todo'[a], fields'[a][flag], property', flag)
    BY <2>1 DEF Understanding
  <2> QED BY <2>2, <2>3, <2>4 DEF Understanding
<1>2. ASSUME NEW a \in Agents,
             \/ RequestSet(a) \/ RequestGet(a) \/ RequestSend(a)
             \/ DecideState(a) \/ DecideDesktop(a) \/ OnPropertyNotify(a)
      PROVE  Understanding'
  BY <1>2, SetRequestKeeps, GetKeeps, SendKeeps, DecideStateKeeps, DecideDesktopKeeps,
     PropertyNotifyKeeps
<1>3. ASSUME OnStateMessage \/ OnDesktopMessage \/ OnFullscreenMonitorsMessage
      PROVE  Understanding'
  BY <1>3, StateMessageKeeps, DesktopMessageKeeps, MonitorsMessageKeeps
<1>4. ASSUME NEW s \in States, Toggle(s) PROVE Understanding'
  BY <1>4, ToggleKeeps
<1>5. ASSUME \/ Construct \/ Manage \/ Withdraw \/ \E n \in {1, 3} : Iconify(n)
      PROVE  Understanding'
  BY <1>5, ConstructKeeps, ManageKeeps, WithdrawKeeps, IconifyKeeps
<1>6. ASSUME Setters PROVE Understanding'
  BY <1>6, SettersKeep
<1> QED BY <1>1, <1>2, <1>3, <1>4, <1>5, <1>6 DEF Next

\* With nothing on its way, everybody's field is what the properties say.
LEMMA UnderstoodAtRest == Understanding => BothKnow
<1> SUFFICES ASSUME Understanding, AtRest, NEW a \in alive,
                    NEW flag \in (topic \cap passed[a] \cap ToSet(Order)) \ {"Hints"},
                    meant[flag] # Nothing
             PROVE  meant[flag] = {Shown(flag, fields[a][flag])}
  BY DEF BothKnow
<1>1. flag \in Known /\ a \in Agents
  BY DEF Understanding, Known
<1>2. queue[a] = <<>> /\ \A b \in Agents : todo[b] = <<>>
  BY <1>1 DEF AtRest
<1>3. 1..Len(<<>>) = {}
  OBVIOUS
<1>4. Idle(<<>>)
  BY <1>3 DEF Idle
<1>5. View(<<>>, <<>>, fields[a][flag], property, flag)
  BY <1>1, <1>2 DEF Understanding
<1>6. UpToDate(fields[a][flag], property, flag)
  BY <1>3, <1>4, <1>5, IdleView DEF Told
<1>7. PICK v : meant[flag] = {v} /\ Says(flag, property[flag], v)
  BY <1>1 DEF Understanding, Means
<1>8. flag \in Paired => property[Second(flag)] = property[flag]
  <2>1. Owner(flag) \in Agents
    BY DEF Owner, Agents
  <2>2. flag \in Paired => Phase(todo[Owner(flag)], property, flag)
    BY DEF Understanding
  <2>3. todo[Owner(flag)] = <<>>
    BY <1>2, <2>1
  <2> QED BY <1>4, <2>2, <2>3, IdlePhase
<1>9. fields[a][flag] = ReadAll(flag, 0, property[flag], property[flag])
  BY <1>6, <1>8 DEF UpToDate, ReadAll
<1>10. Shown(flag, fields[a][flag]) = v
  BY <1>7, <1>9 DEF Says
<1> QED BY <1>7, <1>10

LEMMA AlwaysUnderstood == Spec => []Understanding
<1>1. Init => Understanding /\ Deletions
  BY UnderstandingAtFirst, DeletionsAtFirst
<1>2. Understanding /\ Deletions /\ [Next]_vars => Understanding' /\ Deletions'
  BY StepsKeep, StepsDelete
<1> QED BY <1>1, <1>2, PTL DEF Spec

\* Whatever the two processes called and in whatever order update() read properties,
\* replies and notifications: when nothing is on its way any more, both objects say
\* of every flag that they were asked to read what was meant by the last call that set
\* it. Setters change the object and the property alike, or leave the object to the
\* notification, and what update() makes of a property is what was meant.
THEOREM BothAlwaysKnow == Spec => []BothKnow
<1>1. Understanding => BothKnow
  BY UnderstoodAtRest
<1> QED BY <1>1, AlwaysUnderstood, PTL

-----------------------------------------------------------------------------
(* The icon that fits                                                      *)

\* One of two is kept at each step, from the first to the last: for the pairs of R
\* it is the new one.
Kept(n, c, base, R, g) ==
  [s \in SUBSET (1..n) |-> IF s = {} THEN base
                           ELSE IF <<c[Max(s)], g[s \ {Max(s)}]>> \in R THEN c[Max(s)]
                           ELSE g[s \ {Max(s)}]]

LEMMA MaxIs ==
  ASSUME NEW n \in Nat, NEW s \in SUBSET (1..n), s # {}
  PROVE  Max(s) \in s /\ \A y \in s : Max(s) >= y
<1> DEFINE Has(k) == \A t \in SUBSET (1..k) : t # {} => \E x \in t : \A y \in t : x >= y
           S == {k \in Nat : Has(k)}
<1>1. 0 \in S
  <2>1. 1..0 = {}
    OBVIOUS
  <2> QED BY <2>1
<1>2. ASSUME NEW k \in Nat, k \in S PROVE k + 1 \in S
  <2>1. k \in Nat /\ Has(k)
    BY <1>2
  <2>2. ASSUME NEW t \in SUBSET (1..(k + 1)), t # {}
        PROVE  \E x \in t : \A y \in t : x >= y
    <3>1. CASE k + 1 \in t
      BY <2>1, <3>1
    <3>2. CASE k + 1 \notin t
      <4>1. t \in SUBSET (1..k)
        BY <2>1, <3>2
      <4> QED BY <2>1, <2>2, <4>1
    <3> QED BY <3>1, <3>2
  <2> HIDE DEF S
  <2>3. Has(k + 1)
    BY <2>2
  <2>4. k + 1 \in Nat
    BY <2>1
  <2> HIDE DEF Has
  <2> QED BY <2>3, <2>4 DEF S
<1> HIDE DEF S
<1>3. Nat \subseteq S
  BY <1>1, <1>2, NatSetInduction
<1>4. Has(n)
  <2>1. n \in S
    BY <1>3
  <2> HIDE DEF Has
  <2> QED BY <2>1 DEF S
<1>5. \E x \in s : \A y \in s : x >= y
  BY <1>4
<1> QED BY <1>5 DEF Max

Keeps(n, V, c, base, R) == \E g \in [SUBSET (1..n) -> V] : g = Kept(n, c, base, R, g)

LEMMA KeptExists ==
  ASSUME NEW n \in Nat, NEW V, NEW base \in V, NEW c, \A i \in 1..n : c[i] \in V, NEW R
  PROVE  Keeps(n, V, c, base, R)
<1> DEFINE One(x, y) == IF <<x, y>> \in R THEN x ELSE y
           Step(s, g) == IF s = {} THEN base ELSE One(c[Max(s)], g[s \ {Max(s)}])
           Runs(k) == \E g \in [SUBSET (1..k) -> V] : \A s \in SUBSET (1..k) : g[s] = Step(s, g)
           S == {k \in Nat : k <= n => Runs(k)}
<1>1. 0 \in S
  <2>1. 1..0 = {}
    OBVIOUS
  <2>2. PICK g : g = [s \in SUBSET (1..0) |-> base]
    OBVIOUS
  <2>3. g \in [SUBSET (1..0) -> V] /\ \A s \in SUBSET (1..0) : s = {} /\ g[s] = base
    BY <2>1, <2>2
  <2>4. Runs(0)
    BY <2>3
  <2> HIDE DEF Runs
  <2> QED BY <2>4
<1>2. ASSUME NEW k \in Nat, k \in S PROVE k + 1 \in S
  <2> SUFFICES ASSUME k + 1 <= n PROVE Runs(k + 1)
    <3> HIDE DEF Runs
    <3> QED OBVIOUS
  <2>1. Runs(k)
    <3> HIDE DEF Runs
    <3> QED BY <1>2
  <2>2. PICK g \in [SUBSET (1..k) -> V] : \A s \in SUBSET (1..k) : g[s] = Step(s, g)
    BY <2>1
  <2>3. PICK m : m = k + 1
    OBVIOUS
  <2>4. m \in 1..n /\ m \notin 1..k /\ 1..m = (1..k) \cup {m} /\ c[m] \in V
    BY <2>3
  <2> HIDE DEF One
  <2>5. PICK h : h = [s \in SUBSET (1..m) |-> IF m \in s THEN One(c[m], g[s \ {m}]) ELSE g[s]]
    OBVIOUS
  <2>6. ASSUME NEW s \in SUBSET (1..m) PROVE h[s] \in V /\ h[s] = Step(s, h)
    <3>1. CASE m \in s
      <4>1. Max(s) = m
        <5>1. Max(s) \in s /\ \A y \in s : Max(s) >= y
          <6>1. m \in Nat /\ s # {}
            BY <2>3, <3>1
          <6> QED BY <6>1, MaxIs
        <5>2. Max(s) \in 1..m /\ Max(s) >= m
          BY <3>1, <5>1
        <5> QED BY <2>3, <5>2
      <4>2. s \ {m} \in SUBSET (1..k) /\ s \ {m} \in SUBSET (1..m) /\ m \notin s \ {m}
        BY <2>4
      <4>3. h[s \ {m}] = g[s \ {m}] /\ h[s] = One(c[m], g[s \ {m}]) /\ g[s \ {m}] \in V
        BY <2>5, <3>1, <4>2
      <4>4. One(c[m], g[s \ {m}]) \in V
        BY <2>4, <4>3 DEF One
      <4> QED BY <3>1, <4>1, <4>3, <4>4
    <3>2. CASE m \notin s
      <4>1. s \in SUBSET (1..k) /\ h[s] = g[s]
        BY <2>4, <2>5, <3>2
      <4>2. CASE s = {}
        BY <2>2, <4>1, <4>2
      <4>3. CASE s # {}
        <5>1. PICK t : t = s \ {Max(s)}
          OBVIOUS
        <5>2. t \in SUBSET (1..k) /\ t \in SUBSET (1..m) /\ m \notin t
          BY <2>4, <4>1, <5>1
        <5>3. h[t] = g[t]
          BY <2>5, <5>2
        <5> QED BY <2>2, <4>1, <4>3, <5>1, <5>3
      <4> QED BY <4>2, <4>3
    <3> QED BY <3>1, <3>2
  <2>7. h \in [SUBSET (1..m) -> V]
    BY <2>5, <2>6
  <2> QED BY <2>3, <2>6, <2>7
<1>3. Nat \subseteq S
  <2> HIDE DEF S
  <2> QED BY <1>1, <1>2, NatSetInduction
<1>4. Runs(n)
  <2>1. n \in S
    <3> HIDE DEF S
    <3> QED BY <1>3
  <2> HIDE DEF Runs
  <2> QED BY <2>1
<1>5. PICK g \in [SUBSET (1..n) -> V] : \A s \in SUBSET (1..n) : g[s] = Step(s, g)
  BY <1>4
<1>6. g = [s \in SUBSET (1..n) |-> g[s]]
  OBVIOUS
<1>7. g = Kept(n, c, base, R, g)
  BY <1>5, <1>6 DEF Kept
<1> QED BY <1>7 DEF Keeps

LEMMA KeptRuns ==
  ASSUME NEW n \in Nat, NEW c, NEW base, NEW R, NEW g, g = Kept(n, c, base, R, g)
  PROVE  /\ g[1..0] = base
         /\ \A k \in 1..n : g[1..k] = IF <<c[k], g[1..(k - 1)]>> \in R THEN c[k]
                                      ELSE g[1..(k - 1)]
<1>1. 1..0 = {} /\ {} \in SUBSET (1..n)
  OBVIOUS
<1>2. g[{}] = base
  BY <1>1 DEF Kept
<1>3. ASSUME NEW k \in 1..n
      PROVE  g[1..k] = IF <<c[k], g[1..(k - 1)]>> \in R THEN c[k] ELSE g[1..(k - 1)]
  <2>1. 1..k \in SUBSET (1..n) /\ 1..k # {} /\ (1..k) \ {k} = 1..(k - 1) /\ k \in 1..k
    OBVIOUS
  <2>2. Max(1..k) = k
    <3>1. Max(1..k) \in 1..k /\ \A y \in 1..k : Max(1..k) >= y
      BY <2>1, MaxIs
    <3> QED BY <2>1, <3>1
  <2>3. PICK s : s = 1..k
    OBVIOUS
  <2>4. g[s] = IF <<c[Max(s)], g[s \ {Max(s)}]>> \in R THEN c[Max(s)] ELSE g[s \ {Max(s)}]
    BY <2>1, <2>3 DEF Kept
  <2> QED BY <2>1, <2>2, <2>3, <2>4
<1> QED BY <1>1, <1>2, <1>3

\* The two loops of iconInternal()
Largest(base, c) ==
  FoldLeft(LAMBDA best, icon : IF Covers(icon, best) THEN icon ELSE best, base, c)
Fits(wanted, icon, best) == Covers(icon, wanted) /\ Smaller(icon, best)
Fitting(wanted, base, c) ==
  FoldLeft(LAMBDA best, icon :
             IF Fits(wanted, icon, best) THEN icon ELSE best, base, c)

LEMMA AllAlong ==
  ASSUME NEW n \in Nat, NEW f, NEW V, f[0] \in V, NEW c, \A i \in 1..n : c[i] \in V,
         \A k \in 1..n : f[k] \in {c[k], f[k - 1]}
  PROVE  \A k \in 0..n : f[k] \in V
<1> DEFINE S == {k \in Nat : k <= n => f[k] \in V}
<1>1. 0 \in S
  OBVIOUS
<1>2. ASSUME NEW k \in Nat, k \in S PROVE k + 1 \in S
  <2> SUFFICES ASSUME k + 1 <= n PROVE f[k + 1] \in V
    OBVIOUS
  <2>1. k + 1 \in 1..n /\ k + 1 - 1 = k /\ f[k] \in V
    BY <1>2
  <2> QED BY <2>1
<1>3. Nat \subseteq S
  <2> HIDE DEF S
  <2> QED BY <1>1, <1>2, NatSetInduction
<1> QED BY <1>3

LEMMA Chain ==
  ASSUME NEW n \in Nat, NEW k \in 1..n
  PROVE  1..k \in SUBSET (1..n) /\ 1..k # {} /\ (1..k) \ {k} = 1..(k - 1) /\ k \in 1..k
<1>1. k \in 1..k /\ 1..k \in SUBSET (1..n)
  OBVIOUS
<1>2. (1..k) \ {k} = 1..(k - 1)
  OBVIOUS
<1> QED BY <1>1, <1>2

\* What the first loop holds, from the first icon to the last
LargestAlong(n, V, base, c) ==
  \E f : /\ f[0] = base /\ Largest(base, c) = f[n]
         /\ \A k \in 1..n : f[k] = IF Covers(c[k], f[k - 1]) THEN c[k] ELSE f[k - 1]
         /\ \A k \in 0..n : f[k] \in V

LEMMA LargestIs ==
  ASSUME NEW n \in Nat, NEW V, NEW base \in V, NEW c, DOMAIN c = 1..n, \A i \in 1..n : c[i] \in V
  PROVE  LargestAlong(n, V, base, c)
<1> DEFINE A == CHOOSE g : g = [s \in SUBSET (DOMAIN c) |->
                                  IF s = {} THEN base
                                  ELSE IF Covers(c[Max(s)], g[s \ {Max(s)}]) THEN c[Max(s)]
                                       ELSE g[s \ {Max(s)}]]
<1>1. Largest(base, c) = A[DOMAIN c]
  BY DEF Largest, FoldLeft, MapThenFoldSet
<1>2. PICK R : R = {p \in V \X V : Covers(p[1], p[2])}
  OBVIOUS
<1>3. \A x, y \in V : <<x, y>> \in R <=> Covers(x, y)
  BY <1>2
<1>4. PICK g \in [SUBSET (1..n) -> V] : g = Kept(n, c, base, R, g)
  <2> HIDE DEF A
  <2>1. Keeps(n, V, c, base, R)
    BY KeptExists
  <2> QED BY <2>1 DEF Keeps
<1> DEFINE Step(s, h) == IF s = {} THEN base
                         ELSE IF Covers(c[Max(s)], h[s \ {Max(s)}]) THEN c[Max(s)]
                              ELSE h[s \ {Max(s)}]
<1>5. ASSUME NEW s \in SUBSET (1..n) PROVE g[s] = Step(s, g)
  <2> HIDE DEF A
  <2>1. g[s] = IF s = {} THEN base
               ELSE IF <<c[Max(s)], g[s \ {Max(s)}]>> \in R THEN c[Max(s)] ELSE g[s \ {Max(s)}]
    BY <1>4 DEF Kept
  <2>2. s # {} => c[Max(s)] \in V /\ g[s \ {Max(s)}] \in V
    BY MaxIs
  <2> QED BY <1>3, <2>1, <2>2
<1>6. g = [s \in SUBSET (DOMAIN c) |-> Step(s, g)]
  <2> HIDE DEF A, Step
  <2> QED BY <1>5
<1>7. A = [s \in SUBSET (DOMAIN c) |-> Step(s, A)]
  BY <1>6
<1> HIDE DEF A
<1>8. A[1..0] = base
  <2>1. 1..0 = {} /\ {} \in SUBSET (1..n)
    OBVIOUS
  <2>2. A[{}] = Step({}, A)
    BY <1>7, <2>1
  <2> QED BY <2>1, <2>2
<1>9. ASSUME NEW k \in 1..n
      PROVE  A[1..k] = IF Covers(c[k], A[1..(k - 1)]) THEN c[k] ELSE A[1..(k - 1)]
  <2> HIDE DEF Step
  <2>1. 1..k \in SUBSET (1..n) /\ 1..k # {} /\ (1..k) \ {k} = 1..(k - 1) /\ k \in 1..k
    BY Chain
  <2>2. Max(1..k) = k
    <3>1. Max(1..k) \in 1..k /\ \A y \in 1..k : Max(1..k) >= y
      BY <2>1, MaxIs
    <3> QED BY <2>1, <3>1
  <2>3. A[1..k] = Step(1..k, A)
    BY <1>7, <2>1
  <2> QED BY <2>1, <2>2, <2>3 DEF Step
<1>10. PICK f : f = [k \in 0..n |-> A[1..k]]
  OBVIOUS
<1>11. f[0] = base /\ f[n] = A[DOMAIN c]
  BY <1>8, <1>10
<1>12. \A k \in 1..n : f[k] = IF Covers(c[k], f[k - 1]) THEN c[k] ELSE f[k - 1]
  BY <1>9, <1>10
<1>13. \A k \in 0..n : f[k] \in V
  BY <1>11, <1>12, AllAlong
<1> QED BY <1>1, <1>11, <1>12, <1>13 DEF LargestAlong

\* and what the second holds
FittingAlong(n, V, base, c, wanted) ==
  \E f : /\ f[0] = base /\ Fitting(wanted, base, c) = f[n]
         /\ \A k \in 1..n : f[k] = IF Fits(wanted, c[k], f[k - 1]) THEN c[k] ELSE f[k - 1]
         /\ \A k \in 0..n : f[k] \in V

LEMMA FittingIs ==
  ASSUME NEW n \in Nat, NEW V, NEW base \in V, NEW c, NEW wanted,
         DOMAIN c = 1..n, \A i \in 1..n : c[i] \in V
  PROVE  FittingAlong(n, V, base, c, wanted)
<1> DEFINE A == CHOOSE g : g = [s \in SUBSET (DOMAIN c) |->
                                  IF s = {} THEN base
                                  ELSE IF Fits(wanted, c[Max(s)], g[s \ {Max(s)}]) THEN c[Max(s)]
                                       ELSE g[s \ {Max(s)}]]
<1>1. Fitting(wanted, base, c) = A[DOMAIN c]
  BY DEF Fitting, FoldLeft, MapThenFoldSet
<1>2. PICK R : R = {p \in V \X V : Fits(wanted, p[1], p[2])}
  OBVIOUS
<1>3. \A x, y \in V : <<x, y>> \in R <=> Fits(wanted, x, y)
  BY <1>2
<1>4. PICK g \in [SUBSET (1..n) -> V] : g = Kept(n, c, base, R, g)
  <2> HIDE DEF A
  <2>1. Keeps(n, V, c, base, R)
    BY KeptExists
  <2> QED BY <2>1 DEF Keeps
<1> DEFINE Step(s, h) == IF s = {} THEN base
                         ELSE IF Fits(wanted, c[Max(s)], h[s \ {Max(s)}]) THEN c[Max(s)]
                              ELSE h[s \ {Max(s)}]
<1>5. ASSUME NEW s \in SUBSET (1..n) PROVE g[s] = Step(s, g)
  <2> HIDE DEF A
  <2>1. g[s] = IF s = {} THEN base
               ELSE IF <<c[Max(s)], g[s \ {Max(s)}]>> \in R THEN c[Max(s)] ELSE g[s \ {Max(s)}]
    BY <1>4 DEF Kept
  <2>2. s # {} => c[Max(s)] \in V /\ g[s \ {Max(s)}] \in V
    BY MaxIs
  <2> QED BY <1>3, <2>1, <2>2
<1>6. g = [s \in SUBSET (DOMAIN c) |-> Step(s, g)]
  <2> HIDE DEF A, Step
  <2> QED BY <1>5
<1>7. A = [s \in SUBSET (DOMAIN c) |-> Step(s, A)]
  BY <1>6
<1> HIDE DEF A
<1>8. A[1..0] = base
  <2>1. 1..0 = {} /\ {} \in SUBSET (1..n)
    OBVIOUS
  <2>2. A[{}] = Step({}, A)
    BY <1>7, <2>1
  <2> QED BY <2>1, <2>2
<1>9. ASSUME NEW k \in 1..n
      PROVE  A[1..k] = IF Fits(wanted, c[k], A[1..(k - 1)]) THEN c[k] ELSE A[1..(k - 1)]
  <2> HIDE DEF Step
  <2>1. 1..k \in SUBSET (1..n) /\ 1..k # {} /\ (1..k) \ {k} = 1..(k - 1) /\ k \in 1..k
    BY Chain
  <2>2. Max(1..k) = k
    <3>1. Max(1..k) \in 1..k /\ \A y \in 1..k : Max(1..k) >= y
      BY <2>1, MaxIs
    <3> QED BY <2>1, <3>1
  <2>3. A[1..k] = Step(1..k, A)
    BY <1>7, <2>1
  <2> QED BY <2>1, <2>2, <2>3 DEF Step
<1>10. PICK f : f = [k \in 0..n |-> A[1..k]]
  OBVIOUS
<1>11. f[0] = base /\ f[n] = A[DOMAIN c]
  BY <1>8, <1>10
<1>12. \A k \in 1..n : f[k] = IF Fits(wanted, c[k], f[k - 1]) THEN c[k] ELSE f[k - 1]
  BY <1>9, <1>10
<1>13. \A k \in 0..n : f[k] \in V
  BY <1>11, <1>12, AllAlong
<1> QED BY <1>1, <1>11, <1>12, <1>13 DEF FittingAlong

\* What the first loop leaves is one of the icons, and none is wider.
LEMMA WidestFound ==
  ASSUME NEW i, GoodIcons(i), i.count # 0, NEW real, real = {i.icons[k] : k \in 1..i.count},
         \A icon \in real : icon.width = icon.height
  PROVE  LET found == Largest(i.icons[1], i.icons)
         IN  found \in real /\ \A icon \in real : icon.width <= found.width
<1>1. PICK n \in Nat : n = Len(i.icons)
  BY DEF GoodIcons
<1>2. PICK m : m = i.count
  OBVIOUS
<1>3. PICK c : c = i.icons
  OBVIOUS
<1>4. PICK V : V = Icons \cup {NoIcon}
  OBVIOUS
<1>5. m \in 1..n /\ DOMAIN c = 1..n
  BY <1>1, <1>2, <1>3 DEF GoodIcons, IsList
<1>6. /\ \A k \in 1..m : c[k] \in Icons
      /\ \A k \in 1..n : k > m => c[k] = NoIcon
  BY <1>1, <1>2, <1>3 DEF GoodIcons
<1>7. real = {c[k] : k \in 1..m} /\ real \subseteq Icons
  BY <1>2, <1>3, <1>6
<1>8. \A x \in real : x.width \in Nat /\ x.width >= 1 /\ x.height = x.width
  BY <1>7 DEF Icons
<1>9. NoIcon.width = 0 /\ NoIcon.height = 0
  BY DEF NoIcon
<1>10. \A k \in 1..n : c[k] \in real \/ c[k] = NoIcon
  <2>1. ASSUME NEW k \in 1..n PROVE c[k] \in real \/ c[k] = NoIcon
    <3>1. CASE k > m
      BY <1>6, <3>1
    <3>2. CASE ~(k > m)
      <4>1. k \in 1..m
        BY <1>5, <3>2
      <4> QED BY <1>7, <4>1
    <3> QED BY <3>1, <3>2
  <2> QED BY <2>1
<1>11. c[1] \in real
  BY <1>5, <1>7
<1>12. PICK f : /\ f[0] = c[1] /\ Largest(c[1], c) = f[n]
                /\ \A k \in 1..n : f[k] = IF Covers(c[k], f[k - 1]) THEN c[k] ELSE f[k - 1]
                /\ \A k \in 0..n : f[k] \in V
  <2>1. PICK base : base = c[1]
    OBVIOUS
  <2>2. base \in V /\ \A k \in 1..n : c[k] \in V
    BY <1>4, <1>7, <1>10, <1>11, <2>1
  <2>3. LargestAlong(n, V, base, c)
    BY <1>5, <2>2, LargestIs
  <2> QED BY <2>1, <2>3 DEF LargestAlong
<1> DEFINE S == {k \in Nat : k <= n => /\ f[k] \in real
                                       /\ \A j \in 1..k : c[j].width <= f[k].width}
<1>13. 0 \in S
  BY <1>11, <1>12
<1>14. ASSUME NEW k \in Nat, k \in S PROVE k + 1 \in S
  <2> SUFFICES ASSUME k + 1 <= n
               PROVE  f[k + 1] \in real /\ \A j \in 1..(k + 1) : c[j].width <= f[k + 1].width
    OBVIOUS
  <2>1. PICK old : old = f[k]
    OBVIOUS
  <2>2. PICK x : x = c[k + 1]
    OBVIOUS
  <2>3. old \in real /\ \A j \in 1..k : c[j].width <= old.width
    BY <1>14, <2>1
  <2>4. f[k + 1] = IF Covers(x, old) THEN x ELSE old
    <3>1. k + 1 \in 1..n /\ k + 1 - 1 = k
      OBVIOUS
    <3> QED BY <1>12, <2>1, <2>2, <3>1
  <2>5. x \in real \/ x = NoIcon
    BY <1>10, <2>2
  <2>6. \A j \in 1..(k + 1) : j \in 1..k \/ j = k + 1
    OBVIOUS
  <2>7. \A j \in 1..k : c[j].width \in Nat
    <3>1. \A j \in 1..k : j \in 1..n
      OBVIOUS
    <3> QED BY <1>8, <1>9, <1>10, <3>1
  <2>8. CASE Covers(x, old)
    <3>1. x.width >= old.width /\ x \in real
      BY <1>8, <1>9, <2>3, <2>5, <2>8 DEF Covers
    <3> QED BY <1>8, <2>2, <2>3, <2>4, <2>6, <2>7, <2>8, <3>1
  <2>9. CASE ~Covers(x, old)
    <3>1. x.width <= old.width
      BY <1>8, <1>9, <2>3, <2>5, <2>9 DEF Covers
    <3> QED BY <2>2, <2>3, <2>4, <2>6, <2>9, <3>1
  <2> QED BY <2>8, <2>9
<1>15. Nat \subseteq S
  <2> HIDE DEF S
  <2> QED BY <1>13, <1>14, NatSetInduction
<1>16. f[n] \in real /\ \A j \in 1..n : c[j].width <= f[n].width
  BY <1>15
<1>17. \A x \in real : x.width <= f[n].width
  <2>1. \A k \in 1..m : k \in 1..n
    BY <1>5
  <2> QED BY <1>7, <1>16, <2>1
<1> QED BY <1>3, <1>12, <1>16, <1>17

\* The second loop starts from it and takes only icons that are large enough, each
\* smaller than the one before.
LEMMA FittingFound ==
  ASSUME NEW i, GoodIcons(i), i.count # 0, NEW real, real = {i.icons[k] : k \in 1..i.count},
         \A icon \in real : icon.width = icon.height,
         NEW largest \in real, NEW size \in Nat \ {0}, NEW wanted,
         wanted = [width |-> size, height |-> size]
  PROVE  LET found == Fitting(wanted, largest, i.icons)
         IN  /\ found \in real /\ (found = largest \/ found.width >= size)
             /\ \A icon \in real : icon.width >= size => found.width <= icon.width
<1>1. PICK n \in Nat : n = Len(i.icons)
  BY DEF GoodIcons
<1>2. PICK m : m = i.count
  OBVIOUS
<1>3. PICK c : c = i.icons
  OBVIOUS
<1>4. PICK V : V = Icons \cup {NoIcon}
  OBVIOUS
<1>5. m \in 1..n /\ DOMAIN c = 1..n
  BY <1>1, <1>2, <1>3 DEF GoodIcons, IsList
<1>6. /\ \A k \in 1..m : c[k] \in Icons
      /\ \A k \in 1..n : k > m => c[k] = NoIcon
  BY <1>1, <1>2, <1>3 DEF GoodIcons
<1>7. real = {c[k] : k \in 1..m} /\ real \subseteq Icons
  BY <1>2, <1>3, <1>6
<1>8. \A x \in real : x.width \in Nat /\ x.width >= 1 /\ x.height = x.width
  BY <1>7 DEF Icons
<1>9. NoIcon.width = 0 /\ NoIcon.height = 0 /\ wanted.width = size /\ wanted.height = size
  BY DEF NoIcon
<1>10. \A k \in 1..n : c[k] \in real \/ c[k] = NoIcon
  <2>1. ASSUME NEW k \in 1..n PROVE c[k] \in real \/ c[k] = NoIcon
    <3>1. CASE k > m
      BY <1>6, <3>1
    <3>2. CASE ~(k > m)
      <4>1. k \in 1..m
        BY <1>5, <3>2
      <4> QED BY <1>7, <4>1
    <3> QED BY <3>1, <3>2
  <2> QED BY <2>1
<1>11. PICK f : /\ f[0] = largest /\ Fitting(wanted, largest, c) = f[n]
                /\ \A k \in 1..n : f[k] = IF Fits(wanted, c[k], f[k - 1]) THEN c[k] ELSE f[k - 1]
                /\ \A k \in 0..n : f[k] \in V
  <2>1. largest \in V /\ \A k \in 1..n : c[k] \in V
    BY <1>4, <1>7, <1>10
  <2>2. FittingAlong(n, V, largest, c, wanted)
    BY <1>5, <2>1, FittingIs
  <2> QED BY <2>2 DEF FittingAlong
<1> DEFINE Right(x, k) == /\ x \in real /\ (x = largest \/ x.width >= size)
                          /\ \A j \in 1..k : c[j].width >= size => x.width <= c[j].width
           S == {k \in Nat : k <= n => Right(f[k], k)}
<1>12. 0 \in S
  BY <1>11
<1>13. ASSUME NEW k \in Nat, k \in S PROVE k + 1 \in S
  <2> SUFFICES ASSUME k + 1 <= n PROVE Right(f[k + 1], k + 1)
    OBVIOUS
  <2>1. PICK old : old = f[k]
    OBVIOUS
  <2>2. PICK x : x = c[k + 1]
    OBVIOUS
  <2>3. Right(old, k)
    BY <1>13, <2>1
  <2>4. f[k + 1] = IF Fits(wanted, x, old) THEN x ELSE old
    <3>1. k + 1 \in 1..n /\ k + 1 - 1 = k
      OBVIOUS
    <3> QED BY <1>11, <2>1, <2>2, <3>1
  <2>5. x \in real \/ x = NoIcon
    BY <1>10, <2>2
  <2>6. \A j \in 1..(k + 1) : j \in 1..k \/ j = k + 1
    OBVIOUS
  <2>7. \A j \in 1..k : c[j].width \in Nat
    <3>1. \A j \in 1..k : j \in 1..n
      OBVIOUS
    <3> QED BY <1>8, <1>9, <1>10, <3>1
  <2>8. CASE Fits(wanted, x, old)
    <3>1. x.width >= size /\ x.width < old.width /\ x \in real
      BY <1>9, <2>5, <2>8 DEF Fits, Covers, Smaller
    <3>2. x.width \in Nat /\ old.width \in Nat
      BY <1>8, <2>3, <3>1
    <3>3. \A j \in 1..(k + 1) : c[j].width >= size => x.width <= c[j].width
      BY <2>2, <2>3, <2>6, <2>7, <3>1, <3>2
    <3> QED BY <2>4, <2>8, <3>1, <3>3
  <2>9. CASE ~Fits(wanted, x, old)
    <3>1. x.width >= size => old.width <= x.width
      BY <1>8, <1>9, <2>3, <2>5, <2>9 DEF Fits, Covers, Smaller
    <3>2. \A j \in 1..(k + 1) : c[j].width >= size => old.width <= c[j].width
      BY <2>2, <2>3, <2>6, <3>1
    <3> QED BY <2>3, <2>4, <2>9, <3>2
  <2> QED BY <2>8, <2>9
<1>14. Nat \subseteq S
  <2> HIDE DEF S
  <2> QED BY <1>12, <1>13, NatSetInduction
<1>15. Right(f[n], n)
  BY <1>14
<1>16. \A x \in real : x.width >= size => f[n].width <= x.width
  <2>1. \A k \in 1..m : k \in 1..n
    BY <1>5
  <2> QED BY <1>7, <1>15, <2>1
<1> QED BY <1>3, <1>11, <1>15, <1>16

LEMMA IconIsRight ==
  ASSUME NEW i, GoodIcons(i), NEW size \in Nat \ {0},
         NEW real, real = {i.icons[k] : k \in 1..i.count}, real # {},
         \A icon \in real : icon.width = icon.height
  PROVE  LET found == IconInternal(i, size, size)
             enough == {icon \in real : icon.width >= size}
         IN  /\ found \in real
             /\ IF enough # {} THEN found.width = Min({icon.width : icon \in enough})
                ELSE found.width = Max({icon.width : icon \in real})
<1>1. i.count # 0
  <2>1. 1..0 = {}
    OBVIOUS
  <2> QED BY <2>1
<1>2. PICK wanted : wanted = [width |-> size, height |-> size]
  OBVIOUS
<1>3. PICK largest : largest = Largest(i.icons[1], i.icons)
  OBVIOUS
<1>4. PICK found : found = Fitting(wanted, largest, i.icons)
  OBVIOUS
<1>5. IconInternal(i, size, size) = found
  BY <1>1, <1>2, <1>3, <1>4
     DEF IconInternal, Largest, Fitting, Fits, FoldLeft, MapThenFoldSet
<1>6. largest \in real /\ \A icon \in real : icon.width <= largest.width
  BY <1>1, <1>3, WidestFound
<1>7. /\ found \in real /\ (found = largest \/ found.width >= size)
      /\ \A icon \in real : icon.width >= size => found.width <= icon.width
  BY <1>1, <1>2, <1>4, <1>6, FittingFound
<1>8. \A icon \in real : icon.width \in Nat
  BY DEF GoodIcons, Icons
<1>9. PICK enough : enough = {icon \in real : icon.width >= size}
  OBVIOUS
<1>10. CASE enough # {}
  <2>1. found.width >= size
    BY <1>6, <1>7, <1>8, <1>9, <1>10
  <2>2. PICK S : S = {icon.width : icon \in enough}
    OBVIOUS
  <2>3. found.width \in S /\ S \subseteq Nat /\ \A x \in S : found.width <= x
    BY <1>7, <1>8, <1>9, <2>1, <2>2
  <2>4. found.width = Min(S)
    <3>1. Min(S) \in S /\ \A x \in S : Min(S) =< x
      BY <2>3 DEF Min
    <3>2. PICK x : x = Min(S)
      OBVIOUS
    <3>3. x \in Nat /\ found.width \in Nat /\ x <= found.width /\ found.width <= x
      BY <2>3, <3>1, <3>2
    <3> QED BY <3>2, <3>3
  <2> QED BY <1>5, <1>7, <1>9, <1>10, <2>2, <2>4
<1>11. CASE enough = {}
  <2>1. found = largest
    BY <1>7, <1>9, <1>11
  <2>2. PICK S : S = {icon.width : icon \in real}
    OBVIOUS
  <2>3. found.width \in S /\ S \subseteq Nat /\ \A x \in S : x <= found.width
    BY <1>6, <1>7, <1>8, <2>1, <2>2
  <2>4. found.width = Max(S)
    BY <2>3 DEF Max
  <2> QED BY <1>5, <1>7, <1>9, <1>11, <2>2, <2>4
<1> QED BY <1>10, <1>11

\* icon() gives back, of the square icons that an object holds after any calls and any
\* updates, the smallest that is large enough, or else the largest: setIconInternal()
\* leaves empty icons behind in the array, and iconInternal() walks over them too but
\* never takes one.
THEOREM IconsAlwaysFit == Spec => []IconFits
<1>1. ASSUME Understanding PROVE IconFits
  <2>1. ASSUME NEW a \in alive, NEW n \in 1..3
        PROVE  LET i == fields[a]["WMIcon"]
                   real == {i.icons[k] : k \in 1..i.count}
                   enough == {icon \in real : icon.width >= n}
                   found == IconInternal(i, n, n)
               IN  real # {} /\ (\A icon \in real : icon.width = icon.height) =>
                     /\ found \in real
                     /\ IF enough # {} THEN found.width = Min({icon.width : icon \in enough})
                        ELSE found.width = Max({icon.width : icon \in real})
    <3> DEFINE i == fields[a]["WMIcon"]
               real == {i.icons[k] : k \in 1..i.count}
               enough == {icon \in real : icon.width >= n}
               found == IconInternal(i, n, n)
    <3> SUFFICES ASSUME real # {}, \A icon \in real : icon.width = icon.height
                 PROVE  /\ found \in real
                        /\ IF enough # {} THEN found.width = Min({icon.width : icon \in enough})
                           ELSE found.width = Max({icon.width : icon \in real})
      OBVIOUS
    <3>1. GoodIcons(i)
      BY <1>1 DEF Understanding, GoodFields
    <3>2. n \in Nat \ {0}
      OBVIOUS
    <3>3. PICK I : I = i
      OBVIOUS
    <3>4. PICK R : R = {I.icons[k] : k \in 1..I.count}
      OBVIOUS
    <3>5. R = real
      BY <3>3, <3>4
    <3> HIDE DEF real, i
    <3>6. GoodIcons(I) /\ R # {} /\ \A icon \in R : icon.width = icon.height
      BY <3>1, <3>3, <3>5
    <3>7. LET one == IconInternal(I, n, n)
              large == {icon \in R : icon.width >= n}
          IN  /\ one \in R
              /\ IF large # {} THEN one.width = Min({icon.width : icon \in large})
                 ELSE one.width = Max({icon.width : icon \in R})
      BY <3>2, <3>4, <3>6, IconIsRight
    <3> QED BY <3>3, <3>5, <3>7
  <2> QED BY <2>1 DEF IconFits
<1> QED BY <1>1, AlwaysUnderstood, PTL

-----------------------------------------------------------------------------
(* Wishes are honoured                                                     *)

\* The property that a wish is about, and a value of it
Key(w) == IF w = "desktop" THEN "WMDesktop" ELSE "WMState"
ValueOf(w, x) == IF w = "desktop" THEN x ELSE On(w, x)

\* Messages, decisions and requests about a wish
About(m, w) ==
  IF w = "desktop" THEN m.type = "DESKTOP"
  ELSE m.type = "STATE" /\ \E atom \in m.data.atoms : StateFlag[atom] = w
Asking(m, w, v) ==
  IF w = "desktop" THEN v = IF m.data[1] = Word - 1 THEN OnAllDesktops ELSE m.data[1] + 1
  ELSE m.data.action = v
Decides(r, w) ==
  /\ r.op \in {"setState", "setDesktop"} /\ ~r.own
  /\ IF w = "desktop" THEN r.op = "setDesktop" ELSE r.op = "setState" /\ w \in r.mask
Decided(r, w) == IF w = "desktop" THEN r.desktop ELSE On(w, r.state)
SendsAbout(r, w) == r.op = "send" /\ About(r.message, w)
SetsKey(r, w) == r.op = "set" /\ r.atom = Key(w)
Removes(r) == r.op = "set" /\ r.atom = "XAWMState" /\ r.property = NoProperty

\* Somebody has yet to grant the wish, to write or to read.
Calling(r, w) == Decides(r, w) \/ SendsAbout(r, w)
Pending(w) == \/ \E m \in In(queue[wm]) : About(m, w)
              \/ \E a \in Agents : \E r \in In(todo[a]) : Calling(r, w)
ToWrite(a, w) == \E r \in In(todo[a]) : SetsKey(r, w)
ToRead(a, w) == \E r \in In(todo[a]) : IsGet(r, Key(w))
Settled(w, v) == ValueOf(w, Read(Key(w), 0, property[Key(w)])) = v
Shows(a, w, v) == ValueOf(w, fields[a][Key(w)]) = v

\* A client writes itself, or there is nobody who listens to it.
Alone == fields[client]["XAWMState"] = "Withdrawn" \/ property["XAWMState"] = NoProperty

Obeys(a, r, w, v) ==
  /\ SendsAbout(r, w) => Asking(r.message, w, v)
  /\ Decides(r, w) => Decided(r, w) = v
  /\ SetsKey(r, w) => ValueOf(w, r.value) = v \/ (a = wm /\ Pending(w))
  /\ ~Removes(r)

\* How the wish v for w is honoured: everything that is on its way asks for it, and what
\* a client that is alone has written or writes says so.  Otherwise the window is managed
\* and the property says so, or will once what is pending is done, or once the window
\* manager has written; and the object of the window manager does too.
Promise(w, v) ==
  /\ Key(w) \in topic
  /\ \A m \in In(queue[wm]) : About(m, w) => Asking(m, w, v)
  /\ \A a \in Agents : \A r \in In(todo[a]) : Obeys(a, r, w, v)
  /\ Alone => /\ ~Pending(w) /\ Shows(client, w, v)
              /\ Settled(w, v) \/ (~managed /\ ToWrite(client, w))
  /\ ~Alone => managed /\ (Settled(w, v) \/ Pending(w) \/ ToWrite(wm, w))
  /\ managed => Shows(wm, w, v) \/ Pending(w) \/ ToRead(wm, w)

\* Whoever has something to read does not write what a wish is about.
Tidy(s) ==
  \A r, x \in In(s) : r.op = "get" => ~(x.op = "set" /\ x.atom \in {"WMState", "WMDesktop"})
MappingOK(p) == p = NoProperty \/ \E n \in {1, 3} : p = Property("WM_STATE", <<n>>)
Proper(a, r) ==
  /\ r.op \in {"setState", "setDesktop"} /\ a = wm => managed
  /\ r.op = "setState" => IF r.own THEN "WMState" \in topic ELSE a = wm /\ r.state \subseteq r.mask
  /\ r.op = "setDesktop" => IF r.own THEN "WMDesktop" \in topic ELSE a = wm
  /\ r.op = "set" /\ r.atom = "XAWMState" =>
       a = wm /\ MappingOK(r.property) /\ (r.property = NoProperty \/ managed)
  /\ r.op = "send" => a = client
Orderly ==
  /\ managed = (wm \in alive) /\ DOMAIN wish = States \cup {"desktop"} /\ topic \subseteq passed[wm]
  /\ MappingOK(property["XAWMState"])
  /\ \A a \in Agents : Tidy(todo[a]) /\ \A r \in In(todo[a]) : Proper(a, r)
  /\ property["XAWMState"] # NoProperty => managed \/ \E r \in In(todo[wm]) : Removes(r)

Wished(w, v) == IF w = "desktop" THEN wish[w] = {v}
                ELSE \/ v = 1 /\ wish[w] = {TRUE}
                     \/ v = 0 /\ wish[w] = {FALSE}
Honoured(w) == \/ wish[w] = Nothing
               \/ w # "Focused" /\ \E v : Wished(w, v) /\ Promise(w, v)
Promises == Orderly /\ \A w \in States \cup {"desktop"} : Honoured(w)

-----------------------------------------------------------------------------
(* a gets another list                                                     *)

LEMMA IdleIs ==
  ASSUME NEW a \in Agents, Idle(todo[a]), NEW w
  PROVE  ~ToWrite(a, w) /\ ~ToRead(a, w)
BY DEF Idle, ToWrite, ToRead, In, SetsKey, IsGet

LEMMA ListOf ==
  ASSUME Understanding, NEW a \in Agents
  PROVE  IsList(todo[a]) /\ IsList(queue[a])
BY DEF Understanding, GoodList, GoodQueue

LEMMA PendingFills ==
  ASSUME NEW a \in Agents, NEW L, \A b \in Agents : todo'[b] = IF b = a THEN L ELSE todo[b],
         NEW w,
         \/ (\E m \in In(queue'[wm]) : About(m, w)) \/ (\E r \in In(L) : Calling(r, w))
         <=>
         \/ (\E m \in In(queue[wm]) : About(m, w)) \/ (\E r \in In(todo[a]) : Calling(r, w))
  PROVE  Pending(w)' <=> Pending(w)
<1>1. \A b \in Agents \ {a} : todo'[b] = todo[b]
  OBVIOUS
<1>2. todo'[a] = L
  OBVIOUS
<1>3. Pending(w) <=>
        \/ (\E m \in In(queue[wm]) : About(m, w)) \/ (\E r \in In(todo[a]) : Calling(r, w))
        \/ \E b \in Agents \ {a} : \E r \in In(todo[b]) : Calling(r, w)
  BY DEF Pending
<1>4. Pending(w)' <=>
        \/ (\E m \in In(queue'[wm]) : About(m, w)) \/ (\E r \in In(L) : Calling(r, w))
        \/ \E b \in Agents \ {a} : \E r \in In(todo'[b]) : Calling(r, w)
  BY <1>2 DEF Pending
<1> QED BY <1>1, <1>3, <1>4

LEMMA PromiseFills ==
  ASSUME Orderly, NEW w, NEW v, Promise(w, v),
         NEW a \in Agents, NEW L, Idle(todo[a]),
         \A b \in Agents : todo'[b] = IF b = a THEN L ELSE todo[b],
         property' = property, topic' = topic, managed' = managed,
         fields'[client]["XAWMState"] = fields[client]["XAWMState"],
         \A m \in In(queue'[wm]) : About(m, w) => Asking(m, w, v),
         \A r \in In(L) : Obeys(a, r, w, v)',
         Pending(w)' => Pending(w),
         Pending(w) => Pending(w)' \/ (a = wm /\ Shows(wm, w, v)' /\ ToWrite(wm, w)'),
         Alone /\ Shows(client, w, v) => Shows(client, w, v)',
         Shows(wm, w, v) => Shows(wm, w, v)'
  PROVE  Promise(w, v)'
<1>1. Alone' <=> Alone
  BY DEF Alone
<1>2. Settled(w, v)' <=> Settled(w, v)
  BY DEF Settled
<1>3. \A b \in Agents \ {a} : /\ ToWrite(b, w)' <=> ToWrite(b, w)
                              /\ ToRead(b, w)' <=> ToRead(b, w)
  BY DEF ToWrite, ToRead
<1>4. ~ToWrite(a, w) /\ ~ToRead(a, w)
  BY IdleIs
<1>5. wm \in Agents /\ client \in Agents /\ wm # client
  BY DEF Agents, wm, client
<1>6. Key(w) \in topic'
  BY DEF Promise
<1>7. ASSUME NEW b \in Agents, NEW r \in In(todo'[b]) PROVE Obeys(b, r, w, v)'
  <2>1. CASE b = a
    BY <1>7, <2>1
  <2>2. CASE b # a
    <3>1. r \in In(todo[b])
      BY <1>7, <2>2
    <3>2. Obeys(b, r, w, v)
      BY <3>1 DEF Promise
    <3>3. b = wm /\ Pending(w) => Pending(w)'
      BY <2>2
    <3> QED BY <3>2, <3>3 DEF Obeys
  <2> QED BY <2>1, <2>2
<1>8. Alone => /\ ~Pending(w)' /\ Shows(client, w, v)'
               /\ Settled(w, v) \/ (~managed /\ ToWrite(client, w)')
  <2>1. SUFFICES ASSUME Alone
                 PROVE  /\ ~Pending(w)' /\ Shows(client, w, v)'
                        /\ Settled(w, v) \/ (~managed /\ ToWrite(client, w)')
    OBVIOUS
  <2>2. /\ ~Pending(w) /\ Shows(client, w, v)
        /\ Settled(w, v) \/ (~managed /\ ToWrite(client, w))
    BY <2>1 DEF Promise
  <2> QED BY <1>3, <1>4, <1>5, <2>1, <2>2
<1>9. ~Alone => managed /\ (Settled(w, v) \/ Pending(w)' \/ ToWrite(wm, w)')
  <2>1. SUFFICES ASSUME ~Alone
                 PROVE  managed /\ (Settled(w, v) \/ Pending(w)' \/ ToWrite(wm, w)')
    OBVIOUS
  <2>2. managed /\ (Settled(w, v) \/ Pending(w) \/ ToWrite(wm, w))
    BY <2>1 DEF Promise
  <2> QED BY <1>3, <1>4, <1>5, <2>2
<1>10. managed => Shows(wm, w, v)' \/ Pending(w)' \/ ToRead(wm, w)'
  <2>1. managed => Shows(wm, w, v) \/ Pending(w) \/ ToRead(wm, w)
    BY DEF Promise
  <2> QED BY <1>3, <1>4, <1>5, <2>1
<1> QED BY <1>1, <1>2, <1>6, <1>7, <1>8, <1>9, <1>10 DEF Promise

LEMMA OrderlyFills ==
  ASSUME Orderly, NEW a \in Agents, NEW L, Idle(todo[a]),
         \A b \in Agents : todo'[b] = IF b = a THEN L ELSE todo[b],
         property' = property, topic' = topic, passed' = passed,
         managed' = (wm \in alive'), managed => managed', DOMAIN wish' = DOMAIN wish,
         Tidy(L), \A r \in In(L) : Proper(a, r)'
  PROVE  Orderly'
<1>1. ASSUME NEW b \in Agents PROVE Tidy(todo'[b]) /\ \A r \in In(todo'[b]) : Proper(b, r)'
  <2>1. CASE b = a
    BY <2>1
  <2>2. CASE b # a
    <3>1. todo'[b] = todo[b] /\ Tidy(todo[b]) /\ \A r \in In(todo[b]) : Proper(b, r)
      BY <2>2 DEF Orderly
    <3> QED BY <3>1 DEF Proper
  <2> QED BY <2>1, <2>2
<1>2. ASSUME property["XAWMState"] # NoProperty
      PROVE  managed' \/ \E r \in In(todo'[wm]) : Removes(r)
  <2>1. managed \/ \E r \in In(todo[wm]) : Removes(r)
    BY <1>2 DEF Orderly
  <2>2. a = wm => ~\E r \in In(todo[wm]) : Removes(r)
    BY DEF Idle, In, Removes
  <2> QED BY <2>1, <2>2 DEF Agents
<1>3. /\ DOMAIN wish' = States \cup {"desktop"} /\ topic' \subseteq passed'[wm]
      /\ MappingOK(property'["XAWMState"])
  BY DEF Orderly
<1> QED BY <1>1, <1>2, <1>3 DEF Orderly

-----------------------------------------------------------------------------
(* Functions that no wish is about                                         *)

Three == {"XAWMState", "WMState", "WMDesktop"}
Quiet(a, r) ==
  \/ r.op = "get"
  \/ r.op = "set" /\ r.atom \notin Three
  \/ r.op = "send" /\ a = client /\ r.message.type \notin {"STATE", "DESKTOP"}
  \/ r.op = "setState" /\ r.own /\ "WMState" \in topic /\ (a = wm => managed)
  \/ r.op = "setDesktop" /\ r.own /\ "WMDesktop" \in topic /\ (a = wm => managed)

LEMMA KeyIs == ASSUME NEW w PROVE Key(w) \in {"WMState", "WMDesktop"}
BY DEF Key

LEMMA AboutIs == ASSUME NEW m, NEW w, About(m, w) PROVE m.type \in {"STATE", "DESKTOP"}
BY DEF About

LEMMA QuietObeys ==
  ASSUME NEW a, NEW r, Quiet(a, r), NEW w, NEW v
  PROVE  Obeys(a, r, w, v)' /\ ~Calling(r, w)
<1>1. ~SendsAbout(r, w) /\ ~Decides(r, w)
  BY AboutIs DEF Quiet, SendsAbout, Decides
<1>2. ~SetsKey(r, w) /\ ~Removes(r)
  BY KeyIs DEF Quiet, SetsKey, Removes, Three
<1> QED BY <1>1, <1>2 DEF Obeys, Calling

LEMMA QuietKeeps ==
  ASSUME Promises, NEW a \in Agents, todo[a] = <<>>, NEW L, \A r \in In(L) : Quiet(a, r),
         \A b \in Agents : todo'[b] = IF b = a THEN L ELSE todo[b],
         property' = property, topic' = topic, passed' = passed, managed' = managed,
         wm \in alive' <=> wm \in alive, wish' = wish,
         \A b \in Agents, flag \in Three : fields'[b][flag] = fields[b][flag],
         \A m : m.type \in {"STATE", "DESKTOP"} => (m \in In(queue'[wm]) <=> m \in In(queue[wm]))
  PROVE  Promises'
<1>1. Idle(todo[a]) /\ Idle(<<>>) /\ In(<<>>) = {}
  <2>1. 1..Len(<<>>) = {}
    OBVIOUS
  <2> QED BY <2>1, NothingIdle DEF In
<1>2. Orderly'
  <2>1. Tidy(L)
    BY DEF Tidy, Quiet, Three
  <2>2. \A r \in In(L) : Proper(a, r)'
    BY DEF Quiet, Proper, Three
  <2> QED BY <1>1, <2>1, <2>2, OrderlyFills DEF Promises, Orderly
<1>3. ASSUME NEW w \in States \cup {"desktop"} PROVE Honoured(w)'
  <2>1. CASE wish[w] = Nothing
    BY <2>1 DEF Honoured
  <2>2. CASE wish[w] # Nothing
    <3>1. PICK v : w # "Focused" /\ Wished(w, v) /\ Promise(w, v)
      BY <2>2 DEF Promises, Honoured
    <3>2. \A m : About(m, w) => (m \in In(queue'[wm]) <=> m \in In(queue[wm]))
      BY AboutIs
    <3>3. /\ \A m \in In(queue'[wm]) : About(m, w) => Asking(m, w, v)
          /\ (\E m \in In(queue'[wm]) : About(m, w)) <=> (\E m \in In(queue[wm]) : About(m, w))
      BY <3>1, <3>2 DEF Promise
    <3>4. \A r \in In(L) : Obeys(a, r, w, v)' /\ ~Calling(r, w)
      BY QuietObeys
    <3>5. Pending(w)' <=> Pending(w)
      BY <1>1, <3>3, <3>4, PendingFills
    <3>6. \A b \in Agents : Shows(b, w, v)' <=> Shows(b, w, v)
      BY KeyIs DEF Shows, Three
    <3>7. wm \in Agents /\ client \in Agents
      BY DEF Agents
    <3>8. fields'[client]["XAWMState"] = fields[client]["XAWMState"]
      BY <3>7 DEF Three
    <3>9. Promise(w, v)'
      BY <1>1, <3>1, <3>3, <3>4, <3>5, <3>6, <3>7, <3>8, PromiseFills DEF Promises
    <3> QED BY <3>1, <3>9 DEF Honoured, Wished
  <2> QED BY <2>1, <2>2
<1> QED BY <1>2, <1>3 DEF Promises

LEMMA QuietCall ==
  ASSUME Understanding, Promises, NEW a \in Agents, NEW flag, Calls(a, flag), NEW L,
         \A r \in In(L) : Quiet(a, r), todo' = [todo EXCEPT ![a] = L],
         fields' = fields \/ \E f, v : f \notin Three /\ fields' = [fields EXCEPT ![a][f] = v]
  PROVE  Promises'
<1>1. /\ todo[a] = <<>> /\ property' = property /\ queue' = queue /\ alive' = alive
      /\ managed' = managed /\ topic' = topic /\ passed' = passed /\ wish' = wish
  BY DEF Calls
<1>2. \A b \in Agents : todo'[b] = IF b = a THEN L ELSE todo[b]
  BY DEF Understanding
<1>3. \A b \in Agents, x \in Three : fields'[b][x] = fields[b][x]
  <2>1. SUFFICES ASSUME NEW f, NEW v, f \notin Three, fields' = [fields EXCEPT ![a][f] = v]
                 PROVE  \A b \in Agents, x \in Three : fields'[b][x] = fields[b][x]
    OBVIOUS
  <2>2. /\ fields'[a] = [fields[a] EXCEPT ![f] = v]
        /\ \A b \in Agents \ {a} : fields'[b] = fields[b]
    BY <2>1 DEF Understanding
  <2>3. \A x \in Three : fields'[a][x] = fields[a][x]
    <3>1. Three \subseteq DOMAIN fields[a]
      BY UsedFlags DEF Understanding, GoodFields, Three, Used, AllFlags
    <3> QED BY <2>1, <2>2, <3>1
  <2> QED BY <2>2, <2>3
<1> QED BY <1>1, <1>2, <1>3, QuietKeeps

LEMMA QuietSets ==
  ASSUME Understanding, Promises, NEW a \in Agents, NEW flag, NEW field, NEW L,
         Sets(a, flag, field, L), flag \notin Three,
         \A r \in In(L) : r.op = "set" /\ r.atom \notin Three
  PROVE  Promises'
<1>1. /\ Calls(a, flag) /\ todo' = [todo EXCEPT ![a] = L]
      /\ fields' = [fields EXCEPT ![a][flag] = field]
  BY DEF Sets
<1>2. \A r \in In(L) : Quiet(a, r)
  BY DEF Quiet
<1> QED BY <1>1, <1>2, QuietCall

LEMMA QuietSet ==
  ASSUME Understanding, Promises, NEW a \in Agents, NEW flag, NEW field, NEW r,
         Sets(a, flag, field, <<r>>), flag \notin Three, r.op = "set", r.atom = flag
  PROVE  Promises'
<1>1. \A x \in In(<<r>>) : x.op = "set" /\ x.atom \notin Three
  BY InOne
<1> QED BY <1>1, QuietSets

LEMMA QuietPair ==
  ASSUME Understanding, Promises, NEW a \in Agents, NEW flag, NEW field, NEW x, NEW y,
         Sets(a, flag, field, <<x, y>>), flag \notin Three,
         x.op = "set", x.atom \notin Three, y.op = "set", y.atom \notin Three
  PROVE  Promises'
<1>1. PICK L : L = <<x, y>>
  OBVIOUS
<1>2. \A i \in 1..Len(L) : L[i] = x \/ L[i] = y
  BY <1>1, ShortLists
<1>3. \A r \in In(L) : r.op = "set" /\ r.atom \notin Three
  BY <1>2 DEF In
<1> QED BY <1>1, <1>3, QuietSets

LEMMA BeforehandQuiet ==
  ASSUME NEW a, NEW flag, NEW r, Quiet(a, r)
  PROVE  \A x \in In(Beforehand(a, flag) \o <<r>>) : Quiet(a, x)
<1>1. PICK b : b = Beforehand(a, flag)
  OBVIOUS
<1>2. IsList(b) /\ \A x \in In(b) : x.op = "get"
  BY <1>1, BeforehandIs DEF In
<1>3. IsList(<<r>>) /\ In(<<r>>) = {r}
  BY ShortLists, InOne
<1>4. In(b \o <<r>>) = In(b) \cup {r}
  BY <1>2, <1>3, InBoth
<1>5. \A x \in In(b \o <<r>>) : Quiet(a, x)
  BY <1>2, <1>4 DEF Quiet
<1> QED BY <1>1, <1>5

LEMMA SettersPromise ==
  ASSUME Understanding, Promises, Setters
  PROVE  Promises'
<1> USE DEF Three
<1>0. client \in Agents /\ wm \in Agents /\ client # wm
  BY DEF Agents, client, wm
<1>1. ASSUME NEW a \in Agents, NEW text \in TextValues,
             NEW flag \in {"WMName", "WMVisibleName", "WMIconName", "WMVisibleIconName"},
             SetName(a, flag, text)
      PROVE  Promises'
  <2>1. PICK r : r = IF text = NoText THEN Delete(flag, text) ELSE Set(flag, "UTF8", text, text)
    OBVIOUS
  <2>2. r.op = "set" /\ r.atom = flag
    BY <2>1, RequestsHave
  <2>3. Sets(a, flag, text, <<r>>)
    BY <1>1, <2>1 DEF SetName
  <2> QED BY <2>2, <2>3, QuietSet
<1>2. ASSUME NEW a \in Agents, NEW text, SetActivities(a, text) PROVE Promises'
  <2>1. PICK all : all = IF text = NoText THEN AllActivities ELSE text
    OBVIOUS
  <2>2. Sets(a, "WM2Activities", all, <<Set("WM2Activities", "STRING", all, all)>>)
    BY <1>2, <2>1 DEF SetActivities
  <2> QED BY <2>2, RequestsHave, QuietSet
<1>3. ASSUME NEW a \in Agents, NEW strut, NEW flag, flag \notin Three, SetStrut(a, flag, strut)
      PROVE  Promises'
  <2>1. Sets(a, flag, strut, <<Set(flag, "CARDINAL", Unsigneds(strut), strut)>>)
    BY <1>3 DEF SetStrut
  <2> QED BY <1>3, <2>1, RequestsHave, QuietSet
<1>4. ASSUME NEW a \in Agents, NEW strut,
             \/ SetStrut(a, "WM2GTKFrameExtents", strut) \/ SetFrameOverlap(a, strut)
      PROVE  Promises'
  <2>1. "WM2GTKFrameExtents" \notin Three /\ "WM2FrameOverlap" \notin Three
    OBVIOUS
  <2> HIDE DEF Three
  <2> QED BY <1>3, <1>4, <2>1 DEF SetFrameOverlap
<1>5. ASSUME NEW a \in Agents, NEW strut, SetFullscreenMonitors(a, strut) PROVE Promises'
  <2>1. CASE a = wm
    <3>1. SetStrut(wm, "WM2FullscreenMonitors", strut) /\ "WM2FullscreenMonitors" \notin Three
      BY <1>5, <2>1 DEF SetFullscreenMonitors
    <3> HIDE DEF Three
    <3> QED BY <1>0, <1>3, <3>1
  <2>2. CASE a # wm
    <3>1. PICK r : r = Send("FULLSCREEN_MONITORS", Unsigneds(strut))
      OBVIOUS
    <3>2. /\ Calls(client, "WM2FullscreenMonitors")
          /\ todo' = [todo EXCEPT ![client] = <<r>>] /\ fields' = fields
      BY <1>5, <2>2, <3>1 DEF SetFullscreenMonitors
    <3>3. Quiet(client, r)
      BY <3>1, RequestsHave DEF Quiet
    <3>4. \A x \in In(<<r>>) : Quiet(client, x)
      BY <3>3, InOne
    <3> QED BY <1>0, <3>2, <3>4, QuietCall
  <2> QED BY <2>1, <2>2
<1>6. ASSUME NEW a \in Agents, NEW n, NEW flag \in {"WMPid", "WM2Opacity", "WM2UserTime"},
             SetNumber(a, flag, n)
      PROVE  Promises'
  <2>1. Sets(a, flag, n, <<Set(flag, "CARDINAL", <<n>>, n)>>)
    BY <1>6 DEF SetNumber
  <2> QED BY <2>1, RequestsHave, QuietSet
<1>7. ASSUME NEW a \in Agents, NEW state, NEW mask, SetState(a, state, mask) PROVE Promises'
  <2>1. PICK r : r = [op |-> "setState", state |-> state, mask |-> mask, own |-> TRUE]
    OBVIOUS
  <2>2. /\ Calls(a, "WMState") /\ fields' = fields
        /\ todo' = [todo EXCEPT ![a] = Beforehand(a, "WMState") \o <<r>>]
    BY <1>7, <2>1 DEF SetState
  <2>3. Quiet(a, r)
    <3>1. a \in alive /\ managed = (wm \in alive)
      BY <1>0, <2>2 DEF Calls, Promises, Orderly
    <3> QED BY <2>1, <2>2, <3>1 DEF Quiet, Calls
  <2> QED BY <2>2, <2>3, BeforehandQuiet, QuietCall
<1>8. ASSUME NEW a \in Agents, NEW desktop, SetDesktop(a, desktop) PROVE Promises'
  <2>1. PICK r : r = [op |-> "setDesktop", desktop |-> desktop, own |-> TRUE]
    OBVIOUS
  <2>2. /\ Calls(a, "WMDesktop") /\ fields' = fields
        /\ todo' = [todo EXCEPT ![a] = Beforehand(a, "WMDesktop") \o <<r>>]
    BY <1>8, <2>1 DEF SetDesktop
  <2>3. Quiet(a, r)
    <3>1. a \in alive /\ managed = (wm \in alive)
      BY <1>0, <2>2 DEF Calls, Promises, Orderly
    <3> QED BY <2>1, <2>2, <3>1 DEF Quiet, Calls
  <2> QED BY <2>2, <2>3, BeforehandQuiet, QuietCall
<1>9. ASSUME NEW text, NEW flag \in {"WM2StartupId", "WM2DesktopFileName",
                                     "WM2AppMenuObjectPath", "WM2AppMenuServiceName"},
             SetText(flag, text)
      PROVE  Promises'
  <2>1. Sets(client, flag, text, <<Set(flag, TextType(flag), text, text)>>)
    BY <1>9 DEF SetText
  <2> QED BY <1>0, <2>1, RequestsHave, QuietSet
<1>10. ASSUME NEW strut,
              SetStrut(client, "WMStrut", strut) \/ SetStrut(client, "WM2ExtendedStrut", strut)
       PROVE  Promises'
  <2>1. "WMStrut" \notin Three /\ "WM2ExtendedStrut" \notin Three
    OBVIOUS
  <2> HIDE DEF Three
  <2> QED BY <1>0, <1>3, <1>10, <2>1
<1>11. ASSUME NEW strut, SetFrameExtents(strut) PROVE Promises'
  <2>1. PICK x, y : /\ x = Set("WMFrameExtents", "CARDINAL", Unsigneds(strut), strut)
                    /\ y = Set("_KDE_NET_WM_FRAME_STRUT", "CARDINAL", Unsigneds(strut), strut)
    OBVIOUS
  <2>2. x.op = "set" /\ x.atom \notin Three /\ y.op = "set" /\ y.atom \notin Three
    BY <2>1, RequestsHave
  <2>3. Sets(wm, "WMFrameExtents", strut, <<x, y>>)
    BY <1>11, <2>1 DEF SetFrameExtents
  <2> QED BY <1>0, <2>2, <2>3, QuietPair
<1>12. ASSUME NEW rect, SetIconGeometry(rect) PROVE Promises'
  <2>1. PICK r : r = IF rect[3] = 0 THEN Delete("WMIconGeometry", rect)
                     ELSE Set("WMIconGeometry", "CARDINAL", Unsigneds(rect), rect)
    OBVIOUS
  <2>2. r.op = "set" /\ r.atom = "WMIconGeometry"
    BY <2>1, RequestsHave
  <2>3. Sets(client, "WMIconGeometry", rect, <<r>>)
    BY <1>12, <2>1 DEF SetIconGeometry
  <2> QED BY <1>0, <2>2, <2>3, QuietSet
<1>13. ASSUME NEW icon, NEW replace, SetIcon(icon, replace) PROVE Promises'
  <2>1. PICK old : old = fields[client]["WMIcon"]
    OBVIOUS
  <2>2. PICK new : new = AddIcon(old, icon, replace)
    OBVIOUS
  <2>3. PICK data, value :
          /\ data = IconData(new)
          /\ value = Append(IF replace THEN <<>> ELSE SubSeq(old.icons, 1, old.count), icon)
    OBVIOUS
  <2>4. Sets(client, "WMIcon", new, <<Set("WMIcon", "CARDINAL", data, value)>>)
    BY <1>13, <2>1, <2>2, <2>3 DEF SetIcon
  <2> QED BY <1>0, <2>4, RequestsHave, QuietSet
<1>14. ASSUME NEW type, SetWindowType(type) PROVE Promises'
  <2>1. PICK old : old = fields[client]["WMWindowType"]
    OBVIOUS
  <2>2. Sets(client, "WMWindowType", old, <<Set("WMWindowType", "ATOM", TypeNames[type], type)>>)
    BY <1>14, <2>1 DEF SetWindowType
  <2> QED BY <1>0, <2>2, RequestsHave, QuietSet
<1>15. ASSUME NEW actions, SetAllowedActions(actions) PROVE Promises'
  <2>1. Sets(wm, "WM2AllowedActions", actions,
             <<Set("WM2AllowedActions", "ATOM", AtomsOf(ActionAtoms, actions), actions)>>)
    BY <1>15 DEF SetAllowedActions
  <2> QED BY <1>0, <2>1, RequestsHave, QuietSet
<1>16. ASSUME NEW on, SetBlockingCompositing(on) PROVE Promises'
  <2>1. PICK L : L = [i \in 1..2 |->
          LET atom == <<"WM2BlockCompositing", "WM_BYPASS_COMPOSITOR">>[i]
          IN  IF on THEN Set(atom, "CARDINAL", << 1 >>, on) ELSE Delete(atom, on)]
    OBVIOUS
  <2>2. Sets(client, "WM2BlockCompositing", on, L)
    BY <1>16, <2>1 DEF SetBlockingCompositing
  <2>3. \A i \in 1..2 : L[i].op = "set" /\ L[i].atom \notin Three
    <3>1. \A i \in 1..2 : \E atom \in {"WM2BlockCompositing", "WM_BYPASS_COMPOSITOR"} :
            L[i] \in {Set(atom, "CARDINAL", << 1 >>, on), Delete(atom, on)}
      BY <2>1
    <3> QED BY <3>1, RequestsHave
  <2>4. Len(L) = 2
    BY <2>1
  <2>5. \A r \in In(L) : r.op = "set" /\ r.atom \notin Three
    BY <2>3, <2>4 DEF In
  <2> QED BY <1>0, <2>2, <2>5, QuietSets
<1>17. ASSUME NEW on, SetHandledIcons(on) PROVE Promises'
  <2>1. PICK data : data = <<IF on THEN 1 ELSE 0>>
    OBVIOUS
  <2>2. Sets(client, "WMHandledIcons", on, <<Set("WMHandledIcons", "CARDINAL", data, on)>>)
    BY <1>17, <2>1 DEF SetHandledIcons
  <2> QED BY <1>0, <2>2, RequestsHave, QuietSet
<1>18. ASSUME NEW v \in ApplicationValues, ApplicationSets(v.flag, v.property) PROVE Promises'
  <2>1. PICK r : r = [op |-> "set", atom |-> v.flag, property |-> v.property,
                      value |-> Read(v.flag, NewFields[v.flag], v.property)]
    OBVIOUS
  <2>2. /\ Calls(client, v.flag) /\ todo' = [todo EXCEPT ![client] = <<r>>] /\ fields' = fields
    BY <1>18, <2>1 DEF ApplicationSets
  <2>3. v.flag \notin Three
    BY NETWinInfoAssumption DEF WithoutSetter
  <2>4. Quiet(client, r)
    BY <2>1, <2>3 DEF Quiet
  <2>5. \A x \in In(<<r>>) : Quiet(client, x)
    BY <2>4, InOne
  <2> QED BY <1>0, <2>2, <2>5, QuietCall
<1> HIDE DEF Three
<1>19. CASE \E a \in Agents :
              \/ \E text \in TextValues :
                   \/ \E flag \in {"WMName", "WMVisibleName", "WMIconName", "WMVisibleIconName"} :
                        SetName(a, flag, text)
                   \/ SetActivities(a, text)
              \/ \E strut \in FourValues :
                   \/ SetStrut(a, "WM2GTKFrameExtents", strut) \/ SetFrameOverlap(a, strut)
                   \/ SetFullscreenMonitors(a, strut)
              \/ \E n \in {0, Word - 2}, flag \in {"WMPid", "WM2Opacity", "WM2UserTime"} :
                   SetNumber(a, flag, n)
              \/ \E call \in StateCalls : SetState(a, call.state, call.mask)
              \/ \E desktop \in Desktops : SetDesktop(a, desktop)
  BY <1>1, <1>2, <1>4, <1>5, <1>6, <1>7, <1>8, <1>19
<1>20. CASE \E text \in TextValues \ {NoText},
               flag \in {"WM2StartupId", "WM2DesktopFileName", "WM2AppMenuObjectPath",
                         "WM2AppMenuServiceName"} : SetText(flag, text)
  BY <1>9, <1>20
<1>21. CASE \E strut \in FourValues :
              \/ SetStrut(client, "WMStrut", strut) \/ SetFrameExtents(strut)
              \/ SetIconGeometry(strut)
              \/ SetStrut(client, "WM2ExtendedStrut", strut \o strut \o strut)
  BY <1>10, <1>11, <1>12, <1>21
<1>22. CASE \/ \E icon \in IconValues, replace \in BOOLEAN : SetIcon(icon, replace)
            \/ \E type \in WindowTypes : SetWindowType(type)
            \/ \E action \in {"ActionMove", "ActionClose"} : SetAllowedActions({action})
            \/ \E on \in BOOLEAN : SetBlockingCompositing(on) \/ SetHandledIcons(on)
            \/ \E v \in ApplicationValues : ApplicationSets(v.flag, v.property)
  BY <1>13, <1>14, <1>15, <1>16, <1>17, <1>18, <1>22
<1> QED BY <1>19, <1>20, <1>21, <1>22 DEF Setters

-----------------------------------------------------------------------------
(* Requests that a wish depends on                                         *)

LEMMA ThreeAre ==
  /\ Three \subseteq Atoms /\ Three \subseteq Flags /\ Three \subseteq Known
  /\ \A flag \in Three : flag \notin Paired /\ FlagOf(flag) = flag
  /\ \A flag \in Three : \A f, g, p : Read(flag, f, p) = Read(flag, g, p)
<1>1. Three \subseteq Flags /\ Three \subseteq Atoms
  BY UsedFlags, KnownAtoms DEF Three, Used, AllFlags
<1>2. Three \subseteq ToSet(Order)
  <2>1. Order[1] = "XAWMState" /\ Order[2] = "WMState" /\ Order[3] = "WMDesktop"
    BY DEF Order
  <2>2. 1 \in 1..36 /\ 2 \in 1..36 /\ 3 \in 1..36
    OBVIOUS
  <2>3. \A i \in 1..36 : Order[i] \in ToSet(Order)
    BY OrderedAtoms DEF ToSet
  <2> QED BY <2>1, <2>2, <2>3 DEF Three
<1>3. Three \subseteq Known
  BY <1>1, <1>2 DEF Known, Three
<1>4. \A flag \in Three : flag \notin Paired
  BY DEF Three, Paired
<1>5. \A flag \in Three : FlagOf(flag) = flag
  BY <1>1, FlagOfFlag
<1>6. \A flag \in Three : \A f, g, p : Read(flag, f, p) = Read(flag, g, p)
  BY ReadOf DEF Three
<1> QED BY <1>1, <1>3, <1>4, <1>5, <1>6

LEMMA ThreeSay ==
  ASSUME NEW flag \in Three, NEW p, NEW value, Says(flag, p, value)
  PROVE  \A f : Read(flag, f, p) = value
<1>1. flag \notin Paired /\ flag \notin {"WMIcon", "WMWindowType"}
  BY ThreeAre DEF Three
<1> QED BY <1>1, ShownIs DEF Says, ReadAll

LEMMA HonouredKept ==
  ASSUME Promises, Orderly', wish' = wish,
         \A w \in States \cup {"desktop"} : \A v : Wished(w, v) /\ Promise(w, v) => Promise(w, v)'
  PROVE  Promises'
<1>1. ASSUME NEW w \in States \cup {"desktop"} PROVE Honoured(w)'
  <2>1. CASE wish[w] = Nothing
    BY <2>1 DEF Honoured
  <2>2. CASE wish[w] # Nothing
    <3>1. PICK v : w # "Focused" /\ Wished(w, v) /\ Promise(w, v)
      BY <2>2 DEF Promises, Honoured
    <3> QED BY <3>1 DEF Honoured, Wished
  <2> QED BY <2>1, <2>2
<1> QED BY <1>1 DEF Promises

LEMMA RequestTaken ==
  ASSUME Understanding, NEW a \in Agents, todo[a] # <<>>, Done(a)
  PROVE  /\ \A b \in Agents : todo'[b] = IF b = a THEN Tail(todo[a]) ELSE todo[b]
         /\ In(todo[a]) = {Head(todo[a])} \cup In(Tail(todo[a]))
         /\ \A b \in Agents : In(todo'[b]) \subseteq In(todo[b])
         /\ \A b \in Agents : In(todo[b]) \subseteq In(todo'[b]) \cup {Head(todo[a])}
         /\ \A b \in Agents \ {a} : In(todo'[b]) = In(todo[b])
         /\ Head(todo[a]) \in In(todo[a])
<1>1. \A b \in Agents : todo'[b] = IF b = a THEN Tail(todo[a]) ELSE todo[b]
  BY DEF Done, Understanding
<1>2. In(todo[a]) = {Head(todo[a])} \cup In(Tail(todo[a]))
  BY ListOf, InOf
<1> QED BY <1>1, <1>2

LEMMA RequestPending ==
  ASSUME Understanding, NEW a \in Agents, todo[a] # <<>>, Done(a), NEW w,
         ~Calling(Head(todo[a]), w),
         (\E m \in In(queue'[wm]) : About(m, w)) <=> (\E m \in In(queue[wm]) : About(m, w))
  PROVE  Pending(w)' <=> Pending(w)
<1>1. PICK L : L = Tail(todo[a])
  OBVIOUS
<1>2. /\ \A b \in Agents : todo'[b] = IF b = a THEN L ELSE todo[b]
      /\ In(todo[a]) = {Head(todo[a])} \cup In(L)
  BY <1>1, RequestTaken
<1>3. (\E r \in In(L) : Calling(r, w)) <=> (\E r \in In(todo[a]) : Calling(r, w))
  BY <1>2
<1> QED BY <1>2, <1>3, PendingFills

\* A request that does not touch what is managed, or the mapping state
LEMMA OrderlyTakes ==
  ASSUME Understanding, Orderly, NEW a \in Agents, todo[a] # <<>>, Done(a),
         topic' = topic, passed' = passed, managed' = managed, alive' = alive, wish' = wish,
         MappingOK(property'["XAWMState"]),
         property'["XAWMState"] # NoProperty =>
           managed \/ (property["XAWMState"] # NoProperty /\ ~Removes(Head(todo[a])))
  PROVE  Orderly'
<1>1. /\ \A b \in Agents : In(todo'[b]) \subseteq In(todo[b])
      /\ \A b \in Agents : In(todo[b]) \subseteq In(todo'[b]) \cup {Head(todo[a])}
  BY RequestTaken
<1>2. ASSUME NEW b \in Agents PROVE Tidy(todo'[b]) /\ \A r \in In(todo'[b]) : Proper(b, r)'
  <2>1. Tidy(todo[b]) /\ \A r \in In(todo[b]) : Proper(b, r)
    BY DEF Orderly
  <2>2. Tidy(todo'[b])
    BY <1>1, <2>1 DEF Tidy
  <2> QED BY <1>1, <2>1, <2>2 DEF Proper
<1>3. property'["XAWMState"] # NoProperty => managed \/ \E r \in In(todo'[wm]) : Removes(r)
  <2>1. wm \in Agents
    BY DEF Agents
  <2> QED BY <1>1, <2>1 DEF Orderly
<1> QED BY <1>2, <1>3 DEF Orderly

LEMMA SetPromise ==
  ASSUME Understanding, Promises, NEW a \in Agents, RequestSet(a)
  PROVE  Promises'
<1>1. PICK r : r = Head(todo[a])
  OBVIOUS
<1>2. /\ todo[a] # <<>> /\ r.op = "set" /\ Done(a) /\ fields' = fields /\ alive' = alive
      /\ managed' = managed /\ topic' = topic /\ passed' = passed /\ wish' = wish
  BY <1>1 DEF RequestSet, Works
<1>3. r \in In(todo[a]) /\ IsList(queue[wm]) /\ wm \in Agents /\ client \in Agents /\ wm # client
  BY <1>1, <1>2, RequestTaken, ListOf DEF Agents, wm, client
<1>4. RightSet(a, r)
  BY <1>1, <1>2, GoodListTail DEF Understanding, GoodRequest
<1>5. \A atom \in Atoms : property'[atom] = IF atom = r.atom THEN r.property ELSE property[atom]
  BY <1>1 DEF RequestSet, Understanding
<1>6. \A m : m.type \in {"STATE", "DESKTOP"} => (m \in In(queue'[wm]) <=> m \in In(queue[wm]))
  <2>1. PICK m : m = [type |-> "PROPERTY", data |-> r.atom]
    OBVIOUS
  <2>2. queue'[wm] = Append(queue[wm], m) \/ queue'[wm] = queue[wm]
    BY <1>1, <1>3, <2>1 DEF RequestSet
  <2>3. In(queue'[wm]) = In(queue[wm]) \cup {m} \/ In(queue'[wm]) = In(queue[wm])
    BY <1>3, <2>2, InOf
  <2> QED BY <2>1, <2>3
<1>7. Proper(a, r)
  BY <1>3 DEF Promises, Orderly
<1>8. "XAWMState" \in Atoms /\ r.atom \in Atoms /\ Three \subseteq Atoms
  BY <1>4, ThreeAre DEF RightSet, Three
<1>9. Orderly'
  <2>1. CASE r.atom = "XAWMState"
    <3>1. property'["XAWMState"] = r.property
      BY <1>5, <1>8, <2>1
    <3>2. MappingOK(r.property) /\ (r.property = NoProperty \/ managed)
      BY <1>2, <1>7, <2>1 DEF Proper
    <3> QED BY <1>1, <1>2, <3>1, <3>2, OrderlyTakes DEF Promises
  <2>2. CASE r.atom # "XAWMState"
    <3>1. property'["XAWMState"] = property["XAWMState"]
      BY <1>5, <1>8, <2>2
    <3>2. ~Removes(r) /\ MappingOK(property["XAWMState"])
      BY <2>2 DEF Removes, Promises, Orderly
    <3> QED BY <1>1, <1>2, <3>1, <3>2, OrderlyTakes DEF Promises
  <2> QED BY <2>1, <2>2
<1>10. ASSUME NEW w \in States \cup {"desktop"}, NEW v, Promise(w, v) PROVE Promise(w, v)'
  <2>1. /\ \A m \in In(queue'[wm]) : About(m, w) => Asking(m, w, v)
        /\ (\E m \in In(queue'[wm]) : About(m, w)) <=> (\E m \in In(queue[wm]) : About(m, w))
    BY <1>6, <1>10, AboutIs DEF Promise
  <2>2. Pending(w)' <=> Pending(w)
    <3>1. ~Calling(r, w)
      BY <1>2 DEF Calling, Decides, SendsAbout
    <3> QED BY <1>1, <1>2, <2>1, <3>1, RequestPending
  <2>3. \A b \in Agents : /\ Shows(b, w, v)' <=> Shows(b, w, v)
                          /\ ToRead(b, w)' <=> ToRead(b, w)
    <3>1. \A b \in Agents : Shows(b, w, v)' <=> Shows(b, w, v)
      BY <1>2 DEF Shows
    <3>2. ~IsGet(r, Key(w))
      BY <1>2 DEF IsGet
    <3>3. \A b \in Agents : ToRead(b, w)' <=> ToRead(b, w)
      BY <1>1, <1>2, <3>2, RequestTaken DEF ToRead
    <3> QED BY <3>1, <3>3
  <2>4. \A b \in Agents : \A x \in In(todo'[b]) : Obeys(b, x, w, v)'
    <3>1. \A b \in Agents : \A x \in In(todo'[b]) : Obeys(b, x, w, v)
      BY <1>1, <1>2, <1>10, RequestTaken DEF Promise
    <3> QED BY <2>2, <3>1 DEF Obeys
  <2>5. Key(w) \in topic'
    BY <1>2, <1>10 DEF Promise
  <2>6. Obeys(a, r, w, v)
    BY <1>3, <1>10 DEF Promise
  <2>7. Key(w) \in Three /\ Key(w) # "XAWMState" /\ Key(w) \in Atoms
    BY <1>8, KeyIs DEF Three
  <2>8. CASE r.atom = Key(w)
    <3>1. Alone' <=> Alone
      BY <1>2, <1>5, <1>8, <2>7, <2>8 DEF Alone
    <3>2. ValueOf(w, r.value) = v \/ Pending(w)
      BY <1>2, <2>6, <2>8 DEF Obeys, SetsKey
    <3>3. ValueOf(w, r.value) = v => Settled(w, v)'
      <4>1. Says(Key(w), r.property, r.value)
        BY <1>4, <2>7, <2>8, ThreeAre DEF RightSet, Others
      <4>2. Read(Key(w), 0, property'[Key(w)]) = r.value
        BY <1>5, <2>7, <2>8, <4>1, ThreeSay
      <4> QED BY <4>2 DEF Settled
    <3>4. Alone => /\ ~Pending(w) /\ Shows(client, w, v)
      BY <1>10 DEF Promise
    <3>5. ~Alone => managed
      BY <1>10 DEF Promise
    <3>6. managed => Shows(wm, w, v) \/ Pending(w) \/ ToRead(wm, w)
      BY <1>10 DEF Promise
    <3> QED BY <1>2, <1>3, <2>1, <2>2, <2>3, <2>4, <2>5, <3>1, <3>2, <3>3, <3>4, <3>5, <3>6
        DEF Promise
  <2>9. CASE r.atom # Key(w)
    <3>1. Settled(w, v)' <=> Settled(w, v)
      BY <1>5, <2>7, <2>9 DEF Settled
    <3>2. \A b \in Agents : ToWrite(b, w)' <=> ToWrite(b, w)
      <4>1. ~SetsKey(r, w)
        BY <2>9 DEF SetsKey
      <4> QED BY <1>1, <1>2, <4>1, RequestTaken DEF ToWrite
    <3>3. managed => Shows(wm, w, v) \/ Pending(w) \/ ToRead(wm, w)
      BY <1>10 DEF Promise
    <3>4. Alone => /\ ~Pending(w) /\ Shows(client, w, v)
                   /\ Settled(w, v) \/ (~managed /\ ToWrite(client, w))
      BY <1>10 DEF Promise
    <3>5. ~Alone => managed /\ (Settled(w, v) \/ Pending(w) \/ ToWrite(wm, w))
      BY <1>10 DEF Promise
    <3>6. CASE r.atom # "XAWMState"
      <4>1. Alone' <=> Alone
        BY <1>2, <1>5, <1>8, <3>6 DEF Alone
      <4> QED BY <1>2, <1>3, <2>1, <2>2, <2>3, <2>4, <2>5, <3>1, <3>2, <3>3, <3>4, <3>5, <4>1
          DEF Promise
    <3>7. CASE r.atom = "XAWMState"
      <4>1. property'["XAWMState"] = r.property /\ r.property # NoProperty
        BY <1>2, <1>5, <1>8, <2>6, <3>7 DEF Obeys, Removes
      <4>2. managed
        BY <1>2, <1>7, <3>7, <4>1 DEF Proper
      <4>3. Alone' => Alone
        BY <1>2, <4>1 DEF Alone
      <4> QED BY <1>2, <1>3, <2>1, <2>2, <2>3, <2>4, <2>5, <3>1, <3>2, <3>3, <3>4, <3>5, <4>2,
              <4>3 DEF Promise
    <3> QED BY <3>6, <3>7
  <2> QED BY <2>8, <2>9
<1> QED BY <1>2, <1>9, <1>10, HonouredKept

LEMMA SendPromise ==
  ASSUME Understanding, Promises, NEW a \in Agents, RequestSend(a)
  PROVE  Promises'
<1>1. PICK r, m : r = Head(todo[a]) /\ m = r.message
  OBVIOUS
<1>2. /\ todo[a] # <<>> /\ r.op = "send" /\ Done(a) /\ fields' = fields /\ alive' = alive
      /\ managed' = managed /\ topic' = topic /\ passed' = passed /\ wish' = wish
      /\ property' = property
  BY <1>1 DEF RequestSend, Works
<1>3. r \in In(todo[a]) /\ IsList(queue[wm]) /\ wm \in Agents
  BY <1>1, <1>2, RequestTaken, ListOf DEF Agents
<1>4. In(queue'[wm]) = IF managed THEN In(queue[wm]) \cup {m} ELSE In(queue[wm])
  <2>1. queue'[wm] = IF managed THEN Append(queue[wm], m) ELSE queue[wm]
    BY <1>1, <1>3 DEF RequestSend, Understanding
  <2> QED BY <1>3, <2>1, InOf
<1>5. Orderly'
  <2>1. ~Removes(r) /\ MappingOK(property["XAWMState"])
    BY <1>2 DEF Removes, Promises, Orderly
  <2> QED BY <1>1, <1>2, <2>1, OrderlyTakes DEF Promises
<1>6. ASSUME NEW w \in States \cup {"desktop"}, NEW v, Promise(w, v) PROVE Promise(w, v)'
  <2>1. Obeys(a, r, w, v)
    BY <1>3, <1>6 DEF Promise
  <2>2. About(m, w) => Asking(m, w, v)
    BY <1>1, <1>2, <2>1 DEF Obeys, SendsAbout
  <2>3. \A x \in In(queue'[wm]) : About(x, w) => Asking(x, w, v)
    BY <1>4, <1>6, <2>2 DEF Promise
  <2>4. Pending(w)' <=> Pending(w)
    <3>1. CASE About(m, w)
      <4>1. Pending(w)
        BY <1>1, <1>2, <1>3, <3>1 DEF Pending, Calling, SendsAbout
      <4>2. managed
        BY <1>6, <4>1 DEF Promise
      <4>3. Pending(w)'
        BY <1>4, <3>1, <4>2 DEF Pending
      <4> QED BY <4>1, <4>3
    <3>2. CASE ~About(m, w)
      <4>1. ~Calling(r, w)
        BY <1>1, <1>2, <3>2 DEF Calling, Decides, SendsAbout
      <4>2. (\E x \in In(queue'[wm]) : About(x, w)) <=> (\E x \in In(queue[wm]) : About(x, w))
        BY <1>4, <3>2
      <4> QED BY <1>1, <1>2, <4>1, <4>2, RequestPending
    <3> QED BY <3>1, <3>2
  <2>5. \A b \in Agents : Shows(b, w, v)' <=> Shows(b, w, v)
    BY <1>2 DEF Shows
  <2>6. \A b \in Agents : /\ ToRead(b, w)' <=> ToRead(b, w)
                          /\ ToWrite(b, w)' <=> ToWrite(b, w)
    <3>1. ~IsGet(r, Key(w)) /\ ~SetsKey(r, w)
      BY <1>2 DEF IsGet, SetsKey
    <3> QED BY <1>1, <1>2, <3>1, RequestTaken DEF ToRead, ToWrite
  <2>7. \A b \in Agents : \A x \in In(todo'[b]) : Obeys(b, x, w, v)'
    <3>1. \A b \in Agents : \A x \in In(todo'[b]) : Obeys(b, x, w, v)
      BY <1>1, <1>2, <1>6, RequestTaken DEF Promise
    <3> QED BY <2>4, <3>1 DEF Obeys
  <2>8. (Alone' <=> Alone) /\ (Settled(w, v)' <=> Settled(w, v))
    BY <1>2 DEF Alone, Settled
  <2>9. Key(w) \in topic'
    BY <1>2, <1>6 DEF Promise
  <2>10. client \in Agents
    BY DEF Agents
  <2> QED BY <1>2, <1>3, <1>6, <2>3, <2>4, <2>5, <2>6, <2>7, <2>8, <2>9, <2>10 DEF Promise
<1> QED BY <1>2, <1>5, <1>6, HonouredKept

LEMMA GetPromise ==
  ASSUME Understanding, Promises, NEW a \in Agents, RequestGet(a)
  PROVE  Promises'
<1>1. PICK r : r = Head(todo[a])
  OBVIOUS
<1>2. PICK atom : atom = r.atom
  OBVIOUS
<1>3. /\ todo[a] # <<>> /\ r.op = "get" /\ Done(a) /\ queue' = queue /\ alive' = alive
      /\ managed' = managed /\ topic' = topic /\ passed' = passed /\ wish' = wish
      /\ property' = property
  BY <1>1 DEF RequestGet, Works
<1>4. r \in In(todo[a]) /\ wm \in Agents /\ client \in Agents /\ wm # client
  BY <1>1, <1>3, RequestTaken DEF Agents, wm, client
<1>5. \A b \in Agents, x \in Three :
        IF b = a /\ atom = x THEN \A f : fields'[b][x] = Read(x, f, property[x])
        ELSE fields'[b][x] = fields[b][x]
  <2>1. PICK flag : flag = FlagOf(atom)
    OBVIOUS
  <2>2. PICK g : g = [fields[a] EXCEPT ![flag] = Read(atom, fields[a][flag], property[atom])]
    OBVIOUS
  <2>3. /\ DOMAIN fields = Agents /\ Three \subseteq DOMAIN fields[a]
    BY ThreeAre DEF Understanding, GoodFields
  <2>4. fields' = [fields EXCEPT ![a] = g]
    BY <1>1, <1>2, <2>1, <2>2 DEF RequestGet
  <2>5. fields'[a] = g /\ \A b \in Agents \ {a} : fields'[b] = fields[b]
    BY <2>3, <2>4
  <2>6. \A x \in Three : flag = x <=> atom = x
    BY <2>1, ThreeAre, FlagIs, SecondOf DEF Three
  <2>7. \A x \in Three : IF atom = x THEN \A f : g[x] = Read(x, f, property[x])
                         ELSE g[x] = fields[a][x]
    BY <2>2, <2>3, <2>6, ThreeAre
  <2> QED BY <2>5, <2>7
<1>6. Orderly'
  <2>1. ~Removes(r) /\ MappingOK(property["XAWMState"])
    BY <1>3 DEF Removes, Promises, Orderly
  <2> QED BY <1>1, <1>3, <2>1, OrderlyTakes DEF Promises
<1>7. ASSUME NEW w \in States \cup {"desktop"}, NEW v, Promise(w, v) PROVE Promise(w, v)'
  <2>1. Pending(w)' <=> Pending(w)
    <3>1. ~Calling(r, w)
      BY <1>3 DEF Calling, Decides, SendsAbout
    <3> QED BY <1>1, <1>3, <3>1, RequestPending
  <2>2. \A b \in Agents : ToWrite(b, w)' <=> ToWrite(b, w)
    <3>1. ~SetsKey(r, w)
      BY <1>3 DEF SetsKey
    <3> QED BY <1>1, <1>3, <3>1, RequestTaken DEF ToWrite
  <2>3. \A b \in Agents : \A x \in In(todo'[b]) : Obeys(b, x, w, v)'
    <3>1. \A b \in Agents : \A x \in In(todo'[b]) : Obeys(b, x, w, v)
      BY <1>1, <1>3, <1>7, RequestTaken DEF Promise
    <3> QED BY <2>1, <3>1 DEF Obeys
  <2>4. Key(w) \in topic' /\ \A m \in In(queue'[wm]) : About(m, w) => Asking(m, w, v)
    BY <1>3, <1>7 DEF Promise
  <2>5. Settled(w, v)' <=> Settled(w, v)
    BY <1>3 DEF Settled
  <2>6. Key(w) \in Three /\ Key(w) # "XAWMState" /\ "XAWMState" \in Three
    BY KeyIs DEF Three
  <2>7. ~ToWrite(a, w) /\ (property["XAWMState"] # NoProperty => managed)
    <3>1. Tidy(todo[a])
      BY DEF Promises, Orderly
    <3>2. ~ToWrite(a, w)
      BY <1>3, <1>4, <3>1, KeyIs DEF Tidy, ToWrite, SetsKey
    <3>3. ~\E x \in In(todo[wm]) : Removes(x)
      BY <1>4, <1>7 DEF Promise, Obeys
    <3> QED BY <3>2, <3>3 DEF Promises, Orderly
  <2>8. atom = Key(w) => (Shows(a, w, v)' <=> Settled(w, v))
    BY <1>5, <2>6 DEF Shows, Settled
  <2>9. \A b \in Agents : b # a \/ atom # Key(w) => (Shows(b, w, v)' <=> Shows(b, w, v))
    BY <1>5, <2>6 DEF Shows
  <2>10. \A b \in Agents : b # a \/ atom # Key(w) => (ToRead(b, w)' <=> ToRead(b, w))
    <3>1. atom # Key(w) => ~IsGet(r, Key(w))
      BY <1>2 DEF IsGet
    <3>2. \A b \in Agents \ {a} : ToRead(b, w)' <=> ToRead(b, w)
      BY <1>1, <1>3, RequestTaken DEF ToRead
    <3>3. ~IsGet(r, Key(w)) => (ToRead(a, w)' <=> ToRead(a, w))
      BY <1>1, <1>3, RequestTaken DEF ToRead
    <3> QED BY <3>1, <3>2, <3>3
  <2>11. Alone' => Alone
    <3>1. CASE a = client /\ atom = "XAWMState"
      <4>1. fields'[client]["XAWMState"] = Read("XAWMState", 0, property["XAWMState"])
        BY <1>4, <1>5, <2>6, <3>1
      <4>2. Read("XAWMState", 0, property["XAWMState"]) = "Withdrawn"
              => property["XAWMState"] = NoProperty
        <5>1. ASSUME NEW n \in {1, 3}, property["XAWMState"] = Property("WM_STATE", <<n>>)
              PROVE  Read("XAWMState", 0, property["XAWMState"]) # "Withdrawn"
          <6>1. Read("XAWMState", 0, property["XAWMState"]) = MappingState(n)
            BY <5>1, MappingSays, ThreeSay DEF Three
          <6> QED BY <6>1 DEF MappingState
        <5> QED BY <5>1 DEF Promises, Orderly, MappingOK
      <4> QED BY <1>3, <4>1, <4>2 DEF Alone
    <3>2. CASE ~(a = client /\ atom = "XAWMState")
      BY <1>3, <1>4, <1>5, <2>6, <3>2 DEF Alone
    <3> QED BY <3>1, <3>2
  <2>12. Alone => /\ ~Pending(w) /\ Shows(client, w, v)
                  /\ Settled(w, v) \/ (~managed /\ ToWrite(client, w))
    BY <1>7 DEF Promise
  <2>13. ~Alone => managed /\ (Settled(w, v) \/ Pending(w) \/ ToWrite(wm, w))
    BY <1>7 DEF Promise
  <2>14. managed => Shows(wm, w, v) \/ Pending(w) \/ ToRead(wm, w)
    BY <1>7 DEF Promise
  <2>15. Alone' => /\ ~Pending(w)' /\ Shows(client, w, v)'
                   /\ Settled(w, v)' \/ (~managed' /\ ToWrite(client, w)')
    BY <1>3, <1>4, <2>1, <2>2, <2>5, <2>7, <2>8, <2>9, <2>11, <2>12
  <2>16. ~Alone' => managed' /\ (Settled(w, v)' \/ Pending(w)' \/ ToWrite(wm, w)')
    <3>1. ~Alone' => property["XAWMState"] # NoProperty
      BY <1>3 DEF Alone
    <3> QED BY <1>3, <1>4, <2>1, <2>2, <2>5, <2>7, <2>12, <2>13, <3>1
  <2>17. managed' => Shows(wm, w, v)' \/ Pending(w)' \/ ToRead(wm, w)'
    BY <1>3, <1>4, <2>1, <2>7, <2>8, <2>9, <2>10, <2>12, <2>13, <2>14
  <2> QED BY <2>3, <2>4, <2>15, <2>16, <2>17 DEF Promise
<1> QED BY <1>3, <1>6, <1>7, HonouredKept

-----------------------------------------------------------------------------
(* Events and messages that a wish depends on                              *)

LEMMA Dispatched ==
  ASSUME Understanding, NEW a \in Agents, NEW type, Dispatch(a, type)
  PROVE  /\ In(queue[wm]) = IF a = wm THEN {Head(queue[wm])} \cup In(queue'[wm]) ELSE In(queue'[wm])
         /\ Head(queue[a]).type = type /\ todo[a] = <<>> /\ property' = property
         /\ alive' = alive /\ managed' = managed /\ topic' = topic /\ passed' = passed
         /\ wish' = wish
<1>1. queue' = [queue EXCEPT ![a] = Tail(@)] /\ queue[a] # <<>> /\ DOMAIN queue = Agents
  BY DEF Dispatch, Understanding
<1>2. CASE a = wm
  <2>1. queue'[wm] = Tail(queue[wm])
    BY <1>1, <1>2
  <2> QED BY <1>1, <1>2, <2>1, ListOf, InOf DEF Dispatch
<1>3. CASE a # wm
  BY <1>1, <1>3 DEF Dispatch, Agents
<1> QED BY <1>2, <1>3

LEMMA DispatchQuiet ==
  ASSUME Understanding, Promises, NEW a \in Agents, NEW type, Dispatch(a, type),
         type \notin {"STATE", "DESKTOP"}, NEW L, \A r \in In(L) : Quiet(a, r),
         todo' = [todo EXCEPT ![a] = L],
         \A b \in Agents, flag \in Three : fields'[b][flag] = fields[b][flag]
  PROVE  Promises'
<1>1. \A m : m.type \in {"STATE", "DESKTOP"} => (m \in In(queue'[wm]) <=> m \in In(queue[wm]))
  BY Dispatched
<1>2. \A b \in Agents : todo'[b] = IF b = a THEN L ELSE todo[b]
  BY DEF Understanding
<1>3. /\ todo[a] = <<>> /\ property' = property /\ alive' = alive /\ managed' = managed
      /\ topic' = topic /\ passed' = passed /\ wish' = wish
  BY Dispatched
<1> QED BY <1>1, <1>2, <1>3, QuietKeeps

LEMMA UpdateQuiet == ASSUME NEW a, NEW flags PROVE \A r \in In(Update(a, flags)) : Quiet(a, r)
BY UpdateReads DEF In, Quiet

LEMMA PropertyNotifyPromise ==
  ASSUME Understanding, Promises, NEW a \in Agents, OnPropertyNotify(a)
  PROVE  Promises'
<1>1. PICK flags : flags = {FlagOf(Head(queue[a]).data)}
  OBVIOUS
<1>2. Dispatch(a, "PROPERTY") /\ todo' = [todo EXCEPT ![a] = Update(a, flags)] /\ fields' = fields
  BY <1>1 DEF OnPropertyNotify
<1> QED BY <1>2, UpdateQuiet, DispatchQuiet

LEMMA MonitorsMessagePromise ==
  ASSUME Understanding, Promises, OnFullscreenMonitorsMessage
  PROVE  Promises'
<1>1. PICK monitors : monitors = Signeds(Head(queue[wm]).data)
  OBVIOUS
<1>2. PICK r : r = Set("WM2FullscreenMonitors", "CARDINAL", Unsigneds(monitors), monitors)
  OBVIOUS
<1>3. /\ Dispatch(wm, "FULLSCREEN_MONITORS") /\ todo' = [todo EXCEPT ![wm] = <<r>>]
      /\ fields' = [fields EXCEPT ![wm]["WM2FullscreenMonitors"] = monitors]
  BY <1>1, <1>2 DEF OnFullscreenMonitorsMessage
<1>4. wm \in Agents
  BY DEF Agents
<1>5. \A x \in In(<<r>>) : Quiet(wm, x)
  <2>1. Quiet(wm, r)
    BY <1>2, RequestsHave DEF Quiet, Three
  <2> QED BY <2>1, InOne
<1>6. \A b \in Agents, flag \in Three : fields'[b][flag] = fields[b][flag]
  <2>1. DOMAIN fields = Agents /\ Three \subseteq DOMAIN fields[wm]
    BY <1>4, ThreeAre DEF Understanding, GoodFields
  <2>2. "WM2FullscreenMonitors" \notin Three
    BY DEF Three
  <2>3. PICK g : g = [fields[wm] EXCEPT !["WM2FullscreenMonitors"] = monitors]
    OBVIOUS
  <2>4. fields' = [fields EXCEPT ![wm] = g]
    BY <1>3, <2>3
  <2>5. \A flag \in Three : g[flag] = fields[wm][flag]
    BY <2>1, <2>2, <2>3
  <2> QED BY <2>1, <2>4, <2>5
<1> QED BY <1>3, <1>4, <1>5, <1>6, DispatchQuiet

Lawful(r) ==
  /\ r.op \in {"setState", "setDesktop"} /\ ~r.own
  /\ r.op = "setState" => r.state \subseteq r.mask

\* The window manager takes a message: it will decide what it was asked for.
Grants(m, r) ==
  \A w \in States \cup {"desktop"} :
    /\ Decides(r, w) <=> About(m, w)
    /\ \A v : Wished(w, v) /\ Asking(m, w, v) /\ About(m, w) => Decided(r, w) = v

LEMMA MessagePromise ==
  ASSUME Understanding, Promises, NEW type, Dispatch(wm, type), NEW m, m = Head(queue[wm]),
         NEW flag, NEW r,
         Lawful(r),
         todo' = [todo EXCEPT ![wm] = Beforehand(wm, flag) \o <<r>>], fields' = fields,
         Grants(m, r)
  PROVE  Promises'
<1>2. PICK b : b = Beforehand(wm, flag)
  OBVIOUS
<1>3. PICK L : L = b \o <<r>>
  OBVIOUS
<1>4. wm \in Agents /\ client \in Agents /\ wm # client
  BY DEF Agents, wm, client
<1>0. /\ r.op \in {"setState", "setDesktop"} /\ ~r.own
      /\ r.op = "setState" => r.state \subseteq r.mask
  BY DEF Lawful
<1>5. IsList(b) /\ \A x \in In(b) : x.op = "get"
  BY <1>2, BeforehandIs DEF In
<1>6. In(L) = In(b) \cup {r}
  <2>1. IsList(<<r>>) /\ In(<<r>>) = {r}
    BY ShortLists, InOne
  <2> QED BY <1>3, <1>5, <2>1, InBoth
<1>7. /\ todo[wm] = <<>> /\ property' = property /\ alive' = alive /\ managed' = managed
      /\ topic' = topic /\ passed' = passed /\ wish' = wish
      /\ In(queue[wm]) = {m} \cup In(queue'[wm])
  BY <1>4, Dispatched
<1>8. \A a \in Agents : todo'[a] = IF a = wm THEN L ELSE todo[a]
  BY <1>2, <1>3 DEF Understanding
<1>9. Idle(todo[wm]) /\ In(todo[wm]) = {}
  BY <1>7, NothingIdle, InOne
<1>10. Orderly'
  <2>1. Tidy(L)
    BY <1>0, <1>5, <1>6 DEF Tidy
  <2>2. \A x \in In(L) : Proper(wm, x)'
    <3>1. managed'
      BY <1>7 DEF Dispatch, Promises, Orderly
    <3> QED BY <1>0, <1>5, <1>6, <3>1 DEF Proper
  <2>3. managed' = (wm \in alive') /\ DOMAIN wish' = DOMAIN wish
    BY <1>7 DEF Promises, Orderly
  <2> QED BY <1>4, <1>7, <1>8, <1>9, <2>1, <2>2, <2>3, OrderlyFills DEF Promises
<1>11. ASSUME NEW w \in States \cup {"desktop"}, NEW v, Wished(w, v), Promise(w, v)
       PROVE  Promise(w, v)'
  <2>1. Decides(r, w) <=> About(m, w)
    BY DEF Grants
  <2>2. \A x \in In(b) : ~Calling(x, w)
    BY <1>5 DEF Calling, Decides, SendsAbout
  <2>3. Calling(r, w) <=> About(m, w)
    BY <1>0, <2>1 DEF Calling, SendsAbout
  <2>4. Pending(w)' <=> Pending(w)
    <3>1. \/ (\E x \in In(queue'[wm]) : About(x, w)) \/ (\E x \in In(L) : Calling(x, w))
          <=>
          \/ (\E x \in In(queue[wm]) : About(x, w)) \/ (\E x \in In(todo[wm]) : Calling(x, w))
      BY <1>6, <1>7, <1>9, <2>2, <2>3
    <3> QED BY <1>4, <1>8, <3>1, PendingFills
  <2>5. \A x \in In(L) : Obeys(wm, x, w, v)'
    <3>1. \A x \in In(b) : Obeys(wm, x, w, v)'
      BY <1>5 DEF Obeys, SendsAbout, Decides, SetsKey, Removes
    <3>2. About(m, w) => Asking(m, w, v)
      BY <1>7, <1>11 DEF Promise
    <3>3. Decides(r, w) => Decided(r, w) = v
      BY <1>11, <2>1, <3>2 DEF Grants
    <3>4. Obeys(wm, r, w, v)'
      BY <1>0, <3>3 DEF Obeys, SendsAbout, SetsKey, Removes
    <3> QED BY <1>6, <3>1, <3>4
  <2>6. \A x \in In(queue'[wm]) : About(x, w) => Asking(x, w, v)
    BY <1>7, <1>11 DEF Promise
  <2>7. \A a \in Agents : Shows(a, w, v)' <=> Shows(a, w, v)
    BY DEF Shows
  <2> QED BY <1>4, <1>7, <1>8, <1>9, <1>11, <2>4, <2>5, <2>6, <2>7, PromiseFills DEF Promises
<1> QED BY <1>7, <1>10, <1>11, HonouredKept

LEMMA NoDesktopState == "desktop" \notin States /\ States \subseteq DOMAIN StateAtoms
<1>1. "desktop" \notin DOMAIN StateAtoms
  BY DEF StateAtoms
<1> QED BY <1>1, NETWinInfoAssumption

LEMMA StateMessagePromise ==
  ASSUME Understanding, Promises, OnStateMessage
  PROVE  Promises'
<1>1. PICK m : m = Head(queue[wm])
  OBVIOUS
<1>2. PICK data : data = m.data
  OBVIOUS
<1>3. PICK mask : mask = {StateFlag[atom] : atom \in data.atoms}
  OBVIOUS
<1>4. PICK state : state = CASE data.action = 1 -> mask
                             [] data.action = 2 -> mask \ fields[wm]["WMState"]
                             [] OTHER -> {}
  OBVIOUS
<1>5. PICK r : r = [op |-> "setState", state |-> state, mask |-> mask, own |-> FALSE]
  OBVIOUS
<1>6. /\ Dispatch(wm, "STATE") /\ fields' = fields
      /\ todo' = [todo EXCEPT ![wm] = Beforehand(wm, "WMState") \o <<r>>]
  BY <1>1, <1>2, <1>3, <1>4, <1>5 DEF OnStateMessage
<1>7. m.type = "STATE"
  BY <1>1, <1>6, MessageGood
<1>8. /\ data.action = 1 => state = mask
      /\ data.action = 0 => state = {}
      /\ state \subseteq mask
  <2>1. CASE data.action = 1
    BY <1>4, <2>1
  <2>2. CASE data.action = 2
    BY <1>4, <2>2
  <2>3. CASE data.action # 1 /\ data.action # 2
    BY <1>4, <2>3
  <2> QED BY <2>1, <2>2, <2>3
<1>9. r.op = "setState" /\ ~r.own /\ r.state = state /\ r.mask = mask
  BY <1>5
<1>10. ASSUME NEW w \in States \cup {"desktop"}
       PROVE  /\ Decides(r, w) <=> About(m, w)
              /\ \A v : Wished(w, v) /\ Asking(m, w, v) /\ About(m, w) => Decided(r, w) = v
  <2>1. CASE w = "desktop"
    BY <1>7, <1>9, <2>1 DEF Decides, About
  <2>2. CASE w # "desktop"
    <3>1. About(m, w) <=> w \in mask
      BY <1>2, <1>3, <1>7, <2>2 DEF About
    <3>2. Decides(r, w) <=> w \in mask
      BY <1>9, <2>2 DEF Decides
    <3>3. ASSUME NEW v, Wished(w, v), Asking(m, w, v), About(m, w) PROVE Decided(r, w) = v
      <4>1. (v = 0 \/ v = 1) /\ data.action = v
        BY <1>2, <2>2, <3>3 DEF Wished, Asking
      <4> QED BY <1>8, <1>9, <2>2, <3>1, <3>3, <4>1 DEF Decided, On
    <3> QED BY <3>1, <3>2, <3>3
  <2> QED BY <2>1, <2>2
<1>11. Grants(m, r)
  BY <1>10 DEF Grants
<1>12. Lawful(r)
  BY <1>8, <1>9 DEF Lawful
<1> QED BY <1>1, <1>6, <1>11, <1>12, MessagePromise

LEMMA DesktopMessagePromise ==
  ASSUME Understanding, Promises, OnDesktopMessage
  PROVE  Promises'
<1>1. PICK m : m = Head(queue[wm])
  OBVIOUS
<1>2. PICK n : n = m.data[1]
  OBVIOUS
<1>3. PICK d : d = IF n = Word - 1 THEN OnAllDesktops ELSE n + 1
  OBVIOUS
<1>4. PICK r : r = [op |-> "setDesktop", own |-> FALSE, desktop |-> d]
  OBVIOUS
<1>5. /\ Dispatch(wm, "DESKTOP") /\ fields' = fields
      /\ todo' = [todo EXCEPT ![wm] = Beforehand(wm, "WMDesktop") \o <<r>>]
  BY <1>1, <1>2, <1>3, <1>4 DEF OnDesktopMessage
<1>6. m.type = "DESKTOP"
  BY <1>1, <1>5, MessageGood
<1>7. r.op = "setDesktop" /\ ~r.own /\ r.desktop = d
  BY <1>4
<1>8. ASSUME NEW w \in States \cup {"desktop"}
      PROVE  /\ Decides(r, w) <=> About(m, w)
             /\ \A v : Wished(w, v) /\ Asking(m, w, v) /\ About(m, w) => Decided(r, w) = v
  <2>1. CASE w = "desktop"
    BY <1>2, <1>3, <1>6, <1>7, <2>1 DEF Decides, About, Asking, Decided
  <2>2. CASE w # "desktop"
    BY <1>6, <1>7, <2>2 DEF Decides, About
  <2> QED BY <2>1, <2>2
<1>9. Grants(m, r)
  BY <1>8 DEF Grants
<1>10. Lawful(r)
  BY <1>7 DEF Lawful
<1> QED BY <1>1, <1>5, <1>9, <1>10, MessagePromise

-----------------------------------------------------------------------------
(* Others, and what the window manager does without the object             *)

LEMMA TogglePromise ==
  ASSUME Understanding, Promises, NEW s \in States, Toggle(s)
  PROVE  Promises'
<1>1. PICK y : y = CHOOSE x \in StateAtoms[s] : TRUE
  OBVIOUS
<1>2. PICK m : m = [type |-> "STATE", data |-> [action |-> 2, atoms |-> {y}]]
  OBVIOUS
<1>3. /\ queue' = [queue EXCEPT ![wm] = Append(@, m)] /\ wish' = [wish EXCEPT ![s] = Nothing]
      /\ property' = property /\ fields' = fields /\ todo' = todo /\ alive' = alive
      /\ managed' = managed /\ topic' = topic /\ passed' = passed
  BY <1>1, <1>2 DEF Toggle
<1>4. wm \in Agents /\ DOMAIN queue = Agents /\ IsList(queue[wm])
  BY ListOf DEF Agents, Understanding
<1>5. In(queue'[wm]) = In(queue[wm]) \cup {m}
  BY <1>3, <1>4, InOf
<1>6. StateFlag[y] = s
  <2>1. s \in DOMAIN StateAtoms
    BY NoDesktopState
  <2>2. \E x \in StateAtoms[s] : TRUE
    BY <2>1, StatesInverse DEF InverseTables
  <2>3. y \in StateAtoms[s]
    BY <1>1, <2>2
  <2> QED BY <2>1, <2>3, StatesInverse DEF InverseTables
<1>7. m.type = "STATE" /\ m.data.atoms = {y}
  BY <1>2
<1>8. DOMAIN wish = States \cup {"desktop"} /\ DOMAIN wish' = States \cup {"desktop"}
  BY <1>3 DEF Promises, Orderly
<1>9. Orderly'
  BY <1>3, <1>8 DEF Promises, Orderly, Proper
<1>10. ASSUME NEW w \in States \cup {"desktop"} PROVE Honoured(w)'
  <2>1. CASE w = s
    BY <1>3, <1>8, <2>1 DEF Honoured
  <2>2. CASE w # s
    <3>1. wish'[w] = wish[w]
      BY <1>3, <1>8, <2>2
    <3>2. ~About(m, w)
      BY <1>6, <1>7, <2>2 DEF About
    <3>3. CASE wish[w] = Nothing
      BY <3>1, <3>3 DEF Honoured
    <3>4. CASE wish[w] # Nothing
      <4>1. PICK v : w # "Focused" /\ Wished(w, v) /\ Promise(w, v)
        BY <3>4 DEF Promises, Honoured
      <4>2. (Pending(w)' <=> Pending(w)) /\ (Settled(w, v)' <=> Settled(w, v)) /\ (Alone' <=> Alone)
        BY <1>3, <1>5, <3>2 DEF Pending, Settled, Alone
      <4>3. \A a \in Agents : /\ ToRead(a, w)' <=> ToRead(a, w)
                              /\ ToWrite(a, w)' <=> ToWrite(a, w)
                              /\ Shows(a, w, v)' <=> Shows(a, w, v)
        BY <1>3 DEF ToRead, ToWrite, Shows
      <4>4. \A a \in Agents : \A r \in In(todo'[a]) : Obeys(a, r, w, v)'
        BY <1>3, <4>1, <4>2 DEF Promise, Obeys
      <4>5. \A x \in In(queue'[wm]) : About(x, w) => Asking(x, w, v)
        BY <1>5, <3>2, <4>1 DEF Promise
      <4>6. client \in Agents
        BY DEF Agents
      <4>7. Promise(w, v)'
        BY <1>3, <1>4, <4>1, <4>2, <4>3, <4>4, <4>5, <4>6 DEF Promise
      <4> QED BY <3>1, <4>1, <4>7 DEF Honoured, Wished
    <3> QED BY <3>3, <3>4
  <2> QED BY <2>1, <2>2
<1> QED BY <1>9, <1>10 DEF Promises

LEMMA ConstructPromise ==
  ASSUME Understanding, Promises, Construct
  PROVE  Promises'
<1>1. PICK L : L = Update(client, passed[client])
  OBVIOUS
<1>2. /\ client \in Agents /\ wm # client /\ todo[client] = <<>>
      /\ todo' = [todo EXCEPT ![client] = L] /\ alive' = alive \cup {client}
      /\ property' = property /\ queue' = queue /\ fields' = fields /\ managed' = managed
      /\ topic' = topic /\ passed' = passed /\ wish' = wish
  BY <1>1 DEF Construct, Understanding, Agents, wm, client
<1>3. \A b \in Agents : todo'[b] = IF b = client THEN L ELSE todo[b]
  BY <1>2 DEF Understanding
<1>4. \A r \in In(L) : Quiet(client, r)
  BY <1>1, UpdateQuiet
<1> QED BY <1>2, <1>3, <1>4, QuietKeeps

LEMMA MappingRequest ==
  ASSUME NEW n \in {1, 3}
  PROVE  /\ WMState(n).op = "set" /\ WMState(n).atom = "XAWMState"
         /\ MappingOK(WMState(n).property) /\ WMState(n).property # NoProperty
         /\ \A w : ~Calling(WMState(n), w) /\ ~SetsKey(WMState(n), w)
         /\ ~Removes(WMState(n))
<1>1. PICK r : r = WMState(n)
  OBVIOUS
<1>2. r.op = "set" /\ r.atom = "XAWMState" /\ r.property = Property("WM_STATE", <<n>>)
  BY <1>1 DEF WMState
<1>3. r.property # NoProperty
  BY <1>2, PropertyHas DEF NoProperty
<1>4. MappingOK(r.property)
  BY <1>2 DEF MappingOK
<1>5. \A w : ~Calling(r, w) /\ ~SetsKey(r, w)
  BY <1>2, KeyIs DEF Calling, Decides, SendsAbout, SetsKey
<1> QED BY <1>1, <1>2, <1>3, <1>4, <1>5 DEF Removes

LEMMA IconifyPromise ==
  ASSUME Understanding, Promises, NEW n \in {1, 3}, Iconify(n)
  PROVE  Promises'
<1>1. PICK r : r = WMState(n)
  OBVIOUS
<1>2. PICK L : L = <<r>>
  OBVIOUS
<1>3. /\ wm \in Agents /\ managed /\ todo[wm] = <<>> /\ todo' = [todo EXCEPT ![wm] = L]
      /\ property' = property /\ queue' = queue /\ fields' = fields /\ alive' = alive
      /\ managed' = managed /\ topic' = topic /\ passed' = passed /\ wish' = wish
  BY <1>1, <1>2 DEF Iconify, Agents
<1>4. \A b \in Agents : todo'[b] = IF b = wm THEN L ELSE todo[b]
  BY <1>3 DEF Understanding
<1>5. Idle(todo[wm]) /\ In(todo[wm]) = {} /\ In(L) = {r}
  BY <1>2, <1>3, NothingIdle, InOne
<1>6. /\ r.op = "set" /\ r.atom = "XAWMState" /\ MappingOK(r.property) /\ ~Removes(r)
      /\ \A w : ~Calling(r, w) /\ ~SetsKey(r, w)
  BY <1>1, MappingRequest
<1>7. Orderly'
  <2>1. Tidy(L) /\ \A x \in In(L) : Proper(wm, x)'
    BY <1>3, <1>5, <1>6 DEF Tidy, Proper
  <2>2. managed' = (wm \in alive') /\ DOMAIN wish' = DOMAIN wish
    BY <1>3 DEF Promises, Orderly
  <2> QED BY <1>3, <1>4, <1>5, <2>1, <2>2, OrderlyFills DEF Promises
<1>8. ASSUME NEW w \in States \cup {"desktop"}, NEW v, Promise(w, v) PROVE Promise(w, v)'
  <2>1. Pending(w)' <=> Pending(w)
    <3>1. /\ (\E x \in In(L) : Calling(x, w)) <=> (\E x \in In(todo[wm]) : Calling(x, w))
          /\ In(queue'[wm]) = In(queue[wm])
      BY <1>3, <1>5, <1>6
    <3> QED BY <1>3, <1>4, <3>1, PendingFills
  <2>2. \A x \in In(L) : Obeys(wm, x, w, v)'
    BY <1>5, <1>6 DEF Obeys, Calling
  <2>3. \A a \in Agents : Shows(a, w, v)' <=> Shows(a, w, v)
    BY <1>3 DEF Shows
  <2>4. \A m \in In(queue'[wm]) : About(m, w) => Asking(m, w, v)
    BY <1>3, <1>8 DEF Promise
  <2>5. client \in Agents
    BY DEF Agents
  <2> QED BY <1>3, <1>4, <1>5, <1>8, <2>1, <2>2, <2>3, <2>4, <2>5, PromiseFills DEF Promises
<1> QED BY <1>3, <1>7, <1>8, HonouredKept

LEMMA NobodyWishes ==
  ASSUME wish' = NoWish, Orderly'
  PROVE  Promises'
<1>1. \A w \in States \cup {"desktop"} : wish'[w] = Nothing
  BY DEF NoWish
<1> QED BY <1>1 DEF Promises, Honoured

LEMMA ManagePromise ==
  ASSUME Understanding, Promises, Manage
  PROVE  Promises'
<1>1. PICK u, r : u = Update(wm, passed[wm]) /\ r = WMState(1)
  OBVIOUS
<1>2. PICK L : L = u \o <<r>>
  OBVIOUS
<1>3. /\ wm \in Agents /\ client \in Agents /\ wm # client
      /\ ~managed /\ todo[wm] = <<>> /\ todo' = [todo EXCEPT ![wm] = L]
      /\ property' = property /\ queue' = queue /\ fields' = fields
      /\ alive' = alive \cup {wm} /\ managed' = TRUE
      /\ topic' = topic /\ passed' = passed
      /\ wish' = IF todo[client] = <<>> THEN wish ELSE NoWish
  BY <1>1, <1>2 DEF Manage, Agents, wm, client
<1>4. \A b \in Agents : todo'[b] = IF b = wm THEN L ELSE todo[b]
  BY <1>3 DEF Understanding
<1>5. /\ r.op = "set" /\ r.atom = "XAWMState" /\ MappingOK(r.property) /\ ~Removes(r)
      /\ \A w : ~Calling(r, w) /\ ~SetsKey(r, w)
  BY <1>1, MappingRequest
<1>6. /\ IsList(u) /\ \A x \in In(u) : x.op = "get"
      /\ \A flag \in passed[wm] \cap Known : Unread(u, flag)
  BY <1>1, UpdateReads DEF GoodList, In
<1>7. In(L) = In(u) \cup {r}
  <2>1. IsList(<<r>>) /\ In(<<r>>) = {r}
    BY ShortLists, InOne
  <2> QED BY <1>2, <1>6, <2>1, InBoth
<1>8. Idle(todo[wm]) /\ In(todo[wm]) = {}
  BY <1>3, NothingIdle, InOne
<1>9. Orderly'
  <2>1. Tidy(L) /\ \A x \in In(L) : Proper(wm, x)'
    BY <1>3, <1>5, <1>6, <1>7 DEF Tidy, Proper
  <2>2. DOMAIN wish' = DOMAIN wish
    BY <1>3 DEF Promises, Orderly, NoWish
  <2>3. managed' = (wm \in alive')
    BY <1>3
  <2> QED BY <1>3, <1>4, <1>8, <2>1, <2>2, <2>3, OrderlyFills DEF Promises
<1>10. CASE todo[client] # <<>>
  BY <1>3, <1>9, <1>10, NobodyWishes
<1>11. CASE todo[client] = <<>>
  <2>1. wish' = wish
    BY <1>3, <1>11
  <2>2. ASSUME NEW w \in States \cup {"desktop"}, NEW v, Promise(w, v) PROVE Promise(w, v)'
    <3>1. Pending(w)' <=> Pending(w)
      <4>1. \A x \in In(u) : ~Calling(x, w)
        BY <1>6 DEF Calling, Decides, SendsAbout
      <4>2. /\ (\E x \in In(L) : Calling(x, w)) <=> (\E x \in In(todo[wm]) : Calling(x, w))
            /\ In(queue'[wm]) = In(queue[wm])
        BY <1>3, <1>5, <1>7, <1>8, <4>1
      <4> QED BY <1>3, <1>4, <4>2, PendingFills
    <3>2. ASSUME NEW a \in Agents, NEW x \in In(todo'[a]) PROVE Obeys(a, x, w, v)'
      <4>1. CASE x = r
        BY <1>5, <4>1 DEF Obeys, Calling
      <4>2. CASE a = wm /\ x # r
        <5>1. x.op = "get"
          BY <1>4, <1>6, <1>7, <3>2, <4>2
        <5> QED BY <5>1 DEF Obeys, SendsAbout, Decides, SetsKey, Removes
      <4>3. CASE a # wm
        <5>1. x \in In(todo[a])
          BY <1>4, <3>2, <4>3
        <5>2. Obeys(a, x, w, v)
          BY <2>2, <5>1 DEF Promise
        <5> QED BY <3>1, <5>2 DEF Obeys
      <4> QED BY <4>1, <4>2, <4>3
    <3>3. ~ToWrite(client, w)
      BY <1>3, <1>11, InOne DEF ToWrite
    <3>4. (Alone' <=> Alone) /\ (Settled(w, v)' <=> Settled(w, v))
          /\ (Shows(client, w, v)' <=> Shows(client, w, v))
      BY <1>3 DEF Alone, Settled, Shows
    <3>5. Alone /\ ~Pending(w) /\ Settled(w, v) /\ Shows(client, w, v)
      BY <1>3, <2>2, <3>3 DEF Promise
    <3>6. ToRead(wm, w)'
      <4>1. Key(w) \in passed[wm] \cap Known
        BY <2>2, KeyIs, ThreeAre DEF Promise, Promises, Orderly, Three
      <4>2. Key(w) \notin Paired
        BY KeyIs, ThreeAre DEF Three
      <4>3. \E x \in In(u) : IsGet(x, Key(w))
        BY <1>6, <4>1, <4>2 DEF Unread, In
      <4> QED BY <1>3, <1>4, <1>7, <4>3 DEF ToRead
    <3>7. Key(w) \in topic' /\ \A m \in In(queue'[wm]) : About(m, w) => Asking(m, w, v)
      BY <1>3, <2>2 DEF Promise
    <3> QED BY <3>1, <3>2, <3>4, <3>5, <3>6, <3>7 DEF Promise
  <2> QED BY <1>9, <2>1, <2>2, HonouredKept
<1> QED BY <1>10, <1>11

LEMMA WithdrawPromise ==
  ASSUME Understanding, Promises, Withdraw
  PROVE  Promises'
<1>1. PICK x, y, z : /\ x = Delete("WMState", {}) /\ y = Delete("WMDesktop", 0)
                     /\ z = Delete("XAWMState", "Withdrawn")
  OBVIOUS
<1>2. PICK L : L = <<x, y, z>>
  OBVIOUS
<1>3. /\ wm \in Agents /\ todo[wm] = <<>> /\ todo' = [todo EXCEPT ![wm] = L]
      /\ property' = property /\ alive' = alive \ {wm} /\ managed' = FALSE
      /\ topic' = topic /\ passed' = passed /\ wish' = NoWish
  BY <1>1, <1>2 DEF Withdraw, Agents
<1>4. \A b \in Agents : todo'[b] = IF b = wm THEN L ELSE todo[b]
  BY <1>3 DEF Understanding
<1>5. /\ x.op = "set" /\ x.atom = "WMState" /\ y.op = "set" /\ y.atom = "WMDesktop"
      /\ z.op = "set" /\ z.atom = "XAWMState" /\ z.property = NoProperty
  BY <1>1, RequestsHave
<1>6. In(L) = {x, y, z}
  <2>1. Len(L) = 3 /\ L[1] = x /\ L[2] = y /\ L[3] = z
    BY <1>2, ShortLists
  <2>2. 1..3 = {1, 2, 3}
    OBVIOUS
  <2> QED BY <2>1, <2>2 DEF In
<1>7. ASSUME NEW b \in Agents PROVE Tidy(todo'[b]) /\ \A r \in In(todo'[b]) : Proper(b, r)'
  <2>1. CASE b = wm
    BY <1>4, <1>5, <1>6, <2>1 DEF Tidy, Proper, MappingOK
  <2>2. CASE b # wm
    <3>1. todo'[b] = todo[b] /\ Tidy(todo[b]) /\ \A r \in In(todo[b]) : Proper(b, r)
      BY <1>4, <2>2 DEF Promises, Orderly
    <3>2. \A r \in In(todo[b]) : ~(r.op = "set" /\ r.atom = "XAWMState")
      BY <2>2, <3>1 DEF Proper
    <3> QED BY <1>3, <2>2, <3>1, <3>2 DEF Proper
  <2> QED BY <2>1, <2>2
<1>8. \E r \in In(todo'[wm]) : Removes(r)
  BY <1>3, <1>4, <1>5, <1>6 DEF Removes
<1>9. Orderly'
  <2>1. wm \notin alive' /\ managed' = FALSE
    BY <1>3
  <2>2. DOMAIN wish' = States \cup {"desktop"}
    BY <1>3 DEF NoWish
  <2>3. topic' \subseteq passed'[wm] /\ MappingOK(property'["XAWMState"])
    BY <1>3 DEF Promises, Orderly
  <2>4. managed' = (wm \in alive')
    <3>1. (wm \in alive') = FALSE
      BY <2>1
    <3> QED BY <2>1, <3>1
  <2>5. \A b \in Agents : Tidy(todo'[b]) /\ \A r \in In(todo'[b]) : Proper(b, r)'
    BY <1>7
  <2>6. property'["XAWMState"] # NoProperty => managed' \/ \E r \in In(todo'[wm]) : Removes(r)
    BY <1>8
  <2> QED BY <2>2, <2>3, <2>4, <2>5, <2>6 DEF Orderly
<1> QED BY <1>3, <1>9, NobodyWishes

-----------------------------------------------------------------------------
(* Decisions                                                               *)

\* What is in a list of lists, once they are put together
LEMMA InFlat ==
  ASSUME NEW S, NEW s \in Seq(Seq(S))
  PROVE  \A x : x \in In(FlattenSeq(s)) <=> \E i \in 1..Len(s) : x \in In(s[i])
<1> DEFINE Spread(t) == \A x : x \in In(FlattenSeq(t)) <=> \E i \in 1..Len(t) : x \in In(t[i])
           I == {n \in Nat : \A t \in Seq(Seq(S)) : Len(t) = n => Spread(t)}
<1>1. 0 \in I
  <2>1. ASSUME NEW t \in Seq(Seq(S)), Len(t) = 0 PROVE Spread(t)
    <3>1. t = <<>> /\ 1..0 = {}
      BY <2>1, EmptySeq
    <3>2. In(FlattenSeq(t)) = {}
      BY <3>1, FlattenNone, InOne
    <3> QED BY <2>1, <3>1, <3>2
  <2> QED BY <2>1
<1>2. ASSUME NEW n \in Nat, n \in I PROVE n + 1 \in I
  <2>1. ASSUME NEW t \in Seq(Seq(S)), Len(t) = n + 1 PROVE Spread(t)
    <3>1. PICK front \in Seq(Seq(S)), last \in Seq(S) : t = Append(front, last)
      <4>1. t # <<>>
        BY <2>1, EmptySeq
      <4> QED BY <4>1, SequenceEmptyOrAppend
    <3>2. Len(front) = n /\ t[n + 1] = last /\ \A i \in 1..n : t[i] = front[i]
      BY <2>1, <3>1
    <3>3. FlattenSeq(front) \in Seq(S)
      BY FlattenIsSeq
    <3>4. FlattenSeq(t) = FlattenSeq(front) \o last
      BY <3>1, <3>3, FlattenAppend
    <3>5. IsList(FlattenSeq(front)) /\ IsList(last)
      BY <3>3 DEF IsList
    <3>6. In(FlattenSeq(t)) = In(FlattenSeq(front)) \cup In(last)
      BY <3>4, <3>5, InBoth
    <3>7. Spread(front)
      BY <1>2, <3>2
    <3>8. 1..(n + 1) = 1..n \cup {n + 1}
      OBVIOUS
    <3>9. \A x : (\E i \in 1..(n + 1) : x \in In(t[i]))
                   <=> (\E i \in 1..n : x \in In(front[i])) \/ x \in In(last)
      <4> HIDE DEF In
      <4> QED BY <3>2, <3>8
    <3> QED BY <2>1, <3>2, <3>6, <3>7, <3>9
  <2> QED BY <2>1
<1>3. Nat \subseteq I
  <2> HIDE DEF I
  <2> QED BY <1>1, <1>2, NatSetInduction
<1>4. Len(s) \in Nat
  OBVIOUS
<1> QED BY <1>3, <1>4

\* Every state but one is asked for.
LEMMA EveryState ==
  ASSUME NEW w \in DOMAIN StateAtoms, w # "Focused"
  PROVE  \E i \in 1..Len(StateOrder) : StateOrder[i] = w
<1>1. Len(StateOrder) = 13 /\ 1..13 = {1, 2, 3, 4, 5, 6, 7, 8, 9, 10, 11, 12, 13}
  BY DEF StateOrder
<1>2. w \in {"Modal", "Sticky", "MaxHoriz", "MaxVert", "Shaded", "SkipTaskbar", "SkipPager",
             "SkipSwitcher", "Hidden", "FullScreen", "KeepAbove", "KeepBelow",
             "DemandsAttention"}
  BY DEF StateAtoms
<1>3. /\ StateOrder[1] = "Modal" /\ StateOrder[2] = "Sticky" /\ StateOrder[3] = "MaxHoriz"
      /\ StateOrder[4] = "MaxVert" /\ StateOrder[5] = "Shaded"
      /\ StateOrder[6] = "SkipTaskbar" /\ StateOrder[7] = "SkipPager"
      /\ StateOrder[8] = "SkipSwitcher" /\ StateOrder[9] = "Hidden"
      /\ StateOrder[10] = "FullScreen" /\ StateOrder[11] = "KeepAbove"
      /\ StateOrder[12] = "KeepBelow" /\ StateOrder[13] = "DemandsAttention"
  BY DEF StateOrder
<1> QED BY <1>1, <1>2, <1>3

\* The messages about one state, as StateMessages() has them
Ask(s, state, atoms) == Send("STATE", [action |-> On(s, state), atoms |-> atoms])
MessagesOf(s, state, together) ==
  CASE s = "KeepAbove" ->
         <<Ask(s, state, {"STATE_ABOVE"})>> \o <<Ask(s, state, {"STATE_STAYS_ON_TOP"})>>
    [] s = "MaxHoriz" /\ together ->
         <<Ask(s, state, {"STATE_MAXIMIZED_HORZ", "STATE_MAXIMIZED_VERT"})>>
    [] s = "MaxVert" /\ together -> <<>>
    [] OTHER -> <<Ask(s, state, StateAtoms[s])>>

LEMMA AskHas ==
  ASSUME NEW s, NEW state, NEW atoms
  PROVE  /\ Ask(s, state, atoms).op = "send" /\ Ask(s, state, atoms).message.type = "STATE"
         /\ Ask(s, state, atoms).message.data.atoms = atoms
         /\ Ask(s, state, atoms).message.data.action = On(s, state)
<1>1. PICK data : data = [action |-> On(s, state), atoms |-> atoms]
  OBVIOUS
<1>2. data.action = On(s, state) /\ data.atoms = atoms
  BY <1>1
<1> QED BY <1>1, <1>2, RequestsHave DEF Ask

LEMMA MessagesOfOne ==
  ASSUME NEW s \in DOMAIN StateAtoms, NEW state, NEW together
  PROVE  /\ IsList(MessagesOf(s, state, together))
         /\ \A r \in In(MessagesOf(s, state, together)) :
              \/ \E atoms \in SUBSET StateAtoms[s] : r = Ask(s, state, atoms)
              \/ /\ s = "MaxHoriz" /\ together
                 /\ r = Ask(s, state, {"STATE_MAXIMIZED_HORZ", "STATE_MAXIMIZED_VERT"})
         /\ s = "MaxHoriz" /\ together =>
              Ask(s, state, {"STATE_MAXIMIZED_HORZ", "STATE_MAXIMIZED_VERT"})
                \in In(MessagesOf(s, state, together))
         /\ ~(s \in {"MaxHoriz", "MaxVert"} /\ together) =>
              \E atom \in StateAtoms[s], atoms \in SUBSET StateAtoms[s] :
                atom \in atoms /\ Ask(s, state, atoms) \in In(MessagesOf(s, state, together))
<1>1. PICK u, v, x, y :
        /\ u = Ask(s, state, {"STATE_ABOVE"}) /\ v = Ask(s, state, {"STATE_STAYS_ON_TOP"})
        /\ x = Ask(s, state, {"STATE_MAXIMIZED_HORZ", "STATE_MAXIMIZED_VERT"})
        /\ y = Ask(s, state, StateAtoms[s])
  OBVIOUS
<1>2. PICK m : m = MessagesOf(s, state, together)
  OBVIOUS
<1>3. /\ IsList(<<u>>) /\ IsList(<<v>>) /\ IsList(<<x>>) /\ IsList(<<y>>) /\ IsList(<<>>)
      /\ In(<<u>>) = {u} /\ In(<<v>>) = {v} /\ In(<<x>>) = {x} /\ In(<<y>>) = {y}
      /\ In(<<>>) = {}
  BY ShortLists, InOne
<1>4. CASE s = "KeepAbove"
  <2>1. m = <<u>> \o <<v>>
    BY <1>1, <1>2, <1>4 DEF MessagesOf
  <2>2. IsList(m) /\ In(m) = {u, v}
    <3>1. PICK a, b : a = <<u>> /\ b = <<v>>
      OBVIOUS
    <3>2. IsList(a) /\ IsList(b) /\ In(a) = {u} /\ In(b) = {v}
      BY <1>3, <3>1
    <3>3. IsList(a \o b) /\ In(a \o b) = {u} \cup {v}
      BY <3>2, InBoth, ListConcat
    <3> QED BY <2>1, <3>1, <3>3
  <2>3. StateAtoms[s] = {"STATE_ABOVE", "STATE_STAYS_ON_TOP"}
    BY <1>4 DEF StateAtoms
  <2> QED BY <1>1, <1>2, <1>4, <2>2, <2>3
<1>5. CASE s # "KeepAbove"
  <2>1. CASE s = "MaxHoriz" /\ together
    <3>1. m = <<x>>
      BY <1>1, <1>2, <1>5, <2>1 DEF MessagesOf
    <3> QED BY <1>1, <1>2, <1>3, <2>1, <3>1
  <2>2. CASE s = "MaxVert" /\ together
    <3>1. m = <<>>
      BY <1>2, <1>5, <2>2 DEF MessagesOf
    <3> QED BY <1>2, <1>3, <2>2, <3>1
  <2>3. CASE ~(s \in {"MaxHoriz", "MaxVert"} /\ together)
    <3>1. m = <<y>>
      BY <1>1, <1>2, <1>5, <2>3 DEF MessagesOf
    <3>2. \E atom \in StateAtoms[s] : TRUE
      BY StatesInverse DEF InverseTables
    <3> QED BY <1>1, <1>2, <1>3, <2>3, <3>1, <3>2
  <2> QED BY <2>1, <2>2, <2>3
<1> QED BY <1>4, <1>5

\* The messages of a client ask for nothing but what the call names, and for every state
\* that is another.
LEMMA StatesAsked ==
  ASSUME NEW current, NEW state, NEW mask, NEW L, L = StateMessages(current, state, mask)
  PROVE  /\ \A r \in In(L) : /\ r.op = "send" /\ r.message.type = "STATE"
                             /\ \A w : w # "desktop" /\ About(r.message, w) =>
                                  w \in mask /\ r.message.data.action = On(w, state)
         /\ \A w \in mask \cap DOMAIN StateAtoms :
              w \notin {"Focused", "desktop"} /\ (w \in current) # (w \in state) =>
                \E r \in In(L) : About(r.message, w)
<1>3. PICK differ : differ = {s \in mask : (s \in current) # (s \in state)}
  OBVIOUS
<1>4. PICK different : different = Those(StateOrder, differ)
  OBVIOUS
<1>5. /\ different \in Seq(DOMAIN StateAtoms \cap differ)
      /\ InOrder(StateOrder, differ, different)
  BY <1>4, StatesInOrder, ThoseInOrder
<1>6. PICK together : together = (/\ {"MaxHoriz", "MaxVert"} \subseteq differ
                                  /\ ("MaxHoriz" \in state) = ("MaxVert" \in state))
  OBVIOUS
<1>7. PICK n \in Nat : n = Len(different) /\ DOMAIN different = 1..n
  BY <1>5
<1>8. PICK parts : parts = [i \in DOMAIN different |-> MessagesOf(different[i], state, together)]
  OBVIOUS
<1>9. L = FlattenSeq(parts)
  BY <1>3, <1>4, <1>6, <1>8 DEF StateMessages, MessagesOf, Ask
<1>10. ASSUME NEW i \in 1..n
       PROVE  different[i] \in DOMAIN StateAtoms \cap differ
  BY <1>5, <1>7
<1>11. PICK S : S = UNION {In(parts[i]) : i \in 1..n}
  OBVIOUS
<1>12. ASSUME NEW i \in 1..n PROVE parts[i] \in Seq(S)
  <2>1. IsList(parts[i])
    BY <1>7, <1>8, <1>10, MessagesOfOne
  <2>2. PICK m : m = parts[i]
    OBVIOUS
  <2>3. PICK T : m \in Seq(T)
    BY <2>1, <2>2 DEF IsList
  <2>4. \A j \in 1..Len(m) : m[j] \in S
    BY <1>11, <2>2 DEF In
  <2>5. m \in Seq(S)
    BY <2>3, <2>4
  <2> QED BY <2>2, <2>5
<1>13. parts \in Seq(Seq(S)) /\ Len(parts) = n
  <2>1. parts \in [1..n -> Seq(S)]
    BY <1>7, <1>8, <1>12
  <2> QED BY <2>1, FunctionIsSeq
<1>14. \A r : r \in In(L) <=> \E i \in 1..n : r \in In(parts[i])
  BY <1>9, <1>13, InFlat
<1>15. ASSUME NEW r \in In(L)
       PROVE  /\ r.op = "send" /\ r.message.type = "STATE"
              /\ \A w : w # "desktop" /\ About(r.message, w) =>
                   w \in mask /\ r.message.data.action = On(w, state)
  <2>1. PICK i \in 1..n : r \in In(parts[i])
    BY <1>14
  <2>2. PICK s \in DOMAIN StateAtoms \cap differ : s = different[i]
    BY <1>10
  <2>3. r \in In(MessagesOf(s, state, together))
    BY <1>7, <1>8, <2>1, <2>2
  <2>4. CASE \E atoms \in SUBSET StateAtoms[s] : r = Ask(s, state, atoms)
    <3>1. PICK atoms \in SUBSET StateAtoms[s] : r = Ask(s, state, atoms)
      BY <2>4
    <3>2. /\ r.op = "send" /\ r.message.type = "STATE" /\ r.message.data.atoms = atoms
          /\ r.message.data.action = On(s, state)
      BY <3>1, AskHas
    <3>3. \A atom \in atoms : StateFlag[atom] = s
      BY <2>2, StatesInverse DEF InverseTables
    <3>4. \A w : w # "desktop" /\ About(r.message, w) => w = s
      BY <3>2, <3>3 DEF About
    <3> QED BY <1>3, <2>2, <3>2, <3>4
  <2>5. CASE /\ s = "MaxHoriz" /\ together
             /\ r = Ask(s, state, {"STATE_MAXIMIZED_HORZ", "STATE_MAXIMIZED_VERT"})
    <3>1. /\ r.op = "send" /\ r.message.type = "STATE"
          /\ r.message.data.atoms = {"STATE_MAXIMIZED_HORZ", "STATE_MAXIMIZED_VERT"}
          /\ r.message.data.action = On(s, state)
      BY <2>5, AskHas
    <3>2. /\ StateFlag["STATE_MAXIMIZED_HORZ"] = "MaxHoriz"
          /\ StateFlag["STATE_MAXIMIZED_VERT"] = "MaxVert"
      BY DEF StateFlag
    <3>3. \A w : w # "desktop" /\ About(r.message, w) => w \in {"MaxHoriz", "MaxVert"}
      BY <3>1, <3>2 DEF About
    <3>4. /\ {"MaxHoriz", "MaxVert"} \subseteq differ
          /\ ("MaxHoriz" \in state) = ("MaxVert" \in state)
      BY <1>6, <2>5
    <3>5. On("MaxHoriz", state) = On("MaxVert", state)
      BY <3>4 DEF On
    <3> QED BY <1>3, <2>5, <3>1, <3>3, <3>4, <3>5
  <2> QED BY <2>2, <2>3, <2>4, <2>5, MessagesOfOne
<1>16. ASSUME NEW w \in mask \cap DOMAIN StateAtoms, w \notin {"Focused", "desktop"},
              (w \in current) # (w \in state)
       PROVE  \E r \in In(L) : About(r.message, w)
  <2>1. ASSUME NEW s \in differ \cap DOMAIN StateAtoms, s # "Focused"
        PROVE  \A r \in In(MessagesOf(s, state, together)) : r \in In(L)
    <3>1. PICK k \in 1..Len(StateOrder) : StateOrder[k] = s
      BY <2>1, EveryState
    <3>2. PICK i \in 1..n : different[i] = s
      BY <1>5, <1>7, <2>1, <3>1 DEF InOrder
    <3> QED BY <1>7, <1>8, <1>14, <3>2
  <2>2. w \in differ \cap DOMAIN StateAtoms
    BY <1>3, <1>16
  <2>3. CASE w \in {"MaxHoriz", "MaxVert"} /\ together
    <3>1. PICK s : s = "MaxHoriz"
      OBVIOUS
    <3>2. s \in differ \cap DOMAIN StateAtoms
      BY <1>6, <2>3, <3>1 DEF StateAtoms
    <3>3. PICK r : r = Ask(s, state, {"STATE_MAXIMIZED_HORZ", "STATE_MAXIMIZED_VERT"})
      OBVIOUS
    <3>4. r \in In(MessagesOf(s, state, together))
      BY <2>3, <3>1, <3>2, <3>3, MessagesOfOne
    <3>5. r \in In(L)
      BY <2>1, <3>1, <3>2, <3>4
    <3>6. About(r.message, w)
      <4>1. /\ StateFlag["STATE_MAXIMIZED_HORZ"] = "MaxHoriz"
            /\ StateFlag["STATE_MAXIMIZED_VERT"] = "MaxVert"
        BY DEF StateFlag
      <4> QED BY <1>16, <2>3, <3>3, <4>1, AskHas DEF About
    <3> QED BY <3>5, <3>6
  <2>4. CASE ~(w \in {"MaxHoriz", "MaxVert"} /\ together)
    <3>1. PICK atom \in StateAtoms[w], atoms \in SUBSET StateAtoms[w] :
            atom \in atoms /\ Ask(w, state, atoms) \in In(MessagesOf(w, state, together))
      BY <2>2, <2>4, MessagesOfOne
    <3>2. PICK r : r = Ask(w, state, atoms)
      OBVIOUS
    <3>3. r \in In(L)
      BY <1>16, <2>1, <2>2, <3>1, <3>2
    <3>4. StateFlag[atom] = w
      BY <2>2, <3>1, StatesInverse DEF InverseTables
    <3>5. About(r.message, w)
      BY <1>16, <3>1, <3>2, <3>4, AskHas DEF About
    <3> QED BY <3>3, <3>5
  <2> QED BY <2>3, <2>4
<1> QED BY <1>15, <1>16

\* a, which has only the decision r to take, gets the list L.
Deciding(a, r, L) ==
  /\ Idle(todo[a]) /\ In(todo[a]) = {r}
  /\ \A b \in Agents : todo'[b] = IF b = a THEN L ELSE todo[b]
  /\ property' = property /\ queue' = queue /\ topic' = topic /\ managed' = managed
  /\ passed' = passed /\ alive' = alive

\* A field of a is what the property is to be.
Writes(a, k, value) ==
  \A b \in Agents, flag \in Three :
    fields'[b][flag] = IF b = a /\ flag = k THEN value ELSE fields[b][flag]

LEMMA MappingTells ==
  ASSUME Orderly
  PROVE  \A f : Read("XAWMState", f, property["XAWMState"]) = "Withdrawn"
                  <=> property["XAWMState"] = NoProperty
<1>1. PICK p : p = property["XAWMState"]
  OBVIOUS
<1>2. MappingOK(p)
  BY <1>1 DEF Orderly
<1>3. "XAWMState" \in Three
  BY DEF Three
<1>4. ASSUME NEW n \in {1, 3}, p = Property("WM_STATE", <<n>>)
      PROVE  p # NoProperty /\ \A f : Read("XAWMState", f, p) # "Withdrawn"
  <2>1. \A f : Read("XAWMState", f, p) = MappingState(n)
    BY <1>3, <1>4, MappingSays, ThreeSay
  <2>2. p # NoProperty
    BY <1>4, PropertyHas DEF NoProperty
  <2> QED BY <2>1, <2>2 DEF MappingState
<1>5. ASSUME p = NoProperty PROVE \A f : Read("XAWMState", f, p) = "Withdrawn"
  BY <1>3, <1>5, MappingSays, ThreeSay
<1> QED BY <1>1, <1>2, <1>4, <1>5 DEF MappingOK

\* The object and the property get a value: a wish that is kept stays honoured.
LEMMA WriteKeeps ==
  ASSUME Understanding, Promises, NEW w, NEW v, Promise(w, v),
         NEW a \in Agents, NEW r, NEW x, Deciding(a, r, <<x>>), x.op = "set",
         x.atom \in {"WMState", "WMDesktop"}, Writes(a, x.atom, x.value),
         a = wm => managed, a = client => Alone,
         x.atom # Key(w) => ~Decides(r, w),
         x.atom = Key(w) => \/ ~Decides(r, w)
                               /\ ValueOf(w, x.value) = ValueOf(w, fields[a][Key(w)])
                            \/ Decides(r, w) /\ a = wm /\ ValueOf(w, x.value) = v
  PROVE  Promise(w, v)'
<1>1. PICK L : L = <<x>>
  OBVIOUS
<1>2. In(L) = {x} /\ Idle(todo[a]) /\ In(todo[a]) = {r}
  BY <1>1, InOne DEF Deciding
<1>3. \A b \in Agents : todo'[b] = IF b = a THEN L ELSE todo[b]
  BY <1>1 DEF Deciding
<1>4. /\ property' = property /\ topic' = topic /\ managed' = managed /\ queue' = queue
      /\ wm \in Agents /\ client \in Agents /\ wm # client
  BY DEF Deciding, Agents, wm, client
<1>5. /\ Key(w) \in Three /\ Key(w) # "XAWMState" /\ "XAWMState" \in Three
      /\ x.atom # "XAWMState"
  BY KeyIs DEF Three
<1>6. fields'[client]["XAWMState"] = fields[client]["XAWMState"]
  BY <1>4, <1>5 DEF Writes
<1>7. ~Calling(x, w) /\ ~SendsAbout(x, w) /\ ~Decides(x, w) /\ ~Removes(x)
  BY <1>5 DEF Calling, SendsAbout, Decides, Removes
<1>8. \A m \in In(queue'[wm]) : About(m, w) => Asking(m, w, v)
  BY <1>4 DEF Promise
<1>9. ~SendsAbout(r, w)
  <2>1. r.op \in {"setState", "setDesktop"}
    BY <1>2 DEF Idle, In
  <2> QED BY <2>1 DEF SendsAbout
<1>10. Pending(w)' => Pending(w)
  BY <1>2, <1>3, <1>4, <1>7 DEF Pending
<1>11. ~Decides(r, w) => (Pending(w)' <=> Pending(w))
  <2>1. SUFFICES ASSUME ~Decides(r, w) PROVE Pending(w)' <=> Pending(w)
    OBVIOUS
  <2>2. \A y \in In(L) : ~Calling(y, w)
    BY <1>2, <1>7
  <2>3. \A y \in In(todo[a]) : ~Calling(y, w)
    BY <1>2, <1>9, <2>1 DEF Calling
  <2> QED BY <1>3, <1>4, <2>2, <2>3, PendingFills
<1>12. \A b \in Agents : b # a \/ x.atom # Key(w) => (Shows(b, w, v)' <=> Shows(b, w, v))
  BY <1>5 DEF Writes, Shows
<1>13. x.atom = Key(w) => (Shows(a, w, v)' <=> ValueOf(w, x.value) = v)
  BY <1>5 DEF Writes, Shows
<1>14. x.atom = Key(w) /\ ~Decides(r, w) =>
         (ValueOf(w, x.value) = v <=> Shows(a, w, v))
  BY DEF Shows
<1>15. x.atom = Key(w) => SetsKey(x, w)
  BY DEF SetsKey
<1>16. a = wm /\ x.atom = Key(w) => ToWrite(wm, w)'
  BY <1>2, <1>3, <1>4, <1>15 DEF ToWrite
<1>17. a = client => Shows(client, w, v) /\ ~Pending(w)
  BY DEF Promise
<1>18. a = wm => Shows(wm, w, v) \/ Pending(w)
  BY <1>2, IdleIs DEF Promise
<1>19. SetsKey(x, w)' => ValueOf(w, x.value) = v \/ (a = wm /\ Pending(w)')
  <2>1. SUFFICES ASSUME x.atom = Key(w)
                 PROVE  ValueOf(w, x.value) = v \/ (a = wm /\ Pending(w)')
    BY DEF SetsKey
  <2>2. a = wm \/ a = client
    BY DEF Agents
  <2> QED BY <1>11, <1>14, <1>17, <1>18, <2>1, <2>2
<1>20. \A y \in In(L) : Obeys(a, y, w, v)'
  BY <1>2, <1>7, <1>19 DEF Obeys
<1>21. Pending(w) => Pending(w)' \/ (a = wm /\ Shows(wm, w, v)' /\ ToWrite(wm, w)')
  BY <1>11, <1>13, <1>16
<1>22. ASSUME NEW b \in Agents, Shows(b, w, v) PROVE Shows(b, w, v)'
  <2>1. CASE b # a \/ x.atom # Key(w)
    BY <1>12, <1>22, <2>1
  <2>2. CASE b = a /\ x.atom = Key(w)
    BY <1>13, <1>14, <1>22, <2>2
  <2> QED BY <2>1, <2>2
<1> QED BY <1>2, <1>3, <1>4, <1>6, <1>8, <1>10, <1>20, <1>21, <1>22, PromiseFills DEF Promises

\* Messages that a wish is not about
LEMMA AskKeeps ==
  ASSUME Understanding, Promises, NEW w, NEW v, Promise(w, v),
         NEW a \in Agents, NEW r, NEW L, Deciding(a, r, L), fields' = fields, ~Decides(r, w),
         \A x \in In(L) : x.op = "send" /\ ~About(x.message, w)
  PROVE  Promise(w, v)'
<1>1. \A b \in Agents : todo'[b] = IF b = a THEN L ELSE todo[b]
  BY DEF Deciding
<1>2. /\ property' = property /\ topic' = topic /\ managed' = managed /\ queue' = queue
      /\ In(todo[a]) = {r} /\ Idle(todo[a])
  BY DEF Deciding
<1>3. \A x \in In(L) : ~Calling(x, w) /\ Obeys(a, x, w, v)'
  BY DEF Calling, Obeys, SendsAbout, Decides, SetsKey, Removes
<1>4. ~Calling(r, w)
  <2>1. r.op \in {"setState", "setDesktop"}
    BY <1>2 DEF Idle, In
  <2> QED BY <2>1 DEF Calling, SendsAbout
<1>5. Pending(w)' <=> Pending(w)
  <2>1. \A y \in In(todo[a]) : ~Calling(y, w)
    BY <1>2, <1>4
  <2> QED BY <1>1, <1>2, <1>3, <2>1, PendingFills
<1>6. \A b : Shows(b, w, v)' <=> Shows(b, w, v)
  BY DEF Shows
<1>7. \A m \in In(queue'[wm]) : About(m, w) => Asking(m, w, v)
  BY <1>2 DEF Promise
<1> QED BY <1>1, <1>2, <1>3, <1>5, <1>6, <1>7, PromiseFills DEF Promises

\* A new wish of a client that is alone: it has written it.
LEMMA NewAlone ==
  ASSUME Understanding, Promises, NEW w, NEW v, Key(w) \in topic, Sure(Key(w)),
         fields[client]["XAWMState"] = "Withdrawn",
         NEW r, NEW x, Deciding(client, r, <<x>>), x.op = "set", x.atom = Key(w),
         Writes(client, x.atom, x.value), ValueOf(w, x.value) = v
  PROVE  Promise(w, v)'
<1>1. PICK L : L = <<x>>
  OBVIOUS
<1>2. In(L) = {x} /\ In(<<>>) = {}
  BY <1>1, InOne
<1>3. \A b \in Agents : todo'[b] = IF b = client THEN L ELSE todo[b]
  BY <1>1 DEF Deciding
<1>4. /\ property' = property /\ topic' = topic /\ managed' = managed /\ queue' = queue
      /\ wm \in Agents /\ client \in Agents /\ wm # client
  BY DEF Deciding, Agents, wm, client
<1>5. /\ Key(w) \in Three /\ Key(w) # "XAWMState" /\ "XAWMState" \in Three
  BY KeyIs DEF Three
<1>6. /\ fields'[client]["XAWMState"] = "Withdrawn" /\ Shows(client, w, v)'
  BY <1>4, <1>5 DEF Writes, Shows
<1>7. queue[wm] = <<>> /\ todo[wm] = <<>>
  BY DEF Sure
<1>8. \A b \in Agents : \A y \in In(todo'[b]) : b = client /\ y = x
  BY <1>2, <1>3, <1>7 DEF Agents
<1>9. ~Calling(x, w) /\ ~SendsAbout(x, w) /\ ~Decides(x, w) /\ ~Removes(x)
  BY <1>5 DEF Calling, SendsAbout, Decides, Removes
<1>10. ~Pending(w)'
  BY <1>2, <1>4, <1>7, <1>8, <1>9 DEF Pending
<1>11. \A b \in Agents : \A y \in In(todo'[b]) : Obeys(b, y, w, v)'
  BY <1>8, <1>9 DEF Obeys
<1>12. ToWrite(client, w)'
  BY <1>2, <1>3, <1>4 DEF ToWrite, SetsKey
<1>13. ~managed
  <2>1. "Withdrawn" = Read("XAWMState", fields[client]["XAWMState"], property["XAWMState"])
    BY DEF Sure
  <2>2. property["XAWMState"] = NoProperty
    BY <2>1, MappingTells DEF Promises
  <2> QED BY <2>2 DEF Sure
<1>14. Alone'
  BY <1>6 DEF Alone
<1>15. \A m \in In(queue'[wm]) : About(m, w) => Asking(m, w, v)
  BY <1>2, <1>4, <1>7
<1> QED BY <1>4, <1>6, <1>10, <1>11, <1>12, <1>13, <1>14, <1>15 DEF Promise

\* A new wish of a client that asks: it is so, or a message is on its way.
LEMMA NewAsked ==
  ASSUME Understanding, Promises, NEW w, NEW v, Key(w) \in topic, Sure(Key(w)),
         fields[client]["XAWMState"] # "Withdrawn",
         NEW r, NEW L, Deciding(client, r, L), fields' = fields,
         \A x \in In(L) : x.op = "send" /\ (About(x.message, w) => Asking(x.message, w, v)),
         Shows(client, w, v) \/ \E x \in In(L) : About(x.message, w)
  PROVE  Promise(w, v)'
<1>3. \A b \in Agents : todo'[b] = IF b = client THEN L ELSE todo[b]
  BY DEF Deciding
<1>4. /\ property' = property /\ topic' = topic /\ managed' = managed /\ queue' = queue
      /\ wm \in Agents /\ client \in Agents /\ wm # client
  BY DEF Deciding, Agents, wm, client
<1>5. /\ Key(w) \in Three /\ Key(w) # "XAWMState" /\ "XAWMState" \in Three
  BY KeyIs DEF Three
<1>7. queue[wm] = <<>> /\ todo[wm] = <<>> /\ In(<<>>) = {}
  BY InOne DEF Sure
<1>8. \A b \in Agents : \A y \in In(todo'[b]) : y \in In(L)
  BY <1>3, <1>7 DEF Agents
<1>9. \A y \in In(L) : Obeys(client, y, w, v)' /\ ~Decides(y, w) /\ ~SetsKey(y, w) /\ ~Removes(y)
  BY DEF Obeys, SendsAbout, Decides, SetsKey, Removes
<1>11. \A b \in Agents : \A y \in In(todo'[b]) : Obeys(b, y, w, v)'
  <2>1. ASSUME NEW b \in Agents, NEW y \in In(todo'[b]) PROVE Obeys(b, y, w, v)'
    <3>1. y \in In(L)
      BY <1>8, <2>1
    <3>2. SendsAbout(y, w)' => Asking(y.message, w, v)'
      BY <3>1 DEF SendsAbout
    <3> QED BY <1>9, <3>1, <3>2 DEF Obeys
  <2> QED BY <2>1
<1>12. (\E x \in In(L) : About(x.message, w)) => Pending(w)'
  BY <1>3, <1>4 DEF Pending, Calling, SendsAbout
<1>13. managed /\ ~Alone'
  <2>1. fields[client]["XAWMState"]
          = Read("XAWMState", fields[client]["XAWMState"], property["XAWMState"])
    BY DEF Sure
  <2>2. property["XAWMState"] # NoProperty
    BY <2>1, MappingTells DEF Promises
  <2> QED BY <1>4, <2>2 DEF Sure, Alone
<1>14. Shows(client, w, v) => Settled(w, v)'
  <2>1. fields[client][Key(w)] = Read(Key(w), fields[client][Key(w)], property[Key(w)])
    BY DEF Sure
  <2>2. fields[client][Key(w)] = Read(Key(w), 0, property[Key(w)])
    BY <1>5, <2>1, ThreeAre
  <2> QED BY <1>4, <2>2 DEF Shows, Settled
<1>15. Shows(client, w, v) => Shows(wm, w, v)'
  <2>1. wm \in alive /\ Key(w) \in passed[wm] \cap Known
    BY <1>5, <1>13, ThreeAre DEF Promises, Orderly
  <2>2. View(queue[wm], todo[wm], fields[wm][Key(w)], property, Key(w))
    BY <2>1 DEF Understanding
  <2>3. UpToDate(fields[wm][Key(w)], property, Key(w))
    <3>1. Idle(<<>>) /\ 1..Len(<<>>) = {}
      BY NothingIdle
    <3>2. ~Told(<<>>, Key(w))
      BY <3>1 DEF Told
    <3> QED BY <1>7, <2>2, <3>1, <3>2, IdleView
  <2>4. fields[wm][Key(w)] = Read(Key(w), 0, property[Key(w)])
    BY <1>5, <2>3, ThreeAre DEF UpToDate, ReadAll
  <2>5. Shows(client, w, v) => Settled(w, v)
    BY <1>4, <1>14 DEF Settled
  <2> QED BY <2>4, <2>5 DEF Shows, Settled
<1>16. \A m \in In(queue'[wm]) : About(m, w) => Asking(m, w, v)
  BY <1>4, <1>7
<1> QED BY <1>4, <1>11, <1>12, <1>13, <1>14, <1>15, <1>16 DEF Promise

LEMMA WishesSay ==
  ASSUME NEW a, NEW own, NEW flag, NEW named, NEW new, Wishes(a, own, flag, named, new)
  PROVE  /\ DOMAIN wish' = DOMAIN wish
         /\ \A w \in DOMAIN wish :
              \/ (~own \/ w \notin named) /\ wish'[w] = wish[w]
              \/ wish'[w] = Nothing
              \/ /\ own /\ a = client /\ Sure(flag) /\ w \in named \cap DOMAIN new
                 /\ wish'[w] = {new[w]}
<1>1. CASE ~own
  BY <1>1 DEF Wishes
<1>2. CASE own
  BY <1>2 DEF Wishes
<1> QED BY <1>1, <1>2

\* The decision of a
LEMMA DecidingIs ==
  ASSUME Understanding, NEW a \in Agents, NEW r, r = Head(todo[a]), todo[a] # <<>>,
         r.op \in {"setState", "setDesktop"}, NEW L, IsList(L),
         todo' = [todo EXCEPT ![a] = L \o Tail(@)],
         UNCHANGED <<property, queue, dirty, alive, managed, topic, passed, meant, changes>>
  PROVE  Deciding(a, r, L)
<1>1. /\ Idle(todo[a]) /\ Tail(todo[a]) = <<>>
  BY DecisionIsLast
<1>2. In(todo[a]) = {r}
  <2>1. PICK s : s = todo[a]
    OBVIOUS
  <2>2. IsList(s) /\ s # <<>> /\ Head(s) = r /\ Tail(s) = <<>>
    BY <1>1, <2>1, ListOf
  <2>3. In(s) = {Head(s)} \cup In(Tail(s))
    BY <2>2, InOf
  <2> QED BY <2>1, <2>2, <2>3, InOne
<1>3. \A b \in Agents : todo'[b] = IF b = a THEN L \o Tail(todo[a]) ELSE todo[b]
  BY DEF Understanding
<1>4. L \o Tail(todo[a]) = L
  BY <1>1, NothingAfter
<1> QED BY <1>1, <1>2, <1>3, <1>4 DEF Deciding

LEMMA DecidingOrderly ==
  ASSUME Promises, NEW a \in Agents, NEW r, NEW L, Deciding(a, r, L), DOMAIN wish' = DOMAIN wish,
         \A x \in In(L) : \/ x.op = "send" /\ a = client
                          \/ x.op = "set" /\ x.atom \in {"WMState", "WMDesktop"}
  PROVE  Orderly'
<1>1. Tidy(L)
  BY DEF Tidy
<1>2. \A x \in In(L) : Proper(a, x)'
  BY DEF Proper
<1>3. managed' = (wm \in alive') /\ (managed => managed')
  BY DEF Deciding, Promises, Orderly
<1> QED BY <1>1, <1>2, <1>3, OrderlyFills DEF Deciding, Promises

\* Writing a field of an object that is complete
LEMMA WritesField ==
  ASSUME Understanding, NEW a \in Agents, NEW k \in Three, NEW value,
         fields' = [fields EXCEPT ![a][k] = value]
  PROVE  Writes(a, k, value)
<1>1. DOMAIN fields = Agents /\ \A b \in Agents : DOMAIN fields[b] = Flags
  BY DEF Understanding, GoodFields
<1>2. Three \subseteq Flags
  BY ThreeAre
<1>3. \A b \in Agents : fields'[b] = IF b = a THEN [fields[a] EXCEPT ![k] = value] ELSE fields[b]
  BY <1>1
<1>4. \A b \in Agents, flag \in Flags :
        fields'[b][flag] = IF b = a /\ flag = k THEN value ELSE fields[b][flag]
  BY <1>1, <1>2, <1>3
<1> QED BY <1>2, <1>4 DEF Writes

LEMMA DecideStatePromise ==
  ASSUME Understanding, Promises, NEW a \in Agents, DecideState(a)
  PROVE  Promises'
<1>1. PICK r : r = Head(todo[a])
  OBVIOUS
<1>2. PICK current : current = fields[a]["WMState"]
  OBVIOUS
<1>3. PICK new : new = (current \ r.mask) \cup r.state
  OBVIOUS
<1>4. PICK named, fresh : /\ named = r.mask \cup r.state
                          /\ fresh = [s \in r.mask \ {"Focused"} |-> s \in r.state]
  OBVIOUS
<1>5. /\ todo[a] # <<>> /\ r.op = "setState" /\ Wishes(a, r.own, "WMState", named, fresh)
      /\ UNCHANGED <<property, queue, dirty, alive, managed, topic, passed, meant, changes>>
  BY <1>1, <1>4 DEF DecideState, Works
<1>6. /\ r.mask \subseteq DOMAIN StateAtoms /\ r.state \subseteq DOMAIN StateAtoms
  BY <1>1, <1>5, DecisionIsLast DEF GoodRequest
<1>7. "desktop" \notin DOMAIN StateAtoms
  BY DEF StateAtoms
<1>8. wm \in Agents /\ client \in Agents /\ wm # client
  BY DEF Agents, wm, client
<1>9. Proper(a, r)
  <2>1. r \in In(todo[a])
    BY <1>1, <1>5, ListOf, InOf
  <2> QED BY <2>1 DEF Promises, Orderly
<1>10. /\ a = wm => managed
       /\ r.own => "WMState" \in topic
       /\ ~r.own => a = wm /\ r.state \subseteq r.mask
  BY <1>5, <1>9 DEF Proper
<1>11. DOMAIN wish = States \cup {"desktop"}
  BY DEF Promises, Orderly
<1>12. /\ DOMAIN wish' = DOMAIN wish
       /\ \A w \in States \cup {"desktop"} :
            \/ (~r.own \/ w \notin named) /\ wish'[w] = wish[w]
            \/ wish'[w] = Nothing
            \/ /\ r.own /\ a = client /\ Sure("WMState") /\ w \in r.mask \ {"Focused"}
               /\ wish'[w] = {fresh[w]}
  <2>1. DOMAIN fresh = r.mask \ {"Focused"}
    BY <1>4
  <2>2. /\ DOMAIN wish' = DOMAIN wish
        /\ \A w \in DOMAIN wish :
             \/ (~r.own \/ w \notin named) /\ wish'[w] = wish[w]
             \/ wish'[w] = Nothing
             \/ /\ r.own /\ a = client /\ Sure("WMState") /\ w \in named \cap DOMAIN fresh
                /\ wish'[w] = {fresh[w]}
    BY <1>5, WishesSay
  <2> QED BY <1>11, <2>1, <2>2
<1>13. \A w : w # "desktop" => Key(w) = "WMState"
  BY DEF Key
<1>14. ASSUME NEW w \in r.mask \ {"Focused"}, wish'[w] = {fresh[w]}
       PROVE  Wished(w, On(w, r.state))'
  <2>1. w # "desktop"
    BY <1>6, <1>7, <1>14
  <2>2. CASE w \in r.state
    <3>1. fresh[w] = TRUE
      BY <1>4, <2>2
    <3>2. wish'[w] = {TRUE}
      BY <1>14, <3>1
    <3> QED BY <2>1, <2>2, <3>2 DEF Wished, On
  <2>3. CASE w \notin r.state
    <3>1. fresh[w] = FALSE
      <4>1. fresh[w] = (w \in r.state)
        BY <1>4
      <4>2. (w \in r.state) = FALSE
        BY <2>3
      <4> QED BY <4>1, <4>2, Zenon
    <3>2. wish'[w] = {FALSE}
      BY <1>14, <3>1
    <3> QED BY <2>1, <2>3, <3>2 DEF Wished, On
  <2> QED BY <2>2, <2>3
<1>15. CASE Asks(a)
  <2>1. PICK L : L = StateMessages(current, r.state, r.mask)
    OBVIOUS
  <2>2. /\ a = client /\ r.own /\ fields[client]["XAWMState"] # "Withdrawn"
    BY <1>8, <1>10, <1>15 DEF Asks
  <2>3. todo' = [todo EXCEPT ![a] = L \o Tail(@)] /\ fields' = fields
    BY <1>1, <1>2, <1>15, <2>1 DEF DecideState
  <2>4. IsList(L)
    BY <2>1, StateMessagesAre
  <2>5. Deciding(a, r, L)
    BY <1>1, <1>5, <2>3, <2>4, DecidingIs
  <2>6. \A x \in In(L) : /\ x.op = "send" /\ x.message.type = "STATE"
                         /\ \A w : w # "desktop" /\ About(x.message, w) =>
                              w \in r.mask /\ x.message.data.action = On(w, r.state)
    BY <2>1, StatesAsked
  <2>7. \A w \in r.mask \cap DOMAIN StateAtoms :
          w \notin {"Focused", "desktop"} /\ (w \in current) # (w \in r.state) =>
            \E x \in In(L) : About(x.message, w)
    BY <2>1, StatesAsked
  <2>8. Orderly'
    BY <1>12, <2>2, <2>5, <2>6, DecidingOrderly
  <2>9. ASSUME NEW w \in States \cup {"desktop"} PROVE Honoured(w)'
    <3>1. CASE wish'[w] = Nothing
      BY <3>1 DEF Honoured
    <3>2. CASE w \notin named /\ wish'[w] = wish[w] /\ wish'[w] # Nothing
      <4>1. PICK v : w # "Focused" /\ Wished(w, v) /\ Promise(w, v)
        BY <3>2 DEF Promises, Honoured
      <4>2. \A x \in In(L) : x.op = "send" /\ ~About(x.message, w)
        BY <1>4, <2>6, <3>2 DEF About
      <4>3. ~Decides(r, w)
        BY <2>2 DEF Decides
      <4>4. Promise(w, v)'
        BY <2>3, <2>5, <4>1, <4>2, <4>3, AskKeeps
      <4>5. Wished(w, v)'
        BY <3>2, <4>1 DEF Wished
      <4> QED BY <4>1, <4>4, <4>5 DEF Honoured
    <3>3. CASE Sure("WMState") /\ w \in r.mask \ {"Focused"} /\ wish'[w] = {fresh[w]}
      <4>1. PICK v : v = On(w, r.state)
        OBVIOUS
      <4>2. w # "desktop" /\ w \in DOMAIN StateAtoms /\ Key(w) = "WMState"
        BY <1>6, <1>7, <1>13, <3>3
      <4>3. \A x \in In(L) : x.op = "send" /\ (About(x.message, w) => Asking(x.message, w, v))
        BY <2>6, <4>1, <4>2 DEF Asking
      <4>4. Shows(client, w, v) \/ \E x \in In(L) : About(x.message, w)
        <5>1. CASE (w \in current) # (w \in r.state)
          BY <2>7, <3>3, <4>2, <5>1
        <5>2. CASE (w \in current) = (w \in r.state)
          BY <1>2, <2>2, <4>1, <4>2, <5>2 DEF Shows, ValueOf, On
        <5> QED BY <5>1, <5>2
      <4>5. Promise(w, v)'
        BY <1>10, <2>2, <2>3, <2>5, <3>3, <4>2, <4>3, <4>4, NewAsked
      <4>6. Wished(w, v)'
        BY <1>14, <3>3, <4>1
      <4> QED BY <3>3, <4>5, <4>6 DEF Honoured
    <3> QED BY <1>12, <2>2, <3>1, <3>2, <3>3
  <2> QED BY <2>8, <2>9 DEF Promises
<1>16. CASE ~Asks(a)
  <2>1. PICK x : x = Set("WMState", "ATOM", AtomsOf(StateAtoms, new), new)
    OBVIOUS
  <2>2. x.op = "set" /\ x.atom = "WMState" /\ x.value = new
    BY <2>1, RequestsHave
  <2>3. PICK L : L = <<x>>
    OBVIOUS
  <2>4. /\ todo' = [todo EXCEPT ![a] = L \o Tail(@)]
        /\ fields' = [fields EXCEPT ![a]["WMState"] = new]
    BY <1>1, <1>2, <1>3, <1>16, <2>1, <2>3 DEF DecideState
  <2>5. IsList(L) /\ In(L) = {x}
    BY <2>3, ShortLists, InOne
  <2>6. Deciding(a, r, L)
    BY <1>1, <1>5, <2>4, <2>5, DecidingIs
  <2>7. Writes(a, x.atom, x.value)
    <3>1. "WMState" \in Three
      BY DEF Three
    <3> QED BY <2>2, <2>4, <3>1, WritesField
  <2>8. Orderly'
    BY <1>12, <2>2, <2>5, <2>6, DecidingOrderly
  <2>9. a = client => fields[client]["XAWMState"] = "Withdrawn" /\ Alone
    BY <1>16 DEF Asks, Alone
  <2>10. ASSUME NEW w \in States \cup {"desktop"} PROVE Honoured(w)'
    <3>1. CASE wish'[w] = Nothing
      BY <3>1 DEF Honoured
    <3>2. CASE (~r.own \/ w \notin named) /\ wish'[w] = wish[w] /\ wish'[w] # Nothing
      <4>1. PICK v : w # "Focused" /\ Wished(w, v) /\ Promise(w, v)
        BY <3>2 DEF Promises, Honoured
      <4>2. x.atom # Key(w) => ~Decides(r, w)
        BY <1>5, <1>13, <2>2 DEF Decides
      <4>3. x.atom = Key(w) => \/ ~Decides(r, w)
                                  /\ ValueOf(w, x.value) = ValueOf(w, fields[a][Key(w)])
                               \/ Decides(r, w) /\ a = wm /\ ValueOf(w, x.value) = v
        <5>1. SUFFICES ASSUME x.atom = Key(w)
                       PROVE  \/ ~Decides(r, w)
                                 /\ ValueOf(w, x.value) = ValueOf(w, fields[a][Key(w)])
                              \/ Decides(r, w) /\ a = wm /\ ValueOf(w, x.value) = v
          OBVIOUS
        <5>2. w # "desktop" /\ Key(w) = "WMState"
          BY <1>13, <2>2, <5>1 DEF Key
        <5>3. CASE Decides(r, w)
          <6>1. ~r.own /\ w \in r.mask /\ a = wm
            BY <1>10, <5>2, <5>3 DEF Decides
          <6>2. On(w, r.state) = v
            <7>1. r \in In(todo[a])
              BY <2>6 DEF Deciding
            <7>2. Decided(r, w) = v
              BY <4>1, <5>3, <7>1 DEF Promise, Obeys
            <7> QED BY <5>2, <7>2 DEF Decided
          <6>3. w \in new <=> w \in r.state
            BY <1>3, <6>1
          <6> QED BY <2>2, <5>2, <5>3, <6>1, <6>2, <6>3 DEF ValueOf, On
        <5>4. CASE ~Decides(r, w)
          <6>1. w \notin r.mask /\ w \notin r.state
            BY <1>4, <1>5, <1>10, <3>2, <5>2, <5>4 DEF Decides
          <6>2. w \in new <=> w \in current
            BY <1>3, <6>1
          <6> QED BY <1>2, <2>2, <5>2, <5>4, <6>2 DEF ValueOf, On
        <5> QED BY <5>3, <5>4
      <4>4. Promise(w, v)'
        <5>1. x.atom \in {"WMState", "WMDesktop"} /\ Deciding(a, r, <<x>>)
          BY <2>2, <2>3, <2>6
        <5> QED BY <1>10, <2>2, <2>7, <2>9, <4>1, <4>2, <4>3, <5>1, WriteKeeps
      <4>5. Wished(w, v)'
        BY <3>2, <4>1 DEF Wished
      <4> QED BY <4>1, <4>4, <4>5 DEF Honoured
    <3>3. CASE /\ r.own /\ a = client /\ Sure("WMState") /\ w \in r.mask \ {"Focused"}
               /\ wish'[w] = {fresh[w]}
      <4>1. PICK v : v = On(w, r.state)
        OBVIOUS
      <4>2. w # "desktop" /\ Key(w) = "WMState"
        BY <1>6, <1>7, <1>13, <3>3
      <4>3. ValueOf(w, x.value) = v
        <5>1. w \in new <=> w \in r.state
          BY <1>3, <3>3
        <5> QED BY <2>2, <4>1, <4>2, <5>1 DEF ValueOf, On
      <4>4. Deciding(client, r, <<x>>) /\ Writes(client, x.atom, x.value)
        BY <2>3, <2>6, <2>7, <3>3
      <4>5. Promise(w, v)'
        BY <1>10, <2>2, <2>9, <3>3, <4>2, <4>3, <4>4, NewAlone
      <4>6. Wished(w, v)'
        BY <1>14, <3>3, <4>1
      <4> QED BY <3>3, <4>5, <4>6 DEF Honoured
    <3> QED BY <1>12, <3>1, <3>2, <3>3
  <2> QED BY <2>8, <2>10 DEF Promises
<1> QED BY <1>15, <1>16

LEMMA DecideDesktopPromise ==
  ASSUME Understanding, Promises, NEW a \in Agents, DecideDesktop(a)
  PROVE  Promises'
<1>1. PICK r : r = Head(todo[a])
  OBVIOUS
<1>2. PICK d : d = r.desktop
  OBVIOUS
<1>3. PICK named, fresh : /\ named = IF Asks(a) /\ d = 0 THEN {} ELSE {"desktop"}
                          /\ fresh = [s \in {"desktop"} |-> d]
  OBVIOUS
<1>4. /\ todo[a] # <<>> /\ r.op = "setDesktop" /\ Wishes(a, r.own, "WMDesktop", named, fresh)
      /\ UNCHANGED <<property, queue, dirty, alive, managed, topic, passed, meant, changes>>
  BY <1>1, <1>2, <1>3 DEF DecideDesktop, Works
<1>5. d \in -1..(Word - 1)
  BY <1>1, <1>2, <1>4, DecisionIsLast DEF GoodRequest
<1>6. wm \in Agents /\ client \in Agents /\ wm # client
  BY DEF Agents, wm, client
<1>7. Proper(a, r)
  <2>1. r \in In(todo[a])
    BY <1>1, <1>4, ListOf, InOf
  <2> QED BY <2>1 DEF Promises, Orderly
<1>8. /\ a = wm => managed
      /\ r.own => "WMDesktop" \in topic
      /\ ~r.own => a = wm
  BY <1>4, <1>7 DEF Proper
<1>9. DOMAIN wish = States \cup {"desktop"}
  BY DEF Promises, Orderly
<1>10. /\ DOMAIN wish' = DOMAIN wish
       /\ \A w \in States \cup {"desktop"} :
            \/ (~r.own \/ w \notin named) /\ wish'[w] = wish[w]
            \/ wish'[w] = Nothing
            \/ /\ r.own /\ a = client /\ Sure("WMDesktop") /\ w \in named /\ w = "desktop"
               /\ wish'[w] = {d}
  <2>1. DOMAIN fresh = {"desktop"} /\ fresh["desktop"] = d
    BY <1>3
  <2>2. /\ DOMAIN wish' = DOMAIN wish
        /\ \A w \in DOMAIN wish :
             \/ (~r.own \/ w \notin named) /\ wish'[w] = wish[w]
             \/ wish'[w] = Nothing
             \/ /\ r.own /\ a = client /\ Sure("WMDesktop") /\ w \in named \cap DOMAIN fresh
                /\ wish'[w] = {fresh[w]}
    BY <1>4, WishesSay
  <2> QED BY <1>9, <2>1, <2>2
<1>11. Key("desktop") = "WMDesktop" /\ \A w : w # "desktop" => Key(w) = "WMState"
  BY DEF Key
<1>12. todo' = [todo EXCEPT ![a] =
                  (CASE Asks(a) /\ d = 0 -> <<>>
                     [] Asks(a) /\ d # 0 -> <<Send("DESKTOP", <<DesktopData(d)>>)>>
                     [] ~Asks(a) /\ d = 0 -> <<Delete("WMDesktop", 0)>>
                     [] ~Asks(a) /\ d # 0 ->
                          <<Set("WMDesktop", "CARDINAL", <<DesktopData(d)>>, d)>>) \o Tail(@)]
  BY <1>1, <1>2 DEF DecideDesktop
<1>13. /\ Asks(a) => fields' = fields
       /\ ~Asks(a) => fields' = [fields EXCEPT ![a]["WMDesktop"] = d]
  BY <1>1, <1>2 DEF DecideDesktop
<1>14. CASE Asks(a)
  <2>1. PICK m : m = Send("DESKTOP", <<DesktopData(d)>>)
    OBVIOUS
  <2>2. m.op = "send" /\ m.message.type = "DESKTOP" /\ m.message.data[1] = DesktopData(d)
    BY <2>1, RequestsHave
  <2>3. PICK L : L = IF d = 0 THEN <<>> ELSE <<m>>
    OBVIOUS
  <2>4. IsList(L) /\ In(L) = IF d = 0 THEN {} ELSE {m}
    BY <2>3, ShortLists, InOne
  <2>5. todo' = [todo EXCEPT ![a] = L \o Tail(@)] /\ fields' = fields
    BY <1>12, <1>13, <1>14, <2>1, <2>3
  <2>6. Deciding(a, r, L)
    BY <1>1, <1>4, <2>4, <2>5, DecidingIs
  <2>7. /\ a = client /\ r.own /\ fields[client]["XAWMState"] # "Withdrawn"
    BY <1>6, <1>8, <1>14 DEF Asks
  <2>8. Orderly'
    BY <1>10, <2>2, <2>4, <2>6, <2>7, DecidingOrderly
  <2>9. ASSUME NEW w \in States \cup {"desktop"} PROVE Honoured(w)'
    <3>1. CASE wish'[w] = Nothing
      BY <3>1 DEF Honoured
    <3>2. CASE w \notin named /\ wish'[w] = wish[w] /\ wish'[w] # Nothing
      <4>1. PICK v : w # "Focused" /\ Wished(w, v) /\ Promise(w, v)
        BY <3>2 DEF Promises, Honoured
      <4>2. \A x \in In(L) : x.op = "send" /\ ~About(x.message, w)
        <5>1. CASE d = 0
          BY <2>4, <5>1
        <5>2. CASE d # 0
          BY <1>3, <2>2, <2>4, <3>2, <5>2 DEF About
        <5> QED BY <5>1, <5>2
      <4>3. ~Decides(r, w)
        BY <2>7 DEF Decides
      <4>4. Promise(w, v)'
        BY <2>5, <2>6, <4>1, <4>2, <4>3, AskKeeps
      <4>5. Wished(w, v)'
        BY <3>2, <4>1 DEF Wished
      <4> QED BY <4>1, <4>4, <4>5 DEF Honoured
    <3>3. CASE Sure("WMDesktop") /\ w \in named /\ w = "desktop" /\ wish'[w] = {d}
      <4>1. d # 0 /\ In(L) = {m}
        BY <1>3, <1>14, <2>4, <3>3
      <4>2. About(m.message, w) /\ Asking(m.message, w, d)
        BY <1>5, <2>2, <3>3, <4>1, DesktopAgain DEF About, Asking
      <4>3. \A x \in In(L) : x.op = "send" /\ (About(x.message, w) => Asking(x.message, w, d))
        BY <2>2, <4>1, <4>2
      <4>4. \E x \in In(L) : About(x.message, w)
        BY <4>1, <4>2
      <4>5. Key(w) \in topic /\ Sure(Key(w))
        BY <1>8, <1>11, <2>7, <3>3
      <4>6. Promise(w, d)'
        BY <2>5, <2>6, <2>7, <4>3, <4>4, <4>5, NewAsked
      <4>7. Wished(w, d)'
        BY <3>3 DEF Wished
      <4> QED BY <3>3, <4>6, <4>7 DEF Honoured
    <3> QED BY <1>10, <2>7, <3>1, <3>2, <3>3
  <2> QED BY <2>8, <2>9 DEF Promises
<1>15. CASE ~Asks(a)
  <2>1. PICK x : x = IF d = 0 THEN Delete("WMDesktop", 0)
                     ELSE Set("WMDesktop", "CARDINAL", <<DesktopData(d)>>, d)
    OBVIOUS
  <2>2. x.op = "set" /\ x.atom = "WMDesktop" /\ x.value = d
    BY <2>1, RequestsHave
  <2>3. PICK L : L = <<x>>
    OBVIOUS
  <2>4. /\ todo' = [todo EXCEPT ![a] = L \o Tail(@)]
        /\ fields' = [fields EXCEPT ![a]["WMDesktop"] = d]
    BY <1>12, <1>13, <1>15, <2>1, <2>3
  <2>5. IsList(L) /\ In(L) = {x}
    BY <2>3, ShortLists, InOne
  <2>6. Deciding(a, r, L)
    BY <1>1, <1>4, <2>4, <2>5, DecidingIs
  <2>7. Writes(a, x.atom, x.value)
    <3>1. "WMDesktop" \in Three
      BY DEF Three
    <3> QED BY <2>2, <2>4, <3>1, WritesField
  <2>8. Orderly'
    BY <1>10, <2>2, <2>5, <2>6, DecidingOrderly
  <2>9. a = client => fields[client]["XAWMState"] = "Withdrawn" /\ Alone
    BY <1>15 DEF Asks, Alone
  <2>10. named = {"desktop"}
    BY <1>3, <1>15
  <2>11. ASSUME NEW w \in States \cup {"desktop"} PROVE Honoured(w)'
    <3>1. CASE wish'[w] = Nothing
      BY <3>1 DEF Honoured
    <3>2. CASE (~r.own \/ w \notin named) /\ wish'[w] = wish[w] /\ wish'[w] # Nothing
      <4>1. PICK v : w # "Focused" /\ Wished(w, v) /\ Promise(w, v)
        BY <3>2 DEF Promises, Honoured
      <4>2. x.atom # Key(w) => ~Decides(r, w)
        BY <1>4, <1>11, <2>2 DEF Decides
      <4>3. x.atom = Key(w) => Decides(r, w) /\ a = wm /\ ValueOf(w, x.value) = v
        <5>1. SUFFICES ASSUME x.atom = Key(w)
                       PROVE  Decides(r, w) /\ a = wm /\ ValueOf(w, x.value) = v
          OBVIOUS
        <5>2. w = "desktop"
          BY <1>11, <2>2, <5>1
        <5>3. ~r.own /\ a = wm /\ Decides(r, w)
          BY <1>4, <1>8, <2>10, <3>2, <5>2 DEF Decides
        <5>4. r \in In(todo[a])
          BY <2>6 DEF Deciding
        <5>5. Decided(r, w) = v
          BY <4>1, <5>3, <5>4 DEF Promise, Obeys
        <5> QED BY <1>2, <2>2, <5>2, <5>3, <5>5 DEF Decided, ValueOf
      <4>4. Promise(w, v)'
        <5>1. x.atom \in {"WMState", "WMDesktop"} /\ Deciding(a, r, <<x>>)
          BY <2>2, <2>3, <2>6
        <5> QED BY <1>8, <2>2, <2>7, <2>9, <4>1, <4>2, <4>3, <5>1, WriteKeeps
      <4>5. Wished(w, v)'
        BY <3>2, <4>1 DEF Wished
      <4> QED BY <4>1, <4>4, <4>5 DEF Honoured
    <3>3. CASE /\ r.own /\ a = client /\ Sure("WMDesktop") /\ w = "desktop"
               /\ wish'[w] = {d}
      <4>1. ValueOf(w, x.value) = d /\ x.atom = Key(w)
        BY <1>11, <2>2, <3>3 DEF ValueOf
      <4>2. Deciding(client, r, <<x>>) /\ Writes(client, x.atom, x.value)
        BY <2>3, <2>6, <2>7, <3>3
      <4>3. Key(w) \in topic /\ Sure(Key(w))
        BY <1>8, <1>11, <3>3
      <4>4. Promise(w, d)'
        BY <2>2, <2>9, <3>3, <4>1, <4>2, <4>3, NewAlone
      <4>5. Wished(w, d)'
        BY <3>3 DEF Wished
      <4> QED BY <3>3, <4>4, <4>5 DEF Honoured
    <3> QED BY <1>10, <3>1, <3>2, <3>3
  <2> QED BY <2>8, <2>11 DEF Promises
<1> QED BY <1>14, <1>15

-----------------------------------------------------------------------------
(* Every step                                                              *)

LEMMA NobodyWishesAtFirst == Init => Promises
<1> SUFFICES ASSUME Init PROVE Promises
  OBVIOUS
<1>1. /\ alive = {} /\ managed = FALSE /\ wish = NoWish /\ todo = [a \in Agents |-> <<>>]
      /\ property = [atom \in Atoms |-> NoProperty]
  BY DEF Init
<1>2. wm \in Agents /\ "XAWMState" \in Atoms
  BY ThreeAre DEF Agents, Three
<1>3. topic \subseteq passed[wm]
  <2>1. PICK all : passed = [a \in Agents |-> (IF a = wm THEN topic ELSE all) \cup {"XAWMState"}]
    BY DEF Init
  <2> QED BY <1>2, <2>1
<1>4. MappingOK(property["XAWMState"]) /\ property["XAWMState"] = NoProperty
  BY <1>1, <1>2 DEF MappingOK
<1>5. \A a \in Agents : Tidy(todo[a]) /\ \A r \in In(todo[a]) : Proper(a, r)
  BY <1>1, InOne DEF Tidy
<1>6. managed = (wm \in alive)
  <2>1. (wm \in alive) = FALSE
    BY <1>1
  <2> QED BY <1>1, <2>1
<1>7. DOMAIN wish = States \cup {"desktop"}
  BY <1>1 DEF NoWish
<1>8. Orderly
  BY <1>3, <1>4, <1>5, <1>6, <1>7 DEF Orderly
<1>9. \A w \in States \cup {"desktop"} : Honoured(w)
  BY <1>1 DEF NoWish, Honoured
<1> QED BY <1>8, <1>9 DEF Promises

LEMMA NothingPromised ==
  ASSUME Understanding, Promises, UNCHANGED vars
  PROVE  Promises'
<1>1. /\ property' = property /\ queue' = queue /\ fields' = fields /\ todo' = todo
      /\ alive' = alive /\ managed' = managed /\ topic' = topic /\ passed' = passed
      /\ wish' = wish
  BY DEF vars
<1>2. Orderly'
  <2>1. \A a, r : Proper(a, r) => Proper(a, r)'
    BY <1>1 DEF Proper
  <2>2. \A a \in Agents : Tidy(todo'[a]) /\ \A r \in In(todo'[a]) : Proper(a, r)'
    BY <1>1, <2>1 DEF Promises, Orderly
  <2>3. property'["XAWMState"] # NoProperty => managed' \/ \E r \in In(todo'[wm]) : Removes(r)
    BY <1>1 DEF Promises, Orderly
  <2>4. /\ managed' = (wm \in alive') /\ DOMAIN wish' = States \cup {"desktop"}
        /\ topic' \subseteq passed'[wm] /\ MappingOK(property'["XAWMState"])
    BY <1>1 DEF Promises, Orderly
  <2> QED BY <2>2, <2>3, <2>4 DEF Orderly
<1>3. ASSUME NEW w, NEW v, Promise(w, v) PROVE Promise(w, v)'
  <2>1. Pending(w)' <=> Pending(w)
    BY <1>1 DEF Pending
  <2>2. Alone' <=> Alone
    BY <1>1 DEF Alone
  <2>3. Settled(w, v)' <=> Settled(w, v)
    BY <1>1 DEF Settled
  <2>4. \A b : /\ Shows(b, w, v)' <=> Shows(b, w, v)
               /\ ToWrite(b, w)' <=> ToWrite(b, w)
               /\ ToRead(b, w)' <=> ToRead(b, w)
    BY <1>1 DEF Shows, ToWrite, ToRead
  <2>5. \A b \in Agents : \A r \in In(todo'[b]) : Obeys(b, r, w, v)'
    <3>1. \A b \in Agents : \A r \in In(todo'[b]) : Obeys(b, r, w, v)
      BY <1>1, <1>3 DEF Promise
    <3> QED BY <2>1, <3>1 DEF Obeys
  <2>6. /\ Key(w) \in topic'
        /\ \A m \in In(queue'[wm]) : About(m, w) => Asking(m, w, v)
    BY <1>1, <1>3 DEF Promise
  <2>7. Alone' => /\ ~Pending(w)' /\ Shows(client, w, v)'
                  /\ Settled(w, v)' \/ (~managed' /\ ToWrite(client, w)')
    BY <1>1, <1>3, <2>1, <2>2, <2>3, <2>4 DEF Promise
  <2>8. ~Alone' => managed' /\ (Settled(w, v)' \/ Pending(w)' \/ ToWrite(wm, w)')
    BY <1>1, <1>3, <2>1, <2>2, <2>3, <2>4 DEF Promise
  <2>9. managed' => Shows(wm, w, v)' \/ Pending(w)' \/ ToRead(wm, w)'
    BY <1>1, <1>3, <2>1, <2>4 DEF Promise
  <2> QED BY <2>5, <2>6, <2>7, <2>8, <2>9 DEF Promise
<1> QED BY <1>1, <1>2, <1>3, HonouredKept

LEMMA StepsPromise == Understanding /\ Promises /\ [Next]_vars => Promises'
<1> SUFFICES ASSUME Understanding, Promises, [Next]_vars PROVE Promises'
  OBVIOUS
<1>1. ASSUME UNCHANGED vars PROVE Promises'
  BY <1>1, NothingPromised
<1>2. ASSUME NEW a \in Agents,
             \/ RequestSet(a) \/ RequestGet(a) \/ RequestSend(a)
             \/ DecideState(a) \/ DecideDesktop(a) \/ OnPropertyNotify(a)
      PROVE  Promises'
  BY <1>2, SetPromise, GetPromise, SendPromise, DecideStatePromise, DecideDesktopPromise,
     PropertyNotifyPromise
<1>3. ASSUME OnStateMessage \/ OnDesktopMessage \/ OnFullscreenMonitorsMessage
      PROVE  Promises'
  BY <1>3, StateMessagePromise, DesktopMessagePromise, MonitorsMessagePromise
<1>4. ASSUME NEW s \in States, Toggle(s) PROVE Promises'
  BY <1>4, TogglePromise
<1>5. ASSUME \/ Construct \/ Manage \/ Withdraw \/ \E n \in {1, 3} : Iconify(n)
      PROVE  Promises'
  BY <1>5, ConstructPromise, ManagePromise, WithdrawPromise, IconifyPromise
<1>6. ASSUME Setters PROVE Promises'
  BY <1>6, SettersPromise
<1> QED BY <1>1, <1>2, <1>3, <1>4, <1>5, <1>6 DEF Next

\* With nothing on its way, what was promised is settled.
LEMMA PromisesAtRest == Promises => WishesHonoured
<1> SUFFICES ASSUME Promises, AtRest
             PROVE  /\ \A s \in States : \A on \in wish[s] :
                         on = (s \in ReadAtoms(property["WMState"], StateFlag))
                    /\ \A desktop \in wish["desktop"] :
                         desktop = ReadDesktop(property["WMDesktop"])
  BY DEF WishesHonoured
<1>1. wm \in Agents /\ client \in Agents /\ In(<<>>) = {}
  BY InOne DEF Agents
<1>2. In(queue[wm]) = {} /\ \A a \in Agents : In(todo[a]) = {}
  BY <1>1 DEF AtRest
<1>3. ASSUME NEW w, NEW v, Promise(w, v) PROVE Settled(w, v)
  <2>1. ~Pending(w) /\ ~ToWrite(client, w) /\ ~ToWrite(wm, w)
    BY <1>1, <1>2 DEF Pending, ToWrite
  <2> QED BY <1>3, <2>1 DEF Promise
<1>4. ASSUME NEW w \in States \cup {"desktop"}, wish[w] # Nothing
      PROVE  \E v : Wished(w, v) /\ Settled(w, v)
  BY <1>3, <1>4 DEF Promises, Honoured
<1>5. ASSUME NEW s \in States, NEW on \in wish[s]
      PROVE  on = (s \in ReadAtoms(property["WMState"], StateFlag))
  <2>1. PICK R : R = ReadAtoms(property["WMState"], StateFlag)
    OBVIOUS
  <2>2. CASE wish[s] = Nothing
    BY <1>5, <2>2 DEF Nothing
  <2>3. CASE wish[s] # Nothing
    <3>1. PICK v : Wished(s, v) /\ Settled(s, v)
      BY <1>4, <2>3
    <3>2. s # "desktop"
      <4>1. States \subseteq DOMAIN StateAtoms
        BY NETWinInfoAssumption
      <4> QED BY <4>1 DEF StateAtoms
    <3>3. On(s, R) = v
      BY <2>1, <3>1, <3>2, ReadOf DEF Settled, ValueOf, Key
    <3>4. (v = 1 /\ wish[s] = {TRUE}) \/ (v = 0 /\ wish[s] = {FALSE})
      BY <3>1, <3>2 DEF Wished
    <3>5. CASE s \in R
      <4>1. v # 0
        BY <3>3, <3>5 DEF On
      <4>2. on = TRUE
        BY <1>5, <3>4, <4>1
      <4>3. (s \in R) = TRUE
        BY <3>5
      <4> QED BY <2>1, <4>2, <4>3
    <3>6. CASE s \notin R
      <4>1. v # 1
        BY <3>3, <3>6 DEF On
      <4>2. on = FALSE
        BY <1>5, <3>4, <4>1
      <4>3. (s \in R) = FALSE
        BY <3>6
      <4> QED BY <2>1, <4>2, <4>3
    <3> QED BY <3>5, <3>6
  <2> QED BY <2>2, <2>3
<1>6. \A desktop \in wish["desktop"] : desktop = ReadDesktop(property["WMDesktop"])
  <2>1. CASE wish["desktop"] = Nothing
    BY <2>1 DEF Nothing
  <2>2. CASE wish["desktop"] # Nothing
    <3>1. PICK v : Wished("desktop", v) /\ Settled("desktop", v)
      BY <1>4, <2>2
    <3> QED BY <3>1, ReadOf DEF Wished, Settled, ValueOf, Key
  <2> QED BY <2>1, <2>2
<1> QED BY <1>5, <1>6

\* A client called setState() or setDesktop() while its view was right: when nothing is on
\* its way any more, the property says what it asked for, unless another call or the
\* window manager's handling of the window ended the wish. It is so for every set of
\* states, whichever of them setState() needs no message for and whichever go into one
\* message, whatever the window manager was doing and wherever the client's view is
\* updated meanwhile, and whether the client writes the property or asks for it.
THEOREM WishesAlwaysHonoured == Spec => []WishesHonoured
<1>1. Init => Promises
  BY NobodyWishesAtFirst
<1>2. Understanding /\ Promises /\ [Next]_vars => Promises'
  BY StepsPromise
<1>3. Promises => WishesHonoured
  BY PromisesAtRest
<1> QED BY <1>1, <1>2, <1>3, AlwaysUnderstood, PTL DEF Spec
=============================================================================

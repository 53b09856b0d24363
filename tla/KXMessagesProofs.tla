-------------------------- MODULE KXMessagesProofs --------------------------
(***************************************************************************)
(* KXMessages implements MessageBroadcast, for any senders, receivers and  *)
(* messages, any size of a fragment and any number of broadcasts, as long  *)
(* as slots of gotMessage() return before the next event is dispatched.    *)
(***************************************************************************)
EXTENDS KXMessages, SequenceTheorems, WellFoundedInduction, TLAPS

-----------------------------------------------------------------------------
(* Induction, with a set in the place of the predicate                     *)

LEMMA LeastExists ==
  ASSUME NEW S \in SUBSET Nat, S # {}
  PROVE  \E i \in S : \A j \in S : i <= j
<1> DEFINE R == OpToRel(<, Nat)
<1>1. IsWellFoundedOn(R, Nat)
  BY NatLessThanWellFounded
<1>2. PICK x \in S : \A y \in S : ~(<<y, x>> \in R)
  <2> HIDE DEF R
  <2> QED BY <1>1, WFMin
<1>3. \A y \in S : ~(y < x)
  BY <1>2 DEF OpToRel
<1> QED BY <1>3

LEMMA NatSetInduction ==
  ASSUME NEW S, 0 \in S, \A n \in Nat : n \in S => n + 1 \in S
  PROVE  Nat \subseteq S
<1> DEFINE T == Nat \ S
<1>1. SUFFICES ASSUME T # {} PROVE FALSE
  OBVIOUS
<1>2. PICK x \in T : \A y \in T : x <= y
  <2>1. T \in SUBSET Nat
    OBVIOUS
  <2> HIDE DEF T
  <2> QED BY <1>1, <2>1, LeastExists
<1>3. x - 1 \in Nat \ T /\ x - 1 + 1 = x
  BY <1>2
<1> QED BY <1>2, <1>3

-----------------------------------------------------------------------------
(* C strings and fragments                                                 *)

\* What precedes the first NUL.
LEMMA CStringFacts ==
  ASSUME NEW b \in Seq(Nat)
  PROVE  /\ CString(b) \in Seq(Nat) /\ Len(CString(b)) <= Len(b)
         /\ \A i \in 1..Len(CString(b)) : CString(b)[i] = b[i] /\ b[i] # NUL
         /\ Len(CString(b)) < Len(b) => b[Len(CString(b)) + 1] = NUL
<1> DEFINE nuls == {i \in DOMAIN b : b[i] = NUL}
<1>1. CASE nuls = {}
  <2>1. CString(b) = b
    BY <1>1 DEF CString
  <2> QED BY <1>1, <2>1
<1>2. CASE nuls # {}
  <2>1. nuls \in SUBSET Nat
    OBVIOUS
  <2>2. PICK k : k = CHOOSE i \in nuls : \A j \in nuls : i <= j
    OBVIOUS
  <2>3. k \in nuls /\ \A j \in nuls : k <= j
    <3> HIDE DEF nuls
    <3> QED BY <1>2, <2>1, <2>2, LeastExists
  <2>4. CString(b) = SubSeq(b, 1, k - 1)
    BY <1>2, <2>2 DEF CString
  <2>5. k \in 1..Len(b) /\ b[k] = NUL /\ \A j \in 1..Len(b) : j < k => b[j] # NUL
    BY <2>3
  <2>6. /\ SubSeq(b, 1, k - 1) \in Seq(Nat) /\ Len(SubSeq(b, 1, k - 1)) = k - 1
        /\ \A i \in 1..(k - 1) : SubSeq(b, 1, k - 1)[i] = b[i]
    BY <2>5
  <2> QED BY <2>4, <2>5, <2>6
<1> QED BY <1>1, <1>2

\* Nothing else has these properties.
LEMMA CStringUnique ==
  ASSUME NEW b \in Seq(Nat), NEW n \in Nat, n <= Len(b),
         \A i \in 1..n : b[i] # NUL, n < Len(b) => b[n + 1] = NUL
  PROVE  Len(CString(b)) = n
<1>1. PICK m \in Nat : m = Len(CString(b))
  BY CStringFacts
<1>2. m <= Len(b) /\ (\A i \in 1..m : b[i] # NUL) /\ (m < Len(b) => b[m + 1] = NUL)
  BY <1>1, CStringFacts
<1>3. ~(m < n)
  <2> SUFFICES ASSUME m < n PROVE FALSE
    OBVIOUS
  <2>1. m + 1 \in 1..n /\ b[m + 1] = NUL
    BY <1>2
  <2> QED BY <2>1
<1>4. ~(n < m)
  <2> SUFFICES ASSUME n < m PROVE FALSE
    OBVIOUS
  <2>1. n + 1 \in 1..m /\ b[n + 1] = NUL
    BY <1>2
  <2> QED BY <1>2, <2>1
<1> QED BY <1>1, <1>3, <1>4

Prefix(t, n) == SubSeq(t, 1, n)

\* How long the C string in the fragment at pos is while the text has not come to its end.
LEMMA FragmentLength ==
  ASSUME NEW msg \in Seq(Nat), NEW pos \in Nat, pos <= Len(CString(msg))
  PROVE  LET t == CString(msg)
             c == CString(Fragment(msg, pos))
         IN /\ c \in Seq(Nat)
            /\ Len(c) = IF pos + FragmentSize <= Len(t) THEN FragmentSize ELSE Len(t) - pos
            /\ \A i \in 1..Len(c) : c[i] = t[pos + i]
<1> DEFINE d == Fragment(msg, pos)
<1>1. PICK L \in Nat : L = Len(CString(msg))
  BY CStringFacts
<1>2. FragmentSize \in Nat /\ FragmentSize > 0
  BY KXMessagesAssumption
<1>3. /\ L <= Len(msg) /\ pos <= L
      /\ L < Len(msg) => msg[L + 1] = NUL
      /\ \A i \in 1..L : CString(msg)[i] = msg[i] /\ msg[i] # NUL
  BY <1>1, CStringFacts
<1>4. d \in Seq(Nat) /\ Len(d) = FragmentSize /\ DOMAIN d = 1..FragmentSize
  BY <1>2 DEF Fragment, NUL
<1>5. \A i \in 1..FragmentSize : d[i] = IF pos + i <= Len(msg) THEN msg[pos + i] ELSE NUL
  BY DEF Fragment
<1> HIDE DEF d
<1>6. PICK n \in Nat : n = IF pos + FragmentSize <= L THEN FragmentSize ELSE L - pos
  <2>1. L - pos \in Nat
    BY <1>3
  <2> QED BY <1>2, <2>1
<1>7. /\ n <= FragmentSize /\ pos + n <= L
      /\ n < FragmentSize => n = L - pos
  <2>1. CASE pos + FragmentSize <= L
    <3>1. n = FragmentSize
      BY <1>6, <2>1
    <3> QED BY <1>2, <2>1, <3>1
  <2>2. CASE L < pos + FragmentSize
    <3>1. n = L - pos
      BY <1>2, <1>6, <2>2
    <3> QED BY <1>2, <1>3, <2>2, <3>1
  <2> QED BY <1>2, <2>1, <2>2
<1>8. \A i \in 1..n : /\ i \in 1..FragmentSize /\ pos + i \in 1..L /\ pos + i <= Len(msg)
                      /\ d[i] = msg[pos + i]
  <2> TAKE i \in 1..n
  <2>0. PICK len \in Nat : len = Len(msg) /\ L <= len
    BY <1>3
  <2>1. i \in 1..FragmentSize
    BY <1>2, <1>7
  <2>2. pos + i \in 1..L /\ pos + i <= len
    BY <1>7, <2>0
  <2> QED BY <1>5, <2>0, <2>1, <2>2
<1>9. \A i \in 1..n : d[i] # NUL /\ d[i] = CString(msg)[pos + i]
  BY <1>3, <1>8
<1>10. n < FragmentSize => d[n + 1] = NUL
  <2> SUFFICES ASSUME n < FragmentSize PROVE d[n + 1] = NUL
    OBVIOUS
  <2>1. n + 1 \in 1..FragmentSize /\ pos + (n + 1) = L + 1
    BY <1>2, <1>7
  <2>2. CASE L < Len(msg)
    <3>1. pos + (n + 1) <= Len(msg)
      BY <2>1, <2>2
    <3> QED BY <1>3, <1>5, <2>1, <2>2, <3>1
  <2>3. CASE L = Len(msg)
    <3>1. ~(pos + (n + 1) <= Len(msg))
      BY <2>1, <2>3
    <3> QED BY <1>5, <2>1, <3>1
  <2> QED BY <1>3, <2>2, <2>3
<1>11. Len(CString(d)) = n
  BY <1>4, <1>7, <1>9, <1>10, CStringUnique
<1>12. CString(d) \in Seq(Nat) /\ \A i \in 1..n : CString(d)[i] = d[i]
  BY <1>4, <1>11, CStringFacts
<1> QED BY <1>1, <1>6, <1>9, <1>11, <1>12 DEF d

LEMMA SameText ==
  ASSUME NEW s \in Seq(Nat), NEW t \in Seq(Nat), NEW n \in Nat, Len(s) = n, Len(t) = n,
         \A i \in 1..n : s[i] = t[i]
  PROVE  s = t
BY SeqEqual

\* Two sequences one after the other.
LEMMA Joined ==
  ASSUME NEW p \in Seq(Nat), NEW c \in Seq(Nat)
  PROVE  /\ p \o c \in Seq(Nat) /\ Len(p \o c) = Len(p) + Len(c)
         /\ \A i \in 1..Len(p) : (p \o c)[i] = p[i]
         /\ \A i \in 1..Len(c) : (p \o c)[Len(p) + i] = c[i]
OBVIOUS

\* What a receiver has after that fragment if it has what came before.
LEMMA FragmentJoins ==
  ASSUME NEW msg \in Seq(Nat), NEW pos \in Nat, pos <= Len(CString(msg))
  PROVE  LET t == CString(msg)
             c == CString(Fragment(msg, pos))
             n == pos + FragmentSize
         IN /\ pos = 0 => c = Prefix(t, IF n <= Len(t) THEN n ELSE Len(t))
            /\ Prefix(t, pos) \o c = Prefix(t, IF n <= Len(t) THEN n ELSE Len(t))
            /\ Len(c) < FragmentSize <=> Len(t) < n
<1>1. PICK t : t = CString(msg)
  OBVIOUS
<1>2. PICK c : c = CString(Fragment(msg, pos))
  OBVIOUS
<1>3. FragmentSize \in Nat /\ FragmentSize > 0 /\ t \in Seq(Nat) /\ pos <= Len(t)
  BY <1>1, KXMessagesAssumption, CStringFacts
<1>4. /\ c \in Seq(Nat)
      /\ Len(c) = IF pos + FragmentSize <= Len(t) THEN FragmentSize ELSE Len(t) - pos
      /\ \A i \in 1..Len(c) : c[i] = t[pos + i]
  BY <1>1, <1>2, FragmentLength
<1>5. PICK m \in Nat : m = IF pos + FragmentSize <= Len(t) THEN pos + FragmentSize ELSE Len(t)
  BY <1>3
<1>6. m <= Len(t) /\ pos <= m /\ Len(c) = m - pos
  <2>1. PICK l \in Nat : l = Len(t)
    BY <1>3
  <2>2. CASE pos + FragmentSize <= l
    <3>1. m = pos + FragmentSize /\ Len(c) = FragmentSize
      BY <1>4, <1>5, <2>1, <2>2
    <3>2. (pos + FragmentSize) - pos = FragmentSize /\ pos <= pos + FragmentSize
      BY <1>3
    <3> QED BY <2>1, <2>2, <3>1, <3>2
  <2>3. CASE ~(pos + FragmentSize <= l)
    <3>1. m = l /\ Len(c) = l - pos
      BY <1>4, <1>5, <2>1, <2>3
    <3> QED BY <1>3, <2>1, <3>1
  <2> QED BY <2>2, <2>3
<1>7. /\ Prefix(t, m) \in Seq(Nat) /\ Len(Prefix(t, m)) = m
      /\ \A i \in 1..m : Prefix(t, m)[i] = t[i]
  BY <1>3, <1>6 DEF Prefix
<1>8. /\ Prefix(t, pos) \in Seq(Nat) /\ Len(Prefix(t, pos)) = pos
      /\ \A i \in 1..pos : Prefix(t, pos)[i] = t[i]
  BY <1>3, <1>6 DEF Prefix
<1>0. PICK u : u = Prefix(t, m)
  OBVIOUS
<1> HIDE DEF Prefix
<1>9. ASSUME pos = 0 PROVE c = u
  <2>1. Len(c) = m
    BY <1>6, <1>9
  <2>2. \A i \in 1..m : pos + i = i
    BY <1>9
  <2>3. \A i \in 1..m : c[i] = t[pos + i]
    BY <1>4, <2>1
  <2>4. \A i \in 1..m : c[i] = u[i]
    BY <1>0, <1>7, <2>2, <2>3
  <2>5. u \in Seq(Nat) /\ Len(u) = m
    BY <1>0, <1>7
  <2> QED BY <1>4, <2>1, <2>4, <2>5, SameText
<1>10. Prefix(t, pos) \o c = u
  <2>1. PICK p : p = Prefix(t, pos)
    OBVIOUS
  <2>2. p \in Seq(Nat) /\ Len(p) = pos /\ \A i \in 1..pos : p[i] = t[i]
    BY <1>8, <2>1
  <2>3. PICK j : j = p \o c
    OBVIOUS
  <2>4. /\ j \in Seq(Nat) /\ Len(j) = m
        /\ \A i \in 1..pos : j[i] = p[i]
        /\ \A i \in 1..Len(c) : j[pos + i] = c[i]
    <3>1. /\ p \o c \in Seq(Nat) /\ Len(p \o c) = Len(p) + Len(c)
          /\ \A i \in 1..Len(p) : (p \o c)[i] = p[i]
          /\ \A i \in 1..Len(c) : (p \o c)[Len(p) + i] = c[i]
      BY <1>4, <2>2, Joined
    <3>2. pos + Len(c) = m
      BY <1>6
    <3> QED BY <2>2, <2>3, <3>1, <3>2
  <2>5. \A i \in 1..m : j[i] = t[i]
    <3> SUFFICES ASSUME NEW i \in 1..m, ~(i \in 1..pos) PROVE j[i] = t[i]
      BY <2>2, <2>4
    <3>1. i - pos \in 1..Len(c) /\ pos + (i - pos) = i
      BY <1>6
    <3>2. j[i] = c[i - pos] /\ c[i - pos] = t[i]
      BY <1>4, <2>4, <3>1
    <3> QED BY <3>2
  <2>6. u \in Seq(Nat) /\ Len(u) = m /\ \A i \in 1..m : j[i] = u[i]
    BY <1>0, <1>7, <2>5
  <2>7. j = u
    BY <2>4, <2>6, SameText
  <2> QED BY <2>1, <2>3, <2>7
<1>11. Len(c) < FragmentSize <=> Len(t) < pos + FragmentSize
  BY <1>3, <1>4
<1> QED BY <1>1, <1>2, <1>5, <1>0, <1>9, <1>10, <1>11

-----------------------------------------------------------------------------
(* The texts addressed to a receiver                                       *)

Published == [text : Seq(Nat), to : SUBSET Receivers]

AddressedTo(l, r) == Broadcast!AddressedTo(l, r)

\* f[i] is what the first i entries of l address to r.
UpTo(f, l, r, k) ==
  f = [i \in 0..k |-> IF i = 0 THEN <<>>
                      ELSE IF r \in l[i].to THEN Append(f[i - 1], l[i].text)
                      ELSE f[i - 1]]

LEMMA UpToExists ==
  ASSUME NEW l, NEW r, NEW k \in Nat
  PROVE  \E f : UpTo(f, l, r, k)
<1> DEFINE S == {n \in Nat : \E f : UpTo(f, l, r, n)}
           Do(g, n) == IF r \in l[n].to THEN Append(g, l[n].text) ELSE g
<1>0. \A f, n : UpTo(f, l, r, n) <=> f = [i \in 0..n |-> IF i = 0 THEN <<>> ELSE Do(f[i - 1], i)]
  BY DEF UpTo
<1> HIDE DEF Do
<1>1. 0 \in S
  <2>1. [n \in 0..0 |-> <<>>] = [n \in 0..0 |-> IF n = 0 THEN <<>> ELSE Do([m \in 0..0 |-> <<>>][n - 1], n)]
    OBVIOUS
  <2>2. UpTo([n \in 0..0 |-> <<>>], l, r, 0)
    BY <1>0, <2>1
  <2> QED BY <2>2
<1>2. ASSUME NEW n \in Nat, n \in S PROVE n + 1 \in S
  <2>1. PICK g : g = [i \in 0..n |-> IF i = 0 THEN <<>> ELSE Do(g[i - 1], i)]
    BY <1>0, <1>2
  <2> DEFINE G == [i \in 0..(n + 1) |-> IF i = n + 1 THEN Do(g[n], n + 1) ELSE g[i]]
  <2>2. \A i \in 0..n : G[i] = g[i]
    OBVIOUS
  <2>3. \A i \in 0..n : g[i] = IF i = 0 THEN <<>> ELSE Do(g[i - 1], i)
    BY <2>1
  <2>4. \A i \in 0..(n + 1) : G[i] = IF i = 0 THEN <<>> ELSE Do(G[i - 1], i)
    <3>1. TAKE i \in 0..(n + 1)
    <3>2. CASE i = n + 1
      <4>1. G[i] = Do(g[n], n + 1) /\ G[n] = g[n] /\ i - 1 = n /\ i # 0
        BY <3>2
      <4> HIDE DEF G
      <4> QED BY <3>2, <4>1
    <3>3. CASE i \in 0..n
      <4>1. G[i] = g[i] /\ (i # 0 => i - 1 \in 0..n /\ G[i - 1] = g[i - 1])
        BY <2>2, <3>3
      <4> HIDE DEF G
      <4> QED BY <2>3, <3>3, <4>1
    <3> QED BY <3>2, <3>3
  <2>5. G = [i \in 0..(n + 1) |-> G[i]]
    OBVIOUS
  <2> HIDE DEF G
  <2>6. G = [i \in 0..(n + 1) |-> IF i = 0 THEN <<>> ELSE Do(G[i - 1], i)]
    BY <2>4, <2>5
  <2>7. UpTo(G, l, r, n + 1)
    BY <1>0, <2>6
  <2> QED BY <2>7
<1>3. Nat \subseteq S
  <2> HIDE DEF S
  <2> QED BY <1>1, <1>2, NatSetInduction
<1> QED BY <1>3

\* The definition, step by step.
LEMMA AddressedSteps ==
  ASSUME NEW l, NEW r, Len(l) \in Nat
  PROVE  \E f : /\ AddressedTo(l, r) = f[Len(l)] /\ f[0] = <<>>
                /\ \A i \in 1..Len(l) :
                     f[i] = IF r \in l[i].to THEN Append(f[i - 1], l[i].text) ELSE f[i - 1]
<1> DEFINE F == CHOOSE f : f = [i \in 0..Len(l) |-> IF i = 0 THEN <<>>
                                  ELSE IF r \in l[i].to THEN Append(f[i - 1], l[i].text)
                                  ELSE f[i - 1]]
<1>1. F = [i \in 0..Len(l) |-> IF i = 0 THEN <<>>
                               ELSE IF r \in l[i].to THEN Append(F[i - 1], l[i].text)
                               ELSE F[i - 1]]
  <2> DEFINE Fixed(f) == f = [i \in 0..Len(l) |-> IF i = 0 THEN <<>>
                                  ELSE IF r \in l[i].to THEN Append(f[i - 1], l[i].text)
                                  ELSE f[i - 1]]
  <2>1. \E f : Fixed(f)
    <3>1. \E f : UpTo(f, l, r, Len(l))
      BY UpToExists
    <3> QED BY <3>1 DEF UpTo
  <2>2. Fixed(CHOOSE f : Fixed(f))
    <3> HIDE DEF Fixed
    <3> QED BY <2>1
  <2> QED BY <2>2
<1>2. AddressedTo(l, r) = F[Len(l)]
  BY DEF AddressedTo, Broadcast!AddressedTo
<1> HIDE DEF F
<1>3. F[0] = <<>>
  BY <1>1
<1>4. \A i \in 1..Len(l) :
        F[i] = IF r \in l[i].to THEN Append(F[i - 1], l[i].text) ELSE F[i - 1]
  <2>1. \A i \in 1..Len(l) : i \in 0..Len(l) /\ i # 0
    OBVIOUS
  <2> QED BY <1>1, <2>1
<1> QED BY <1>2, <1>3, <1>4

\* What one more entry adds.
LEMMA AddressedAppend ==
  ASSUME NEW l \in Seq(Published), NEW e \in Published, NEW r
  PROVE  /\ AddressedTo(<<>>, r) = <<>>
         /\ AddressedTo(l, r) \in Seq(Seq(Nat))
         /\ AddressedTo(Append(l, e), r) =
              IF r \in e.to THEN Append(AddressedTo(l, r), e.text) ELSE AddressedTo(l, r)
         /\ (\A i \in DOMAIN l : r \notin l[i].to) => AddressedTo(l, r) = <<>>
<1>1. PICK n \in Nat : n = Len(l) /\ DOMAIN l = 1..n
  OBVIOUS
<1>2. PICK m : m = Append(l, e)
  OBVIOUS
<1>3. m[n + 1] = e /\ Len(m) = n + 1 /\ \A i \in 1..n : m[i] = l[i]
  BY <1>1, <1>2
<1>4. PICK f : /\ AddressedTo(l, r) = f[n] /\ f[0] = <<>>
               /\ \A i \in 1..n :
                    f[i] = IF r \in l[i].to THEN Append(f[i - 1], l[i].text) ELSE f[i - 1]
  BY <1>1, AddressedSteps
<1>5. PICK g : /\ AddressedTo(m, r) = g[n + 1] /\ g[0] = <<>>
               /\ \A i \in 1..(n + 1) :
                    g[i] = IF r \in m[i].to THEN Append(g[i - 1], m[i].text) ELSE g[i - 1]
  <2>1. Len(m) \in Nat
    BY <1>3
  <2>2. PICK g : /\ AddressedTo(m, r) = g[Len(m)] /\ g[0] = <<>>
                 /\ \A i \in 1..Len(m) :
                      g[i] = IF r \in m[i].to THEN Append(g[i - 1], m[i].text) ELSE g[i - 1]
    BY <2>1, AddressedSteps
  <2> QED BY <1>3, <2>2
<1> DEFINE S == {i \in Nat : i <= n => /\ f[i] = g[i] /\ f[i] \in Seq(Seq(Nat))
                                       /\ (\A j \in 1..n : r \notin l[j].to) => f[i] = <<>>}
<1>6. 0 \in S
  <2>1. f[0] = <<>> /\ g[0] = <<>> /\ <<>> \in Seq(Seq(Nat))
    BY <1>4, <1>5
  <2> QED BY <2>1
<1>7. ASSUME NEW i \in Nat, i \in S PROVE i + 1 \in S
  <2> SUFFICES ASSUME i + 1 <= n
               PROVE  /\ f[i + 1] = g[i + 1] /\ f[i + 1] \in Seq(Seq(Nat))
                      /\ (\A j \in 1..n : r \notin l[j].to) => f[i + 1] = <<>>
    OBVIOUS
  <2>1. PICK j \in 1..n : j = i + 1 /\ j - 1 = i /\ j \in 1..(n + 1)
    OBVIOUS
  <2>2. /\ f[j] = IF r \in l[j].to THEN Append(f[i], l[j].text) ELSE f[i]
        /\ g[j] = IF r \in l[j].to THEN Append(g[i], l[j].text) ELSE g[i]
    BY <1>3, <1>4, <1>5, <2>1
  <2>3. /\ f[i] = g[i] /\ f[i] \in Seq(Seq(Nat))
        /\ (\A k \in 1..n : r \notin l[k].to) => f[i] = <<>>
    BY <1>7
  <2>4. l[j].text \in Seq(Nat)
    <3>1. l[j] \in Published
      BY <1>1
    <3> QED BY <3>1 DEF Published
  <2> QED BY <2>1, <2>2, <2>3, <2>4
<1>8. Nat \subseteq S
  <2> HIDE DEF S
  <2> QED BY <1>6, <1>7, NatSetInduction
<1>9. /\ f[n] = g[n] /\ f[n] \in Seq(Seq(Nat))
      /\ (\A j \in 1..n : r \notin l[j].to) => f[n] = <<>>
  BY <1>8
<1>10. g[n + 1] = IF r \in e.to THEN Append(g[n], e.text) ELSE g[n]
  <2>1. PICK j \in 1..(n + 1) : j = n + 1 /\ j - 1 = n
    OBVIOUS
  <2>2. g[j] = IF r \in m[j].to THEN Append(g[j - 1], m[j].text) ELSE g[j - 1]
    BY <1>5
  <2> QED BY <1>3, <2>1, <2>2
<1>11. AddressedTo(<<>>, r) = <<>>
  <2>1. Len(<<>>) = 0
    OBVIOUS
  <2> QED BY <2>1, AddressedSteps
<1> QED BY <1>1, <1>2, <1>4, <1>5, <1>9, <1>10, <1>11

-----------------------------------------------------------------------------
(* What a queue makes of incoming_messages                                 *)

Event == [window : Senders \X Nat, leading : BOOLEAN, data : Seq(Nat)]

Said(f, ev) == Extended(f, ev.window, ev.leading, CString(ev.data))

Stored(f, ev) ==
  [w \in DOMAIN f \cup {ev.window} |-> IF w = ev.window THEN Said(f, ev) ELSE f[w]]

Last(ev) == Len(CString(ev.data)) < FragmentSize

Emits(f, ev) == ~Unknown(f, ev) /\ Last(ev)

\* incoming_messages once the fragment is handled and its slots have returned.
After(f, ev) == IF Unknown(f, ev) THEN f
                ELSE IF Last(ev) THEN Removed(Stored(f, ev), ev.window)
                ELSE Stored(f, ev)

\* The fragment takes f to f2, and the number of texts given from g to g2.
Turn(f, ev, f2, g, g2, a) ==
  /\ f2 = After(f, ev)
  /\ IF Emits(f, ev) THEN g2 = g + 1 /\ g2 <= Len(a) /\ a[g2] = Said(f, ev) ELSE g2 = g

Path(q, f, g, a, h, k) ==
  /\ h[0] = f /\ k[0] = g /\ k[Len(q)] = Len(a)
  /\ \A i \in 0..Len(q) : k[i] \in Nat
  /\ \A i \in 1..Len(q) : Turn(h[i - 1], q[i], h[i], k[i - 1], k[i], a)

\* The fragments in q take f to e and emit what is left of a after g texts.
Leads(q, f, g, a, e) == \E h, k : Path(q, f, g, a, h, k) /\ h[Len(q)] = e

\* Nothing is left to do.
LEMMA NoTurn ==
  ASSUME NEW f, NEW a, Len(a) \in Nat
  PROVE  Leads(<<>>, f, Len(a), a, f)
<1> DEFINE h == [i \in {0} |-> f]
           k == [i \in {0} |-> Len(a)]
<1>1. h[0] = f /\ k[0] = Len(a) /\ Len(<<>>) = 0
  OBVIOUS
<1> HIDE DEF h, k
<1>2. Path(<<>>, f, Len(a), a, h, k)
  BY <1>1 DEF Path
<1> QED BY <1>1, <1>2 DEF Leads

\* A fragment more.
LEMMA OneMoreTurn ==
  ASSUME NEW q \in Seq(Event), NEW ev \in Event, NEW f, NEW g \in Nat, NEW e,
         NEW a \in Seq(Seq(Nat)), Leads(q, f, g, a, e),
         NEW b \in Seq(Seq(Nat)),
         b = IF Emits(e, ev) THEN Append(a, Said(e, ev)) ELSE a
  PROVE  Leads(Append(q, ev), f, g, b, After(e, ev))
<1>1. PICK n \in Nat : n = Len(q)
  OBVIOUS
<1>2. PICK p : p = Append(q, ev)
  OBVIOUS
<1>3. Len(p) = n + 1 /\ p[n + 1] = ev /\ \A i \in 1..n : p[i] = q[i]
  BY <1>1, <1>2
<1>4. PICK h, k : Path(q, f, g, a, h, k) /\ h[n] = e
  BY <1>1 DEF Leads
<1>5. /\ h[0] = f /\ k[0] = g /\ k[n] = Len(a)
      /\ \A i \in 0..n : k[i] \in Nat
      /\ \A i \in 1..n : Turn(h[i - 1], q[i], h[i], k[i - 1], k[i], a)
  BY <1>1, <1>4 DEF Path
<1>6. Len(b) = (IF Emits(e, ev) THEN Len(a) + 1 ELSE Len(a)) /\ Len(b) \in Nat /\ Len(a) \in Nat
  <2>1. Len(b) \in Nat /\ Len(a) \in Nat
    OBVIOUS
  <2>2. Emits(e, ev) => Len(b) = Len(a) + 1
    BY DEF Event
  <2> QED BY <2>1, <2>2
<1>7. (\A i \in 1..Len(a) : b[i] = a[i]) /\ (Emits(e, ev) => b[Len(a) + 1] = Said(e, ev))
  BY <1>6
<1> DEFINE H == [i \in 0..(n + 1) |-> IF i = n + 1 THEN After(e, ev) ELSE h[i]]
           K == [i \in 0..(n + 1) |-> IF i = n + 1 THEN Len(b) ELSE k[i]]
<1>8. /\ \A i \in 0..n : H[i] = h[i] /\ K[i] = k[i]
      /\ H[n + 1] = After(e, ev) /\ K[n + 1] = Len(b)
  OBVIOUS
<1> HIDE DEF H, K
<1>9. \A i \in 0..(n + 1) : K[i] \in Nat
  <2>1. \A i \in 0..(n + 1) : i \in 0..n \/ i = n + 1
    OBVIOUS
  <2> QED BY <1>5, <1>6, <1>8, <2>1
<1>10. \A i \in 1..(n + 1) : Turn(H[i - 1], p[i], H[i], K[i - 1], K[i], b)
  <2> TAKE i \in 1..(n + 1)
  <2>1. CASE i = n + 1
    <3>1. H[i - 1] = e /\ K[i - 1] = Len(a) /\ H[i] = After(e, ev) /\ K[i] = Len(b) /\ p[i] = ev
      <4>1. i - 1 = n /\ n \in 0..n
        BY <2>1
      <4> QED BY <1>3, <1>4, <1>5, <1>8, <2>1, <4>1
    <3>2. Turn(e, ev, After(e, ev), Len(a), Len(b), b)
      BY <1>6, <1>7 DEF Turn
    <3> QED BY <3>1, <3>2
  <2>2. CASE i \in 1..n
    <3>1. i \in 0..n /\ i - 1 \in 0..n
      BY <2>2
    <3>2. H[i - 1] = h[i - 1] /\ K[i - 1] = k[i - 1] /\ H[i] = h[i] /\ K[i] = k[i] /\ p[i] = q[i]
      BY <1>3, <1>8, <2>2, <3>1
    <3>3. Turn(h[i - 1], q[i], h[i], k[i - 1], k[i], a) /\ k[i - 1] \in Nat /\ k[i] \in Nat
      BY <1>5, <2>2, <3>1
    <3>4. Turn(h[i - 1], q[i], h[i], k[i - 1], k[i], b)
      <4>1. ASSUME Emits(h[i - 1], q[i])
            PROVE  k[i] <= Len(b) /\ b[k[i]] = Said(h[i - 1], q[i])
        <5>1. k[i] = k[i - 1] + 1 /\ k[i] <= Len(a) /\ a[k[i]] = Said(h[i - 1], q[i])
          BY <3>3, <4>1 DEF Turn
        <5>2. k[i] \in 1..Len(a)
          BY <1>6, <3>3, <5>1
        <5> QED BY <1>6, <1>7, <5>1, <5>2
      <4> QED BY <3>3, <4>1 DEF Turn
    <3> QED BY <3>2, <3>4
  <2> QED BY <2>1, <2>2
<1>11. H[0] = f /\ K[0] = g
  BY <1>5, <1>8
<1>12. Path(p, f, g, b, H, K)
  BY <1>3, <1>8, <1>9, <1>10, <1>11 DEF Path
<1> QED BY <1>2, <1>3, <1>8, <1>12 DEF Leads

\* The first fragment is handled.
LEMMA FirstTurn ==
  ASSUME NEW q \in Seq(Event), q # <<>>, NEW f, NEW g \in Nat, NEW e,
         NEW a \in Seq(Seq(Nat)), Leads(q, f, g, a, e)
  PROVE  /\ Emits(f, Head(q)) => /\ g + 1 <= Len(a) /\ a[g + 1] = Said(f, Head(q))
                                 /\ Leads(Tail(q), After(f, Head(q)), g + 1, a, e)
         /\ ~Emits(f, Head(q)) => Leads(Tail(q), After(f, Head(q)), g, a, e)
<1>1. PICK n \in Nat : n + 1 = Len(q)
  <2>1. PICK m \in Nat : m = Len(q) /\ m # 0
    BY EmptySeq
  <2>2. m - 1 \in Nat /\ (m - 1) + 1 = m
    BY <2>1
  <2> QED BY <2>1, <2>2
<1>2. PICK p : p = Tail(q)
  OBVIOUS
<1>3. Len(p) = n /\ (\A i \in 1..n : p[i] = q[i + 1]) /\ Head(q) = q[1]
  BY <1>1, <1>2
<1>4. PICK h, k : Path(q, f, g, a, h, k) /\ h[n + 1] = e
  BY <1>1 DEF Leads
<1>5. /\ h[0] = f /\ k[0] = g /\ k[n + 1] = Len(a)
      /\ \A i \in 0..(n + 1) : k[i] \in Nat
      /\ \A i \in 1..(n + 1) : Turn(h[i - 1], q[i], h[i], k[i - 1], k[i], a)
  BY <1>1, <1>4 DEF Path
<1>6. Turn(f, q[1], h[1], g, k[1], a) /\ k[1] \in Nat
  <2>1. PICK i \in 1..(n + 1) : i = 1 /\ i - 1 = 0 /\ i \in 0..(n + 1)
    OBVIOUS
  <2> QED BY <1>5, <2>1
<1> DEFINE H == [i \in 0..n |-> h[i + 1]]
           K == [i \in 0..n |-> k[i + 1]]
<1>7. \A i \in 0..n : H[i] = h[i + 1] /\ K[i] = k[i + 1] /\ i + 1 \in 0..(n + 1)
  OBVIOUS
<1> HIDE DEF H, K
<1>8. H[0] = h[1] /\ K[0] = k[1] /\ H[n] = e /\ K[n] = Len(a)
  BY <1>4, <1>5, <1>7
<1>9. \A i \in 0..n : K[i] \in Nat
  BY <1>5, <1>7
<1>10. \A i \in 1..n : Turn(H[i - 1], p[i], H[i], K[i - 1], K[i], a)
  <2> TAKE i \in 1..n
  <2>1. PICK j \in 1..(n + 1) : j = i + 1 /\ j - 1 = i /\ i - 1 \in 0..n /\ (i - 1) + 1 = i /\ i \in 0..n
    OBVIOUS
  <2>2. Turn(h[j - 1], q[j], h[j], k[j - 1], k[j], a)
    BY <1>5
  <2>3. H[i - 1] = h[i] /\ H[i] = h[j] /\ K[i - 1] = k[i] /\ K[i] = k[j] /\ p[i] = q[j]
    BY <1>3, <1>7, <2>1
  <2> QED BY <2>1, <2>2, <2>3
<1>11. Path(p, h[1], k[1], a, H, K)
  BY <1>3, <1>8, <1>9, <1>10 DEF Path
<1>12. Leads(p, h[1], k[1], a, e)
  BY <1>3, <1>8, <1>11 DEF Leads
<1> QED BY <1>2, <1>3, <1>6, <1>12 DEF Turn

\* A fragment concerns its own window only.
LEMMA OtherWindows ==
  ASSUME NEW f, NEW ev, NEW w, w # ev.window
  PROVE  /\ w \in DOMAIN After(f, ev) <=> w \in DOMAIN f
         /\ w \in DOMAIN f => After(f, ev)[w] = f[w]
BY DEF After, Stored, Removed, Restrict

LEMMA OwnWindow ==
  ASSUME NEW f, NEW ev
  PROVE  /\ Unknown(f, ev) => After(f, ev) = f /\ ev.window \notin DOMAIN f
         /\ Emits(f, ev) => ev.window \notin DOMAIN After(f, ev)
         /\ ~Unknown(f, ev) /\ ~Last(ev) => /\ ev.window \in DOMAIN After(f, ev)
                                            /\ After(f, ev)[ev.window] = Said(f, ev)
BY DEF After, Stored, Removed, Restrict, Emits, Unknown

-----------------------------------------------------------------------------
(* The inductive invariant                                                 *)

Sends(s) == [window : {s} \X Nat, msg : Messages, pos : Nat, to : SUBSET Receivers]

SendersTyped ==
  /\ DOMAIN sending = Senders
  /\ \A s \in Senders : sending[s] = Idle \/ sending[s] \in Sends(s)
  /\ fresh \in [Senders -> Nat]
  /\ log \in Seq(Published)

ReceiversTyped ==
  /\ phase \in [Receivers -> {"new", "on", "off"}]
  /\ queue \in [Receivers -> Seq(Event)]
  /\ DOMAIN incoming = Receivers
  /\ emitting \in [Receivers -> Seq(Senders \X Nat)]
  /\ \A r \in Receivers : Len(emitting[r]) <= 1
  /\ got \in [Receivers -> Seq(Seq(Nat))]

\* Who has not listened yet has nothing and is owed nothing.
Unborn ==
  \A r \in Receivers : phase[r] = "new" =>
    /\ queue[r] = <<>> /\ incoming[r] = [w \in {} |-> <<>>] /\ emitting[r] = <<>> /\ got[r] = <<>>
    /\ \A i \in DOMAIN log : r \notin log[i].to
    /\ \A s \in Senders : sending[s] # Idle => r \notin sending[s].to

\* incoming_messages of r as it is when its slots have returned.
Settled(r) == IF emitting[r] = <<>> THEN incoming[r]
              ELSE Removed(incoming[r], emitting[r][Len(emitting[r])])

\* e is what the message that o is in the middle of leaves in incoming_messages of r,
\* which is nothing if r missed its beginning or knows its end.
Holds(r, e, o) ==
  o.pos > 0 =>
    IF r \in o.to /\ o.pos <= Len(CString(o.msg))
      THEN o.window \in DOMAIN e /\ e[o.window] = Prefix(CString(o.msg), o.pos)
      ELSE o.window \notin DOMAIN e

Caught(r, e) == \A s \in Senders : sending[s] # Idle => Holds(r, e, sending[s])

\* Once its queue is handled a listener has been given what is addressed to it.
Delivering ==
  \A r \in Listening :
    \E e : /\ Leads(queue[r], Settled(r), Len(got[r]), AddressedTo(log, r), e)
           /\ Caught(r, e)

BroadcastInv == SendersTyped /\ ReceiversTyped /\ Unborn /\ Delivering

LEMMA LogAddressed ==
  ASSUME log \in Seq(Published), NEW r
  PROVE  AddressedTo(log, r) \in Seq(Seq(Nat))
<1>1. PICK x : x \in Published
  <2>1. [text |-> <<>>, to |-> {}] \in Published
    BY DEF Published
  <2> QED BY <2>1
<1> QED BY <1>1, AddressedAppend

LEMMA InvInitially == Init => BroadcastInv
<1> SUFFICES ASSUME Init PROVE BroadcastInv
  OBVIOUS
<1>1. SendersTyped /\ ReceiversTyped
  BY DEF Init, SendersTyped, ReceiversTyped
<1>2. Unborn
  BY DEF Init, Unborn
<1>3. Delivering
  BY DEF Init, Delivering, Listening
<1> QED BY <1>1, <1>2, <1>3 DEF BroadcastInv

-----------------------------------------------------------------------------
(* Steps of the receivers                                                  *)

LEMMA OtherReceivers ==
  ASSUME BroadcastInv, NEW r \in Receivers, UNCHANGED <<sending, fresh, log>>,
         ReceiversTyped',
         \A x \in Receivers \ {r} :
           UNCHANGED <<phase[x], queue[x], incoming[x], emitting[x], got[x]>>,
         phase'[r] # "new",
         phase'[r] = "on" =>
           \E e : Leads(queue'[r], Settled(r)', Len(got'[r]), AddressedTo(log, r), e) /\ Caught(r, e)
  PROVE  BroadcastInv'
<1>1. SendersTyped'
  BY DEF BroadcastInv, SendersTyped
<1>2. Unborn'
  <2> SUFFICES ASSUME NEW x \in Receivers, phase'[x] = "new"
               PROVE  /\ queue'[x] = <<>> /\ incoming'[x] = [w \in {} |-> <<>>]
                      /\ emitting'[x] = <<>> /\ got'[x] = <<>>
                      /\ \A i \in DOMAIN log' : x \notin log'[i].to
                      /\ \A s \in Senders : sending'[s] # Idle => x \notin sending'[s].to
    BY DEF Unborn
  <2>1. x # r /\ phase[x] = "new"
    OBVIOUS
  <2> QED BY <2>1 DEF BroadcastInv, Unborn
<1>3. Delivering'
  <2> SUFFICES ASSUME NEW x \in Receivers, phase'[x] = "on"
               PROVE  \E e : /\ Leads(queue'[x], Settled(x)', Len(got'[x]), AddressedTo(log', x), e)
                             /\ Caught(x, e)'
    BY DEF Delivering, Listening
  <2>1. \A e : Caught(x, e)' <=> Caught(x, e)
    BY DEF Caught
  <2>2. CASE x = r
    BY <2>1, <2>2
  <2>3. CASE x # r
    <3>1. phase[x] = "on" /\ Settled(x)' = Settled(x) /\ queue'[x] = queue[x] /\ got'[x] = got[x]
      BY <2>3 DEF Settled
    <3> QED BY <2>1, <3>1 DEF BroadcastInv, Delivering, Listening
  <2> QED BY <2>2, <2>3
<1> QED BY <1>1, <1>2, <1>3 DEF BroadcastInv

LEMMA StartKeeps ==
  ASSUME BroadcastInv, NEW r \in Receivers, Start(r)
  PROVE  BroadcastInv'
<1>1. /\ queue[r] = <<>> /\ incoming[r] = [w \in {} |-> <<>>] /\ emitting[r] = <<>> /\ got[r] = <<>>
      /\ \A i \in DOMAIN log : r \notin log[i].to
      /\ \A s \in Senders : sending[s] # Idle => r \notin sending[s].to
  BY DEF Start, BroadcastInv, Unborn
<1>2. ReceiversTyped'
  BY DEF Start, BroadcastInv, ReceiversTyped
<1>3. AddressedTo(log, r) = <<>>
  <2>1. PICK x : x \in Published
    <3>1. [text |-> <<>>, to |-> {}] \in Published
      BY DEF Published
    <3> QED BY <3>1
  <2>2. log \in Seq(Published)
    BY DEF BroadcastInv, SendersTyped
  <2> QED BY <1>1, <2>1, <2>2, AddressedAppend
<1>4. Settled(r)' = incoming[r]
  BY <1>1 DEF Start, Settled
<1>5. Leads(queue'[r], Settled(r)', Len(got'[r]), AddressedTo(log, r), incoming[r])
  <2>1. Len(<<>>) = 0 /\ Len(<<>>) \in Nat
    OBVIOUS
  <2>2. Leads(<<>>, incoming[r], Len(<<>>), <<>>, incoming[r])
    BY <2>1, NoTurn
  <2> QED BY <1>1, <1>3, <1>4, <2>2 DEF Start
<1>6. Caught(r, incoming[r])
  BY <1>1 DEF Caught, Holds
<1>7. phase'[r] = "on" /\ UNCHANGED <<sending, fresh, log>>
  BY DEF Start, BroadcastInv, ReceiversTyped
<1>8. \A x \in Receivers \ {r} :
        UNCHANGED <<phase[x], queue[x], incoming[x], emitting[x], got[x]>>
  BY DEF Start, BroadcastInv, ReceiversTyped
<1> QED BY <1>2, <1>5, <1>6, <1>7, <1>8, OtherReceivers

LEMMA StopKeeps ==
  ASSUME BroadcastInv, NEW r \in Receivers, Stop(r)
  PROVE  BroadcastInv'
<1>1. ReceiversTyped'
  BY DEF Stop, BroadcastInv, ReceiversTyped
<1>2. phase'[r] = "off" /\ UNCHANGED <<sending, fresh, log>>
  BY DEF Stop, BroadcastInv, ReceiversTyped
<1>3. \A x \in Receivers \ {r} :
        UNCHANGED <<phase[x], queue[x], incoming[x], emitting[x], got[x]>>
  BY DEF Stop, BroadcastInv, ReceiversTyped
<1> QED BY <1>1, <1>2, <1>3, OtherReceivers

LEMMA EndOfSlotKeeps ==
  ASSUME BroadcastInv, NEW r \in Receivers, EndOfSlot(r)
  PROVE  BroadcastInv'
<1>1. emitting[r] \in Seq(Senders \X Nat) /\ Len(emitting[r]) = 1
  <2>1. emitting[r] \in Seq(Senders \X Nat) /\ emitting[r] # <<>> /\ Len(emitting[r]) <= 1
    BY DEF EndOfSlot, BroadcastInv, ReceiversTyped
  <2>2. \A v \in Seq(Senders \X Nat) : v # <<>> /\ Len(v) <= 1 => Len(v) = 1
    <3> SUFFICES ASSUME NEW v \in Seq(Senders \X Nat), v # <<>>, Len(v) <= 1 PROVE Len(v) = 1
      OBVIOUS
    <3>1. PICK n \in Nat : n = Len(v) /\ n # 0
      BY EmptySeq
    <3>2. n <= 1
      BY <3>1
    <3> QED BY <3>1, <3>2
  <2> QED BY <2>1, <2>2
<1>2. emitting'[r] = <<>> /\ emitting' \in [Receivers -> Seq(Senders \X Nat)]
      /\ \A x \in Receivers \ {r} : emitting'[x] = emitting[x]
  <2>1. emitting' = [emitting EXCEPT ![r] = SubSeq(@, 1, Len(@) - 1)]
    BY DEF EndOfSlot
  <2>2. SubSeq(emitting[r], 1, Len(emitting[r]) - 1) = <<>>
    BY <1>1
  <2>3. emitting \in [Receivers -> Seq(Senders \X Nat)]
    BY DEF BroadcastInv, ReceiversTyped
  <2> QED BY <2>1, <2>2, <2>3
<1>3. incoming'[r] = Removed(incoming[r], emitting[r][Len(emitting[r])])
      /\ DOMAIN incoming' = Receivers /\ \A x \in Receivers \ {r} : incoming'[x] = incoming[x]
  BY DEF EndOfSlot, BroadcastInv, ReceiversTyped
<1>4. UNCHANGED <<sending, fresh, phase, queue, log, got>>
  BY DEF EndOfSlot
<1>5. Settled(r)' = Settled(r)
  <2>1. emitting[r] # <<>>
    BY DEF EndOfSlot
  <2> QED BY <1>2, <1>3, <2>1 DEF Settled
<1>6. ReceiversTyped'
  <2>1. \A x \in Receivers : Len(emitting'[x]) <= 1
    <3>1. Len(<<>>) <= 1
      OBVIOUS
    <3> QED BY <1>2, <3>1 DEF BroadcastInv, ReceiversTyped
  <2> QED BY <1>2, <1>3, <1>4, <2>1 DEF BroadcastInv, ReceiversTyped
<1>7. phase[r] # "new"
  BY DEF EndOfSlot, BroadcastInv, Unborn
<1>8. phase[r] = "on" =>
        \E e : Leads(queue[r], Settled(r), Len(got[r]), AddressedTo(log, r), e) /\ Caught(r, e)
  BY DEF BroadcastInv, Delivering, Listening
<1> QED BY <1>2, <1>3, <1>4, <1>5, <1>6, <1>7, <1>8, OtherReceivers

\* What Dispatch(r) does, in terms of After and Emits.
LEMMA DispatchEffect ==
  ASSUME MaxNesting = 0, BroadcastInv, NEW r \in Receivers, Dispatch(r)
  PROVE  LET ev == Head(queue[r]) IN
         /\ phase[r] = "on" /\ queue[r] # <<>> /\ Settled(r) = incoming[r]
         /\ ev \in Event /\ queue'[r] = Tail(queue[r])
         /\ ReceiversTyped' \/ got'[r] \notin Seq(Seq(Nat))
         /\ Settled(r)' = After(incoming[r], ev)
         /\ got' = IF Emits(incoming[r], ev)
                     THEN [got EXCEPT ![r] = Append(@, Said(incoming[r], ev))] ELSE got
         /\ UNCHANGED <<sending, fresh, phase, begun, log>>
         /\ \A x \in Receivers \ {r} :
              UNCHANGED <<phase[x], queue[x], incoming[x], emitting[x], got[x]>>
<1>1. PICK ev : ev = Head(queue[r])
  OBVIOUS
<1>2. PICK f : f = incoming[r]
  OBVIOUS
<1>0. ReceiversTyped
  BY DEF BroadcastInv
<1>3. queue[r] \in Seq(Event) /\ queue[r] # <<>> /\ phase[r] = "on"
  BY <1>0 DEF ReceiversTyped, Dispatch
<1>4. ev \in Event /\ Tail(queue[r]) \in Seq(Event)
  BY <1>1, <1>3
<1>5. emitting[r] = <<>>
  <2>1. Len(emitting[r]) <= 0 /\ emitting[r] \in Seq(Senders \X Nat)
    BY <1>0 DEF Dispatch, ReceiversTyped
  <2>2. ASSUME emitting[r] # <<>> PROVE FALSE
    <3>1. PICK n \in Nat : n = Len(emitting[r]) /\ n # 0
      BY <2>1, <2>2, EmptySeq
    <3> QED BY <2>1, <3>1
  <2> QED BY <2>2
<1>6. queue' = [queue EXCEPT ![r] = Tail(queue[r])] /\ UNCHANGED <<sending, fresh, phase, begun, log>>
  BY DEF Dispatch
<1>7. CASE Unknown(f, ev)
  <2>1. UNCHANGED <<incoming, emitting, got>>
    BY <1>1, <1>2, <1>7 DEF Dispatch
  <2>2. ~Emits(f, ev) /\ After(f, ev) = f
    BY <1>7 DEF Emits, After
  <2>3. Settled(r) = f /\ Settled(r)' = f
    BY <1>2, <1>5, <2>1 DEF Settled
  <2>4. ReceiversTyped'
    BY <1>0, <1>4, <1>6, <2>1 DEF ReceiversTyped
  <2>5. \A x \in Receivers \ {r} :
          UNCHANGED <<phase[x], queue[x], incoming[x], emitting[x], got[x]>>
    BY <1>0, <1>6, <2>1 DEF ReceiversTyped
  <2>6. queue'[r] = Tail(queue[r])
    BY <1>0, <1>6 DEF ReceiversTyped
  <2> QED BY <1>1, <1>2, <1>3, <1>4, <1>6, <2>1, <2>2, <2>3, <2>4, <2>5, <2>6
<1>8. CASE ~Unknown(f, ev)
  <2>1. incoming' = [incoming EXCEPT ![r] = Stored(f, ev)]
    BY <1>1, <1>2, <1>8 DEF Dispatch, Stored, Said
  <2>2. emitting' = [emitting EXCEPT ![r] = IF Last(ev) THEN Append(emitting[r], ev.window)
                                                        ELSE emitting[r]]
    BY <1>1, <1>2, <1>8 DEF Dispatch, Last
  <2>3. got' = [got EXCEPT ![r] = IF Last(ev) THEN Append(got[r], Said(f, ev)) ELSE got[r]]
    BY <1>1, <1>2, <1>8 DEF Dispatch, Last, Said
  <2>4. Emits(f, ev) <=> Last(ev)
    BY <1>8 DEF Emits
  <2>5. ev.window \in Senders \X Nat
    BY <1>4 DEF Event
  <2>6. PICK u : /\ u = (IF Last(ev) THEN Append(emitting[r], ev.window) ELSE emitting[r])
                 /\ u \in Seq(Senders \X Nat) /\ Len(u) <= 1
                 /\ Last(ev) => u # <<>> /\ u[Len(u)] = ev.window
                 /\ ~Last(ev) => u = <<>>
    <3>1. Append(<<>>, ev.window) = <<ev.window>>
      OBVIOUS
    <3>2. /\ <<ev.window>> \in Seq(Senders \X Nat) /\ Len(<<ev.window>>) = 1
          /\ <<ev.window>> # <<>> /\ <<ev.window>>[1] = ev.window
      BY <2>5
    <3>3. <<>> \in Seq(Senders \X Nat) /\ Len(<<>>) = 0
      OBVIOUS
    <3>4. CASE Last(ev)
      <4>1. PICK u : u = <<ev.window>>
        OBVIOUS
      <4>2. u = Append(emitting[r], ev.window) /\ u \in Seq(Senders \X Nat) /\ Len(u) = 1
            /\ u # <<>> /\ u[1] = ev.window
        BY <1>5, <3>1, <3>2, <4>1
      <4>3. Len(u) <= 1 /\ u[Len(u)] = ev.window
        BY <4>2
      <4> QED BY <3>4, <4>2, <4>3
    <3>5. CASE ~Last(ev)
      <4>1. Len(<<>>) <= 1
        BY <3>3
      <4> QED BY <1>5, <3>3, <3>5, <4>1
    <3> QED BY <3>4, <3>5
  <2>7. emitting' = [emitting EXCEPT ![r] = u]
    BY <2>2, <2>6
  <2>8. emitting'[r] = u /\ incoming'[r] = Stored(f, ev) /\ queue'[r] = Tail(queue[r])
    BY <1>0, <1>6, <2>1, <2>7 DEF ReceiversTyped
  <2>9. Settled(r) = f /\ Settled(r)' = After(f, ev)
    <3>1. Settled(r) = f
      BY <1>2, <1>5 DEF Settled
    <3>2. Last(ev) => Settled(r)' = Removed(Stored(f, ev), ev.window)
      BY <2>6, <2>8 DEF Settled
    <3>3. ~Last(ev) => Settled(r)' = Stored(f, ev)
      BY <2>6, <2>8 DEF Settled
    <3> QED BY <1>8, <3>1, <3>2, <3>3 DEF After
  <2>10. got' = IF Emits(f, ev) THEN [got EXCEPT ![r] = Append(@, Said(f, ev))] ELSE got
    BY <1>0, <2>3, <2>4 DEF ReceiversTyped
  <2>11. \A x \in Receivers \ {r} :
           UNCHANGED <<phase[x], queue[x], incoming[x], emitting[x], got[x]>>
    BY <1>0, <1>6, <2>1, <2>3, <2>7 DEF ReceiversTyped
  <2>12. ASSUME got'[r] \in Seq(Seq(Nat)) PROVE ReceiversTyped'
    <3>1. phase' \in [Receivers -> {"new", "on", "off"}] /\ queue' \in [Receivers -> Seq(Event)]
          /\ DOMAIN incoming' = Receivers
      BY <1>0, <1>4, <1>6, <2>1 DEF ReceiversTyped
    <3>2. emitting' \in [Receivers -> Seq(Senders \X Nat)] /\ \A x \in Receivers : Len(emitting'[x]) <= 1
      BY <1>0, <2>6, <2>7 DEF ReceiversTyped
    <3>3. got' \in [Receivers -> Seq(Seq(Nat))]
      <4>1. PICK v : got' = [got EXCEPT ![r] = v]
        BY <2>3
      <4>2. v \in Seq(Seq(Nat))
        BY <1>0, <2>12, <4>1 DEF ReceiversTyped
      <4> QED BY <1>0, <4>1, <4>2 DEF ReceiversTyped
    <3> QED BY <3>1, <3>2, <3>3 DEF ReceiversTyped
  <2> QED BY <1>1, <1>2, <1>3, <1>4, <1>6, <2>8, <2>9, <2>10, <2>11, <2>12
<1> QED BY <1>7, <1>8

\* A receiver is given the next text addressed to it, or nothing.
LEMMA DispatchKeeps ==
  ASSUME MaxNesting = 0, BroadcastInv, NEW r \in Receivers, Dispatch(r)
  PROVE  BroadcastInv' /\ (Broadcast!Deliver(r) \/ UNCHANGED <<log, got>>)
<1>1. PICK ev : ev = Head(queue[r])
  OBVIOUS
<1>2. PICK f : f = incoming[r]
  OBVIOUS
<1>3. PICK a : a = AddressedTo(log, r)
  OBVIOUS
<1>4. /\ phase[r] = "on" /\ queue[r] # <<>> /\ Settled(r) = f
      /\ ev \in Event /\ queue'[r] = Tail(queue[r])
      /\ ReceiversTyped' \/ got'[r] \notin Seq(Seq(Nat))
      /\ Settled(r)' = After(f, ev)
      /\ got' = IF Emits(f, ev) THEN [got EXCEPT ![r] = Append(@, Said(f, ev))] ELSE got
      /\ UNCHANGED <<sending, fresh, phase, begun, log>>
      /\ \A x \in Receivers \ {r} :
           UNCHANGED <<phase[x], queue[x], incoming[x], emitting[x], got[x]>>
  BY <1>1, <1>2, DispatchEffect
<1>5. queue[r] \in Seq(Event) /\ got[r] \in Seq(Seq(Nat)) /\ r \in DOMAIN got
  BY DEF BroadcastInv, ReceiversTyped
<1>6. a \in Seq(Seq(Nat))
  BY <1>3, LogAddressed DEF BroadcastInv, SendersTyped
<1>7. PICK g \in Nat : g = Len(got[r])
  BY <1>5
<1>8. PICK e : Leads(queue[r], f, g, a, e) /\ Caught(r, e)
  BY <1>3, <1>4, <1>7 DEF BroadcastInv, Delivering, Listening
<1>9. /\ Emits(f, ev) => /\ g + 1 <= Len(a) /\ a[g + 1] = Said(f, ev)
                         /\ Leads(queue'[r], After(f, ev), g + 1, a, e)
      /\ ~Emits(f, ev) => Leads(queue'[r], After(f, ev), g, a, e)
  <2>1. PICK q : q = queue[r]
    OBVIOUS
  <2>2. q \in Seq(Event) /\ q # <<>> /\ Head(q) = ev /\ Leads(q, f, g, a, e) /\ queue'[r] = Tail(q)
    BY <1>1, <1>4, <1>5, <1>8, <2>1
  <2>3. /\ Emits(f, Head(q)) => /\ g + 1 <= Len(a) /\ a[g + 1] = Said(f, Head(q))
                                /\ Leads(Tail(q), After(f, Head(q)), g + 1, a, e)
        /\ ~Emits(f, Head(q)) => Leads(Tail(q), After(f, Head(q)), g, a, e)
    BY <1>6, <2>2, FirstTurn
  <2> QED BY <2>2, <2>3
<1>10. CASE Emits(f, ev)
  <2>1. g + 1 \in 1..Len(a) /\ Len(a) \in Nat
    BY <1>6, <1>9, <1>10
  <2>2. Said(f, ev) \in Seq(Nat)
    BY <1>6, <1>9, <1>10, <2>1
  <2>3. got'[r] \in Seq(Seq(Nat)) /\ Len(got'[r]) = g + 1
    BY <1>4, <1>5, <1>7, <1>10, <2>2
  <2>4. BroadcastInv'
    BY <1>3, <1>4, <1>8, <1>9, <1>10, <2>3, OtherReceivers
  <2>5. Broadcast!Deliver(r)
    <3>1. got' = [got EXCEPT ![r] = Append(@, AddressedTo(log, r)[Len(@) + 1])]
      BY <1>3, <1>4, <1>7, <1>9, <1>10
    <3>2. Len(got[r]) < Len(AddressedTo(log, r))
      BY <1>3, <1>7, <1>9, <1>10, <2>1
    <3> QED BY <1>4, <3>1, <3>2 DEF Broadcast!Deliver, AddressedTo
  <2> QED BY <2>4, <2>5
<1>11. CASE ~Emits(f, ev)
  <2>1. got' = got
    BY <1>4, <1>11
  <2>2. BroadcastInv'
    BY <1>3, <1>4, <1>5, <1>7, <1>8, <1>9, <1>11, <2>1, OtherReceivers
  <2> QED BY <1>4, <2>1, <2>2
<1> QED BY <1>10, <1>11

-----------------------------------------------------------------------------
(* Steps of the senders                                                    *)

TheFragment(o) == [window |-> o.window, leading |-> Leading(o.pos),
                   data |-> Fragment(o.msg, o.pos)]

\* The fragment that is sent ends the text.
Ends(o) == LET t == CString(o.msg)
           IN  /\ o.pos <= Len(t)
               /\ ~MoreFragments(o.msg, o.pos + FragmentSize) \/ Len(t) < o.pos + FragmentSize

LEMMA FragmentEvent ==
  ASSUME NEW s \in Senders, NEW o \in Sends(s)
  PROVE  /\ TheFragment(o) \in Event /\ o.msg \in Seq(Nat) /\ o.pos \in Nat
         /\ Ends(o) <=> /\ o.pos <= Len(CString(o.msg))
                        /\ Len(CString(o.msg)) < o.pos + FragmentSize
<1>1. FragmentSize \in Nat /\ FragmentSize > 0 /\ Messages \subseteq Seq(Nat)
  BY KXMessagesAssumption
<1>2. o.window \in {s} \X Nat /\ o.msg \in Seq(Nat) /\ o.pos \in Nat
  BY <1>1 DEF Sends
<1>3. PICK msg \in Seq(Nat) : msg = o.msg
  BY <1>2
<1>4. PICK pos \in Nat : pos = o.pos
  BY <1>2
<1>5. Fragment(msg, pos) \in Seq(Nat)
  BY <1>1 DEF Fragment, NUL
<1>6. TheFragment(o) \in Event
  BY <1>2, <1>3, <1>4, <1>5 DEF TheFragment, Event, Leading
<1>7. Len(CString(msg)) \in Nat /\ Len(msg) \in Nat /\ Len(CString(msg)) <= Len(msg)
  BY CStringFacts
<1>8. Ends(o) <=> pos <= Len(CString(msg)) /\ Len(CString(msg)) < pos + FragmentSize
  BY <1>1, <1>3, <1>4, <1>7 DEF Ends, MoreFragments
<1> QED BY <1>2, <1>3, <1>4, <1>6, <1>8

\* What a fragment does to a receiver that has handled everything before it.
LEMMA FragmentArrives ==
  ASSUME NEW s \in Senders, NEW o \in Sends(s), NEW r, NEW e, Holds(r, e, o),
         NEW to, r \in to <=> o.pos = 0 \/ r \in o.to
  PROVE  LET ev == TheFragment(o)
             next == [o EXCEPT !.pos = o.pos + FragmentSize, !.to = to]
         IN /\ Emits(e, ev) <=> Ends(o) /\ r \in to
            /\ Emits(e, ev) => Said(e, ev) = CString(o.msg)
            /\ Holds(r, After(e, ev), next)
<1>1. PICK msg : msg = o.msg
  OBVIOUS
<1>2. PICK pos : pos = o.pos
  OBVIOUS
<1>3. PICK t : t = CString(msg)
  OBVIOUS
<1>4. PICK c : c = CString(Fragment(msg, pos))
  OBVIOUS
<1>5. PICK ev : ev = TheFragment(o)
  OBVIOUS
<1>6. PICK n : n = pos + FragmentSize
  OBVIOUS
<1>7. PICK w : w = o.window
  OBVIOUS
<1>8. /\ ev \in Event /\ ev.window = w /\ ev.data = Fragment(msg, pos)
      /\ ev.leading <=> pos = 0
      /\ msg \in Seq(Nat) /\ pos \in Nat
      /\ Ends(o) <=> pos <= Len(t) /\ Len(t) < n
  BY <1>1, <1>2, <1>3, <1>5, <1>6, <1>7, FragmentEvent DEF TheFragment, Leading
<1>9. n \in Nat /\ pos < n /\ t \in Seq(Nat) /\ Len(t) \in Nat
  <2>1. FragmentSize \in Nat /\ FragmentSize > 0
    BY KXMessagesAssumption
  <2>2. t \in Seq(Nat)
    BY <1>3, <1>8, CStringFacts
  <2> QED BY <1>6, <1>8, <2>1, <2>2
<1>10. PICK next : next = [o EXCEPT !.pos = o.pos + FragmentSize, !.to = to]
  OBVIOUS
<1>11. next.pos = n /\ next.to = to /\ next.msg = msg /\ next.window = w
  BY <1>1, <1>2, <1>6, <1>7, <1>10 DEF Sends
<1>12. Holds(r, After(e, ev), next) <=>
         IF r \in to /\ n <= Len(t)
           THEN w \in DOMAIN After(e, ev) /\ After(e, ev)[w] = Prefix(t, n)
           ELSE w \notin DOMAIN After(e, ev)
  <2>1. n > 0
    BY <1>8, <1>9
  <2> QED BY <1>3, <1>11, <2>1 DEF Holds
<1>13. pos > 0 => IF r \in o.to /\ pos <= Len(t)
                    THEN w \in DOMAIN e /\ e[w] = Prefix(t, pos)
                    ELSE w \notin DOMAIN e
  BY <1>1, <1>2, <1>3, <1>7 DEF Holds
<1>14. CASE pos = 0 \/ (r \in o.to /\ pos <= Len(t))
  <2>1. pos <= Len(t) /\ r \in to
    BY <1>2, <1>9, <1>14
  <2>2. /\ pos = 0 => c = Prefix(t, IF n <= Len(t) THEN n ELSE Len(t))
        /\ Prefix(t, pos) \o c = Prefix(t, IF n <= Len(t) THEN n ELSE Len(t))
        /\ Len(c) < FragmentSize <=> Len(t) < n
    BY <1>3, <1>4, <1>6, <1>8, <2>1, FragmentJoins
  <2>3. ~Unknown(e, ev)
    BY <1>8, <1>13, <1>14, <2>1 DEF Unknown
  <2>4. Said(e, ev) = Prefix(t, IF n <= Len(t) THEN n ELSE Len(t))
    <3>1. CASE pos = 0
      BY <1>4, <1>8, <2>2, <3>1 DEF Said, Extended
    <3>2. CASE pos > 0
      <4>1. w \in DOMAIN e /\ e[w] = Prefix(t, pos) /\ ~ev.leading
        BY <1>8, <1>13, <1>14, <3>2
      <4> QED BY <1>4, <1>8, <2>2, <4>1 DEF Said, Extended
    <3> QED BY <1>8, <3>1, <3>2
  <2>5. Last(ev) <=> Len(t) < n
    BY <1>4, <1>8, <2>2 DEF Last
  <2>6. Emits(e, ev) <=> Ends(o) /\ r \in to
    BY <1>8, <2>1, <2>3, <2>5 DEF Emits
  <2>7. ASSUME Emits(e, ev) PROVE Said(e, ev) = t
    <3>1. ~(n <= Len(t))
      BY <1>9, <2>5, <2>7 DEF Emits
    <3>2. Prefix(t, Len(t)) = t
      BY <1>9 DEF Prefix
    <3> QED BY <2>4, <3>1, <3>2
  <2>8. CASE n <= Len(t)
    <3>1. ~Last(ev)
      BY <1>9, <2>5, <2>8
    <3>2. w \in DOMAIN After(e, ev) /\ After(e, ev)[w] = Said(e, ev)
      BY <1>8, <2>3, <3>1, OwnWindow
    <3>3. Holds(r, After(e, ev), next)
      BY <1>12, <2>1, <2>4, <2>8, <3>2
    <3> QED BY <1>1, <1>3, <1>5, <1>10, <2>6, <2>7, <3>3
  <2>9. CASE ~(n <= Len(t))
    <3>1. Emits(e, ev)
      BY <1>9, <2>3, <2>5, <2>9 DEF Emits
    <3>2. w \notin DOMAIN After(e, ev)
      BY <1>8, <3>1, OwnWindow
    <3>3. Holds(r, After(e, ev), next)
      BY <1>12, <2>9, <3>2
    <3> QED BY <1>1, <1>3, <1>5, <1>10, <2>6, <2>7, <3>3
  <2> QED BY <2>8, <2>9
<1>15. CASE ~(pos = 0 \/ (r \in o.to /\ pos <= Len(t)))
  <2>1. pos > 0 /\ w \notin DOMAIN e /\ (r \in to <=> r \in o.to)
    BY <1>2, <1>8, <1>13, <1>15
  <2>2. Unknown(e, ev)
    BY <1>8, <2>1 DEF Unknown
  <2>3. After(e, ev) = e /\ ~Emits(e, ev)
    BY <2>2, OwnWindow DEF Emits
  <2>4. ~(Ends(o) /\ r \in to)
    BY <1>8, <1>15, <2>1
  <2>5. ~(r \in to /\ n <= Len(t))
    <3> SUFFICES ASSUME r \in to, n <= Len(t) PROVE FALSE
      OBVIOUS
    <3>1. pos <= Len(t)
      BY <1>8, <1>9
    <3> QED BY <1>15, <2>1, <3>1
  <2>6. Holds(r, After(e, ev), next)
    BY <1>12, <2>1, <2>3, <2>5
  <2> QED BY <1>1, <1>3, <1>5, <1>10, <2>3, <2>4, <2>6
<1> QED BY <1>14, <1>15

\* A fragment reaches everybody who listens, and possibly completes a message.
LEMMA SendFragmentKeeps ==
  ASSUME BroadcastInv, NEW s \in Senders, SendFragment(s)
  PROVE  /\ BroadcastInv'
         /\ (\E t \in Text, R \in SUBSET Receivers : Broadcast!Publish(t, R))
            \/ UNCHANGED <<log, got>>
<1>0. SendersTyped /\ ReceiversTyped /\ Unborn /\ Delivering
  BY DEF BroadcastInv
<1>1. PICK o \in Sends(s) : o = sending[s]
  BY <1>0 DEF SendFragment, SendersTyped
<1>2. PICK to : to = IF o.pos = 0 THEN Listening ELSE o.to \cap Listening
  OBVIOUS
<1>3. PICK ev : ev = TheFragment(o)
  OBVIOUS
<1>4. PICK t : t = CString(o.msg)
  OBVIOUS
<1>5. PICK next : next = [o EXCEPT !.pos = o.pos + FragmentSize, !.to = to]
  OBVIOUS
<1>6. o # Idle /\ sending[s] # Idle
  BY <1>1 DEF SendFragment
<1>7. queue' = [r \in Receivers |-> IF r \in Listening THEN Append(queue[r], ev) ELSE queue[r]]
  BY <1>1, <1>3 DEF SendFragment, TheFragment
<1>8. \E v : sending' = [sending EXCEPT ![s] = v] /\ (v = Idle \/ v = next)
  BY <1>1, <1>2, <1>5 DEF SendFragment
<1>9. log' = IF Ends(o) THEN Append(log, [text |-> t, to |-> to]) ELSE log
  BY <1>1, <1>2, <1>4 DEF SendFragment, Ends
<1>10. UNCHANGED <<fresh, phase, incoming, emitting, begun, got>>
  BY DEF SendFragment
<1>11. PICK v : sending' = [sending EXCEPT ![s] = v] /\ (v = Idle \/ v = next)
  BY <1>8
<1>12. /\ ev \in Event /\ o.msg \in Seq(Nat) /\ o.pos \in Nat
  BY <1>3, FragmentEvent
<1>13. t \in Seq(Nat) /\ t \in Text
  <2>1. o.msg \in Messages
    BY DEF Sends
  <2> QED BY <1>4, <1>12, <2>1, CStringFacts DEF Text
<1>14. to \in SUBSET Receivers /\ o.to \in SUBSET Receivers /\ to \subseteq Listening
       /\ \A r \in Listening : r \in to <=> o.pos = 0 \/ r \in o.to
  BY <1>2 DEF Sends, Listening
<1>15. next \in Sends(s)
  <2>1. FragmentSize \in Nat
    BY KXMessagesAssumption
  <2>2. o.pos + FragmentSize \in Nat
    BY <1>12, <2>1
  <2> QED BY <1>5, <1>14, <2>2 DEF Sends
<1>16. [text |-> t, to |-> to] \in Published
  BY <1>13, <1>14 DEF Published
<1>17. SendersTyped'
  <2>1. DOMAIN sending' = Senders /\ \A x \in Senders : sending'[x] = Idle \/ sending'[x] \in Sends(x)
    BY <1>0, <1>11, <1>15 DEF SendersTyped
  <2>2. log' \in Seq(Published)
    BY <1>0, <1>9, <1>16 DEF SendersTyped
  <2> QED BY <1>0, <1>10, <2>1, <2>2 DEF SendersTyped
<1>18. ReceiversTyped'
  <2>1. \A q \in Seq(Event) : Append(q, ev) \in Seq(Event)
    BY <1>12
  <2>2. queue' \in [Receivers -> Seq(Event)]
    BY <1>0, <1>7, <2>1 DEF ReceiversTyped
  <2> QED BY <1>0, <1>10, <2>2 DEF ReceiversTyped
<1>19. Unborn'
  <2> SUFFICES ASSUME NEW r \in Receivers, phase'[r] = "new"
               PROVE  /\ queue'[r] = <<>> /\ incoming'[r] = [w \in {} |-> <<>>]
                      /\ emitting'[r] = <<>> /\ got'[r] = <<>>
                      /\ \A i \in DOMAIN log' : r \notin log'[i].to
                      /\ \A x \in Senders : sending'[x] # Idle => r \notin sending'[x].to
    BY DEF Unborn
  <2>1. /\ queue[r] = <<>> /\ incoming[r] = [w \in {} |-> <<>>] /\ emitting[r] = <<>> /\ got[r] = <<>>
        /\ \A i \in DOMAIN log : r \notin log[i].to
        /\ \A x \in Senders : sending[x] # Idle => r \notin sending[x].to
    BY <1>0, <1>10 DEF Unborn
  <2>2. r \notin Listening /\ r \notin to
    BY <1>10, <1>14 DEF Listening
  <2>3. \A i \in DOMAIN log' : r \notin log'[i].to
    <3>1. PICK p : p = [text |-> t, to |-> to]
      OBVIOUS
    <3>2. p \in Published /\ r \notin p.to /\ log' = IF Ends(o) THEN Append(log, p) ELSE log
      BY <1>9, <1>16, <2>2, <3>1
    <3>3. log \in Seq(Published)
      BY <1>0 DEF SendersTyped
    <3>4. \A i \in DOMAIN Append(log, p) :
                                     \/ i \in DOMAIN log /\ Append(log, p)[i] = log[i]
                                     \/ Append(log, p)[i] = p
      BY <3>2, <3>3
    <3> QED BY <2>1, <3>2, <3>4
  <2>4. \A x \in Senders : sending'[x] # Idle => r \notin sending'[x].to
    <3>1. TAKE x \in Senders
    <3>2. CASE x = s
      <4>1. next.to = to
        BY <1>5 DEF Sends
      <4> QED BY <1>0, <1>11, <2>2, <3>2, <4>1 DEF SendersTyped
    <3>3. CASE x # s
      BY <1>0, <1>11, <2>1, <3>3 DEF SendersTyped
    <3> QED BY <3>2, <3>3
  <2>5. queue'[r] = <<>>
    BY <1>7, <2>1, <2>2
  <2> QED BY <1>10, <2>1, <2>3, <2>4, <2>5
<1>20. Delivering'
  <2> SUFFICES ASSUME NEW r \in Receivers, phase'[r] = "on"
               PROVE  \E e : /\ Leads(queue'[r], Settled(r)', Len(got'[r]), AddressedTo(log', r), e)
                             /\ Caught(r, e)'
    BY DEF Delivering, Listening
  <2>1. r \in Listening
    BY <1>10 DEF Listening
  <2>2. PICK a : a = AddressedTo(log, r)
    OBVIOUS
  <2>3. PICK b : b = AddressedTo(log', r)
    OBVIOUS
  <2>4. PICK e : Leads(queue[r], Settled(r), Len(got[r]), a, e) /\ Caught(r, e)
    BY <1>0, <2>1, <2>2 DEF Delivering
  <2>5. Holds(r, e, o)
    BY <1>1, <1>6, <2>4 DEF Caught
  <2>6. /\ Emits(e, ev) <=> Ends(o) /\ r \in to
        /\ Emits(e, ev) => Said(e, ev) = t
        /\ Holds(r, After(e, ev), next)
    BY <1>3, <1>4, <1>5, <1>14, <2>1, <2>5, FragmentArrives
  <2>7. a \in Seq(Seq(Nat)) /\ b \in Seq(Seq(Nat))
    <3>1. log \in Seq(Published) /\ log' \in Seq(Published)
      BY <1>0, <1>17 DEF SendersTyped
    <3>2. \A l \in Seq(Published) : AddressedTo(l, r) \in Seq(Seq(Nat))
      BY <1>16, AddressedAppend
    <3> QED BY <2>2, <2>3, <3>1, <3>2
  <2>8. b = IF Emits(e, ev) THEN Append(a, Said(e, ev)) ELSE a
    <3>1. CASE Ends(o)
      <4>1. PICK p : p = [text |-> t, to |-> to]
        OBVIOUS
      <4>2. p \in Published /\ p.text = t /\ p.to = to /\ log' = Append(log, p)
        BY <1>9, <1>16, <3>1, <4>1
      <4>3. log \in Seq(Published)
        BY <1>0 DEF SendersTyped
      <4>4. AddressedTo(Append(log, p), r) =
              IF r \in p.to THEN Append(AddressedTo(log, r), p.text) ELSE AddressedTo(log, r)
        BY <4>2, <4>3, AddressedAppend
      <4>5. b = IF r \in to THEN Append(a, t) ELSE a
        BY <2>2, <2>3, <4>2, <4>4
      <4> QED BY <2>6, <3>1, <4>5
    <3>2. CASE ~Ends(o)
      BY <1>9, <2>2, <2>3, <2>6, <3>2
    <3> QED BY <3>1, <3>2
  <2>9. PICK q \in Seq(Event) : q = queue[r]
    BY <1>0 DEF ReceiversTyped
  <2>10. queue'[r] = Append(q, ev)
    BY <1>7, <2>1, <2>9
  <2>11. PICK g \in Nat : g = Len(got[r])
    <3>1. got[r] \in Seq(Seq(Nat))
      BY <1>0 DEF ReceiversTyped
    <3> QED BY <3>1
  <2>12. PICK f : f = Settled(r)
    OBVIOUS
  <2>13. Leads(Append(q, ev), f, g, b, After(e, ev))
    <3>1. Leads(q, f, g, a, e)
      BY <2>4, <2>9, <2>11, <2>12
    <3> QED BY <1>12, <2>7, <2>8, <3>1, OneMoreTurn
  <2>14. Settled(r)' = f
    BY <1>10, <2>12 DEF Settled
  <2>15. Caught(r, After(e, ev))'
    <3> SUFFICES ASSUME NEW x \in Senders, sending'[x] # Idle
                 PROVE  Holds(r, After(e, ev), sending'[x])
      BY DEF Caught
    <3>1. CASE x = s
      <4>1. sending'[x] = next
        BY <1>0, <1>11, <3>1 DEF SendersTyped
      <4> QED BY <2>6, <4>1
    <3>2. CASE x # s
      <4>1. PICK y : y = sending[x]
        OBVIOUS
      <4>2. sending'[x] = y /\ y # Idle
        BY <1>0, <1>11, <3>2, <4>1 DEF SendersTyped
      <4>3. Holds(r, e, y)
        BY <2>4, <4>1, <4>2 DEF Caught
      <4>4. y.window # ev.window
        <5>1. y.window \in {x} \X Nat
          BY <1>0, <4>1, <4>2 DEF SendersTyped, Sends
        <5>2. ev.window \in {s} \X Nat
          BY <1>3 DEF Sends, TheFragment
        <5> QED BY <3>2, <5>1, <5>2
      <4>5. /\ y.window \in DOMAIN After(e, ev) <=> y.window \in DOMAIN e
            /\ y.window \in DOMAIN e => After(e, ev)[y.window] = e[y.window]
        BY <4>4, OtherWindows
      <4>6. Holds(r, After(e, ev), y)
        BY <4>3, <4>5 DEF Holds
      <4> QED BY <4>2, <4>6
    <3> QED BY <3>1, <3>2
  <2>16. Len(got'[r]) = g
    BY <1>10, <2>11
  <2> QED BY <2>3, <2>10, <2>13, <2>14, <2>15, <2>16
<1>21. BroadcastInv'
  BY <1>17, <1>18, <1>19, <1>20 DEF BroadcastInv
<1>22. CASE Ends(o)
  BY <1>9, <1>10, <1>13, <1>14, <1>21, <1>22 DEF Broadcast!Publish
<1>23. CASE ~Ends(o)
  BY <1>9, <1>10, <1>21, <1>23
<1> QED BY <1>22, <1>23

\* A message begins, or its sender dies: the receivers do not know.
LEMMA OtherSenders ==
  ASSUME BroadcastInv, NEW s \in Senders, NEW v, sending' = [sending EXCEPT ![s] = v],
         v = Idle \/ (v \in Sends(s) /\ v.pos = 0 /\ v.to = {}),
         fresh' \in [Senders -> Nat],
         UNCHANGED <<phase, queue, incoming, emitting, log, got>>
  PROVE  BroadcastInv'
<1>1. DOMAIN sending' = Senders /\ sending'[s] = v /\ \A x \in Senders \ {s} : sending'[x] = sending[x]
  BY DEF BroadcastInv, SendersTyped
<1>2. SendersTyped'
  BY <1>1 DEF BroadcastInv, SendersTyped
<1>3. ReceiversTyped'
  BY DEF BroadcastInv, ReceiversTyped
<1>4. Unborn'
  BY <1>1 DEF BroadcastInv, Unborn
<1>5. Delivering'
  <2> SUFFICES ASSUME NEW r \in Receivers, phase'[r] = "on"
               PROVE  \E e : /\ Leads(queue'[r], Settled(r)', Len(got'[r]), AddressedTo(log', r), e)
                             /\ Caught(r, e)'
    BY DEF Delivering, Listening
  <2>1. PICK e : /\ Leads(queue[r], Settled(r), Len(got[r]), AddressedTo(log, r), e)
                 /\ Caught(r, e)
    BY DEF BroadcastInv, Delivering, Listening
  <2>2. Settled(r)' = Settled(r)
    BY DEF Settled
  <2>3. Caught(r, e)'
    BY <1>1, <2>1 DEF Caught, Holds
  <2> QED BY <2>1, <2>2, <2>3
<1> QED BY <1>2, <1>3, <1>4, <1>5 DEF BroadcastInv

LEMMA BeginKeeps ==
  ASSUME BroadcastInv, NEW s \in Senders, NEW k \in Nat, NEW msg \in Messages,
         Begin(s, <<s, k>>, msg), fresh' \in [Senders -> Nat]
  PROVE  BroadcastInv'
<1>1. PICK v : v = [window |-> <<s, k>>, msg |-> msg, pos |-> 0, to |-> {}]
  OBVIOUS
<1>2. v \in Sends(s) /\ v.pos = 0 /\ v.to = {}
  BY <1>1 DEF Sends
<1>3. sending' = [sending EXCEPT ![s] = v] /\ UNCHANGED <<phase, queue, incoming, emitting, log, got>>
  BY <1>1 DEF Begin
<1> QED BY <1>2, <1>3, OtherSenders

LEMMA NextKeeps ==
  ASSUME MaxNesting = 0, BroadcastInv, [Next]_vars
  PROVE  BroadcastInv' /\ [Broadcast!Next]_(Broadcast!vars)
<1>0. fresh \in [Senders -> Nat]
  BY DEF BroadcastInv, SendersTyped
<1>1. ASSUME NEW s \in Senders, NEW msg \in Messages, BroadcastMessage(s, msg)
      PROVE  BroadcastInv' /\ UNCHANGED <<log, got>>
  <2>1. Begin(s, <<s, 0>>, msg) /\ fresh' = fresh
    BY <1>1 DEF BroadcastMessage
  <2>2. BroadcastInv'
    BY <1>0, <2>1, BeginKeeps
  <2> QED BY <2>1, <2>2 DEF Begin
<1>2. ASSUME NEW s \in Senders, NEW msg \in Messages, BroadcastMessageX(s, msg)
      PROVE  BroadcastInv' /\ UNCHANGED <<log, got>>
  <2>1. fresh' = [fresh EXCEPT ![s] = @ + 1] /\ Begin(s, <<s, fresh'[s]>>, msg)
    BY <1>2 DEF BroadcastMessageX
  <2>2. fresh' \in [Senders -> Nat]
    BY <1>0, <2>1
  <2>3. PICK k \in Nat : k = fresh'[s]
    BY <2>2
  <2>4. Begin(s, <<s, k>>, msg)
    BY <2>1, <2>3
  <2>5. BroadcastInv'
    BY <2>2, <2>4, BeginKeeps
  <2> QED BY <2>4, <2>5 DEF Begin
<1>3. ASSUME NEW s \in Senders, Restart(s)
      PROVE  BroadcastInv' /\ UNCHANGED <<log, got>>
  <2>1. fresh' \in [Senders -> Nat]
    BY <1>0, <1>3 DEF Restart
  <2>2. BroadcastInv'
    BY <1>3, <2>1, OtherSenders DEF Restart
  <2> QED BY <1>3, <2>2 DEF Restart
<1>4. ASSUME NEW r \in Receivers, Start(r) \/ Stop(r) \/ EndOfSlot(r)
      PROVE  BroadcastInv' /\ UNCHANGED <<log, got>>
  <2>1. BroadcastInv'
    BY <1>4, StartKeeps, StopKeeps, EndOfSlotKeeps
  <2> QED BY <1>4, <2>1 DEF Start, Stop, EndOfSlot
<1>5. ASSUME UNCHANGED vars
      PROVE  BroadcastInv' /\ UNCHANGED <<log, got>>
  BY <1>5 DEF vars, BroadcastInv, SendersTyped, ReceiversTyped, Unborn, Delivering, Listening,
              Settled, Caught
<1>6. UNCHANGED <<log, got>> => [Broadcast!Next]_(Broadcast!vars)
  BY DEF Broadcast!vars
<1>7. ASSUME NEW s \in Senders, SendFragment(s)
      PROVE  BroadcastInv' /\ [Broadcast!Next]_(Broadcast!vars)
  <2>1. BroadcastInv'
    BY <1>7, SendFragmentKeeps
  <2>2. CASE \E t \in Text, R \in SUBSET Receivers : Broadcast!Publish(t, R)
    BY <2>1, <2>2 DEF Broadcast!Next
  <2>3. CASE UNCHANGED <<log, got>>
    BY <1>6, <2>1, <2>3
  <2> QED BY <1>7, <2>2, <2>3, SendFragmentKeeps
<1>8. ASSUME NEW r \in Receivers, Dispatch(r)
      PROVE  BroadcastInv' /\ [Broadcast!Next]_(Broadcast!vars)
  <2>1. BroadcastInv' /\ (Broadcast!Deliver(r) \/ UNCHANGED <<log, got>>)
    BY <1>8, DispatchKeeps
  <2> QED BY <1>6, <2>1 DEF Broadcast!Next
<1> QED BY <1>1, <1>2, <1>3, <1>4, <1>5, <1>6, <1>7, <1>8 DEF Next

\* KXMessages implements MessageBroadcast: whatever interleaves, dies, starts or stops, every
\* receiver emits gotMessage() for whole messages only, each once, in the order in which they
\* were completed.  Slots return before the next event is handled: with a nested event loop
\* the removal of the entry after the signal can take another message's beginning.
THEOREM AtomicBroadcast ==
  ASSUME MaxNesting = 0
  PROVE  Spec => BroadcastIsAtomic
<1>1. Init => BroadcastInv /\ Broadcast!Init
  BY InvInitially DEF Init, Broadcast!Init
<1>2. BroadcastInv /\ [Next]_vars => BroadcastInv' /\ [Broadcast!Next]_(Broadcast!vars)
  BY NextKeeps
<1> QED BY <1>1, <1>2, PTL DEF Spec, BroadcastIsAtomic, Broadcast!Spec
=============================================================================

------------------------- MODULE ClockMessagesProofs -------------------------
(***************************************************************************)
(* What holds of the messages of the clock driver for every use of its     *)
(* interface, any number of calls and any number of messages that are not  *)
(* answered.                                                               *)
(***************************************************************************)
EXTENDS ClockMessages, FiniteSetTheorems, SequenceTheorems, TLAPS

---------------------------------------------------------------------------
(* What a clock is derived from.                                           *)

\* A set of clocks that has the parent of each of its members.
Closed(S) == \A c \in S : clk[c].parent \in S

\* A clock is derived from itself, and from nothing outside a closed set.
LEMMA AboveClosed ==
    ASSUME NEW id
    PROVE  /\ id \in Above(id)
           /\ \A S : id \in S /\ Closed(S) => Above(id) \subseteq S
<1> DEFINE P(c) == clk[c].parent
           Up(f) == f = [n \in 0 .. DEPTH |-> IF n = 0 THEN id ELSE P(f[n - 1])]
           up == CHOOSE f : Up(f)
<1>1. \E f : Up(f)
  <2> DEFINE g == [n \in 0 .. DEPTH |->
                      CASE n = 0 -> id [] n = 1 -> P(id) [] n = 2 -> P(P(id)) [] n = 3 -> P(P(P(id)))
                        [] n = 4 -> P(P(P(P(id)))) [] n = 5 -> P(P(P(P(P(id)))))]
  <2> HIDE DEF P
  <2>1. Up(g)
    BY DEF DEPTH
  <2> QED
    BY <2>1
<1>2. Up(up)
  BY <1>1
<1>3. Above(id) = {up[n] : n \in 0 .. DEPTH}
  BY DEF Above
<1> HIDE DEF up
<1>4. /\ up[0] = id /\ up[1] = P(up[0]) /\ up[2] = P(up[1])
      /\ up[3] = P(up[2]) /\ up[4] = P(up[3]) /\ up[5] = P(up[4])
  BY <1>2 DEF DEPTH
<1>5. Above(id) = {up[0], up[1], up[2], up[3], up[4], up[5]}
  BY <1>3 DEF DEPTH
<1> QED
  BY <1>4, <1>5 DEF Closed
---------------------------------------------------------------------------
(* Lists of messages.                                                      *)

\* Induction over the natural numbers, as a fact about sets of them.
LEMMA NatSetInduction ==
    ASSUME NEW S, 0 \in S, \A n \in Nat : n \in S => n + 1 \in S
    PROVE  Nat \subseteq S
<1> DEFINE Bad == Nat \ S
           T == {1 .. n : n \in Bad}
           R == StrictSubsetOrdering(Nat)
<1>1. SUFFICES ASSUME Bad # {} PROVE FALSE
  OBVIOUS
<1>2. PICK x \in T : \A y \in T : ~ (<< y, x >> \in R)
  <2>1. T # {}
    BY <1>1
  <2>2. T \subseteq FiniteSubsetsOf(Nat)
    <3>1. \A n \in Nat : IsFiniteSet(1 .. n) /\ 1 .. n \subseteq Nat
      BY FS_Interval
    <3> QED
      BY <3>1 DEF FiniteSubsetsOf
  <2>3. IsWellFoundedOn(R, FiniteSubsetsOf(Nat))
    BY FS_StrictSubsetOrderingWellFounded
  <2> HIDE DEF T, R
  <2> QED
    BY <2>1, <2>2, <2>3, WFMin
<1>3. PICK n \in Bad : x = 1 .. n
  BY <1>2
<1>4. n # 0 /\ n - 1 \in Nat
  OBVIOUS
<1>5. n - 1 \in Bad
  <2>1. n - 1 + 1 = n
    OBVIOUS
  <2> QED
    BY <1>4, <2>1
<1>6. << 1 .. n - 1, x >> \in R
  <2>1. 1 .. n - 1 \subseteq Nat /\ 1 .. n \subseteq Nat
    BY <1>4
  <2>2. 1 .. n - 1 \subseteq 1 .. n /\ n \in 1 .. n /\ n \notin 1 .. n - 1
    BY <1>4
  <2> QED
    BY <1>3, <2>1, <2>2 DEF StrictSubsetOrdering
<1> QED
  BY <1>2, <1>5, <1>6

\* The first n parts of s, put together, are f[n], and part i ends at at[i].
Joins(s, f, n) == f = [i \in 1 .. n |-> IF i = 1 THEN s[i] ELSE f[i - 1] \o s[i]]

LEMMA JoinsExists ==
    ASSUME NEW s PROVE \A n \in Nat : \E f : Joins(s, f, n)
<1> DEFINE S == {n \in Nat : \E f : Joins(s, f, n)}
<1>1. 0 \in S
  <2>1. Joins(s, [i \in 1 .. 0 |-> IF i = 1 THEN s[i] ELSE << >>], 0)
    BY DEF Joins
  <2> QED
    BY <2>1
<1>2. \A n \in Nat : n \in S => n + 1 \in S
  <2> SUFFICES ASSUME NEW n \in Nat, n \in S PROVE \E f : Joins(s, f, n + 1)
    OBVIOUS
  <2>1. PICK f : Joins(s, f, n)
    OBVIOUS
  <2>4. \A i \in 1 .. n : f[i] = IF i = 1 THEN s[i] ELSE f[i - 1] \o s[i]
    BY <2>1, Zenon DEF Joins
  <2> DEFINE g == [i \in 1 .. n + 1 |-> IF i <= n THEN f[i] ELSE IF i = 1 THEN s[i] ELSE f[n] \o s[i]]
  <2>2. \A i \in 1 .. n + 1 : g[i] = IF i = 1 THEN s[i] ELSE g[i - 1] \o s[i]
    <3> TAKE i \in 1 .. n + 1
    <3>1. CASE i <= n
      <4>1. f[i] = IF i = 1 THEN s[i] ELSE f[i - 1] \o s[i]
        BY <2>4, <3>1
      <4>2. g[i] = f[i] /\ (i # 1 => g[i - 1] = f[i - 1])
        BY <3>1
      <4> QED
        BY <4>1, <4>2
    <3>2. CASE i = n + 1
      <4>1. g[i] = IF i = 1 THEN s[i] ELSE f[n] \o s[i]
        BY <3>2
      <4>2. i # 1 => g[i - 1] = f[n]
        BY <3>2
      <4> QED
        BY <4>1, <4>2
    <3> QED
      BY <3>1, <3>2
  <2>3. Joins(s, g, n + 1)
    <3>1. DOMAIN g = 1 .. n + 1
      OBVIOUS
    <3>2. g = [i \in 1 .. n + 1 |-> g[i]]
      OBVIOUS
    <3> HIDE DEF g
    <3> QED
      BY <2>2, <3>2 DEF Joins
  <2> QED
    BY <2>3
<1> QED
  BY <1>1, <1>2, NatSetInduction
\* s is put together as F, its part i after the first at[i - 1] elements.
Laid(F, s, at) ==
    /\ at \in [0 .. Len(s) -> Nat] /\ at[0] = 0 /\ at[Len(s)] = Len(F)
    /\ \A i \in 1 .. Len(s) : at[i] = at[i - 1] + Len(s[i])
    /\ \A i \in 0 .. Len(s) : \A j \in i .. Len(s) : at[i] <= at[j]
    /\ \A i \in 1 .. Len(s) : \A j \in 1 .. Len(s[i]) : F[at[i - 1] + j] = s[i][j]
    /\ \A k \in 1 .. Len(F) : \E i \in 1 .. Len(s) : \E j \in 1 .. Len(s[i]) : k = at[i - 1] + j
Flat(F, s) == \E at : Laid(F, s, at)

\* What FlattenSeq makes of a list of lists.
LEMMA Flattened ==
    ASSUME NEW M, NEW s \in Seq(Seq(M)), s # << >>
    PROVE  FlattenSeq(s) \in Seq(M) /\ Flat(FlattenSeq(s), s)
<1> DEFINE N == Len(s)
           f == CHOOSE g : Joins(s, g, N)
           at == [i \in 0 .. N |-> IF i = 0 THEN 0 ELSE Len(f[i])]
<1>1. N \in Nat \ {0} /\ \A i \in 1 .. N : s[i] \in Seq(M) /\ Len(s[i]) \in Nat
  OBVIOUS
<1>2. Joins(s, f, N)
  BY <1>1, JoinsExists
<1>3. FlattenSeq(s) = f[N]
  <2>1. FlattenSeq(s) = (CHOOSE g : Joins(s, g, N))[N]
    BY <1>1 DEF FlattenSeq, Joins
  <2> QED
    BY <2>1
<1> HIDE DEF f
<1>4. f[1] = s[1] /\ \A i \in 2 .. N : f[i] = f[i - 1] \o s[i]
  <2>1. \A i \in 1 .. N : f[i] = IF i = 1 THEN s[i] ELSE f[i - 1] \o s[i]
    BY <1>2, Zenon DEF Joins
  <2>2. 1 \in 1 .. N /\ \A i \in 2 .. N : i \in 1 .. N /\ i # 1
    BY <1>1
  <2> QED
    BY <2>1, <2>2, Zenon
<1> HIDE DEF N
<1>5. \A n \in 1 .. N : f[n] \in Seq(M)
  <2> DEFINE S == {n \in Nat : n \in 1 .. N => f[n] \in Seq(M)}
  <2>1. 0 \in S
    BY <1>1
  <2>2. \A n \in Nat : n \in S => n + 1 \in S
    <3> SUFFICES ASSUME NEW n \in Nat, n \in S, n + 1 \in 1 .. N PROVE f[n + 1] \in Seq(M)
      OBVIOUS
    <3>1. CASE n = 0
      BY <1>1, <1>4, <3>1
    <3>2. CASE n # 0
      <4>1. f[n + 1] = f[n] \o s[n + 1]
        <5>1. n + 1 \in 2 .. N /\ (n + 1) - 1 = n
          BY <1>1, <3>2
        <5> QED
          BY <1>4, <5>1
      <4>2. f[n] \in Seq(M) /\ s[n + 1] \in Seq(M)
        BY <1>1, <3>2
      <4> QED
        BY <4>1, <4>2, ConcatProperties
    <3> QED
      BY <3>1, <3>2
  <2> HIDE DEF S
  <2>3. Nat \subseteq S
    BY <2>1, <2>2, NatSetInduction
  <2> QED
    BY <1>1, <2>3 DEF S
<1>6. at \in [0 .. N -> Nat] /\ at[0] = 0 /\ at[N] = Len(f[N]) /\ \A i \in 1 .. N : at[i] = Len(f[i])
  BY <1>1, <1>5
<1> HIDE DEF at
<1>7. \A i \in 1 .. N : at[i] = at[i - 1] + Len(s[i])
  <2> TAKE i \in 1 .. N
  <2>1. CASE i = 1
    BY <1>1, <1>4, <1>6, <2>1
  <2>2. CASE i # 1
    <3>1. i \in 2 .. N /\ i - 1 \in 1 .. N
      BY <1>1, <2>2
    <3>2. f[i] = f[i - 1] \o s[i] /\ f[i - 1] \in Seq(M) /\ s[i] \in Seq(M)
      BY <1>1, <1>4, <1>5, <3>1
    <3>3. Len(f[i]) = Len(f[i - 1]) + Len(s[i])
      BY <3>2, ConcatProperties
    <3> QED
      BY <1>6, <3>1, <3>3
  <2> QED
    BY <2>1, <2>2
<1>8. \A i \in 0 .. N : \A j \in i .. N : at[i] <= at[j]
  <2> TAKE i \in 0 .. N
  <2> DEFINE S == {n \in Nat : i + n <= N => at[i] <= at[i + n]}
  <2>1. 0 \in S
    BY <1>1, <1>6
  <2>2. \A n \in Nat : n \in S => n + 1 \in S
    <3> SUFFICES ASSUME NEW n \in Nat, n \in S, i + (n + 1) <= N PROVE at[i] <= at[i + (n + 1)]
      OBVIOUS
    <3>1. i + n \in 0 .. N /\ i + (n + 1) \in 1 .. N /\ i + (n + 1) - 1 = i + n
      BY <1>1
    <3>2. at[i + (n + 1)] = at[i + n] + Len(s[i + (n + 1)])
      BY <1>7, <3>1
    <3>3. at[i] \in Nat /\ at[i + n] \in Nat /\ Len(s[i + (n + 1)]) \in Nat /\ at[i] <= at[i + n]
      BY <1>1, <1>6, <3>1
    <3> QED
      BY <3>2, <3>3
  <2> HIDE DEF S
  <2>3. Nat \subseteq S
    BY <2>1, <2>2, NatSetInduction
  <2>4. ASSUME NEW j \in i .. N PROVE at[i] <= at[j]
    <3>1. j - i \in Nat /\ i + (j - i) = j /\ j <= N
      BY <1>1
    <3> QED
      BY <2>3, <3>1 DEF S
  <2> QED
    BY <2>4
<1>9. \A n \in 1 .. N : /\ \A i \in 1 .. n : \A j \in 1 .. Len(s[i]) : f[n][at[i - 1] + j] = s[i][j]
                        /\ \A k \in 1 .. at[n] : \E i \in 1 .. n : \E j \in 1 .. Len(s[i]) : k = at[i - 1] + j
  <2> DEFINE Placed(n) == \A i \in 1 .. n : \A j \in 1 .. Len(s[i]) : f[n][at[i - 1] + j] = s[i][j]
             Covered(n) == \A k \in 1 .. at[n] : \E i \in 1 .. n : \E j \in 1 .. Len(s[i]) : k = at[i - 1] + j
             S == {n \in Nat : n \in 1 .. N => Placed(n) /\ Covered(n)}
  <2>1. 0 \in S
    BY <1>1
  <2> HIDE DEF Placed, Covered
  <2>2. \A n \in Nat : n \in S => n + 1 \in S
    <3> SUFFICES ASSUME NEW n \in Nat, n \in S, n + 1 \in 1 .. N PROVE Placed(n + 1) /\ Covered(n + 1)
      OBVIOUS
    <3>1. CASE n = 0
      <4>1. f[n + 1] = s[1] /\ at[n] = 0 /\ at[n + 1] = Len(s[1])
        BY <1>1, <1>4, <1>6, <3>1
      <4>2. n + 1 = 1 /\ 1 .. (n + 1) = {1}
        BY <3>1
      <4>3. 1 - 1 = 0 /\ Len(s[1]) \in Nat
        BY <1>1
      <4>4. at[0] = 0
        BY <1>6
      <4>5. Placed(n + 1)
        BY <4>1, <4>2, <4>3, <4>4 DEF Placed
      <4>6. Covered(n + 1)
        BY <4>1, <4>2, <4>3, <4>4 DEF Covered
      <4> QED
        BY <4>5, <4>6
    <3>2. CASE n # 0
      <4>1. n \in 1 .. N /\ n + 1 \in 2 .. N /\ (n + 1) - 1 = n
        BY <1>1, <3>2
      <4>2. f[n + 1] = f[n] \o s[n + 1]
        BY <1>4, <4>1
      <4>3. f[n] \in Seq(M) /\ s[n + 1] \in Seq(M) /\ Len(f[n]) = at[n] /\ at[n] \in Nat /\ Len(s[n + 1]) \in Nat
        BY <1>1, <1>5, <1>6, <4>1
      <4>4. at[n + 1] = at[n] + Len(s[n + 1])
        BY <1>7, <4>1
      <4>5. \A k \in 1 .. at[n] + Len(s[n + 1]) :
               f[n + 1][k] = IF k <= at[n] THEN f[n][k] ELSE s[n + 1][k - at[n]]
        <5>1. \A k \in 1 .. Len(f[n]) + Len(s[n + 1]) :
                 f[n + 1][k] = IF k <= Len(f[n]) THEN f[n][k] ELSE s[n + 1][k - Len(f[n])]
          <6>1. \A k \in 1 .. Len(f[n]) + Len(s[n + 1]) :
                   (f[n] \o s[n + 1])[k] = IF k <= Len(f[n]) THEN f[n][k] ELSE s[n + 1][k - Len(f[n])]
            BY <4>3, ConcatProperties
          <6> QED
            BY <4>2, <6>1, Zenon
        <5>2. Len(f[n]) = at[n]
          BY <4>3
        <5> QED
          BY <5>1, <5>2, Zenon
      <4>9. at[n] \in Nat /\ Len(s[n + 1]) \in Nat
        BY <4>3
      <4>6. Placed(n) /\ Covered(n)
        BY <4>1
      <4>7. Placed(n + 1)
        <5> SUFFICES ASSUME NEW i \in 1 .. n + 1, NEW j \in 1 .. Len(s[i])
                     PROVE  f[n + 1][at[i - 1] + j] = s[i][j]
          BY DEF Placed
        <5>1. CASE i = n + 1
          <6>1. at[i - 1] + j = at[n] + j /\ j \in 1 .. Len(s[n + 1])
            BY <4>1, <5>1
          <6>2. at[n] + j \in 1 .. at[n] + Len(s[n + 1]) /\ ~(at[n] + j <= at[n]) /\ (at[n] + j) - at[n] = j
            <7> DEFINE b == at[n]
                       r == Len(s[n + 1])
            <7>1. b \in Nat /\ r \in Nat /\ j \in 1 .. r
              BY <4>9, <6>1
            <7> HIDE DEF b, r
            <7>2. b + j \in 1 .. b + r /\ ~(b + j <= b) /\ (b + j) - b = j
              BY <7>1
            <7> QED
              BY <7>2 DEF b, r
          <6> QED
            BY <4>5, <5>1, <6>1, <6>2
        <5>2. CASE i # n + 1
          <6>1. i \in 1 .. n /\ i \in 1 .. N /\ i - 1 \in 0 .. N /\ i \in 0 .. N
            BY <1>1, <4>1, <5>2
          <6>2. at[i] = at[i - 1] + Len(s[i]) /\ at[i] <= at[n]
            BY <1>7, <1>8, <4>1, <6>1
          <6>3. at[i - 1] \in Nat /\ at[i] \in Nat /\ Len(s[i]) \in Nat
            BY <1>1, <1>6, <6>1
          <6>4. at[i - 1] + j \in 1 .. at[n] + Len(s[n + 1]) /\ at[i - 1] + j <= at[n]
            <7> DEFINE a == at[i - 1]
                       b == at[n]
                       l == Len(s[i])
                       r == Len(s[n + 1])
            <7>1. a \in Nat /\ b \in Nat /\ l \in Nat /\ r \in Nat /\ a + l <= b /\ j \in 1 .. l
              BY <4>9, <6>2, <6>3
            <7> HIDE DEF a, b, l, r
            <7>2. a + j \in 1 .. b + r /\ a + j <= b
              BY <7>1
            <7> QED
              BY <7>2 DEF a, b, r
          <6>5. f[n][at[i - 1] + j] = s[i][j]
            BY <4>6, <6>1 DEF Placed
          <6>6. f[n + 1][at[i - 1] + j] = f[n][at[i - 1] + j]
            BY <4>5, <6>4
          <6> QED
            BY <6>5, <6>6
        <5> QED
          BY <5>1, <5>2
      <4>8. Covered(n + 1)
        <5> SUFFICES ASSUME NEW k \in 1 .. at[n + 1]
                     PROVE  \E i \in 1 .. n + 1 : \E j \in 1 .. Len(s[i]) : k = at[i - 1] + j
          BY DEF Covered
        <5>1. CASE k <= at[n]
          <6>1. k \in 1 .. at[n]
            BY <4>3, <4>4, <5>1
          <6>2. \A i \in 1 .. n : i \in 1 .. n + 1
            OBVIOUS
          <6> QED
            BY <4>6, <6>1, <6>2 DEF Covered
        <5>2. CASE ~(k <= at[n])
          <6>1. k - at[n] \in 1 .. Len(s[n + 1]) /\ k = at[n] + (k - at[n])
            <7> DEFINE b == at[n]
                       r == Len(s[n + 1])
            <7>1. b \in Nat /\ r \in Nat /\ k \in 1 .. b + r /\ ~(k <= b)
              BY <4>4, <4>9, <5>2
            <7> HIDE DEF b, r
            <7>2. k - b \in 1 .. r /\ k = b + (k - b)
              BY <7>1
            <7> QED
              BY <7>2 DEF b, r
          <6>2. n + 1 \in 1 .. n + 1 /\ at[(n + 1) - 1] = at[n]
            BY <4>1
          <6> QED
            BY <6>1, <6>2
        <5> QED
          BY <5>1, <5>2
      <4> QED
        BY <4>7, <4>8
    <3> QED
      BY <3>1, <3>2
  <2> HIDE DEF S
  <2>3. Nat \subseteq S
    BY <2>1, <2>2, NatSetInduction
  <2>4. \A n \in 1 .. N : n \in Nat
    OBVIOUS
  <2>5. \A n \in 1 .. N : Placed(n) /\ Covered(n)
    BY <2>3, <2>4, Zenon DEF S
  <2> QED
    BY <2>5, Zenon DEF Placed, Covered
<1>10. N \in 1 .. N
  BY <1>1
<1>11. Laid(f[N], s, at)
  <2>1. /\ \A i \in 1 .. N : \A j \in 1 .. Len(s[i]) : f[N][at[i - 1] + j] = s[i][j]
        /\ \A k \in 1 .. at[N] : \E i \in 1 .. N : \E j \in 1 .. Len(s[i]) : k = at[i - 1] + j
    BY <1>9, <1>10
  <2>2. at[N] = Len(f[N])
    BY <1>6
  <2> QED
    BY <1>6, <1>7, <1>8, <2>1, <2>2, Zenon DEF Laid, N
<1> QED
  BY <1>3, <1>5, <1>10, <1>11 DEF Flat
---------------------------------------------------------------------------
(* The tables.                                                             *)

Rows == 1 .. 18
Ufs(i) == UfsClocks[i].id
UfsIds == {Ufs(i) : i \in Rows}

LEMMA UfsTable ==
    /\ DOMAIN UfsClocks = Rows /\ Len(UfsClocks) = 18
    /\ \A i \in Rows : UfsClocks[i] = Row(Ufs(i), UfsClocks[i].rate, UfsClocks[i].parent)
    /\ \A i \in Rows : UfsClocks[i].rate \in Nat
    /\ \A i \in Rows : \A j \in Rows : Ufs(i) = Ufs(j) => i = j
    /\ Ufs(1) = "OSC" /\ Ufs(2) = "CLK_M" /\ Ufs(3) = "PLLU"
    /\ \A i \in Rows : \/ UfsClocks[i].parent \in AtBoot \cup {CLK_MAX}
                       \/ \E j \in 3 .. i - 1 : UfsClocks[i].parent = Ufs(j)
BY DEF UfsClocks, Row, Ufs, Rows, AtBoot, CLK_MAX

\* The clocks of UFS, and those that are never turned off, are no module's.
LEMMA UfsApart ==
    /\ UfsIds \cap {"PLLE", "XUSB_DEV", "XUSB_SS", "XUSB_FS", "QSPI",
                    "USB2_HSIC_TRK", "USB2_TRK", "HSIC_TRK"} = {}
    /\ UfsIds \cap (ClockAndReset \cup ClockOnly) = {}
BY DEF UfsClocks, Row, UfsIds, Ufs, Rows, CLK_MAX, ClockAndReset, ClockOnly
---------------------------------------------------------------------------
(* The parts of the inductive invariant.                                   *)

TrackingIds == {"USB2_HSIC_TRK", "USB2_TRK", "HSIC_TRK"}
Parts == {"joined", "clocked", "released"}

\* The messages that the functions send, by command, and what is not a message.
\* Modules are moved to any source, but the clocks of the tables to theirs only,
\* and of the clocks that others are derived from only those of UFS are turned off.
Movable == ClockAndReset \cup ClockOnly \cup {"XUSB_FS"}
Switched == Movable \cup TrackingIds \cup {"PLLE"} \cup {Ufs(i) : i \in 4 .. 18}
Moves ==
    {<< id, parent >> : id \in Movable, parent \in AllClocks \cup {"GPU"}}
    \cup {<< Ufs(i), UfsClocks[i].parent >> : i \in {j \in Rows : UfsClocks[j].parent # CLK_MAX}}
    \cup {<< id, "OSC" >> : id \in TrackingIds}
Enables == [cmd : {"ENABLE"}, id : AllClocks, arg : {0}, must : BOOLEAN]
Disables == [cmd : {"DISABLE"}, id : Switched, arg : {0}, must : BOOLEAN]
Questions == [cmd : {"IS_ENABLED"}, id : AllClocks, arg : {"skip if off", "done if on"}, must : {FALSE}]
RateQuestions == [cmd : {"GET_RATE"}, id : AllClocks \cup {"GPU"}, arg : {0}, must : BOOLEAN]
NewRates == [cmd : {"SET_RATE"}, id : AllClocks, arg : Nat, must : BOOLEAN]
NewParents == {Message("SET_PARENT", move[1], move[2], must) : move \in Moves, must \in BOOLEAN}
Resets ==
    [cmd : {"ASSERT", "DEASSERT"}, id : ClockAndReset \cup ResetOnly \cup ToSet(UfsResets), arg : {0}, must : {FALSE}]
Powers == [cmd : {"POWER_ON", "POWER_OFF"}, id : ToSet(DisplayDomains), arg : {0}, must : {FALSE}]
DeviceWrites == [cmd : {"Join", "Part"}, id : {"none"}, arg : Parts, must : {TRUE}]
ParentChoices == [cmd : {"ChooseParent"}, id : {"none"}, arg : [src : QspiSources, divisor : Nat], must : {TRUE}]
Derivations == [cmd : {"DeriveRate"}, id : {"none"}, arg : Nat, must : {TRUE}]
Refusals == {Local("NotSupported", "none")}
Msgs ==
    UNION {Enables, Disables, Questions, RateQuestions, NewRates, NewParents,
           Resets, Powers, DeviceWrites, ParentChoices, Derivations, Refusals}

ClkType == [AllClocks -> [on : BOOLEAN, parent : AllClocks, rate : Nat]]
TypeInv ==
    /\ clk \in ClkType
    /\ powered \subseteq ToSet(DisplayDomains)
    /\ device \subseteq Parts /\ muxed \in Nat /\ menu \in Menus
    /\ call.fn = "none" \/ InInterface(call)
    /\ todo \in Seq(Msgs)
    /\ got \in Nat \cup {-1} /\ result \in {"ok", "error"}
    /\ calls \in 0 .. MaxCalls /\ lost \in 0 .. MaxLost

\* The trees of the clocks of the tables and of the outputs of PLLC4, whose roots
\* are always on.
TreeInv ==
    /\ \A c \in AtBoot : clk[c].on /\ clk[c].parent = "OSC"
    /\ clk["PLLC4_VCO"].parent = "OSC" /\ \A c \in Pllc4Outs : clk[c].parent = "PLLC4_VCO"
    /\ \A i \in Rows : clk[Ufs(i)].parent \in {"OSC", UfsClocks[i].parent}
    /\ \A c \in TrackingIds : clk[c].parent = "OSC"

On(c) == Try("ENABLE", c, 0)
Off(c) == Try("DISABLE", c, 0)
Lit(c) == clk[c].on \/ c \in unsure
Dark(c) == ~clk[c].on \/ c \in unsure

Has(s, m) == \E k \in DOMAIN s : s[k] = m
\* Every element of N in s has m before it; has m behind it.
Ahead(s, m, N) == \A k \in DOMAIN s : s[k] \in N => \E j \in 1 .. k - 1 : s[j] = m
Behind(s, N, m) == \A k \in DOMAIN s : s[k] \in N => \E j \in k + 1 .. Len(s) : s[j] = m

\* What is sent only when clock i of UFS has been sent its order.
AfterOn(i) ==
    {m \in Msgs : m.cmd = "DEASSERT" \/ (m.cmd \in {"ENABLE", "SET_PARENT"} /\ m.id \in {Ufs(j) : j \in i + 1 .. 18})}
AfterOff(i) == {m \in Msgs : m.cmd = "DISABLE" /\ m.id \in {Ufs(j) : j \in 4 .. i - 1}}
InitInOrder ==
    call.fn = "ufs_clock_init" => \A i \in Rows : Lit(Ufs(i)) \/ Ahead(todo, On(Ufs(i)), AfterOn(i))
DeinitInOrder ==
    call.fn = "ufs_clock_deinit" => \A i \in 4 .. 18 : Dark(Ufs(i)) \/ Ahead(todo, Off(Ufs(i)), AfterOff(i))
\* A clock of UFS that runs under its parent of the table.
PairsInOrder ==
    \A i \in Rows : LET p == UfsClocks[i].parent IN
        clk[Ufs(i)].on /\ p # CLK_MAX /\ clk[Ufs(i)].parent = p => clk[p].on \/ {Ufs(i), p} \cap unsure # {}

QspiParents(src) ==
    CASE src = "CLK_M" -> {"GPU"} [] src = "PLLC4_MUXED" -> Pllc4Outs [] src = "PLLP_OUT0" -> {"PLLP_OUT0"}
QspiRate(parent, divisor) == RateOf(parent) \div ((divisor + 1) \div 2 + 1)

\* How far enable_qspi is, and what it has done.
QspiInv ==
    call.fn = "enable_qspi" /\ result = "ok" =>
        \/ todo = EnableQspi(call.id, call.arg)
        \/ todo = << Local("ChooseParent", [src |-> call.id, divisor |-> call.arg]) >>
        \/ \E p \in QspiParents(call.id) :
              \/ todo = << Send("SET_PARENT", "QSPI", p), Send("GET_RATE", p, 0), Local("DeriveRate", call.arg) >>
              \/ /\ p \in AllClocks /\ clk["QSPI"].parent = p
                 /\ \/ todo = << Send("GET_RATE", p, 0), Local("DeriveRate", call.arg) >>
                    \/ todo = << Local("DeriveRate", call.arg) >> /\ got = RateOf(p)
                    \/ todo = << Send("SET_RATE", "QSPI", QspiRate(p, call.arg)), Send("ENABLE", "QSPI", 0) >>
                    \/ todo = << Send("ENABLE", "QSPI", 0) >> /\ clk["QSPI"].rate = QspiRate(p, call.arg)
                    \/ todo = << >> /\ clk["QSPI"].rate = QspiRate(p, call.arg) /\ clk["QSPI"].on

---------------------------------------------------------------------------
(* The lists of the functions.                                             *)

\* Lists of known length, put together.
LEMMA Joined ==
    ASSUME NEW a, NEW b, NEW c
    PROVE  << a >> \o << b >> = << a, b >> /\ << a, b >> \o << c >> = << a, b, c >>
<1> DEFINE S == {a, b, c}
<1>1. ASSUME NEW s \in Seq(S), NEW t \in Seq(S), NEW u \in Seq(S), Len(u) = Len(s) + Len(t),
             \A i \in 1 .. Len(u) : u[i] = IF i <= Len(s) THEN s[i] ELSE t[i - Len(s)]
      PROVE  s \o t = u
  <2> HIDE DEF S
  <2>1. s \o t \in Seq(S) /\ Len(s \o t) = Len(u) /\ \A i \in 1 .. Len(u) : (s \o t)[i] = u[i]
    BY <1>1, ConcatProperties
  <2> QED
    BY <2>1, SeqEqual
<1>2. << a >> \in Seq(S) /\ << b >> \in Seq(S) /\ << c >> \in Seq(S) /\ << a, b >> \in Seq(S) /\ << a, b, c >> \in Seq(S)
  OBVIOUS
<1>3. << a >> \o << b >> = << a, b >>
  <2>1. Len(<< a, b >>) = Len(<< a >>) + Len(<< b >>)
    OBVIOUS
  <2>2. \A i \in 1 .. Len(<< a, b >>) : << a, b >>[i] = IF i <= Len(<< a >>) THEN << a >>[i] ELSE << b >>[i - Len(<< a >>)]
    OBVIOUS
  <2> HIDE DEF S
  <2> QED
    BY <1>1, <1>2, <2>1, <2>2
<1>4. << a, b >> \o << c >> = << a, b, c >>
  <2>1. Len(<< a, b, c >>) = Len(<< a, b >>) + Len(<< c >>)
    OBVIOUS
  <2>2. \A i \in 1 .. Len(<< a, b, c >>) :
           << a, b, c >>[i] = IF i <= Len(<< a, b >>) THEN << a, b >>[i] ELSE << c >>[i - Len(<< a, b >>)]
    OBVIOUS
  <2> HIDE DEF S
  <2> QED
    BY <1>1, <1>2, <2>1, <2>2
<1> QED
  BY <1>3, <1>4

\* The messages of the driver, by how they are made.
LEMMA MsgsAre ==
    /\ \A id \in AllClocks : \A must \in BOOLEAN : Message("ENABLE", id, 0, must) \in Msgs
    /\ \A id \in AllClocks \cup {"GPU"} : \A must \in BOOLEAN : Message("GET_RATE", id, 0, must) \in Msgs
    /\ \A id \in Switched : \A must \in BOOLEAN : Message("DISABLE", id, 0, must) \in Msgs
    /\ \A id \in AllClocks : \A ask \in {"skip if off", "done if on"} : Message("IS_ENABLED", id, ask, FALSE) \in Msgs
    /\ \A id \in AllClocks : \A rate \in Nat : \A must \in BOOLEAN : Message("SET_RATE", id, rate, must) \in Msgs
    /\ \A id, parent : \A must \in BOOLEAN : << id, parent >> \in Moves => Message("SET_PARENT", id, parent, must) \in Msgs
    /\ \A cmd \in {"ASSERT", "DEASSERT"} : \A id \in ClockAndReset \cup ResetOnly \cup ToSet(UfsResets) :
          Message(cmd, id, 0, FALSE) \in Msgs
    /\ \A cmd \in {"POWER_ON", "POWER_OFF"} : \A id \in ToSet(DisplayDomains) : Message(cmd, id, 0, FALSE) \in Msgs
    /\ \A cmd \in {"Join", "Part"} : \A part \in Parts : Message(cmd, "none", part, TRUE) \in Msgs
    /\ \A src \in QspiSources : \A divisor \in Nat :
          Message("ChooseParent", "none", [src |-> src, divisor |-> divisor], TRUE) \in Msgs
    /\ \A divisor \in Nat : Message("DeriveRate", "none", divisor, TRUE) \in Msgs
    /\ Message("NotSupported", "none", "none", TRUE) \in Msgs
<1>1. \A id, parent : \A must \in BOOLEAN : << id, parent >> \in Moves => Message("SET_PARENT", id, parent, must) \in Msgs
  <2> SUFFICES ASSUME NEW id, NEW parent, NEW must \in BOOLEAN, << id, parent >> \in Moves
               PROVE  Message("SET_PARENT", id, parent, must) \in Msgs
    OBVIOUS
  <2> DEFINE move == << id, parent >>
  <2>1. move \in Moves /\ move[1] = id /\ move[2] = parent
    OBVIOUS
  <2> HIDE DEF move
  <2> QED
    BY <2>1 DEF NewParents, Msgs
<1>2. Message("NotSupported", "none", "none", TRUE) \in Msgs
  BY DEF Local, Refusals, Msgs
<1>3. \A id \in AllClocks : \A must \in BOOLEAN : Message("ENABLE", id, 0, must) \in Msgs
  BY DEF Enables, Msgs, Message
<1>4. \A id \in AllClocks \cup {"GPU"} : \A must \in BOOLEAN : Message("GET_RATE", id, 0, must) \in Msgs
  BY DEF RateQuestions, Msgs, Message
<1>5. \A id \in Switched : \A must \in BOOLEAN : Message("DISABLE", id, 0, must) \in Msgs
  BY DEF Disables, Msgs, Message
<1>6. \A id \in AllClocks : \A ask \in {"skip if off", "done if on"} : Message("IS_ENABLED", id, ask, FALSE) \in Msgs
  BY DEF Questions, Msgs, Message
<1>7. \A id \in AllClocks : \A rate \in Nat : \A must \in BOOLEAN : Message("SET_RATE", id, rate, must) \in Msgs
  BY DEF NewRates, Msgs, Message
<1>8. \A cmd \in {"ASSERT", "DEASSERT"} : \A id \in ClockAndReset \cup ResetOnly \cup ToSet(UfsResets) :
         Message(cmd, id, 0, FALSE) \in Msgs
  BY DEF Resets, Msgs, Message
<1>9. \A cmd \in {"POWER_ON", "POWER_OFF"} : \A id \in ToSet(DisplayDomains) : Message(cmd, id, 0, FALSE) \in Msgs
  BY DEF Powers, Msgs, Message
<1>10. \A cmd \in {"Join", "Part"} : \A part \in Parts : Message(cmd, "none", part, TRUE) \in Msgs
  BY DEF DeviceWrites, Msgs, Message
<1>11. \A src \in QspiSources : \A divisor \in Nat :
          Message("ChooseParent", "none", [src |-> src, divisor |-> divisor], TRUE) \in Msgs
  BY DEF ParentChoices, Msgs, Message
<1>12. \A divisor \in Nat : Message("DeriveRate", "none", divisor, TRUE) \in Msgs
  BY DEF Derivations, Msgs, Message
<1> QED
  BY <1>1, <1>2, <1>3, <1>4, <1>5, <1>6, <1>7, <1>8, <1>9, <1>10, <1>11, <1>12, Zenon

\* What a message says, by its command.
LEMMA MsgFields ==
    ASSUME NEW m \in Msgs
    PROVE  /\ m = Message(m.cmd, m.id, m.arg, m.must) /\ m.must \in BOOLEAN
           /\ m.cmd \in {"ENABLE", "IS_ENABLED", "SET_RATE"} => m.id \in AllClocks
           /\ m.cmd \in {"ENABLE", "DISABLE", "GET_RATE", "ASSERT", "DEASSERT", "POWER_ON", "POWER_OFF"} => m.arg = 0
           /\ m.cmd = "DISABLE" => m.id \in Switched
           /\ m.cmd = "IS_ENABLED" => m.arg \in {"skip if off", "done if on"} /\ ~m.must
           /\ m.cmd \in {"ASSERT", "DEASSERT"} => ~m.must
           /\ m.cmd = "GET_RATE" => m.id \in AllClocks \cup {"GPU"}
           /\ m.cmd = "SET_RATE" => m.arg \in Nat
           /\ m.cmd = "SET_PARENT" => << m.id, m.arg >> \in Moves
           /\ m.cmd \in {"POWER_ON", "POWER_OFF"} => m.id \in ToSet(DisplayDomains)
           /\ m.cmd \in {"Join", "Part"} => m.arg \in Parts
           /\ m.cmd = "ChooseParent" => m.arg \in [src : QspiSources, divisor : Nat]
           /\ m.cmd = "DeriveRate" => m.arg \in Nat
           /\ m.cmd \in {"ENABLE", "DISABLE", "IS_ENABLED", "GET_RATE", "SET_RATE", "SET_PARENT", "ASSERT", "DEASSERT",
                        "POWER_ON", "POWER_OFF", "Join", "Part", "ChooseParent", "DeriveRate", "NotSupported"}
<1>1. CASE m \in Enables
  BY <1>1 DEF Enables, Message
<1>2. CASE m \in Disables
  BY <1>2 DEF Disables, Message
<1>3. CASE m \in Questions
  BY <1>3 DEF Questions, Message
<1>4. CASE m \in RateQuestions
  BY <1>4 DEF RateQuestions, Message
<1>5. CASE m \in NewRates
  BY <1>5 DEF NewRates, Message
<1>6. CASE m \in NewParents
  <2>1. PICK move \in Moves, must \in BOOLEAN : m = Message("SET_PARENT", move[1], move[2], must)
    BY <1>6 DEF NewParents
  <2>2. move = << move[1], move[2] >>
    BY DEF Moves
  <2> QED
    BY <2>1, <2>2 DEF Message
<1>7. CASE m \in Resets
  BY <1>7 DEF Resets, Message
<1>8. CASE m \in Powers
  BY <1>8 DEF Powers, Message
<1>9. CASE m \in DeviceWrites
  BY <1>9 DEF DeviceWrites, Message
<1>10. CASE m \in ParentChoices
  BY <1>10 DEF ParentChoices, Message
<1>11. CASE m \in Derivations
  BY <1>11 DEF Derivations, Message
<1>12. CASE m \in Refusals
  <2>1. m = Message("NotSupported", "none", "none", TRUE)
    BY <1>12 DEF Refusals, Local
  <2>2. m.cmd = "NotSupported" /\ m.id = "none" /\ m.arg = "none" /\ m.must = TRUE
    BY <2>1 DEF Message
  <2> QED
    BY <2>1, <2>2
<1> QED
  BY <1>1, <1>2, <1>3, <1>4, <1>5, <1>6, <1>7, <1>8, <1>9, <1>10, <1>11, <1>12 DEF Msgs
\* What comes first in a list that was put together from parts.
LEMMA FlatOrder ==
    ASSUME NEW F, NEW s, s \in Seq(Seq(Msgs)), Flat(F, s), F \in Seq(Msgs),
           NEW i \in 1 .. Len(s), NEW j \in 1 .. Len(s[i]), NEW N
    PROVE  /\ Has(F, s[i][j])
           /\ (\A a \in 1 .. Len(s) : \A b \in 1 .. Len(s[a]) : s[a][b] \in N => i < a \/ (i = a /\ j < b))
                => Ahead(F, s[i][j], N)
           /\ (\A a \in 1 .. Len(s) : \A b \in 1 .. Len(s[a]) : s[a][b] \in N => a < i \/ (a = i /\ b < j))
                => Behind(F, N, s[i][j])
<1> PICK at : Laid(F, s, at)
  BY DEF Flat
<1>1. /\ Len(s) \in Nat /\ Len(F) \in Nat /\ at[Len(s)] = Len(F)
      /\ \A a \in 0 .. Len(s) : at[a] \in Nat
      /\ \A a \in 1 .. Len(s) : Len(s[a]) \in Nat /\ at[a - 1] \in Nat /\ at[a] = at[a - 1] + Len(s[a])
  <2>1. Len(s) \in Nat /\ Len(F) \in Nat /\ \A a \in 1 .. Len(s) : Len(s[a]) \in Nat /\ a - 1 \in 0 .. Len(s)
    <3>1. \A a \in 1 .. Len(s) : s[a] \in Seq(Msgs)
      BY ElementOfSeq
    <3> QED
      BY <3>1
  <2>2. at[Len(s)] = Len(F) /\ \A a \in 1 .. Len(s) : at[a] = at[a - 1] + Len(s[a])
    BY DEF Laid
  <2>3. at \in [0 .. Len(s) -> Nat]
    BY DEF Laid
  <2> QED
    BY <2>1, <2>2, <2>3
<1> DEFINE Pos(a, b) == at[a - 1] + b
<1>2. ASSUME NEW a \in 1 .. Len(s), NEW b \in 1 .. Len(s[a]) PROVE Pos(a, b) \in 1 .. Len(F) /\ F[Pos(a, b)] = s[a][b]
  <2>1. a \in 0 .. Len(s) /\ Len(s) \in a .. Len(s)
    BY <1>1
  <2>2. at[a] <= Len(F) /\ F[Pos(a, b)] = s[a][b]
    BY <1>1, <2>1 DEF Laid
  <2> DEFINE x == at[a - 1]
             y == Len(s[a])
  <2>3. x \in Nat /\ y \in Nat /\ x + y <= Len(F) /\ b \in 1 .. y
    BY <1>1, <2>2
  <2> HIDE DEF x, y
  <2>4. x + b \in 1 .. Len(F)
    BY <1>1, <2>3
  <2> QED
    BY <2>2, <2>4 DEF x
<1>3. ASSUME NEW a \in 1 .. Len(s), NEW b \in 1 .. Len(s[a]), NEW c \in 1 .. Len(s), NEW d \in 1 .. Len(s[c]),
             a < c \/ (a = c /\ b < d)
      PROVE  Pos(a, b) < Pos(c, d)
  <2>1. CASE a < c
    <3>1. a \in 0 .. Len(s) /\ c - 1 \in a .. Len(s)
      BY <1>1, <2>1
    <3>2. at[a] <= at[c - 1]
      BY <3>1 DEF Laid
    <3> DEFINE x == at[a - 1]
               y == Len(s[a])
               z == at[c - 1]
    <3>3. x \in Nat /\ y \in Nat /\ z \in Nat /\ x + y <= z /\ b \in 1 .. y /\ d \in Nat /\ d >= 1
      BY <1>1, <3>2
    <3> HIDE DEF x, y, z
    <3>4. x + b < z + d
      BY <3>3
    <3> QED
      BY <3>4 DEF x, z
  <2>2. CASE a = c /\ b < d
    <3> DEFINE x == at[a - 1]
    <3>1. x \in Nat /\ b \in Nat /\ d \in Nat
      BY <1>1, <2>2
    <3> HIDE DEF x
    <3>2. x + b < x + d
      BY <2>2, <3>1
    <3> QED
      BY <2>2, <3>2 DEF x
  <2> QED
    BY <1>3, <2>1, <2>2
<1>4. \A k \in 1 .. Len(F) : \E a \in 1 .. Len(s) : \E b \in 1 .. Len(s[a]) : k = Pos(a, b)
  BY DEF Laid
<1>5. DOMAIN F = 1 .. Len(F)
  OBVIOUS
<1> HIDE DEF Pos
<1>6. Pos(i, j) \in 1 .. Len(F) /\ F[Pos(i, j)] = s[i][j]
  BY <1>2
<1>7. Has(F, s[i][j])
  BY <1>5, <1>6 DEF Has
<1>8. ASSUME \A a \in 1 .. Len(s) : \A b \in 1 .. Len(s[a]) : s[a][b] \in N => i < a \/ (i = a /\ j < b)
      PROVE  Ahead(F, s[i][j], N)
  <2> SUFFICES ASSUME NEW k \in 1 .. Len(F), F[k] \in N PROVE \E h \in 1 .. k - 1 : F[h] = s[i][j]
    BY <1>5 DEF Ahead
  <2> PICK a \in 1 .. Len(s) : \E b \in 1 .. Len(s[a]) : k = Pos(a, b)
    BY <1>4
  <2> PICK b \in 1 .. Len(s[a]) : k = Pos(a, b)
    OBVIOUS
  <2>1. s[a][b] \in N
    BY <1>2
  <2>2. Pos(i, j) < k
    BY <1>3, <1>8, <2>1
  <2>3. Pos(i, j) \in 1 .. k - 1
    BY <1>1, <1>6, <2>2
  <2> QED
    BY <1>6, <2>3
<1>9. ASSUME \A a \in 1 .. Len(s) : \A b \in 1 .. Len(s[a]) : s[a][b] \in N => a < i \/ (a = i /\ b < j)
      PROVE  Behind(F, N, s[i][j])
  <2> SUFFICES ASSUME NEW k \in 1 .. Len(F), F[k] \in N PROVE \E h \in k + 1 .. Len(F) : F[h] = s[i][j]
    BY <1>5 DEF Behind
  <2> PICK a \in 1 .. Len(s) : \E b \in 1 .. Len(s[a]) : k = Pos(a, b)
    BY <1>4
  <2> PICK b \in 1 .. Len(s[a]) : k = Pos(a, b)
    OBVIOUS
  <2>1. s[a][b] \in N
    BY <1>2
  <2>2. k < Pos(i, j)
    BY <1>3, <1>9, <2>1
  <2>3. Pos(i, j) \in k + 1 .. Len(F)
    BY <1>1, <1>6, <2>2
  <2> QED
    BY <1>6, <2>3
<1> QED
  BY <1>7, <1>8, <1>9

LEMMA FlatHas ==
    ASSUME NEW F \in Seq(Msgs), NEW s \in Seq(Seq(Msgs)), Flat(F, s), NEW i \in 1 .. Len(s), NEW j \in 1 .. Len(s[i])
    PROVE  Has(F, s[i][j])
BY FlatOrder
LEMMA FlatAhead ==
    ASSUME NEW F \in Seq(Msgs), NEW s \in Seq(Seq(Msgs)), Flat(F, s), NEW i \in 1 .. Len(s), NEW j \in 1 .. Len(s[i]),
           NEW N, \A a \in 1 .. Len(s) : \A b \in 1 .. Len(s[a]) : s[a][b] \in N => i < a \/ (a = i /\ j < b)
    PROVE  Ahead(F, s[i][j], N)
BY FlatOrder
LEMMA FlatBehind ==
    ASSUME NEW F \in Seq(Msgs), NEW s \in Seq(Seq(Msgs)), Flat(F, s), NEW i \in 1 .. Len(s), NEW j \in 1 .. Len(s[i]),
           NEW N, \A a \in 1 .. Len(s) : \A b \in 1 .. Len(s[a]) : s[a][b] \in N => a < i \/ (a = i /\ b < j)
    PROVE  Behind(F, N, s[i][j])
BY FlatOrder

\* Every element of such a list is one of a part.
LEMMA FlatRange ==
    \A F, t : Flat(F, t) => \A n \in 1 .. Len(F) : \E i \in 1 .. Len(t) : \E j \in 1 .. Len(t[i]) : F[n] = t[i][j]
<1> SUFFICES ASSUME NEW F, NEW s, Flat(F, s), NEW k \in 1 .. Len(F)
             PROVE  \E i \in 1 .. Len(s) : \E j \in 1 .. Len(s[i]) : F[k] = s[i][j]
  OBVIOUS
<1> PICK at : Laid(F, s, at)
  BY DEF Flat
<1> PICK i \in 1 .. Len(s) : \E j \in 1 .. Len(s[i]) : k = at[i - 1] + j
  BY DEF Laid
<1> PICK j \in 1 .. Len(s[i]) : k = at[i - 1] + j
  OBVIOUS
<1> QED
  BY DEF Laid

\* What is ahead of some elements of a list, or behind them, stays so when more is
\* put behind the list.
LEMMA OrderOfJoin ==
    ASSUME NEW s \in Seq(Msgs), NEW t \in Seq(Msgs)
    PROVE  /\ s \o t \in Seq(Msgs)
           /\ \A m : Has(s \o t, m) <=> Has(s, m) \/ Has(t, m)
           /\ \A m, N : Ahead(s, m, N) /\ Has(s, m) => Ahead(s \o t, m, N)
           /\ \A m, N : Behind(s, N, m) /\ (\A k \in 1 .. Len(t) : t[k] \notin N) => Behind(s \o t, N, m)
<1> DEFINE u == s \o t
<1>1. /\ u \in Seq(Msgs) /\ Len(u) = Len(s) + Len(t) /\ DOMAIN u = 1 .. Len(s) + Len(t)
      /\ \A k \in 1 .. Len(s) + Len(t) : u[k] = IF k <= Len(s) THEN s[k] ELSE t[k - Len(s)]
      /\ DOMAIN s = 1 .. Len(s) /\ DOMAIN t = 1 .. Len(t)
  BY ConcatProperties
<1> HIDE DEF u
<1>2. /\ \A k \in 1 .. Len(s) : k \in 1 .. Len(u) /\ u[k] = s[k]
      /\ \A k \in 1 .. Len(t) : k + Len(s) \in 1 .. Len(u) /\ u[k + Len(s)] = t[k]
      /\ \A k \in 1 .. Len(u) : k \in 1 .. Len(s) \/ (k - Len(s) \in 1 .. Len(t) /\ u[k] = t[k - Len(s)])
  <2>0. Len(s) \in Nat /\ Len(t) \in Nat
    OBVIOUS
  <2>1. \A k \in 1 .. Len(s) : k \in 1 .. Len(s) + Len(t) /\ k <= Len(s)
    BY <2>0
  <2>2. \A k \in 1 .. Len(t) : k + Len(s) \in 1 .. Len(s) + Len(t) /\ ~(k + Len(s) <= Len(s)) /\ (k + Len(s)) - Len(s) = k
    BY <2>0
  <2>3. \A k \in 1 .. Len(s) + Len(t) : k <= Len(s) => k \in 1 .. Len(s)
    BY <2>0
  <2>4. \A k \in 1 .. Len(s) + Len(t) : ~(k <= Len(s)) => k - Len(s) \in 1 .. Len(t)
    BY <2>0
  <2> QED
    BY <1>1, <2>1, <2>2, <2>3, <2>4
<1>3. \A m : Has(u, m) <=> Has(s, m) \/ Has(t, m)
  <2> TAKE m
  <2>1. ASSUME Has(s, m) PROVE Has(u, m)
    <3>1. PICK h \in 1 .. Len(s) : s[h] = m
      BY <1>1, <2>1 DEF Has
    <3>2. h \in DOMAIN u /\ u[h] = m
      BY <1>1, <1>2, <3>1
    <3> QED
      BY <3>2 DEF Has
  <2>2. ASSUME Has(t, m) PROVE Has(u, m)
    <3>1. PICK h \in 1 .. Len(t) : t[h] = m
      BY <1>1, <2>2 DEF Has
    <3>2. h + Len(s) \in DOMAIN u /\ u[h + Len(s)] = m
      BY <1>1, <1>2, <3>1
    <3> QED
      BY <3>2, Zenon DEF Has
  <2>3. ASSUME Has(u, m) PROVE Has(s, m) \/ Has(t, m)
    <3>1. PICK h \in 1 .. Len(u) : u[h] = m
      BY <1>1, <2>3 DEF Has
    <3>2. CASE h \in 1 .. Len(s)
      BY <1>1, <1>2, <3>1, <3>2 DEF Has
    <3>3. CASE h - Len(s) \in 1 .. Len(t) /\ u[h] = t[h - Len(s)]
      <4>1. h - Len(s) \in DOMAIN t /\ t[h - Len(s)] = m
        BY <1>1, <3>1, <3>3
      <4> QED
        BY <4>1, Zenon DEF Has
    <3> QED
      BY <1>2, <3>1, <3>2, <3>3
  <2> QED
    BY <2>1, <2>2, <2>3
<1>4. ASSUME NEW m, NEW N, Ahead(s, m, N), Has(s, m) PROVE Ahead(u, m, N)
  <2> SUFFICES ASSUME NEW k \in 1 .. Len(u), u[k] \in N PROVE \E h \in 1 .. k - 1 : u[h] = m
    BY <1>1 DEF Ahead
  <2>1. CASE k \in 1 .. Len(s)
    <3>1. PICK h \in 1 .. k - 1 : s[h] = m
      BY <1>1, <1>2, <1>4, <2>1 DEF Ahead
    <3> QED
      BY <1>1, <2>1, <3>1
  <2>2. CASE k \notin 1 .. Len(s)
    <3>1. PICK h \in 1 .. Len(s) : s[h] = m
      BY <1>1, <1>4 DEF Has
    <3>2. u[h] = m
      BY <1>2, <3>1
    <3>3. h \in 1 .. k - 1
      BY <1>1, <2>2, <3>1
    <3> QED
      BY <3>2, <3>3
  <2> QED
    BY <2>1, <2>2
<1>5. ASSUME NEW m, NEW N, Behind(s, N, m), \A k \in 1 .. Len(t) : t[k] \notin N PROVE Behind(u, N, m)
  <2> SUFFICES ASSUME NEW k \in 1 .. Len(u), u[k] \in N PROVE \E h \in k + 1 .. Len(u) : u[h] = m
    BY <1>1 DEF Behind
  <2>1. k \in 1 .. Len(s)
    BY <1>2, <1>5
  <2>2. PICK h \in k + 1 .. Len(s) : s[h] = m
    BY <1>1, <1>2, <1>5, <2>1 DEF Behind
  <2> QED
    BY <1>1, <2>1, <2>2
<1> QED
  BY <1>1, <1>3, <1>4, <1>5 DEF u
\* The messages of a row of a table, in order.
RowOn(row) == Try("ENABLE", row.id, 0)
RowParent(row) == Try("SET_PARENT", row.id, row.parent)
RowRate(row) == Try("SET_RATE", row.id, row.rate)
RowFits(row) ==
    row.id \in AllClocks /\ row.rate \in Nat /\ (row.parent # CLK_MAX => << row.id, row.parent >> \in Moves)
LEMMA ProgramIs ==
    ASSUME NEW row, RowFits(row)
    PROVE  LET P == Program(row) IN
           /\ P \in Seq(Msgs) /\ Len(P) \in 1 .. 3 /\ P[1] = RowOn(row)
           /\ row.parent # CLK_MAX => Len(P) >= 2 /\ P[2] = RowParent(row)
           /\ row.rate # 0 => Len(P) >= 2 /\ P[Len(P)] = RowRate(row)
           /\ \A b \in 1 .. Len(P) : \/ b = 1
                                     \/ b = 2 /\ row.parent # CLK_MAX
                                     \/ b > 1 /\ b = Len(P) /\ row.rate # 0
<1> DEFINE on == RowOn(row)
           p == RowParent(row)
           r == RowRate(row)
<1>1. on \in Msgs
  BY MsgsAre DEF RowOn, Try, RowFits
<1>2. r \in Msgs
  BY MsgsAre DEF RowRate, Try, RowFits
<1>3. row.parent # CLK_MAX => p \in Msgs
  BY MsgsAre DEF RowParent, Try, RowFits
<1>4. Program(row) = << on >> \o (IF row.parent = CLK_MAX THEN << >> ELSE << p >>)
                     \o (IF row.rate = 0 THEN << >> ELSE << r >>)
  BY Zenon DEF Program, RowOn, RowParent, RowRate
<1> HIDE DEF on, p, r
<1>5. << on >> \o << p >> = << on, p >> /\ << on >> \o << r >> = << on, r >> /\ << on, p >> \o << r >> = << on, p, r >>
  BY Joined
<1>6. << on >> \o << >> = << on >> /\ << on, p >> \o << >> = << on, p >>
  OBVIOUS
<1>7. CASE row.parent = CLK_MAX /\ row.rate = 0
  <2>1. Program(row) = << on >>
    BY <1>4, <1>6, <1>7
  <2> QED
    BY <1>1, <1>7, <2>1 DEF on
<1>8. CASE row.parent = CLK_MAX /\ row.rate # 0
  <2>1. Program(row) = << on, r >>
    BY <1>4, <1>5, <1>6, <1>8
  <2> QED
    BY <1>1, <1>2, <1>8, <2>1 DEF on, r
<1>9. CASE row.parent # CLK_MAX /\ row.rate = 0
  <2>1. Program(row) = << on, p >>
    BY <1>4, <1>5, <1>6, <1>9
  <2> QED
    BY <1>1, <1>3, <1>9, <2>1 DEF on, p
<1>10. CASE row.parent # CLK_MAX /\ row.rate # 0
  <2>1. Program(row) = << on, p, r >>
    BY <1>4, <1>5, <1>10
  <2>2. p \in Msgs
    BY <1>3, <1>10
  <2>3. Program(row) \in Seq(Msgs) /\ Len(Program(row)) = 3
    BY <1>1, <1>2, <2>1, <2>2
  <2> QED
    BY <1>10, <2>1, <2>3 DEF on, p, r
<1> QED
  BY <1>7, <1>8, <1>9, <1>10

LEMMA RowsFit ==
    /\ \A i \in Rows : RowFits(UfsClocks[i]) /\ Ufs(i) \in AllClocks
    /\ DOMAIN TrackingClocks = 1 .. 3 /\ Len(TrackingClocks) = 3
    /\ \A i \in 1 .. 3 : RowFits(TrackingClocks[i]) /\ TrackingClocks[i].id \in TrackingIds
<1>1. \A i \in Rows : Ufs(i) \in AllClocks
  BY UfsTable DEF AllClocks, Ufs
<1>2. \A i \in Rows : UfsClocks[i].parent # CLK_MAX => << Ufs(i), UfsClocks[i].parent >> \in Moves
  BY DEF Moves
<1>3. \A i \in Rows : RowFits(UfsClocks[i])
  BY <1>1, <1>2, UfsTable DEF RowFits, Ufs
<1>4. DOMAIN TrackingClocks = 1 .. 3 /\ Len(TrackingClocks) = 3
  BY DEF TrackingClocks
<1>5. \A i \in 1 .. 3 : TrackingClocks[i].id \in TrackingIds /\ TrackingClocks[i].rate = 9600 /\ TrackingClocks[i].parent = "OSC"
  BY DEF TrackingClocks, TrackingIds, Row
<1>6. \A i \in 1 .. 3 : TrackingClocks[i].id \in AllClocks
  BY <1>4 DEF AllClocks
<1>7. \A id \in TrackingIds : << id, "OSC" >> \in Moves
  BY DEF Moves
<1>8. \A i \in 1 .. 3 : RowFits(TrackingClocks[i])
  BY <1>5, <1>6, <1>7 DEF RowFits
<1> QED
  BY <1>1, <1>3, <1>4, <1>5, <1>8
\* What of the messages of the table may change the rate of clock i of UFS.
Spoils(i) ==
    {m \in Msgs : \/ m.cmd = "SET_PARENT" /\ m.id \in {Ufs(j) : j \in 1 .. i}
                  \/ m.cmd = "SET_RATE" /\ m.id \in {Ufs(j) : j \in 1 .. i - 1}}
OfRow(row, m) ==
    m = RowOn(row) \/ (m = RowParent(row) /\ row.parent # CLK_MAX) \/ (m = RowRate(row) /\ row.rate # 0)

\* The clocks of UFS are programmed in order, each as its row says.
UfsPart == [i \in 1 .. Len(UfsClocks) |-> Program(UfsClocks[i])]
LEMMA UfsProgramming ==
    LET L == FlattenSeq(UfsPart) IN
    /\ L \in Seq(Msgs)
    /\ \A k \in DOMAIN L : \E i \in Rows : OfRow(UfsClocks[i], L[k])
    /\ \A i \in Rows :
          /\ Has(L, On(Ufs(i))) /\ Ahead(L, On(Ufs(i)), AfterOn(i))
          /\ UfsClocks[i].parent # CLK_MAX => Has(L, RowParent(UfsClocks[i]))
          /\ UfsClocks[i].rate # 0 => Has(L, RowRate(UfsClocks[i])) /\ Behind(L, Spoils(i), RowRate(UfsClocks[i]))
<1> DEFINE L == FlattenSeq(UfsPart)
           s == UfsPart
<1>1. s \in Seq(Seq(Msgs)) /\ Len(s) = 18 /\ s # << >> /\ \A i \in Rows : s[i] = Program(UfsClocks[i])
  <2>1. \A i \in Rows : Program(UfsClocks[i]) \in Seq(Msgs)
    BY RowsFit, ProgramIs
  <2> QED
    BY <2>1, UfsTable DEF UfsPart, Rows
<1>2. L \in Seq(Msgs) /\ Flat(L, s)
  <2> HIDE DEF s
  <2>1. FlattenSeq(s) \in Seq(Msgs) /\ Flat(FlattenSeq(s), s)
    BY <1>1, Flattened
  <2> QED
    BY <2>1 DEF s
<1> HIDE DEF L, s
<1>3. ASSUME NEW a \in Rows, NEW b \in 1 .. Len(s[a])
      PROVE  /\ OfRow(UfsClocks[a], s[a][b]) /\ s[a][b].id = Ufs(a)
             /\ s[a][b].cmd \in {"ENABLE", "SET_PARENT", "SET_RATE"}
  <2> DEFINE row == UfsClocks[a]
             P == Program(row)
  <2>1. /\ \/ b = 1
           \/ b = 2 /\ row.parent # CLK_MAX
           \/ b > 1 /\ b = Len(P) /\ row.rate # 0
        /\ P[1] = RowOn(row)
        /\ row.parent # CLK_MAX => P[2] = RowParent(row)
        /\ row.rate # 0 => P[Len(P)] = RowRate(row)
    BY <1>1, ProgramIs, RowsFit
  <2> HIDE DEF row, P
  <2>2. OfRow(row, P[b])
    BY <2>1 DEF OfRow
  <2>3. \A m : OfRow(row, m) => m.id = row.id /\ m.cmd \in {"ENABLE", "SET_PARENT", "SET_RATE"}
    BY DEF OfRow, RowOn, RowParent, RowRate, Try, Message
  <2> QED
    BY <1>1, <2>2, <2>3 DEF row, P, Ufs
<1>4. \A k \in DOMAIN L : \E i \in Rows : OfRow(UfsClocks[i], L[k])
  <2> TAKE k \in DOMAIN L
  <2>1. k \in 1 .. Len(L)
    BY <1>2
  <2>2. \E i \in 1 .. Len(s) : \E j \in 1 .. Len(s[i]) : L[k] = s[i][j]
    <3> HIDE DEF L, s
    <3>1. Flat(L, s)
      BY <1>2
    <3>2. \A n \in 1 .. Len(L) : \E i \in 1 .. Len(s) : \E j \in 1 .. Len(s[i]) : L[n] = s[i][j]
      BY <3>1, FlatRange
    <3> QED
      BY <2>1, <3>2, Zenon
  <2> QED
    BY <1>1, <1>3, <2>2 DEF Rows
<1>5. ASSUME NEW i \in Rows
      PROVE  /\ 1 \in 1 .. Len(s[i]) /\ s[i][1] = On(Ufs(i))
             /\ UfsClocks[i].parent # CLK_MAX => 2 \in 1 .. Len(s[i]) /\ s[i][2] = RowParent(UfsClocks[i])
             /\ UfsClocks[i].rate # 0 => Len(s[i]) \in 1 .. Len(s[i]) /\ s[i][Len(s[i])] = RowRate(UfsClocks[i])
  <2> DEFINE row == UfsClocks[i]
             P == Program(row)
  <2>1. /\ Len(P) \in 1 .. 3 /\ P[1] = RowOn(row)
        /\ row.parent # CLK_MAX => Len(P) >= 2 /\ P[2] = RowParent(row)
        /\ row.rate # 0 => Len(P) >= 2 /\ P[Len(P)] = RowRate(row)
    BY ProgramIs, RowsFit
  <2>2. RowOn(row) = On(Ufs(i)) /\ s[i] = P
    BY <1>1 DEF RowOn, On, Ufs
  <2> HIDE DEF row, P
  <2> QED
    BY <2>1, <2>2 DEF row
<1>6. ASSUME NEW i \in Rows PROVE Has(L, On(Ufs(i))) /\ Ahead(L, On(Ufs(i)), AfterOn(i))
  <2>1. i \in 1 .. Len(s)
    BY <1>1 DEF Rows
  <2>2. ASSUME NEW a \in 1 .. Len(s), NEW b \in 1 .. Len(s[a]), s[a][b] \in AfterOn(i) PROVE i < a
    <3>1. a \in Rows
      BY <1>1 DEF Rows
    <3>2. s[a][b].id = Ufs(a) /\ s[a][b].cmd # "DEASSERT"
      BY <1>3, <3>1
    <3>3. PICK j \in i + 1 .. 18 : Ufs(a) = Ufs(j)
      BY <2>2, <3>2 DEF AfterOn
    <3>4. j \in Rows /\ i < j
      BY <3>3 DEF Rows
    <3> QED
      BY <3>1, <3>3, <3>4, UfsTable
  <2> QED
    BY <1>1, <1>2, <1>5, <2>1, <2>2, FlatHas, FlatAhead
<1>7. ASSUME NEW i \in Rows, UfsClocks[i].parent # CLK_MAX PROVE Has(L, RowParent(UfsClocks[i]))
  <2>1. i \in 1 .. Len(s)
    BY <1>1 DEF Rows
  <2> QED
    BY <1>1, <1>2, <1>5, <1>7, <2>1, FlatHas
<1>8. ASSUME NEW i \in Rows, UfsClocks[i].rate # 0
      PROVE  Has(L, RowRate(UfsClocks[i])) /\ Behind(L, Spoils(i), RowRate(UfsClocks[i]))
  <2>1. i \in 1 .. Len(s)
    BY <1>1 DEF Rows
  <2> DEFINE n == Len(s[i])
  <2>2. n \in 1 .. Len(s[i]) /\ s[i][n] = RowRate(UfsClocks[i])
    BY <1>5, <1>8
  <2>3. ASSUME NEW a \in 1 .. Len(s), NEW b \in 1 .. Len(s[a]), s[a][b] \in Spoils(i)
        PROVE  a < i \/ (a = i /\ b < n)
    <3>1. a \in Rows
      BY <1>1 DEF Rows
    <3>2. s[a][b].id = Ufs(a)
      BY <1>3, <3>1
    <3>3. CASE s[a][b].cmd = "SET_RATE"
      <4>1. PICK j \in 1 .. i - 1 : Ufs(a) = Ufs(j)
        BY <2>3, <3>2, <3>3 DEF Spoils
      <4>2. j \in Rows /\ j < i
        BY <4>1 DEF Rows
      <4> QED
        BY <3>1, <4>1, <4>2, UfsTable
    <3>4. CASE s[a][b].cmd # "SET_RATE"
      <4>1. PICK j \in 1 .. i : Ufs(a) = Ufs(j)
        BY <2>3, <3>2, <3>4 DEF Spoils
      <4>2. j \in Rows /\ j <= i
        BY <4>1 DEF Rows
      <4>3. a = j
        BY <3>1, <4>1, <4>2, UfsTable
      <4>4. a = i => b # n
        BY <2>2, <3>4 DEF RowRate, Try, Message
      <4>5. a = i => b \in 1 .. n
        OBVIOUS
      <4> HIDE DEF n
      <4>6. a = i => n \in Nat
        <5>1. s[i] \in Seq(Msgs)
          BY <1>1, <2>1, ElementOfSeq
        <5> QED
          BY <5>1 DEF n
      <4> QED
        BY <4>2, <4>3, <4>4, <4>5, <4>6 DEF Rows
    <3> QED
      BY <3>3, <3>4
  <2> HIDE DEF n
  <2> QED
    BY <1>1, <1>2, <2>1, <2>2, <2>3, FlatHas, FlatBehind
<1> QED
  BY <1>2, <1>4, <1>6, <1>7, <1>8 DEF L
\* The whole of ufs_clock_init.
LEMMA UfsInitList ==
    LET L == UfsProgramClock IN
    /\ L \in Seq(Msgs)
    /\ \A k \in DOMAIN L : \/ \E i \in Rows : OfRow(UfsClocks[i], L[k])
                           \/ L[k].cmd \in {"DEASSERT", "Join"}
    /\ \A i \in Rows :
          /\ Has(L, On(Ufs(i))) /\ Ahead(L, On(Ufs(i)), AfterOn(i))
          /\ UfsClocks[i].parent # CLK_MAX => Has(L, RowParent(UfsClocks[i]))
          /\ UfsClocks[i].rate # 0 => Has(L, RowRate(UfsClocks[i])) /\ Behind(L, Spoils(i), RowRate(UfsClocks[i]))
    /\ \A id \in ToSet(UfsResets) : Has(L, Try("DEASSERT", id, 0))
    /\ \A part \in Parts : Has(L, Local("Join", part))
<1> DEFINE F == FlattenSeq(UfsPart)
           R == [i \in 1 .. Len(UfsResets) |-> Try("DEASSERT", UfsResets[i], 0)]
           J == << Local("Join", "joined"), Local("Join", "clocked"), Local("Join", "released") >>
           G == F \o R
           L == G \o J
<1>1. UfsProgramClock = L
  BY Zenon DEF UfsProgramClock, UfsPart
<1>2. DOMAIN UfsResets = 1 .. 8 /\ Len(UfsResets) = 8 /\ ToSet(UfsResets) = {UfsResets[i] : i \in 1 .. 8}
  BY DEF UfsResets, ToSet
<1>3. R \in Seq(Msgs) /\ Len(R) = 8 /\ DOMAIN R = 1 .. 8 /\ \A i \in 1 .. 8 : R[i] = Try("DEASSERT", UfsResets[i], 0)
  <2>1. \A i \in 1 .. 8 : Try("DEASSERT", UfsResets[i], 0) \in Msgs
    BY <1>2, MsgsAre DEF Try
  <2> QED
    BY <1>2, <2>1
<1>4. J \in Seq(Msgs) /\ Len(J) = 3 /\ DOMAIN J = 1 .. 3
      /\ J[1] = Local("Join", "joined") /\ J[2] = Local("Join", "clocked") /\ J[3] = Local("Join", "released")
  <2>1. \A part \in Parts : Local("Join", part) \in Msgs
    BY MsgsAre DEF Local
  <2> QED
    BY <2>1 DEF Parts
<1>5. (\A k \in 1 .. 8 : R[k].cmd = "DEASSERT") /\ \A k \in 1 .. 3 : J[k].cmd = "Join"
  BY <1>3, <1>4 DEF Try, Local, Message
<1>6. F \in Seq(Msgs)
  BY UfsProgramming
<1> HIDE DEF F, R, J, G
<1>7. /\ G \in Seq(Msgs)
      /\ \A m : Has(G, m) <=> Has(F, m) \/ Has(R, m)
      /\ \A m, N : Ahead(F, m, N) /\ Has(F, m) => Ahead(G, m, N)
      /\ \A m, N : Behind(F, N, m) /\ (\A k \in 1 .. Len(R) : R[k] \notin N) => Behind(G, N, m)
  BY <1>3, <1>6, OrderOfJoin DEF G
<1> HIDE DEF L
<1>8. /\ L \in Seq(Msgs)
      /\ \A m : Has(L, m) <=> Has(G, m) \/ Has(J, m)
      /\ \A m, N : Ahead(G, m, N) /\ Has(G, m) => Ahead(L, m, N)
      /\ \A m, N : Behind(G, N, m) /\ (\A k \in 1 .. Len(J) : J[k] \notin N) => Behind(L, N, m)
  BY <1>4, <1>7, OrderOfJoin DEF L
<1>9. ASSUME NEW k \in DOMAIN L
      PROVE  (\E i \in Rows : OfRow(UfsClocks[i], L[k])) \/ L[k].cmd \in {"DEASSERT", "Join"}
  <2>1. Has(F, L[k]) \/ Has(R, L[k]) \/ Has(J, L[k])
    <3>1. Has(L, L[k])
      BY DEF Has
    <3> QED
      BY <1>7, <1>8, <3>1
  <2>2. CASE Has(F, L[k])
    BY <2>2, UfsProgramming DEF Has, F
  <2>3. CASE Has(R, L[k])
    BY <1>3, <1>5, <2>3 DEF Has
  <2>4. CASE Has(J, L[k])
    BY <1>4, <1>5, <2>4 DEF Has
  <2> QED
    BY <2>1, <2>2, <2>3, <2>4
<1>10. ASSUME NEW i \in Rows
       PROVE  /\ Has(L, On(Ufs(i))) /\ Ahead(L, On(Ufs(i)), AfterOn(i))
              /\ UfsClocks[i].parent # CLK_MAX => Has(L, RowParent(UfsClocks[i]))
              /\ UfsClocks[i].rate # 0 => Has(L, RowRate(UfsClocks[i])) /\ Behind(L, Spoils(i), RowRate(UfsClocks[i]))
  <2>1. /\ Has(F, On(Ufs(i))) /\ Ahead(F, On(Ufs(i)), AfterOn(i))
        /\ UfsClocks[i].parent # CLK_MAX => Has(F, RowParent(UfsClocks[i]))
        /\ UfsClocks[i].rate # 0 => Has(F, RowRate(UfsClocks[i])) /\ Behind(F, Spoils(i), RowRate(UfsClocks[i]))
    BY UfsProgramming DEF F
  <2>2. (\A k \in 1 .. Len(R) : R[k] \notin Spoils(i)) /\ \A k \in 1 .. Len(J) : J[k] \notin Spoils(i)
    BY <1>3, <1>4, <1>5 DEF Spoils
  <2> QED
    BY <1>7, <1>8, <2>1, <2>2
<1>11. ASSUME NEW id \in ToSet(UfsResets) PROVE Has(L, Try("DEASSERT", id, 0))
  <2>1. Has(R, Try("DEASSERT", id, 0))
    BY <1>2, <1>3 DEF Has
  <2> QED
    BY <1>7, <1>8, <2>1
<1>12. ASSUME NEW part \in Parts PROVE Has(L, Local("Join", part))
  <2>1. Has(J, Local("Join", part))
    BY <1>4 DEF Has, Parts
  <2> QED
    BY <1>8, <2>1
<1> QED
  BY <1>1, <1>8, <1>9, <1>10, <1>11, <1>12
\* What follows an element of a part in the list.
LEMMA FlatNext ==
    ASSUME NEW F \in Seq(Msgs), NEW s \in Seq(Seq(Msgs)), Flat(F, s), NEW k \in 1 .. Len(F)
    PROVE  \E i \in 1 .. Len(s) : \E j \in 1 .. Len(s[i]) :
              F[k] = s[i][j] /\ (j + 1 \in 1 .. Len(s[i]) => k + 1 \in 1 .. Len(F) /\ F[k + 1] = s[i][j + 1])
<1>1. PICK at : Laid(F, s, at)
  BY DEF Flat
<1>2. PICK i \in 1 .. Len(s) : \E j \in 1 .. Len(s[i]) : k = at[i - 1] + j
  BY <1>1 DEF Laid
<1>3. PICK j \in 1 .. Len(s[i]) : k = at[i - 1] + j
  BY <1>2
<1>4. F[k] = s[i][j]
  BY <1>1, <1>3 DEF Laid
<1>5. ASSUME j + 1 \in 1 .. Len(s[i]) PROVE k + 1 \in 1 .. Len(F) /\ F[k + 1] = s[i][j + 1]
  <2>1. F[at[i - 1] + (j + 1)] = s[i][j + 1]
    BY <1>1, <1>5 DEF Laid
  <2>2. Len(s) \in Nat /\ Len(F) \in Nat /\ s[i] \in Seq(Msgs)
    BY ElementOfSeq
  <2>3. i \in 0 .. Len(s) /\ i - 1 \in 0 .. Len(s) /\ Len(s) \in i .. Len(s) /\ Len(s[i]) \in Nat
    BY <2>2
  <2>4. at[i - 1] \in Nat /\ at[i] \in Nat /\ at[i] = at[i - 1] + Len(s[i]) /\ at[i] <= Len(F)
    BY <1>1, <2>3 DEF Laid
  <2> DEFINE x == at[i - 1]
             y == Len(s[i])
             z == Len(F)
  <2>5. x \in Nat /\ y \in Nat /\ z \in Nat /\ x + y <= z /\ j \in Nat /\ j + 1 \in 1 .. y /\ k = x + j
    BY <1>3, <1>5, <2>2, <2>3, <2>4
  <2>6. F[x + (j + 1)] = s[i][j + 1]
    BY <2>1
  <2> HIDE DEF x, y, z
  <2>7. x + (j + 1) = k + 1 /\ k + 1 \in 1 .. z
    BY <2>5
  <2> QED
    BY <2>6, <2>7 DEF z
<1> QED
  BY <1>4, <1>5

Ask(c) == Try("IS_ENABLED", c, "skip if off")
AskedIn(s) ==
    \A k \in DOMAIN s : s[k].cmd = "IS_ENABLED" /\ s[k].arg = "skip if off" =>
        k + 1 \in DOMAIN s /\ s[k + 1].cmd = "DISABLE" /\ s[k + 1].id = s[k].id

\* A list that turns clocks off, one after the other.
LEMMA OffList ==
    ASSUME NEW ids \in Seq(Switched), ids # << >>
    PROVE  LET L == FlattenSeq([i \in 1 .. Len(ids) |-> TryDisableIfOn(ids[i])]) IN
           /\ L \in Seq(Msgs) /\ AskedIn(L)
           /\ \A k \in DOMAIN L : \E i \in 1 .. Len(ids) : L[k] \in {Ask(ids[i]), Off(ids[i])}
           /\ \A i \in 1 .. Len(ids) :
                 /\ Has(L, Off(ids[i]))
                 /\ \A N : (\A a \in 1 .. Len(ids) : Ask(ids[a]) \in N \/ Off(ids[a]) \in N => i < a) => Ahead(L, Off(ids[i]), N)
<1> DEFINE s == [i \in 1 .. Len(ids) |-> TryDisableIfOn(ids[i])]
           L == FlattenSeq(s)
<1>1. /\ Len(s) = Len(ids) /\ s \in Seq(Seq(Msgs)) /\ s # << >> /\ Len(ids) \in Nat
      /\ \A i \in 1 .. Len(ids) : s[i] = << Ask(ids[i]), Off(ids[i]) >> /\ Len(s[i]) = 2
  <2>1. ASSUME NEW i \in 1 .. Len(ids)
        PROVE  TryDisableIfOn(ids[i]) \in Seq(Msgs) /\ TryDisableIfOn(ids[i]) = << Ask(ids[i]), Off(ids[i]) >>
    <3>1. ids[i] \in Switched
      BY ElementOfSeq
    <3>2. ids[i] \in AllClocks
      <4>1. ClockAndReset \subseteq AllClocks /\ ClockOnly \subseteq AllClocks /\ {"XUSB_FS", "PLLE"} \subseteq AllClocks
        BY Zenon DEF AllClocks
      <4>2. TrackingIds \subseteq AllClocks
        <5>1. TrackingIds = {TrackingClocks[j].id : j \in DOMAIN TrackingClocks}
          BY DEF TrackingClocks, Row, TrackingIds
        <5> QED
          BY <5>1, Zenon DEF AllClocks
      <4>3. {Ufs(j) : j \in 4 .. 18} \subseteq AllClocks
        <5>1. \A j \in Rows : Ufs(j) \in AllClocks
          BY RowsFit
        <5> QED
          BY <5>1 DEF Rows
      <4> QED
        BY <3>1, <4>1, <4>2, <4>3 DEF Switched, Movable
    <3>3. Ask(ids[i]) \in Msgs /\ Off(ids[i]) \in Msgs
      BY <3>1, <3>2, MsgsAre DEF Ask, Off, Try
    <3>4. TryDisableIfOn(ids[i]) = << Ask(ids[i]), Off(ids[i]) >>
      BY Zenon DEF TryDisableIfOn, Ask, Off
    <3> QED
      BY <3>3, <3>4
  <2> QED
    BY <2>1
<1> HIDE DEF s
<1>2. L \in Seq(Msgs) /\ Flat(L, s)
  BY <1>1, Flattened
<1> HIDE DEF L
<1>3. \A a, b : /\ Ask(a).cmd = "IS_ENABLED" /\ Off(a).cmd = "DISABLE" /\ Ask(a).id = a /\ Off(a).id = a
  BY DEF Ask, Off, Try, Message
<1>4. AskedIn(L)
  <2>0. DOMAIN L = 1 .. Len(L)
    BY <1>2
  <2> SUFFICES ASSUME NEW k \in 1 .. Len(L), L[k].cmd = "IS_ENABLED"
               PROVE  k + 1 \in 1 .. Len(L) /\ L[k + 1].cmd = "DISABLE" /\ L[k + 1].id = L[k].id
    BY <2>0 DEF AskedIn
  <2>1. PICK i \in 1 .. Len(s) : \E j \in 1 .. Len(s[i]) :
                L[k] = s[i][j] /\ (j + 1 \in 1 .. Len(s[i]) => k + 1 \in 1 .. Len(L) /\ L[k + 1] = s[i][j + 1])
    BY <1>1, <1>2, FlatNext
  <2>2. PICK j \in 1 .. Len(s[i]) :
                L[k] = s[i][j] /\ (j + 1 \in 1 .. Len(s[i]) => k + 1 \in 1 .. Len(L) /\ L[k + 1] = s[i][j + 1])
    BY <2>1
  <2>3. s[i] = << Ask(ids[i]), Off(ids[i]) >> /\ Len(s[i]) = 2
    BY <1>1
  <2>4. j = 1
    BY <1>3, <2>2, <2>3
  <2> QED
    BY <1>3, <2>2, <2>3, <2>4
<1>5. ASSUME NEW k \in DOMAIN L PROVE \E i \in 1 .. Len(ids) : L[k] \in {Ask(ids[i]), Off(ids[i])}
  <2>1. k \in 1 .. Len(L)
    BY <1>2
  <2>2. PICK i \in 1 .. Len(s) : \E j \in 1 .. Len(s[i]) : L[k] = s[i][j]
    <3> HIDE DEF L, s
    <3>1. Flat(L, s)
      BY <1>2
    <3>2. \A n \in 1 .. Len(L) : \E i \in 1 .. Len(s) : \E j \in 1 .. Len(s[i]) : L[n] = s[i][j]
      BY <3>1, FlatRange
    <3> QED
      BY <2>1, <3>2, Zenon
  <2>3. s[i] = << Ask(ids[i]), Off(ids[i]) >> /\ Len(s[i]) = 2 /\ i \in 1 .. Len(ids)
    BY <1>1
  <2> QED
    BY <2>2, <2>3
<1>6. ASSUME NEW i \in 1 .. Len(ids) PROVE Has(L, Off(ids[i]))
  <2>1. i \in 1 .. Len(s) /\ 2 \in 1 .. Len(s[i]) /\ s[i][2] = Off(ids[i])
    <3>1. Len(s) = Len(ids) /\ s[i] = << Ask(ids[i]), Off(ids[i]) >> /\ Len(s[i]) = 2
      BY <1>1
    <3>2. << Ask(ids[i]), Off(ids[i]) >>[2] = Off(ids[i])
      OBVIOUS
    <3> QED
      BY <3>1, <3>2
  <2> QED
    BY <1>1, <1>2, <2>1, FlatHas
<1>7. ASSUME NEW i \in 1 .. Len(ids), NEW N, \A a \in 1 .. Len(ids) : Ask(ids[a]) \in N \/ Off(ids[a]) \in N => i < a
      PROVE  Ahead(L, Off(ids[i]), N)
  <2>1. i \in 1 .. Len(s) /\ 2 \in 1 .. Len(s[i]) /\ s[i][2] = Off(ids[i])
    <3>1. Len(s) = Len(ids) /\ s[i] = << Ask(ids[i]), Off(ids[i]) >> /\ Len(s[i]) = 2
      BY <1>1
    <3>2. << Ask(ids[i]), Off(ids[i]) >>[2] = Off(ids[i])
      OBVIOUS
    <3> QED
      BY <3>1, <3>2
  <2>2. ASSUME NEW a \in 1 .. Len(s), NEW b \in 1 .. Len(s[a]), s[a][b] \in N PROVE i < a
    <3>1. a \in 1 .. Len(ids) /\ s[a] = << Ask(ids[a]), Off(ids[a]) >> /\ Len(s[a]) = 2
      BY <1>1
    <3>2. s[a][b] = Ask(ids[a]) \/ s[a][b] = Off(ids[a])
      BY <3>1
    <3> QED
      BY <1>7, <2>2, <3>1, <3>2
  <2> QED
    BY <1>1, <1>2, <2>1, <2>2, FlatAhead
<1> QED
  BY <1>2, <1>4, <1>5, <1>6, <1>7 DEF L, s

\* The whole of ufs_clock_deinit.
LEMMA UfsDeinitList ==
    LET L == UfsClockDeinit IN
    /\ L \in Seq(Msgs) /\ AskedIn(L)
    /\ \A k \in DOMAIN L : \E i \in 4 .. 18 : L[k] \in {Ask(Ufs(i)), Off(Ufs(i))}
    /\ \A i \in 4 .. 18 : Has(L, Off(Ufs(i))) /\ Ahead(L, Off(Ufs(i)), AfterOff(i))
<1> DEFINE ids == [i \in 1 .. 15 |-> Ufs(19 - i)]
           L == FlattenSeq([i \in 1 .. Len(ids) |-> TryDisableIfOn(ids[i])])
<1>1. /\ ids \in Seq(Switched) /\ Len(ids) = 15 /\ \A i \in 1 .. 15 : ids[i] = Ufs(19 - i)
      /\ ids # << >>
  <2>1. \A i \in 1 .. 15 : 19 - i \in 4 .. 18
    OBVIOUS
  <2>2. \A i \in 1 .. 15 : Ufs(19 - i) \in Switched
    BY <2>1 DEF Switched
  <2> QED
    BY <2>2
<1>2. L = UfsClockDeinit
  <2>1. Len(UfsClocks) = 18
    BY UfsTable
  <2>2. \A i \in 1 .. 15 : Len(UfsClocks) + 1 - i = 19 - i
    BY <2>1
  <2>3. \A i \in 1 .. 15 : TryDisableIfOn(ids[i]) = TryDisableIfOn(UfsClocks[Len(UfsClocks) + 1 - i].id)
    BY <2>2, Zenon DEF Ufs
  <2>4. Len(UfsClocks) - 3 = 15 /\ Len(ids) = 15
    BY <1>1, <2>1
  <2> HIDE DEF ids
  <2> QED
    BY <2>3, <2>4 DEF UfsClockDeinit
<1> HIDE DEF ids
<1>3. /\ L \in Seq(Msgs) /\ AskedIn(L)
      /\ \A k \in DOMAIN L : \E i \in 1 .. Len(ids) : L[k] \in {Ask(ids[i]), Off(ids[i])}
      /\ \A i \in 1 .. Len(ids) :
            /\ Has(L, Off(ids[i]))
            /\ \A N : (\A a \in 1 .. Len(ids) : Ask(ids[a]) \in N \/ Off(ids[a]) \in N => i < a) => Ahead(L, Off(ids[i]), N)
  BY <1>1, OffList
<1> HIDE DEF L
<1>4. \A i \in 4 .. 18 : 19 - i \in 1 .. 15 /\ 19 - (19 - i) = i
  OBVIOUS
<1>5. \A i \in 1 .. 15 : 19 - i \in 4 .. 18
  OBVIOUS
<1>6. ASSUME NEW i \in 4 .. 18 PROVE Has(L, Off(Ufs(i))) /\ Ahead(L, Off(Ufs(i)), AfterOff(i))
  <2>1. ids[19 - i] = Ufs(i) /\ 19 - i \in 1 .. Len(ids)
    BY <1>1, <1>4
  <2>2. ASSUME NEW a \in 1 .. Len(ids), Ask(ids[a]) \in AfterOff(i) \/ Off(ids[a]) \in AfterOff(i) PROVE 19 - i < a
    <3>1. Ask(ids[a]).cmd # "DISABLE" /\ Off(ids[a]).id = Ufs(19 - a) /\ 19 - a \in 4 .. 18 /\ a \in 1 .. 15
      BY <1>1, <1>5 DEF Ask, Off, Try, Message
    <3>2. PICK j \in 4 .. i - 1 : Ufs(19 - a) = Ufs(j)
      BY <2>2, <3>1 DEF AfterOff
    <3>3. j \in Rows /\ 19 - a \in Rows
      BY <3>1, <3>2 DEF Rows
    <3>4. 19 - a = j
      BY <3>2, <3>3, UfsTable
    <3> QED
      BY <3>1, <3>4
  <2> QED
    BY <1>3, <2>1, <2>2
<1>7. ASSUME NEW k \in DOMAIN L PROVE \E i \in 4 .. 18 : L[k] \in {Ask(Ufs(i)), Off(Ufs(i))}
  <2>1. PICK i \in 1 .. 15 : L[k] \in {Ask(ids[i]), Off(ids[i])}
    BY <1>1, <1>3
  <2> QED
    BY <1>1, <1>5, <2>1
<1> QED
  BY <1>2, <1>3, <1>6, <1>7
\* The two forms of tracking.
Trk(i) == TrackingClocks[i].id
TrkSpoils(i) == {m \in Msgs : m.cmd = "SET_PARENT" /\ m.id = Trk(i)}
LEMMA TrkTable ==
    /\ \A i \in 1 .. 3 : TrackingClocks[i] = Row(Trk(i), 9600, "OSC")
    /\ \A i \in 1 .. 3 : \A j \in 1 .. 3 : Trk(i) = Trk(j) => i = j
    /\ TrackingIds = {Trk(i) : i \in 1 .. 3}
BY DEF Trk, TrackingClocks, Row, TrackingIds

LEMMA TrackingOnList ==
    LET L == TrackingClock(TRUE) IN
    /\ L \in Seq(Msgs)
    /\ \A k \in DOMAIN L : \E i \in 1 .. 3 : OfRow(TrackingClocks[i], L[k])
    /\ \A i \in 1 .. 3 :
          /\ Has(L, RowOn(TrackingClocks[i])) /\ Has(L, RowParent(TrackingClocks[i])) /\ Has(L, RowRate(TrackingClocks[i]))
          /\ Behind(L, TrkSpoils(i), RowRate(TrackingClocks[i]))
<1> DEFINE s == [i \in 1 .. Len(TrackingClocks) |-> Program(TrackingClocks[i])]
           L == FlattenSeq(s)
<1>0. L = TrackingClock(TRUE)
  BY Zenon DEF TrackingClock
<1>1. s \in Seq(Seq(Msgs)) /\ Len(s) = 3 /\ s # << >> /\ \A i \in 1 .. 3 : s[i] = Program(TrackingClocks[i])
  <2>1. \A i \in 1 .. 3 : Program(TrackingClocks[i]) \in Seq(Msgs)
    BY RowsFit, ProgramIs
  <2> QED
    BY <2>1, RowsFit
<1> HIDE DEF s
<1>2. L \in Seq(Msgs) /\ Flat(L, s)
  BY <1>1, Flattened
<1> HIDE DEF L
<1>3. ASSUME NEW i \in 1 .. 3
      PROVE  LET row == TrackingClocks[i] IN
             /\ Len(s[i]) \in 2 .. 3
             /\ s[i][1] = RowOn(row) /\ s[i][2] = RowParent(row) /\ s[i][Len(s[i])] = RowRate(row)
             /\ \A b \in 1 .. Len(s[i]) : b = 1 \/ b = 2 \/ b = Len(s[i])
  <2> DEFINE row == TrackingClocks[i]
  <2>1. RowFits(row) /\ row.parent # CLK_MAX /\ row.rate # 0
    BY RowsFit, TrkTable DEF Row, CLK_MAX
  <2> HIDE DEF row
  <2>2. LET P == Program(row) IN
        /\ P \in Seq(Msgs) /\ Len(P) \in 1 .. 3 /\ P[1] = RowOn(row)
        /\ Len(P) >= 2 /\ P[2] = RowParent(row)
        /\ Len(P) >= 2 /\ P[Len(P)] = RowRate(row)
        /\ \A b \in 1 .. Len(P) : b = 1 \/ b = 2 \/ b = Len(P)
    BY <2>1, ProgramIs
  <2>3. s[i] = Program(row)
    BY <1>1 DEF row
  <2> QED
    BY <2>2, <2>3 DEF row
<1>4. ASSUME NEW i \in 1 .. 3, NEW b \in 1 .. Len(s[i])
      PROVE  OfRow(TrackingClocks[i], s[i][b]) /\ s[i][b].id = Trk(i) /\ (s[i][b].cmd = "SET_PARENT" => b # Len(s[i]))
  <2> DEFINE row == TrackingClocks[i]
  <2>1. row.parent # CLK_MAX /\ row.rate # 0
    BY TrkTable DEF Row, CLK_MAX
  <2>2. s[i][b] \in {RowOn(row), RowParent(row), RowRate(row)} /\ s[i][Len(s[i])] = RowRate(row)
    BY <1>3
  <2>3. OfRow(row, s[i][b])
    BY <2>1, <2>2 DEF OfRow
  <2>4. RowOn(row).id = Trk(i) /\ RowParent(row).id = Trk(i) /\ RowRate(row).id = Trk(i) /\ RowRate(row).cmd = "SET_RATE"
    BY DEF RowOn, RowParent, RowRate, Try, Message, Trk
  <2> HIDE DEF row
  <2> QED
    BY <2>2, <2>3, <2>4 DEF row
<1>5. ASSUME NEW k \in DOMAIN L PROVE \E i \in 1 .. 3 : OfRow(TrackingClocks[i], L[k])
  <2>1. k \in 1 .. Len(L)
    BY <1>2
  <2>2. \E i \in 1 .. Len(s) : \E j \in 1 .. Len(s[i]) : L[k] = s[i][j]
    <3> HIDE DEF L, s
    <3>1. Flat(L, s)
      BY <1>2
    <3>2. \A n \in 1 .. Len(L) : \E i \in 1 .. Len(s) : \E j \in 1 .. Len(s[i]) : L[n] = s[i][j]
      BY <3>1, FlatRange
    <3> QED
      BY <2>1, <3>2, Zenon
  <2> QED
    BY <1>1, <1>4, <2>2
<1>6. ASSUME NEW i \in 1 .. 3
      PROVE  /\ Has(L, RowOn(TrackingClocks[i])) /\ Has(L, RowParent(TrackingClocks[i])) /\ Has(L, RowRate(TrackingClocks[i]))
             /\ Behind(L, TrkSpoils(i), RowRate(TrackingClocks[i]))
  <2> DEFINE n == Len(s[i])
  <2>1. i \in 1 .. Len(s) /\ 1 \in 1 .. Len(s[i]) /\ 2 \in 1 .. Len(s[i]) /\ n \in 1 .. Len(s[i]) /\ n \in Nat
    BY <1>1, <1>3
  <2>2. s[i][1] = RowOn(TrackingClocks[i]) /\ s[i][2] = RowParent(TrackingClocks[i]) /\ s[i][n] = RowRate(TrackingClocks[i])
    BY <1>3
  <2>3. ASSUME NEW a \in 1 .. Len(s), NEW b \in 1 .. Len(s[a]), s[a][b] \in TrkSpoils(i) PROVE a = i /\ b < n
    <3>1. a \in 1 .. 3
      BY <1>1
    <3>2. s[a][b].id = Trk(a) /\ s[a][b].cmd = "SET_PARENT" /\ Trk(a) = Trk(i) /\ b # Len(s[a])
      BY <1>4, <2>3, <3>1 DEF TrkSpoils
    <3>3. a = i
      BY <3>1, <3>2, TrkTable
    <3>4. b \in 1 .. n /\ b # n
      BY <3>2, <3>3
    <3> HIDE DEF n
    <3> QED
      BY <2>1, <3>3, <3>4
  <2> HIDE DEF n
  <2>4. Behind(L, TrkSpoils(i), s[i][n])
    BY <1>1, <1>2, <2>1, <2>3, FlatBehind
  <2>5. Has(L, s[i][1]) /\ Has(L, s[i][2]) /\ Has(L, s[i][n])
    BY <1>1, <1>2, <2>1, FlatHas
  <2> QED
    BY <2>2, <2>4, <2>5
<1> QED
  BY <1>0, <1>2, <1>5, <1>6

LEMMA TrackingOffList ==
    LET L == TrackingClock(FALSE) IN
    /\ L \in Seq(Msgs) /\ AskedIn(L)
    /\ \A k \in DOMAIN L : \E i \in 1 .. 3 : L[k] \in {Ask(Trk(i)), Off(Trk(i))}
    /\ \A i \in 1 .. 3 : Has(L, Off(Trk(i)))
<1> DEFINE ids == [i \in 1 .. 3 |-> Trk(i)]
           L == FlattenSeq([i \in 1 .. Len(ids) |-> TryDisableIfOn(ids[i])])
<1>1. ids \in Seq(Switched) /\ Len(ids) = 3 /\ ids # << >> /\ \A i \in 1 .. 3 : ids[i] = Trk(i)
  <2>1. \A i \in 1 .. 3 : Trk(i) \in Switched
    BY TrkTable DEF Switched
  <2> QED
    BY <2>1
<1>2. L = TrackingClock(FALSE)
  <2>1. \A i \in 1 .. 3 : TryDisableIfOn(ids[i]) = TryDisableIfOn(TrackingClocks[i].id)
    BY <1>1, Zenon DEF Trk
  <2>2. Len(TrackingClocks) = Len(ids) /\ Len(ids) = 3
    BY <1>1, RowsFit
  <2> HIDE DEF ids
  <2>3. TrackingClock(FALSE) = FlattenSeq([i \in 1 .. Len(TrackingClocks) |-> TryDisableIfOn(TrackingClocks[i].id)])
    BY Zenon DEF TrackingClock
  <2>4. [i \in 1 .. Len(TrackingClocks) |-> TryDisableIfOn(TrackingClocks[i].id)] = [i \in 1 .. Len(ids) |-> TryDisableIfOn(ids[i])]
    BY <2>1, <2>2
  <2> QED
    BY <2>3, <2>4
<1> HIDE DEF ids
<1>3. /\ L \in Seq(Msgs) /\ AskedIn(L)
      /\ \A k \in DOMAIN L : \E i \in 1 .. Len(ids) : L[k] \in {Ask(ids[i]), Off(ids[i])}
      /\ \A i \in 1 .. Len(ids) : Has(L, Off(ids[i]))
  BY <1>1, OffList
<1> HIDE DEF L
<1> QED
  BY <1>1, <1>2, <1>3
\* What the identifiers of modules, sources and PLLs are.
LEMMA Identifiers ==
    /\ \A id : HasClock(id) => id \in AllClocks /\ id \in Movable /\ id \in Switched /\ id \notin UfsIds
    /\ \A id : HasReset(id) => id \in ClockAndReset \cup ResetOnly
    /\ \A src : IdOfSource(src) # CLK_MAX => IdOfSource(src) \in AllClocks
    /\ \A pll \in Plls : PllId(pll) # CLK_MAX => PllId(pll) \in AllClocks /\ \A i \in 4 .. 18 : PllId(pll) # Ufs(i)
<1>1. ASSUME NEW id, HasClock(id) PROVE id \in AllClocks /\ id \in Movable /\ id \in Switched /\ id \notin UfsIds
  <2>1. id \in ClockAndReset \cup ClockOnly
    BY <1>1 DEF HasClock
  <2>2. id \in AllClocks /\ id \in Movable /\ id \in Switched
    BY <2>1, Zenon DEF AllClocks, Movable, Switched
  <2>3. UfsIds \cap (ClockAndReset \cup ClockOnly) = {}
    BY UfsApart
  <2> QED
    BY <2>1, <2>2, <2>3
<1>2. \A id : HasReset(id) => id \in ClockAndReset \cup ResetOnly
  BY DEF HasReset
<1>3. ASSUME NEW src, IdOfSource(src) # CLK_MAX PROVE IdOfSource(src) \in AllClocks
  <2>1. src \in SameName \/ src \in DOMAIN Renamed
    BY <1>3, Zenon DEF IdOfSource
  <2>2. CASE src \in SameName
    <3>1. src \notin DOMAIN Renamed
      BY <2>2 DEF SameName, Renamed
    <3>2. IdOfSource(src) = src
      BY <2>2, <3>1 DEF IdOfSource
    <3> QED
      BY <2>2, <3>2, Zenon DEF AllClocks
  <2>3. CASE src \notin SameName
    <3>1. IdOfSource(src) = Renamed[src] /\ src \in DOMAIN Renamed
      BY <2>1, <2>3 DEF IdOfSource
    <3> QED
      BY <3>1, Zenon DEF AllClocks
  <2> QED
    BY <2>2, <2>3
<1>4. ASSUME NEW pll \in Plls, PllId(pll) # CLK_MAX
      PROVE  PllId(pll) \in AllClocks /\ \A i \in 4 .. 18 : PllId(pll) # Ufs(i)
  <2> DEFINE Ids == {"PLLC4_VCO", "PLLP_OUT0", "PLLU", "PLLAON", "PLLP", "PLLD", "PLLD2", "PLLD3", "PLLDP", "PLLE", "PLLDISPHUB"}
  <2>1. PllId(pll) \in Ids
    BY <1>4 DEF PllId, Plls, CLK_MAX
  <2>2. Ids \subseteq AllClocks
    BY DEF AllClocks, AtBoot, Renamed, SameName
  <2>3. \A i \in 4 .. 18 : Ufs(i) \notin Ids
    BY DEF Ufs, UfsClocks, Row
  <2> HIDE DEF Ids
  <2> QED
    BY <2>1, <2>2, <2>3
<1> QED
  BY <1>1, <1>2, <1>3, <1>4
\* The list of every call of the interface is one of the messages of the driver;
\* nobody but the functions of UFS turns its clocks on or off, and nobody but that of
\* QSPI asks for a rate or chooses a parent.
QspiOnlyIn(c, s) == \A k \in DOMAIN s : s[k].cmd \in {"GET_RATE", "ChooseParent", "DeriveRate"} => c.fn = "enable_qspi"
UfsOnlyIn(c, s) ==
    \A k \in DOMAIN s : \A i \in 4 .. 18 : s[k].id = Ufs(i) =>
        /\ s[k].cmd \in {"ENABLE", "SET_PARENT"} => c.fn = "ufs_clock_init"
        /\ s[k].cmd = "DISABLE" => c.fn = "ufs_clock_deinit"
Fits(c, s) == s \in Seq(Msgs) /\ AskedIn(s) /\ UfsOnlyIn(c, s) /\ QspiOnlyIn(c, s)

\* Lists none of whose messages asks whether to go on.
Plain(c, m) ==
    /\ m \in Msgs /\ (m.cmd # "IS_ENABLED" \/ m.arg # "skip if off")
    /\ m.cmd \in {"ENABLE", "SET_PARENT", "DISABLE"} => \A i \in 4 .. 18 : m.id # Ufs(i)
    /\ m.cmd \in {"GET_RATE", "ChooseParent", "DeriveRate"} => c.fn = "enable_qspi"
LEMMA PlainIs ==
    ASSUME NEW c, NEW cmd, NEW id, NEW arg, NEW must, Message(cmd, id, arg, must) \in Msgs,
           cmd # "IS_ENABLED" \/ arg # "skip if off",
           cmd \in {"ENABLE", "SET_PARENT", "DISABLE"} => \A i \in 4 .. 18 : id # Ufs(i),
           cmd \in {"GET_RATE", "ChooseParent", "DeriveRate"} => c.fn = "enable_qspi"
    PROVE  Plain(c, Message(cmd, id, arg, must))
<1> DEFINE m == Message(cmd, id, arg, must)
<1>1. m.cmd = cmd /\ m.id = id /\ m.arg = arg
  BY DEF Message
<1> HIDE DEF m
<1>2. Plain(c, m)
  <2>1. m \in Msgs
    BY DEF m
  <2> QED
    BY <1>1, <2>1 DEF Plain
<1> QED
  BY <1>2 DEF m
LEMMA PlainFits ==
    ASSUME NEW c, NEW s, \E n \in Nat : DOMAIN s = 1 .. n /\ s = [k \in 1 .. n |-> s[k]], \A k \in DOMAIN s : Plain(c, s[k])
    PROVE  Fits(c, s)
<1> PICK n \in Nat : DOMAIN s = 1 .. n /\ s = [k \in 1 .. n |-> s[k]]
  OBVIOUS
<1>1. \A k \in 1 .. n : s[k] \in Msgs
  BY DEF Plain
<1>2. s \in Seq(Msgs)
  <2>1. s \in [1 .. n -> Msgs]
    BY <1>1
  <2> QED
    BY <2>1, SeqDef
<1>3. AskedIn(s)
  BY DEF AskedIn, Plain
<1>4. UfsOnlyIn(c, s) /\ QspiOnlyIn(c, s)
  BY DEF UfsOnlyIn, QspiOnlyIn, Plain
<1> QED
  BY <1>2, <1>3, <1>4 DEF Fits
LEMMA ShortFits ==
    ASSUME NEW c
    PROVE  /\ Fits(c, << >>)
           /\ \A m : Plain(c, m) => Fits(c, << m >>)
           /\ \A m, n : Plain(c, m) /\ Plain(c, n) => Fits(c, << m, n >>)
           /\ \A m, n, o : Plain(c, m) /\ Plain(c, n) /\ Plain(c, o) => Fits(c, << m, n, o >>)
<1>1. Fits(c, << >>)
  <2>1. << >> \in Seq(Msgs) /\ DOMAIN << >> = {}
    OBVIOUS
  <2> QED
    BY <2>1 DEF Fits, AskedIn, UfsOnlyIn, QspiOnlyIn
<1>2. ASSUME NEW m, Plain(c, m) PROVE Fits(c, << m >>)
  <2> DEFINE s == << m >>
  <2>1. DOMAIN s = 1 .. 1 /\ s[1] = m /\ s = [k \in 1 .. 1 |-> s[k]]
    OBVIOUS
  <2> HIDE DEF s
  <2>2. \A k \in DOMAIN s : Plain(c, s[k])
    BY <1>2, <2>1
  <2>3. Fits(c, s)
    BY <2>1, <2>2, PlainFits
  <2> QED
    BY <2>3 DEF s
<1>3. ASSUME NEW m, NEW n, Plain(c, m), Plain(c, n) PROVE Fits(c, << m, n >>)
  <2> DEFINE s == << m, n >>
  <2>1. DOMAIN s = 1 .. 2 /\ s[1] = m /\ s[2] = n /\ s = [k \in 1 .. 2 |-> s[k]]
    OBVIOUS
  <2> HIDE DEF s
  <2>2. \A k \in DOMAIN s : Plain(c, s[k])
    BY <1>3, <2>1
  <2>3. Fits(c, s)
    BY <2>1, <2>2, PlainFits
  <2> QED
    BY <2>3 DEF s
<1>4. ASSUME NEW m, NEW n, NEW o, Plain(c, m), Plain(c, n), Plain(c, o) PROVE Fits(c, << m, n, o >>)
  <2> DEFINE s == << m, n, o >>
  <2>1. DOMAIN s = 1 .. 3 /\ s[1] = m /\ s[2] = n /\ s[3] = o /\ s = [k \in 1 .. 3 |-> s[k]]
    OBVIOUS
  <2> HIDE DEF s
  <2>2. \A k \in DOMAIN s : Plain(c, s[k])
    BY <1>4, <2>1
  <2>3. Fits(c, s)
    BY <2>1, <2>2, PlainFits
  <2> QED
    BY <2>3 DEF s
<1> QED
  BY <1>1, <1>2, <1>3, <1>4

LEMMA OffFits ==
    ASSUME NEW c, NEW id \in AllClocks, id \in Switched, id \notin UfsIds
    PROVE  Fits(c, DisableIfOn(id)) /\ Fits(c, TryDisableIfOn(id))
<1>1. ASSUME NEW a \in Msgs, NEW b \in Msgs, a = Ask(id), b \in {Try("DISABLE", id, 0), Send("DISABLE", id, 0)}
      PROVE  Fits(c, << a, b >>)
  <2> DEFINE s == << a, b >>
  <2>1. s \in Seq(Msgs) /\ DOMAIN s = 1 .. 2 /\ s[1] = a /\ s[2] = b
    OBVIOUS
  <2>2. a.id = id /\ b.id = id /\ a.cmd = "IS_ENABLED" /\ b.cmd = "DISABLE"
    <3>1. /\ Ask(id).id = id /\ Ask(id).cmd = "IS_ENABLED"
          /\ Try("DISABLE", id, 0).id = id /\ Try("DISABLE", id, 0).cmd = "DISABLE"
          /\ Send("DISABLE", id, 0).id = id /\ Send("DISABLE", id, 0).cmd = "DISABLE"
      BY DEF Ask, Try, Send, Message
    <3> QED
      BY <1>1, <3>1
  <2>3. \A i \in 4 .. 18 : id # Ufs(i)
    BY DEF UfsIds, Rows
  <2> HIDE DEF s
  <2>4. AskedIn(s)
    <3>1. \A k \in DOMAIN s : s[k].cmd = "IS_ENABLED" => k = 1
      BY <2>1, <2>2
    <3>2. 1 + 1 = 2 /\ 2 \in DOMAIN s /\ s[2].cmd = "DISABLE" /\ s[2].id = s[1].id
      BY <2>1, <2>2
    <3> QED
      BY <3>1, <3>2 DEF AskedIn
  <2>5. UfsOnlyIn(c, s) /\ QspiOnlyIn(c, s)
    BY <2>1, <2>2, <2>3 DEF UfsOnlyIn, QspiOnlyIn
  <2> QED
    BY <2>1, <2>4, <2>5 DEF Fits, s
<1>2. Ask(id) \in Msgs /\ Try("DISABLE", id, 0) \in Msgs /\ Send("DISABLE", id, 0) \in Msgs
  BY MsgsAre DEF Ask, Try, Send
<1>3. DisableIfOn(id) = << Ask(id), Send("DISABLE", id, 0) >> /\ TryDisableIfOn(id) = << Ask(id), Try("DISABLE", id, 0) >>
  BY Zenon DEF DisableIfOn, TryDisableIfOn, Ask
<1> QED
  BY <1>1, <1>2, <1>3

\* The functions of the tables.
LEMMA TableFits ==
    ASSUME NEW c
    PROVE  /\ c.fn = "ufs_clock_init" => Fits(c, UfsProgramClock)
           /\ c.fn = "ufs_clock_deinit" => Fits(c, UfsClockDeinit)
           /\ Fits(c, TrackingClock(TRUE)) /\ Fits(c, TrackingClock(FALSE))
<1>0. /\ \A row, m : OfRow(row, m) => m.cmd \in {"ENABLE", "SET_PARENT", "SET_RATE"} /\ m.id = row.id
      /\ \A c1 : /\ Ask(c1).cmd = "IS_ENABLED" /\ Ask(c1).id = c1
                /\ Off(c1).cmd = "DISABLE" /\ Off(c1).id = c1
  BY DEF OfRow, RowOn, RowParent, RowRate, Ask, Off, Try, Message
<1>1. ASSUME c.fn = "ufs_clock_init" PROVE Fits(c, UfsProgramClock)
  <2> DEFINE L == UfsProgramClock
  <2>1. L \in Seq(Msgs) /\ \A k \in DOMAIN L : (\E i \in Rows : OfRow(UfsClocks[i], L[k])) \/ L[k].cmd \in {"DEASSERT", "Join"}
    BY UfsInitList
  <2> HIDE DEF L
  <2>2. \A k \in DOMAIN L : L[k].cmd \in {"ENABLE", "SET_PARENT", "SET_RATE", "DEASSERT", "Join"}
    BY <1>0, <2>1
  <2>3. AskedIn(L)
    BY <2>2 DEF AskedIn
  <2>4. UfsOnlyIn(c, L) /\ QspiOnlyIn(c, L)
    BY <1>1, <2>2 DEF UfsOnlyIn, QspiOnlyIn
  <2> QED
    BY <2>1, <2>3, <2>4 DEF Fits, L
<1>2. ASSUME c.fn = "ufs_clock_deinit" PROVE Fits(c, UfsClockDeinit)
  <2> DEFINE L == UfsClockDeinit
  <2>1. L \in Seq(Msgs) /\ AskedIn(L) /\ \A k \in DOMAIN L : \E i \in 4 .. 18 : L[k] \in {Ask(Ufs(i)), Off(Ufs(i))}
    BY UfsDeinitList
  <2> HIDE DEF L
  <2>2. \A k \in DOMAIN L : L[k].cmd \in {"IS_ENABLED", "DISABLE"}
    <3> TAKE k \in DOMAIN L
    <3>1. PICK i \in 4 .. 18 : L[k] \in {Ask(Ufs(i)), Off(Ufs(i))}
      BY <2>1
    <3>2. CASE L[k] = Ask(Ufs(i))
      BY <1>0, <3>2
    <3>3. CASE L[k] = Off(Ufs(i))
      BY <1>0, <3>3
    <3> QED
      BY <3>1, <3>2, <3>3
  <2>3. UfsOnlyIn(c, L) /\ QspiOnlyIn(c, L)
    BY <1>2, <2>2 DEF UfsOnlyIn, QspiOnlyIn
  <2> QED
    BY <2>1, <2>3 DEF Fits, L
<1>3. \A i \in 1 .. 3 : \A j \in 4 .. 18 : Trk(i) # Ufs(j)
  BY DEF Trk, TrackingClocks, Ufs, UfsClocks, Row
<1>4. Fits(c, TrackingClock(TRUE))
  <2> DEFINE L == TrackingClock(TRUE)
  <2>1. L \in Seq(Msgs) /\ \A k \in DOMAIN L : \E i \in 1 .. 3 : OfRow(TrackingClocks[i], L[k])
    BY TrackingOnList
  <2> HIDE DEF L
  <2>2. \A k \in DOMAIN L : L[k].cmd \in {"ENABLE", "SET_PARENT", "SET_RATE"} /\ \E i \in 1 .. 3 : L[k].id = Trk(i)
    BY <1>0, <2>1 DEF Trk
  <2>3. AskedIn(L)
    BY <2>2 DEF AskedIn
  <2>4. UfsOnlyIn(c, L) /\ QspiOnlyIn(c, L)
    BY <1>3, <2>2 DEF UfsOnlyIn, QspiOnlyIn
  <2> QED
    BY <2>1, <2>3, <2>4 DEF Fits, L
<1>5. Fits(c, TrackingClock(FALSE))
  <2> DEFINE L == TrackingClock(FALSE)
  <2>1. L \in Seq(Msgs) /\ AskedIn(L) /\ \A k \in DOMAIN L : \E i \in 1 .. 3 : L[k] \in {Ask(Trk(i)), Off(Trk(i))}
    BY TrackingOffList
  <2> HIDE DEF L
  <2>2. \A k \in DOMAIN L : L[k].cmd \in {"IS_ENABLED", "DISABLE"} /\ \E i \in 1 .. 3 : L[k].id = Trk(i)
    BY <1>0, <2>1
  <2>3. UfsOnlyIn(c, L) /\ QspiOnlyIn(c, L)
    BY <1>3, <2>2 DEF UfsOnlyIn, QspiOnlyIn
  <2> QED
    BY <2>1, <2>3 DEF Fits, L
<1> QED
  BY <1>1, <1>2, <1>4, <1>5
\* The functions of few messages.
LEMMA FewFit ==
    ASSUME NEW c
    PROVE  /\ Fits(c, << >>) /\ Fits(c, NotSupported) /\ Fits(c, UsbfClockInit)
           /\ \A id : HasClock(id) => Fits(c, << Send("ENABLE", id, 0) >>)
           /\ \A id, parent : HasClock(id) /\ parent \in AllClocks \cup {"GPU"} => Fits(c, << Send("SET_PARENT", id, parent) >>)
           /\ \A id : \A rate \in Nat : HasClock(id) => Fits(c, SetRate(id, rate))
           /\ \A id \in AllClocks : \A rate \in Nat : Fits(c, << Send("SET_RATE", id, rate) >>)
           /\ \A id \in AllClocks : \A rate \in Nat : (\A i \in 4 .. 18 : id # Ufs(i)) =>
                 Fits(c, InitPll(id, rate))
           /\ \A cmd \in {"ASSERT", "DEASSERT"} : \A id \in ClockAndReset \cup ResetOnly : Fits(c, << Try(cmd, id, 0) >>)
           /\ Fits(c, << Local("Part", "clocked"), Local("Part", "released") >>)
           /\ \A cmd \in {"POWER_ON", "POWER_OFF"} : Fits(c, [i \in 1 .. 3 |-> Try(cmd, DisplayDomains[i], 0)])
           /\ \A src \in QspiSources : \A divisor \in Nat : c.fn = "enable_qspi" => Fits(c, EnableQspi(src, divisor))
<1>2. \A id : HasClock(id) => id \in AllClocks /\ id \in Movable /\ \A i \in 4 .. 18 : id # Ufs(i)
  BY Identifiers DEF UfsIds, Rows
<1>3. ASSUME NEW id \in AllClocks
      PROVE  /\ Plain(c, Try("IS_ENABLED", id, "done if on"))
             /\ \A rate \in Nat : Plain(c, Send("SET_RATE", id, rate)) /\ Plain(c, Try("SET_RATE", id, rate))
             /\ (\A i \in 4 .. 18 : id # Ufs(i)) => Plain(c, Send("ENABLE", id, 0)) /\ Plain(c, Try("ENABLE", id, 0))
  <2>1. Plain(c, Try("IS_ENABLED", id, "done if on"))
    <3>1. Message("IS_ENABLED", id, "done if on", FALSE) \in Msgs
      BY MsgsAre
    <3> QED
      BY <3>1, PlainIs DEF Try
  <2>2. ASSUME NEW rate \in Nat PROVE Plain(c, Send("SET_RATE", id, rate)) /\ Plain(c, Try("SET_RATE", id, rate))
    <3>1. \A must \in BOOLEAN : Message("SET_RATE", id, rate, must) \in Msgs
      BY MsgsAre
    <3>2. \A must \in BOOLEAN : Plain(c, Message("SET_RATE", id, rate, must))
      BY <3>1, PlainIs
    <3> QED
      BY <3>2 DEF Send, Try
  <2>3. ASSUME \A i \in 4 .. 18 : id # Ufs(i) PROVE Plain(c, Send("ENABLE", id, 0)) /\ Plain(c, Try("ENABLE", id, 0))
    <3>1. \A must \in BOOLEAN : Message("ENABLE", id, 0, must) \in Msgs
      BY MsgsAre
    <3>2. \A must \in BOOLEAN : Plain(c, Message("ENABLE", id, 0, must))
      BY <2>3, <3>1, PlainIs
    <3> QED
      BY <3>2 DEF Send, Try
  <2> QED
    BY <2>1, <2>2, <2>3
<1>4. ASSUME NEW id \in Movable, NEW parent \in AllClocks \cup {"GPU"}, \A i \in 4 .. 18 : id # Ufs(i)
      PROVE  Plain(c, Send("SET_PARENT", id, parent)) /\ Plain(c, Try("SET_PARENT", id, parent))
  <2>1. << id, parent >> \in Moves
    BY DEF Moves
  <2>2. \A must \in BOOLEAN : Message("SET_PARENT", id, parent, must) \in Msgs
    BY <2>1, MsgsAre
  <2>3. \A must \in BOOLEAN : Plain(c, Message("SET_PARENT", id, parent, must))
    BY <1>4, <2>2, PlainIs
  <2> QED
    BY <2>3 DEF Send, Try
<1>5. Fits(c, << >>)
  BY ShortFits
<1>6. Fits(c, NotSupported)
  <2>1. Message("NotSupported", "none", "none", TRUE) \in Msgs
    BY MsgsAre
  <2>2. Plain(c, Local("NotSupported", "none"))
    BY <2>1, PlainIs DEF Local
  <2> QED
    BY <2>2, ShortFits, Zenon DEF NotSupported
<1>7. Fits(c, UsbfClockInit)
  <2>1. /\ {"XUSB_DEV", "XUSB_SS", "XUSB_HOST"} \subseteq ClockAndReset
        /\ {"XUSB_DEV", "XUSB_SS", "PLLP_OUT0", "PLL_U_48M"} \subseteq AllClocks
        /\ {"XUSB_DEV", "XUSB_FS"} \subseteq Movable
        /\ \A i \in 4 .. 18 : Ufs(i) \notin {"XUSB_DEV", "XUSB_FS"}
    <3>1. {"XUSB_DEV", "XUSB_SS", "XUSB_HOST"} \subseteq ClockAndReset
      BY DEF ClockAndReset
    <3>2. {"PLLP_OUT0", "PLL_U_48M"} \subseteq AllClocks
      BY DEF AllClocks, AtBoot
    <3>3. {"XUSB_DEV", "XUSB_FS"} \subseteq Movable
      BY <3>1 DEF Movable
    <3>4. \A i \in 4 .. 18 : Ufs(i) \notin {"XUSB_DEV", "XUSB_FS"}
      BY UfsApart DEF UfsIds, Rows
    <3>5. {"XUSB_DEV", "XUSB_SS"} \subseteq AllClocks
      BY <3>1 DEF AllClocks
    <3> QED
      BY <3>1, <3>2, <3>3, <3>4, <3>5
  <2>2. Plain(c, Try("SET_PARENT", "XUSB_DEV", "PLLP_OUT0")) /\ Plain(c, Try("SET_PARENT", "XUSB_FS", "PLL_U_48M"))
    BY <1>4, <2>1
  <2>3. Plain(c, Try("SET_RATE", "XUSB_DEV", 102000)) /\ Plain(c, Try("SET_RATE", "XUSB_SS", 120000))
    <3>1. \A id \in AllClocks : \A rate \in Nat : Plain(c, Try("SET_RATE", id, rate))
      BY <1>3
    <3>2. "XUSB_DEV" \in AllClocks /\ "XUSB_SS" \in AllClocks
      BY <2>1
    <3>3. \A rate \in Nat : Plain(c, Try("SET_RATE", "XUSB_DEV", rate)) /\ Plain(c, Try("SET_RATE", "XUSB_SS", rate))
      BY <3>1, <3>2
    <3> QED
      BY <3>3, SMT
  <2>4. \A id \in ClockAndReset : Plain(c, Try("DEASSERT", id, 0))
    <3>1. \A id \in ClockAndReset : Message("DEASSERT", id, 0, FALSE) \in Msgs
      BY MsgsAre
    <3> QED
      BY <3>1, PlainIs DEF Try
  <2>5. Plain(c, Try("DEASSERT", "XUSB_DEV", 0)) /\ Plain(c, Try("DEASSERT", "XUSB_SS", 0)) /\ Plain(c, Try("DEASSERT", "XUSB_HOST", 0))
    BY <2>1, <2>4
  <2>6. DOMAIN UsbfClockInit = 1 .. 7 /\ UsbfClockInit = [k \in 1 .. 7 |-> UsbfClockInit[k]]
    BY DEF UsbfClockInit
  <2>7. /\ UsbfClockInit[1] = Try("SET_PARENT", "XUSB_DEV", "PLLP_OUT0")
        /\ UsbfClockInit[2] = Try("SET_RATE", "XUSB_DEV", 102000)
        /\ UsbfClockInit[3] = Try("SET_RATE", "XUSB_SS", 120000)
        /\ UsbfClockInit[4] = Try("SET_PARENT", "XUSB_FS", "PLL_U_48M")
        /\ UsbfClockInit[5] = Try("DEASSERT", "XUSB_DEV", 0)
        /\ UsbfClockInit[6] = Try("DEASSERT", "XUSB_SS", 0)
        /\ UsbfClockInit[7] = Try("DEASSERT", "XUSB_HOST", 0)
    BY DEF UsbfClockInit
  <2>8. \A k \in 1 .. 7 : Plain(c, UsbfClockInit[k])
    BY <2>2, <2>3, <2>5, <2>7
  <2> QED
    BY <2>6, <2>8, PlainFits
<1>8. ASSUME NEW id, HasClock(id) PROVE Fits(c, << Send("ENABLE", id, 0) >>)
  <2>1. Plain(c, Send("ENABLE", id, 0))
    BY <1>2, <1>3, <1>8
  <2> QED
    BY <2>1, ShortFits, Zenon
<1>9. ASSUME NEW id, NEW parent, HasClock(id), parent \in AllClocks \cup {"GPU"}
      PROVE  Fits(c, << Send("SET_PARENT", id, parent) >>)
  <2>1. Plain(c, Send("SET_PARENT", id, parent))
    BY <1>2, <1>4, <1>9
  <2> QED
    BY <2>1, ShortFits, Zenon
<1>10. ASSUME NEW id, NEW rate \in Nat, HasClock(id) PROVE Fits(c, SetRate(id, rate))
  <2>1. Plain(c, Try("ENABLE", id, 0)) /\ Plain(c, Send("SET_RATE", id, rate))
    BY <1>2, <1>3, <1>10
  <2> QED
    BY <2>1, ShortFits, Zenon DEF SetRate
<1>11. ASSUME NEW id \in AllClocks, NEW rate \in Nat PROVE Fits(c, << Send("SET_RATE", id, rate) >>)
  <2>1. Plain(c, Send("SET_RATE", id, rate))
    BY <1>3
  <2> QED
    BY <2>1, ShortFits, Zenon
<1>12. ASSUME NEW id \in AllClocks, NEW rate \in Nat, \A i \in 4 .. 18 : id # Ufs(i)
       PROVE  Fits(c, InitPll(id, rate))
  <2>1. Plain(c, Try("IS_ENABLED", id, "done if on")) /\ Plain(c, Send("ENABLE", id, 0)) /\ Plain(c, Send("SET_RATE", id, rate))
    BY <1>3, <1>12
  <2> QED
    BY <2>1, ShortFits, Zenon DEF InitPll
<1>13. ASSUME NEW cmd \in {"ASSERT", "DEASSERT"}, NEW id \in ClockAndReset \cup ResetOnly PROVE Fits(c, << Try(cmd, id, 0) >>)
  <2>1. Message(cmd, id, 0, FALSE) \in Msgs
    BY MsgsAre
  <2>2. Plain(c, Try(cmd, id, 0))
    BY <2>1, PlainIs DEF Try
  <2> QED
    BY <2>2, ShortFits, Zenon
<1>14. Fits(c, << Local("Part", "clocked"), Local("Part", "released") >>)
  <2>1. \A part \in Parts : Message("Part", "none", part, TRUE) \in Msgs
    BY MsgsAre
  <2>2. \A part \in Parts : Plain(c, Local("Part", part))
    BY <2>1, PlainIs DEF Local
  <2>3. Plain(c, Local("Part", "clocked")) /\ Plain(c, Local("Part", "released"))
    BY <2>2 DEF Parts
  <2> QED
    BY <2>3, ShortFits, Zenon
<1>15. ASSUME NEW cmd \in {"POWER_ON", "POWER_OFF"} PROVE Fits(c, [i \in 1 .. 3 |-> Try(cmd, DisplayDomains[i], 0)])
  <2> DEFINE s == [i \in 1 .. 3 |-> Try(cmd, DisplayDomains[i], 0)]
  <2>1. \A i \in 1 .. 3 : DisplayDomains[i] \in ToSet(DisplayDomains)
    BY DEF DisplayDomains, ToSet
  <2>2. \A i \in 1 .. 3 : Message(cmd, DisplayDomains[i], 0, FALSE) \in Msgs
    BY <2>1, MsgsAre
  <2>3. \A i \in 1 .. 3 : Plain(c, s[i])
    BY <2>2, PlainIs DEF Try
  <2>4. DOMAIN s = 1 .. 3 /\ s = [i \in 1 .. 3 |-> s[i]]
    OBVIOUS
  <2> HIDE DEF s
  <2>5. Fits(c, s)
    BY <2>3, <2>4, PlainFits
  <2> QED
    BY <2>5 DEF s
<1>16. ASSUME NEW src \in QspiSources, NEW divisor \in Nat, c.fn = "enable_qspi" PROVE Fits(c, EnableQspi(src, divisor))
  <2> DEFINE g == Try("GET_RATE", "PLLC4_VCO", 0)
             m == Local("ChooseParent", [src |-> src, divisor |-> divisor])
  <2>1. Plain(c, g)
    <3>1. "PLLC4_VCO" \in AllClocks
      BY DEF AllClocks
    <3>2. Message("GET_RATE", "PLLC4_VCO", 0, FALSE) \in Msgs
      BY <3>1, MsgsAre
    <3> QED
      BY <1>16, <3>2, PlainIs DEF Try
  <2>2. EnableQspi(src, divisor) = (IF src = "PLLC4_MUXED" THEN << g >> ELSE << >>) \o << m >>
    BY Zenon DEF EnableQspi
  <2>3. Plain(c, m)
    <3>1. Message("ChooseParent", "none", [src |-> src, divisor |-> divisor], TRUE) \in Msgs
      BY MsgsAre
    <3> QED
      BY <1>16, <3>1, PlainIs DEF Local
  <2> HIDE DEF g, m
  <2>4. << g >> \o << m >> = << g, m >>
    BY Joined, Zenon
  <2>5. << >> \o << m >> = << m >>
    OBVIOUS
  <2>6. Fits(c, << g, m >>) /\ Fits(c, << m >>)
    BY <2>1, <2>3, ShortFits, Zenon
  <2> QED
    BY <2>2, <2>4, <2>5, <2>6
<1> QED
  BY <1>5, <1>6, <1>7, <1>8, <1>9, <1>10, <1>11, <1>12, <1>13, <1>14, <1>15, <1>16
\* The list of every call of the interface.
LEMMA ToDoFits ==
    ASSUME NEW c, InInterface(c)
    PROVE  Fits(c, ToDo(c))
<1>1. CASE c.fn = "clk_enable"
  <2>1. ToDo(c) = IfClock(c.id, << Send("ENABLE", c.id, 0) >>)
    BY <1>1 DEF ToDo
  <2> QED
    BY <2>1, FewFit DEF IfClock
<1>2. CASE c.fn = "clk_disable"
  <2>1. ToDo(c) = IF HasClock(c.id) THEN DisableIfOn(c.id) ELSE << >>
    BY <1>2 DEF ToDo
  <2>2. HasClock(c.id) => Fits(c, DisableIfOn(c.id))
    BY Identifiers, OffFits
  <2> QED
    BY <2>1, <2>2, FewFit
<1>3. CASE c.fn = "set_clk_src"
  <2>1. ToDo(c) = IF IdOfSource(c.arg) = CLK_MAX THEN NotSupported
                  ELSE IfClock(c.id, << Send("SET_PARENT", c.id, IdOfSource(c.arg)) >>)
    BY <1>3 DEF ToDo
  <2>2. IdOfSource(c.arg) # CLK_MAX => IdOfSource(c.arg) \in AllClocks \cup {"GPU"}
    BY Identifiers
  <2> QED
    BY <2>1, <2>2, FewFit DEF IfClock
<1>4. CASE c.fn = "set_clk_rate"
  <2>1. ToDo(c) = IfClock(c.id, SetRate(c.id, c.arg)) /\ c.arg \in Nat
    BY <1>4 DEF ToDo, InInterface
  <2> QED
    BY <2>1, FewFit DEF IfClock
<1>5. CASE c.fn = "set_clk_src_rate"
  <2>1. /\ ToDo(c) = IF IdOfSource(c.id) = CLK_MAX THEN NotSupported ELSE << Send("SET_RATE", IdOfSource(c.id), c.arg) >>
        /\ c.arg \in Nat
    BY <1>5 DEF ToDo, InInterface
  <2>2. IdOfSource(c.id) # CLK_MAX => IdOfSource(c.id) \in AllClocks
    BY Identifiers
  <2> QED
    BY <2>1, <2>2, FewFit
<1>6. CASE c.fn = "enable_qspi"
  <2>1. ToDo(c) = EnableQspi(c.id, c.arg) /\ c.id \in QspiSources /\ c.arg \in Nat
    BY <1>6 DEF ToDo, InInterface
  <2> QED
    BY <1>6, <2>1, FewFit
<1>7. CASE c.fn = "init_pll"
  <2>1. /\ ToDo(c) = IF PllId(c.id) = CLK_MAX THEN NotSupported ELSE InitPll(PllId(c.id), c.arg)
        /\ c.id \in Plls /\ c.arg \in Nat
    BY <1>7 DEF ToDo, InInterface
  <2>2. PllId(c.id) # CLK_MAX => PllId(c.id) \in AllClocks /\ \A i \in 4 .. 18 : PllId(c.id) # Ufs(i)
    BY <2>1, Identifiers
  <2> QED
    BY <2>1, <2>2, FewFit
<1>8. CASE c.fn = "disable_plle"
  <2>1. ToDo(c) = TryDisableIfOn("PLLE")
    BY <1>8 DEF ToDo
  <2>2. "PLLE" \in AllClocks /\ "PLLE" \in Switched /\ "PLLE" \notin UfsIds
    <3>1. "PLLE" \in AllClocks /\ "PLLE" \in Switched
      BY DEF AllClocks, Switched
    <3> QED
      BY <3>1, UfsApart
  <2> QED
    BY <2>1, <2>2, OffFits
<1>9. CASE c.fn \in {"rst_set", "rst_clear"}
  <2>1. ToDo(c) = IF HasReset(c.id) THEN << Try(IF c.fn = "rst_set" THEN "ASSERT" ELSE "DEASSERT", c.id, 0) >> ELSE NotSupported
    BY <1>9 DEF ToDo
  <2>2. HasReset(c.id) => c.id \in ClockAndReset \cup ResetOnly
    BY Identifiers
  <2>3. HasReset(c.id) => Fits(c, << Try("ASSERT", c.id, 0) >>) /\ Fits(c, << Try("DEASSERT", c.id, 0) >>)
    BY <2>2, FewFit
  <2> QED
    BY <2>1, <2>3, FewFit
<1>10. CASE c.fn = "tracking"
  <2>1. ToDo(c) = TrackingClock(c.arg) /\ c.arg \in BOOLEAN
    BY <1>10 DEF ToDo, InInterface
  <2>2. c.arg = TRUE \/ c.arg = FALSE
    BY <2>1
  <2> QED
    BY <2>1, <2>2, TableFits
<1>11. CASE c.fn = "usbf_clock_init"
  <2>1. ToDo(c) = UsbfClockInit
    BY <1>11 DEF ToDo
  <2> QED
    BY <2>1, FewFit
<1>12. CASE c.fn = "ufs_clock_init"
  <2>1. ToDo(c) = UfsProgramClock
    BY <1>12 DEF ToDo
  <2> QED
    BY <1>12, <2>1, TableFits
<1>13. CASE c.fn = "ufs_clock_deinit"
  <2>1. ToDo(c) = UfsClockDeinit
    BY <1>13 DEF ToDo
  <2> QED
    BY <1>13, <2>1, TableFits
<1>14. CASE c.fn = "ufs_disable_device"
  <2>1. ToDo(c) = << Local("Part", "clocked"), Local("Part", "released") >>
    BY <1>14 DEF ToDo
  <2> QED
    BY <2>1, FewFit
<1>15. CASE c.fn \in {"display_unpowergate", "display_powergate"}
  <2>1. ToDo(c) = IF c.fn = "display_unpowergate" THEN [i \in 1 .. 3 |-> Try("POWER_ON", DisplayDomains[i], 0)]
                  ELSE [i \in 1 .. 3 |-> Try("POWER_OFF", DisplayDomains[i], 0)]
    BY <1>15 DEF ToDo
  <2>2. Fits(c, [i \in 1 .. 3 |-> Try("POWER_ON", DisplayDomains[i], 0)])
        /\ Fits(c, [i \in 1 .. 3 |-> Try("POWER_OFF", DisplayDomains[i], 0)])
    BY FewFit
  <2> QED
    BY <2>1, <2>2
<1> QED
  BY <1>1, <1>2, <1>3, <1>4, <1>5, <1>6, <1>7, <1>8, <1>9, <1>10, <1>11, <1>12, <1>13, <1>14, <1>15 DEF InInterface---------------------------------------------------------------------------
(* What the steps do.                                                      *)

\* What a list keeps when its first element is done.
LEMMA TailKeeps ==
    ASSUME NEW s \in Seq(Msgs), s # << >>
    PROVE  /\ Tail(s) \in Seq(Msgs) /\ Head(s) \in Msgs /\ Has(s, Head(s))
           /\ \A c : Fits(c, s) => Fits(c, Tail(s))
           /\ AskedIn(s) /\ Head(s).cmd = "IS_ENABLED" /\ Head(s).arg = "skip if off" =>
                 Tail(s) # << >> /\ Head(Tail(s)).cmd = "DISABLE" /\ Head(Tail(s)).id = Head(s).id
           /\ \A m : Has(s, m) => m = Head(s) \/ Has(Tail(s), m)
           /\ \A m, N : Ahead(s, m, N) => Head(s) \notin N /\ (m = Head(s) \/ Ahead(Tail(s), m, N))
           /\ \A m, N : Behind(s, N, m) => Behind(Tail(s), N, m) /\ (Head(s) \in N => Has(Tail(s), m))
<1> DEFINE t == Tail(s)
           n == Len(t)
<1>1. /\ t \in Seq(Msgs) /\ n \in Nat /\ Len(s) = n + 1 /\ DOMAIN s = 1 .. n + 1 /\ DOMAIN t = 1 .. n
      /\ Head(s) = s[1] /\ s[1] \in Msgs /\ \A k \in 1 .. n : t[k] = s[k + 1]
  OBVIOUS
<1>2. n > 0 => t # << >> /\ Head(t) = t[1] /\ t[1] = s[2]
  <2> HIDE DEF t
  <2>1. t \in Seq(Msgs) /\ n \in Nat
    BY <1>1
  <2>2. n > 0 => t # << >>
    BY <2>1
  <2>3. t # << >> => Head(t) = t[1]
    BY <2>1
  <2>4. n > 0 => 1 \in 1 .. n /\ 1 + 1 = 2
    BY <2>1
  <2> HIDE DEF n
  <2> QED
    BY <1>1, <2>2, <2>3, <2>4
<1> HIDE DEF t, n
<1>3. 1 \in DOMAIN s /\ (\A k \in 1 .. n : k + 1 \in DOMAIN s) /\ \A k \in DOMAIN s : k = 1 \/ (k - 1 \in 1 .. n /\ k = (k - 1) + 1)
  BY <1>1
<1>10. \A k \in 1 .. n : (k + 1) + 1 \in 1 .. n + 1 => k + 1 \in 1 .. n
  <2>1. n \in Nat
    BY <1>1
  <2> QED
    BY <2>1
<1>4. Has(s, Head(s))
  BY <1>1, <1>3 DEF Has
<1>5. ASSUME NEW m, Has(s, m) PROVE m = Head(s) \/ Has(t, m)
  <2>1. PICK k \in DOMAIN s : s[k] = m
    BY <1>5 DEF Has
  <2>2. k # 1 => k - 1 \in 1 .. n /\ t[k - 1] = m
    BY <1>1, <1>3, <2>1
  <2> QED
    BY <1>1, <2>1, <2>2 DEF Has
<1>6. ASSUME NEW m, NEW N, Ahead(s, m, N) PROVE Head(s) \notin N /\ (m = Head(s) \/ Ahead(t, m, N))
  <2>1. Head(s) \notin N
    <3>1. Head(s) \in N => \E j \in 1 .. 1 - 1 : s[j] = m
      BY <1>1, <1>3, <1>6 DEF Ahead
    <3> QED
      BY <3>1
  <2>2. ASSUME m # Head(s), NEW k \in DOMAIN t, t[k] \in N PROVE \E j \in 1 .. k - 1 : t[j] = m
    <3>1. k \in 1 .. n /\ k + 1 \in DOMAIN s /\ s[k + 1] \in N
      BY <1>1, <1>3, <2>2
    <3>2. PICK j \in 1 .. (k + 1) - 1 : s[j] = m
      BY <1>6, <3>1 DEF Ahead
    <3>3. j \in 1 .. k /\ j # 1
      BY <1>1, <2>2, <3>1, <3>2
    <3>4. j - 1 \in 1 .. k - 1 /\ j - 1 \in 1 .. n /\ (j - 1) + 1 = j
      BY <1>1, <3>1, <3>3
    <3> QED
      BY <1>1, <3>2, <3>4
  <2> QED
    BY <2>1, <2>2 DEF Ahead
<1>7. ASSUME NEW m, NEW N, Behind(s, N, m) PROVE Behind(t, N, m) /\ (Head(s) \in N => Has(t, m))
  <2>1. ASSUME NEW k \in DOMAIN s, s[k] \in N PROVE \E j \in 1 .. n : j >= k /\ t[j] = m
    <3>1. PICK j \in k + 1 .. n + 1 : s[j] = m
      BY <1>1, <1>7, <2>1 DEF Behind
    <3>2. j - 1 \in 1 .. n /\ j - 1 >= k /\ (j - 1) + 1 = j
      BY <1>1, <3>1
    <3> QED
      BY <1>1, <3>1, <3>2
  <2>2. ASSUME NEW k \in DOMAIN t, t[k] \in N PROVE \E j \in k + 1 .. Len(t) : t[j] = m
    <3>1. k \in 1 .. n /\ k + 1 \in DOMAIN s /\ s[k + 1] \in N
      BY <1>1, <1>3, <2>2
    <3>2. PICK j \in 1 .. n : j >= k + 1 /\ t[j] = m
      BY <2>1, <3>1
    <3>3. j \in k + 1 .. n /\ n = Len(t)
      BY <1>1, <3>1, <3>2 DEF n
    <3> QED
      BY <3>2, <3>3
  <2>3. Head(s) \in N => Has(t, m)
    BY <1>1, <1>3, <2>1 DEF Has
  <2> QED
    BY <2>2, <2>3 DEF Behind
<1>8. ASSUME AskedIn(s), Head(s).cmd = "IS_ENABLED", Head(s).arg = "skip if off"
      PROVE  t # << >> /\ Head(t).cmd = "DISABLE" /\ Head(t).id = Head(s).id
  <2>1. 1 + 1 \in DOMAIN s /\ s[1 + 1].cmd = "DISABLE" /\ s[1 + 1].id = s[1].id
    BY <1>1, <1>3, <1>8 DEF AskedIn
  <2>2. n > 0 /\ s[2] = s[1 + 1]
    BY <1>1, <2>1
  <2> QED
    BY <1>1, <1>2, <2>1, <2>2
<1>9. ASSUME NEW c, Fits(c, s) PROVE Fits(c, t)
  <2>1. AskedIn(t)
    <3> SUFFICES ASSUME NEW k \in DOMAIN t, t[k].cmd = "IS_ENABLED", t[k].arg = "skip if off"
                 PROVE  k + 1 \in DOMAIN t /\ t[k + 1].cmd = "DISABLE" /\ t[k + 1].id = t[k].id
      BY DEF AskedIn
    <3>1. k \in 1 .. n /\ k + 1 \in DOMAIN s /\ s[k + 1] = t[k]
      BY <1>1, <1>3
    <3>2. (k + 1) + 1 \in DOMAIN s /\ s[(k + 1) + 1].cmd = "DISABLE" /\ s[(k + 1) + 1].id = s[k + 1].id
      BY <1>9, <3>1 DEF Fits, AskedIn
    <3>3. k + 1 \in 1 .. n
      BY <1>1, <1>10, <3>1, <3>2, Zenon
    <3> QED
      BY <1>1, <3>1, <3>2, <3>3
  <2>2. \A k \in DOMAIN t : \E j \in DOMAIN s : t[k] = s[j]
    BY <1>1, <1>3
  <2>3. UfsOnlyIn(c, t)
    BY <1>9, <2>2 DEF Fits, UfsOnlyIn
  <2>4. QspiOnlyIn(c, t)
    BY <1>9, <2>2 DEF Fits, QspiOnlyIn
  <2> QED
    BY <1>1, <2>1, <2>3, <2>4 DEF Fits
<1> QED
  BY <1>1, <1>4, <1>5, <1>6, <1>7, <1>8, <1>9 DEF t

\* Which clocks are moved, and which are switched off.
LEMMA MovesAre ==
    /\ AtBoot \cup TrackingIds \cup Switched \cup Pllc4Outs \cup {"PLLC4_VCO"} \subseteq AllClocks
    /\ "GPU" \notin AllClocks /\ "QSPI" \in Movable /\ UfsIds \subseteq AllClocks
    /\ Switched \cap AtBoot = {}
    /\ \A id, parent : << id, parent >> \in Moves =>
          /\ id \in AllClocks /\ id \notin AtBoot \cup Pllc4Outs \cup {"PLLC4_VCO"}
          /\ \A i \in Rows : id = Ufs(i) => parent = UfsClocks[i].parent /\ parent # CLK_MAX
          /\ id \in TrackingIds => parent = "OSC"
    /\ \A i \in Rows : Ufs(i) \in Switched => i \in 4 .. 18
<1>1. ClockAndReset \cup ClockOnly \subseteq AllClocks
  BY Zenon DEF AllClocks
<1>2. {"XUSB_FS", "PLLE", "PLLC4_VCO"} \cup Pllc4Outs \cup AtBoot \subseteq AllClocks
  BY DEF AllClocks
<1>3. UfsIds \subseteq AllClocks
  BY RowsFit DEF UfsIds
<1>4. TrackingIds \subseteq AllClocks
  BY RowsFit, TrkTable DEF RowFits, Trk
<1>5. Movable \subseteq AllClocks /\ Switched \subseteq AllClocks
  BY <1>1, <1>2, <1>3, <1>4 DEF Movable, Switched, UfsIds, Rows
<1>6. "QSPI" \in Movable
  BY DEF Movable, ClockAndReset
<1>7. "GPU" \notin AllClocks
  <2>1. "GPU" \notin UfsIds /\ "GPU" \notin TrackingIds
    BY DEF UfsIds, Ufs, UfsClocks, Rows, Row, TrackingIds
  <2>2. UfsIds = {UfsClocks[i].id : i \in DOMAIN UfsClocks} /\ TrackingIds = {TrackingClocks[i].id : i \in DOMAIN TrackingClocks}
    BY UfsTable, RowsFit, TrkTable DEF UfsIds, Ufs, Trk
  <2>3. "GPU" \notin AtBoot \cup ClockAndReset \cup ClockOnly \cup Pllc4Outs \cup DOMAIN Renamed \cup SameName
    BY DEF AtBoot, ClockAndReset, ClockOnly, Pllc4Outs, Renamed, SameName
  <2>4. "GPU" \notin {Renamed[src] : src \in DOMAIN Renamed}
        /\ "GPU" \notin {"PLLC4_VCO", "PLLU", "PLLP", "PLLD", "PLLE", "PLLAON", "PLL_U_48M", "XUSB_FS"}
    BY DEF Renamed
  <2>5. AllClocks =
          AtBoot \cup ClockAndReset \cup ClockOnly \cup Pllc4Outs \cup DOMAIN Renamed \cup SameName
          \cup {Renamed[src] : src \in DOMAIN Renamed}
          \cup {"PLLC4_VCO", "PLLU", "PLLP", "PLLD", "PLLE", "PLLAON", "PLL_U_48M", "XUSB_FS"}
          \cup UfsIds \cup TrackingIds
    BY <2>2, Zenon DEF AllClocks
  <2> QED
    BY <2>1, <2>3, <2>4, <2>5
<1>8. /\ Movable \cap UfsIds = {} /\ Movable \cap TrackingIds = {} /\ UfsIds \cap TrackingIds = {}
      /\ Movable \cap (AtBoot \cup Pllc4Outs \cup {"PLLC4_VCO"}) = {}
      /\ TrackingIds \cap (AtBoot \cup Pllc4Outs \cup {"PLLC4_VCO"}) = {}
  <2>1. Movable \cap UfsIds = {} /\ UfsIds \cap TrackingIds = {}
    BY UfsApart DEF Movable, TrackingIds
  <2>2. Movable \cap TrackingIds = {} /\ Movable \cap (AtBoot \cup Pllc4Outs \cup {"PLLC4_VCO"}) = {}
    BY DEF Movable, ClockAndReset, ClockOnly, TrackingIds, AtBoot, Pllc4Outs
  <2>3. TrackingIds \cap (AtBoot \cup Pllc4Outs \cup {"PLLC4_VCO"}) = {}
    BY DEF TrackingIds, AtBoot, Pllc4Outs
  <2> QED
    BY <2>1, <2>2, <2>3
<1>9. /\ \A i \in Rows : UfsClocks[i].parent # CLK_MAX => Ufs(i) \notin AtBoot \cup Pllc4Outs \cup {"PLLC4_VCO"}
      /\ \A i \in 4 .. 18 : Ufs(i) \notin AtBoot
  BY DEF Rows, Ufs, UfsClocks, Row, CLK_MAX, AtBoot, Pllc4Outs
<1>10. Switched \cap AtBoot = {}
  <2>1. "PLLE" \notin AtBoot
    BY DEF AtBoot
  <2> QED
    BY <1>8, <1>9, <2>1 DEF Switched
<1>11. ASSUME NEW id, NEW parent, << id, parent >> \in Moves
       PROVE  /\ id \in AllClocks /\ id \notin AtBoot \cup Pllc4Outs \cup {"PLLC4_VCO"}
              /\ \A i \in Rows : id = Ufs(i) => parent = UfsClocks[i].parent /\ parent # CLK_MAX
              /\ id \in TrackingIds => parent = "OSC"
  <2>1. CASE << id, parent >> \in {<< i, p >> : i \in Movable, p \in AllClocks \cup {"GPU"}}
    <3>1. id \in Movable
      BY <2>1
    <3> QED
      BY <1>5, <1>8, <3>1 DEF UfsIds
  <2>2. CASE << id, parent >> \in {<< Ufs(i), UfsClocks[i].parent >> : i \in {j \in Rows : UfsClocks[j].parent # CLK_MAX}}
    <3>1. PICK i \in Rows : UfsClocks[i].parent # CLK_MAX /\ id = Ufs(i) /\ parent = UfsClocks[i].parent
      BY <2>2
    <3>2. \A j \in Rows : id = Ufs(j) => j = i
      BY <3>1, UfsTable
    <3>3. id \in UfsIds
      BY <3>1 DEF UfsIds
    <3> QED
      BY <1>3, <1>8, <1>9, <3>1, <3>2, <3>3
  <2>3. CASE << id, parent >> \in {<< i, "OSC" >> : i \in TrackingIds}
    <3>1. id \in TrackingIds /\ parent = "OSC"
      BY <2>3
    <3> QED
      BY <1>4, <1>8, <3>1 DEF UfsIds
  <2> QED
    BY <1>11, <2>1, <2>2, <2>3 DEF Moves
<1>12. ASSUME NEW i \in Rows, Ufs(i) \in Switched PROVE i \in 4 .. 18
  <2>1. Ufs(i) \in UfsIds /\ Ufs(i) # "PLLE"
    BY UfsApart DEF UfsIds
  <2>2. PICK j \in 4 .. 18 : Ufs(i) = Ufs(j)
    BY <1>8, <1>12, <2>1 DEF Switched
  <2> QED
    BY <2>2, UfsTable DEF Rows
<1> QED
  BY <1>2, <1>3, <1>4, <1>5, <1>6, <1>7, <1>10, <1>11, <1>12
\* A new parent or rate of one clock: nothing is turned on or off, and only the
\* rates of what is derived from it may change.
LEMMA SetToFrame ==
    ASSUME clk \in ClkType, NEW id \in AllClocks, NEW parent \in AllClocks, NEW rate \in Nat
    PROVE  LET new == SetTo(id, parent, rate) IN
           /\ new \in ClkType
           /\ \A c \in AllClocks : new[c].on = clk[c].on
           /\ \A c \in AllClocks : new[c].parent = IF c = id THEN parent ELSE clk[c].parent
           /\ new[id].rate = rate
           /\ \A c \in AllClocks : new[c].rate # clk[c].rate =>
                 id \in Above(c) /\ (parent # clk[id].parent \/ rate # clk[id].rate)
<1> DEFINE new == SetTo(id, parent, rate)
           moved == IF << parent, rate >> = << clk[id].parent, clk[id].rate >> THEN {} ELSE Below(id)
<1>1. DOMAIN clk = AllClocks /\ \A c \in AllClocks : clk[c] \in [on : BOOLEAN, parent : AllClocks, rate : Nat]
  BY DEF ClkType
<1>2. new = [c \in AllClocks |->
                IF c = id THEN [clk[c] EXCEPT !.parent = parent, !.rate = rate]
                ELSE IF c \in moved THEN [clk[c] EXCEPT !.rate = 0]
                ELSE clk[c]]
  BY <1>1, Zenon DEF SetTo, Clocks
<1>3. \A c \in moved : id \in Above(c) /\ (parent # clk[id].parent \/ rate # clk[id].rate)
  BY DEF Below
<1>4. id \in Above(id)
  BY AboveClosed
<1> HIDE DEF new, moved
<1>5. ASSUME NEW c \in AllClocks
      PROVE  /\ new[c] \in [on : BOOLEAN, parent : AllClocks, rate : Nat]
             /\ new[c].on = clk[c].on
             /\ new[c].parent = IF c = id THEN parent ELSE clk[c].parent
             /\ new[c].rate = IF c = id THEN rate ELSE IF c \in moved THEN 0 ELSE clk[c].rate
  <2> DEFINE old == clk[c]
  <2>1. old \in [on : BOOLEAN, parent : AllClocks, rate : Nat]
    BY <1>1
  <2>2. new[c] = IF c = id THEN [old EXCEPT !.parent = parent, !.rate = rate]
                 ELSE IF c \in moved THEN [old EXCEPT !.rate = 0]
                 ELSE old
    BY <1>2
  <2> HIDE DEF old
  <2>3. /\ new[c] \in [on : BOOLEAN, parent : AllClocks, rate : Nat]
        /\ new[c].on = old.on
        /\ new[c].parent = IF c = id THEN parent ELSE old.parent
        /\ new[c].rate = IF c = id THEN rate ELSE IF c \in moved THEN 0 ELSE old.rate
    <3>1. CASE c = id
      <4>1. new[c] = [old EXCEPT !.parent = parent, !.rate = rate]
        BY <2>2, <3>1
      <4> QED
        BY <2>1, <3>1, <4>1
    <3>2. CASE c # id /\ c \in moved
      <4>1. new[c] = [old EXCEPT !.rate = 0]
        BY <2>2, <3>2
      <4> QED
        BY <2>1, <3>2, <4>1
    <3>3. CASE c # id /\ c \notin moved
      <4>1. new[c] = old
        BY <2>2, <3>3
      <4> QED
        BY <2>1, <3>3, <4>1
    <3> QED
      BY <3>1, <3>2, <3>3
  <2> QED
    BY <2>3 DEF old
<1>6. new \in ClkType
  <2>1. DOMAIN new = AllClocks /\ new = [c \in AllClocks |-> new[c]]
    BY <1>2
  <2> QED
    BY <1>5, <2>1 DEF ClkType
<1>7. ASSUME NEW c \in AllClocks, new[c].rate # clk[c].rate
      PROVE  id \in Above(c) /\ (parent # clk[id].parent \/ rate # clk[id].rate)
  <2>1. CASE c = id
    BY <1>4, <1>5, <1>7, <2>1
  <2>2. CASE c # id
    BY <1>3, <1>5, <1>7, <2>2
  <2> QED
    BY <2>1, <2>2
<1> QED
  BY <1>5, <1>6, <1>7 DEF new

\* What the BPMP does when it obeys.
Frame(m) ==
    /\ clk' \in ClkType
    /\ \A c \in AllClocks :
          clk'[c].on = IF m.id = c /\ m.cmd = "ENABLE" THEN TRUE
                       ELSE IF m.id = c /\ m.cmd = "DISABLE" THEN FALSE ELSE clk[c].on
    /\ \A c \in AllClocks : clk'[c].parent = IF m.id = c /\ m.cmd = "SET_PARENT" THEN m.arg ELSE clk[c].parent
    /\ \A c \in AllClocks : clk'[c].rate # clk[c].rate =>
          /\ m.id \in Above(c)
          /\ m.cmd = "SET_RATE" \/ (m.cmd = "SET_PARENT" /\ m.arg # clk[m.id].parent)
    /\ m.cmd = "SET_RATE" => clk'[m.id].rate = m.arg
    /\ m.cmd = "SET_PARENT" => m.id \in AllClocks /\ m.arg \in AllClocks
LEMMA ObeyedFrame ==
    ASSUME clk \in ClkType, NEW m \in Msgs, ~Refused(m), Obeyed(m)
    PROVE  Frame(m)
<1>1. DOMAIN clk = AllClocks /\ \A c \in AllClocks : clk[c] \in [on : BOOLEAN, parent : AllClocks, rate : Nat]
  BY DEF ClkType
<1>2. clk' = CASE m.cmd = "ENABLE"     -> [clk EXCEPT ![m.id].on = TRUE]
               [] m.cmd = "DISABLE"    -> [clk EXCEPT ![m.id].on = FALSE]
               [] m.cmd = "SET_PARENT" -> SetTo(m.id, m.arg, IF clk[m.id].parent = m.arg THEN clk[m.id].rate ELSE 0)
               [] m.cmd = "SET_RATE"   -> SetTo(m.id, clk[m.id].parent, m.arg)
               [] OTHER                -> clk
  BY Zenon DEF Obeyed
<1>3. ASSUME NEW on \in BOOLEAN, NEW id \in AllClocks, clk' = [clk EXCEPT ![id].on = on]
      PROVE  /\ clk' \in ClkType
             /\ \A c \in AllClocks : clk'[c].on = IF c = id THEN on ELSE clk[c].on
             /\ \A c \in AllClocks : clk'[c].parent = clk[c].parent /\ clk'[c].rate = clk[c].rate
  BY <1>1, <1>3 DEF ClkType
<1>4. CASE m.cmd \in {"ENABLE", "DISABLE"}
  <2>1. m.id \in AllClocks
    BY <1>4, MsgFields, MovesAre
  <2>2. CASE m.cmd = "ENABLE"
    <3>1. clk' = [clk EXCEPT ![m.id].on = TRUE]
      BY <1>2, <2>2
    <3>2. /\ clk' \in ClkType
          /\ \A c \in AllClocks : clk'[c].on = IF c = m.id THEN TRUE ELSE clk[c].on
          /\ \A c \in AllClocks : clk'[c].parent = clk[c].parent /\ clk'[c].rate = clk[c].rate
      BY <1>3, <2>1, <3>1
    <3> QED
      BY <2>2, <3>2 DEF Frame
  <2>3. CASE m.cmd = "DISABLE"
    <3>1. clk' = [clk EXCEPT ![m.id].on = FALSE]
      BY <1>2, <2>3
    <3>2. /\ clk' \in ClkType
          /\ \A c \in AllClocks : clk'[c].on = IF c = m.id THEN FALSE ELSE clk[c].on
          /\ \A c \in AllClocks : clk'[c].parent = clk[c].parent /\ clk'[c].rate = clk[c].rate
      BY <1>3, <2>1, <3>1
    <3> QED
      BY <2>3, <3>2 DEF Frame
  <2> QED
    BY <1>4, <2>2, <2>3
<1>5. CASE m.cmd = "SET_PARENT"
  <2> DEFINE r == IF clk[m.id].parent = m.arg THEN clk[m.id].rate ELSE 0
  <2>1. m.arg \in AllClocks /\ m.id \in AllClocks
    <3>1. m.arg \in AllClocks
      BY <1>1, <1>5 DEF Refused, Clocks
    <3>2. << m.id, m.arg >> \in Moves
      BY <1>5, MsgFields
    <3> QED
      BY <3>1, <3>2, MovesAre
  <2>2. r \in Nat /\ (m.arg = clk[m.id].parent => r = clk[m.id].rate)
    BY <1>1, <2>1
  <2>3. clk' = SetTo(m.id, m.arg, r)
    BY <1>2, <1>5
  <2> HIDE DEF r
  <2>4. /\ clk' \in ClkType
        /\ \A c \in AllClocks : clk'[c].on = clk[c].on
        /\ \A c \in AllClocks : clk'[c].parent = IF c = m.id THEN m.arg ELSE clk[c].parent
        /\ \A c \in AllClocks : clk'[c].rate # clk[c].rate =>
              m.id \in Above(c) /\ (m.arg # clk[m.id].parent \/ r # clk[m.id].rate)
    BY <2>1, <2>2, <2>3, SetToFrame
  <2> QED
    BY <1>5, <2>1, <2>2, <2>4 DEF Frame
<1>6. CASE m.cmd = "SET_RATE"
  <2>1. m.arg \in Nat /\ m.id \in AllClocks /\ clk[m.id].parent \in AllClocks
    BY <1>1, <1>6, MsgFields
  <2>2. clk' = SetTo(m.id, clk[m.id].parent, m.arg)
    BY <1>2, <1>6
  <2>3. /\ clk' \in ClkType
        /\ \A c \in AllClocks : clk'[c].on = clk[c].on
        /\ \A c \in AllClocks : clk'[c].parent = IF c = m.id THEN clk[m.id].parent ELSE clk[c].parent
        /\ clk'[m.id].rate = m.arg
        /\ \A c \in AllClocks : clk'[c].rate # clk[c].rate => m.id \in Above(c)
    BY <2>1, <2>2, SetToFrame
  <2> QED
    BY <1>6, <2>3 DEF Frame
<1>7. CASE m.cmd \notin {"ENABLE", "DISABLE", "SET_PARENT", "SET_RATE"}
  <2>1. clk' = clk
    BY <1>2, <1>7
  <2> QED
    BY <1>7, <2>1 DEF Frame
<1> QED
  BY <1>4, <1>5, <1>6, <1>7

---------------------------------------------------------------------------
(* The types, the trees, and the function of QSPI, whose rate is computed  *)
(* from what it has been told.                                             *)

CoreInv ==
    /\ TypeInv
    /\ Running => result = "ok"
    /\ Fits(call, todo)
    /\ TreeInv
    /\ QspiInv

LEMMA CoreInit == Init => CoreInv
<1> SUFFICES ASSUME Init PROVE CoreInv
  OBVIOUS
<1>1. todo = << >> /\ call = [fn |-> "none"] /\ call.fn = "none" /\ result = "ok" /\ got = -1 /\ muxed = 0 /\ calls = 0 /\ lost = 0
      /\ released = {} /\ powered = {} /\ device = {} /\ menu \in Menus
  BY DEF Init
<1>2. PICK started \in SUBSET {"PLLC4_VCO", "PLLU"} :
          clk = [c \in AllClocks |->
                    [on |-> c \in AtBoot \cup started,
                     parent |-> IF c \in Pllc4Outs THEN "PLLC4_VCO" ELSE "OSC",
                     rate |-> FirstRate(c, started)]]
  BY Zenon DEF Init
<1>3. \A c : FirstRate(c, started) \in Nat
  BY DEF AtBoot, BootRate, FirstRate
<1>4. ASSUME NEW c \in AllClocks
      PROVE  /\ clk[c] \in [on : BOOLEAN, parent : AllClocks, rate : Nat]
             /\ c \in AtBoot => clk[c].on
             /\ clk[c].parent = IF c \in Pllc4Outs THEN "PLLC4_VCO" ELSE "OSC"
  <2> DEFINE r == FirstRate(c, started)
             p == IF c \in Pllc4Outs THEN "PLLC4_VCO" ELSE "OSC"
             o == c \in AtBoot \cup started
  <2>1. r \in Nat
    BY <1>3
  <2>2. p \in AllClocks
    BY MovesAre DEF AtBoot
  <2>3. clk[c] = [on |-> o, parent |-> p, rate |-> r]
    BY <1>2
  <2>4. o \in BOOLEAN /\ (c \in AtBoot => o = TRUE)
    OBVIOUS
  <2> HIDE DEF r, p, o
  <2>5. clk[c].on = o /\ clk[c].parent = p
    BY <2>3
  <2>6. clk[c] \in [on : BOOLEAN, parent : AllClocks, rate : Nat]
    BY <2>1, <2>2, <2>3, <2>4
  <2> QED
    BY <2>4, <2>5, <2>6 DEF p
<1>5. clk \in ClkType
  <2>1. DOMAIN clk = AllClocks /\ clk = [c \in AllClocks |-> clk[c]]
    BY <1>2
  <2> QED
    BY <1>4, <2>1 DEF ClkType
<1>6. TreeInv
  <2>1. AtBoot \subseteq AllClocks /\ AtBoot \cap Pllc4Outs = {} /\ Pllc4Outs \subseteq AllClocks
        /\ "PLLC4_VCO" \in AllClocks /\ "PLLC4_VCO" \notin Pllc4Outs
        /\ TrackingIds \subseteq AllClocks /\ TrackingIds \cap Pllc4Outs = {}
    BY MovesAre DEF AtBoot, Pllc4Outs, TrackingIds
  <2>2. \A i \in Rows : Ufs(i) \in AllClocks /\ Ufs(i) \notin Pllc4Outs
    <3>1. \A i \in Rows : Ufs(i) \in AllClocks
      BY RowsFit
    <3>2. \A i \in Rows : Ufs(i) \notin Pllc4Outs
      BY DEF Rows, Ufs, UfsClocks, Row, Pllc4Outs
    <3> QED
      BY <3>1, <3>2
  <2> QED
    BY <1>4, <2>1, <2>2 DEF TreeInv
<1>7. Fits(call, todo)
  BY <1>1, FewFit
<1>8. TypeInv
  BY <1>1, <1>5, BoundsAssumption DEF TypeInv
<1>9. QspiInv
  BY <1>1 DEF QspiInv
<1> QED
  BY <1>1, <1>6, <1>7, <1>8, <1>9 DEF CoreInv, Running

\* The trees stay as they are.
LEMMA TreeStep ==
    ASSUME clk \in ClkType, TreeInv, NEW m \in Msgs, Frame(m)
    PROVE  TreeInv'
<1>1. m.cmd = "DISABLE" => m.id \in Switched
  BY MsgFields
<1>2. m.cmd = "SET_PARENT" => << m.id, m.arg >> \in Moves
  BY MsgFields
<1>3. m.cmd = "SET_PARENT" =>
        /\ m.id \notin AtBoot \cup Pllc4Outs \cup {"PLLC4_VCO"}
        /\ \A i \in Rows : m.id = Ufs(i) => m.arg = UfsClocks[i].parent
        /\ m.id \in TrackingIds => m.arg = "OSC"
  BY <1>2, MovesAre
<1>4. /\ AtBoot \cup TrackingIds \cup Pllc4Outs \cup {"PLLC4_VCO"} \subseteq AllClocks
      /\ Switched \cap AtBoot = {} /\ \A i \in Rows : Ufs(i) \in AllClocks
  BY MovesAre DEF UfsIds
<1>5. ASSUME NEW c \in AtBoot PROVE clk'[c].on /\ clk'[c].parent = "OSC"
  <2>1. c \in AllClocks /\ clk[c].on /\ clk[c].parent = "OSC"
    BY <1>4 DEF TreeInv
  <2>2. ~(m.id = c /\ m.cmd = "DISABLE") /\ ~(m.id = c /\ m.cmd = "SET_PARENT")
    BY <1>1, <1>3, <1>4
  <2>3. clk'[c].on
    BY <2>1, <2>2 DEF Frame
  <2>4. clk'[c].parent = "OSC"
    BY <2>1, <2>2 DEF Frame
  <2> QED
    BY <2>3, <2>4
<1>6. clk'["PLLC4_VCO"].parent = "OSC" /\ \A c \in Pllc4Outs : clk'[c].parent = "PLLC4_VCO"
  BY <1>3, <1>4 DEF TreeInv, Frame
<1>7. \A i \in Rows : clk'[Ufs(i)].parent \in {"OSC", UfsClocks[i].parent}
  BY <1>3, <1>4 DEF TreeInv, Frame
<1>8. \A c \in TrackingIds : clk'[c].parent = "OSC"
  BY <1>3, <1>4 DEF TreeInv, Frame
<1> QED
  BY <1>5, <1>6, <1>7, <1>8 DEF TreeInv

\* The first message, and the list when it is answered or not.
LEMMA FirstIs ==
    ASSUME CoreInv, Running
    PROVE  /\ todo \in Seq(Msgs) /\ todo # << >> /\ m0 \in Msgs /\ m0 = Head(todo) /\ result = "ok" /\ clk \in ClkType
           /\ Tail(todo) \in Seq(Msgs) /\ Fits(call, Tail(todo)) /\ Fits(call, << >>)
           /\ m0.cmd = "IS_ENABLED" => \A isOn \in BOOLEAN :
                 /\ Asked(isOn) \in {Tail(todo), Tail(Tail(todo)), << >>}
                 /\ Fits(call, Asked(isOn))
<1>1. todo \in Seq(Msgs) /\ todo # << >> /\ result = "ok" /\ clk \in ClkType /\ Fits(call, todo) /\ AskedIn(todo)
  BY DEF CoreInv, TypeInv, Running, Fits
<1>2. Fits(call, << >>)
  BY ShortFits
<1>3. m0 \in Msgs /\ Tail(todo) \in Seq(Msgs) /\ Fits(call, Tail(todo))
  BY <1>1, TailKeeps DEF m0
<1>4. ASSUME m0.cmd = "IS_ENABLED", NEW isOn \in BOOLEAN
      PROVE  /\ Asked(isOn) \in {Tail(todo), Tail(Tail(todo)), << >>}
             /\ Fits(call, Asked(isOn))
  <2>1. m0.arg \in {"skip if off", "done if on"}
    BY <1>3, <1>4, MsgFields
  <2>2. CASE m0.arg = "skip if off"
    <3>1. Tail(todo) # << >>
      BY <1>1, <1>4, <2>2, TailKeeps DEF m0
    <3>2. Fits(call, Tail(Tail(todo)))
      BY <1>3, <3>1, TailKeeps
    <3>3. Asked(isOn) = IF isOn THEN Tail(todo) ELSE Tail(Tail(todo))
      BY <2>2 DEF Asked
    <3> QED
      BY <1>3, <2>2, <3>1, <3>2, <3>3
  <2>3. CASE m0.arg = "done if on"
    <3>1. Asked(isOn) = IF isOn THEN << >> ELSE Tail(todo)
      BY <2>3 DEF Asked
    <3> QED
      BY <1>2, <1>3, <3>1
  <2> QED
    BY <2>1, <2>2, <2>3
<1> QED
  BY <1>1, <1>2, <1>3, <1>4 DEF m0
\* The stages of enable_qspi, by the message that is next.
QspiChoice == Local("ChooseParent", [src |-> call.id, divisor |-> call.arg])
QspiStage ==
    \/ m0 = Try("GET_RATE", "PLLC4_VCO", 0) /\ Tail(todo) = << QspiChoice >>
    \/ m0 = QspiChoice
    \/ \E p \in QspiParents(call.id) :
          \/ /\ m0 = Send("SET_PARENT", "QSPI", p)
             /\ Tail(todo) = << Send("GET_RATE", p, 0), Local("DeriveRate", call.arg) >>
          \/ /\ p \in AllClocks /\ clk["QSPI"].parent = p
             /\ \/ m0 = Send("GET_RATE", p, 0) /\ Tail(todo) = << Local("DeriveRate", call.arg) >>
                \/ m0 = Local("DeriveRate", call.arg) /\ got = RateOf(p)
                \/ m0 = Send("SET_RATE", "QSPI", QspiRate(p, call.arg)) /\ Tail(todo) = << Send("ENABLE", "QSPI", 0) >>
                \/ m0 = Send("ENABLE", "QSPI", 0) /\ Tail(todo) = << >> /\ clk["QSPI"].rate = QspiRate(p, call.arg)
LEMMA HeadIs ==
    /\ \A a : todo = << a >> => m0 = a /\ Tail(todo) = << >> /\ Running
    /\ \A a, b : todo = << a, b >> => m0 = a /\ Tail(todo) = << b >> /\ Running
    /\ \A a, b, c : todo = << a, b, c >> => m0 = a /\ Tail(todo) = << b, c >> /\ Running
<1>1. ASSUME NEW a, todo = << a >> PROVE m0 = a /\ Tail(todo) = << >> /\ Running
  BY <1>1, SMT DEF m0, Running
<1>2. ASSUME NEW a, NEW b, todo = << a, b >> PROVE m0 = a /\ Tail(todo) = << b >> /\ Running
  BY <1>2, SMT DEF m0, Running
<1>3. ASSUME NEW a, NEW b, NEW c, todo = << a, b, c >> PROVE m0 = a /\ Tail(todo) = << b, c >> /\ Running
  BY <1>3, SMT DEF m0, Running
<1> QED
  BY <1>1, <1>2, <1>3, Zenon

LEMMA QspiStages ==
    ASSUME CoreInv, Running, call.fn = "enable_qspi"
    PROVE  QspiStage /\ call.id \in QspiSources /\ call.arg \in Nat
<1>1. call.id \in QspiSources /\ call.arg \in Nat
  BY DEF CoreInv, TypeInv, InInterface
<1>2. /\ \A a : todo = << a >> => m0 = a /\ Tail(todo) = << >>
      /\ \A a, b : todo = << a, b >> => m0 = a /\ Tail(todo) = << b >>
      /\ \A a, b, c : todo = << a, b, c >> => m0 = a /\ Tail(todo) = << b, c >>
  BY HeadIs, Zenon
<1>3. EnableQspi(call.id, call.arg) =
        IF call.id = "PLLC4_MUXED" THEN << Try("GET_RATE", "PLLC4_VCO", 0), QspiChoice >> ELSE << QspiChoice >>
  <2> DEFINE g == Try("GET_RATE", "PLLC4_VCO", 0)
  <2>1. EnableQspi(call.id, call.arg) = (IF call.id = "PLLC4_MUXED" THEN << g >> ELSE << >>) \o << QspiChoice >>
    BY Zenon DEF EnableQspi, QspiChoice
  <2> HIDE DEF g
  <2>2. << g >> \o << QspiChoice >> = << g, QspiChoice >>
    BY Joined, Zenon
  <2>3. << >> \o << QspiChoice >> = << QspiChoice >>
    OBVIOUS
  <2> QED
    BY <2>1, <2>2, <2>3 DEF g
<1>4. result = "ok" /\ todo # << >>
  BY DEF CoreInv, Running
<1>5. \/ todo = EnableQspi(call.id, call.arg)
      \/ todo = << QspiChoice >>
      \/ \E p \in QspiParents(call.id) :
            \/ todo = << Send("SET_PARENT", "QSPI", p), Send("GET_RATE", p, 0), Local("DeriveRate", call.arg) >>
            \/ /\ p \in AllClocks /\ clk["QSPI"].parent = p
               /\ \/ todo = << Send("GET_RATE", p, 0), Local("DeriveRate", call.arg) >>
                  \/ todo = << Local("DeriveRate", call.arg) >> /\ got = RateOf(p)
                  \/ todo = << Send("SET_RATE", "QSPI", QspiRate(p, call.arg)), Send("ENABLE", "QSPI", 0) >>
                  \/ todo = << Send("ENABLE", "QSPI", 0) >> /\ clk["QSPI"].rate = QspiRate(p, call.arg)
  BY <1>4 DEF CoreInv, QspiInv, QspiChoice
<1>6. QspiStage
  <2>1. CASE todo = EnableQspi(call.id, call.arg) \/ todo = << QspiChoice >>
    <3>1. todo = << Try("GET_RATE", "PLLC4_VCO", 0), QspiChoice >> \/ todo = << QspiChoice >>
      BY <1>3, <2>1
    <3>2. (m0 = Try("GET_RATE", "PLLC4_VCO", 0) /\ Tail(todo) = << QspiChoice >>) \/ m0 = QspiChoice
      BY <1>2, <3>1, Zenon
    <3> QED
      BY <3>2 DEF QspiStage
  <2>2. ASSUME NEW p \in QspiParents(call.id),
               todo = << Send("SET_PARENT", "QSPI", p), Send("GET_RATE", p, 0), Local("DeriveRate", call.arg) >>
        PROVE  QspiStage
    <3>1. m0 = Send("SET_PARENT", "QSPI", p) /\ Tail(todo) = << Send("GET_RATE", p, 0), Local("DeriveRate", call.arg) >>
      BY <1>2, <2>2, Zenon
    <3> QED
      BY <3>1 DEF QspiStage
  <2>3. ASSUME NEW p \in QspiParents(call.id), p \in AllClocks, clk["QSPI"].parent = p,
               \/ todo = << Send("GET_RATE", p, 0), Local("DeriveRate", call.arg) >>
               \/ todo = << Local("DeriveRate", call.arg) >> /\ got = RateOf(p)
               \/ todo = << Send("SET_RATE", "QSPI", QspiRate(p, call.arg)), Send("ENABLE", "QSPI", 0) >>
               \/ todo = << Send("ENABLE", "QSPI", 0) >> /\ clk["QSPI"].rate = QspiRate(p, call.arg)
        PROVE  QspiStage
    <3>1. \/ m0 = Send("GET_RATE", p, 0) /\ Tail(todo) = << Local("DeriveRate", call.arg) >>
          \/ m0 = Local("DeriveRate", call.arg) /\ got = RateOf(p)
          \/ m0 = Send("SET_RATE", "QSPI", QspiRate(p, call.arg)) /\ Tail(todo) = << Send("ENABLE", "QSPI", 0) >>
          \/ m0 = Send("ENABLE", "QSPI", 0) /\ Tail(todo) = << >> /\ clk["QSPI"].rate = QspiRate(p, call.arg)
      BY <1>2, <2>3, Zenon
    <3> QED
      BY <2>3, <3>1 DEF QspiStage
  <2> QED
    BY <1>5, <2>1, <2>2, <2>3
<1> QED
  BY <1>1, <1>6

\* The rate that it computes is a number, and does not depend on QSPI itself.
LEMMA QspiRates ==
    ASSUME clk \in ClkType, NEW p \in AllClocks
    PROVE  /\ RateOf(p) \in Nat
           /\ \A divisor \in Nat : /\ QspiRate(p, divisor) \in Nat
                                   /\ RateOf(p) \div (DivRoundOff(divisor, 2) + 1) = QspiRate(p, divisor)
<1>1. \A c \in AllClocks : clk[c].rate \in Nat
  BY DEF ClkType
<1>2. "PLLC4_VCO" \in AllClocks
  BY MovesAre
<1>3. RateOf(p) \in Nat
  <2> DEFINE v == clk["PLLC4_VCO"].rate
             r == clk[p].rate
  <2>1. v \in Nat /\ r \in Nat
    BY <1>1, <1>2
  <2>2. RateOf(p) = CASE p = "PLLC4_OUT1" -> v \div 3 [] p = "PLLC4_OUT2" -> v \div 5
                      [] p = "PLLC4_VCO_DIV2" -> v \div 2 [] OTHER -> r
    BY DEF RateOf
  <2> HIDE DEF v, r
  <2>3. v \div 3 \in Nat /\ v \div 5 \in Nat /\ v \div 2 \in Nat
    BY <2>1
  <2> QED
    BY <2>1, <2>2, <2>3
<1>4. ASSUME NEW divisor \in Nat
      PROVE  /\ QspiRate(p, divisor) \in Nat
             /\ RateOf(p) \div (DivRoundOff(divisor, 2) + 1) = QspiRate(p, divisor)
  <2> DEFINE r == RateOf(p)
  <2>1. DivRoundOff(divisor, 2) = (divisor + 1) \div 2
    BY DEF DivRoundOff
  <2>2. (divisor + 1) \div 2 + 1 \in Nat \ {0}
    OBVIOUS
  <2> HIDE DEF r
  <2>3. \A d \in Nat \ {0} : r \div d \in Nat
    BY <1>3 DEF r
  <2>4. QspiRate(p, divisor) = r \div ((divisor + 1) \div 2 + 1)
    BY DEF QspiRate, r
  <2> QED
    BY <2>1, <2>2, <2>3, <2>4 DEF r
<1> QED
  BY <1>3, <1>4
\* What the first message may be, of those with conditions on the function.
LEMMA FirstFits ==
    ASSUME CoreInv, Running
    PROVE  /\ m0.cmd \in {"GET_RATE", "ChooseParent", "DeriveRate"} => call.fn = "enable_qspi"
           /\ \A i \in 4 .. 18 : m0.id = Ufs(i) =>
                 /\ m0.cmd \in {"ENABLE", "SET_PARENT"} => call.fn = "ufs_clock_init"
                 /\ m0.cmd = "DISABLE" => call.fn = "ufs_clock_deinit"
<1>1. todo \in Seq(Msgs) /\ todo # << >> /\ Fits(call, todo)
  BY DEF CoreInv, TypeInv, Running
<1>2. 1 \in DOMAIN todo /\ m0 = todo[1]
  BY <1>1 DEF m0
<1> QED
  BY <1>1, <1>2 DEF Fits, UfsOnlyIn, QspiOnlyIn

\* What is kept in every step but for the stages of QSPI.
Kept == TypeInv /\ (Running => result = "ok") /\ Fits(call, todo) /\ TreeInv

LEMMA CallKept ==
    ASSUME CoreInv, NEW c \in menu, Call(c)
    PROVE  Kept' /\ InInterface(c)
<1>1. menu \in Menus /\ clk' = clk /\ powered' = powered /\ device' = device /\ menu' = menu /\ lost' = lost
      /\ call' = c /\ calls' = calls + 1 /\ calls < MaxCalls /\ got' = -1 /\ result' = "ok"
  BY DEF Call, CoreInv, TypeInv, bpmp
<1>2. InInterface(c)
  BY <1>1, MenusAssumption
<1>3. Fits(c, ToDo(c)) /\ Fits(c, << >>)
  BY <1>2, ToDoFits, ShortFits
<1>4. todo' \in {ToDo(c), << >>}
  BY DEF Call
<1>5. muxed' \in Nat
  <2>1. muxed' = muxed \/ (c.fn = "set_clk_src_rate" /\ muxed' = c.arg)
    BY DEF Call
  <2>2. c.fn = "set_clk_src_rate" => c.arg \in Nat
    BY <1>2 DEF InInterface
  <2> QED
    BY <2>1, <2>2 DEF CoreInv, TypeInv
<1>6. Fits(call, todo)'
  BY <1>1, <1>3, <1>4
<1>7. calls' \in 0 .. MaxCalls
  BY <1>1, BoundsAssumption DEF CoreInv, TypeInv
<1>8. TypeInv'
  BY <1>1, <1>2, <1>5, <1>6, <1>7 DEF CoreInv, TypeInv, Fits
<1>9. TreeInv'
  BY <1>1 DEF CoreInv, TreeInv
<1> QED
  BY <1>1, <1>2, <1>6, <1>8, <1>9 DEF Kept

\* What an answer or a missing answer does to the list.
LEMMA ListKept ==
    ASSUME CoreInv, Running, NEW isOn \in BOOLEAN,
           \/ todo' = << >>
           \/ m0.cmd = "IS_ENABLED" /\ todo' = Asked(isOn)
           \/ m0.cmd # "IS_ENABLED" /\ todo' = Tail(todo)
    PROVE  Fits(call, todo')
BY FirstIs

LEMMA AnsweredKept ==
    ASSUME CoreInv, Answered
    PROVE  Kept' /\ Frame(m0) /\ m0 \in Msgs
<1>1. Running /\ ~Refused(m0) /\ Obeyed(m0)
  BY DEF Answered
<1>2. m0 \in Msgs /\ clk \in ClkType /\ result = "ok"
  BY <1>1, FirstIs
<1>3. Frame(m0)
  BY <1>1, <1>2, ObeyedFrame
<1>4. TreeInv'
  BY <1>2, <1>3, TreeStep DEF CoreInv
<1>5. /\ device' = device /\ muxed' = muxed /\ result' = result /\ lost' = lost
      /\ calls' = calls /\ menu' = menu /\ call' = call
  BY DEF Answered, Ghosts
<1>6. Fits(call, todo)'
  <2>1. clk[m0.id].on \in BOOLEAN \/ m0.cmd # "IS_ENABLED"
    BY <1>2, MsgFields DEF ClkType
  <2>2. todo' = IF m0.cmd = "IS_ENABLED" THEN Asked(clk[m0.id].on) ELSE Tail(todo)
    BY DEF Answered
  <2>3. Fits(call, todo')
    <3>1. CASE m0.cmd = "IS_ENABLED"
      BY <1>1, <2>1, <2>2, <3>1, ListKept
    <3>2. CASE m0.cmd # "IS_ENABLED"
      BY <1>1, <2>2, <3>2, ListKept
    <3> QED
      BY <3>1, <3>2
  <2> QED
    BY <1>5, <2>3
<1>7. got' \in Nat \cup {-1}
  <2>1. CASE m0.cmd = "GET_RATE"
    <3>1. call.fn = "enable_qspi"
      BY <1>1, <2>1, FirstFits
    <3>2. QspiStage
      BY <1>1, <3>1, QspiStages
    <3>3. m0.id \in AllClocks
      <4>1. "PLLC4_VCO" \in AllClocks
        BY MovesAre
      <4> QED
        BY <2>1, <3>2, <4>1 DEF QspiStage, QspiChoice, Send, Try, Local, Message
    <3>4. got' = RateOf(m0.id)
      BY <2>1 DEF Answered
    <3> QED
      BY <1>2, <3>3, <3>4, QspiRates
  <2>2. CASE m0.cmd # "GET_RATE"
    BY <2>2 DEF Answered, CoreInv, TypeInv
  <2> QED
    BY <2>1, <2>2
<1>8. powered' \subseteq ToSet(DisplayDomains)
  <2>1. m0.cmd = "POWER_ON" => m0.id \in ToSet(DisplayDomains)
    BY <1>2, MsgFields
  <2>2. powered' \subseteq powered \cup (IF m0.cmd = "POWER_ON" THEN {m0.id} ELSE {})
    BY <1>1 DEF Obeyed
  <2> QED
    BY <2>1, <2>2 DEF CoreInv, TypeInv
<1>9. TypeInv'
  BY <1>3, <1>5, <1>6, <1>7, <1>8 DEF CoreInv, TypeInv, Fits, Frame
<1> QED
  BY <1>2, <1>3, <1>4, <1>5, <1>6, <1>9 DEF Kept

LEMMA UnansweredKept ==
    ASSUME CoreInv, Unanswered
    PROVE  /\ Kept' /\ m0 \in Msgs /\ (Frame(m0) \/ clk' = clk)
           /\ m0.cmd # "IS_ENABLED" /\ ~m0.must => todo' = Tail(todo)
           /\ m0.must => todo' = << >> /\ result' = "error"
<1>1. Running
  BY DEF Unanswered
<1>2. m0 \in Msgs /\ clk \in ClkType /\ result = "ok"
  BY <1>1, FirstIs
<1>3. (~Refused(m0) /\ Obeyed(m0)) \/ (clk' = clk /\ powered' = powered)
  BY Zenon DEF Unanswered, bpmp
<1>4. Frame(m0) \/ clk' = clk
  BY <1>2, <1>3, ObeyedFrame
<1>5. TreeInv' /\ clk' \in ClkType
  <2>1. CASE Frame(m0)
    BY <1>2, <2>1, TreeStep DEF CoreInv, Frame
  <2>2. CASE clk' = clk
    BY <1>2, <2>2 DEF CoreInv, TreeInv
  <2> QED
    BY <1>4, <2>1, <2>2
<1>6. /\ device' = device /\ muxed' = muxed /\ got' = got
      /\ calls' = calls /\ menu' = menu /\ call' = call
  BY DEF Unanswered, Ghosts
<1>7. m0.must \in BOOLEAN /\ (m0.cmd = "IS_ENABLED" => ~m0.must)
  BY <1>2, MsgFields
<1>8. /\ m0.must => todo' = << >>
      /\ ~m0.must /\ m0.cmd = "IS_ENABLED" => todo' = Asked(FALSE)
      /\ ~m0.must /\ m0.cmd # "IS_ENABLED" => todo' = Tail(todo)
      /\ result' = IF m0.must THEN "error" ELSE result
  BY <1>7 DEF Unanswered
<1>9. Fits(call, todo)'
  <2>1. Fits(call, todo')
    <3>1. FALSE \in BOOLEAN
      OBVIOUS
    <3>2. \/ todo' = << >>
          \/ m0.cmd = "IS_ENABLED" /\ todo' = Asked(FALSE)
          \/ m0.cmd # "IS_ENABLED" /\ todo' = Tail(todo)
      BY <1>7, <1>8
    <3> QED
      BY <1>1, <3>1, <3>2, ListKept
  <2> QED
    BY <1>6, <2>1
<1>10. lost' \in 0 .. MaxLost
  <2>1. lost' = lost \/ (lost < MaxLost /\ lost' = lost + 1)
    BY DEF Unanswered
  <2> QED
    BY <2>1, BoundsAssumption DEF CoreInv, TypeInv
<1>11. powered' \subseteq ToSet(DisplayDomains)
  <2>1. m0.cmd = "POWER_ON" => m0.id \in ToSet(DisplayDomains)
    BY <1>2, MsgFields
  <2>2. powered' \subseteq powered \cup (IF m0.cmd = "POWER_ON" THEN {m0.id} ELSE {})
    BY <1>3 DEF Obeyed
  <2> QED
    BY <2>1, <2>2 DEF CoreInv, TypeInv
<1>12. result' \in {"ok", "error"} /\ (todo' # << >> => result' = "ok")
  BY <1>2, <1>7, <1>8
<1>13. TypeInv'
  BY <1>5, <1>6, <1>9, <1>10, <1>11, <1>12 DEF CoreInv, TypeInv, Fits
<1> QED
  BY <1>2, <1>4, <1>5, <1>7, <1>8, <1>9, <1>12, <1>13 DEF Kept, Running
LEMMA ParentsAre ==
    ASSUME NEW src \in QspiSources
    PROVE  Parents(src) \subseteq QspiParents(src) /\ QspiParents(src) \subseteq Pllc4Outs \cup {"GPU", "PLLP_OUT0"}
BY DEF Parents, QspiParents, QspiSources, Pllc4Outs

LEMMA LocalKept ==
    ASSUME CoreInv, ChooseParent \/ DeriveRate \/ Refuse \/ WriteDevice
    PROVE  Kept' /\ clk' = clk /\ m0 \in Msgs
<1>1. Running
  BY DEF ChooseParent, DeriveRate, Refuse, WriteDevice
<1>2. m0 \in Msgs /\ clk \in ClkType /\ result = "ok" /\ Fits(call, Tail(todo)) /\ Fits(call, << >>)
  BY <1>1, FirstIs
<1>3. /\ clk' = clk /\ powered' = powered /\ muxed' = muxed /\ got' = got /\ lost' = lost
      /\ calls' = calls /\ menu' = menu /\ call' = call
  BY DEF ChooseParent, DeriveRate, Refuse, WriteDevice, bpmp, Ghosts
<1>4. TreeInv'
  BY <1>3 DEF CoreInv, TreeInv
<1>5. device' \subseteq Parts
  <2>1. m0.cmd \in {"Join", "Part"} => m0.arg \in Parts
    BY <1>2, MsgFields
  <2> QED
    BY <2>1 DEF ChooseParent, DeriveRate, Refuse, WriteDevice, CoreInv, TypeInv
<1>6. CASE ChooseParent
  <2>1. PICK parent \in Parents(m0.arg.src) :
          todo' = << Send("SET_PARENT", "QSPI", parent), Send("GET_RATE", parent, 0), Local("DeriveRate", m0.arg.divisor) >>
    BY <1>6 DEF ChooseParent
  <2>2. m0.cmd = "ChooseParent" /\ result' = result
    BY <1>6 DEF ChooseParent
  <2>3. call.fn = "enable_qspi" /\ m0.arg.src \in QspiSources /\ m0.arg.divisor \in Nat
    BY <1>1, <1>2, <2>2, FirstFits, MsgFields
  <2>4. parent \in AllClocks \cup {"GPU"}
    <3>1. parent \in Pllc4Outs \cup {"GPU", "PLLP_OUT0"}
      BY <2>3, ParentsAre
    <3> QED
      BY <3>1, MovesAre DEF AtBoot
  <2>5. Plain(call, Send("SET_PARENT", "QSPI", parent))
    <3>1. << "QSPI", parent >> \in Moves
      BY <2>4, MovesAre DEF Moves
    <3>2. Message("SET_PARENT", "QSPI", parent, TRUE) \in Msgs
      BY <3>1, MsgsAre
    <3>3. \A i \in 4 .. 18 : "QSPI" # Ufs(i)
      BY UfsApart DEF UfsIds, Rows
    <3> QED
      BY <3>2, <3>3, PlainIs DEF Send
  <2>6. Plain(call, Send("GET_RATE", parent, 0))
    <3>1. Message("GET_RATE", parent, 0, TRUE) \in Msgs
      BY <2>4, MsgsAre
    <3> QED
      BY <2>3, <3>1, PlainIs DEF Send
  <2>7. Plain(call, Local("DeriveRate", m0.arg.divisor))
    <3>1. Message("DeriveRate", "none", m0.arg.divisor, TRUE) \in Msgs
      BY <2>3, MsgsAre
    <3> QED
      BY <2>3, <3>1, PlainIs DEF Local
  <2>8. Fits(call, todo)'
    BY <1>3, <2>1, <2>5, <2>6, <2>7, ShortFits, Zenon
  <2>9. TypeInv'
    BY <1>2, <1>3, <1>5, <2>2, <2>8 DEF CoreInv, TypeInv, Fits
  <2> QED
    BY <1>2, <1>3, <1>4, <2>2, <2>8, <2>9 DEF Kept
<1>7. CASE DeriveRate
  <2>1. todo' = << Send("SET_RATE", "QSPI", got \div (DivRoundOff(m0.arg, 2) + 1)), Send("ENABLE", "QSPI", 0) >>
        /\ m0.cmd = "DeriveRate" /\ result' = result
    BY <1>7 DEF DeriveRate
  <2>2. call.fn = "enable_qspi"
    BY <1>1, <2>1, FirstFits
  <2>3. QspiStage /\ call.arg \in Nat
    BY <1>1, <2>2, QspiStages
  <2>4. PICK p \in AllClocks : got = RateOf(p) /\ m0.arg = call.arg
    BY <2>1, <2>3 DEF QspiStage, QspiChoice, Send, Try, Local, Message
  <2> DEFINE rate == got \div (DivRoundOff(m0.arg, 2) + 1)
  <2>5. rate \in Nat
    BY <1>2, <2>3, <2>4, QspiRates
  <2>6. "QSPI" \in AllClocks /\ \A i \in 4 .. 18 : "QSPI" # Ufs(i)
    BY MovesAre, UfsApart DEF UfsIds, Rows, Switched
  <2> HIDE DEF rate
  <2>7. Plain(call, Send("SET_RATE", "QSPI", rate))
    <3>1. Message("SET_RATE", "QSPI", rate, TRUE) \in Msgs
      BY <2>5, <2>6, MsgsAre
    <3> QED
      BY <3>1, PlainIs DEF Send
  <2>8. Plain(call, Send("ENABLE", "QSPI", 0))
    <3>1. Message("ENABLE", "QSPI", 0, TRUE) \in Msgs
      BY <2>6, MsgsAre
    <3> QED
      BY <2>6, <3>1, PlainIs DEF Send
  <2>9. Fits(call, todo)'
    <3>1. Fits(call, << Send("SET_RATE", "QSPI", rate), Send("ENABLE", "QSPI", 0) >>)
      BY <2>7, <2>8, ShortFits, Zenon
    <3> QED
      BY <1>3, <2>1, <3>1 DEF rate
  <2>10. TypeInv'
    BY <1>2, <1>3, <1>5, <2>1, <2>9 DEF CoreInv, TypeInv, Fits
  <2> QED
    BY <1>2, <1>3, <1>4, <2>1, <2>9, <2>10 DEF Kept
<1>8. CASE Refuse \/ WriteDevice
  <2>1. \/ todo' = << >> /\ result' = "error"
        \/ todo' = Tail(todo) /\ result' = result
    BY <1>8 DEF Refuse, WriteDevice
  <2>2. Fits(call, todo)'
    BY <1>2, <1>3, <2>1
  <2>3. TypeInv'
    BY <1>2, <1>3, <1>5, <2>1, <2>2 DEF CoreInv, TypeInv, Fits
  <2> QED
    BY <1>2, <1>3, <1>4, <2>1, <2>2, <2>3 DEF Kept, Running
<1> QED
  BY <1>2, <1>3, <1>6, <1>7, <1>8

\* The stages of enable_qspi follow each other.
LEMMA QspiStep ==
    ASSUME CoreInv, Next
    PROVE  QspiInv'
<1>0. QspiInv /\ clk \in ClkType
  BY DEF CoreInv, TypeInv
<1>1. ASSUME NEW c \in menu, Call(c) PROVE QspiInv'
  <2>1. call' = c
    BY <1>1 DEF Call
  <2>2. c.fn = "enable_qspi" => todo' = EnableQspi(c.id, c.arg)
    BY <1>1 DEF Call, ToDo
  <2> QED
    BY <2>1, <2>2 DEF QspiInv
<1>2. ASSUME Answered, call.fn = "enable_qspi" PROVE QspiInv'
  <2>2. call' = call /\ Running /\ IsMessage(m0)
    BY <1>2 DEF Answered, Ghosts
  <2>3. QspiStage /\ call.id \in QspiSources /\ call.arg \in Nat
    BY <1>2, <2>2, QspiStages
  <2>4. Frame(m0) /\ ~Refused(m0) /\ todo' = IF m0.cmd = "IS_ENABLED" THEN Asked(clk[m0.id].on) ELSE Tail(todo)
    BY <1>2, AnsweredKept DEF Answered
  <2>5. ASSUME m0 = Try("GET_RATE", "PLLC4_VCO", 0), Tail(todo) = << QspiChoice >> PROVE QspiInv'
    <3>1. m0.cmd = "GET_RATE"
      BY <2>5 DEF Try, Message
    <3>2. todo' = << QspiChoice >>
      BY <2>4, <2>5, <3>1
    <3> QED
      BY <2>2, <3>2 DEF QspiInv, QspiChoice
  <2>6. m0 # QspiChoice
    BY <2>2 DEF IsMessage, QspiChoice, Local, Message
  <2>7. ASSUME NEW p \in QspiParents(call.id), m0 = Send("SET_PARENT", "QSPI", p),
               Tail(todo) = << Send("GET_RATE", p, 0), Local("DeriveRate", call.arg) >>
        PROVE  QspiInv'
    <3>1. m0.cmd = "SET_PARENT" /\ m0.id = "QSPI" /\ m0.arg = p
      BY <2>7 DEF Send, Message
    <3>2. p \in AllClocks /\ clk'["QSPI"].parent = p
      BY <2>4, <3>1 DEF Frame
    <3>3. todo' = << Send("GET_RATE", p, 0), Local("DeriveRate", call.arg) >>
      BY <2>4, <2>7, <3>1
    <3> QED
      BY <2>2, <3>2, <3>3 DEF QspiInv
  <2>8. ASSUME NEW p \in QspiParents(call.id), p \in AllClocks, clk["QSPI"].parent = p,
               \/ m0 = Send("GET_RATE", p, 0) /\ Tail(todo) = << Local("DeriveRate", call.arg) >>
               \/ m0 = Local("DeriveRate", call.arg) /\ got = RateOf(p)
               \/ m0 = Send("SET_RATE", "QSPI", QspiRate(p, call.arg)) /\ Tail(todo) = << Send("ENABLE", "QSPI", 0) >>
               \/ m0 = Send("ENABLE", "QSPI", 0) /\ Tail(todo) = << >> /\ clk["QSPI"].rate = QspiRate(p, call.arg)
        PROVE  QspiInv'
    <3>1. m0 # Local("DeriveRate", call.arg)
      BY <2>2 DEF IsMessage, Local, Message
    <3>2. "QSPI" \in AllClocks
      BY MovesAre DEF Switched
    <3>3. "QSPI" \notin Above(p) /\ "QSPI" \notin Above("PLLC4_VCO")
      <4> DEFINE S == Pllc4Outs \cup {"PLLP_OUT0", "PLLC4_VCO", "OSC"}
      <4>1. p \in S /\ "PLLC4_VCO" \in S
        BY <2>3, <2>8, ParentsAre, MovesAre
      <4>2. Closed(S)
        BY DEF Closed, CoreInv, TreeInv, AtBoot
      <4>3. "QSPI" \notin S
        BY DEF Pllc4Outs
      <4> HIDE DEF S
      <4> QED
        BY <4>1, <4>2, <4>3, AboveClosed
    <3>4. m0.id = "QSPI" \/ m0.cmd \notin {"SET_RATE", "SET_PARENT"} =>
            RateOf(p)' = RateOf(p) /\ QspiRate(p, call.arg)' = QspiRate(p, call.arg)
      <4> SUFFICES ASSUME m0.id = "QSPI" \/ m0.cmd \notin {"SET_RATE", "SET_PARENT"}
                   PROVE  RateOf(p)' = RateOf(p) /\ QspiRate(p, call.arg)' = QspiRate(p, call.arg)
        OBVIOUS
      <4>1. clk'[p].rate = clk[p].rate /\ clk'["PLLC4_VCO"].rate = clk["PLLC4_VCO"].rate
        BY <2>4, <2>8, <3>3, MovesAre DEF Frame
      <4>2. RateOf(p)' = RateOf(p)
        BY <4>1 DEF RateOf
      <4> QED
        BY <2>2, <4>2 DEF QspiRate
    <3>5. CASE m0 = Send("GET_RATE", p, 0) /\ Tail(todo) = << Local("DeriveRate", call.arg) >>
      <4>1. m0.cmd = "GET_RATE" /\ m0.id = p
        BY <3>5 DEF Send, Message
      <4>2. todo' = << Local("DeriveRate", call.arg) >> /\ got' = RateOf(p)
        BY <1>2, <2>4, <3>5, <4>1 DEF Answered
      <4>3. clk'["QSPI"].parent = p /\ RateOf(p)' = RateOf(p)
        BY <2>4, <2>8, <3>2, <3>4, <4>1 DEF Frame
      <4> QED
        BY <2>2, <2>8, <4>2, <4>3 DEF QspiInv
    <3>6. CASE m0 = Send("SET_RATE", "QSPI", QspiRate(p, call.arg)) /\ Tail(todo) = << Send("ENABLE", "QSPI", 0) >>
      <4>1. m0.cmd = "SET_RATE" /\ m0.id = "QSPI" /\ m0.arg = QspiRate(p, call.arg)
        BY <3>6 DEF Send, Message
      <4>2. todo' = << Send("ENABLE", "QSPI", 0) >>
        BY <2>4, <3>6, <4>1
      <4>3. clk'["QSPI"].parent = p /\ clk'["QSPI"].rate = QspiRate(p, call.arg)'
        BY <2>4, <2>8, <3>2, <3>4, <4>1 DEF Frame
      <4> QED
        BY <2>2, <2>8, <4>2, <4>3 DEF QspiInv
    <3>7. CASE m0 = Send("ENABLE", "QSPI", 0) /\ Tail(todo) = << >> /\ clk["QSPI"].rate = QspiRate(p, call.arg)
      <4>1. m0.cmd = "ENABLE" /\ m0.id = "QSPI"
        BY <3>7 DEF Send, Message
      <4>2. todo' = << >>
        BY <2>4, <3>7, <4>1
      <4>3. clk'["QSPI"].parent = p /\ clk'["QSPI"].rate = QspiRate(p, call.arg)' /\ clk'["QSPI"].on
        BY <2>4, <2>8, <3>2, <3>4, <3>7, <4>1 DEF Frame
      <4> QED
        BY <2>2, <2>8, <4>2, <4>3 DEF QspiInv
    <3> QED
      BY <2>8, <3>1, <3>5, <3>6, <3>7
  <2> QED
    BY <2>3, <2>5, <2>6, <2>7, <2>8 DEF QspiStage
<1>3. ASSUME Unanswered, call.fn = "enable_qspi" PROVE QspiInv'
  <2>1. Running /\ call' = call
    BY <1>3 DEF Unanswered, Ghosts
  <2>2. QspiStage
    BY <1>3, <2>1, QspiStages
  <2>3. m0.must \/ (m0 = Try("GET_RATE", "PLLC4_VCO", 0) /\ Tail(todo) = << QspiChoice >>)
    BY <2>2 DEF QspiStage, QspiChoice, Send, Local, Message
  <2>4. CASE m0.must
    BY <1>3, <2>4, UnansweredKept DEF QspiInv
  <2>5. CASE m0 = Try("GET_RATE", "PLLC4_VCO", 0) /\ Tail(todo) = << QspiChoice >>
    <3>1. m0.cmd = "GET_RATE" /\ ~m0.must
      BY <2>5 DEF Try, Message
    <3>2. todo' = << QspiChoice >>
      BY <1>3, <2>5, <3>1, UnansweredKept
    <3> QED
      BY <2>1, <3>2 DEF QspiInv, QspiChoice
  <2> QED
    BY <2>3, <2>4, <2>5
<1>4. ASSUME ChooseParent, call.fn = "enable_qspi" PROVE QspiInv'
  <2>1. Running /\ call' = call /\ m0.cmd = "ChooseParent"
    BY <1>4 DEF ChooseParent, Ghosts
  <2>2. QspiStage /\ call.id \in QspiSources
    BY <1>4, <2>1, QspiStages
  <2>3. m0 = QspiChoice
    BY <2>1, <2>2 DEF QspiStage, Send, Try, Local, Message
  <2>4. m0.arg.src = call.id /\ m0.arg.divisor = call.arg
    BY <2>3 DEF QspiChoice, Local, Message
  <2>5. PICK p \in Parents(call.id) :
          todo' = << Send("SET_PARENT", "QSPI", p), Send("GET_RATE", p, 0), Local("DeriveRate", call.arg) >>
    BY <1>4, <2>4 DEF ChooseParent
  <2>6. p \in QspiParents(call.id)
    BY <2>2, ParentsAre
  <2> QED
    BY <2>1, <2>5, <2>6 DEF QspiInv
<1>5. ASSUME DeriveRate, call.fn = "enable_qspi" PROVE QspiInv'
  <2>1. Running /\ call' = call /\ m0.cmd = "DeriveRate" /\ clk' = clk
        /\ todo' = << Send("SET_RATE", "QSPI", got \div (DivRoundOff(m0.arg, 2) + 1)), Send("ENABLE", "QSPI", 0) >>
    BY <1>5 DEF DeriveRate, Ghosts, bpmp
  <2>2. QspiStage /\ call.arg \in Nat
    BY <1>5, <2>1, QspiStages
  <2>3. PICK p \in QspiParents(call.id) :
          p \in AllClocks /\ clk["QSPI"].parent = p /\ m0 = Local("DeriveRate", call.arg) /\ got = RateOf(p)
    BY <2>1, <2>2 DEF QspiStage, QspiChoice, Send, Try, Local, Message
  <2>4. m0.arg = call.arg
    BY <2>3 DEF Local, Message
  <2>5. todo' = << Send("SET_RATE", "QSPI", QspiRate(p, call.arg)), Send("ENABLE", "QSPI", 0) >>
    BY <1>0, <2>1, <2>2, <2>3, <2>4, QspiRates
  <2>6. QspiRate(p, call.arg)' = QspiRate(p, call.arg)
    BY <2>1 DEF QspiRate, RateOf
  <2> QED
    BY <2>1, <2>3, <2>5, <2>6 DEF QspiInv
<1>6. ASSUME Refuse PROVE QspiInv'
  BY <1>6 DEF Refuse, QspiInv
<1>7. ASSUME WriteDevice, call.fn = "enable_qspi" PROVE QspiInv'
  <2>1. Running /\ m0.cmd \in {"Join", "Part"}
    BY <1>7 DEF WriteDevice
  <2>2. QspiStage
    BY <1>7, <2>1, QspiStages
  <2>3. m0.cmd \in {"GET_RATE", "ChooseParent", "SET_PARENT", "DeriveRate", "SET_RATE", "ENABLE"}
    BY <2>2 DEF QspiStage, QspiChoice, Send, Try, Local, Message
  <2> QED
    BY <2>1, <2>3
<1>8. ASSUME call.fn # "enable_qspi", call' = call PROVE QspiInv'
  BY <1>8 DEF QspiInv
<1>9. Answered \/ Unanswered \/ ChooseParent \/ DeriveRate \/ WriteDevice => call' = call
  BY DEF Answered, Unanswered, ChooseParent, DeriveRate, WriteDevice, Ghosts
<1> QED
  BY <1>1, <1>2, <1>3, <1>4, <1>5, <1>6, <1>7, <1>8, <1>9 DEF Next
LEMMA CoreStep == CoreInv /\ [Next]_vars => CoreInv'
<1> SUFFICES ASSUME CoreInv, [Next]_vars PROVE CoreInv'
  OBVIOUS
<1>1. ASSUME UNCHANGED vars PROVE CoreInv'
  <2>1. /\ clk' = clk /\ powered' = powered /\ device' = device /\ muxed' = muxed /\ menu' = menu /\ call' = call
        /\ todo' = todo /\ got' = got /\ result' = result /\ calls' = calls /\ lost' = lost /\ unheard' = unheard
        /\ unsure' = unsure /\ released' = released /\ before' = before
    BY <1>1 DEF vars, bpmp
  <2>2. TypeInv' /\ TreeInv' /\ Fits(call, todo)'
    BY <2>1 DEF CoreInv, TypeInv, TreeInv
  <2>3. QspiInv'
    BY <2>1 DEF CoreInv, QspiInv, QspiRate, RateOf
  <2> QED
    BY <2>1, <2>2, <2>3 DEF CoreInv, Running
<1>2. ASSUME Next PROVE CoreInv'
  <2>1. QspiInv'
    BY <1>2, QspiStep
  <2>2. Kept'
    BY <1>2, CallKept, AnsweredKept, UnansweredKept, LocalKept DEF Next
  <2> QED
    BY <2>1, <2>2 DEF Kept, CoreInv
<1> QED
  BY <1>1, <1>2

\* The types, for every use of the interface: so every divisor, parent and rate of
\* the driver is one that the BPMP knows.
THEOREM CoreIsInvariant == Spec => []CoreInv
BY CoreInit, CoreStep, PTL DEF Spec

\* TypeOK: the variables have their types, and the bounds hold.
THEOREM TypeIsCorrect == Spec => []TypeOK
<1>1. CoreInv => TypeOK
  BY DEF CoreInv, TypeInv, ClkType, Clocks, Parts, TypeOK
<1> QED
  BY <1>1, CoreIsInvariant, PTL

---------------------------------------------------------------------------
(* How a step that is not a call goes on.                                  *)

Step == Answered \/ Unanswered \/ ChooseParent \/ DeriveRate \/ Refuse \/ WriteDevice
Heard ==
    /\ Obeyed(m0) /\ Frame(m0) /\ result' = result /\ unheard' = unheard /\ device' = device
    /\ todo' = IF m0.cmd = "IS_ENABLED" THEN Asked(clk[m0.id].on) ELSE Tail(todo)
    /\ unsure' = IF m0.cmd \in {"ENABLE", "DISABLE"} THEN unsure \ {m0.id} ELSE unsure
Missed ==
    /\ Frame(m0) \/ clk' = clk
    /\ unheard' = unheard \cup {<< m0.cmd, m0.id >>} /\ device' = device
    /\ todo' = IF m0.must THEN << >> ELSE IF m0.cmd = "IS_ENABLED" THEN Asked(FALSE) ELSE Tail(todo)
    /\ result' = IF m0.must THEN "error" ELSE result
    /\ unsure' = IF m0.cmd \in {"ENABLE", "DISABLE", "IS_ENABLED"} THEN unsure \cup {m0.id} ELSE unsure
LEMMA StepIs ==
    ASSUME CoreInv, Step
    PROVE  /\ Running /\ m0 \in Msgs /\ result = "ok"
           /\ call' = call /\ before' = before /\ muxed' = muxed
           /\ IsMessage(m0) => Heard \/ Missed
           /\ ~IsMessage(m0) => clk' = clk /\ unheard' = unheard /\ released' = released /\ unsure' = unsure
           /\ m0.cmd = "NotSupported" => result' = "error"
           /\ m0.cmd \in {"NotSupported", "Join", "Part"} => todo' \in {Tail(todo), << >>}
           /\ m0.cmd = "Join" => todo' = Tail(todo) /\ device' = device \cup {m0.arg}
<1>1. Running
  BY DEF Step, Answered, Unanswered, ChooseParent, DeriveRate, Refuse, WriteDevice
<1>2. m0 \in Msgs /\ result = "ok"
  BY <1>1, FirstIs
<1>3. call' = call /\ before' = before /\ muxed' = muxed
  BY DEF Step, Answered, Unanswered, ChooseParent, DeriveRate, Refuse, WriteDevice, Ghosts
<1>4. ASSUME IsMessage(m0) PROVE Heard \/ Missed
  <2>1. Answered \/ Unanswered
    BY <1>4 DEF Step, ChooseParent, DeriveRate, Refuse, WriteDevice, IsMessage
  <2>2. CASE Answered
    <3>1. Frame(m0)
      BY <2>2, AnsweredKept
    <3> QED
      BY <2>2, <3>1 DEF Answered, Heard
  <2>3. CASE Unanswered
    <3>1. Frame(m0) \/ clk' = clk
      BY <2>3, UnansweredKept
    <3>2. m0.must \in BOOLEAN /\ (m0.cmd = "IS_ENABLED" => ~m0.must)
      BY <1>2, MsgFields
    <3>3. todo' = IF m0.must THEN << >> ELSE IF m0.cmd = "IS_ENABLED" THEN Asked(FALSE) ELSE Tail(todo)
      BY <2>3, <3>2 DEF Unanswered
    <3> QED
      BY <2>3, <3>1, <3>3 DEF Unanswered, Missed
  <2> QED
    BY <2>1, <2>2, <2>3
<1>5. ASSUME ~IsMessage(m0)
      PROVE  /\ clk' = clk /\ unheard' = unheard /\ released' = released /\ unsure' = unsure
             /\ m0.cmd = "NotSupported" => result' = "error"
             /\ m0.cmd \in {"NotSupported", "Join", "Part"} => todo' \in {Tail(todo), << >>}
             /\ m0.cmd = "Join" => todo' = Tail(todo) /\ device' = device \cup {m0.arg}
  <2>1. ChooseParent \/ DeriveRate \/ Refuse \/ WriteDevice
    BY <1>5 DEF Step, Answered, Unanswered
  <2> QED
    BY <2>1 DEF ChooseParent, DeriveRate, Refuse, WriteDevice, bpmp
<1>6. m0.cmd \in {"NotSupported", "Join", "Part"} => ~IsMessage(m0)
  BY DEF IsMessage
<1> QED
  BY <1>1, <1>2, <1>3, <1>4, <1>5, <1>6

\* A call that is refused ends with an error.
LEMMA RefusedStep ==
    ASSUME CoreInv, Step, todo = NotSupported
    PROVE  result' = "error"
<1>1. m0 = Local("NotSupported", "none")
  BY HeadIs DEF NotSupported
<1>2. m0.cmd = "NotSupported"
  BY <1>1 DEF Local, Message
<1> QED
  BY <1>2, StepIs

\* The fields of what is sent.
LEMMA Fields ==
    \A cmd, id, arg :
        /\ Send(cmd, id, arg).cmd = cmd /\ Send(cmd, id, arg).id = id /\ Send(cmd, id, arg).arg = arg
        /\ Send(cmd, id, arg).must = TRUE
        /\ Try(cmd, id, arg).cmd = cmd /\ Try(cmd, id, arg).id = id /\ Try(cmd, id, arg).arg = arg
        /\ Try(cmd, id, arg).must = FALSE
BY DEF Send, Try, Message

\* An order that must be answered is obeyed, or the call ends with an error.
LEMMA SendStep ==
    ASSUME CoreInv, Step, NEW cmd, NEW id, NEW arg, m0 = Send(cmd, id, arg),
           cmd \in {"ENABLE", "DISABLE", "SET_PARENT", "SET_RATE"}
    PROVE  \/ result' = "error"
           \/ /\ Frame(m0) /\ unheard' = unheard /\ todo' = Tail(todo) /\ id \in AllClocks
              /\ cmd = "ENABLE" => clk'[id].on
              /\ cmd = "DISABLE" => ~clk'[id].on
              /\ cmd = "SET_PARENT" => clk'[id].parent = arg
              /\ cmd = "SET_RATE" => clk'[id].rate = arg
<1>1. m0.cmd = cmd /\ m0.id = id /\ m0.arg = arg /\ m0.must = TRUE
  BY Fields
<1>2. IsMessage(m0) /\ m0.cmd # "IS_ENABLED"
  BY <1>1 DEF IsMessage
<1>3. Heard \/ Missed
  BY <1>2, StepIs
<1>4. CASE Missed
  BY <1>1, <1>4 DEF Missed
<1>5. CASE Heard
  <2>1. id \in AllClocks
    <3>1. m0 \in Msgs
      BY StepIs
    <3>2. m0.cmd = "SET_PARENT" => m0.id \in AllClocks
      BY <1>5 DEF Heard, Frame
    <3> QED
      BY <1>1, <3>1, <3>2, MsgFields, MovesAre
  <2>2. Frame(m0) /\ unheard' = unheard /\ todo' = Tail(todo)
    BY <1>2, <1>5 DEF Heard
  <2>3. /\ cmd = "ENABLE" => clk'[id].on
        /\ cmd = "DISABLE" => ~clk'[id].on
        /\ cmd = "SET_PARENT" => clk'[id].parent = arg
        /\ cmd = "SET_RATE" => clk'[id].rate = arg
    BY <1>1, <2>1, <2>2 DEF Frame
  <2> QED
    BY <2>1, <2>2, <2>3
<1> QED
  BY <1>3, <1>4, <1>5

---------------------------------------------------------------------------
(* PLLs.                                                                   *)

\* How far init_pll is, what it has found and what it has done.
PllInv ==
    call.fn = "init_pll" /\ result = "ok" =>
        LET id == PllId(call.id) IN
        IF id = CLK_MAX THEN todo = NotSupported
        ELSE \/ todo = InitPll(id, call.arg) /\ (id \in before <=> clk[id].on)
             \/ /\ todo = << Send("SET_RATE", id, call.arg), Send("ENABLE", id, 0) >>
                /\ clk[id].on => << "IS_ENABLED", id >> \in unheard
             \/ todo = << Send("ENABLE", id, 0) >> /\ clk[id].rate = call.arg
             \/ todo = << >> /\ clk[id].on /\ (id \in before \/ clk[id].rate = call.arg)

LEMMA PllCall ==
    ASSUME CoreInv, NEW c \in menu, Call(c)
    PROVE  PllInv'
<1> SUFFICES ASSUME c.fn = "init_pll" PROVE PllInv'
  BY DEF Call, PllInv
<1> DEFINE id == PllId(c.id)
<1>1. call' = c /\ clk' = clk /\ before' = {x \in Clocks : clk[x].on}
  BY DEF Call, bpmp
<1>2. todo' = IF id = CLK_MAX THEN NotSupported ELSE InitPll(id, c.arg)
  BY DEF Call, ToDo
<1>3. InInterface(c)
  BY CallKept
<1>4. id # CLK_MAX => id \in AllClocks
  BY <1>3, Identifiers DEF InInterface
<1>5. Clocks = AllClocks
  BY DEF CoreInv, TypeInv, ClkType, Clocks
<1> HIDE DEF id
<1>6. id # CLK_MAX => (id \in before' <=> clk'[id].on)
  BY <1>1, <1>4, <1>5
<1> QED
  BY <1>1, <1>2, <1>6 DEF PllInv, id

LEMMA PllStep ==
    ASSUME CoreInv, PllInv, Step, call.fn = "init_pll"
    PROVE  /\ PllInv'
           /\ ~Unheard("IS_ENABLED") => \A c \in AllClocks : Runs(c) => clk'[c].rate = clk[c].rate
<1> DEFINE id == PllId(call.id)
           ask == Try("IS_ENABLED", id, "done if on")
           rate == Send("SET_RATE", id, call.arg)
           on == Send("ENABLE", id, 0)
           Quiet == \A c \in AllClocks : clk'[c].rate = clk[c].rate
<1>1. call' = call /\ before' = before /\ Running /\ m0 \in Msgs /\ result = "ok"
  BY StepIs
<1>2. CASE id = CLK_MAX
  <2>1. todo = NotSupported
    BY <1>1, <1>2 DEF PllInv
  <2>2. result' = "error" /\ m0.cmd = "NotSupported"
    BY <2>1, RefusedStep, HeadIs DEF NotSupported, Local, Message
  <2>3. clk' = clk
    BY <2>2, StepIs DEF IsMessage
  <2> QED
    BY <2>2, <2>3 DEF PllInv
<1>3. CASE id # CLK_MAX
  <2>1. id \in AllClocks
    <3>1. call.id \in Plls
      BY DEF CoreInv, TypeInv, InInterface
    <3> QED
      BY <1>3, <3>1, Identifiers
  <2>2. \/ todo = << ask, rate, on >> /\ (id \in before <=> clk[id].on)
        \/ todo = << rate, on >> /\ (clk[id].on => << "IS_ENABLED", id >> \in unheard)
        \/ todo = << on >> /\ clk[id].rate = call.arg
    BY <1>1, <1>3 DEF PllInv, InitPll, Running
  <2>3. CASE todo = << ask, rate, on >> /\ (id \in before <=> clk[id].on)
    <3>1. m0 = ask /\ Tail(todo) = << rate, on >>
      BY <2>3, HeadIs, Zenon
    <3>2. m0.cmd = "IS_ENABLED" /\ m0.id = id /\ m0.arg = "done if on" /\ m0.must = FALSE
      BY <3>1 DEF Try, Message
    <3>3. Heard \/ Missed
      BY <3>2, StepIs DEF IsMessage
    <3>4. \A isOn : Asked(isOn) = IF isOn THEN << >> ELSE << rate, on >>
      BY <3>1, <3>2 DEF Asked
    <3>5. clk'[id].on = clk[id].on /\ Quiet
      BY <2>1, <3>2, <3>3 DEF Heard, Missed, Frame
    <3> HIDE DEF ask, rate, on
    <3>6. CASE Heard
      <4>1. todo' = IF clk[id].on THEN << >> ELSE << rate, on >>
        BY <3>2, <3>4, <3>6 DEF Heard
      <4> QED
        BY <1>1, <1>3, <2>3, <3>5, <4>1 DEF PllInv, rate, on
    <3>7. CASE Missed
      <4>1. todo' = << rate, on >> /\ << "IS_ENABLED", id >> \in unheard'
        BY <3>2, <3>4, <3>7 DEF Missed
      <4> QED
        BY <1>1, <1>3, <3>5, <4>1 DEF PllInv, rate, on
    <3> QED
      BY <3>3, <3>6, <3>7
  <2>4. CASE todo = << rate, on >> /\ (clk[id].on => << "IS_ENABLED", id >> \in unheard)
    <3>1. m0 = rate /\ Tail(todo) = << on >>
      BY <2>4, HeadIs, Zenon
    <3>2. m0.cmd = "SET_RATE" /\ m0.id = id
      BY <3>1, Fields
    <3>3. result' = "error" \/ (todo' = << on >> /\ clk'[id].rate = call.arg)
      BY <3>1, SendStep
    <3>4. PllInv'
      BY <1>1, <1>3, <3>3 DEF PllInv
    <3>5. ASSUME ~Unheard("IS_ENABLED"), NEW c \in AllClocks, Runs(c) PROVE clk'[c].rate = clk[c].rate
      <4>1. Clocks = AllClocks
        BY DEF CoreInv, TypeInv, ClkType, Clocks
      <4>2. ~clk[id].on
        BY <2>1, <2>4, <3>5, <4>1 DEF Unheard
      <4>3. id \notin Above(c)
        BY <3>5, <4>2 DEF Runs
      <4>4. Frame(m0) \/ clk' = clk
        BY <3>2, StepIs DEF IsMessage, Heard, Missed
      <4> QED
        BY <3>2, <4>3, <4>4 DEF Frame
    <3> QED
      BY <3>4, <3>5
  <2>5. CASE todo = << on >> /\ clk[id].rate = call.arg
    <3>1. m0 = on /\ Tail(todo) = << >>
      BY <2>5, HeadIs, Zenon
    <3>2. m0.cmd = "ENABLE" /\ m0.id = id
      BY <3>1, Fields
    <3>3. Frame(m0) \/ clk' = clk
      BY <3>2, StepIs DEF IsMessage, Heard, Missed
    <3>4. Quiet
      BY <3>2, <3>3 DEF Frame
    <3>5. result' = "error" \/ (todo' = << >> /\ clk'[id].on)
      BY <3>1, SendStep
    <3> QED
      BY <1>1, <1>3, <2>1, <2>5, <3>4, <3>5 DEF PllInv
  <2> QED
    BY <2>2, <2>3, <2>4, <2>5
<1> QED
  BY <1>2, <1>3

\* A step of the system is a call, a step of the function in progress, or nothing.
LEMMA NextIs == Next <=> (\E c \in menu : Call(c)) \/ Step
BY DEF Next, Step

LEMMA PllKept == CoreInv /\ PllInv /\ [Next]_vars => PllInv'
<1> SUFFICES ASSUME CoreInv, PllInv, [Next]_vars PROVE PllInv'
  OBVIOUS
<1>1. CASE UNCHANGED vars
  BY <1>1 DEF PllInv, vars, bpmp
<1>2. ASSUME NEW c \in menu, Call(c) PROVE PllInv'
  BY <1>2, PllCall
<1>3. CASE Step
  <2>1. CASE call.fn = "init_pll"
    BY <1>3, <2>1, PllStep
  <2>2. CASE call.fn # "init_pll"
    BY <1>3, <2>2, StepIs DEF PllInv
  <2> QED
    BY <2>1, <2>2
<1> QED
  BY <1>1, <1>2, <1>3, NextIs

\* InitPllDisturbsNone: whatever was called before and whatever was lost, bringing up
\* a PLL changes the rate of no clock that runs, unless its question was not answered.
THEOREM PllDisturbsNone == Spec => InitPllDisturbsNone
<1>1. Init => PllInv
  BY DEF Init, PllInv
<1>2. CoreInv /\ PllInv /\ [Next]_vars =>
        [call.fn = "init_pll" /\ Running /\ ~Unheard("IS_ENABLED")
            => \A id \in Clocks : Runs(id) => clk'[id].rate = clk[id].rate]_vars
  <2> SUFFICES ASSUME CoreInv, PllInv, Next, call.fn = "init_pll", Running, ~Unheard("IS_ENABLED")
               PROVE  \A id \in Clocks : Runs(id) => clk'[id].rate = clk[id].rate
    OBVIOUS
  <2>1. Step
    BY NextIs DEF Call
  <2>2. Clocks = AllClocks
    BY DEF CoreInv, TypeInv, ClkType, Clocks
  <2> QED
    BY <2>1, <2>2, PllStep
<1> QED
  BY <1>1, <1>2, PllKept, CoreInit, CoreStep, PTL DEF Spec, InitPllDisturbsNone

---------------------------------------------------------------------------
(* The order of the clocks of UFS.                                         *)

\* What a step does to a clock that is on, off or not sure.
LEMMA Turned ==
    ASSUME CoreInv, Step, NEW c \in AllClocks
    PROVE  /\ m0.id = c /\ m0.cmd = "ENABLE" => Lit(c)'
           /\ m0.id = c /\ m0.cmd = "DISABLE" => Dark(c)'
           /\ m0.id # c \/ m0.cmd # "DISABLE" => (Lit(c) => Lit(c)') /\ (clk[c].on => clk'[c].on)
           /\ m0.id # c \/ m0.cmd # "ENABLE" => (Dark(c) => Dark(c)') /\ (clk'[c].on => clk[c].on)
           /\ m0.id # c \/ m0.cmd \notin {"ENABLE", "DISABLE"} => (c \in unsure => c \in unsure')
           /\ clk'[c].parent # clk[c].parent => m0.id = c /\ m0.cmd = "SET_PARENT"
<1>1. clk \in ClkType
  BY DEF CoreInv, TypeInv
<1>2. CASE ~IsMessage(m0)
  <2>1. clk' = clk /\ unsure' = unsure
    BY <1>2, StepIs
  <2>2. m0.cmd \notin {"ENABLE", "DISABLE"}
    BY <1>2 DEF IsMessage
  <2> QED
    BY <2>1, <2>2 DEF Lit, Dark
<1>3. CASE Heard
  <2>1. /\ clk'[c].on = IF m0.id = c /\ m0.cmd = "ENABLE" THEN TRUE
                        ELSE IF m0.id = c /\ m0.cmd = "DISABLE" THEN FALSE ELSE clk[c].on
        /\ clk'[c].parent = IF m0.id = c /\ m0.cmd = "SET_PARENT" THEN m0.arg ELSE clk[c].parent
    BY <1>3 DEF Heard, Frame
  <2>2. unsure' = IF m0.cmd \in {"ENABLE", "DISABLE"} THEN unsure \ {m0.id} ELSE unsure
    BY <1>3 DEF Heard
  <2> QED
    BY <2>1, <2>2 DEF Lit, Dark
<1>4. CASE Missed
  <2>1. \/ clk' = clk
        \/ /\ clk'[c].on = IF m0.id = c /\ m0.cmd = "ENABLE" THEN TRUE
                           ELSE IF m0.id = c /\ m0.cmd = "DISABLE" THEN FALSE ELSE clk[c].on
           /\ clk'[c].parent = IF m0.id = c /\ m0.cmd = "SET_PARENT" THEN m0.arg ELSE clk[c].parent
    BY <1>4 DEF Missed, Frame
  <2>2. unsure' = IF m0.cmd \in {"ENABLE", "DISABLE", "IS_ENABLED"} THEN unsure \cup {m0.id} ELSE unsure
    BY <1>4 DEF Missed
  <2> QED
    BY <2>1, <2>2 DEF Lit, Dark
<1> QED
  BY <1>2, <1>3, <1>4, StepIs

\* What becomes of the list: one message less, or one question less with the order
\* that depended on it, whose clock is off or not sure.
Skipped ==
    /\ m0.cmd = "IS_ENABLED" /\ m0.arg = "skip if off" /\ todo' = Tail(Tail(todo))
    /\ m0.id \in AllClocks /\ (~clk'[m0.id].on \/ m0.id \in unsure')
LEMMA Shortened ==
    ASSUME CoreInv, Step, call.fn # "enable_qspi"
    PROVE  todo' = << >> \/ todo' = Tail(todo) \/ Skipped
<1>1. Running /\ m0 \in Msgs /\ clk \in ClkType
  BY StepIs, FirstIs
<1>2. CASE m0.cmd = "IS_ENABLED"
  <2>1. m0.arg \in {"skip if off", "done if on"} /\ m0.id \in AllClocks /\ ~m0.must
    BY <1>1, <1>2, MsgFields
  <2>2. Heard \/ Missed
    BY <1>2, StepIs DEF IsMessage
  <2>3. PICK isOn \in BOOLEAN : todo' = Asked(isOn) /\ (~isOn => ~clk'[m0.id].on \/ m0.id \in unsure')
    <3>1. CASE Heard
      <4>1. todo' = Asked(clk[m0.id].on) /\ clk[m0.id].on \in BOOLEAN
        BY <1>1, <1>2, <2>1, <3>1 DEF Heard, ClkType
      <4>2. clk'[m0.id].on = clk[m0.id].on
        BY <1>2, <2>1, <3>1 DEF Heard, Frame
      <4> QED
        BY <4>1, <4>2
    <3>2. CASE Missed
      <4>1. todo' = Asked(FALSE) /\ m0.id \in unsure'
        BY <1>2, <2>1, <3>2 DEF Missed
      <4> QED
        BY <4>1
    <3> QED
      BY <2>2, <3>1, <3>2
  <2>4. CASE m0.arg = "skip if off"
    <3>1. todo' = IF isOn THEN Tail(todo) ELSE Tail(Tail(todo))
      BY <2>3, <2>4 DEF Asked
    <3> QED
      BY <1>2, <2>1, <2>3, <2>4, <3>1 DEF Skipped
  <2>5. CASE m0.arg = "done if on"
    <3>1. todo' = IF isOn THEN << >> ELSE Tail(todo)
      BY <2>3, <2>5 DEF Asked
    <3> QED
      BY <3>1
  <2> QED
    BY <2>1, <2>4, <2>5
<1>3. CASE m0.cmd # "IS_ENABLED" /\ IsMessage(m0)
  <2>1. Heard \/ Missed
    BY <1>3, StepIs
  <2> QED
    BY <1>3, <2>1 DEF Heard, Missed
<1>4. CASE ~IsMessage(m0)
  <2>1. m0.cmd \notin {"ChooseParent", "DeriveRate"}
    BY <1>1, FirstFits
  <2>2. m0.cmd \in {"NotSupported", "Join", "Part"}
    BY <1>4, <2>1 DEF IsMessage
  <2> QED
    BY <2>2, StepIs
<1> QED
  BY <1>2, <1>3, <1>4

\* A message that others wait for is still ahead of them, or it was the first.
LEMMA StillAhead ==
    ASSUME CoreInv, Step, call.fn # "enable_qspi", NEW m, NEW N, Ahead(todo, m, N)
    PROVE  m = m0 \/ Ahead(todo', m, N) \/ (Skipped /\ m.cmd = "DISABLE" /\ m.id = m0.id)
<1>1. Running /\ todo \in Seq(Msgs) /\ todo # << >> /\ m0 = Head(todo) /\ AskedIn(todo)
  BY StepIs DEF CoreInv, TypeInv, Running, Fits, m0
<1>2. Ahead(<< >>, m, N)
  BY DEF Ahead
<1>3. m = m0 \/ Ahead(Tail(todo), m, N)
  BY <1>1, TailKeeps
<1>4. ASSUME Skipped, Ahead(Tail(todo), m, N)
      PROVE  (m.cmd = "DISABLE" /\ m.id = m0.id) \/ Ahead(todo', m, N)
  <2>1. /\ Tail(todo) \in Seq(Msgs) /\ Tail(todo) # << >>
        /\ Head(Tail(todo)).cmd = "DISABLE" /\ Head(Tail(todo)).id = m0.id
    BY <1>1, <1>4, TailKeeps DEF Skipped
  <2>2. m = Head(Tail(todo)) \/ Ahead(Tail(Tail(todo)), m, N)
    BY <1>4, <2>1, TailKeeps
  <2> QED
    BY <1>4, <2>1, <2>2 DEF Skipped
<1> QED
  BY <1>2, <1>3, <1>4, Shortened

LEMMA InitInOrderStep ==
    ASSUME CoreInv, InitInOrder, Step
    PROVE  InitInOrder'
<1> SUFFICES ASSUME call.fn = "ufs_clock_init", NEW i \in Rows
             PROVE  (Lit(Ufs(i)) \/ Ahead(todo, On(Ufs(i)), AfterOn(i)))'
  BY StepIs DEF InitInOrder
<1> DEFINE c == Ufs(i)
<1>1. c \in AllClocks
  BY RowsFit
<1>2. m0.id # c \/ m0.cmd # "DISABLE"
  <2> SUFFICES ASSUME m0.id = c, m0.cmd = "DISABLE" PROVE FALSE
    OBVIOUS
  <2>1. Ufs(i) \in Switched
    BY StepIs, MsgFields
  <2>2. i \in 4 .. 18
    BY <2>1, MovesAre
  <2> QED
    BY <2>2, StepIs, FirstFits
<1>3. On(c).cmd = "ENABLE" /\ On(c).id = c
  BY Fields DEF On
<1> HIDE DEF c
<1>4. CASE Lit(c)
  BY <1>1, <1>2, <1>4, Turned DEF c
<1>5. CASE Ahead(todo, On(c), AfterOn(i))
  <2>1. On(c) = m0 \/ Ahead(todo', On(c), AfterOn(i))
    BY <1>3, <1>5, StillAhead
  <2>2. On(c) = m0 => Lit(c)'
    BY <1>1, <1>3, Turned
  <2> QED
    BY <2>1, <2>2 DEF c
<1> QED
  BY <1>4, <1>5 DEF InitInOrder, c

LEMMA DeinitInOrderStep ==
    ASSUME CoreInv, DeinitInOrder, Step
    PROVE  DeinitInOrder'
<1> SUFFICES ASSUME call.fn = "ufs_clock_deinit", NEW i \in 4 .. 18
             PROVE  (Dark(Ufs(i)) \/ Ahead(todo, Off(Ufs(i)), AfterOff(i)))'
  BY StepIs DEF DeinitInOrder
<1> DEFINE c == Ufs(i)
<1>1. c \in AllClocks
  BY RowsFit DEF Rows
<1>2. m0.id # c \/ m0.cmd # "ENABLE"
  BY StepIs, FirstFits
<1>3. Off(c).cmd = "DISABLE" /\ Off(c).id = c
  BY Fields DEF Off
<1> HIDE DEF c
<1>4. CASE Dark(c)
  BY <1>1, <1>2, <1>4, Turned DEF c
<1>5. CASE Ahead(todo, Off(c), AfterOff(i))
  <2>1. Off(c) = m0 \/ Ahead(todo', Off(c), AfterOff(i)) \/ (Skipped /\ c = m0.id)
    BY <1>3, <1>5, StillAhead
  <2>2. Off(c) = m0 => Dark(c)'
    BY <1>1, <1>3, Turned
  <2>3. Skipped /\ c = m0.id => Dark(c)'
    BY DEF Skipped, Dark
  <2> QED
    BY <2>1, <2>2, <2>3 DEF c
<1> QED
  BY <1>4, <1>5 DEF DeinitInOrder, c

\* When a clock of UFS is to go on, or to move to its parent of the table, what is
\* above it is on; when one is to go off, what is below it is off.
LEMMA PairsInOrderStep ==
    ASSUME CoreInv, InitInOrder, DeinitInOrder, PairsInOrder, Step
    PROVE  PairsInOrder'
<1> SUFFICES ASSUME NEW i \in Rows, clk'[Ufs(i)].on, UfsClocks[i].parent # CLK_MAX,
                    clk'[Ufs(i)].parent = UfsClocks[i].parent
             PROVE  clk'[UfsClocks[i].parent].on \/ {Ufs(i), UfsClocks[i].parent} \cap unsure' # {}
  BY DEF PairsInOrder
<1>1. CASE UfsClocks[i].parent \in AtBoot
  <2>1. TreeInv'
    BY CoreStep, NextIs DEF CoreInv
  <2> QED
    BY <1>1, <2>1 DEF TreeInv
<1>2. CASE UfsClocks[i].parent \notin AtBoot
  <2>1. PICK j \in 3 .. i - 1 : UfsClocks[i].parent = Ufs(j)
    BY <1>2, UfsTable
  <2>2. i \in 4 .. 18 /\ j \in Rows /\ j < i
    BY <2>1 DEF Rows
  <2> DEFINE c == Ufs(i)
             p == Ufs(j)
  <2>3. c \in AllClocks /\ p \in AllClocks /\ c # p
    BY <2>2, RowsFit, UfsTable
  <2>4. Running /\ m0 \in Msgs /\ todo \in Seq(Msgs) /\ todo # << >> /\ m0 = Head(todo)
    BY StepIs DEF CoreInv, TypeInv, Running, m0
  <2>5. SUFFICES ASSUME ~clk'[p].on, c \notin unsure', p \notin unsure' PROVE FALSE
    BY <2>1
  <2>6. CASE m0.id = p /\ m0.cmd = "DISABLE"
    <3>1. j \in 4 .. 18
      <4>1. Ufs(j) \in Switched
        BY <2>4, <2>6, MsgFields
      <4> QED
        BY <2>2, <4>1, MovesAre
    <3>2. call.fn = "ufs_clock_deinit"
      BY <2>4, <2>6, <3>1, FirstFits
    <3>3. m0 \in AfterOff(i)
      BY <2>2, <2>4, <2>6, <3>1 DEF AfterOff
    <3>4. ~Ahead(todo, Off(c), AfterOff(i))
      BY <2>4, <3>3, TailKeeps
    <3>5. Dark(c)
      BY <2>2, <3>2, <3>4 DEF DeinitInOrder
    <3>6. Dark(c)'
      BY <2>3, <2>6, <3>5, Turned
    <3> QED
      BY <2>5, <3>6 DEF Dark
  <2>7. CASE m0.id = c /\ m0.cmd \in {"ENABLE", "SET_PARENT"}
    <3>1. call.fn = "ufs_clock_init"
      BY <2>2, <2>4, <2>7, FirstFits
    <3>2. m0 \in AfterOn(j)
      BY <2>2, <2>4, <2>7 DEF AfterOn, Rows
    <3>3. ~Ahead(todo, On(p), AfterOn(j))
      BY <2>4, <3>2, TailKeeps
    <3>4. Lit(p)
      BY <2>2, <3>1, <3>3 DEF InitInOrder
    <3>5. Lit(p)'
      BY <2>3, <2>7, <3>4, Turned
    <3> QED
      BY <2>5, <3>5 DEF Lit
  <2>8. CASE ~(m0.id = p /\ m0.cmd = "DISABLE") /\ ~(m0.id = c /\ m0.cmd \in {"ENABLE", "SET_PARENT"})
    <3>1. clk[c].on /\ clk[c].parent = p
      BY <2>1, <2>3, <2>8, Turned
    <3>2. ~clk[p].on
      BY <2>3, <2>5, <2>8, Turned
    <3>3. c \in unsure \/ p \in unsure
      BY <2>1, <3>1, <3>2 DEF PairsInOrder
    <3>4. c \in unsure => m0.id = c /\ m0.cmd = "DISABLE"
      BY <2>3, <2>5, <2>8, Turned
    <3>5. p \in unsure => m0.id = p /\ m0.cmd = "ENABLE"
      BY <2>3, <2>5, <2>8, Turned
    <3>6. m0.id = c /\ m0.cmd = "DISABLE" => Dark(c)'
      BY <2>3, Turned
    <3>7. m0.id = p /\ m0.cmd = "ENABLE" => Lit(p)'
      BY <2>3, Turned
    <3> QED
      BY <2>5, <3>3, <3>4, <3>5, <3>6, <3>7 DEF Lit, Dark
  <2> QED
    BY <2>6, <2>7, <2>8
<1> QED
  BY <1>1, <1>2

LEMMA OrderCall ==
    ASSUME CoreInv, PairsInOrder, NEW c \in menu, Call(c)
    PROVE  InitInOrder' /\ DeinitInOrder' /\ PairsInOrder'
<1>1. call' = c /\ clk' = clk /\ unsure' = unsure
  BY DEF Call, bpmp
<1>2. c.fn = "ufs_clock_init" => todo' = UfsProgramClock
  BY DEF Call, ToDo
<1>3. c.fn = "ufs_clock_deinit" => todo' = UfsClockDeinit
  BY DEF Call, ToDo
<1>4. \A i \in Rows : Ahead(UfsProgramClock, On(Ufs(i)), AfterOn(i))
  BY UfsInitList
<1>5. \A i \in 4 .. 18 : Ahead(UfsClockDeinit, Off(Ufs(i)), AfterOff(i))
  BY UfsDeinitList
<1>6. InitInOrder'
  BY <1>1, <1>2, <1>4 DEF InitInOrder
<1>7. DeinitInOrder'
  BY <1>1, <1>3, <1>5 DEF DeinitInOrder
<1>8. PairsInOrder'
  BY <1>1 DEF PairsInOrder
<1> QED
  BY <1>6, <1>7, <1>8

OrderInv == CoreInv /\ InitInOrder /\ DeinitInOrder /\ PairsInOrder

LEMMA OrderInit == Init => OrderInv
<1> SUFFICES ASSUME Init PROVE OrderInv
  OBVIOUS
<1>1. call.fn = "none" /\ \A i \in Rows : Ufs(i) \in AllClocks
  BY RowsFit DEF Init
<1>2. CoreInv
  BY CoreInit
<1>3. PICK started \in SUBSET {"PLLC4_VCO", "PLLU"} :
          clk = [c \in AllClocks |->
                    [on |-> c \in AtBoot \cup started,
                     parent |-> IF c \in Pllc4Outs THEN "PLLC4_VCO" ELSE "OSC",
                     rate |-> FirstRate(c, started)]]
  BY Zenon DEF Init
<1>4. ASSUME NEW i \in Rows, UfsClocks[i].parent # CLK_MAX, clk[Ufs(i)].parent = UfsClocks[i].parent
      PROVE  clk[UfsClocks[i].parent].on
  <2>1. Ufs(i) \notin Pllc4Outs /\ Ufs(i) \in AllClocks
    BY <1>1 DEF Rows, Ufs, UfsClocks, Row, Pllc4Outs
  <2>2. clk[Ufs(i)].parent = "OSC"
    BY <1>3, <2>1
  <2>3. clk["OSC"].on
    BY <1>2 DEF CoreInv, TreeInv, AtBoot
  <2> QED
    BY <1>4, <2>2, <2>3
<1>5. PairsInOrder
  BY <1>4 DEF PairsInOrder
<1> QED
  BY <1>1, <1>2, <1>5 DEF OrderInv, InitInOrder, DeinitInOrder

LEMMA OrderStep == OrderInv /\ [Next]_vars => OrderInv'
<1> SUFFICES ASSUME OrderInv, [Next]_vars PROVE OrderInv'
  OBVIOUS
<1>1. CoreInv /\ CoreInv' /\ InitInOrder /\ DeinitInOrder /\ PairsInOrder
  BY CoreStep DEF OrderInv
<1>2. CASE UNCHANGED vars
  BY <1>1, <1>2 DEF OrderInv, vars, bpmp, InitInOrder, DeinitInOrder, PairsInOrder, Lit, Dark
<1>3. ASSUME NEW c \in menu, Call(c) PROVE OrderInv'
  BY <1>1, <1>3, OrderCall DEF OrderInv
<1>4. CASE Step
  BY <1>1, <1>4, InitInOrderStep, DeinitInOrderStep, PairsInOrderStep DEF OrderInv
<1> QED
  BY <1>2, <1>3, <1>4, NextIs

\* UfsInOrder: no clock of UFS runs without its parent and no reset is released before
\* the clocks run, after any calls and with any messages lost, but for the clocks that
\* may not have heard the last order.
THEOREM OrderOfUfs == Spec => []UfsInOrder
<1>1. OrderInv => UfsInOrder
  <2> SUFFICES ASSUME OrderInv PROVE UfsInOrder
    OBVIOUS
  <2>1. ASSUME NEW i \in Rows, Running, call.fn = "ufs_clock_init", m0.cmd = "DEASSERT"
        PROVE  clk[Ufs(i)].on \/ Ufs(i) \in unsure
    <3>1. todo \in Seq(Msgs) /\ todo # << >> /\ m0 = Head(todo) /\ m0 \in Msgs
      BY <2>1, FirstIs DEF OrderInv
    <3>2. m0 \in AfterOn(i)
      BY <2>1, <3>1 DEF AfterOn
    <3>3. ~Ahead(todo, On(Ufs(i)), AfterOn(i))
      BY <3>1, <3>2, TailKeeps
    <3> QED
      BY <2>1, <3>3 DEF OrderInv, InitInOrder, Lit
  <2> QED
    BY <2>1, UfsTable DEF UfsInOrder, OrderInv, PairsInOrder, Ufs
<1> QED
  BY <1>1, OrderInit, OrderStep, PTL DEF Spec

---------------------------------------------------------------------------
(* The functions of one module or one source.                              *)

EnableInv ==
    call.fn = "clk_enable" /\ result = "ok" =>
        \/ todo = NotSupported
        \/ todo = << Send("ENABLE", call.id, 0) >>
        \/ todo = << >> /\ clk[call.id].on
DisableInv ==
    call.fn = "clk_disable" /\ result = "ok" /\ HasClock(call.id) =>
        \/ todo = DisableIfOn(call.id)
        \/ todo = << Send("DISABLE", call.id, 0) >>
        \/ todo = << >> /\ (~clk[call.id].on \/ << "IS_ENABLED", call.id >> \in unheard)
SourceInv ==
    call.fn = "set_clk_src" /\ result = "ok" =>
        \/ todo = NotSupported
        \/ /\ IdOfSource(call.arg) # CLK_MAX
           /\ \/ todo = << Send("SET_PARENT", call.id, IdOfSource(call.arg)) >>
              \/ todo = << >> /\ clk[call.id].parent = IdOfSource(call.arg)
RateInv ==
    call.fn = "set_clk_rate" /\ result = "ok" =>
        \/ todo = NotSupported
        \/ /\ HasClock(call.id)
           /\ \/ todo = SetRate(call.id, call.arg)
              \/ /\ clk[call.id].on \/ << "ENABLE", call.id >> \in unheard
                 /\ \/ todo = << Send("SET_RATE", call.id, call.arg) >>
                    \/ todo = << >> /\ clk[call.id].rate = call.arg
SourceRateInv ==
    call.fn = "set_clk_src_rate" /\ result = "ok" =>
        IF call.id = "PLLC4_MUXED" THEN todo = << >> /\ muxed = call.arg
        ELSE \/ todo = NotSupported
             \/ todo = << Send("SET_RATE", IdOfSource(call.id), call.arg) >>
             \/ todo = << >> /\ clk[IdOfSource(call.id)].rate = call.arg
ResetInv ==
    /\ call.fn = "rst_set" /\ result = "ok" =>
          \/ todo = NotSupported
          \/ todo = << Try("ASSERT", call.id, 0) >>
          \/ todo = << >> /\ (call.id \notin released \/ unheard # {})
    /\ call.fn = "rst_clear" /\ result = "ok" =>
          \/ todo = NotSupported
          \/ todo = << Try("DEASSERT", call.id, 0) >>
          \/ todo = << >> /\ (call.id \in released \/ unheard # {})
ModuleInv == EnableInv /\ DisableInv /\ SourceInv /\ RateInv /\ SourceRateInv /\ ResetInv

LEMMA ModuleCall ==
    ASSUME CoreInv, NEW c \in menu, Call(c)
    PROVE  ModuleInv'
<1>1. call' = c /\ muxed' = (IF c.fn = "set_clk_src_rate" /\ c.id = "PLLC4_MUXED" THEN c.arg ELSE muxed)
  BY DEF Call
<1>2. c.fn = "clk_enable" => todo' = IfClock(c.id, << Send("ENABLE", c.id, 0) >>)
  BY DEF Call, ToDo
<1>3. c.fn = "clk_disable" => todo' = IF HasClock(c.id) THEN DisableIfOn(c.id) ELSE << >>
  BY DEF Call, ToDo
<1>4. c.fn = "set_clk_src" =>
        todo' = IF IdOfSource(c.arg) = CLK_MAX THEN NotSupported
                ELSE IfClock(c.id, << Send("SET_PARENT", c.id, IdOfSource(c.arg)) >>)
  BY DEF Call, ToDo
<1>5. c.fn = "set_clk_rate" => todo' = IfClock(c.id, SetRate(c.id, c.arg))
  BY DEF Call, ToDo
<1>6. c.fn = "set_clk_src_rate" =>
        todo' = IF c.id = "PLLC4_MUXED" THEN << >>
                ELSE IF IdOfSource(c.id) = CLK_MAX THEN NotSupported ELSE << Send("SET_RATE", IdOfSource(c.id), c.arg) >>
  BY DEF Call, ToDo
<1>7. /\ c.fn = "rst_set" => todo' = IF HasReset(c.id) THEN << Try("ASSERT", c.id, 0) >> ELSE NotSupported
      /\ c.fn = "rst_clear" => todo' = IF HasReset(c.id) THEN << Try("DEASSERT", c.id, 0) >> ELSE NotSupported
  BY DEF Call, ToDo
<1>8. EnableInv'
  BY <1>1, <1>2 DEF EnableInv, IfClock
<1>9. DisableInv'
  BY <1>1, <1>3 DEF DisableInv
<1>10. SourceInv'
  BY <1>1, <1>4 DEF SourceInv, IfClock
<1>11. RateInv'
  BY <1>1, <1>5 DEF RateInv, IfClock
<1>12. SourceRateInv'
  BY <1>1, <1>6 DEF SourceRateInv
<1>13. ResetInv'
  BY <1>1, <1>7 DEF ResetInv
<1> QED
  BY <1>8, <1>9, <1>10, <1>11, <1>12, <1>13 DEF ModuleInv

LEMMA EnableStep ==
    ASSUME CoreInv, EnableInv, Step
    PROVE  EnableInv'
<1> SUFFICES ASSUME call.fn = "clk_enable", result' # "error" PROVE EnableInv'
  BY StepIs DEF EnableInv
<1>1. todo = << Send("ENABLE", call.id, 0) >>
  BY RefusedStep, StepIs DEF EnableInv, Running
<1>2. m0 = Send("ENABLE", call.id, 0) /\ Tail(todo) = << >>
  BY <1>1, HeadIs, Zenon
<1>3. todo' = << >> /\ clk'[call.id].on
  BY <1>2, SendStep
<1> QED
  BY <1>3, StepIs DEF EnableInv

LEMMA DisableStep ==
    ASSUME CoreInv, DisableInv, Step
    PROVE  DisableInv'
<1> SUFFICES ASSUME call.fn = "clk_disable", HasClock(call.id), result' # "error" PROVE DisableInv'
  BY StepIs DEF DisableInv
<1> DEFINE id == call.id
           ask == Try("IS_ENABLED", id, "skip if off")
           off == Send("DISABLE", id, 0)
<1>1. todo = << ask, off >> \/ todo = << off >>
  BY StepIs DEF DisableInv, DisableIfOn, Running
<1>2. CASE todo = << ask, off >>
  <2>1. m0 = ask /\ Tail(todo) = << off >>
    BY <1>2, HeadIs, Zenon
  <2>2. m0.cmd = "IS_ENABLED" /\ m0.id = id /\ m0.arg = "skip if off" /\ m0.must = FALSE
    BY <2>1 DEF Try, Message
  <2>3. Heard \/ Missed
    BY <2>2, StepIs DEF IsMessage
  <2>4. Tail(<< off >>) = << >>
    OBVIOUS
  <2>5. \A isOn : Asked(isOn) = IF isOn THEN << off >> ELSE << >>
    <3> HIDE DEF ask, off
    <3> QED
      BY <2>1, <2>2, <2>4 DEF Asked
  <2>6. id \in AllClocks
    BY Identifiers
  <2> HIDE DEF ask, off, id
  <2>7. CASE Heard
    <3>1. todo' = IF clk[id].on THEN << off >> ELSE << >>
      BY <2>2, <2>5, <2>7 DEF Heard
    <3>2. clk'[id].on = clk[id].on
      BY <2>2, <2>6, <2>7 DEF Heard, Frame
    <3> QED
      BY <3>1, <3>2, StepIs DEF DisableInv, off, id
  <2>8. CASE Missed
    <3>1. todo' = << >> /\ << "IS_ENABLED", id >> \in unheard'
      BY <2>2, <2>5, <2>8 DEF Missed
    <3> QED
      BY <3>1, StepIs DEF DisableInv, id
  <2> QED
    BY <2>3, <2>7, <2>8
<1>3. CASE todo = << off >>
  <2>1. m0 = off /\ Tail(todo) = << >>
    BY <1>3, HeadIs, Zenon
  <2>2. todo' = << >> /\ ~clk'[id].on
    BY <2>1, SendStep
  <2> QED
    BY <2>2, StepIs DEF DisableInv
<1> QED
  BY <1>1, <1>2, <1>3

LEMMA SourceStep ==
    ASSUME CoreInv, SourceInv, Step
    PROVE  SourceInv'
<1> SUFFICES ASSUME call.fn = "set_clk_src", result' # "error" PROVE SourceInv'
  BY StepIs DEF SourceInv
<1>1. IdOfSource(call.arg) # CLK_MAX /\ todo = << Send("SET_PARENT", call.id, IdOfSource(call.arg)) >>
  BY RefusedStep, StepIs DEF SourceInv, Running
<1>2. m0 = Send("SET_PARENT", call.id, IdOfSource(call.arg)) /\ Tail(todo) = << >>
  BY <1>1, HeadIs, Zenon
<1>3. todo' = << >> /\ clk'[call.id].parent = IdOfSource(call.arg)
  BY <1>2, SendStep
<1> QED
  BY <1>1, <1>3, StepIs DEF SourceInv

LEMMA RateStep ==
    ASSUME CoreInv, RateInv, Step
    PROVE  RateInv'
<1> SUFFICES ASSUME call.fn = "set_clk_rate", result' # "error" PROVE RateInv'
  BY StepIs DEF RateInv
<1> DEFINE id == call.id
           on == Try("ENABLE", id, 0)
           rate == Send("SET_RATE", id, call.arg)
<1>1. HasClock(id) /\ id \in AllClocks
  BY RefusedStep, StepIs, Identifiers DEF RateInv
<1>2. todo = << on, rate >> \/ (todo = << rate >> /\ (clk[id].on \/ << "ENABLE", id >> \in unheard))
  BY RefusedStep, StepIs DEF RateInv, SetRate, Running
<1>3. CASE todo = << on, rate >>
  <2>1. m0 = on /\ Tail(todo) = << rate >>
    BY <1>3, HeadIs, Zenon
  <2>2. m0.cmd = "ENABLE" /\ m0.id = id /\ m0.must = FALSE
    BY <2>1 DEF Try, Message
  <2>3. Heard \/ Missed
    BY <2>2, StepIs DEF IsMessage
  <2> HIDE DEF on, rate, id
  <2>4. todo' = << rate >>
    BY <2>1, <2>2, <2>3 DEF Heard, Missed
  <2>5. clk'[id].on \/ << "ENABLE", id >> \in unheard'
    BY <1>1, <2>2, <2>3 DEF Heard, Missed, Frame
  <2> QED
    BY <1>1, <2>4, <2>5, StepIs DEF RateInv, id, rate
<1>4. CASE todo = << rate >> /\ (clk[id].on \/ << "ENABLE", id >> \in unheard)
  <2>1. m0 = rate /\ Tail(todo) = << >>
    BY <1>4, HeadIs, Zenon
  <2>2. m0.cmd = "SET_RATE" /\ m0.must
    BY <2>1 DEF Send, Message
  <2>3. todo' = << >> /\ clk'[id].rate = call.arg
    BY <2>1, SendStep
  <2>4. Heard
    BY <2>2, StepIs DEF IsMessage, Missed
  <2>5. clk'[id].on = clk[id].on /\ unheard' = unheard
    BY <1>1, <2>2, <2>4 DEF Frame, Heard
  <2> QED
    BY <1>1, <1>4, <2>3, <2>5, StepIs DEF RateInv
<1> QED
  BY <1>2, <1>3, <1>4

LEMMA SourceRateStep ==
    ASSUME CoreInv, SourceRateInv, Step
    PROVE  SourceRateInv'
<1> SUFFICES ASSUME call.fn = "set_clk_src_rate", result' # "error" PROVE SourceRateInv'
  BY StepIs DEF SourceRateInv
<1>1. call.id # "PLLC4_MUXED" /\ todo = << Send("SET_RATE", IdOfSource(call.id), call.arg) >>
  BY RefusedStep, StepIs DEF SourceRateInv, Running
<1>2. m0 = Send("SET_RATE", IdOfSource(call.id), call.arg) /\ Tail(todo) = << >>
  BY <1>1, HeadIs, Zenon
<1>3. todo' = << >> /\ clk'[IdOfSource(call.id)].rate = call.arg
  BY <1>2, SendStep
<1> QED
  BY <1>1, <1>3, StepIs DEF SourceRateInv

LEMMA ResetStep ==
    ASSUME CoreInv, ResetInv, Step
    PROVE  ResetInv'
<1> SUFFICES ASSUME call.fn \in {"rst_set", "rst_clear"}, result' # "error" PROVE ResetInv'
  BY StepIs DEF ResetInv
<1> DEFINE cmd == IF call.fn = "rst_set" THEN "ASSERT" ELSE "DEASSERT"
<1>1. todo = << Try(cmd, call.id, 0) >>
  BY RefusedStep, StepIs DEF ResetInv, Running
<1>2. m0 = Try(cmd, call.id, 0) /\ Tail(todo) = << >>
  BY <1>1, HeadIs, Zenon
<1>3. m0.cmd = cmd /\ m0.id = call.id /\ m0.must = FALSE
  BY <1>2 DEF Try, Message
<1>4. Heard \/ Missed
  BY <1>3, StepIs DEF IsMessage
<1>5. todo' = << >>
  BY <1>2, <1>3, <1>4 DEF Heard, Missed
<1>6. unheard' # {} \/ released' = IF call.fn = "rst_set" THEN released \ {call.id} ELSE released \cup {call.id}
  BY <1>3, <1>4 DEF Heard, Missed, Obeyed
<1> QED
  BY <1>5, <1>6, StepIs DEF ResetInv

LEMMA ModuleStep == ASSUME CoreInv, ModuleInv, Step PROVE ModuleInv'
BY EnableStep, DisableStep, SourceStep, RateStep, SourceRateStep, ResetStep DEF ModuleInv

---------------------------------------------------------------------------
(* The power domains of the display, in their order.                       *)

PowerOns == << Try("POWER_ON", "DISP", 0), Try("POWER_ON", "DISPB", 0), Try("POWER_ON", "DISPC", 0) >>
PowerOffs == << Try("POWER_OFF", "DISP", 0), Try("POWER_OFF", "DISPB", 0), Try("POWER_OFF", "DISPC", 0) >>
PowerInv ==
    /\ call.fn = "display_unpowergate" /\ unheard = {} =>
          \/ todo = PowerOns
          \/ todo = Tail(PowerOns) /\ {"DISP"} \subseteq powered
          \/ todo = Tail(Tail(PowerOns)) /\ {"DISP", "DISPB"} \subseteq powered
          \/ todo = << >> /\ {"DISP", "DISPB", "DISPC"} \subseteq powered
    /\ call.fn = "display_powergate" /\ unheard = {} =>
          \/ todo = PowerOffs
          \/ todo = Tail(PowerOffs) /\ powered \cap {"DISP"} = {}
          \/ todo = Tail(Tail(PowerOffs)) /\ powered \cap {"DISP", "DISPB"} = {}
          \/ todo = << >> /\ powered \cap {"DISP", "DISPB", "DISPC"} = {}

LEMMA PowerLists ==
    \A cmd : LET a == Try(cmd, "DISP", 0)
                 b == Try(cmd, "DISPB", 0)
                 c == Try(cmd, "DISPC", 0)
             IN  /\ [i \in 1 .. 3 |-> Try(cmd, DisplayDomains[i], 0)] = << a, b, c >>
                 /\ Tail(<< a, b, c >>) = << b, c >> /\ Tail(<< b, c >>) = << c >>
<1> SUFFICES ASSUME NEW cmd
             PROVE  /\ [i \in 1 .. 3 |-> Try(cmd, DisplayDomains[i], 0)]
                          = << Try(cmd, "DISP", 0), Try(cmd, "DISPB", 0), Try(cmd, "DISPC", 0) >>
                    /\ Tail(<< Try(cmd, "DISP", 0), Try(cmd, "DISPB", 0), Try(cmd, "DISPC", 0) >>)
                          = << Try(cmd, "DISPB", 0), Try(cmd, "DISPC", 0) >>
                    /\ Tail(<< Try(cmd, "DISPB", 0), Try(cmd, "DISPC", 0) >>) = << Try(cmd, "DISPC", 0) >>
  OBVIOUS
<1> DEFINE T(d) == Try(cmd, d, 0)
<1>1. DisplayDomains[1] = "DISP" /\ DisplayDomains[2] = "DISPB" /\ DisplayDomains[3] = "DISPC"
  BY DEF DisplayDomains
<1> HIDE DEF T
<1>2. [i \in 1 .. 3 |-> T(DisplayDomains[i])] = << T("DISP"), T("DISPB"), T("DISPC") >>
  BY <1>1
<1>3. Tail(<< T("DISP"), T("DISPB"), T("DISPC") >>) = << T("DISPB"), T("DISPC") >>
      /\ Tail(<< T("DISPB"), T("DISPC") >>) = << T("DISPC") >>
  OBVIOUS
<1> QED
  BY <1>2, <1>3 DEF T

LEMMA PowerCall ==
    ASSUME CoreInv, NEW c \in menu, Call(c)
    PROVE  PowerInv'
<1>1. call' = c
  BY DEF Call
<1>2. c.fn = "display_unpowergate" => todo' = [i \in 1 .. 3 |-> Try("POWER_ON", DisplayDomains[i], 0)]
  BY DEF Call, ToDo
<1>3. c.fn = "display_powergate" => todo' = [i \in 1 .. 3 |-> Try("POWER_OFF", DisplayDomains[i], 0)]
  BY DEF Call, ToDo
<1>4. /\ [i \in 1 .. 3 |-> Try("POWER_ON", DisplayDomains[i], 0)] = PowerOns
      /\ [i \in 1 .. 3 |-> Try("POWER_OFF", DisplayDomains[i], 0)] = PowerOffs
  BY PowerLists, Zenon DEF PowerOns, PowerOffs
<1> QED
  BY <1>1, <1>2, <1>3, <1>4 DEF PowerInv

\* One domain is turned on or off, or was not heard of.
LEMMA PowerSent ==
    ASSUME CoreInv, Step, NEW cmd \in {"POWER_ON", "POWER_OFF"}, NEW d, m0 = Try(cmd, d, 0), unheard' = {}
    PROVE  /\ todo' = Tail(todo) /\ unheard = {}
           /\ powered' = IF cmd = "POWER_ON" THEN powered \cup {d} ELSE powered \ {d}
<1>1. m0.cmd = cmd /\ m0.id = d
  BY DEF Try, Message
<1>2. Heard \/ Missed
  BY <1>1, StepIs DEF IsMessage
<1>3. Heard
  BY <1>2 DEF Missed
<1> QED
  BY <1>1, <1>3 DEF Heard, Obeyed

LEMMA PowerStep ==
    ASSUME CoreInv, PowerInv, Step
    PROVE  PowerInv'
<1> SUFFICES ASSUME call.fn \in {"display_unpowergate", "display_powergate"}, unheard' = {} PROVE PowerInv'
  BY StepIs DEF PowerInv
<1>1. unheard = {} /\ call' = call /\ Running
  <2>1. IsMessage(m0) => Heard \/ Missed
    BY StepIs
  <2> QED
    BY <2>1, StepIs DEF Heard, Missed
<1> DEFINE cmd == IF call.fn = "display_unpowergate" THEN "POWER_ON" ELSE "POWER_OFF"
           a == Try(cmd, "DISP", 0)
           b == Try(cmd, "DISPB", 0)
           c == Try(cmd, "DISPC", 0)
           L == << a, b, c >>
           Gone(S) == IF call.fn = "display_unpowergate" THEN S \subseteq powered ELSE powered \cap S = {}
<1>2. Tail(L) = << b, c >> /\ Tail(Tail(L)) = << c >>
  BY PowerLists, Zenon
<1>3. L = IF call.fn = "display_unpowergate" THEN PowerOns ELSE PowerOffs
  BY DEF PowerOns, PowerOffs
<1>4. cmd \in {"POWER_ON", "POWER_OFF"} /\ (cmd = "POWER_ON" <=> call.fn = "display_unpowergate")
  OBVIOUS
<1>5. \/ todo = L
      \/ todo = << b, c >> /\ Gone({"DISP"})
      \/ todo = << c >> /\ Gone({"DISP", "DISPB"})
  <2> HIDE DEF L
  <2> QED
    BY <1>1, <1>2, <1>3 DEF PowerInv, Running
<1>6. ASSUME NEW d, m0 = Try(cmd, d, 0)
      PROVE  todo' = Tail(todo) /\ \A S : Gone(S) \/ S = {} => Gone(S \cup {d})'
  <2>1. todo' = Tail(todo) /\ powered' = IF cmd = "POWER_ON" THEN powered \cup {d} ELSE powered \ {d}
    BY <1>4, <1>6, PowerSent
  <2> QED
    BY <1>1, <1>4, <2>1
<1>7. CASE todo = L
  <2>1. m0 = a /\ Tail(todo) = << b, c >>
    BY <1>7, HeadIs, Zenon
  <2>2. todo' = Tail(L) /\ Gone({"DISP"})'
    BY <1>2, <1>6, <2>1
  <2> QED
    BY <1>1, <1>3, <2>2 DEF PowerInv
<1>8. CASE todo = << b, c >> /\ Gone({"DISP"})
  <2>1. m0 = b /\ Tail(todo) = << c >>
    BY <1>8, HeadIs, Zenon
  <2>2. todo' = Tail(Tail(L)) /\ Gone({"DISP"} \cup {"DISPB"})'
    BY <1>2, <1>6, <1>8, <2>1
  <2> QED
    BY <1>1, <1>3, <2>2 DEF PowerInv
<1>9. CASE todo = << c >> /\ Gone({"DISP", "DISPB"})
  <2>1. m0 = c /\ Tail(todo) = << >>
    BY <1>9, HeadIs, Zenon
  <2>2. todo' = << >> /\ Gone({"DISP", "DISPB"} \cup {"DISPC"})'
    BY <1>6, <1>9, <2>1
  <2> QED
    BY <1>1, <1>3, <2>2 DEF PowerInv
<1> QED
  BY <1>5, <1>7, <1>8, <1>9

---------------------------------------------------------------------------
(* The functions that follow a table.                                      *)

Within(s, N) == \A k \in DOMAIN s : s[k] \in N

\* What a row asks for is done or still to do, and its rate is still to be set as
\* long as a message of N, which may change it, is to be sent.
RowPending(row, N) ==
    /\ Has(todo, RowOn(row)) \/ clk[row.id].on
    /\ row.parent # CLK_MAX => Has(todo, RowParent(row)) \/ clk[row.id].parent = row.parent
    /\ row.rate # 0 => Behind(todo, N, RowRate(row)) /\ (Has(todo, RowRate(row)) \/ clk[row.id].rate = row.rate)
OffPending(c) == Has(todo, Off(c)) \/ ~clk[c].on

UfsOns == {m \in Msgs : (\E i \in Rows : OfRow(UfsClocks[i], m)) \/ m.cmd \in {"DEASSERT", "Join"}}
UfsOffs == {m \in Msgs : \E i \in 4 .. 18 : m \in {Ask(Ufs(i)), Off(Ufs(i))}}
TrkOns == {m \in Msgs : \E i \in 1 .. 3 : OfRow(TrackingClocks[i], m)}
TrkOffs == {m \in Msgs : \E i \in 1 .. 3 : m \in {Ask(Trk(i)), Off(Trk(i))}}
UfsOnInv ==
    call.fn = "ufs_clock_init" =>
        /\ Within(todo, UfsOns)
        /\ \A part \in Parts : Has(todo, Local("Join", part)) \/ part \in device
        /\ unheard = {} => /\ \A i \in Rows : RowPending(UfsClocks[i], Spoils(i))
                           /\ \A id \in ToSet(UfsResets) : Has(todo, Try("DEASSERT", id, 0)) \/ id \in released
UfsOffInv ==
    call.fn = "ufs_clock_deinit" =>
        Within(todo, UfsOffs) /\ (unheard = {} => \A i \in 4 .. 18 : OffPending(Ufs(i)))
TrackingInv ==
    call.fn = "tracking" =>
        /\ call.arg = TRUE => /\ Within(todo, TrkOns)
                              /\ unheard = {} => \A i \in 1 .. 3 : RowPending(TrackingClocks[i], TrkSpoils(i))
        /\ call.arg = FALSE => Within(todo, TrkOffs) /\ (unheard = {} => \A i \in 1 .. 3 : OffPending(Trk(i)))
TableInv == UfsOnInv /\ UfsOffInv /\ TrackingInv

LEMMA WithinTail ==
    ASSUME NEW s \in Seq(Msgs), s # << >>, NEW N, Within(s, N)
    PROVE  Head(s) \in N /\ Within(Tail(s), N)
<1>1. 1 \in DOMAIN s /\ Head(s) = s[1] /\ \A k \in DOMAIN Tail(s) : k + 1 \in DOMAIN s /\ Tail(s)[k] = s[k + 1]
  OBVIOUS
<1> QED
  BY <1>1 DEF Within

\* The list stays within what the function sends.
LEMMA WithinKept ==
    ASSUME CoreInv, Step, call.fn # "enable_qspi", NEW N, Within(todo, N)
    PROVE  m0 \in N /\ Within(todo', N)
<1>1. Running /\ todo \in Seq(Msgs) /\ todo # << >> /\ m0 = Head(todo) /\ AskedIn(todo)
  BY StepIs DEF CoreInv, TypeInv, Running, Fits, m0
<1>2. m0 \in N /\ Within(Tail(todo), N)
  BY <1>1, WithinTail
<1>3. CASE Skipped
  <2>1. Tail(todo) \in Seq(Msgs) /\ Tail(todo) # << >>
    BY <1>1, <1>3, TailKeeps DEF Skipped
  <2>2. Within(Tail(Tail(todo)), N)
    BY <1>2, <2>1, WithinTail
  <2> QED
    BY <1>2, <1>3, <2>2 DEF Skipped
<1>4. Within(<< >>, N)
  BY DEF Within
<1> QED
  BY <1>2, <1>3, <1>4, Shortened

LEMMA RowFields ==
    \A row : /\ RowOn(row).cmd = "ENABLE" /\ RowOn(row).id = row.id /\ ~RowOn(row).must
             /\ RowParent(row).cmd = "SET_PARENT" /\ RowParent(row).id = row.id /\ RowParent(row).arg = row.parent
             /\ ~RowParent(row).must
             /\ RowRate(row).cmd = "SET_RATE" /\ RowRate(row).id = row.id /\ RowRate(row).arg = row.rate
             /\ ~RowRate(row).must
BY DEF RowOn, RowParent, RowRate, Try, Message

\* A message that is obeyed and answered brings a row nearer to its end.
LEMMA RowKept ==
    ASSUME CoreInv, Step, NEW row, RowFits(row), NEW N, RowPending(row, N),
           todo' = Tail(todo), Heard \/ (clk' = clk /\ m0.cmd = "Join"), m0.cmd # "DISABLE",
           m0.cmd = "SET_PARENT" /\ m0.id = row.id => m0.arg = row.parent,
           m0.cmd \in {"SET_PARENT", "SET_RATE"} /\ m0.id \in Above(row.id) => m0 \in N \/ m0 = RowRate(row)
    PROVE  RowPending(row, N)'
<1> DEFINE c == row.id
           on == RowOn(row)
           p == RowParent(row)
           r == RowRate(row)
<1>1. todo \in Seq(Msgs) /\ todo # << >> /\ m0 = Head(todo) /\ c \in AllClocks
  BY StepIs DEF CoreInv, TypeInv, Running, m0, RowFits
<1>2. /\ on.cmd = "ENABLE" /\ on.id = c /\ p.cmd = "SET_PARENT" /\ p.id = c /\ p.arg = row.parent
      /\ r.cmd = "SET_RATE" /\ r.id = c /\ r.arg = row.rate
  BY RowFields
<1>3. Heard => Frame(m0)
  BY DEF Heard
<1>4. \A m : Has(todo, m) => m = m0 \/ Has(Tail(todo), m)
  BY <1>1, TailKeeps
<1> HIDE DEF on, p, r, c
<1>5. Has(todo', on) \/ clk'[c].on
  <2>1. CASE clk[c].on
    BY <1>1, <1>3, <2>1 DEF Frame
  <2>2. CASE on = m0
    BY <1>1, <1>2, <1>3, <2>2 DEF Frame
  <2> QED
    BY <1>4, <2>1, <2>2 DEF RowPending, on, c
<1>6. ASSUME row.parent # CLK_MAX PROVE Has(todo', p) \/ clk'[c].parent = row.parent
  <2>1. CASE clk[c].parent = row.parent
    BY <1>1, <1>3, <2>1 DEF Frame, c
  <2>2. CASE p = m0
    BY <1>1, <1>2, <1>3, <2>2 DEF Frame
  <2> QED
    BY <1>4, <1>6, <2>1, <2>2 DEF RowPending, p, c
<1>7. ASSUME row.rate # 0
      PROVE  Behind(todo', N, r) /\ (Has(todo', r) \/ clk'[c].rate = row.rate)
  <2>1. Behind(todo, N, r) /\ (Has(todo, r) \/ clk[c].rate = row.rate)
    BY <1>7 DEF RowPending, r, c
  <2>2. Behind(Tail(todo), N, r) /\ (m0 \in N => Has(Tail(todo), r))
    BY <1>1, <2>1, TailKeeps
  <2>3. CASE r = m0
    BY <1>1, <1>2, <1>3, <2>2, <2>3 DEF Frame
  <2>4. CASE clk[c].rate = row.rate /\ r # m0
    <3>1. clk'[c].rate = clk[c].rate \/ m0 \in N
      BY <1>1, <1>3, <2>4 DEF Frame, c, r
    <3> QED
      BY <2>2, <2>4, <3>1
  <2> QED
    BY <1>4, <2>1, <2>2, <2>3, <2>4
<1> QED
  BY <1>5, <1>6, <1>7 DEF RowPending, on, p, r, c

\* A clock that is to be turned off is off or still to be turned off.
LEMMA OffKept ==
    ASSUME CoreInv, Step, NEW c \in AllClocks, OffPending(c), unheard' = {},
           m0.cmd = "DISABLE" \/ (m0.cmd = "IS_ENABLED" /\ m0.arg = "skip if off")
    PROVE  OffPending(c)' /\ unheard = {}
<1>1. todo \in Seq(Msgs) /\ todo # << >> /\ m0 = Head(todo) /\ m0 \in Msgs /\ AskedIn(todo) /\ clk \in ClkType
  BY StepIs DEF CoreInv, TypeInv, Running, m0, Fits
<1>2. Heard
  BY StepIs DEF IsMessage, Missed
<1>3. clk'[c].on => clk[c].on
  BY <1>2 DEF Heard, Frame
<1>4. Off(c).cmd = "DISABLE" /\ Off(c).id = c
  BY DEF Off, Try, Message
<1>5. SUFFICES ASSUME clk'[c].on PROVE Has(todo', Off(c))
  BY <1>2 DEF OffPending, Heard
<1>6. Has(todo, Off(c)) /\ clk[c].on
  BY <1>3, <1>5 DEF OffPending
<1>7. Off(c) # m0
  <2> SUFFICES ASSUME Off(c) = m0 PROVE FALSE
    OBVIOUS
  <2>1. ~clk'[c].on
    BY <1>2, <1>4 DEF Heard, Frame
  <2> QED
    BY <1>5, <2>1
<1>8. Has(Tail(todo), Off(c))
  BY <1>1, <1>6, <1>7, TailKeeps
<1>9. CASE m0.cmd = "DISABLE"
  BY <1>2, <1>8, <1>9 DEF Heard
<1>10. CASE m0.cmd = "IS_ENABLED" /\ m0.arg = "skip if off"
  <2>1. todo' = IF clk[m0.id].on THEN Tail(todo) ELSE Tail(Tail(todo))
    BY <1>2, <1>10 DEF Heard, Asked
  <2>2. CASE m0.id = c
    BY <1>6, <1>8, <2>1, <2>2
  <2>3. CASE m0.id # c
    <3>1. Tail(todo) \in Seq(Msgs) /\ Tail(todo) # << >> /\ Head(Tail(todo)).id = m0.id
      BY <1>1, <1>10, TailKeeps
    <3>2. Has(Tail(Tail(todo)), Off(c))
      BY <1>4, <1>8, <2>3, <3>1, TailKeeps
    <3> QED
      BY <1>8, <2>1, <3>2
  <2> QED
    BY <2>2, <2>3
<1> QED
  BY <1>9, <1>10

\* A clock of UFS is derived from those of the rows before its own.
LEMMA UfsAbove ==
    ASSUME CoreInv, NEW i \in Rows, NEW a \in Rows, Ufs(a) \in Above(Ufs(i))
    PROVE  a <= i
<1> DEFINE S == {Ufs(j) : j \in 1 .. i} \cup {"PLLP_OUT0"}
<1>1. \A j \in Rows : UfsClocks[j].parent \in {CLK_MAX, "PLLP_OUT0"} \cup {Ufs(k) : k \in 1 .. j - 1}
  BY DEF Rows, UfsClocks, Row, Ufs, CLK_MAX
<1>2. CLK_MAX \notin AllClocks
  <2>1. CLK_MAX \notin {UfsClocks[j].id : j \in DOMAIN UfsClocks} \cup {TrackingClocks[j].id : j \in DOMAIN TrackingClocks}
    BY DEF UfsClocks, TrackingClocks, Row, CLK_MAX
  <2> QED
    BY <2>1 DEF CLK_MAX, AllClocks, AtBoot, ClockAndReset, ClockOnly, Pllc4Outs, Renamed, SameName
<1>3. \A j \in Rows : clk[Ufs(j)].parent \in {"OSC", UfsClocks[j].parent} /\ clk[Ufs(j)].parent \in AllClocks
  BY RowsFit DEF CoreInv, TypeInv, TreeInv, ClkType
<1>4. clk["PLLP_OUT0"].parent = "OSC"
  BY DEF CoreInv, TreeInv, AtBoot
<1>5. Ufs(1) = "OSC" /\ 1 \in 1 .. i /\ 1 .. i \subseteq Rows /\ i \in 1 .. i /\ \A j \in 1 .. i : 1 .. j - 1 \subseteq 1 .. i
  BY UfsTable DEF Rows
<1>6. \A j \in 1 .. i : clk[Ufs(j)].parent \in S
  <2> SUFFICES ASSUME NEW j \in 1 .. i PROVE clk[Ufs(j)].parent \in S
    OBVIOUS
  <2>1. clk[Ufs(j)].parent \in {"OSC", "PLLP_OUT0"} \cup {Ufs(k) : k \in 1 .. j - 1}
    BY <1>1, <1>2, <1>3, <1>5
  <2> QED
    BY <1>5, <2>1
<1>7. Closed(S)
  BY <1>4, <1>5, <1>6 DEF Closed
<1>8. Ufs(i) \in S
  BY <1>5
<1>9. Ufs(a) \in S
  BY <1>7, <1>8, AboveClosed
<1>10. Ufs(a) # "PLLP_OUT0"
  BY DEF Rows, Ufs, UfsClocks, Row
<1>11. PICK j \in 1 .. i : Ufs(a) = Ufs(j)
  BY <1>9, <1>10
<1>12. a = j
  BY <1>5, <1>11, UfsTable
<1> QED
  BY <1>11, <1>12 DEF Rows

LEMMA UfsOnStep ==
    ASSUME CoreInv, UfsOnInv, Step
    PROVE  UfsOnInv'
<1> SUFFICES ASSUME call.fn = "ufs_clock_init" PROVE UfsOnInv'
  BY StepIs DEF UfsOnInv
<1>1. Within(todo, UfsOns) /\ call' = call
  BY StepIs DEF UfsOnInv
<1>2. m0 \in UfsOns /\ Within(todo', UfsOns)
  BY <1>1, WithinKept
<1>3. todo \in Seq(Msgs) /\ todo # << >> /\ m0 = Head(todo) /\ m0 \in Msgs
  BY StepIs DEF CoreInv, TypeInv, Running, m0
<1>4. \/ m0.cmd \in {"DEASSERT", "Join"}
      \/ \E i \in Rows : OfRow(UfsClocks[i], m0)
  BY <1>2 DEF UfsOns
<1>5. \/ m0.cmd \in {"DEASSERT", "Join"}
      \/ \E a \in Rows : /\ m0.id = Ufs(a) /\ ~m0.must
                         /\ \/ m0.cmd = "ENABLE"
                            \/ m0.cmd = "SET_PARENT" /\ m0.arg = UfsClocks[a].parent
                            \/ m0.cmd = "SET_RATE" /\ m0 = RowRate(UfsClocks[a])
  <2>1. ASSUME NEW a \in Rows, OfRow(UfsClocks[a], m0)
        PROVE  /\ m0.id = UfsClocks[a].id /\ ~m0.must
               /\ \/ m0.cmd = "ENABLE"
                  \/ m0.cmd = "SET_PARENT" /\ m0.arg = UfsClocks[a].parent
                  \/ m0.cmd = "SET_RATE" /\ m0 = RowRate(UfsClocks[a])
    BY <2>1, RowFields DEF OfRow
  <2> QED
    BY <1>4, <2>1 DEF Ufs
<1>6. m0.cmd \in {"ENABLE", "SET_PARENT", "SET_RATE", "DEASSERT", "Join"} /\ (m0.cmd # "Join" => ~m0.must)
  <2>1. m0.cmd = "DEASSERT" => ~m0.must
    BY <1>3, MsgFields
  <2> QED
    BY <1>5, <2>1
<1>7. todo' = Tail(todo) /\ (Heard \/ Missed \/ (m0.cmd = "Join" /\ clk' = clk /\ unheard' = unheard /\ released' = released))
  <2>1. CASE m0.cmd = "Join"
    BY <2>1, StepIs DEF IsMessage
  <2>2. CASE m0.cmd # "Join"
    <3>1. Heard \/ Missed
      BY <1>6, <2>2, StepIs DEF IsMessage
    <3> QED
      BY <1>6, <2>2, <3>1 DEF Heard, Missed
  <2> QED
    BY <2>1, <2>2
<1>8. \A m : Has(todo, m) => m = m0 \/ Has(todo', m)
  BY <1>3, <1>7, TailKeeps
<1>9. ASSUME NEW part \in Parts PROVE Has(todo', Local("Join", part)) \/ part \in device'
  <2>1. Has(todo, Local("Join", part)) \/ part \in device
    BY DEF UfsOnInv
  <2>2. Local("Join", part).cmd = "Join" /\ Local("Join", part).arg = part
    BY DEF Local, Message
  <2>3. m0.cmd = "Join" => device' = device \cup {m0.arg}
    BY StepIs
  <2>4. m0.cmd # "Join" => device' = device
    BY <1>7 DEF Heard, Missed
  <2> QED
    BY <1>8, <2>1, <2>2, <2>3, <2>4
<1>10. ASSUME unheard' = {}
       PROVE  /\ \A i \in Rows : RowPending(UfsClocks[i], Spoils(i))'
              /\ \A id \in ToSet(UfsResets) : Has(todo', Try("DEASSERT", id, 0)) \/ id \in released'
  <2>1. unheard = {} /\ (Heard \/ (clk' = clk /\ m0.cmd = "Join"))
    BY <1>7, <1>10 DEF Heard, Missed
  <2>2. ASSUME NEW i \in Rows PROVE RowPending(UfsClocks[i], Spoils(i))'
    <3> DEFINE row == UfsClocks[i]
    <3>1. RowPending(row, Spoils(i)) /\ RowFits(row) /\ row.id = Ufs(i)
      BY <2>1, RowsFit DEF UfsOnInv, Ufs
    <3>2. m0.cmd = "SET_PARENT" /\ m0.id = row.id => m0.arg = row.parent
      BY <1>5, <3>1, UfsTable
    <3>3. ASSUME m0.cmd \in {"SET_PARENT", "SET_RATE"}, m0.id \in Above(row.id)
          PROVE  m0 \in Spoils(i) \/ m0 = RowRate(row)
      <4>1. PICK a \in Rows : /\ m0.id = Ufs(a)
                              /\ m0.cmd = "SET_PARENT" \/ (m0.cmd = "SET_RATE" /\ m0 = RowRate(UfsClocks[a]))
        BY <1>5, <3>3
      <4>2. a <= i
        BY <3>1, <3>3, <4>1, UfsAbove
      <4>3. a \in 1 .. i /\ (a # i => a \in 1 .. i - 1)
        BY <4>2 DEF Rows
      <4> QED
        BY <1>3, <4>1, <4>3 DEF Spoils
    <3> HIDE DEF row
    <3>4. RowPending(row, Spoils(i))'
      BY <1>6, <1>7, <2>1, <3>1, <3>2, <3>3, RowKept
    <3> QED
      BY <3>4 DEF row
  <2>3. ASSUME NEW id \in ToSet(UfsResets) PROVE Has(todo', Try("DEASSERT", id, 0)) \/ id \in released'
    <3>1. Has(todo, Try("DEASSERT", id, 0)) \/ id \in released
      BY <2>1 DEF UfsOnInv
    <3>2. Try("DEASSERT", id, 0).cmd = "DEASSERT" /\ Try("DEASSERT", id, 0).id = id
      BY Fields
    <3>3. released \subseteq released' /\ (m0.cmd = "DEASSERT" => m0.id \in released')
      <4>1. CASE Heard
        BY <1>6, <4>1 DEF Heard, Obeyed
      <4>2. CASE m0.cmd = "Join"
        BY <4>2, StepIs DEF IsMessage
      <4> QED
        BY <2>1, <4>1, <4>2
    <3> QED
      BY <1>8, <3>1, <3>2, <3>3
  <2> QED
    BY <2>2, <2>3
<1> QED
  BY <1>1, <1>2, <1>9, <1>10 DEF UfsOnInv

LEMMA OffStep ==
    ASSUME CoreInv, Step, call.fn # "enable_qspi",
           NEW ids \in SUBSET AllClocks, NEW N, Within(todo, N), \A m \in N : \E c \in ids : m \in {Ask(c), Off(c)},
           unheard = {} => \A c \in ids : OffPending(c)
    PROVE  Within(todo', N) /\ (unheard' = {} => \A c \in ids : OffPending(c)')
<1>1. m0 \in N /\ Within(todo', N)
  BY WithinKept
<1>2. m0.cmd = "DISABLE" \/ (m0.cmd = "IS_ENABLED" /\ m0.arg = "skip if off")
  <2>1. PICK c \in ids : m0 \in {Ask(c), Off(c)}
    BY <1>1
  <2>2. Ask(c).cmd = "IS_ENABLED" /\ Ask(c).arg = "skip if off" /\ Off(c).cmd = "DISABLE"
    BY DEF Ask, Off, Try, Message
  <2>3. CASE m0 = Ask(c)
    BY <2>2, <2>3
  <2>4. CASE m0 = Off(c)
    BY <2>2, <2>4
  <2> QED
    BY <2>1, <2>3, <2>4
<1>3. unheard' = {} => unheard = {}
  BY <1>2, StepIs DEF IsMessage, Heard, Missed
<1> QED
  BY <1>1, <1>2, <1>3, OffKept

LEMMA UfsOffStep ==
    ASSUME CoreInv, UfsOffInv, Step
    PROVE  UfsOffInv'
<1> SUFFICES ASSUME call.fn = "ufs_clock_deinit" PROVE UfsOffInv'
  BY StepIs DEF UfsOffInv
<1> DEFINE ids == {Ufs(i) : i \in 4 .. 18}
<1>1. ids \in SUBSET AllClocks
  BY RowsFit DEF Rows
<1>2. \A m \in UfsOffs : \E c \in ids : m \in {Ask(c), Off(c)}
  BY DEF UfsOffs
<1>3. Within(todo, UfsOffs) /\ (unheard = {} => \A c \in ids : OffPending(c))
  BY DEF UfsOffInv
<1> HIDE DEF ids
<1>4. Within(todo', UfsOffs) /\ (unheard' = {} => \A c \in ids : OffPending(c)')
  BY <1>1, <1>2, <1>3, OffStep
<1> QED
  BY <1>4, StepIs DEF UfsOffInv, ids

LEMMA TrackingStep ==
    ASSUME CoreInv, TrackingInv, Step
    PROVE  TrackingInv'
<1> SUFFICES ASSUME call.fn = "tracking" PROVE TrackingInv'
  BY StepIs DEF TrackingInv
<1>1. call' = call
  BY StepIs
<1>2. ASSUME call.arg = FALSE
      PROVE  Within(todo', TrkOffs) /\ (unheard' = {} => \A i \in 1 .. 3 : OffPending(Trk(i))')
  <2>1. TrackingIds \in SUBSET AllClocks
    BY MovesAre
  <2>2. \A m \in TrkOffs : \E c \in TrackingIds : m \in {Ask(c), Off(c)}
    BY TrkTable DEF TrkOffs
  <2>3. Within(todo, TrkOffs) /\ (unheard = {} => \A c \in TrackingIds : OffPending(c))
    BY <1>2, TrkTable DEF TrackingInv
  <2>4. Within(todo', TrkOffs) /\ (unheard' = {} => \A c \in TrackingIds : OffPending(c)')
    BY <2>1, <2>2, <2>3, OffStep
  <2> QED
    BY <2>4, TrkTable
<1>3. ASSUME call.arg = TRUE
      PROVE  /\ Within(todo', TrkOns)
             /\ unheard' = {} => \A i \in 1 .. 3 : RowPending(TrackingClocks[i], TrkSpoils(i))'
  <2>1. m0 \in TrkOns /\ Within(todo', TrkOns)
    BY <1>3, WithinKept DEF TrackingInv
  <2>2. PICK a \in 1 .. 3 : OfRow(TrackingClocks[a], m0)
    BY <2>1 DEF TrkOns
  <2>3. /\ m0.id = Trk(a) /\ ~m0.must /\ m0 \in Msgs
        /\ \/ m0.cmd = "ENABLE"
           \/ m0.cmd = "SET_PARENT" /\ m0.arg = TrackingClocks[a].parent
           \/ m0.cmd = "SET_RATE" /\ m0 = RowRate(TrackingClocks[a])
    <3>1. /\ m0.id = TrackingClocks[a].id /\ ~m0.must
          /\ \/ m0.cmd = "ENABLE"
             \/ m0.cmd = "SET_PARENT" /\ m0.arg = TrackingClocks[a].parent
             \/ m0.cmd = "SET_RATE" /\ m0 = RowRate(TrackingClocks[a])
      BY <2>2, RowFields DEF OfRow
    <3>2. m0 \in Msgs
      BY <2>1 DEF TrkOns
    <3> QED
      BY <3>1, <3>2 DEF Trk
  <2>4. Heard \/ Missed
    BY <2>3, StepIs DEF IsMessage
  <2>5. ASSUME unheard' = {}, NEW i \in 1 .. 3 PROVE RowPending(TrackingClocks[i], TrkSpoils(i))'
    <3> DEFINE row == TrackingClocks[i]
    <3>1. Heard /\ unheard = {}
      BY <2>4, <2>5 DEF Heard, Missed
    <3>2. todo' = Tail(todo)
      BY <2>3, <3>1 DEF Heard
    <3>3. RowPending(row, TrkSpoils(i)) /\ RowFits(row) /\ row.id = Trk(i)
      BY <1>3, <3>1, RowsFit DEF TrackingInv, Trk
    <3>4. m0.id = row.id => a = i
      <4>1. m0.id = row.id => Trk(a) = Trk(i)
        BY <2>3, <3>3
      <4> QED
        BY <4>1, TrkTable
    <3>5. ASSUME m0.id \in Above(row.id) PROVE a = i
      <4> DEFINE S == {Trk(i), "OSC"}
      <4>1. Trk(i) \in TrackingIds
        BY TrkTable
      <4>2. Closed(S)
        BY <4>1 DEF Closed, CoreInv, TreeInv, AtBoot
      <4>3. Trk(a) \in S
        BY <2>3, <3>3, <3>5, <4>2, AboveClosed
      <4>4. Trk(a) # "OSC"
        BY DEF Trk, TrackingClocks, Row
      <4> QED
        BY <4>3, <4>4, TrkTable
    <3>6. ASSUME m0.cmd \in {"SET_PARENT", "SET_RATE"}, m0.id \in Above(row.id)
          PROVE  m0 \in TrkSpoils(i) \/ m0 = RowRate(row)
      BY <2>3, <3>5, <3>6 DEF TrkSpoils
    <3>7. m0.cmd = "SET_PARENT" /\ m0.id = row.id => m0.arg = row.parent
      BY <2>3, <3>4
    <3>8. m0.cmd # "DISABLE"
      BY <2>3
    <3> HIDE DEF row
    <3>9. RowPending(row, TrkSpoils(i))'
      BY <3>1, <3>2, <3>3, <3>6, <3>7, <3>8, RowKept
    <3> QED
      BY <3>9 DEF row
  <2> QED
    BY <2>1, <2>5
<1> QED
  BY <1>1, <1>2, <1>3 DEF TrackingInv

LEMMA TableStep == ASSUME CoreInv, TableInv, Step PROVE TableInv'
BY UfsOnStep, UfsOffStep, TrackingStep DEF TableInv

LEMMA TableCall ==
    ASSUME CoreInv, NEW c \in menu, Call(c)
    PROVE  TableInv'
<1>1. call' = c /\ InInterface(c)
  BY CallKept DEF Call
<1>2. c.fn = "ufs_clock_init" => todo' = UfsProgramClock
  BY DEF Call, ToDo
<1>3. c.fn = "ufs_clock_deinit" => todo' = UfsClockDeinit
  BY DEF Call, ToDo
<1>4. c.fn = "tracking" => todo' = TrackingClock(c.arg)
  BY DEF Call, ToDo
<1>5. Within(UfsProgramClock, UfsOns)
  <2>1. UfsProgramClock \in Seq(Msgs)
        /\ \A k \in DOMAIN UfsProgramClock : \/ \E i \in Rows : OfRow(UfsClocks[i], UfsProgramClock[k])
                                             \/ UfsProgramClock[k].cmd \in {"DEASSERT", "Join"}
    BY UfsInitList
  <2>2. \A k \in DOMAIN UfsProgramClock : UfsProgramClock[k] \in Msgs
    BY <2>1
  <2> QED
    BY <2>1, <2>2, Zenon DEF Within, UfsOns
<1>6. Within(UfsClockDeinit, UfsOffs)
  <2>1. UfsClockDeinit \in Seq(Msgs)
        /\ \A k \in DOMAIN UfsClockDeinit : \E i \in 4 .. 18 : UfsClockDeinit[k] \in {Ask(Ufs(i)), Off(Ufs(i))}
    BY UfsDeinitList
  <2>2. \A k \in DOMAIN UfsClockDeinit : UfsClockDeinit[k] \in Msgs
    BY <2>1
  <2> QED
    BY <2>1, <2>2, Zenon DEF Within, UfsOffs
<1>7. Within(TrackingClock(TRUE), TrkOns)
  <2> DEFINE L == TrackingClock(TRUE)
  <2>1. L \in Seq(Msgs) /\ \A k \in DOMAIN L : \E i \in 1 .. 3 : OfRow(TrackingClocks[i], L[k])
    BY TrackingOnList
  <2> HIDE DEF L
  <2>2. \A k \in DOMAIN L : L[k] \in Msgs
    BY <2>1
  <2>3. Within(L, TrkOns)
    BY <2>1, <2>2, Zenon DEF Within, TrkOns
  <2> QED
    BY <2>3 DEF L
<1>8. Within(TrackingClock(FALSE), TrkOffs)
  <2> DEFINE L == TrackingClock(FALSE)
  <2>1. L \in Seq(Msgs) /\ \A k \in DOMAIN L : \E i \in 1 .. 3 : L[k] \in {Ask(Trk(i)), Off(Trk(i))}
    BY TrackingOffList
  <2> HIDE DEF L
  <2>2. \A k \in DOMAIN L : L[k] \in Msgs
    BY <2>1
  <2>3. Within(L, TrkOffs)
    BY <2>1, <2>2, Zenon DEF Within, TrkOffs
  <2> QED
    BY <2>3 DEF L
<1>9. UfsOnInv'
  <2> SUFFICES ASSUME c.fn = "ufs_clock_init" PROVE UfsOnInv'
    BY <1>1 DEF UfsOnInv
  <2>1. todo' = UfsProgramClock
    BY <1>2
  <2>2. \A part \in Parts : Has(todo', Local("Join", part))
    BY <2>1, UfsInitList
  <2>3. \A id \in ToSet(UfsResets) : Has(todo', Try("DEASSERT", id, 0))
    BY <2>1, UfsInitList
  <2>4. \A i \in Rows : RowPending(UfsClocks[i], Spoils(i))'
    <3> SUFFICES ASSUME NEW i \in Rows PROVE RowPending(UfsClocks[i], Spoils(i))'
      OBVIOUS
    <3>1. On(Ufs(i)) = RowOn(UfsClocks[i])
      BY DEF On, RowOn, Ufs
    <3>2. /\ Has(todo', RowOn(UfsClocks[i]))
          /\ UfsClocks[i].parent # CLK_MAX => Has(todo', RowParent(UfsClocks[i]))
          /\ UfsClocks[i].rate # 0 =>
                Has(todo', RowRate(UfsClocks[i])) /\ Behind(todo', Spoils(i), RowRate(UfsClocks[i]))
      BY <2>1, <3>1, UfsInitList
    <3> QED
      BY <3>2 DEF RowPending
  <2> QED
    BY <1>5, <2>1, <2>2, <2>3, <2>4 DEF UfsOnInv
<1>10. UfsOffInv'
  <2> SUFFICES ASSUME c.fn = "ufs_clock_deinit" PROVE UfsOffInv'
    BY <1>1 DEF UfsOffInv
  <2>1. \A i \in 4 .. 18 : Has(todo', Off(Ufs(i)))
    BY <1>3, UfsDeinitList
  <2>2. \A i \in 4 .. 18 : OffPending(Ufs(i))'
    BY <2>1 DEF OffPending
  <2> QED
    BY <1>3, <1>6, <2>2 DEF UfsOffInv
<1>11. TrackingInv'
  <2> SUFFICES ASSUME c.fn = "tracking" PROVE TrackingInv'
    BY <1>1 DEF TrackingInv
  <2>1. CASE c.arg = TRUE
    <3>1. todo' = TrackingClock(TRUE)
      BY <1>4, <2>1
    <3>2. \A i \in 1 .. 3 : RowPending(TrackingClocks[i], TrkSpoils(i))'
      BY <3>1, TrackingOnList DEF RowPending
    <3> QED
      BY <1>1, <1>7, <2>1, <3>1, <3>2 DEF TrackingInv
  <2>2. CASE c.arg = FALSE
    <3>1. todo' = TrackingClock(FALSE)
      BY <1>4, <2>2
    <3>2. \A i \in 1 .. 3 : OffPending(Trk(i))'
      BY <3>1, TrackingOffList DEF OffPending
    <3> QED
      BY <1>1, <1>8, <2>2, <3>1, <3>2 DEF TrackingInv
  <2>3. c.arg \in BOOLEAN
    BY <1>1 DEF InInterface
  <2> QED
    BY <2>1, <2>2, <2>3
<1> QED
  BY <1>9, <1>10, <1>11 DEF TableInv

---------------------------------------------------------------------------
(* What success means.                                                     *)

\* The name of a source is found again from its identifier.
LEMMA SourceFound ==
    /\ \A src : IdOfSource(src) # CLK_MAX => SourceOfId(IdOfSource(src)) = src
    /\ \A id \in Pllc4Outs : SourceOfId(id) = "PLLC4_MUXED"
    /\ SourceOfId("PLLP_OUT0") = "PLLP_OUT0"
<1>1. /\ SameName \cap Pllc4Outs = {} /\ SameName \cap DOMAIN Renamed = {} /\ "PLLP_OUT0" \in SameName
      /\ \A src \in DOMAIN Renamed : Renamed[src] \notin SameName \cup Pllc4Outs
      /\ \A a, b \in DOMAIN Renamed : Renamed[a] = Renamed[b] => a = b
      /\ \A src \in DOMAIN Renamed : Renamed[src] # CLK_MAX
  BY DEF SameName, Pllc4Outs, Renamed, CLK_MAX
<1>2. ASSUME NEW id \in SameName PROVE SourceOfId(id) = id
  BY <1>1 DEF SourceOfId
<1>3. ASSUME NEW id \in Pllc4Outs PROVE SourceOfId(id) = "PLLC4_MUXED"
  BY <1>1 DEF SourceOfId
<1>4. ASSUME NEW src \in DOMAIN Renamed PROVE SourceOfId(Renamed[src]) = src
  <2> DEFINE id == Renamed[src]
             found == CHOOSE a \in DOMAIN Renamed : Renamed[a] = id
  <2>1. id \notin SameName /\ id \notin Pllc4Outs /\ \E a \in DOMAIN Renamed : Renamed[a] = id
    BY <1>1
  <2>2. found \in DOMAIN Renamed /\ Renamed[found] = id
    BY <2>1
  <2>3. found = src
    <3> HIDE DEF found
    <3> QED
      BY <1>1, <2>2
  <2>4. SourceOfId(id) = found
    BY <2>1, Zenon DEF SourceOfId
  <2> QED
    BY <2>3, <2>4
<1>5. ASSUME NEW src, IdOfSource(src) # CLK_MAX PROVE SourceOfId(IdOfSource(src)) = src
  <2>1. CASE src \in SameName
    <3>1. IdOfSource(src) = src
      BY <1>1, <2>1 DEF IdOfSource
    <3> QED
      BY <1>2, <2>1, <3>1
  <2>2. CASE src \in DOMAIN Renamed
    <3>1. IdOfSource(src) = Renamed[src]
      BY <1>1, <2>2 DEF IdOfSource
    <3> QED
      BY <1>4, <2>2, <3>1
  <2>3. CASE src \notin SameName /\ src \notin DOMAIN Renamed
    BY <1>5, <2>3, Zenon DEF IdOfSource
  <2> QED
    BY <2>1, <2>2, <2>3
<1> QED
  BY <1>1, <1>2, <1>3, <1>5

DoneInv == CoreInv /\ PllInv /\ ModuleInv /\ PowerInv /\ TableInv

LEMMA DoneInit == Init => DoneInv
<1> SUFFICES ASSUME Init PROVE DoneInv
  OBVIOUS
<1>1. call.fn = "none"
  BY DEF Init
<1>2. CoreInv
  BY CoreInit
<1> QED
  BY <1>1, <1>2 DEF DoneInv, PllInv, ModuleInv, EnableInv, DisableInv, SourceInv, RateInv, SourceRateInv, ResetInv,
                    PowerInv, TableInv, UfsOnInv, UfsOffInv, TrackingInv

LEMMA DoneStep == DoneInv /\ [Next]_vars => DoneInv'
<1> SUFFICES ASSUME DoneInv, [Next]_vars PROVE DoneInv'
  OBVIOUS
<1>1. CoreInv /\ CoreInv' /\ PllInv /\ PllInv' /\ ModuleInv /\ PowerInv /\ TableInv
  BY CoreStep, PllKept DEF DoneInv
<1>2. CASE UNCHANGED vars
  <2>1. clk' = clk /\ released' = released /\ powered' = powered /\ device' = device /\ muxed' = muxed
        /\ call' = call /\ todo' = todo /\ result' = result /\ unheard' = unheard
    BY <1>2 DEF vars, bpmp
  <2>2. EnableInv' /\ DisableInv' /\ SourceInv' /\ RateInv' /\ SourceRateInv' /\ ResetInv'
    BY <1>1, <2>1 DEF ModuleInv, EnableInv, DisableInv, SourceInv, RateInv, SourceRateInv, ResetInv
  <2>3. PowerInv'
    BY <1>1, <2>1 DEF PowerInv
  <2>4. \A row, N : RowPending(row, N)' <=> RowPending(row, N)
    BY <2>1 DEF RowPending
  <2>5. \A c : OffPending(c)' <=> OffPending(c)
    BY <2>1 DEF OffPending
  <2>6. UfsOnInv' /\ UfsOffInv' /\ TrackingInv'
    BY <1>1, <2>1, <2>4, <2>5 DEF TableInv, UfsOnInv, UfsOffInv, TrackingInv
  <2> QED
    BY <1>1, <2>2, <2>3, <2>6 DEF DoneInv, ModuleInv, TableInv
<1>3. ASSUME NEW c \in menu, Call(c) PROVE DoneInv'
  BY <1>1, <1>3, ModuleCall, PowerCall, TableCall DEF DoneInv
<1>4. CASE Step
  BY <1>1, <1>4, ModuleStep, PowerStep, TableStep DEF DoneInv
<1> QED
  BY <1>2, <1>3, <1>4, NextIs

\* A row is as the table says when there is nothing left to send.
LEMMA NothingLeft ==
    ASSUME todo = << >>
    PROVE  /\ \A m : ~Has(todo, m)
           /\ todo # NotSupported /\ \A a : todo # << a >> /\ \A b : todo # << a, b >> /\ \A c : todo # << a, b, c >>
<1>1. \A m : ~Has(todo, m)
  BY DEF Has
<1>2. \A a : todo # << a >>
  OBVIOUS
<1>3. \A a, b : todo # << a, b >>
  OBVIOUS
<1>4. \A a, b, c : todo # << a, b, c >>
  OBVIOUS
<1>5. todo # NotSupported
  BY <1>2 DEF NotSupported
<1> QED
  BY <1>1, <1>2, <1>3, <1>4, <1>5

LEMMA DoneIs ==
    ASSUME DoneInv, ~Running, result = "ok"
    PROVE  Done
<1> DEFINE id == call.id
<1>1. todo = << >> /\ (call.fn = "none" \/ InInterface(call)) /\ CoreInv
  BY DEF Running, DoneInv, CoreInv, TypeInv
<1>2. /\ \A m : ~Has(todo, m)
      /\ todo # NotSupported /\ \A a : todo # << a >> /\ \A b : todo # << a, b >> /\ \A c : todo # << a, b, c >>
  BY <1>1, NothingLeft
<1>3. ASSUME NEW cmd, << cmd, id >> \in unheard PROVE Unheard(cmd)
  BY <1>3 DEF Unheard
<1>4. CASE call.fn = "clk_enable"
  BY <1>2, <1>4 DEF Done, DoneInv, ModuleInv, EnableInv
<1>5. CASE call.fn = "clk_disable"
  <2>1. HasClock(id) => ~clk[id].on \/ << "IS_ENABLED", id >> \in unheard
    BY <1>2, <1>5 DEF DoneInv, ModuleInv, DisableInv, DisableIfOn
  <2> QED
    BY <1>3, <1>5, <2>1 DEF Done
<1>6. CASE call.fn = "set_clk_src"
  <2>1. IdOfSource(call.arg) # CLK_MAX /\ clk[id].parent = IdOfSource(call.arg)
    BY <1>2, <1>6 DEF DoneInv, ModuleInv, SourceInv
  <2> QED
    BY <1>6, <2>1, SourceFound DEF Done
<1>7. CASE call.fn = "set_clk_rate"
  <2>1. clk[id].rate = call.arg /\ (clk[id].on \/ << "ENABLE", id >> \in unheard)
    BY <1>2, <1>7 DEF DoneInv, ModuleInv, RateInv, SetRate
  <2> QED
    BY <1>3, <1>7, <2>1 DEF Done
<1>8. CASE call.fn = "set_clk_src_rate"
  BY <1>2, <1>8 DEF Done, DoneInv, ModuleInv, SourceRateInv
<1>9. CASE call.fn = "enable_qspi"
  <2>1. EnableQspi(id, call.arg) # << >>
    <3> DEFINE g == Try("GET_RATE", "PLLC4_VCO", 0)
               p == Local("ChooseParent", [src |-> id, divisor |-> call.arg])
    <3>1. EnableQspi(id, call.arg) = (IF id = "PLLC4_MUXED" THEN << g >> ELSE << >>) \o << p >>
      BY Zenon DEF EnableQspi
    <3> HIDE DEF g, p
    <3>2. << g >> \o << p >> # << >> /\ << >> \o << p >> # << >>
      OBVIOUS
    <3> QED
      BY <3>1, <3>2
  <2>2. QspiInv /\ id \in QspiSources
    BY <1>1, <1>9 DEF CoreInv, InInterface
  <2>3. PICK p \in QspiParents(id) :
          p \in AllClocks /\ clk["QSPI"].parent = p /\ clk["QSPI"].rate = QspiRate(p, call.arg) /\ clk["QSPI"].on
    BY <1>1, <1>2, <1>9, <2>1, <2>2 DEF QspiInv
  <2>4. SourceOfId(p) = id
    <3>1. id = "CLK_M" => p = "GPU"
      BY DEF QspiParents
    <3>2. id = "PLLC4_MUXED" => p \in Pllc4Outs
      BY DEF QspiParents
    <3>3. id = "PLLP_OUT0" => p = "PLLP_OUT0"
      BY DEF QspiParents
    <3>4. "GPU" \notin AllClocks
      BY MovesAre
    <3> QED
      BY <2>2, <2>3, <3>1, <3>2, <3>3, <3>4, SourceFound DEF QspiSources
  <2>5. clk["QSPI"].on /\ SourceOfId(clk["QSPI"].parent) = id
        /\ clk["QSPI"].rate = RateOf(clk["QSPI"].parent) \div ((call.arg + 1) \div 2 + 1)
    BY <2>3, <2>4 DEF QspiRate
  <2> QED
    BY <1>9, <2>5 DEF Done
<1>10. CASE call.fn = "init_pll"
  <2>1. PllId(id) # CLK_MAX /\ clk[PllId(id)].on /\ (PllId(id) \in before \/ clk[PllId(id)].rate = call.arg)
    BY <1>2, <1>10 DEF DoneInv, PllInv, InitPll
  <2> QED
    BY <1>10, <2>1 DEF Done
<1>11. CASE call.fn \in {"rst_set", "rst_clear"}
  BY <1>2, <1>11 DEF Done, DoneInv, ModuleInv, ResetInv
<1>12. CASE call.fn = "tracking"
  <2>1. call.arg \in BOOLEAN
    BY <1>1, <1>12 DEF InInterface
  <2>2. CASE call.arg = TRUE
    <3>1. unheard = {} => AsInTable(TrackingClocks)
      BY <1>2, <1>12, <2>2, RowsFit DEF DoneInv, TableInv, TrackingInv, RowPending, AsInTable
    <3> QED
      BY <1>12, <2>2, <3>1 DEF Done
  <2>3. CASE call.arg = FALSE
    <3>1. unheard = {} => \A i \in DOMAIN TrackingClocks : ~clk[TrackingClocks[i].id].on
      BY <1>2, <1>12, <2>3, RowsFit DEF DoneInv, TableInv, TrackingInv, OffPending, Trk
    <3> QED
      BY <1>12, <2>3, <3>1 DEF Done
  <2> QED
    BY <2>1, <2>2, <2>3
<1>13. CASE call.fn = "ufs_clock_init"
  <2>1. unheard = {} => AsInTable(UfsClocks) /\ ToSet(UfsResets) \subseteq released
    BY <1>2, <1>13, UfsTable DEF DoneInv, TableInv, UfsOnInv, RowPending, AsInTable
  <2>2. device = Parts
    BY <1>1, <1>2, <1>13 DEF DoneInv, TableInv, UfsOnInv, CoreInv, TypeInv
  <2> QED
    BY <1>13, <2>1, <2>2 DEF Done, Parts
<1>14. CASE call.fn = "ufs_clock_deinit"
  <2>1. unheard = {} => \A i \in 4 .. Len(UfsClocks) : ~clk[UfsClocks[i].id].on
    BY <1>2, <1>14, UfsTable DEF DoneInv, TableInv, UfsOffInv, OffPending, Ufs
  <2> QED
    BY <1>14, <2>1 DEF Done
<1>15. CASE call.fn \in {"display_unpowergate", "display_powergate"}
  <2>1. ToSet(DisplayDomains) = {"DISP", "DISPB", "DISPC"}
    BY DEF DisplayDomains, ToSet
  <2>2. powered \subseteq ToSet(DisplayDomains)
    BY <1>1 DEF CoreInv, TypeInv
  <2>3. \A cmd : LET a == Try(cmd, "DISP", 0)
                     b == Try(cmd, "DISPB", 0)
                     c == Try(cmd, "DISPC", 0)
                 IN  Tail(<< a, b, c >>) = << b, c >> /\ Tail(<< b, c >>) = << c >>
    BY PowerLists
  <2>4. /\ todo # PowerOns /\ todo # Tail(PowerOns) /\ todo # Tail(Tail(PowerOns))
        /\ todo # PowerOffs /\ todo # Tail(PowerOffs) /\ todo # Tail(Tail(PowerOffs))
    BY <1>2, <2>3, Zenon DEF PowerOns, PowerOffs
  <2>5. /\ call.fn = "display_unpowergate" /\ unheard = {} => {"DISP", "DISPB", "DISPC"} \subseteq powered
        /\ call.fn = "display_powergate" /\ unheard = {} => powered \cap {"DISP", "DISPB", "DISPC"} = {}
    BY <2>4 DEF DoneInv, PowerInv
  <2> QED
    BY <1>15, <2>1, <2>2, <2>5 DEF Done
<1>16. CASE call.fn \in {"none", "disable_plle", "usbf_clock_init", "ufs_disable_device"}
  BY <1>16 DEF Done
<1> QED
  BY <1>1, <1>4, <1>5, <1>6, <1>7, <1>8, <1>9, <1>10, <1>11, <1>12, <1>13, <1>14, <1>15, <1>16 DEF InInterface

\* SuccessMeansDone: a function that reports success has done what it was asked, for
\* every use of the interface, after any other calls and with any messages lost.
THEOREM SuccessIsDone == Spec => []SuccessMeansDone
<1>1. DoneInv => TypeOK
  BY DEF DoneInv, CoreInv, TypeInv, ClkType, Clocks, Parts, TypeOK
<1>2. DoneInv => SuccessMeansDone
  BY <1>1, DoneIs DEF SuccessMeansDone
<1> QED
  BY <1>2, DoneInit, DoneStep, PTL DEF Spec
=============================================================================

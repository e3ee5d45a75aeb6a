--------------------------- MODULE BctUpdateProofs ---------------------------
(***************************************************************************)
(* What holds of the update of a boot configuration table for every        *)
(* geometry, every number of copies, every length of a behaviour and every *)
(* order the units of a write reach the storage in.                        *)
(***************************************************************************)
EXTENDS BctUpdate, FiniteSetTheorems, SequenceTheorems, WellFoundedInduction, TLAPS

(* The parts of the inductive invariant.                                   *)

\* What lies in the partition lies where a write put it.
Placed ==
    \A u \in Units(geo.part) :
        store[u] # Blank =>
            /\ store[u][1] # 0
            /\ \E i \in DOMAIN Offsets(geo) :
                  Fits(Offsets(geo)[i]) /\ u = Offsets(geo)[i] + store[u][2]

\* An update has written the copies before the one it is at, and of that one the
\* units no longer left.
Written ==
    copy # 0 =>
        /\ \A i \in 1 .. copy - 1 : Holds(Offsets(geo)[i], version)
        /\ \A k \in Units(geo.chunk) \ left :
              Fits(Target) /\ store[Target + k] = << version, k >>

\* A copy is never older than the last report.
ReportKept == \A o \in Copies : \A k \in Units(geo.bct) : store[o + k][1] >= reported

\* A success is true until the next update.
SuccessKept ==
    result = "ok" =>
        copy = 0 /\ \A i \in DOMAIN Offsets(geo) : Holds(Offsets(geo)[i], version)

\* Each update that was stopped has spoilt one copy at most.
Spoilt == {o \in Copies : ~Whole(o)}
OneSpoiltEach ==
    /\ copy = 0 => Cardinality(Spoilt) <= stopped
    /\ copy # 0 => Cardinality(Spoilt \ {Target}) <= stopped - 1
    /\ stopped <= version - 1

IInv ==
    /\ TypeOK
    /\ Placed
    /\ Written
    /\ ReportKept
    /\ SuccessKept
    /\ OneSpoiltEach

---------------------------------------------------------------------------
(* The geometry.                                                           *)

\* The whole number of blocks that is needed, and no more.
LEMMA RoundUp ==
    ASSUME NEW a \in Nat \ {0}, NEW b \in Nat \ {0}
    PROVE  \E q \in Nat \ {0} : ROUND_UP(a, b) = q * b /\ (q - 1) * b < a /\ a <= q * b
<1> DEFINE q == (a + b - 1) \div b
           r == (a + b - 1) % b
<1>1. q \in Nat /\ r \in 0 .. b - 1 /\ a + b - 1 = b * q + r
  OBVIOUS
<1> HIDE DEF q, r
<1>2. q # 0
  BY <1>1
<1>3. (q - 1) * b = b * q - b /\ q * b = b * q
  BY <1>1
<1>4. ROUND_UP(a, b) = q * b
  BY DEF ROUND_UP, DIV_CEIL, q
<1> QED
  BY <1>1, <1>2, <1>3, <1>4

LEMMA RoundUpType ==
    ASSUME NEW a \in Nat \ {0}, NEW b \in Nat \ {0}
    PROVE  ROUND_UP(a, b) \in Nat \ {0} /\ a <= ROUND_UP(a, b)
<1>1. PICK q \in Nat \ {0} : ROUND_UP(a, b) = q * b /\ a <= q * b
  BY RoundUp
<1>2. q * b \in Nat
  OBVIOUS
<1> QED
  BY <1>1, <1>2

\* What fits a number of blocks still fits it rounded up.
LEMMA RoundUpFits ==
    ASSUME NEW a \in Nat \ {0}, NEW b \in Nat \ {0}, NEW k \in Nat, a <= k * b
    PROVE  a <= ROUND_UP(a, b) /\ ROUND_UP(a, b) <= k * b /\ ROUND_UP(a, b) \in Nat \ {0}
<1> USE RoundUpType
<1>1. PICK q \in Nat \ {0} : ROUND_UP(a, b) = q * b /\ (q - 1) * b < a
  BY RoundUp
<1>2. (q - 1) * b < k * b
  <2> DEFINE x == (q - 1) * b
             y == k * b
  <2>1. x \in Int /\ y \in Int
    OBVIOUS
  <2>2. x < a /\ a <= y
    BY <1>1
  <2> HIDE DEF x, y
  <2>3. x < y
    BY <2>1, <2>2
  <2> QED
    BY <2>3 DEF x, y
<1>3. q - 1 < k
  <2>1. CASE q - 1 >= k
    <3>1. (q - 1) * b >= k * b
      BY <2>1
    <3> QED
      BY <1>2, <3>1
  <2> QED
    BY <2>1
<1>4. q * b <= k * b
  BY <1>3
<1> QED
  BY <1>1, <1>4

\* A slot holds a write, and a write the table.
LEMMA SlotFacts ==
    ASSUME NEW g \in Geometries
    PROVE  /\ g \in Geometry
           /\ SlotSize(g) \in Nat \ {0} /\ g.chunk \in Nat \ {0} /\ g.bct \in Nat \ {0}
           /\ g.bct <= g.chunk /\ g.chunk <= SlotSize(g)
           /\ g.part \in Nat \ {0} /\ g.block \in Nat \ {0} /\ g.sector \in Nat \ {0}
           /\ g.page \in Nat \ {0}
<1>1. g \in Geometry /\ g.bct <= g.chunk /\ g.chunk <= SlotSize(g)
  BY GeometryAssumption
<1>2. PICK q \in Nat \ {0} : ROUND_UP(g.bct, g.page) = q * g.page
  BY <1>1, RoundUp DEF Geometry
<1>3. q * g.page \in Nat \ {0}
  BY <1>1, <1>2 DEF Geometry
<1>4. SlotSize(g) \in {ROUND_UP(g.bct, g.page), g.page}
  BY DEF SlotSize, ROUND_UP
<1> QED
  BY <1>1, <1>2, <1>3, <1>4 DEF Geometry

\* Where the copies of the boot ROM's table are written: the first two offsets,
\* then the blocks.
LEMMA BrbctOffsetFacts ==
    ASSUME NEW g \in Geometries, g.table = "brbct"
    PROVE  /\ Len(Offsets(g)) \in Nat /\ Len(Offsets(g)) >= 2
           /\ DOMAIN Offsets(g) = 1 .. Len(Offsets(g))
           /\ Offsets(g)[1] = 0
           /\ Offsets(g)[2] = ROUND_UP(SlotSize(g), g.sector)
           /\ \A i \in 3 .. Len(Offsets(g)) :
                 Offsets(g)[i] = (i - 2) * ROUND_UP(g.block, g.sector)
<1> DEFINE n == Min({NumBlocks(g), BR_BCT_MAX_COPIES - 1}) - 1
           two == << 0, ROUND_UP(SlotSize(g), g.sector) >>
           rest == [i \in 1 .. n |-> i * ROUND_UP(g.block, g.sector)]
<1>1. n \in Nat
  <2>1. g.block <= g.part
    BY GeometryAssumption
  <2>2. \A a, b \in Nat \ {0} : a <= b => b \div a \in Nat \ {0}
    OBVIOUS
  <2>3. NumBlocks(g) \in Nat \ {0}
    BY <2>1, <2>2, SlotFacts DEF NumBlocks
  <2>4. BR_BCT_MAX_COPIES - 1 \in Nat \ {0}
    BY GeometryAssumption
  <2> DEFINE a == NumBlocks(g)
             b == BR_BCT_MAX_COPIES - 1
  <2> HIDE DEF a, b
  <2>5. a \in Nat \ {0} /\ b \in Nat \ {0}
    BY <2>3, <2>4 DEF a, b
  <2>6. \E x \in {a, b} : \A y \in {a, b} : x <= y
    BY <2>5
  <2>7. Min({a, b}) \in {a, b}
    BY <2>6 DEF Min
  <2>8. Min({a, b}) - 1 \in Nat
    BY <2>5, <2>7
  <2> QED
    BY <2>8 DEF a, b
<1>2. ROUND_UP(g.block, g.sector) \in Nat /\ ROUND_UP(SlotSize(g), g.sector) \in Nat
  BY RoundUpType, SlotFacts
<1> HIDE DEF n
<1>3. two \in Seq(Nat) /\ rest \in Seq(Nat) /\ Len(two) = 2 /\ Len(rest) = n
  BY <1>1, <1>2
<1>4. Offsets(g) = two \o rest
  BY DEF Offsets, BrbctOffsets, n
<1> HIDE DEF two, rest
<1>5. /\ Len(two \o rest) = 2 + n /\ two \o rest \in Seq(Nat)
      /\ \A i \in 1 .. 2 + n : (two \o rest)[i] = IF i <= 2 THEN two[i] ELSE rest[i - 2]
  <2>1. /\ two \o rest \in Seq(Nat)
        /\ Len(two \o rest) = Len(two) + Len(rest)
        /\ \A i \in 1 .. Len(two) + Len(rest) :
              (two \o rest)[i] = IF i <= Len(two) THEN two[i] ELSE rest[i - Len(two)]
    BY <1>3, ConcatProperties
  <2> QED
    BY <1>3, <2>1
<1>6. \A i \in 1 .. n : rest[i] = i * ROUND_UP(g.block, g.sector)
  BY DEF rest
<1>7. two[1] = 0 /\ two[2] = ROUND_UP(SlotSize(g), g.sector)
  BY DEF two
<1>8. Len(Offsets(g)) = 2 + n /\ DOMAIN Offsets(g) = 1 .. 2 + n
  BY <1>4, <1>5
<1>9. Offsets(g)[1] = 0 /\ Offsets(g)[2] = ROUND_UP(SlotSize(g), g.sector)
  BY <1>1, <1>4, <1>5, <1>7
<1>10. \A i \in 3 .. 2 + n : Offsets(g)[i] = (i - 2) * ROUND_UP(g.block, g.sector)
  <2> TAKE i \in 3 .. 2 + n
  <2>1. i \in 1 .. 2 + n /\ ~ i <= 2 /\ i - 2 \in 1 .. n
    BY <1>1
  <2>2. (two \o rest)[i] = rest[i - 2]
    BY <1>5, <2>1
  <2> QED
    BY <1>4, <1>6, <2>1, <2>2
<1> QED
  BY <1>1, <1>8, <1>9, <1>10

\* Where those of the other table are written.
LEMMA Mb1bctOffsetFacts ==
    ASSUME NEW g \in Geometries, g.table = "mb1bct"
    PROVE  /\ Len(Offsets(g)) \in Nat \ {0}
           /\ DOMAIN Offsets(g) = 1 .. Len(Offsets(g))
           /\ \A i \in 1 .. Len(Offsets(g)) :
                 Offsets(g)[i] = (i - 1) * ROUND_UP(g.page, g.sector)
<1>1. g.page <= g.part
  BY GeometryAssumption
<1>2. \A a, b \in Nat \ {0} : a <= b => b \div a \in Nat \ {0}
  OBVIOUS
<1>3. g.part \div g.page \in Nat \ {0}
  BY <1>1, <1>2, SlotFacts
<1>4. Offsets(g) = [i \in 1 .. g.part \div g.page |-> (i - 1) * ROUND_UP(g.page, g.sector)]
  BY DEF Offsets, Mb1bctOffsets
<1> QED
  BY <1>3, <1>4

\* The first copy is at the start of the partition and offsets are natural numbers.
LEMMA OffsetFacts ==
    ASSUME NEW g \in Geometries
    PROVE  /\ Len(Offsets(g)) \in Nat \ {0}
           /\ DOMAIN Offsets(g) = 1 .. Len(Offsets(g))
           /\ Offsets(g)[1] = 0
           /\ \A i \in DOMAIN Offsets(g) : Offsets(g)[i] \in Nat
<1>1. CASE g.table = "brbct"
  <2>1. \A i \in 3 .. Len(Offsets(g)) : (i - 2) * ROUND_UP(g.block, g.sector) \in Nat
    <3>1. ROUND_UP(g.block, g.sector) \in Nat
      BY RoundUpType, SlotFacts
    <3> TAKE i \in 3 .. Len(Offsets(g))
    <3>2. i - 2 \in Nat
      BY <1>1, BrbctOffsetFacts
    <3> QED
      BY <3>1, <3>2
  <2>2. ROUND_UP(SlotSize(g), g.sector) \in Nat
    BY RoundUpType, SlotFacts
  <2>3. ASSUME NEW i \in 1 .. Len(Offsets(g)) PROVE i \in {1, 2} \/ i \in 3 .. Len(Offsets(g))
    BY <1>1, BrbctOffsetFacts
  <2> QED
    BY <1>1, <2>1, <2>2, <2>3, BrbctOffsetFacts
<1>2. CASE g.table = "mb1bct"
  <2>1. ROUND_UP(g.page, g.sector) \in Nat
    BY RoundUpType, SlotFacts
  <2>2. \A i \in 1 .. Len(Offsets(g)) : (i - 1) * ROUND_UP(g.page, g.sector) \in Nat
    BY <1>2, <2>1, Mb1bctOffsetFacts
  <2>3. (1 - 1) * ROUND_UP(g.page, g.sector) = 0
    BY <2>1
  <2> QED
    BY <1>2, <2>2, <2>3, Mb1bctOffsetFacts
<1> QED
  BY <1>1, <1>2, SlotFacts DEF Geometry, Tables

\* Different multiples lie apart.
LEMMA MultiplesApart ==
    ASSUME NEW i \in Nat, NEW j \in Nat, NEW r \in Nat, NEW s \in Nat, s <= r, i < j
    PROVE  i * r + s <= j * r
<1>1. (i + 1) * r <= j * r
  OBVIOUS
<1>2. (i + 1) * r = i * r + r
  OBVIOUS
<1> DEFINE x == i * r
           y == j * r
<1>3. x \in Nat /\ y \in Nat
  OBVIOUS
<1>4. x + r <= y
  BY <1>1, <1>2
<1> HIDE DEF x, y
<1>5. x + s <= y
  BY <1>3, <1>4
<1> QED
  BY <1>5 DEF x, y

\* Two places that copies are written to are the same or a slot apart.
Apart(a, b, s) == a = b \/ a + s <= b \/ b + s <= a

\* A slot rounded up to the blocks of the device lies before the second block of the
\* boot ROM or is at it.
LEMMA SecondSlot ==
    ASSUME NEW g \in Geometries, g.table = "brbct"
    PROVE  LET r == ROUND_UP(SlotSize(g), g.sector)
               b == ROUND_UP(g.block, g.sector)
           IN  SlotSize(g) <= b /\ SlotSize(g) <= r /\ (r = b \/ r + SlotSize(g) <= b)
<1> DEFINE s == SlotSize(g)
           r == ROUND_UP(s, g.sector)
           b == ROUND_UP(g.block, g.sector)
<1>1. /\ s \in Nat \ {0} /\ g.sector \in Nat \ {0} /\ g.block \in Nat \ {0}
      /\ 2 * s <= g.block /\ Doubles(g.block, g.sector)
  BY SlotFacts, GeometryAssumption
<1> HIDE DEF s
<1>2. r \in Nat /\ b \in Nat /\ s <= r /\ g.block <= b
  BY <1>1, RoundUpType
<1>3. CASE g.block = g.sector \/ g.sector % (2 * g.block) = 0
  <2>1. g.block <= g.sector
    <3>1. \A x, y \in Nat \ {0} : x % (2 * y) = 0 => y <= x
      OBVIOUS
    <3> QED
      BY <1>1, <1>3, <3>1
  <2>2. ASSUME NEW a \in Nat \ {0}, a <= g.sector PROVE ROUND_UP(a, g.sector) = g.sector
    <3>1. a <= 1 * g.sector /\ 1 * g.sector = g.sector
      BY <1>1, <2>2
    <3>2. ROUND_UP(a, g.sector) \in Nat \ {0} /\ ROUND_UP(a, g.sector) <= g.sector
      BY <1>1, <3>1, RoundUpFits
    <3>3. PICK q \in Nat \ {0} : ROUND_UP(a, g.sector) = q * g.sector
      BY <1>1, RoundUp
    <3>4. q * g.sector >= g.sector
      BY <1>1
    <3> QED
      BY <1>1, <3>2, <3>3, <3>4
  <2>3. s <= g.sector
    BY <1>1, <2>1
  <2>4. r = g.sector /\ b = g.sector
    BY <1>1, <2>1, <2>2, <2>3
  <2> HIDE DEF r, b
  <2>5. s <= b /\ s <= r /\ r = b
    BY <1>1, <2>3, <2>4
  <2> QED
    BY <2>5 DEF r, b, s
<1>4. CASE g.block % (2 * g.sector) = 0
  <2> DEFINE h == g.block \div (2 * g.sector)
  <2>1. h \in Nat /\ g.block = (2 * h) * g.sector
    <3>1. \A x, y \in Nat \ {0} : x % (2 * y) = 0 =>
             x \div (2 * y) \in Nat /\ x = (2 * (x \div (2 * y))) * y
      OBVIOUS
    <3> QED
      BY <1>1, <1>4, <3>1
  <2> HIDE DEF h
  <2>2. (2 * h) * g.sector = 2 * (h * g.sector) /\ h * g.sector \in Nat
    BY <1>1, <2>1
  <2>3. s <= h * g.sector
    BY <1>1, <2>1, <2>2
  <2>4. r <= h * g.sector
    BY <1>1, <2>1, <2>3, RoundUpFits
  <2>5. b <= g.block
    <3>1. 2 * h \in Nat /\ g.block <= (2 * h) * g.sector
      BY <1>1, <2>1
    <3>2. b <= (2 * h) * g.sector
      BY <1>1, <3>1, RoundUpFits
    <3> QED
      BY <2>1, <3>2
  <2> HIDE DEF r, b
  <2>6. b = g.block
    BY <1>1, <1>2, <2>5
  <2> DEFINE x == h * g.sector
  <2>7. x \in Nat /\ s <= x /\ r <= x /\ b = 2 * x
    BY <2>1, <2>2, <2>3, <2>4, <2>6
  <2> HIDE DEF x
  <2>8. s <= b /\ s <= r /\ r + s <= b
    BY <1>1, <1>2, <2>7
  <2> QED
    BY <2>8 DEF r, b, s
<1> QED
  BY <1>1, <1>3, <1>4 DEF Doubles

LEMMA OffsetsApart ==
    ASSUME NEW g \in Geometries, NEW i \in DOMAIN Offsets(g), NEW j \in DOMAIN Offsets(g)
    PROVE  Apart(Offsets(g)[i], Offsets(g)[j], SlotSize(g))
<1> DEFINE O == Offsets(g)
           s == SlotSize(g)
<1>1. SUFFICES ASSUME NEW m \in DOMAIN O, NEW n \in DOMAIN O, m < n
               PROVE  Apart(O[m], O[n], s)
  <2>1. i \in Nat /\ j \in Nat
    BY OffsetFacts
  <2>2. i < j \/ j < i \/ i = j
    BY <2>1
  <2>3. \A x, y : Apart(x, y, s) = Apart(y, x, s)
    BY DEF Apart
  <2>4. CASE i = j
    BY <2>4 DEF Apart
  <2> QED
    BY <1>1, <2>2, <2>3, <2>4
<1>2. /\ s \in Nat \ {0} /\ m \in 1 .. Len(O) /\ n \in 1 .. Len(O) /\ Len(O) \in Nat
      /\ O[m] \in Nat /\ O[n] \in Nat
  BY SlotFacts, OffsetFacts
<1>3. CASE g.table = "brbct"
  <2> DEFINE r == ROUND_UP(s, g.sector)
             b == ROUND_UP(g.block, g.sector)
  <2>1. r \in Nat /\ b \in Nat /\ s <= b /\ s <= r /\ (r = b \/ r + s <= b)
    BY <1>3, SecondSlot, SlotFacts, RoundUpType
  <2>2. O[1] = 0 /\ O[2] = r /\ \A k \in 3 .. Len(O) : O[k] = (k - 2) * b
    BY <1>3, BrbctOffsetFacts
  <2> HIDE DEF O, s, r, b
  <2>3. CASE n = 2
    BY <1>1, <1>2, <2>1, <2>2, <2>3 DEF Apart
  <2>4. CASE n \in 3 .. Len(O)
    <3>1. O[n] = (n - 2) * b /\ n - 2 \in Nat \ {0}
      BY <1>2, <2>2, <2>4
    <3>2. CASE n = 3
      <4>1. O[n] = b
        BY <2>1, <3>1, <3>2
      <4>2. m \in {1, 2}
        BY <1>1, <1>2, <3>2
      <4> QED
        BY <1>2, <2>1, <2>2, <4>1, <4>2 DEF Apart
    <3>3. CASE n > 3
      <4>1. CASE m \in 3 .. Len(O)
        <5>1. m - 2 \in Nat /\ m - 2 < n - 2
          BY <1>1, <1>2, <4>1
        <5>2. (m - 2) * b + s <= (n - 2) * b
          BY <1>2, <2>1, <3>1, <5>1, MultiplesApart
        <5> QED
          BY <2>2, <3>1, <4>1, <5>2 DEF Apart
      <4>2. CASE m \in {1, 2}
        <5> DEFINE k == n - 2
        <5>1. 1 \in Nat /\ k \in Nat /\ 1 < k
          BY <1>2, <3>3
        <5> HIDE DEF k
        <5>2. 1 * b + s <= k * b
          BY <1>2, <2>1, <5>1, MultiplesApart
        <5>3. b + s <= (n - 2) * b
          <6>1. 1 * b = b
            BY <2>1
          <6> QED
            BY <5>2, <6>1 DEF k
        <5>4. O[m] <= b
          BY <1>2, <2>1, <2>2, <4>2
        <5>5. b + s <= O[n]
          BY <3>1, <5>3
        <5> QED
          BY <1>2, <2>1, <5>4, <5>5 DEF Apart
      <4> QED
        BY <1>2, <4>1, <4>2
    <3> QED
      BY <1>2, <2>4, <3>2, <3>3
  <2> QED
    BY <1>1, <1>2, <2>3, <2>4
<1>4. CASE g.table = "mb1bct"
  <2> DEFINE r == ROUND_UP(g.page, g.sector)
  <2>1. r \in Nat /\ s <= r
    BY <1>4, SlotFacts, RoundUpType DEF SlotSize
  <2>2. \A k \in 1 .. Len(O) : O[k] = (k - 1) * r
    BY <1>4, Mb1bctOffsetFacts
  <2> HIDE DEF O, s, r
  <2>3. m - 1 \in Nat /\ n - 1 \in Nat /\ m - 1 < n - 1
    BY <1>1, <1>2
  <2>4. (m - 1) * r + s <= (n - 1) * r
    BY <1>2, <2>1, <2>3, MultiplesApart
  <2> QED
    BY <1>2, <2>2, <2>4 DEF Apart
<1> QED
  BY <1>3, <1>4, SlotFacts DEF Geometry, Tables

\* Every place that is searched is a natural number, and the first is the start of
\* the partition, which is the first place written to.
LEMMA PlaceFacts ==
    ASSUME NEW g \in Geometries
    PROVE  /\ Len(Places(g)) \in Nat \ {0}
           /\ DOMAIN Places(g) = 1 .. Len(Places(g))
           /\ Places(g)[1] = 0
           /\ \A i \in DOMAIN Places(g) : Places(g)[i] \in Nat
<1>1. CASE g.table = "brbct"
  <2> DEFINE s == SlotSize(g)
             slots == g.block \div s
             two == << 0, s >>
             n == (NumBlocks(g) - 1) * slots
             rest == [k \in 1 .. n |->
                         (1 + (k - 1) \div slots) * g.block + ((k - 1) % slots) * s]
  <2>1. s \in Nat \ {0} /\ slots \in Nat \ {0} /\ g.block \in Nat
    <3>1. 2 * s <= g.block /\ s \in Nat \ {0} /\ g.block \in Nat \ {0}
      BY <1>1, SlotFacts, GeometryAssumption
    <3>2. \A a, b \in Nat \ {0} : 2 * a <= b => b \div a \in Nat \ {0}
      OBVIOUS
    <3> QED
      BY <3>1, <3>2
  <2>2. n \in Nat
    <3>1. g.block <= g.part /\ g.block \in Nat \ {0} /\ g.part \in Nat \ {0}
      BY <1>1, SlotFacts, GeometryAssumption
    <3>2. \A a, b \in Nat \ {0} : a <= b => b \div a \in Nat \ {0}
      OBVIOUS
    <3>3. NumBlocks(g) - 1 \in Nat
      BY <3>1, <3>2 DEF NumBlocks
    <3> HIDE DEF slots
    <3> QED
      BY <2>1, <3>3
  <2>3. Places(g) = two \o rest
    BY <1>1 DEF Places
  <2> HIDE DEF s, slots, n
  <2>4. ASSUME NEW k \in 1 .. n
        PROVE  (1 + (k - 1) \div slots) * g.block + ((k - 1) % slots) * s \in Nat
    <3>1. (1 + (k - 1) \div slots) \in Nat /\ ((k - 1) % slots) \in Nat
      <4>1. k - 1 \in Nat
        BY <2>2
      <4>2. \A a \in Nat, b \in Nat \ {0} : a \div b \in Nat /\ a % b \in Nat
        OBVIOUS
      <4> QED
        BY <2>1, <4>1, <4>2
    <3> DEFINE x == 1 + (k - 1) \div slots
               y == (k - 1) % slots
    <3> HIDE DEF x, y
    <3>2. x * g.block + y * s \in Nat
      BY <2>1, <3>1 DEF x, y
    <3> QED
      BY <3>2 DEF x, y
  <2>5. two \in Seq(Nat) /\ rest \in Seq(Nat) /\ Len(two) = 2
    BY <2>1, <2>2, <2>4
  <2>6. two[1] = 0
    OBVIOUS
  <2> HIDE DEF two, rest
  <2>7. /\ two \o rest \in Seq(Nat)
        /\ Len(two \o rest) = Len(two) + Len(rest)
        /\ (two \o rest)[1] = two[1]
    <3>1. /\ two \o rest \in Seq(Nat)
          /\ Len(two \o rest) = Len(two) + Len(rest)
          /\ \A i \in 1 .. Len(two) + Len(rest) :
                (two \o rest)[i] = IF i <= Len(two) THEN two[i] ELSE rest[i - Len(two)]
      BY <2>5, ConcatProperties
    <3>2. Len(rest) \in Nat
      BY <2>5
    <3> QED
      BY <2>5, <3>1, <3>2
  <2>8. Len(two \o rest) \in Nat \ {0}
    BY <2>5, <2>7
  <2> QED
    BY <2>3, <2>6, <2>7, <2>8
<1>2. CASE g.table = "mb1bct"
  <2> DEFINE r == ROUND_UP(g.page, g.sector)
             n == g.part \div r
  <2>1. r \in Nat \ {0} /\ r <= g.part
    <3>1. /\ g.page \in Nat \ {0} /\ g.sector \in Nat \ {0} /\ g.part \in Nat \ {0}
          /\ g.page <= g.part /\ g.part % g.sector = 0
      BY <1>2, SlotFacts, GeometryAssumption
    <3>2. \A a, b \in Nat \ {0} : a % b = 0 => a \div b \in Nat /\ a = (a \div b) * b
      OBVIOUS
    <3>3. PICK k \in Nat : g.part = k * g.sector
      BY <3>1, <3>2
    <3> QED
      BY <3>1, <3>3, RoundUpFits
  <2>2. Places(g) = [i \in 1 .. n |-> (i - 1) * r]
    BY <1>2 DEF Places
  <2>3. n \in Nat \ {0}
    <3>1. \A a, b \in Nat \ {0} : a <= b => b \div a \in Nat \ {0}
      OBVIOUS
    <3> HIDE DEF r
    <3> QED
      BY <2>1, <3>1, SlotFacts
  <2> HIDE DEF r, n
  <2>4. \A i \in 1 .. n : (i - 1) * r \in Nat
    BY <2>1, <2>3
  <2>5. (1 - 1) * r = 0
    BY <2>1
  <2> QED
    BY <2>2, <2>3, <2>4, <2>5
<1> QED
  BY <1>1, <1>2, SlotFacts DEF Geometry, Tables

---------------------------------------------------------------------------
(* The state.                                                              *)

\* The copies are finitely many offsets, each with room for a write.
LEMMA CopyFacts ==
    ASSUME geo \in Geometries
    PROVE  /\ IsFiniteSet(Copies)
           /\ \A o \in Copies :
                 /\ o \in Nat /\ o + geo.chunk <= geo.part
                 /\ \E i \in DOMAIN Offsets(geo) : o = Offsets(geo)[i]
                 /\ \A k \in Units(geo.chunk) : o + k \in Units(geo.part)
           /\ \A i \in DOMAIN Offsets(geo), j \in DOMAIN Places(geo) :
                 Offsets(geo)[i] = Places(geo)[j] /\ Fits(Offsets(geo)[i]) =>
                    Offsets(geo)[i] \in Copies
<1>1. geo.part \in Nat /\ geo.chunk \in Nat
  BY SlotFacts
<1>2. ASSUME NEW o \in Copies
      PROVE  /\ o \in Nat /\ o + geo.chunk <= geo.part
             /\ \E i \in DOMAIN Offsets(geo) : o = Offsets(geo)[i]
  BY OffsetFacts DEF Copies, Elements, Fits
<1>3. Copies \in SUBSET Nat /\ \A o \in Copies : o <= geo.part
  BY <1>1, <1>2
<1>4. IsFiniteSet(Copies)
  BY <1>1, <1>3, FS_BoundedSetOfNaturals
<1> QED
  BY <1>1, <1>2, <1>4 DEF Copies, Elements, Units

\* A copy is whole or spoilt.
LEMMA SpoiltFacts ==
    ASSUME geo \in Geometries
    PROVE  /\ IsFiniteSet(Spoilt) /\ Cardinality(Spoilt) \in Nat
           /\ \A x : /\ IsFiniteSet(Spoilt \ {x}) /\ Cardinality(Spoilt \ {x}) \in Nat
                    /\ Cardinality(Spoilt) <= Cardinality(Spoilt \ {x}) + 1
<1>1. IsFiniteSet(Spoilt)
  BY CopyFacts, FS_Subset DEF Spoilt
<1>2. Cardinality(Spoilt) \in Nat
  BY <1>1, FS_CardinalityType
<1>3. ASSUME NEW x
      PROVE  /\ IsFiniteSet(Spoilt \ {x}) /\ Cardinality(Spoilt \ {x}) \in Nat
             /\ Cardinality(Spoilt) <= Cardinality(Spoilt \ {x}) + 1
  <2>1. /\ IsFiniteSet(Spoilt \ {x})
        /\ Cardinality(Spoilt \ {x}) =
              IF x \in Spoilt THEN Cardinality(Spoilt) - 1 ELSE Cardinality(Spoilt)
    BY <1>1, FS_RemoveElement
  <2>2. Cardinality(Spoilt \ {x}) \in Nat
    BY <2>1, FS_CardinalityType
  <2> QED
    BY <1>2, <2>1, <2>2
<1> QED
  BY <1>1, <1>2, <1>3

\* A unit that a write of a copy puts down changes no other copy.
LEMMA WriteApart ==
    ASSUME geo \in Geometries, NEW i \in DOMAIN Offsets(geo), NEW j \in DOMAIN Offsets(geo),
           NEW k \in Units(geo.chunk), NEW l \in Units(geo.chunk),
           Offsets(geo)[i] + k = Offsets(geo)[j] + l
    PROVE  Offsets(geo)[i] = Offsets(geo)[j] /\ k = l
<1>1. /\ geo.chunk \in Nat /\ SlotSize(geo) \in Nat /\ geo.chunk <= SlotSize(geo)
      /\ Offsets(geo)[i] \in Nat /\ Offsets(geo)[j] \in Nat
  BY SlotFacts, OffsetFacts
<1>2. Apart(Offsets(geo)[i], Offsets(geo)[j], SlotSize(geo))
  BY OffsetsApart
<1> QED
  BY <1>1, <1>2 DEF Apart, Units

\* The first of some places.
LEMMA MinFacts ==
    ASSUME NEW S \in SUBSET Nat, S # {}
    PROVE  Min(S) \in S /\ \A x \in S : Min(S) <= x
<1> DEFINE less == {ss \in Nat \X Nat : ss[1] < ss[2]}
<1>1. IsWellFoundedOn(less, Nat)
  BY NatLessThanWellFounded DEF OpToRel
<1> HIDE DEF less
<1>2. PICK m \in S : \A y \in S : ~ (<< y, m >> \in less)
  BY <1>1, WFMin
<1>3. ASSUME NEW y \in S PROVE m <= y
  <2>1. y \in Nat /\ m \in Nat
    OBVIOUS
  <2>2. ASSUME y < m PROVE << y, m >> \in less
    BY <2>1, <2>2 DEF less
  <2> QED
    BY <1>2, <2>1, <2>2
<1> QED
  BY <1>3 DEF Min

\* The version found is that of the first place with a whole table.
LEMMA FoundFacts ==
    ASSUME TypeOK
    PROVE  /\ Found # 0 =>
                \E i \in DOMAIN Places(geo) :
                   Found \in 1 .. version /\ Holds(Places(geo)[i], Found)
           /\ (\E i \in DOMAIN Places(geo) : Whole(Places(geo)[i])) => Found # 0
           /\ Whole(0) => Holds(0, Found)
<1> DEFINE places == {i \in DOMAIN Places(geo) : Whole(Places(geo)[i])}
<1>1. /\ geo \in Geometries /\ version \in Nat
      /\ places \in SUBSET Nat /\ 1 \in DOMAIN Places(geo) /\ Places(geo)[1] = 0
      /\ \A i \in places : i >= 1
  BY PlaceFacts, GeometryAssumption DEF TypeOK
<1>2. ASSUME places # {}
      PROVE  /\ Min(places) \in places
             /\ Found \in 1 .. version /\ Holds(Places(geo)[Min(places)], Found)
  <2>1. Min(places) \in places
    BY <1>1, <1>2, MinFacts
  <2>2. \E v \in 1 .. version : Holds(Places(geo)[Min(places)], v)
    BY <2>1 DEF Whole
  <2>3. Found = CHOOSE v \in 1 .. version : Holds(Places(geo)[Min(places)], v)
    BY <1>2 DEF Found
  <2> QED
    BY <2>1, <2>2, <2>3
<1>3. places = {} => Found = 0
  BY DEF Found
<1>4. ASSUME Whole(0) PROVE Min(places) = 1
  <2>1. 1 \in places
    BY <1>1, <1>4
  <2>2. Min(places) \in places /\ Min(places) <= 1
    BY <1>1, <2>1, MinFacts
  <2> QED
    BY <1>1, <2>2
<1> QED
  BY <1>1, <1>2, <1>3, <1>4

---------------------------------------------------------------------------
(* The steps.                                                              *)

LEMMA InitInvariant == Init => IInv
<1> SUFFICES ASSUME Init PROVE IInv
  OBVIOUS
<1>1. /\ geo \in Geometries /\ version = 1 /\ reported = 1 /\ stopped = 0
      /\ copy = 0 /\ left = {} /\ result = "none"
  BY DEF Init
<1>2. /\ geo.bct \in Nat \ {0} /\ geo.chunk \in Nat /\ geo.part \in Nat
      /\ geo.bct <= geo.chunk
  BY <1>1, SlotFacts
<1>3. ASSUME NEW o \in Copies, NEW k \in Units(geo.bct)
      PROVE  o + k \in Units(geo.part) /\ store[o + k] = << 1, k >>
  <2> DEFINE u == o + k
             below == {p \in Copies : p <= u}
  <2>1. u \in Units(geo.part) /\ o \in Nat /\ k \in Nat /\ k < geo.bct /\ o <= u
    BY <1>1, <1>2, CopyFacts DEF Units
  <2>2. ASSUME NEW p \in below PROVE p <= o
    <3>1. PICK i \in DOMAIN Offsets(geo), j \in DOMAIN Offsets(geo) :
             o = Offsets(geo)[i] /\ p = Offsets(geo)[j]
      BY <1>1, CopyFacts
    <3>2. Apart(o, p, SlotSize(geo)) /\ SlotSize(geo) \in Nat /\ geo.chunk <= SlotSize(geo)
      BY <1>1, <3>1, OffsetsApart, SlotFacts
    <3>3. p \in Nat /\ p <= o + k
      BY <1>1, CopyFacts
    <3> QED
      BY <1>2, <2>1, <3>2, <3>3 DEF Apart
  <2>3. o \in below
    BY <2>1
  <2>4. Max(below) = o
    <3>1. \A p \in below : p \in Nat
      BY <1>1, CopyFacts
    <3> HIDE DEF below
    <3>2. \A p \in below : o >= p
      BY <2>1, <2>2, <3>1
    <3>3. \A x \in below : x >= o => x = o
      BY <2>1, <3>1, <3>2
    <3> QED
      BY <2>3, <3>2, <3>3 DEF Max
  <2>5. u \in o .. o + geo.bct - 1
    BY <1>2, <2>1
  <2>6. store[u] = << 1, u - Max(below) >>
    BY <2>1, <2>5 DEF Init
  <2> QED
    BY <2>1, <2>4, <2>6
<1>4. ASSUME NEW u \in Units(geo.part)
      PROVE  \/ store[u] = Blank
             \/ \E o \in Copies : \E k \in Units(geo.bct) : u = o + k /\ store[u] = << 1, k >>
  <2>1. CASE \E o \in Copies : u \in o .. o + geo.bct - 1
    <3>1. PICK o \in Copies : u \in o .. o + geo.bct - 1
      BY <2>1
    <3>2. o \in Nat /\ u \in Nat
      BY <1>1, <1>2, CopyFacts DEF Units
    <3>3. u - o \in Units(geo.bct) /\ o + (u - o) = u
      BY <1>2, <3>1, <3>2 DEF Units
    <3> QED
      BY <1>3, <3>3
  <2> QED
    BY <2>1 DEF Init
<1>5. TypeOK
  <2>1. \A u \in Units(geo.part) : store[u] \in (0 .. version) \X Units(geo.chunk)
    <3> TAKE u \in Units(geo.part)
    <3>1. Blank \in (0 .. version) \X Units(geo.chunk)
      BY <1>1, <1>2 DEF Blank, Units
    <3>2. \A k \in Units(geo.bct) : << 1, k >> \in (0 .. version) \X Units(geo.chunk)
      BY <1>1, <1>2 DEF Units
    <3> QED
      BY <1>4, <3>1, <3>2
  <2>2. store \in [Units(geo.part) -> (0 .. version) \X Units(geo.chunk)]
    BY <2>1 DEF Init
  <2>3. MaxUpdates \in Nat /\ Len(Offsets(geo)) \in Nat
    BY <1>1, OffsetFacts, GeometryAssumption
  <2> QED
    BY <1>1, <2>2, <2>3 DEF TypeOK
<1>6. Placed
  <2> SUFFICES ASSUME NEW u \in Units(geo.part), store[u] # Blank
               PROVE  /\ store[u][1] # 0
                      /\ \E i \in DOMAIN Offsets(geo) :
                            Fits(Offsets(geo)[i]) /\ u = Offsets(geo)[i] + store[u][2]
    BY DEF Placed
  <2>1. PICK o \in Copies : \E k \in Units(geo.bct) : u = o + k /\ store[u] = << 1, k >>
    BY <1>4
  <2>2. PICK i \in DOMAIN Offsets(geo) : o = Offsets(geo)[i]
    BY <1>1, CopyFacts
  <2>3. Fits(o)
    BY DEF Copies
  <2> QED
    BY <2>1, <2>2, <2>3
<1>7. ReportKept
  BY <1>1, <1>3 DEF ReportKept
<1>8. OneSpoiltEach
  <2>1. \A o \in Copies : Whole(o)
    <3> TAKE o \in Copies
    <3>1. o + geo.bct <= geo.part
      BY <1>1, <1>2, CopyFacts
    <3>2. Holds(o, 1)
      BY <1>3, <3>1 DEF Holds
    <3> QED
      BY <1>1, <3>2 DEF Whole
  <2>2. Spoilt = {}
    BY <2>1 DEF Spoilt
  <2> QED
    BY <1>1, <2>2, FS_EmptySet DEF OneSpoiltEach
<1> QED
  BY <1>1, <1>5, <1>6, <1>7, <1>8 DEF IInv, Written, SuccessKept

\* What is known of the copy an update is at.
LEMMA TargetFacts ==
    ASSUME TypeOK, copy # 0
    PROVE  /\ geo \in Geometries /\ copy \in DOMAIN Offsets(geo)
           /\ Target = Offsets(geo)[copy] /\ Target \in Nat
           /\ geo.chunk \in Nat \ {0} /\ geo.bct \in Nat \ {0} /\ geo.bct <= geo.chunk
           /\ geo.part \in Nat
           /\ Fits(Target) => \A k \in Units(geo.chunk) : Target + k \in Units(geo.part)
<1>1. geo \in Geometries /\ copy \in 0 .. Len(Offsets(geo))
  BY DEF TypeOK
<1>2. /\ geo.chunk \in Nat \ {0} /\ geo.bct \in Nat \ {0} /\ geo.bct <= geo.chunk
      /\ geo.part \in Nat
  BY <1>1, SlotFacts
<1>3. /\ Len(Offsets(geo)) \in Nat /\ DOMAIN Offsets(geo) = 1 .. Len(Offsets(geo))
      /\ \A i \in DOMAIN Offsets(geo) : Offsets(geo)[i] \in Nat
  BY <1>1, OffsetFacts
<1>4. copy \in DOMAIN Offsets(geo) /\ Target = Offsets(geo)[copy] /\ Target \in Nat
  BY <1>1, <1>3 DEF Target
<1>5. ASSUME Fits(Target), NEW k \in Units(geo.chunk) PROVE Target + k \in Units(geo.part)
  BY <1>2, <1>4, <1>5 DEF Fits, Units
<1> QED
  BY <1>1, <1>2, <1>4, <1>5

LEMMA TypeStep == TypeOK /\ stopped <= version - 1 /\ [Next]_vars => TypeOK'
<1> SUFFICES ASSUME TypeOK, stopped <= version - 1, [Next]_vars PROVE TypeOK'
  OBVIOUS
<1>1. /\ MaxUpdates \in Nat /\ version \in Nat /\ Len(Offsets(geo)) \in Nat \ {0}
      /\ reported \in Nat /\ stopped \in Nat /\ geo.chunk \in Nat
  BY GeometryAssumption, OffsetFacts, SlotFacts DEF TypeOK
<1>2. CASE Update
  <2>1. store' \in [Units(geo.part) -> (0 .. version') \X Units(geo.chunk)]
    <3>1. \A u \in Units(geo.part) : store[u] \in (0 .. version') \X Units(geo.chunk)
      <4>1. 0 .. version \subseteq 0 .. version'
        BY <1>1, <1>2 DEF Update
      <4> QED
        BY <4>1 DEF TypeOK
    <3> QED
      BY <1>2, <3>1 DEF Update, TypeOK
  <2> QED
    BY <1>1, <1>2, <2>1 DEF Update, TypeOK
<1>3. CASE WriteUnit
  <2>1. PICK k \in left : /\ store' = [store EXCEPT ![Target + k] = << version, k >>]
                          /\ left' = left \ {k}
    BY <1>3 DEF WriteUnit
  <2>2. k \in Units(geo.chunk) /\ << version, k >> \in (0 .. version) \X Units(geo.chunk)
    BY <1>1 DEF TypeOK
  <2>3. store' \in [Units(geo.part) -> (0 .. version) \X Units(geo.chunk)]
    BY <2>1, <2>2 DEF TypeOK
  <2> QED
    BY <1>3, <2>1, <2>3 DEF WriteUnit, TypeOK
<1>4. CASE NextCopy
  BY <1>1, <1>4 DEF NextCopy, TypeOK
<1>5. CASE Finish
  BY <1>1, <1>5 DEF Finish, TypeOK
<1>6. CASE Fail \/ PowerLoss
  BY <1>1, <1>6 DEF Fail, PowerLoss, TypeOK
<1>7. CASE UNCHANGED vars
  BY <1>7 DEF vars, TypeOK
<1> QED
  BY <1>2, <1>3, <1>4, <1>5, <1>6, <1>7 DEF Next

\* A table of the version being written stays whole while a copy is written, and so
\* does any table elsewhere.
LEMMA HoldsStep ==
    ASSUME TypeOK, Written, WriteUnit, NEW i \in DOMAIN Offsets(geo), NEW v,
           Holds(Offsets(geo)[i], v), v = version \/ Offsets(geo)[i] # Target
    PROVE  Holds(Offsets(geo)[i], v)'
<1>1. PICK k \in left : store' = [store EXCEPT ![Target + k] = << version, k >>]
  BY DEF WriteUnit
<1>2. k \in Units(geo.chunk) /\ copy # 0 /\ Fits(Target)
  BY DEF TypeOK, WriteUnit
<1>3. ASSUME NEW l \in Units(geo.bct) PROVE store'[Offsets(geo)[i] + l] = << v, l >>
  <2>1. l \in Units(geo.chunk)
    BY <1>2, TargetFacts DEF Units
  <2>2. store[Offsets(geo)[i] + l] = << v, l >>
    BY DEF Holds
  <2>3. CASE Offsets(geo)[i] + l = Target + k
    <3>1. Offsets(geo)[i] = Target /\ l = k
      BY <1>2, <2>1, <2>3, WriteApart, TargetFacts
    <3>2. Target + k \in DOMAIN store
      BY <1>2, TargetFacts DEF TypeOK
    <3> QED
      BY <1>1, <2>3, <3>1, <3>2
  <2>4. CASE Offsets(geo)[i] + l # Target + k
    <3>1. Offsets(geo)[i] + l \in DOMAIN store
      <4>1. Offsets(geo)[i] \in Nat /\ Offsets(geo)[i] + geo.bct <= geo.part
        BY <1>2, TargetFacts, OffsetFacts DEF Holds
      <4>2. Offsets(geo)[i] + l \in Units(geo.part)
        BY <1>2, <4>1, TargetFacts DEF Units
      <4> QED
        BY <4>2 DEF TypeOK
    <3> QED
      BY <1>1, <2>2, <2>4, <3>1
  <2> QED
    BY <2>3, <2>4
<1>4. geo' = geo
  BY DEF WriteUnit
<1> QED
  BY <1>3, <1>4 DEF Holds

\* When nothing of a write is left its copy is whole.
LEMMA TargetHolds ==
    ASSUME TypeOK, Written, copy # 0, left = {}
    PROVE  Fits(Target) /\ Holds(Target, version)
<1>1. \A k \in Units(geo.chunk) : Fits(Target) /\ store[Target + k] = << version, k >>
  BY DEF Written
<1>2. 0 \in Units(geo.chunk) /\ \A k \in Units(geo.bct) : k \in Units(geo.chunk)
  BY TargetFacts DEF Units
<1>3. Target + geo.bct <= geo.part
  BY <1>1, <1>2, TargetFacts DEF Fits
<1> QED
  BY <1>1, <1>2, <1>3 DEF Holds

LEMMA PlacedStep == TypeOK /\ Placed /\ [Next]_vars => Placed'
<1> SUFFICES ASSUME TypeOK, Placed, [Next]_vars PROVE Placed'
  OBVIOUS
<1>1. CASE WriteUnit
  <2>1. PICK k \in left : store' = [store EXCEPT ![Target + k] = << version, k >>]
    BY <1>1 DEF WriteUnit
  <2>2. /\ copy # 0 /\ Fits(Target) /\ geo' = geo /\ version # 0
        /\ Target + k \in Units(geo.part)
    BY <1>1, TargetFacts DEF WriteUnit, TypeOK
  <2>3. \A x : Fits(x)' = Fits(x)
    BY <2>2 DEF Fits
  <2>4. ASSUME NEW u \in Units(geo.part), store'[u] # Blank
        PROVE  /\ store'[u][1] # 0
               /\ \E i \in DOMAIN Offsets(geo) :
                     Fits(Offsets(geo)[i]) /\ u = Offsets(geo)[i] + store'[u][2]
    <3>1. CASE u = Target + k
      <4>1. store'[u] = << version, k >>
        BY <2>1, <2>2, <3>1 DEF TypeOK
      <4> QED
        BY <2>2, <3>1, <4>1, TargetFacts
    <3>2. CASE u # Target + k
      <4>1. store'[u] = store[u]
        BY <2>1, <3>2 DEF TypeOK
      <4> QED
        BY <2>4, <4>1 DEF Placed
    <3> QED
      BY <3>1, <3>2
  <2> QED
    BY <2>2, <2>3, <2>4 DEF Placed
<1>2. CASE Update \/ NextCopy \/ Finish \/ Fail \/ PowerLoss \/ UNCHANGED vars
  <2>1. geo' = geo /\ store' = store
    BY <1>2 DEF Update, NextCopy, Finish, Fail, PowerLoss, vars
  <2> QED
    BY <2>1 DEF Placed, Fits
<1> QED
  BY <1>1, <1>2 DEF Next

LEMMA WrittenStep == TypeOK /\ Written /\ [Next]_vars => Written'
<1> SUFFICES ASSUME TypeOK, Written, [Next]_vars PROVE Written'
  OBVIOUS
<1>1. CASE Update
  BY <1>1 DEF Update, Written
<1>2. CASE WriteUnit
  <2>1. PICK k \in left : /\ store' = [store EXCEPT ![Target + k] = << version, k >>]
                          /\ left' = left \ {k}
    BY <1>2 DEF WriteUnit
  <2>2. /\ copy # 0 /\ Fits(Target) /\ k \in Units(geo.chunk)
        /\ UNCHANGED << geo, version, copy >>
    BY <1>2 DEF WriteUnit, TypeOK
  <2>3. ASSUME NEW i \in 1 .. copy - 1 PROVE Holds(Offsets(geo)[i], version)'
    <3>1. i \in DOMAIN Offsets(geo)
      BY <2>2, TargetFacts, OffsetFacts
    <3>2. Holds(Offsets(geo)[i], version)
      BY <2>2 DEF Written
    <3>3. \A v : v = version => Holds(Offsets(geo)[i], v)'
      BY <1>2, <3>1, <3>2, HoldsStep
    <3> QED
      BY <2>2, <3>3 DEF Holds
  <2>4. ASSUME NEW l \in Units(geo.chunk) \ left'
        PROVE  store'[Target + l] = << version, l >>
    <3>1. Target + l \in DOMAIN store /\ Target + k \in DOMAIN store
      BY <2>2, TargetFacts DEF TypeOK
    <3>2. Target + l = Target + k <=> l = k
      BY <2>2, TargetFacts DEF Units
    <3>3. l # k => store[Target + l] = << version, l >>
      BY <2>1, <2>2 DEF Written
    <3> QED
      BY <2>1, <3>1, <3>2, <3>3
  <2>5. Target' = Target /\ Fits(Target)'
    BY <2>2 DEF Target, Fits
  <2> QED
    BY <2>2, <2>3, <2>4, <2>5 DEF Written
<1>3. CASE NextCopy
  <2>1. /\ copy \in 1 .. Len(Offsets(geo)) - 1 /\ left = {} /\ copy' = copy + 1
        /\ left' = Units(geo.chunk) /\ UNCHANGED << geo, store, version >>
    BY <1>3 DEF NextCopy
  <2>2. copy # 0 /\ copy \in Nat
    BY <2>1
  <2>3. Holds(Target, version)
    BY <2>1, <2>2, TargetHolds
  <2>4. \A i \in 1 .. copy' - 1 : i = copy \/ i \in 1 .. copy - 1
    BY <2>1
  <2>5. \A i \in 1 .. copy' - 1 : Holds(Offsets(geo)[i], version)
    BY <2>2, <2>3, <2>4 DEF Written, Target
  <2> QED
    BY <2>1, <2>5 DEF Written, Holds
<1>4. CASE Finish \/ Fail \/ PowerLoss
  BY <1>4 DEF Finish, Fail, PowerLoss, Written
<1>5. CASE UNCHANGED vars
  BY <1>5 DEF vars, Written, Holds, Target, Fits
<1> QED
  BY <1>1, <1>2, <1>3, <1>4, <1>5 DEF Next

\* When the last copy is done, every copy is.
LEMMA FinishHolds ==
    ASSUME TypeOK, Written, Finish
    PROVE  \A i \in DOMAIN Offsets(geo) : Holds(Offsets(geo)[i], version)
<1>1. copy = Len(Offsets(geo)) /\ left = {}
  BY DEF Finish
<1>2. copy # 0 /\ copy \in Nat /\ DOMAIN Offsets(geo) = 1 .. copy
  BY <1>1, OffsetFacts DEF TypeOK
<1>3. Holds(Target, version)
  BY <1>1, <1>2, TargetHolds
<1>4. \A i \in 1 .. copy : i = copy \/ i \in 1 .. copy - 1
  BY <1>2
<1> QED
  BY <1>2, <1>3, <1>4 DEF Written, Target

LEMMA ReportStep == TypeOK /\ Written /\ ReportKept /\ [Next]_vars => ReportKept'
<1> SUFFICES ASSUME TypeOK, Written, ReportKept, [Next]_vars PROVE ReportKept'
  OBVIOUS
<1>1. geo' = geo /\ geo \in Geometries
  BY DEF Next, Update, WriteUnit, NextCopy, Finish, Fail, PowerLoss, vars, TypeOK
<1>2. Copies' = Copies
  BY <1>1 DEF Copies, Fits
<1>3. CASE WriteUnit
  <2>1. PICK k \in left : store' = [store EXCEPT ![Target + k] = << version, k >>]
    BY <1>3 DEF WriteUnit
  <2>2. version >= reported /\ reported' = reported
    BY <1>3 DEF WriteUnit, TypeOK
  <2>3. \A u \in Units(geo.part) : store'[u] \in {store[u], << version, k >>}
    BY <2>1 DEF TypeOK
  <2>4. \A o \in Copies : \A l \in Units(geo.bct) : o + l \in Units(geo.part)
    BY <1>1, CopyFacts, SlotFacts DEF Units
  <2>5. ASSUME NEW o \in Copies, NEW l \in Units(geo.bct)
        PROVE  store'[o + l][1] >= reported
    BY <2>2, <2>3, <2>4 DEF ReportKept
  <2> QED
    BY <1>1, <1>2, <2>2, <2>5 DEF ReportKept
<1>4. CASE Finish
  <2>1. reported' = version /\ store' = store /\ version \in Nat
    BY <1>4 DEF Finish, TypeOK
  <2>2. ASSUME NEW o \in Copies, NEW l \in Units(geo.bct) PROVE store[o + l][1] >= version
    <3>1. PICK i \in DOMAIN Offsets(geo) : o = Offsets(geo)[i]
      BY <1>1, CopyFacts
    <3>2. store[o + l] = << version, l >>
      BY <1>4, <3>1, FinishHolds DEF Holds
    <3> QED
      BY <2>1, <3>2
  <2> QED
    BY <1>1, <1>2, <2>1, <2>2 DEF ReportKept
<1>5. CASE Update \/ NextCopy \/ Fail \/ PowerLoss \/ UNCHANGED vars
  <2>1. reported' = reported /\ store' = store
    BY <1>5 DEF Update, NextCopy, Fail, PowerLoss, vars
  <2> QED
    BY <1>1, <1>2, <2>1 DEF ReportKept
<1> QED
  BY <1>3, <1>4, <1>5 DEF Next

LEMMA SuccessStep == TypeOK /\ Written /\ SuccessKept /\ [Next]_vars => SuccessKept'
<1> SUFFICES ASSUME TypeOK, Written, SuccessKept, [Next]_vars PROVE SuccessKept'
  OBVIOUS
<1>1. CASE Finish
  <2>1. copy' = 0 /\ UNCHANGED << geo, store, version >>
    BY <1>1 DEF Finish
  <2> QED
    BY <1>1, <2>1, FinishHolds DEF SuccessKept, Holds
<1>2. CASE Update \/ Fail \/ PowerLoss
  BY <1>2 DEF Update, Fail, PowerLoss, SuccessKept
<1>3. CASE WriteUnit \/ NextCopy
  <2>1. result' = result /\ copy # 0
    BY <1>3 DEF WriteUnit, NextCopy
  <2> QED
    BY <2>1 DEF SuccessKept
<1>4. CASE UNCHANGED vars
  BY <1>4 DEF vars, SuccessKept, Holds
<1> QED
  BY <1>1, <1>2, <1>3, <1>4 DEF Next

LEMMA SpoiltStep ==
    TypeOK /\ Written /\ OneSpoiltEach /\ [Next]_vars => OneSpoiltEach'
<1> SUFFICES ASSUME TypeOK, Written, OneSpoiltEach, [Next]_vars PROVE OneSpoiltEach'
  OBVIOUS
<1>1. /\ geo' = geo /\ geo \in Geometries /\ version \in Nat \ {0} /\ stopped \in Nat
  BY DEF Next, Update, WriteUnit, NextCopy, Finish, Fail, PowerLoss, vars, TypeOK
<1>2. Copies' = Copies
  BY <1>1 DEF Copies, Fits
<1>3. ASSUME NEW A, NEW B, A \subseteq B, IsFiniteSet(B)
      PROVE  Cardinality(A) \in Nat /\ Cardinality(B) \in Nat /\ Cardinality(A) <= Cardinality(B)
  BY <1>3, FS_Subset, FS_CardinalityType
<1>4. CASE Update
  <2>1. /\ copy = 0 /\ copy' = 1 /\ store' = store /\ version' = version + 1
        /\ stopped' = stopped + 1
    BY <1>4 DEF Update
  <2>2. 1 .. version \subseteq 1 .. version'
    BY <1>1, <2>1
  <2>3. Spoilt' \subseteq Spoilt
    BY <1>1, <1>2, <2>1, <2>2 DEF Spoilt, Whole, Holds
  <2>4. Cardinality((Spoilt \ {Target})') <= Cardinality(Spoilt)
    BY <1>1, <1>3, <2>3, SpoiltFacts
  <2>5. Cardinality(Spoilt) \in Nat /\ Cardinality((Spoilt \ {Target})') \in Nat
    BY <1>1, <1>3, <2>3, SpoiltFacts
  <2> QED
    BY <1>1, <2>1, <2>4, <2>5 DEF OneSpoiltEach
<1>5. CASE WriteUnit
  <2>1. copy # 0 /\ UNCHANGED << copy, version, stopped >>
    BY <1>5 DEF WriteUnit
  <2>2. Target' = Target
    BY <1>1, <2>1 DEF Target
  <2>3. ASSUME NEW o \in Copies, o # Target, Whole(o) PROVE Whole(o)'
    <3>1. PICK i \in DOMAIN Offsets(geo) : o = Offsets(geo)[i]
      BY <1>1, CopyFacts
    <3>2. PICK v \in 1 .. version : Holds(Offsets(geo)[i], v)
      BY <2>3, <3>1 DEF Whole
    <3>3. Holds(Offsets(geo)[i], v)'
      BY <1>5, <2>3, <3>1, <3>2, HoldsStep
    <3> QED
      BY <1>1, <2>1, <3>1, <3>3 DEF Whole, Holds
  <2>4. (Spoilt \ {Target})' \subseteq Spoilt \ {Target}
    BY <1>2, <2>2, <2>3 DEF Spoilt
  <2>5. Cardinality((Spoilt \ {Target})') <= Cardinality(Spoilt \ {Target})
    BY <1>1, <1>3, <2>4, SpoiltFacts
  <2>6. Cardinality(Spoilt \ {Target}) \in Nat /\ Cardinality((Spoilt \ {Target})') \in Nat
    BY <1>1, <1>3, <2>4, SpoiltFacts
  <2> QED
    BY <1>1, <2>1, <2>5, <2>6 DEF OneSpoiltEach
<1>6. CASE NextCopy
  <2>1. /\ copy # 0 /\ copy' # 0 /\ left = {} /\ UNCHANGED << store, version, stopped >>
    BY <1>6 DEF NextCopy
  <2>2. Whole(Target)
    BY <1>1, <2>1, TargetHolds DEF Whole
  <2>3. Spoilt' = Spoilt
    BY <1>1, <1>2, <2>1 DEF Spoilt, Whole, Holds
  <2>4. (Spoilt \ {Target})' \subseteq Spoilt \ {Target}
    BY <2>2, <2>3 DEF Spoilt
  <2>5. Cardinality((Spoilt \ {Target})') <= Cardinality(Spoilt \ {Target})
    BY <1>1, <1>3, <2>4, SpoiltFacts
  <2>6. Cardinality(Spoilt \ {Target}) \in Nat /\ Cardinality((Spoilt \ {Target})') \in Nat
    BY <1>1, <1>3, <2>4, SpoiltFacts
  <2> QED
    BY <1>1, <2>1, <2>5, <2>6 DEF OneSpoiltEach
<1>7. CASE Finish
  <2>1. copy' = 0 /\ stopped' = 0 /\ UNCHANGED << store, version >>
    BY <1>7 DEF Finish
  <2>2. \A o \in Copies : Whole(o)
    BY <1>1, <1>7, FinishHolds, CopyFacts DEF Whole
  <2>3. Spoilt' = {}
    BY <1>1, <1>2, <2>1, <2>2 DEF Spoilt, Whole, Holds
  <2>4. Cardinality(Spoilt') = 0
    BY <2>3, FS_EmptySet
  <2> QED
    BY <1>1, <2>1, <2>4 DEF OneSpoiltEach
<1>8. CASE Fail \/ PowerLoss
  <2>1. copy # 0 /\ copy' = 0 /\ UNCHANGED << store, version, stopped >>
    BY <1>8 DEF Fail, PowerLoss
  <2>2. Spoilt' = Spoilt
    BY <1>1, <1>2, <2>1 DEF Spoilt, Whole, Holds
  <2>3. Cardinality(Spoilt) <= Cardinality(Spoilt \ {Target}) + 1
    BY <1>1, SpoiltFacts
  <2>4. Cardinality(Spoilt) \in Nat /\ Cardinality(Spoilt \ {Target}) \in Nat
    BY <1>1, SpoiltFacts
  <2>5. Cardinality(Spoilt \ {Target}) <= stopped - 1 /\ stopped <= version - 1
    BY <2>1 DEF OneSpoiltEach
  <2>6. Cardinality(Spoilt) <= stopped
    BY <1>1, <2>3, <2>4, <2>5
  <2> QED
    BY <1>1, <2>1, <2>2, <2>5, <2>6 DEF OneSpoiltEach
<1>9. CASE UNCHANGED vars
  BY <1>9 DEF vars, OneSpoiltEach, Spoilt, Copies, Whole, Holds, Fits, Target
<1> QED
  BY <1>4, <1>5, <1>6, <1>7, <1>8, <1>9 DEF Next

---------------------------------------------------------------------------
(* The theorems.                                                           *)

\* Every unit of the partition lies where an update put it, and each update that
\* was stopped has spoilt at most the one copy it was at.
THEOREM Invariance == Spec => []IInv
<1>1. Init => IInv
  BY InitInvariant
<1>2. IInv /\ [Next]_vars => IInv'
  <2>1. IInv => stopped <= version - 1
    BY DEF IInv, OneSpoiltEach
  <2> QED
    BY <2>1, TypeStep, PlacedStep, WrittenStep, ReportStep, SuccessStep, SpoiltStep DEF IInv
<1> QED
  BY <1>1, <1>2, PTL DEF Spec

\* The device finds a table unless as many updates in a row have been stopped as
\* there are copies, whatever the geometry and wherever each was stopped.
THEOREM AlwaysBootable == Spec => []Bootable
<1>1. ASSUME IInv, stopped < Cardinality(Copies) PROVE Found # 0
  <2>1. TypeOK /\ geo \in Geometries /\ stopped \in Nat /\ OneSpoiltEach
    BY <1>1 DEF IInv, TypeOK
  <2>2. Spoilt # Copies
    <3>1. CASE copy = 0
      BY <1>1, <2>1, <3>1, SpoiltFacts DEF OneSpoiltEach
    <3>2. CASE copy # 0
      <4>1. Cardinality(Spoilt) <= Cardinality(Spoilt \ {Target}) + 1
        BY <2>1, SpoiltFacts
      <4>2. Cardinality(Spoilt) \in Nat /\ Cardinality(Spoilt \ {Target}) \in Nat
        BY <2>1, SpoiltFacts
      <4>3. Cardinality(Spoilt) <= stopped
        BY <2>1, <3>2, <4>1, <4>2 DEF OneSpoiltEach
      <4> QED
        BY <1>1, <2>1, <4>2, <4>3
    <3> QED
      BY <3>1, <3>2
  <2>3. PICK o \in Copies : Whole(o)
    BY <2>2 DEF Spoilt
  <2>4. \E i \in DOMAIN Places(geo) : o = Places(geo)[i]
    BY DEF Copies, Elements
  <2> QED
    BY <2>1, <2>3, <2>4, FoundFacts
<1>2. IInv => Bootable
  BY <1>1 DEF Bootable, IInv
<1> QED
  BY <1>2, Invariance, PTL

\* A table whose update reports success lies at every offset, and the next boot
\* finds it and no other.
THEOREM SuccessIsFound == Spec => []SuccessMeansFound
<1>1. ASSUME IInv, result = "ok" PROVE Found = version
  <2>1. TypeOK /\ geo \in Geometries /\ version \in Nat \ {0}
    BY <1>1 DEF IInv, TypeOK
  <2>2. Holds(0, version)
    <3>1. 1 \in DOMAIN Offsets(geo) /\ Offsets(geo)[1] = 0
      BY <2>1, OffsetFacts
    <3> QED
      BY <1>1, <3>1 DEF IInv, SuccessKept
  <2>3. Holds(0, Found)
    BY <2>1, <2>2, FoundFacts DEF Whole
  <2>4. 0 \in Units(geo.bct)
    BY <2>1, SlotFacts DEF Units
  <2> QED
    BY <2>2, <2>3, <2>4 DEF Holds
<1>2. IInv => SuccessMeansFound
  BY <1>1 DEF IInv, SuccessKept, SuccessMeansFound
<1> QED
  BY <1>2, Invariance, PTL

\* What a boot finds is a copy, hence no older than the last table reported.
THEOREM NeverOlder == Spec => []NeverOlderThanReported
<1>1. ASSUME IInv, Found # 0 PROVE Found >= reported
  <2>1. TypeOK /\ geo \in Geometries /\ version \in Nat
    BY <1>1 DEF IInv, TypeOK
  <2>2. PICK j \in DOMAIN Places(geo) : Found \in 1 .. version /\ Holds(Places(geo)[j], Found)
    BY <1>1, <2>1, FoundFacts
  <2> DEFINE p == Places(geo)[j]
  <2>3. 0 \in Units(geo.bct) /\ p \in Units(geo.part) /\ p \in Nat
    BY <2>1, <2>2, SlotFacts, PlaceFacts DEF Units, Holds
  <2>4. store[p] = << Found, 0 >>
    BY <2>2, <2>3 DEF Holds
  <2>5. store[p] # Blank /\ store[p][1] = Found /\ store[p][2] = 0
    BY <2>2, <2>4 DEF Blank
  <2>6. PICK i \in DOMAIN Offsets(geo) : Fits(Offsets(geo)[i]) /\ p = Offsets(geo)[i] + 0
    BY <1>1, <2>3, <2>5 DEF IInv, Placed
  <2>7. p = Offsets(geo)[i]
    BY <2>1, <2>6, OffsetFacts
  <2>8. p \in Copies
    BY <2>1, <2>6, <2>7, CopyFacts
  <2>9. store[p + 0][1] >= reported /\ p + 0 = p
    BY <1>1, <2>3, <2>8 DEF IInv, ReportKept
  <2> QED
    BY <2>5, <2>9
<1>2. IInv => NeverOlderThanReported
  BY <1>1 DEF NeverOlderThanReported
<1> QED
  BY <1>2, Invariance, PTL
===============================================================================

------------------------------- MODULE ScanProofs ------------------------------
(***************************************************************************)
(* The geometry of a picture, for every size and every proper spacing of   *)
(* tile columns and rows: the boundaries of the tiles rise from 0 to the   *)
(* end of the picture, the scan tables are inverse to each other, and tile *)
(* scan takes the units by row of tiles, tile, row and column.             *)
(***************************************************************************)
EXTENDS PictureScan, FiniteSetTheorems, WellFoundedInduction, TLAPS

-------------------------------------------------------------------------------
(* Induction.  A set of natural numbers has a least element, so a claim    *)
(* with a counterexample has a first one.                                  *)
LEMMA LeastNatural ==
    ASSUME NEW T \in SUBSET Nat, T # {}
    PROVE  \E x \in T : \A y \in T : x <= y
<1> DEFINE R == {ss \in Nat \X Nat : ss[1] < ss[2]}
<1>1. IsWellFoundedOn(R, Nat)
  BY NatLessThanWellFounded, Zenon DEF OpToRel
<1>2. \A a, b \in Nat : <<a, b>> \notin R => b <= a
  OBVIOUS
<1> HIDE DEF R
<1>3. PICK x \in T : \A y \in T : <<y, x>> \notin R
  BY <1>1, WFMin, Zenon
<1>4. ASSUME NEW y \in T PROVE x <= y
  BY <1>2, <1>3, Zenon
<1> QED
  BY <1>4

(* A set that holds 0 and, below n, the successor of each of its members   *)
(* holds every number up to n.                                             *)
LEMMA UpTo ==
    ASSUME NEW n \in Nat, NEW S, 0 \in S, \A k \in 0 .. n - 1 : k \in S => k + 1 \in S
    PROVE  \A k \in 0 .. n : k \in S
<1> SUFFICES ASSUME NEW j \in 0 .. n, j \notin S PROVE FALSE
  OBVIOUS
<1> DEFINE T == {k \in 0 .. n : k \notin S}
<1>1. T \in SUBSET Nat /\ j \in T
  OBVIOUS
<1>2. PICK k \in T : \A y \in T : k <= y
  BY <1>1, LeastNatural
<1>3. k \in 0 .. n /\ k \notin S /\ k # 0
  OBVIOUS
<1>4. k - 1 \in 0 .. n - 1 /\ k - 1 \in 0 .. n /\ (k - 1) + 1 = k /\ ~(k <= k - 1)
  BY <1>3
<1>5. k - 1 \in S
  BY <1>2, <1>4
<1> QED
  BY <1>3, <1>4, <1>5

LEMMA MaxIs ==
    ASSUME NEW S \in SUBSET Int, NEW m \in S, \A y \in S : y <= m
    PROVE  Max(S) = m
<1>1. \A x \in S : (\A y \in S : x >= y) <=> x = m
  OBVIOUS
<1> QED
  BY <1>1 DEF Max

-------------------------------------------------------------------------------
(* Boundaries.  The recursive definition has a solution, the sums.         *)
SumsTo(spans, k, g) == g = [i \in 0 .. k |-> IF i = 0 THEN 0 ELSE g[i - 1] + spans[i]]

LEMMA SumsExist ==
    ASSUME NEW spans \in Seq(Int)
    PROVE  \E g : SumsTo(spans, Len(spans), g)
<1> DEFINE n == Len(spans)
           S == {k \in Nat : \E g : SumsTo(spans, k, g)}
<1>1. n \in Nat
  OBVIOUS
<1>2. 0 \in S
  <2> DEFINE g == [i \in 0 .. 0 |-> 0]
  <2>1. SumsTo(spans, 0, g)
    BY DEF SumsTo
  <2> QED
    BY <2>1
<1>3. ASSUME NEW k \in 0 .. n - 1, k \in S PROVE k + 1 \in S
  <2>1. PICK g : SumsTo(spans, k, g)
    BY <1>3
  <2> DEFINE h == [i \in 0 .. k + 1 |-> IF i = k + 1 THEN g[k] + spans[k + 1] ELSE g[i]]
             f == [i \in 0 .. k + 1 |-> IF i = 0 THEN 0 ELSE h[i - 1] + spans[i]]
  <2>2. \A i \in 0 .. k : g[i] = IF i = 0 THEN 0 ELSE g[i - 1] + spans[i]
    BY <2>1 DEF SumsTo
  <2>3. ASSUME NEW i \in 0 .. k + 1 PROVE h[i] = f[i]
    <3>1. CASE i = k + 1
      <4>1. h[i] = g[k] + spans[k + 1]
        BY <3>1, <1>1
      <4>2. h[i - 1] = g[k]
        BY <3>1, <1>1
      <4> QED
        BY <3>1, <4>1, <4>2, <1>1
    <3>2. CASE i = 0
      BY <3>2, <2>2, <1>1
    <3>3. CASE i \in 1 .. k
      <4>1. h[i] = g[i] /\ h[i - 1] = g[i - 1] /\ i # 0 /\ i \in 0 .. k
        BY <3>3, <1>1
      <4> QED
        BY <4>1, <2>2
    <3> QED
      BY <3>1, <3>2, <3>3, <1>1
  <2>4. h = f
    BY <2>3, Zenon
  <2>5. SumsTo(spans, k + 1, h)
    BY <2>4 DEF SumsTo
  <2> QED
    BY <2>5, <1>1
<1>4. \A k \in 0 .. n - 1 : k \in S => k + 1 \in S
  BY <1>3
<1> HIDE DEF S, n
<1>5. \A k \in 0 .. n : k \in S
  BY <1>1, <1>2, <1>4, UpTo, Zenon
<1>6. n \in S
  BY <1>1, <1>5
<1> QED
  BY <1>6 DEF S, n

LEMMA BoundariesAre ==
    ASSUME NEW spans \in Seq(Int)
    PROVE  /\ DOMAIN Boundaries(spans) = 0 .. Len(spans)
           /\ Boundaries(spans)[0] = 0
           /\ \A i \in 1 .. Len(spans) :
                Boundaries(spans)[i] = Boundaries(spans)[i - 1] + spans[i]
<1>1. SumsTo(spans, Len(spans), Boundaries(spans))
  BY SumsExist DEF SumsTo, Boundaries
<1> QED
  BY <1>1 DEF SumsTo

(* Boundaries that rise from 0 to the size of the picture.                 *)
Rising(bd, n, size) ==
    /\ DOMAIN bd = 0 .. n /\ bd[0] = 0 /\ bd[n] = size
    /\ \A i \in 0 .. n : bd[i] \in Int
    /\ \A i \in 1 .. n : bd[i - 1] < bd[i]

(* The quotients of a span's two ends by a number of spans that is at most *)
(* the size differ.                                                        *)
LEMMA QuotientsRise ==
    ASSUME NEW size \in Nat, NEW n \in 1 .. size, NEW i \in Nat
    PROVE  (size * i) \div n < (size * (i + 1)) \div n
<1> DEFINE p == size * i
           r == size * (i + 1)
           x == p \div n
           y == r \div n
<1>1. p \in Nat /\ r \in Nat /\ r = p + size /\ n \in Nat /\ n > 0 /\ n <= size
  OBVIOUS
<1>2. x \in Int /\ y \in Int /\ n * x <= p /\ r < n * (y + 1)
  <2> HIDE DEF p, r
  <2>1. \A a \in Nat : a = n * (a \div n) + (a % n) /\ a % n \in 0 .. n - 1 /\ a \div n \in Int
    BY <1>1
  <2>2. \A z \in Int : n * (z + 1) = n * z + n /\ n * z \in Int
    BY <1>1
  <2>3. x \in Int /\ y \in Int /\ p = n * x + (p % n) /\ r = n * y + (r % n)
    BY <1>1, <2>1
  <2>4. p % n \in 0 .. n - 1 /\ r % n \in 0 .. n - 1
    BY <1>1, <2>1
  <2> HIDE DEF x, y
  <2> QED
    BY <1>1, <2>2, <2>3, <2>4
<1> HIDE DEF p, r, x, y
<1>3. SUFFICES ASSUME y <= x PROVE FALSE
  BY <1>2 DEF x, y, p, r
<1>4. n * (y + 1) <= n * (x + 1) /\ n * (x + 1) = n * x + n
  BY <1>1, <1>2, <1>3
<1>5. n * (y + 1) \in Int /\ n * x \in Int
  BY <1>1, <1>2
<1> QED
  BY <1>1, <1>2, <1>4, <1>5

LEMMA UniformRises ==
    ASSUME NEW size \in Nat, NEW n \in 1 .. size
    PROVE  Rising(Boundaries(UniformSpans(size, n)), n, size)
<1> DEFINE spans == UniformSpans(size, n)
           bd == Boundaries(spans)
           S == {i \in Nat : bd[i] = (size * i) \div n}
<1>0. n \in Nat /\ n > 0 /\ \A i \in Nat : size * i \in Nat /\ (size * i) \div n \in Int
  OBVIOUS
<1>1. spans \in Seq(Int) /\ Len(spans) = n
  <2>1. \A i \in 1 .. n : (size * i) \div n - (size * (i - 1)) \div n \in Int
    <3>1. \A i \in 1 .. n : i \in Nat /\ i - 1 \in Nat
      BY <1>0
    <3> QED
      BY <1>0, <3>1
  <2>2. spans \in [1 .. n -> Int]
    BY <2>1 DEF UniformSpans
  <2> QED
    BY <2>2, <1>0
<1>2. /\ DOMAIN bd = 0 .. n /\ bd[0] = 0
      /\ \A i \in 1 .. n : bd[i] = bd[i - 1] + spans[i]
  BY <1>1, BoundariesAre
<1>3. 0 \in S
  <2>1. size * 0 = 0 /\ 0 \div n = 0
    BY <1>0
  <2> QED
    BY <1>2, <2>1
<1>4. ASSUME NEW k \in 0 .. n - 1, k \in S PROVE k + 1 \in S
  <2>1. k + 1 \in 1 .. n /\ (k + 1) - 1 = k /\ k \in Nat /\ k + 1 \in Nat
    BY <1>0
  <2>2. spans[k + 1] = (size * (k + 1)) \div n - (size * k) \div n
    BY <2>1 DEF UniformSpans
  <2>3. bd[k + 1] = bd[k] + spans[k + 1] /\ bd[k] = (size * k) \div n
    BY <1>2, <1>4, <2>1
  <2>4. (size * (k + 1)) \div n \in Int /\ (size * k) \div n \in Int
    BY <1>0, <2>1
  <2>5. bd[k + 1] = (size * (k + 1)) \div n
    BY <2>2, <2>3, <2>4
  <2> QED
    BY <2>1, <2>5
<1>5. \A k \in 0 .. n - 1 : k \in S => k + 1 \in S
  BY <1>4
<1> HIDE DEF S
<1>6. \A k \in 0 .. n : k \in S
  BY <1>0, <1>3, <1>5, UpTo, Zenon
<1>7. \A k \in 0 .. n : bd[k] = (size * k) \div n /\ bd[k] \in Int
  BY <1>0, <1>6 DEF S
<1>8. bd[n] = size
  BY <1>0, <1>7
<1>9. ASSUME NEW i \in 1 .. n PROVE bd[i - 1] < bd[i]
  <2>1. i - 1 \in Nat /\ i - 1 \in 0 .. n /\ i \in 0 .. n /\ (i - 1) + 1 = i
    BY <1>0
  <2>2. (size * (i - 1)) \div n < (size * i) \div n
    BY <2>1, QuotientsRise
  <2> QED
    BY <1>7, <2>1, <2>2
<1> QED
  BY <1>2, <1>7, <1>8, <1>9 DEF Rising

LEMMA ExplicitRises ==
    ASSUME NEW size \in Nat, NEW n \in Nat \ {0}, NEW first \in Seq(Nat \ {0}),
           Len(first) = n - 1, Boundaries(first)[n - 1] < size
    PROVE  Rising(Boundaries(ExplicitSpans(size, first)), n, size)
<1> DEFINE fd == Boundaries(first)
           last == size - fd[n - 1]
           spans == ExplicitSpans(size, first)
           bd == Boundaries(spans)
           S == {i \in Nat : fd[i] \in Int /\ bd[i] = fd[i]}
<1>1. /\ first \in Seq(Int) /\ fd[0] = 0
      /\ \A i \in 1 .. n - 1 : fd[i] = fd[i - 1] + first[i] /\ first[i] \in Nat \ {0}
  <2>1. first \in Seq(Int)
    OBVIOUS
  <2> QED
    BY <2>1, BoundariesAre
<1>2. \A i \in 1 .. n - 1 : first[i] \in Int /\ first[i] > 0
  BY <1>1
<1>3. ASSUME NEW k \in 0 .. n - 2, fd[k] \in Int PROVE fd[k + 1] \in Int
  <2>1. k + 1 \in 1 .. n - 1 /\ (k + 1) - 1 = k
    OBVIOUS
  <2> HIDE DEF fd
  <2>2. fd[k + 1] = fd[k] + first[k + 1] /\ first[k + 1] \in Int
    BY <1>1, <1>2, <2>1
  <2> QED
    BY <1>3, <2>2
<1>4. \A k \in 0 .. n - 1 : fd[k] \in Int
  <2> DEFINE F == {k \in Nat : fd[k] \in Int}
  <2>1. n - 1 \in Nat /\ 0 \in F /\ \A k \in 0 .. (n - 1) - 1 : k \in F => k + 1 \in F
    BY <1>1, <1>3
  <2> HIDE DEF F
  <2>2. \A k \in 0 .. n - 1 : k \in F
    BY <2>1, UpTo, Zenon
  <2> QED
    BY <2>2 DEF F
<1>5. last \in Int /\ last > 0
  <2>1. n - 1 \in 0 .. n - 1
    OBVIOUS
  <2>2. fd[n - 1] \in Int
    BY <1>4, <2>1
  <2> QED
    BY <2>2
<1>6. spans = Append(first, last)
  BY DEF ExplicitSpans
<1>7. /\ spans \in Seq(Int) /\ Len(spans) = n /\ spans[n] = last
      /\ \A i \in 1 .. n - 1 : spans[i] = first[i]
  <2> HIDE DEF spans, last
  <2> QED
    BY <1>1, <1>5, <1>6
<1>8. /\ DOMAIN bd = 0 .. n /\ bd[0] = 0
      /\ \A i \in 1 .. n : bd[i] = bd[i - 1] + spans[i]
  BY <1>7, BoundariesAre
<1> HIDE DEF fd, bd, spans, last
<1>9. ASSUME NEW k \in 0 .. (n - 1) - 1, k \in S PROVE k + 1 \in S
  <2>1. k + 1 \in 1 .. n - 1 /\ k + 1 \in 1 .. n /\ (k + 1) - 1 = k /\ k + 1 \in 0 .. n - 1
    OBVIOUS
  <2>2. bd[k + 1] = bd[k] + spans[k + 1] /\ fd[k + 1] = fd[k] + first[k + 1]
    BY <1>1, <1>8, <2>1
  <2>3. spans[k + 1] = first[k + 1] /\ bd[k] = fd[k] /\ fd[k + 1] \in Int
    BY <1>4, <1>7, <1>9, <2>1
  <2> QED
    BY <2>1, <2>2, <2>3
<1>10. \A k \in 0 .. n - 1 : k \in S
  <2>1. n - 1 \in Nat /\ 0 \in S /\ \A k \in 0 .. (n - 1) - 1 : k \in S => k + 1 \in S
    BY <1>1, <1>8, <1>9
  <2> HIDE DEF S
  <2> QED
    BY <2>1, UpTo, Zenon
<1>11. bd[n] = size
  <2>1. n \in 1 .. n /\ n - 1 \in 0 .. n - 1
    OBVIOUS
  <2>2. bd[n] = bd[n - 1] + last /\ bd[n - 1] = fd[n - 1] /\ fd[n - 1] \in Int
    BY <1>7, <1>8, <1>10, <2>1
  <2> QED
    BY <2>2 DEF last
<1>12. \A k \in 0 .. n : bd[k] \in Int
  <2>1. \A k \in 0 .. n : k \in 0 .. n - 1 \/ k = n
    OBVIOUS
  <2> QED
    BY <1>10, <1>11, <2>1
<1>13. ASSUME NEW i \in 1 .. n PROVE bd[i - 1] < bd[i]
  <2>1. i \in 1 .. n - 1 \/ i = n
    OBVIOUS
  <2>2. spans[i] \in Int /\ spans[i] > 0
    BY <1>2, <1>5, <1>7, <2>1
  <2>3. bd[i - 1] \in Int /\ bd[i] = bd[i - 1] + spans[i]
    BY <1>8, <1>12
  <2> QED
    BY <2>2, <2>3
<1> QED
  BY <1>8, <1>11, <1>12, <1>13 DEF Rising, bd, spans

LEMMA SpansRise ==
    ASSUME NEW size \in Nat, NEW spacing, ProperSpacing(size, spacing)
    PROVE  Rising(Boundaries(Spans(size, spacing)), spacing.n, size)
<1>1. CASE spacing.uniform \/ spacing.n = 1
  BY <1>1, UniformRises DEF Spans, ProperSpacing
<1>2. CASE ~(spacing.uniform \/ spacing.n = 1)
  BY <1>2, ExplicitRises DEF Spans, ProperSpacing
<1> QED
  BY <1>1, <1>2

-------------------------------------------------------------------------------
(* The span that holds a position.                                         *)
LEMMA RisingMonotone ==
    ASSUME NEW bd, NEW n \in Nat, NEW size \in Int, Rising(bd, n, size),
           NEW i \in 0 .. n, NEW j \in 0 .. n, i < j
    PROVE  bd[i] < bd[j]
<1> DEFINE S == {k \in Nat : bd[i] < bd[i + 1 + k]}
           m == n - (i + 1)
<1>1. m \in Nat
  OBVIOUS
<1>2. \A k \in 0 .. m : i + 1 + k \in 1 .. n /\ i + k \in 0 .. n /\ (i + 1 + k) - 1 = i + k
  OBVIOUS
<1>3. \A k \in 0 .. m : bd[i + k] < bd[i + 1 + k] /\ bd[i + k] \in Int /\ bd[i + 1 + k] \in Int
  <2>1. \A k \in 0 .. m : i + 1 + k \in 0 .. n
    OBVIOUS
  <2> QED
    BY <1>2, <2>1 DEF Rising
<1>4. 0 \in S
  <2>1. 0 \in 0 .. m /\ i + 0 = i
    BY <1>1
  <2>2. bd[i + 0] < bd[i + 1 + 0]
    BY <1>3, <2>1
  <2> QED
    BY <2>1, <2>2
<1>5. ASSUME NEW k \in 0 .. m - 1, k \in S PROVE k + 1 \in S
  <2>1. k + 1 \in 0 .. m /\ k \in 0 .. m /\ i + (k + 1) = i + 1 + k /\ 0 \in 0 .. m /\ i + 0 = i
    BY <1>1
  <2>2. /\ bd[i + (k + 1)] < bd[i + 1 + (k + 1)] /\ bd[i + 1 + (k + 1)] \in Int
        /\ bd[i + (k + 1)] \in Int /\ bd[i + 0] \in Int
    BY <1>3, <2>1
  <2> QED
    BY <1>5, <2>1, <2>2
<1>6. \A k \in 0 .. m : k \in S
  <2>1. \A k \in 0 .. m - 1 : k \in S => k + 1 \in S
    BY <1>5
  <2> HIDE DEF S, m
  <2> QED
    BY <1>1, <1>4, <2>1, UpTo, Zenon
<1>7. j - (i + 1) \in 0 .. m /\ i + 1 + (j - (i + 1)) = j
  OBVIOUS
<1> QED
  BY <1>6, <1>7

LEMMA SpanAtIs ==
    ASSUME NEW bd, NEW n \in Nat, NEW size \in Int, Rising(bd, n, size),
           NEW i \in 0 .. n - 1, NEW x \in Int, bd[i] <= x, x < bd[i + 1]
    PROVE  SpanAt(bd, x) = i
<1> DEFINE S == {k \in DOMAIN bd : bd[k] <= x}
<1>1. DOMAIN bd = 0 .. n /\ \A k \in 0 .. n : bd[k] \in Int
  BY DEF Rising
<1>2. i + 1 \in 0 .. n /\ i \in 0 .. n
  OBVIOUS
<1>3. ASSUME NEW k \in S PROVE k <= i
  <2> SUFFICES ASSUME k > i PROVE FALSE
    BY <1>1
  <2>1. k \in 0 .. n /\ bd[k] \in Int /\ bd[i + 1] \in Int /\ bd[k] <= x
    BY <1>1, <1>2
  <2>2. k = i + 1 \/ i + 1 < k
    BY <2>1
  <2>3. bd[i + 1] <= bd[k]
    BY <1>2, <2>1, <2>2, RisingMonotone
  <2> QED
    BY <2>1, <2>3
<1>4. i \in S /\ S \in SUBSET Int
  BY <1>1, <1>2
<1> HIDE DEF S
<1>5. Max(S) = i
  BY <1>3, <1>4, MaxIs, Zenon
<1> QED
  BY <1>5 DEF SpanAt, S

LEMMA SpanAtType ==
    ASSUME NEW bd, NEW n \in Nat, NEW size \in Int, Rising(bd, n, size),
           NEW x \in 0 .. size - 1
    PROVE  /\ SpanAt(bd, x) \in 0 .. n - 1
           /\ bd[SpanAt(bd, x)] <= x /\ x < bd[SpanAt(bd, x) + 1]
<1> DEFINE T == {k \in 0 .. n : x < bd[k]}
<1>1. bd[0] = 0 /\ bd[n] = size /\ \A k \in 0 .. n : bd[k] \in Int
  BY DEF Rising
<1>2. n \in T /\ T \in SUBSET Nat
  BY <1>1
<1>3. PICK k \in T : \A y \in T : k <= y
  BY <1>2, LeastNatural
<1>4. k \in 0 .. n /\ x < bd[k] /\ k # 0
  BY <1>1
<1>5. k - 1 \in 0 .. n - 1 /\ k - 1 \in 0 .. n /\ (k - 1) + 1 = k /\ ~(k <= k - 1)
  BY <1>4
<1>6. bd[k - 1] <= x
  BY <1>1, <1>3, <1>5
<1>7. SpanAt(bd, x) = k - 1
  BY <1>4, <1>5, <1>6, SpanAtIs
<1> QED
  BY <1>4, <1>5, <1>6, <1>7

-------------------------------------------------------------------------------
(* Raster scan.                                                            *)
LEMMA SizeType == Width \in Nat /\ Height \in Nat /\ Width > 0 /\ Height > 0
BY SizeAssumption

LEMMA DivMod ==
    ASSUME NEW a \in Nat
    PROVE  /\ a % Width \in 0 .. Width - 1 /\ a \div Width \in Nat
           /\ a = (a \div Width) * Width + (a % Width)
BY SizeType

LEMMA ProductMonotone ==
    ASSUME NEW p \in Int, NEW q \in Int, NEW w \in Nat, p <= q
    PROVE  p * w <= q * w
BY SMT

LEMMA CoordType ==
    ASSUME NEW a \in Addr
    PROVE  toCoord(a) \in Coord /\ toAddrInRs(toCoord(a)) = a
<1>1. a \in Nat /\ a < Width * Height
  BY SizeType DEF Addr
<1> DEFINE q == a \div Width
           r == a % Width
<1>2. r \in 0 .. Width - 1 /\ q \in Nat /\ a = q * Width + r
  BY <1>1, DivMod
<1> HIDE DEF q, r
<1>3. q < Height
  <2> SUFFICES ASSUME q >= Height PROVE FALSE
    BY <1>2, SizeType
  <2>1. Height * Width <= q * Width
    BY ProductMonotone, <1>2, SizeType
  <2>2. Height * Width = Width * Height /\ Width * Height \in Nat /\ q * Width \in Nat
    BY <1>2, SizeType
  <2> QED
    BY <2>1, <2>2, <1>1, <1>2
<1>4. toCoord(a) = <<r, q>>
  BY DEF toCoord, q, r
<1> QED
  BY <1>2, <1>3, <1>4, SizeType DEF Coord, toAddrInRs

LEMMA CoordIsPair ==
    ASSUME NEW u \in Coord
    PROVE  /\ u = <<u[1], u[2]>>
           /\ u[1] \in Int /\ 0 <= u[1] /\ u[1] <= Width - 1
           /\ u[2] \in Int /\ 0 <= u[2] /\ u[2] <= Height - 1
BY SizeType DEF Coord

LEMMA AddrType ==
    ASSUME NEW u \in Coord
    PROVE  toAddrInRs(u) \in Addr /\ toCoord(toAddrInRs(u)) = u
<1> DEFINE x == u[1]
           y == u[2]
           a == y * Width + x
<1>1. u = <<x, y>> /\ x \in Nat /\ x <= Width - 1 /\ y \in Nat /\ y <= Height - 1
  BY CoordIsPair, SizeType
<1>2. toAddrInRs(u) = a
  BY DEF toAddrInRs
<1> HIDE DEF x, y
<1>3. a \in Nat /\ a < Width * Height
  <2>1. y * Width <= (Height - 1) * Width
    BY ProductMonotone, <1>1, SizeType
  <2>2. (Height - 1) * Width = Width * Height - Width /\ y * Width \in Nat /\ Width * Height \in Nat
    BY <1>1, SizeType
  <2> QED
    BY <2>1, <2>2, <1>1, SizeType
<1> DEFINE q == a \div Width
           r == a % Width
<1>4. r \in 0 .. Width - 1 /\ q \in Nat /\ a = q * Width + r
  BY <1>3, DivMod
<1>5. q = y
  <2> HIDE DEF q, r
  <2>1. q * Width + r = y * Width + x /\ q * Width \in Nat /\ y * Width \in Nat
    BY <1>1, <1>4, SizeType
  <2>2. CASE q < y
    <3>1. (q + 1) * Width <= y * Width
      BY <2>2, ProductMonotone, <1>1, <1>4, SizeType
    <3>2. (q + 1) * Width = q * Width + Width
      BY <1>4, SizeType
    <3> QED
      BY <2>1, <3>1, <3>2, <1>1, <1>4, SizeType
  <2>3. CASE q > y
    <3>1. (y + 1) * Width <= q * Width
      BY <2>3, ProductMonotone, <1>1, <1>4, SizeType
    <3>2. (y + 1) * Width = y * Width + Width
      BY <1>1, SizeType
    <3> QED
      BY <2>1, <3>1, <3>2, <1>1, <1>4, SizeType
  <2> QED
    BY <2>2, <2>3, <1>1, <1>4
<1>6. r = x
  <2> HIDE DEF q, r
  <2> QED
  BY <1>5, <1>4, <1>1, SizeType
<1>7. toCoord(a) = <<r, q>>
  BY DEF toCoord, q, r
<1>8. a \in Addr
  BY <1>3, SizeType DEF Addr
<1> QED
  BY <1>1, <1>2, <1>5, <1>6, <1>7, <1>8

-------------------------------------------------------------------------------
(* Tile scan.  The tile of a unit, and the address formula; both are read  *)
(* off boundaries cb of the columns and rb of the rows.                    *)
ColumnOf(cb, u) == SpanAt(cb, u[1])
RowOf(rb, u) == SpanAt(rb, u[2])
WidthAt(cb, u) == cb[ColumnOf(cb, u) + 1] - cb[ColumnOf(cb, u)]
HeightAt(rb, u) == rb[RowOf(rb, u) + 1] - rb[RowOf(rb, u)]

LEMMA TileType ==
    ASSUME NEW cb, NEW rb, NEW n \in Nat, NEW m \in Nat,
           Rising(cb, n, Width), Rising(rb, m, Height), NEW u \in Coord
    PROVE  /\ ColumnOf(cb, u) \in 0 .. n - 1 /\ RowOf(rb, u) \in 0 .. m - 1
           /\ cb[ColumnOf(cb, u)] \in Nat /\ cb[ColumnOf(cb, u) + 1] \in 0 .. Width
           /\ rb[RowOf(rb, u)] \in Nat /\ rb[RowOf(rb, u) + 1] \in 0 .. Height
           /\ u[1] - cb[ColumnOf(cb, u)] \in 0 .. WidthAt(cb, u) - 1
           /\ u[2] - rb[RowOf(rb, u)] \in 0 .. HeightAt(rb, u) - 1
           /\ WidthAt(cb, u) \in Nat /\ HeightAt(rb, u) \in Nat
<1>1. u[1] \in 0 .. Width - 1 /\ u[2] \in 0 .. Height - 1
  BY CoordIsPair, SizeType
<1>2. ASSUME NEW bd, NEW k \in Nat, NEW size \in Nat, Rising(bd, k, size),
             NEW x \in 0 .. size - 1
      PROVE  /\ SpanAt(bd, x) \in 0 .. k - 1
             /\ bd[SpanAt(bd, x)] \in Nat /\ bd[SpanAt(bd, x) + 1] \in 0 .. size
             /\ bd[SpanAt(bd, x)] <= x /\ x < bd[SpanAt(bd, x) + 1]
  <2> DEFINE i == SpanAt(bd, x)
  <2>1. i \in 0 .. k - 1 /\ bd[i] <= x /\ x < bd[i + 1]
    BY <1>2, SpanAtType
  <2> HIDE DEF i
  <2>2. /\ i \in 0 .. k /\ i + 1 \in 0 .. k /\ 0 \in 0 .. k /\ k \in 0 .. k
        /\ bd[0] = 0 /\ bd[k] = size /\ bd[i] \in Int /\ bd[i + 1] \in Int
    BY <1>2, <2>1 DEF Rising
  <2>3. 0 <= bd[i]
    <3>1. i = 0 \/ 0 < i
      BY <2>1
    <3>2. 0 < i => bd[0] < bd[i]
      BY <1>2, <2>2, RisingMonotone
    <3> QED
      BY <2>2, <3>1, <3>2
  <2>4. bd[i + 1] <= size
    <3>1. i + 1 = k \/ i + 1 < k
      BY <2>1
    <3>2. i + 1 < k => bd[i + 1] < bd[k]
      BY <1>2, <2>2, RisingMonotone
    <3> QED
      BY <2>2, <3>1, <3>2
  <2>5. bd[i] \in Nat /\ bd[i + 1] \in 0 .. size
    BY <2>1, <2>2, <2>3, <2>4
  <2> QED
    BY <2>1, <2>5 DEF i
<1>3. /\ ColumnOf(cb, u) \in 0 .. n - 1
      /\ cb[ColumnOf(cb, u)] \in Nat /\ cb[ColumnOf(cb, u) + 1] \in 0 .. Width
      /\ cb[ColumnOf(cb, u)] <= u[1] /\ u[1] < cb[ColumnOf(cb, u) + 1]
  BY <1>1, <1>2, SizeType DEF ColumnOf
<1>4. /\ RowOf(rb, u) \in 0 .. m - 1
      /\ rb[RowOf(rb, u)] \in Nat /\ rb[RowOf(rb, u) + 1] \in 0 .. Height
      /\ rb[RowOf(rb, u)] <= u[2] /\ u[2] < rb[RowOf(rb, u) + 1]
  BY <1>1, <1>2, SizeType DEF RowOf
<1> QED
  BY <1>1, <1>3, <1>4, SizeType DEF WidthAt, HeightAt

LEMMA InBox ==
    ASSUME NEW w \in Nat, NEW h \in Nat, NEW x \in 0 .. w - 1, NEW y \in 0 .. h - 1
    PROVE  /\ y * w + x \in 0 .. h * w - 1
           /\ y * w \in Nat
<1>1. y * w <= (h - 1) * w /\ 0 * w <= y * w
  BY ProductMonotone
<1>2. (h - 1) * w = h * w - w /\ h * w \in Nat /\ y * w \in Int /\ 0 * w = 0
  OBVIOUS
<1> QED
  BY <1>1, <1>2

(* Where the addresses of a unit's tile begin and end.                     *)
LEMMA AddrInTsIs ==
    ASSUME NEW cb, NEW rb, NEW n \in Nat, NEW m \in Nat,
           Rising(cb, n, Width), Rising(rb, m, Height), NEW u \in Coord
    PROVE  LET i == ColumnOf(cb, u)
               j == RowOf(rb, u)
               h == HeightAt(rb, u)
               w == WidthAt(cb, u)
               a == AddrInTs(cb, rb, u)
           IN  /\ a = Width * rb[j] + h * cb[i] + ((u[2] - rb[j]) * w + (u[1] - cb[i]))
               /\ a \in Nat /\ Width * rb[j] \in Nat /\ h * cb[i] \in Nat
               /\ (u[2] - rb[j]) * w \in Nat
               /\ Width * rb[j] + h * cb[i] <= a
               /\ a < Width * rb[j] + h * cb[i + 1]
               /\ Width * rb[j] <= a /\ a < Width * rb[j + 1]
<1> DEFINE i == ColumnOf(cb, u)
           j == RowOf(rb, u)
           h == HeightAt(rb, u)
           w == WidthAt(cb, u)
           a == AddrInTs(cb, rb, u)
           x == u[1] - cb[i]
           y == u[2] - rb[j]
           c == cb[i]
           d == cb[i + 1]
           r == rb[j]
           s == rb[j + 1]
<1>1. /\ c \in Nat /\ d \in 0 .. Width /\ r \in Nat /\ s \in 0 .. Height
      /\ x \in 0 .. w - 1 /\ y \in 0 .. h - 1 /\ w \in Nat /\ h \in Nat
  BY TileType
<1>2. w = d - c /\ h = s - r
  BY DEF WidthAt, HeightAt
<1>3. a = Width * r + h * c + y * w + u[1] - c
  BY DEF AddrInTs, ColumnOf, RowOf, WidthAt, HeightAt
<1>4. u[1] \in Int
  BY CoordIsPair
<1>5. x = u[1] - c
  OBVIOUS
<1> HIDE DEF i, j, h, w, a, x, y, c, d, r, s
<1>6. y * w + x \in 0 .. h * w - 1 /\ y * w \in Nat
  BY <1>1, InBox
<1>7. Width * r \in Nat /\ h * c \in Nat /\ h * d \in Nat /\ Width * s \in Nat
  BY <1>1, SizeType
<1>8. h * d = h * c + h * w /\ Width * s = Width * r + h * Width
  BY <1>1, <1>2, SizeType
<1>9. h * d <= h * Width
  <2>1. d * h <= Width * h
    BY <1>1, ProductMonotone, SizeType
  <2> QED
    BY <1>1, <2>1, SizeType
<1>10. a = Width * r + h * c + (y * w + x)
  BY <1>1, <1>3, <1>4, <1>5, <1>6, <1>7
<1>11. /\ a \in Nat /\ Width * r + h * c <= a /\ a < Width * r + h * d
       /\ Width * r <= a /\ a < Width * s
  <2>1. h * w \in Int /\ h * Width \in Int
    BY <1>1, SizeType
  <2> QED
    BY <1>6, <1>7, <1>8, <1>9, <1>10, <2>1
<1> QED
  BY <1>6, <1>7, <1>10, <1>11 DEF i, j, h, w, a, x, y, c, d, r, s

(* Tile scan takes the rows of tiles from top to bottom, the tiles of one  *)
(* from left to right, and in a tile one row of units after the other.     *)
FollowsInScan(cb, rb, u, v) ==
    \/ RowOf(rb, u) < RowOf(rb, v)
    \/ RowOf(rb, u) = RowOf(rb, v) /\ ColumnOf(cb, u) < ColumnOf(cb, v)
    \/ /\ RowOf(rb, u) = RowOf(rb, v) /\ ColumnOf(cb, u) = ColumnOf(cb, v)
       /\ u[2] < v[2] \/ (u[2] = v[2] /\ u[1] < v[1])

LEMMA RisingWeakly ==
    ASSUME NEW bd, NEW n \in Nat, NEW size \in Int, Rising(bd, n, size),
           NEW i \in 0 .. n, NEW j \in 0 .. n, i <= j
    PROVE  bd[i] <= bd[j]
<1>1. i = j \/ i < j
  OBVIOUS
<1>2. bd[i] \in Int /\ bd[j] \in Int
  BY DEF Rising
<1> QED
  BY <1>1, <1>2, RisingMonotone

LEMMA AddressesOrdered ==
    ASSUME NEW cb, NEW rb, NEW n \in Nat, NEW m \in Nat,
           Rising(cb, n, Width), Rising(rb, m, Height),
           NEW u \in Coord, NEW v \in Coord, FollowsInScan(cb, rb, u, v)
    PROVE  AddrInTs(cb, rb, u) < AddrInTs(cb, rb, v)
<1> DEFINE i == ColumnOf(cb, u)
           j == RowOf(rb, u)
           k == ColumnOf(cb, v)
           l == RowOf(rb, v)
           a == AddrInTs(cb, rb, u)
           b == AddrInTs(cb, rb, v)
           h == HeightAt(rb, u)
           w == WidthAt(cb, u)
<1>1. /\ i \in 0 .. n - 1 /\ j \in 0 .. m - 1 /\ h \in Nat /\ w \in Nat
      /\ cb[i] \in Nat /\ rb[j] \in Nat /\ cb[i + 1] \in Nat /\ rb[j + 1] \in Nat
      /\ u[1] - cb[i] \in 0 .. w - 1 /\ u[2] - rb[j] \in 0 .. h - 1
  BY TileType
<1>2. /\ k \in 0 .. n - 1 /\ l \in 0 .. m - 1
      /\ cb[k] \in Nat /\ rb[l] \in Nat
  BY TileType
<1>3. /\ a = Width * rb[j] + h * cb[i] + ((u[2] - rb[j]) * w + (u[1] - cb[i]))
      /\ a \in Nat /\ Width * rb[j] \in Nat /\ h * cb[i] \in Nat
      /\ (u[2] - rb[j]) * w \in Nat
      /\ a < Width * rb[j] + h * cb[i + 1] /\ a < Width * rb[j + 1]
  BY AddrInTsIs
<1>4. /\ b = Width * rb[l] + HeightAt(rb, v) * cb[k]
                + ((v[2] - rb[l]) * WidthAt(cb, v) + (v[1] - cb[k]))
      /\ b \in Nat /\ Width * rb[l] <= b
      /\ Width * rb[l] + HeightAt(rb, v) * cb[k] <= b
  BY AddrInTsIs
<1>5. /\ j = l => HeightAt(rb, v) = h
      /\ i = k => WidthAt(cb, v) = w
  BY DEF HeightAt, WidthAt
<1>6. /\ u[1] \in Int /\ u[2] \in Int /\ v[1] \in Int /\ v[2] \in Int
  BY CoordIsPair
<1>7. \/ j < l
      \/ j = l /\ i < k
      \/ j = l /\ i = k /\ u[2] < v[2]
      \/ j = l /\ i = k /\ u[2] = v[2] /\ u[1] < v[1]
  BY DEF FollowsInScan
<1> SUFFICES a < b
  OBVIOUS
<1> HIDE DEF i, j, k, l, a, b, h, w
<1>8. CASE j < l
  <2>1. rb[j + 1] <= rb[l]
    <3>1. j + 1 \in 0 .. m /\ l \in 0 .. m /\ j + 1 <= l
      BY <1>1, <1>2, <1>8
    <3> QED
      BY <3>1, RisingWeakly, SizeType
  <2>2. Width * rb[j + 1] <= Width * rb[l]
    <3>1. rb[j + 1] * Width <= rb[l] * Width
      BY <1>1, <1>2, <2>1, ProductMonotone, SizeType
    <3> QED
      BY <1>1, <1>2, <3>1, SizeType
  <2>3. Width * rb[j + 1] \in Int /\ Width * rb[l] \in Int
    BY <1>1, <1>2, SizeType
  <2> QED
    BY <1>3, <1>4, <2>2, <2>3
<1>9. CASE j = l /\ i < k
  <2>1. cb[i + 1] <= cb[k]
    <3>1. i + 1 \in 0 .. n /\ k \in 0 .. n /\ i + 1 <= k
      BY <1>1, <1>2, <1>9
    <3> QED
      BY <3>1, RisingWeakly, SizeType
  <2>2. h * cb[i + 1] <= h * cb[k]
    <3>1. cb[i + 1] * h <= cb[k] * h
      BY <1>1, <1>2, <2>1, ProductMonotone
    <3> QED
      BY <1>1, <1>2, <3>1
  <2>3. h * cb[i + 1] \in Int /\ h * cb[k] \in Int /\ Width * rb[j] \in Int
    BY <1>1, <1>2, SizeType
  <2>4. a < Width * rb[j] + h * cb[i + 1] /\ Width * rb[j] + h * cb[k] <= b
    BY <1>3, <1>4, <1>5, <1>9
  <2> QED
    BY <1>3, <1>4, <2>2, <2>3, <2>4
<1>10. CASE j = l /\ i = k /\ u[2] < v[2]
  <2> DEFINE y == u[2] - rb[j]
             z == v[2] - rb[j]
             base == Width * rb[j] + h * cb[i]
  <2>1. y \in Int /\ z \in Int /\ y + 1 <= z
    BY <1>1, <1>6, <1>10
  <2>2. a = base + (y * w + (u[1] - cb[i])) /\ b = base + (z * w + (v[1] - cb[i]))
    BY <1>3, <1>4, <1>5, <1>10
  <2>3. v[1] - cb[i] \in Nat
    <3>1. v[1] - cb[k] \in 0 .. WidthAt(cb, v) - 1 /\ WidthAt(cb, v) \in Nat
      BY TileType DEF k
    <3> QED
      BY <1>10, <3>1
  <2>4. base \in Int /\ u[1] - cb[i] \in 0 .. w - 1
    BY <1>1, <1>3
  <2> HIDE DEF y, z, base
  <2>5. (y + 1) * w <= z * w
    BY <1>1, <2>1, ProductMonotone
  <2>6. (y + 1) * w = y * w + w /\ y * w \in Int /\ z * w \in Int
    BY <1>1, <2>1
  <2> QED
    BY <1>1, <2>2, <2>3, <2>4, <2>5, <2>6
<1>11. CASE j = l /\ i = k /\ u[2] = v[2] /\ u[1] < v[1]
  <2> DEFINE base == Width * rb[j] + h * cb[i] + (u[2] - rb[j]) * w
  <2>1. base \in Int
    BY <1>3
  <2>2. a = base + (u[1] - cb[i]) /\ b = base + (v[1] - cb[i])
    <3>1. a = Width * rb[j] + h * cb[i] + ((u[2] - rb[j]) * w + (u[1] - cb[i]))
      BY <1>3
    <3>2. b = Width * rb[j] + h * cb[i] + ((u[2] - rb[j]) * w + (v[1] - cb[i]))
      BY <1>4, <1>5, <1>11
    <3> QED
      BY <1>1, <1>3, <1>6, <3>1, <3>2
  <2> HIDE DEF base
  <2> QED
    BY <1>1, <1>6, <1>11, <2>1, <2>2
<1> QED
  BY <1>7, <1>8, <1>9, <1>10, <1>11

LEMMA ScanTotal ==
    ASSUME NEW cb, NEW rb, NEW n \in Nat, NEW m \in Nat,
           Rising(cb, n, Width), Rising(rb, m, Height), NEW u \in Coord, NEW v \in Coord
    PROVE  u = v \/ FollowsInScan(cb, rb, u, v) \/ FollowsInScan(cb, rb, v, u)
<1>1. /\ ColumnOf(cb, u) \in Int /\ RowOf(rb, u) \in Int
      /\ ColumnOf(cb, v) \in Int /\ RowOf(rb, v) \in Int
  <2>1. ColumnOf(cb, u) \in 0 .. n - 1 /\ RowOf(rb, u) \in 0 .. m - 1
    BY TileType
  <2>2. ColumnOf(cb, v) \in 0 .. n - 1 /\ RowOf(rb, v) \in 0 .. m - 1
    BY TileType
  <2> QED
    BY <2>1, <2>2
<1>2. /\ u = <<u[1], u[2]>> /\ u[1] \in Int /\ u[2] \in Int
      /\ v = <<v[1], v[2]>> /\ v[1] \in Int /\ v[2] \in Int
  BY CoordIsPair
<1>3. u[1] = v[1] /\ u[2] = v[2] => u = v
  BY <1>2
<1> QED
  BY <1>1, <1>2, <1>3 DEF FollowsInScan

LEMMA OrderIs ==
    ASSUME NEW cb, NEW rb, NEW n \in Nat, NEW m \in Nat,
           Rising(cb, n, Width), Rising(rb, m, Height), NEW u \in Coord, NEW v \in Coord
    PROVE  /\ AddrInTs(cb, rb, u) < AddrInTs(cb, rb, v) <=> FollowsInScan(cb, rb, u, v)
           /\ AddrInTs(cb, rb, u) = AddrInTs(cb, rb, v) <=> u = v
<1>1. AddrInTs(cb, rb, u) \in Int /\ AddrInTs(cb, rb, v) \in Int
  BY AddrInTsIs
<1>2. FollowsInScan(cb, rb, u, v) => AddrInTs(cb, rb, u) < AddrInTs(cb, rb, v)
  BY AddressesOrdered
<1>3. FollowsInScan(cb, rb, v, u) => AddrInTs(cb, rb, v) < AddrInTs(cb, rb, u)
  BY AddressesOrdered
<1> QED
  BY <1>1, <1>2, <1>3, ScanTotal

(* A unit follows those that are neither below it nor to the right of it.  *)
LEMMA SpanAtMonotone ==
    ASSUME NEW bd, NEW n \in Nat, NEW size \in Nat, Rising(bd, n, size),
           NEW x \in 0 .. size - 1, NEW y \in 0 .. size - 1, x <= y
    PROVE  SpanAt(bd, x) <= SpanAt(bd, y)
<1> DEFINE i == SpanAt(bd, x)
           k == SpanAt(bd, y)
<1>1. /\ i \in 0 .. n - 1 /\ bd[i] <= x
      /\ k \in 0 .. n - 1 /\ y < bd[k + 1]
  BY SpanAtType
<1> HIDE DEF i, k
<1>2. SUFFICES ASSUME k < i PROVE FALSE
  BY <1>1 DEF i, k
<1>3. k + 1 \in 0 .. n /\ i \in 0 .. n /\ k + 1 <= i
  BY <1>1, <1>2
<1>4. bd[k + 1] <= bd[i]
  BY <1>3, RisingWeakly
<1>5. bd[i] \in Int /\ bd[k + 1] \in Int
  BY <1>3 DEF Rising
<1> QED
  BY <1>1, <1>4, <1>5

-------------------------------------------------------------------------------
(* The tables of a picture with n columns and m rows of tiles.             *)
TablesOf(g, n, m) ==
    /\ n \in Nat /\ m \in Nat /\ Rising(g.colBd, n, Width) /\ Rising(g.rowBd, m, Height)
    /\ g.toTs = [rs \in Addr |-> AddrInTs(g.colBd, g.rowBd, toCoord(rs))]
    /\ g.toRs = [ts \in Addr |-> Max({-1} \cup {rs \in Addr : g.toTs[rs] = ts})]
    /\ g.tile = [u \in Coord |-> RowOf(g.rowBd, u) * n + ColumnOf(g.colBd, u)]

LEMMA TablesRise ==
    ASSUME NEW columns, NEW rows, ProperSpacing(Width, columns), ProperSpacing(Height, rows)
    PROVE  TablesOf(Geometry(columns, rows), columns.n, rows.n)
<1>1. columns.n \in Nat /\ rows.n \in Nat
  BY SizeType DEF ProperSpacing
<1> DEFINE cb == Boundaries(Spans(Width, columns))
           rb == Boundaries(Spans(Height, rows))
           g == Geometry(columns, rows)
<1>2. Rising(cb, columns.n, Width) /\ Rising(rb, rows.n, Height)
  BY SpansRise, SizeType
<1>3. /\ g.colBd = cb /\ g.rowBd = rb
      /\ g.toTs = [rs \in Addr |-> AddrInTs(cb, rb, toCoord(rs))]
      /\ g.tile = [u \in Coord |-> SpanAt(rb, u[2]) * columns.n + SpanAt(cb, u[1])]
  <2> HIDE DEF cb, rb
  <2> QED
    BY DEF Geometry, cb, rb
<1>4. g.toRs = [ts \in Addr |-> Max({-1} \cup {rs \in Addr : g.toTs[rs] = ts})]
  BY DEF Geometry
<1> HIDE DEF cb, rb, g
<1>5. g.tile = [u \in Coord |-> RowOf(rb, u) * columns.n + ColumnOf(cb, u)]
  BY <1>3 DEF RowOf, ColumnOf
<1> QED
  BY <1>1, <1>2, <1>3, <1>4, <1>5 DEF g, TablesOf

LEMMA AddrFinite == IsFiniteSet(Addr)
BY FS_Interval, SizeType DEF Addr

LEMMA ToTsType ==
    ASSUME NEW cb, NEW rb, NEW n \in Nat, NEW m \in Nat,
           Rising(cb, n, Width), Rising(rb, m, Height), NEW u \in Coord
    PROVE  AddrInTs(cb, rb, u) \in Addr
<1> DEFINE s == rb[RowOf(rb, u) + 1]
<1>1. s \in 0 .. Height
  BY TileType
<1>2. AddrInTs(cb, rb, u) \in Nat /\ AddrInTs(cb, rb, u) < Width * s
  BY AddrInTsIs
<1> HIDE DEF s
<1>3. s * Width <= Height * Width
  BY <1>1, ProductMonotone, SizeType
<1>4. s * Width = Width * s /\ Height * Width = Width * Height /\ Width * s \in Int
      /\ Width * Height \in Int
  BY <1>1, SizeType
<1> QED
  BY <1>2, <1>3, <1>4 DEF Addr

(* The tables of every proper parameter set are good.                      *)
LEMMA TablesProper ==
    ASSUME NEW columns, NEW rows, ProperSpacing(Width, columns), ProperSpacing(Height, rows)
    PROVE  ScanTables(Geometry(columns, rows))
<1> DEFINE g == Geometry(columns, rows)
           cb == g.colBd
           rb == g.rowBd
           n == columns.n
           m == rows.n
<1>0. TablesOf(g, n, m)
  BY TablesRise
<1>1. /\ n \in Nat /\ m \in Nat /\ Rising(cb, n, Width) /\ Rising(rb, m, Height)
      /\ g.toTs = [rs \in Addr |-> AddrInTs(cb, rb, toCoord(rs))]
      /\ g.toRs = [ts \in Addr |-> Max({-1} \cup {rs \in Addr : g.toTs[rs] = ts})]
  BY <1>0 DEF TablesOf
<1> HIDE DEF g, n, m
<1>2. ASSUME NEW a \in Addr
      PROVE  g.toTs[a] = AddrInTs(cb, rb, toCoord(a)) /\ g.toTs[a] \in Addr
  BY <1>1, CoordType, ToTsType
<1>3. ASSUME NEW a \in Addr, NEW b \in Addr, g.toTs[a] = g.toTs[b] PROVE a = b
  <2>1. toCoord(a) \in Coord /\ toCoord(b) \in Coord
    BY CoordType
  <2>2. AddrInTs(cb, rb, toCoord(a)) = AddrInTs(cb, rb, toCoord(b))
    BY <1>2, <1>3
  <2>3. toCoord(a) = toCoord(b)
    BY <1>1, <2>1, <2>2, OrderIs
  <2> QED
    BY <2>3, CoordType
<1>4. g.toTs \in [Addr -> Addr]
  BY <1>1, <1>2
<1>5. g.toTs \in Surjection(Addr, Addr)
  <2>1. g.toTs \in Injection(Addr, Addr)
    BY <1>3, <1>4 DEF Injection, IsInjective
  <2> QED
    BY <2>1, AddrFinite, FS_Injection
<1>6. ASSUME NEW a \in Addr PROVE g.toRs[g.toTs[a]] = a
  <2> DEFINE S == {-1} \cup {rs \in Addr : g.toTs[rs] = g.toTs[a]}
  <2>1. g.toRs[g.toTs[a]] = Max(S)
    BY <1>1, <1>2
  <2>2. S = {-1, a}
    BY <1>3
  <2>3. a \in Int /\ -1 \in Int /\ -1 <= a /\ a <= a
    BY SizeType DEF Addr
  <2>4. S \in SUBSET Int /\ a \in S /\ \A y \in S : y <= a
    BY <2>2, <2>3
  <2> HIDE DEF S
  <2>5. Max(S) = a
    BY <2>4, MaxIs, Zenon
  <2> QED
    BY <2>1, <2>5
<1>7. ASSUME NEW b \in Addr PROVE g.toRs[b] \in Addr /\ g.toTs[g.toRs[b]] = b
  <2>1. PICK a \in Addr : g.toTs[a] = b
    BY <1>5 DEF Surjection
  <2> QED
    BY <1>6, <2>1
<1>8. g.toRs \in [Addr -> Addr]
  BY <1>1, <1>7
<1>9. ASSUME NEW u \in Coord, NEW v \in Coord, u[1] <= v[1], u[2] <= v[2]
      PROVE  g.toTs[toAddrInRs(u)] <= g.toTs[toAddrInRs(v)]
  <2>1. /\ toAddrInRs(u) \in Addr /\ toCoord(toAddrInRs(u)) = u
        /\ toAddrInRs(v) \in Addr /\ toCoord(toAddrInRs(v)) = v
    BY AddrType
  <2>2. /\ g.toTs[toAddrInRs(u)] = AddrInTs(cb, rb, u)
        /\ g.toTs[toAddrInRs(v)] = AddrInTs(cb, rb, v)
    BY <1>2, <2>1
  <2>3. /\ u[1] \in 0 .. Width - 1 /\ u[2] \in 0 .. Height - 1
        /\ v[1] \in 0 .. Width - 1 /\ v[2] \in 0 .. Height - 1
    BY CoordIsPair, SizeType
  <2>4. ColumnOf(cb, u) <= ColumnOf(cb, v) /\ RowOf(rb, u) <= RowOf(rb, v)
    BY <1>1, <1>9, <2>3, SpanAtMonotone, SizeType DEF ColumnOf, RowOf
  <2>5. ColumnOf(cb, u) \in 0 .. n - 1 /\ RowOf(rb, u) \in 0 .. m - 1
    BY <1>1, TileType
  <2>6. ColumnOf(cb, v) \in 0 .. n - 1 /\ RowOf(rb, v) \in 0 .. m - 1
    BY <1>1, TileType
  <2>7. ~FollowsInScan(cb, rb, v, u)
    BY <1>1, <1>9, <2>3, <2>4, <2>5, <2>6 DEF FollowsInScan
  <2>8. ~(AddrInTs(cb, rb, v) < AddrInTs(cb, rb, u))
    BY <1>1, <2>7, OrderIs
  <2>9. AddrInTs(cb, rb, v) \in Int /\ AddrInTs(cb, rb, u) \in Int
    BY <1>1, ToTsType, SizeType DEF Addr
  <2> QED
    BY <2>2, <2>8, <2>9
<1> QED
  BY <1>4, <1>6, <1>7, <1>8, <1>9 DEF ScanTables, g

(* The tiles are numbered in the order of the scan.                        *)
LEMMA TilesOrdered ==
    ASSUME NEW columns, NEW rows, ProperSpacing(Width, columns), ProperSpacing(Height, rows),
           NEW u \in Coord, NEW v \in Coord,
           AddrInTs(Geometry(columns, rows).colBd, Geometry(columns, rows).rowBd, u)
             <= AddrInTs(Geometry(columns, rows).colBd, Geometry(columns, rows).rowBd, v)
    PROVE  /\ Geometry(columns, rows).tile[u] <= Geometry(columns, rows).tile[v]
           /\ Geometry(columns, rows).tile[u] \in 0 .. columns.n * rows.n - 1
<1> DEFINE g == Geometry(columns, rows)
           cb == g.colBd
           rb == g.rowBd
           n == columns.n
           m == rows.n
           i == ColumnOf(cb, u)
           j == RowOf(rb, u)
           k == ColumnOf(cb, v)
           l == RowOf(rb, v)
<1>0. TablesOf(g, n, m)
  BY TablesRise
<1>1. /\ n \in Nat /\ m \in Nat /\ Rising(cb, n, Width) /\ Rising(rb, m, Height)
      /\ g.tile = [w \in Coord |-> RowOf(rb, w) * n + ColumnOf(cb, w)]
  BY <1>0 DEF TablesOf
<1>2. g.tile[u] = j * n + i /\ g.tile[v] = l * n + k
  BY <1>1
<1>3. i \in 0 .. n - 1 /\ j \in 0 .. m - 1
  BY <1>1, TileType
<1>4. k \in 0 .. n - 1 /\ l \in 0 .. m - 1
  BY <1>1, TileType
<1>5. u = v \/ FollowsInScan(cb, rb, u, v)
  <2>1. AddrInTs(cb, rb, u) \in Int /\ AddrInTs(cb, rb, v) \in Int
    BY <1>1, ToTsType, SizeType DEF Addr
  <2>2. AddrInTs(cb, rb, u) < AddrInTs(cb, rb, v) \/ AddrInTs(cb, rb, u) = AddrInTs(cb, rb, v)
    BY <2>1
  <2> QED
    BY <1>1, <2>2, OrderIs
<1>6. j < l \/ (j = l /\ i <= k)
  BY <1>3, <1>4, <1>5 DEF FollowsInScan
<1> SUFFICES j * n + i <= l * n + k /\ j * n + i \in 0 .. n * m - 1
  BY <1>2
<1> HIDE DEF i, j, k, l, n, m
<1>7. j * n \in Nat /\ l * n \in Nat
  BY <1>1, <1>3, <1>4
<1>8. j < l => j * n + n <= l * n
  <2> SUFFICES ASSUME j < l PROVE j * n + n <= l * n
    OBVIOUS
  <2>1. (j + 1) * n <= l * n
    BY <1>1, <1>3, <1>4, ProductMonotone
  <2> QED
    BY <1>1, <1>3, <2>1
<1>9. j * n + i \in 0 .. m * n - 1 /\ m * n = n * m
  BY <1>1, <1>3, InBox
<1> QED
  BY <1>1, <1>3, <1>4, <1>6, <1>7, <1>8, <1>9
===============================================================================

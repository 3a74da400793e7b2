---------------------------- MODULE CodingTreeProofs ---------------------------
(***************************************************************************)
(* The coding quad trees of a picture, for every size of the picture and   *)
(* of the coding tree unit: every block is in one coding unit.             *)
(***************************************************************************)
EXTENDS CodingTree, ScanProofs

-------------------------------------------------------------------------------
(* Recursion over the numbers up to n has a solution.                      *)
LEMMA RecursionExists ==
    ASSUME NEW n \in Nat, NEW first \in Int, NEW step \in [(1 .. n) \X Int -> Int]
    PROVE  \E g \in [0 .. n -> Int] :
             g[0] = first /\ \A k \in 1 .. n : g[k] = step[<<k, g[k - 1]>>]
<1> DEFINE Solves(k, g) == g[0] = first /\ \A j \in 1 .. k : g[j] = step[<<j, g[j - 1]>>]
           S == {k \in 0 .. n : \E g \in [0 .. k -> Int] : Solves(k, g)}
<1>1. 0 \in S
  <2> DEFINE g == [j \in 0 .. 0 |-> first]
  <2>1. g \in [0 .. 0 -> Int] /\ Solves(0, g)
    OBVIOUS
  <2> HIDE DEF g, Solves
  <2> QED
    BY <2>1
<1>2. ASSUME NEW k \in 0 .. n - 1, k \in S PROVE k + 1 \in S
  <2>1. PICK g \in [0 .. k -> Int] : Solves(k, g)
    BY <1>2
  <2> DEFINE h == [j \in 0 .. k + 1 |-> IF j = k + 1 THEN step[<<k + 1, g[k]>>] ELSE g[j]]
  <2>2. k \in Nat /\ k + 1 \in 1 .. n /\ k \in 0 .. k /\ 0 \in 0 .. k /\ k + 1 \in 0 .. n
    OBVIOUS
  <2>3. step[<<k + 1, g[k]>>] \in Int
    BY <2>2
  <2>4. h \in [0 .. k + 1 -> Int]
    <3>1. \A j \in 0 .. k + 1 : j = k + 1 \/ j \in 0 .. k
      BY <2>2
    <3> QED
      BY <2>3, <3>1
  <2>5. h[0] = first
    BY <2>1, <2>2
  <2>6. ASSUME NEW j \in 1 .. k + 1 PROVE h[j] = step[<<j, h[j - 1]>>]
    <3>1. j - 1 \in 0 .. k + 1 /\ j - 1 # k + 1 /\ h[j - 1] = g[j - 1] /\ j \in 0 .. k + 1
      BY <2>2
    <3>2. CASE j = k + 1
      <4>1. j - 1 = k
        BY <3>2, <2>2
      <4> QED
        BY <3>1, <3>2, <4>1
    <3>3. CASE j # k + 1
      <4>1. j \in 1 .. k
        BY <3>3, <2>2
      <4> QED
        BY <3>1, <3>3, <4>1, <2>1
    <3> QED
      BY <3>2, <3>3
  <2>7. Solves(k + 1, h)
    BY <2>5, <2>6
  <2> QED
    BY <2>2, <2>4, <2>7
<1>3. \A k \in 0 .. n - 1 : k \in S => k + 1 \in S
  BY <1>2
<1>4. n \in S
  <2> HIDE DEF S
  <2>1. \A k \in 0 .. n : k \in S
    BY <1>1, <1>3, UpTo, Zenon
  <2> QED
    BY <2>1
<1> QED
  BY <1>4

(* The sides of blocks.                                                    *)
LEMMA DoubledIs ==
    ASSUME NEW n \in Nat
    PROVE  /\ \E g \in [0 .. n -> Int] :
                g[0] = 1 /\ (\A k \in 1 .. n : g[k] = 2 * g[k - 1]) /\ Doubled(n) = g[n]
<1> DEFINE step == [x \in (1 .. n) \X Int |-> 2 * x[2]]
           Is(g) == g = [k \in 0 .. n |-> IF k = 0 THEN 1 ELSE 2 * g[k - 1]]
           double == CHOOSE g : Is(g)
<1>1. step \in [(1 .. n) \X Int -> Int]
  OBVIOUS
<1>2. PICK g \in [0 .. n -> Int] : g[0] = 1 /\ \A k \in 1 .. n : g[k] = step[<<k, g[k - 1]>>]
  <2> HIDE DEF step
  <2>1. 1 \in Int
    OBVIOUS
  <2> QED
    BY <2>1, <1>1, RecursionExists, Zenon
<1>3. \A k \in 1 .. n : g[k] = 2 * g[k - 1]
  <2>1. \A k \in 1 .. n : <<k, g[k - 1]>> \in (1 .. n) \X Int
    BY <1>2
  <2> QED
    BY <2>1, <1>2
<1>4. Is(g)
  <2>1. \A k \in 0 .. n : k = 0 \/ k \in 1 .. n
    OBVIOUS
  <2>2. \A k \in 0 .. n : g[k] = IF k = 0 THEN 1 ELSE 2 * g[k - 1]
    BY <2>1, <1>2, <1>3
  <2> QED
    BY <2>2
<1>5. Is(double)
  BY <1>4
<1>6. /\ double[0] = 1 /\ \A k \in 1 .. n : double[k] = 2 * double[k - 1]
  <2> HIDE DEF double
  <2>1. \A k \in 0 .. n : double[k] = IF k = 0 THEN 1 ELSE 2 * double[k - 1]
    BY <1>5
  <2> QED
    BY <2>1
<1>7. double = g
  <2> DEFINE S == {k \in 0 .. n : double[k] = g[k]}
  <2>1. 0 \in S
    BY <1>2, <1>6
  <2>2. \A k \in 0 .. n - 1 : k \in S => k + 1 \in S
    <3>1. ASSUME NEW k \in 0 .. n - 1, k \in S PROVE k + 1 \in S
      <4>1. k + 1 \in 1 .. n /\ (k + 1) - 1 = k /\ k + 1 \in 0 .. n
        OBVIOUS
      <4> QED
        BY <3>1, <4>1, <1>3, <1>6
    <3> QED
      BY <3>1
  <2>3. \A k \in 0 .. n : k \in S
    <3> HIDE DEF S, double
    <3> QED
      BY <2>1, <2>2, UpTo, Zenon
  <2>4. double = [k \in 0 .. n |-> double[k]]
    BY <1>5
  <2> QED
    BY <2>3, <2>4
<1>8. Doubled(n) = double[n]
  BY DEF Doubled
<1> QED
  BY <1>2, <1>3, <1>7, <1>8

LEMMA DoubledGrows ==
    /\ Doubled(0) = 1
    /\ \A n \in Nat : Doubled(n) \in Nat /\ Doubled(n) > 0 /\ Doubled(n + 1) = 2 * Doubled(n)
<1>1. Doubled(0) = 1
  BY DoubledIs
<1>2. ASSUME NEW n \in Nat PROVE Doubled(n) \in Nat /\ Doubled(n) > 0 /\ Doubled(n + 1) = 2 * Doubled(n)
  <2>1. PICK g \in [0 .. n -> Int] :
          g[0] = 1 /\ (\A k \in 1 .. n : g[k] = 2 * g[k - 1]) /\ Doubled(n) = g[n]
    BY DoubledIs
  <2>2. PICK h \in [0 .. n + 1 -> Int] :
          h[0] = 1 /\ (\A k \in 1 .. n + 1 : h[k] = 2 * h[k - 1]) /\ Doubled(n + 1) = h[n + 1]
    <3>1. n + 1 \in Nat
      OBVIOUS
    <3> QED
      BY <3>1, DoubledIs, Zenon
  <2> DEFINE S == {k \in 0 .. n : h[k] = g[k] /\ g[k] \in Nat /\ g[k] > 0}
  <2>3. 0 \in S
    BY <2>1, <2>2
  <2>4. ASSUME NEW k \in 0 .. n - 1, k \in S PROVE k + 1 \in S
    <3>1. k + 1 \in 1 .. n /\ k + 1 \in 1 .. n + 1 /\ (k + 1) - 1 = k /\ k + 1 \in 0 .. n
      OBVIOUS
    <3>2. g[k + 1] = 2 * g[k] /\ h[k + 1] = 2 * h[k]
      BY <3>1, <2>1, <2>2
    <3> QED
      BY <2>4, <3>1, <3>2
  <2>5. \A k \in 0 .. n - 1 : k \in S => k + 1 \in S
    BY <2>4
  <2>6. n \in S
    <3> HIDE DEF S
    <3>1. \A k \in 0 .. n : k \in S
      BY <2>3, <2>5, UpTo, Zenon
    <3> QED
      BY <3>1
  <2>7. n + 1 \in 1 .. n + 1 /\ (n + 1) - 1 = n
    OBVIOUS
  <2>8. h[n + 1] = 2 * h[n]
    BY <2>2, <2>7
  <2> QED
    BY <2>1, <2>2, <2>6, <2>8
<1> QED
  BY <1>1, <1>2

LEMMA Sizes ==
    /\ CtbDepth \in Nat
    /\ \A d \in 0 .. CtbDepth : sizeAt(d) \in Nat /\ sizeAt(d) > 0
    /\ sizeAt(CtbDepth) = 1
    /\ \A d \in 0 .. CtbDepth - 1 : sizeAt(d) = 2 * sizeAt(d + 1)
<1>1. CtbDepth \in Nat
  BY BlocksAssumption
<1>2. ASSUME NEW d PROVE sizeAt(d) = Doubled(Levels - 1 - d)
  BY DEF sizeAt, side
<1>3. \A d \in 0 .. CtbDepth : Levels - 1 - d = CtbDepth - d /\ CtbDepth - d \in Nat
  BY <1>1 DEF Levels
<1>4. \A d \in 0 .. CtbDepth : sizeAt(d) = Doubled(CtbDepth - d)
  BY <1>2, <1>3
<1>5. CtbDepth \in 0 .. CtbDepth /\ CtbDepth - CtbDepth = 0
  BY <1>1
<1>6. ASSUME NEW d \in 0 .. CtbDepth - 1 PROVE sizeAt(d) = 2 * sizeAt(d + 1)
  <2>1. d \in 0 .. CtbDepth /\ d + 1 \in 0 .. CtbDepth /\ CtbDepth - d = (CtbDepth - (d + 1)) + 1
        /\ CtbDepth - (d + 1) \in Nat
    BY <1>1
  <2> QED
    BY <2>1, <1>4, DoubledGrows
<1> QED
  BY <1>1, <1>3, <1>4, <1>5, <1>6, DoubledGrows

(* Division by a size.                                                     *)
LEMMA DivBounds ==
    ASSUME NEW s \in Nat, s > 0, NEW x \in Nat
    PROVE  /\ x \div s \in Nat /\ x % s \in Nat /\ x % s < s
           /\ x = s * (x \div s) + (x % s)
<1>1. x \div s \in Int /\ x % s \in 0 .. s - 1 /\ x = s * (x \div s) + (x % s)
  OBVIOUS
<1> DEFINE q == x \div s
           r == x % s
<1>2. q \in Int /\ r \in Nat /\ r < s /\ x = s * q + r
  BY <1>1
<1> HIDE DEF q, r
<1>3. q \in Nat
  <2> SUFFICES ASSUME q <= -1 PROVE FALSE
    BY <1>2
  <2>1. s * q <= s * (-1) /\ s * (-1) = -s
    <3>1. q * s <= (-1) * s
      BY <1>2, ProductMonotone
    <3> QED
      BY <3>1, <1>2
  <2> QED
    BY <2>1, <1>2
<1> QED
  BY <1>2, <1>3 DEF q, r

LEMMA DivUnique ==
    ASSUME NEW s \in Nat, s > 0, NEW x \in Nat, NEW k \in Nat, s * k <= x, x < s * k + s
    PROVE  x \div s = k
<1> DEFINE q == x \div s
           r == x % s
<1>1. q \in Nat /\ r \in Nat /\ r < s /\ x = s * q + r
  BY DivBounds, Zenon
<1> HIDE DEF q, r
<1>2. CASE q < k
  <2>1. (q + 1) * s <= k * s
    <3>1. q + 1 <= k /\ q + 1 \in Int /\ k \in Int
      BY <1>1, <1>2
    <3> QED
      BY <3>1, ProductMonotone
  <2>2. (q + 1) * s = s * q + s /\ k * s = s * k /\ s * q \in Nat /\ s * k \in Nat
    BY <1>1
  <2> QED
    BY <2>1, <2>2, <1>1
<1>3. CASE k < q
  <2>1. (k + 1) * s <= q * s
    <3>1. k + 1 <= q /\ k + 1 \in Int /\ q \in Int
      BY <1>1, <1>3
    <3> QED
      BY <3>1, ProductMonotone
  <2>2. (k + 1) * s = s * k + s /\ q * s = s * q /\ s * q \in Nat /\ s * k \in Nat
    BY <1>1
  <2> QED
    BY <2>1, <2>2, <1>1
<1>4. q = k
  BY <1>1, <1>2, <1>3
<1> QED
  BY <1>4 DEF q

-------------------------------------------------------------------------------
(* The blocks of size sizeAt(d) are the cells of level d.                  *)
Cell(d, x) == x \div sizeAt(d)

SameCell(d, a, b) == Cell(d, a[1]) = Cell(d, b[1]) /\ Cell(d, a[2]) = Cell(d, b[2])

(* A node of the recursion or a coding unit holds a block.                 *)
InNode(n, b) == SameCell(n.depth, n.at, b)

Sound(n) ==
    /\ n.at \in Block /\ n.depth \in 0 .. CtbDepth
    /\ n.at[1] % sizeAt(n.depth) = 0 /\ n.at[2] % sizeAt(n.depth) = 0

IndexPath(b) == Path(Levels, offsetInCtb(b))

TreeOf(b) == ctus[addrInTs(b) + 1]

(* The path to a block is split above level d, and has nothing from there. *)
Begun(tree, b, d) ==
    \A e \in 0 .. CtbDepth :
        /\ IndexPath(b)[e] \in DOMAIN tree <=> e < d
        /\ e < d => tree[IndexPath(b)[e]].split = TRUE

(* The path to a block is split above level d, and has a leaf there.       *)
Leaf(tree, b, d) ==
    /\ \A e \in 0 .. CtbDepth :
        /\ IndexPath(b)[e] \in DOMAIN tree <=> e <= d
        /\ e < d => tree[IndexPath(b)[e]].split = TRUE
    /\ tree[IndexPath(b)[d]].split = FALSE /\ tree[IndexPath(b)[d]].depth = d

Entries(s) == {s[i] : i \in DOMAIN s}

(* The induction: the nodes that the recursion still has and the coding    *)
(* units divide the blocks of the coding tree units begun so far; the path *)
(* to a block of the former has begun, to one of the latter ends in it.    *)
KindsInv ==
    /\ layout \in Layouts
    /\ ctus \in Seq(Entries(ctus)) /\ Len(ctus) <= Width * Height
    /\ pending \in Seq([at : Block, depth : 0 .. CtbDepth])
    /\ "cus" \in DOMAIN enc /\ enc.cus \in Seq(Entries(enc.cus))
    /\ {"at", "depth", "open"} \subseteq DOMAIN cu /\ cu.open \in BOOLEAN

ToDo(n) ==
    /\ Sound(n) /\ addrInTs(n.at) + 1 = Len(ctus)
    /\ \A b \in Block : InNode(n, b) => Begun(TreeOf(b), b, n.depth)

Coded(c) ==
    /\ Sound(c) /\ addrInTs(c.at) < Len(ctus)
    /\ c.at[1] + sizeAt(c.depth) <= WidthInMinCbs
    /\ c.at[2] + sizeAt(c.depth) <= HeightInMinCbs
    /\ \A b \in Block : InNode(c, b) => Leaf(TreeOf(b), b, c.depth)

NodesInv ==
    /\ \A i \in DOMAIN pending : ToDo(pending[i])
    /\ \A i \in DOMAIN enc.cus : Coded(enc.cus[i])
    /\ cu.open => /\ Coded(cu) /\ addrInTs(cu.at) + 1 = Len(ctus)
                  /\ \A i \in DOMAIN enc.cus : enc.cus[i].at # cu.at
    /\ \A i, j \in DOMAIN pending : pending[i].at = pending[j].at => i = j
    /\ \A i, j \in DOMAIN enc.cus : enc.cus[i].at = enc.cus[j].at => i = j

Held(b) ==
    \/ \E i \in DOMAIN pending : InNode(pending[i], b)
    \/ cu.open /\ InNode(cu, b)
    \/ \E i \in DOMAIN enc.cus : InNode(enc.cus[i], b)

HeldInv == \A b \in Block : addrInTs(b) < Len(ctus) => Held(b)

OnPath(i, t) == \E b \in Block, d \in 0 .. CtbDepth : addrInTs(b) + 1 = t /\ i = IndexPath(b)[d]

TreesInv ==
    \A t \in DOMAIN ctus : \A i \in DOMAIN ctus[t] :
        {"depth", "split"} \subseteq DOMAIN ctus[t][i] /\ OnPath(i, t)

TreeInv == KindsInv /\ NodesInv /\ HeldInv /\ TreesInv

-------------------------------------------------------------------------------
(* Cells: those of a level are the quarters of those above it.             *)
LEMMA CellType ==
    ASSUME NEW d \in 0 .. CtbDepth, NEW x \in Nat
    PROVE  /\ Cell(d, x) \in Nat /\ sizeAt(d) * Cell(d, x) \in Nat
           /\ sizeAt(d) * Cell(d, x) <= x /\ x < sizeAt(d) * Cell(d, x) + sizeAt(d)
<1> DEFINE s == sizeAt(d)
           q == x \div s
           r == x % s
<1>1. s \in Nat /\ s > 0
  BY Sizes
<1>2. q \in Nat /\ r \in Nat /\ r < s /\ x = s * q + r
  <2> HIDE DEF s
  <2> QED
    BY <1>1, DivBounds, Zenon
<1>3. Cell(d, x) = q
  BY DEF Cell
<1> HIDE DEF s, q, r
<1>4. s * q \in Nat /\ s * q <= x /\ x < s * q + s
  BY <1>1, <1>2
<1> QED
  BY <1>2, <1>3, <1>4 DEF s

LEMMA CellIs ==
    ASSUME NEW d \in 0 .. CtbDepth, NEW x \in Nat, NEW k \in Nat,
           sizeAt(d) * k <= x, x < sizeAt(d) * k + sizeAt(d)
    PROVE  Cell(d, x) = k
<1>1. sizeAt(d) \in Nat /\ sizeAt(d) > 0
  BY Sizes
<1>2. x \div sizeAt(d) = k
  BY <1>1, DivUnique, Zenon
<1> QED
  BY <1>2 DEF Cell

LEMMA Halves ==
    ASSUME NEW d \in 1 .. CtbDepth, NEW x \in Nat
    PROVE  /\ Cell(d, x) \in Nat /\ Cell(d - 1, x) \in Nat
           /\ Cell(d, x) % 2 \in 0 .. 1
           /\ Cell(d, x) = 2 * Cell(d - 1, x) + (Cell(d, x) % 2)
<1> DEFINE s == sizeAt(d)
           q == Cell(d, x)
           h == q \div 2
           r == q % 2
<1>1. d \in 0 .. CtbDepth /\ d - 1 \in 0 .. CtbDepth - 1 /\ d - 1 \in 0 .. CtbDepth /\ (d - 1) + 1 = d
  BY Sizes
<1>2. s \in Nat /\ s > 0 /\ sizeAt(d - 1) = 2 * s
  BY <1>1, Sizes
<1>3. q \in Nat /\ s * q \in Nat /\ s * q <= x /\ x < s * q + s
  <2> HIDE DEF s
  <2>1. d \in 0 .. CtbDepth
    BY <1>1
  <2> QED
    BY <2>1, CellType DEF s
<1>4. h \in Nat /\ r \in 0 .. 1 /\ q = 2 * h + r
  <2> HIDE DEF q
  <2> QED
    BY <1>3
<1> HIDE DEF s, q, h, r
<1>5. (2 * s) * h \in Nat /\ (2 * s) * h <= x /\ x < (2 * s) * h + 2 * s
  <2>1. CASE r = 0
    <3>1. q = 2 * h
      BY <2>1, <1>4
    <3>2. s * q = (2 * s) * h
      BY <3>1, <1>2, <1>4
    <3> QED
      BY <3>2, <1>3, <1>2
  <2>2. CASE r = 1
    <3>1. q = 2 * h + 1
      BY <2>2, <1>4
    <3>2. s * q = (2 * s) * h + s /\ (2 * s) * h \in Nat
      BY <3>1, <1>2, <1>4
    <3> QED
      BY <3>2, <1>3, <1>2
  <2> QED
    BY <2>1, <2>2, <1>4
<1>6. Cell(d - 1, x) = h
  BY <1>1, <1>2, <1>4, <1>5, CellIs
<1> QED
  BY <1>3, <1>4, <1>6 DEF q, r

(* A coding tree unit has a whole number of blocks of each size.           *)
LEMMA WholeCells ==
    \A d \in 0 .. CtbDepth : \E k \in Nat : CtbSize = sizeAt(d) * k
<1> DEFINE S == {d \in 0 .. CtbDepth : \E k \in Nat : CtbSize = sizeAt(d) * k}
<1>1. 0 \in S
  <2>1. CtbSize = sizeAt(0) * 1 /\ 0 \in 0 .. CtbDepth
    BY Sizes DEF CtbSize
  <2> QED
    BY <2>1
<1>2. ASSUME NEW d \in 0 .. CtbDepth - 1, d \in S PROVE d + 1 \in S
  <2>1. PICK k \in Nat : CtbSize = sizeAt(d) * k
    BY <1>2
  <2>2. sizeAt(d) = 2 * sizeAt(d + 1) /\ d + 1 \in 0 .. CtbDepth /\ sizeAt(d + 1) \in Nat
    BY Sizes
  <2>3. (2 * sizeAt(d + 1)) * k = sizeAt(d + 1) * (2 * k) /\ 2 * k \in Nat
    BY <2>2
  <2> QED
    BY <2>1, <2>2, <2>3
<1>3. \A d \in 0 .. CtbDepth - 1 : d \in S => d + 1 \in S
  BY <1>2
<1> HIDE DEF S
<1>4. CtbDepth \in Nat
  BY Sizes
<1>5. \A d \in 0 .. CtbDepth : d \in S
  BY <1>1, <1>3, <1>4, UpTo, Zenon
<1> QED
  BY <1>5 DEF S

LEMMA OffsetParity ==
    ASSUME NEW d \in 1 .. CtbDepth, NEW x \in Nat
    PROVE  ((x % CtbSize) \div sizeAt(d)) % 2 = Cell(d, x) % 2
<1> DEFINE s == sizeAt(d)
           c == CtbSize
           q == x \div c
           r == x % c
           u == Cell(d, r)
<1>1. d \in 0 .. CtbDepth /\ d - 1 \in 0 .. CtbDepth - 1 /\ d - 1 \in 0 .. CtbDepth /\ (d - 1) + 1 = d
  BY Sizes
<1>2. s \in Nat /\ s > 0 /\ sizeAt(d - 1) = 2 * s /\ c \in Nat /\ c > 0
  BY <1>1, Sizes DEF CtbSize
<1>3. PICK k \in Nat : c = (2 * s) * k
  BY <1>1, <1>2, WholeCells
<1>4. q \in Nat /\ r \in Nat /\ x = c * q + r
  <2> HIDE DEF c
  <2> QED
    BY <1>2, DivBounds, Zenon
<1> HIDE DEF c, q, r
<1>5. u \in Nat /\ s * u \in Nat /\ s * u <= r /\ r < s * u + s
  BY <1>1, <1>4, CellType
<1> HIDE DEF s, u
<1>6. s * (2 * (k * q) + u) = c * q + s * u
  <2>1. s * (2 * (k * q) + u) = s * (2 * (k * q)) + s * u
    BY <1>2, <1>3, <1>4, <1>5
  <2>2. s * (2 * (k * q)) = ((2 * s) * k) * q
    BY <1>2, <1>3, <1>4
  <2> QED
    BY <2>1, <2>2, <1>3
<1>7. 2 * (k * q) + u \in Nat /\ c * q \in Nat
  <2>1. k * q \in Nat /\ c * q \in Nat
    BY <1>3, <1>4, <1>2
  <2> QED
    BY <2>1, <1>5
<1>8. Cell(d, x) = 2 * (k * q) + u
  <2> DEFINE w == 2 * (k * q) + u
             z == c * q
  <2>1. s * w = z + s * u /\ w \in Nat /\ z \in Nat /\ x = z + r
    BY <1>4, <1>6, <1>7
  <2> HIDE DEF w, z
  <2>2. s * w <= x /\ x < s * w + s
    BY <2>1, <1>2, <1>4, <1>5
  <2>3. Cell(d, x) = w
    BY <2>1, <2>2, <1>1, CellIs DEF s
  <2> QED
    BY <2>3 DEF w
<1>9. (2 * (k * q) + u) % 2 = u % 2
  <2> DEFINE v == k * q
  <2>1. v \in Nat
    BY <1>3, <1>4
  <2> HIDE DEF v
  <2>2. (2 * v + u) % 2 = u % 2
    BY <2>1, <1>5
  <2> QED
    BY <2>2 DEF v
<1>10. u = r \div s
  BY DEF u, Cell, s
<1> QED
  BY <1>8, <1>9, <1>10 DEF r, c, s

(* The blocks and their coding tree units.                                 *)
LEMMA BlockType ==
    ASSUME NEW b \in Block
    PROVE  /\ b[1] \in Nat /\ b[2] \in Nat /\ b[1] < WidthInMinCbs /\ b[2] < HeightInMinCbs
           /\ b = <<b[1], b[2]>>
<1>1. WidthInMinCbs \in Nat /\ HeightInMinCbs \in Nat
  BY BlocksAssumption
<1> QED
  BY <1>1 DEF Block

(* The size of a picture in coding tree units.                             *)
LEMMA UnitsHold ==
    ASSUME NEW n \in Nat, NEW s \in Nat, s > 0, NEW w, w = (n + s - 1) \div s, NEW x \in Nat
    PROVE  x < n => /\ x \div s < w /\ x \div s \in Nat
<1> DEFINE q == x \div s
           r == x % s
           y == n + s - 1
           r2 == y % s
           v == y \div s
<1>1. q \in Nat /\ r \in Nat /\ r < s /\ x = s * q + r
  BY DivBounds, Zenon
<1>2. CASE x < n
  <2>1. y \in Nat
    BY <1>2
  <2>2. v \in Nat /\ r2 \in Nat /\ r2 < s /\ y = s * v + r2
    <3> HIDE DEF y
    <3> QED
      BY <2>1, DivBounds, Zenon
  <2> HIDE DEF q, r, v, r2
  <2>3. y = n + s - 1
    OBVIOUS
  <2> HIDE DEF y
  <2>4. ASSUME v <= q PROVE FALSE
    <3>1. v * s <= q * s
      BY <2>2, <2>4, <1>1, ProductMonotone
    <3>2. v * s = s * v /\ q * s = s * q /\ s * v \in Nat /\ s * q \in Nat
      BY <2>2, <1>1
    <3> QED
      BY <3>1, <3>2, <2>2, <2>3, <1>1, <1>2
  <2>5. q < v
    BY <2>4, <1>1, <2>2
  <2> QED
    BY <2>5, <1>1 DEF q, v, y
<1> QED
  BY <1>2

LEMMA UnitOf ==
    ASSUME NEW b \in Block
    PROVE  /\ toCtb(b) \in Coord /\ toCtb(b) = <<Cell(0, b[1]), Cell(0, b[2])>>
<1>1. CtbSize \in Nat /\ CtbSize > 0 /\ 0 \in 0 .. CtbDepth
  BY Sizes DEF CtbSize
<1>2. WidthInMinCbs \in Nat /\ HeightInMinCbs \in Nat
      /\ Width = (WidthInMinCbs + CtbSize - 1) \div CtbSize
      /\ Height = (HeightInMinCbs + CtbSize - 1) \div CtbSize
  BY BlocksAssumption
<1>3. b[1] \in Nat /\ b[2] \in Nat /\ b[1] < WidthInMinCbs /\ b[2] < HeightInMinCbs
  BY BlockType
<1>4. b[1] \div CtbSize < Width /\ b[1] \div CtbSize \in Nat
  BY <1>1, <1>2, <1>3, UnitsHold, Zenon
<1>5. b[2] \div CtbSize < Height /\ b[2] \div CtbSize \in Nat
  BY <1>1, <1>2, <1>3, UnitsHold, Zenon
<1> DEFINE x == b[1] \div CtbSize
           y == b[2] \div CtbSize
<1>6. toCtb(b) = <<x, y>>
  BY DEF toCtb
<1>7. x = Cell(0, b[1]) /\ y = Cell(0, b[2])
  BY DEF Cell, CtbSize
<1> HIDE DEF x, y
<1>8. x \in 0 .. Width - 1 /\ y \in 0 .. Height - 1
  BY <1>4, <1>5, SizeType DEF x, y
<1> QED
  BY <1>6, <1>7, <1>8 DEF Coord

LEMMA Tables ==
    ASSUME layout \in Layouts
    PROVE  ScanTables(geo)
<1>1. ProperSpacing(Width, layout.columns) /\ ProperSpacing(Height, layout.rows)
  BY BlocksAssumption
<1>2. geo = Geometry(layout.columns, layout.rows)
  BY DEF geo, Geometries
<1> QED
  BY <1>1, <1>2, TablesProper

(* The blocks of a coding tree unit are those with its address.            *)
LEMMA AddrOf ==
    ASSUME layout \in Layouts, NEW a \in Block, NEW b \in Block
    PROVE  /\ addrInTs(a) \in Addr
           /\ addrInTs(a) = addrInTs(b) <=> SameCell(0, a, b)
<1>1. geo.toTs \in [Addr -> Addr] /\ \A x \in Addr : geo.toRs[geo.toTs[x]] = x
  BY Tables DEF ScanTables
<1>2. toCtb(a) \in Coord /\ toCtb(b) \in Coord
      /\ toCtb(a) = <<Cell(0, a[1]), Cell(0, a[2])>> /\ toCtb(b) = <<Cell(0, b[1]), Cell(0, b[2])>>
  BY UnitOf
<1> DEFINE p == toCtb(a)
           q == toCtb(b)
<1>3. p \in Coord /\ q \in Coord
  BY <1>2
<1>4. addrInTs(a) = geo.toTs[toAddrInRs(p)] /\ addrInTs(b) = geo.toTs[toAddrInRs(q)]
  BY DEF addrInTs
<1>5. SameCell(0, a, b) <=> p = q
  BY <1>2 DEF SameCell
<1> HIDE DEF p, q
<1>6. toAddrInRs(p) \in Addr /\ toAddrInRs(q) \in Addr
      /\ toCoord(toAddrInRs(p)) = p /\ toCoord(toAddrInRs(q)) = q
  BY <1>3, AddrType
<1>7. p = q <=> toAddrInRs(p) = toAddrInRs(q)
  BY <1>6
<1>8. toAddrInRs(p) = toAddrInRs(q) <=> geo.toTs[toAddrInRs(p)] = geo.toTs[toAddrInRs(q)]
  BY <1>1, <1>6
<1> QED
  BY <1>1, <1>4, <1>5, <1>6, <1>7, <1>8

(* Blocks in one cell are in one cell of each level above.                 *)
LEMMA CellsNest ==
    ASSUME NEW a \in Block, NEW b \in Block, NEW d \in 0 .. CtbDepth, SameCell(d, a, b),
           NEW e \in 0 .. d
    PROVE  SameCell(e, a, b)
<1> DEFINE S == {k \in 0 .. d : SameCell(d - k, a, b)}
<1>1. 0 \in S
  BY Sizes
<1>2. ASSUME NEW k \in 0 .. d - 1, k \in S PROVE k + 1 \in S
  <2> DEFINE m == d - k
  <2>1. m \in 1 .. CtbDepth /\ m - 1 = d - (k + 1) /\ k + 1 \in 0 .. d
    BY Sizes
  <2>2. SameCell(m, a, b)
    BY <1>2
  <2> HIDE DEF m
  <2>3. a[1] \in Nat /\ a[2] \in Nat /\ b[1] \in Nat /\ b[2] \in Nat
    BY BlockType
  <2>4. Cell(m - 1, a[1]) = Cell(m - 1, b[1])
    <3>1. /\ Cell(m, a[1]) = 2 * Cell(m - 1, a[1]) + (Cell(m, a[1]) % 2)
          /\ Cell(m, b[1]) = 2 * Cell(m - 1, b[1]) + (Cell(m, b[1]) % 2)
          /\ Cell(m - 1, a[1]) \in Nat /\ Cell(m - 1, b[1]) \in Nat /\ Cell(m, a[1]) % 2 \in 0 .. 1
      BY <2>1, <2>3, Halves
    <3> DEFINE r == Cell(m, a[1]) % 2
    <3>2. Cell(m, a[1]) = Cell(m, b[1])
      BY <2>2 DEF SameCell
    <3>3. 2 * Cell(m - 1, a[1]) + r = 2 * Cell(m - 1, b[1]) + r /\ r \in 0 .. 1
      BY <3>1, <3>2, Zenon
    <3> HIDE DEF r
    <3> QED
      BY <3>1, <3>3
  <2>5. Cell(m - 1, a[2]) = Cell(m - 1, b[2])
    <3>1. /\ Cell(m, a[2]) = 2 * Cell(m - 1, a[2]) + (Cell(m, a[2]) % 2)
          /\ Cell(m, b[2]) = 2 * Cell(m - 1, b[2]) + (Cell(m, b[2]) % 2)
          /\ Cell(m - 1, a[2]) \in Nat /\ Cell(m - 1, b[2]) \in Nat /\ Cell(m, a[2]) % 2 \in 0 .. 1
      BY <2>1, <2>3, Halves
    <3> DEFINE r == Cell(m, a[2]) % 2
    <3>2. Cell(m, a[2]) = Cell(m, b[2])
      BY <2>2 DEF SameCell
    <3>3. 2 * Cell(m - 1, a[2]) + r = 2 * Cell(m - 1, b[2]) + r /\ r \in 0 .. 1
      BY <3>1, <3>2, Zenon
    <3> HIDE DEF r
    <3> QED
      BY <3>1, <3>3
  <2> QED
    BY <2>1, <2>4, <2>5 DEF SameCell
<1>3. \A k \in 0 .. d - 1 : k \in S => k + 1 \in S
  BY <1>2
<1>4. d \in Nat /\ d - e \in 0 .. d /\ d - (d - e) = e
  BY Sizes
<1> HIDE DEF S
<1>5. \A k \in 0 .. d : k \in S
  BY <1>1, <1>3, <1>4, UpTo, Zenon
<1> QED
  BY <1>4, <1>5 DEF S

-------------------------------------------------------------------------------
(* Paths in the tree.                                                      *)
QuarterOf(d, b) == (Cell(d, b[1]) % 2) + 2 * (Cell(d, b[2]) % 2)

LEMMA QuarterIs ==
    ASSUME NEW d \in 1 .. CtbDepth, NEW b \in Block
    PROVE  /\ Quarter(Levels, d, offsetInCtb(b)) = QuarterOf(d, b)
           /\ QuarterOf(d, b) \in 0 .. 3
<1>1. b[1] \in Nat /\ b[2] \in Nat
  BY BlockType
<1>2. ((b[1] % CtbSize) \div sizeAt(d)) % 2 = Cell(d, b[1]) % 2
  BY <1>1, OffsetParity
<1>3. ((b[2] % CtbSize) \div sizeAt(d)) % 2 = Cell(d, b[2]) % 2
  BY <1>1, OffsetParity
<1>4. offsetInCtb(b)[1] = b[1] % CtbSize /\ offsetInCtb(b)[2] = b[2] % CtbSize
  BY DEF offsetInCtb
<1>5. side(Levels, d) = sizeAt(d)
  BY DEF sizeAt
<1>6. Quarter(Levels, d, offsetInCtb(b))
        = ((offsetInCtb(b)[1] \div sizeAt(d)) % 2) + 2 * ((offsetInCtb(b)[2] \div sizeAt(d)) % 2)
  BY <1>5 DEF Quarter
<1>7. Cell(d, b[1]) % 2 \in 0 .. 1 /\ Cell(d, b[2]) % 2 \in 0 .. 1
  BY <1>1, Halves
<1>8. QuarterOf(d, b) \in 0 .. 3
  BY <1>7 DEF QuarterOf
<1>9. Quarter(Levels, d, offsetInCtb(b)) = QuarterOf(d, b)
  BY <1>2, <1>3, <1>4, <1>6, Zenon DEF QuarterOf
<1> QED
  BY <1>8, <1>9

LEMMA PathIs ==
    ASSUME NEW b \in Block
    PROVE  /\ DOMAIN IndexPath(b) = 0 .. CtbDepth
           /\ IndexPath(b)[0] = 0
           /\ \A d \in 1 .. CtbDepth :
                IndexPath(b)[d] = 4 * IndexPath(b)[d - 1] + 1 + QuarterOf(d, b)
           /\ \A d \in 0 .. CtbDepth : IndexPath(b)[d] \in Nat
<1> DEFINE n == CtbDepth
           Q(d) == Quarter(Levels, d, offsetInCtb(b))
           step == [x \in (1 .. n) \X Int |-> 4 * x[2] + 1 + QuarterOf(x[1], b)]
           Is(g) == g = [depth \in 0 .. Levels - 1 |->
                          IF depth = 0 THEN 0 ELSE 4 * g[depth - 1] + 1 + Q(depth)]
           index == CHOOSE g : Is(g)
<1>1. n \in Nat /\ 0 \in Int /\ Levels - 1 = n
  BY Sizes DEF Levels
<1>2. \A d \in 1 .. n : QuarterOf(d, b) \in 0 .. 3 /\ Q(d) = QuarterOf(d, b)
  BY QuarterIs
<1>3. step \in [(1 .. n) \X Int -> Int]
  <2>1. ASSUME NEW x \in (1 .. n) \X Int PROVE 4 * x[2] + 1 + QuarterOf(x[1], b) \in Int
    <3>1. x[1] \in 1 .. n /\ x[2] \in Int
      OBVIOUS
    <3>2. QuarterOf(x[1], b) \in 0 .. 3
      BY <3>1, <1>2
    <3> QED
      BY <3>1, <3>2
  <2> QED
    BY <2>1
<1>4. PICK g \in [0 .. n -> Int] : g[0] = 0 /\ \A k \in 1 .. n : g[k] = step[<<k, g[k - 1]>>]
  <2> HIDE DEF step, n
  <2> QED
    BY <1>1, <1>3, RecursionExists, Zenon
<1>5. \A k \in 1 .. n : g[k] = 4 * g[k - 1] + 1 + QuarterOf(k, b)
  <2>1. ASSUME NEW k \in 1 .. n PROVE g[k] = 4 * g[k - 1] + 1 + QuarterOf(k, b)
    <3>1. k - 1 \in 0 .. n
      BY <1>1
    <3>2. g[k - 1] \in Int
      BY <3>1, <1>4
    <3>3. <<k, g[k - 1]>> \in (1 .. n) \X Int
      BY <3>2
    <3> QED
      BY <3>3, <1>4
  <2> QED
    BY <2>1
<1>6. Is(g)
  <2>1. \A k \in 0 .. n : k = 0 \/ k \in 1 .. n
    BY <1>1
  <2> HIDE DEF Q, step
  <2>2. \A k \in 0 .. n : g[k] = IF k = 0 THEN 0 ELSE 4 * g[k - 1] + 1 + Q(k)
    BY <2>1, <1>2, <1>4, <1>5
  <2> QED
    BY <2>2, <1>1
<1>7. Is(index)
  <2> HIDE DEF Q, step
  <2> QED
    BY <1>6
<1>8. IndexPath(b) = index
  BY DEF IndexPath, Path
<1>9. DOMAIN index = 0 .. n /\ index[0] = 0 /\ \A d \in 1 .. n : index[d] = 4 * index[d - 1] + 1 + QuarterOf(d, b)
  <2> HIDE DEF Q, step, index
  <2>1. \A k \in 0 .. n : index[k] = IF k = 0 THEN 0 ELSE 4 * index[k - 1] + 1 + Q(k)
    BY <1>7, <1>1
  <2>2. DOMAIN index = 0 .. n
    BY <1>7, <1>1
  <2>3. \A d \in 1 .. n : d \in 0 .. n /\ d # 0
    BY <1>1
  <2>4. 0 \in 0 .. n
    BY <1>1
  <2> QED
    BY <2>1, <2>2, <2>3, <2>4, <1>2
<1>10. \A d \in 0 .. n : index[d] \in Nat
  <2> DEFINE S == {k \in 0 .. n : index[k] \in Nat}
  <2> HIDE DEF Q, step, index
  <2>1. 0 \in S
    BY <1>1, <1>9
  <2>2. ASSUME NEW k \in 0 .. n - 1, k \in S PROVE k + 1 \in S
    <3>1. k + 1 \in 1 .. n /\ (k + 1) - 1 = k /\ k + 1 \in 0 .. n
      BY <1>1
    <3>2. index[k + 1] = 4 * index[k] + 1 + QuarterOf(k + 1, b)
      BY <3>1, <1>9
    <3>3. QuarterOf(k + 1, b) \in 0 .. 3
      BY <3>1, <1>2
    <3> QED
      BY <2>2, <3>1, <3>2, <3>3
  <2>3. \A k \in 0 .. n - 1 : k \in S => k + 1 \in S
    BY <2>2
  <2> HIDE DEF S
  <2>4. \A k \in 0 .. n : k \in S
    BY <2>1, <2>3, <1>1, UpTo, Zenon
  <2> QED
    BY <2>4 DEF S
<1> QED
  BY <1>8, <1>9, <1>10

LEMMA PathStep ==
    ASSUME NEW a \in Block, NEW b \in Block, NEW d \in 1 .. CtbDepth, NEW e \in 1 .. CtbDepth
    PROVE  /\ IndexPath(a)[d] > 0
           /\ IndexPath(a)[d] = IndexPath(b)[e]
                <=> IndexPath(a)[d - 1] = IndexPath(b)[e - 1] /\ QuarterOf(d, a) = QuarterOf(e, b)
<1> DEFINE p == IndexPath(a)[d - 1]
           q == IndexPath(b)[e - 1]
           u == QuarterOf(d, a)
           v == QuarterOf(e, b)
<1>1. u \in 0 .. 3 /\ v \in 0 .. 3
  BY QuarterIs
<1>2. d - 1 \in 0 .. CtbDepth /\ e - 1 \in 0 .. CtbDepth
  BY Sizes
<1>3. p \in Nat /\ q \in Nat
  BY <1>2, PathIs
<1>4. IndexPath(a)[d] = 4 * p + 1 + u /\ IndexPath(b)[e] = 4 * q + 1 + v
  BY PathIs
<1> HIDE DEF p, q, u, v
<1>5. 4 * p + 1 + u = 4 * q + 1 + v <=> p = q /\ u = v
  BY <1>1, <1>3
<1>6. 4 * p + 1 + u > 0
  BY <1>1, <1>3
<1> QED
  BY <1>4, <1>5, <1>6 DEF p, q, u, v

LEMMA PathDepth ==
    ASSUME NEW a \in Block, NEW b \in Block, NEW d \in 0 .. CtbDepth, NEW e \in 0 .. CtbDepth,
           IndexPath(a)[d] = IndexPath(b)[e]
    PROVE  d = e
<1> DEFINE S == {k \in 0 .. CtbDepth : \A m \in 0 .. CtbDepth :
                    IndexPath(a)[k] = IndexPath(b)[m] => k = m}
<1>0. CtbDepth \in Nat
  BY Sizes
<1>1. 0 \in S
  <2>1. ASSUME NEW m \in 0 .. CtbDepth, IndexPath(a)[0] = IndexPath(b)[m] PROVE 0 = m
    <3>1. m = 0 \/ m \in 1 .. CtbDepth
      BY <1>0
    <3>2. IndexPath(a)[0] = 0
      BY PathIs
    <3>3. m \in 1 .. CtbDepth => IndexPath(b)[m] > 0
      BY PathStep
    <3> QED
      BY <2>1, <3>1, <3>2, <3>3
  <2> QED
    BY <2>1, <1>0
<1>2. ASSUME NEW k \in 0 .. CtbDepth - 1, k \in S PROVE k + 1 \in S
  <2>1. k + 1 \in 1 .. CtbDepth /\ (k + 1) - 1 = k /\ k + 1 \in 0 .. CtbDepth
    BY <1>0
  <2>2. ASSUME NEW m \in 0 .. CtbDepth, IndexPath(a)[k + 1] = IndexPath(b)[m] PROVE k + 1 = m
    <3>1. IndexPath(a)[k + 1] > 0 /\ IndexPath(b)[0] = 0
      <4>1. IndexPath(a)[k + 1] > 0
        BY <2>1, PathStep
      <4> QED
        BY <4>1, PathIs
    <3>2. m \in 1 .. CtbDepth /\ m - 1 \in 0 .. CtbDepth
      BY <1>0, <2>2, <3>1
    <3>3. IndexPath(a)[k] = IndexPath(b)[m - 1]
      BY <2>1, <2>2, <3>2, PathStep
    <3>4. k = m - 1
      BY <1>2, <3>2, <3>3
    <3> QED
      BY <3>4, <1>0
  <2> QED
    BY <2>1, <2>2
<1>3. \A k \in 0 .. CtbDepth - 1 : k \in S => k + 1 \in S
  BY <1>2
<1> HIDE DEF S
<1>4. \A k \in 0 .. CtbDepth : k \in S
  BY <1>1, <1>3, <1>0, UpTo, Zenon
<1> QED
  BY <1>4 DEF S

LEMMA QuartersOfCells ==
    ASSUME NEW a \in Block, NEW b \in Block, NEW d \in 1 .. CtbDepth
    PROVE  SameCell(d, a, b) <=> SameCell(d - 1, a, b) /\ QuarterOf(d, a) = QuarterOf(d, b)
<1>1. a[1] \in Nat /\ a[2] \in Nat /\ b[1] \in Nat /\ b[2] \in Nat
  BY BlockType
<1> DEFINE x(c, i) == Cell(d, c[i])
           y(c, i) == Cell(d - 1, c[i])
           r(c, i) == Cell(d, c[i]) % 2
<1>2. ASSUME NEW c \in {a, b}, NEW i \in {1, 2}
      PROVE  x(c, i) = 2 * y(c, i) + r(c, i) /\ y(c, i) \in Nat /\ r(c, i) \in 0 .. 1
  <2>1. c[i] \in Nat
    BY <1>1
  <2> QED
    BY <2>1, Halves, Zenon
<1>3. /\ x(a, 1) = 2 * y(a, 1) + r(a, 1) /\ y(a, 1) \in Nat /\ r(a, 1) \in 0 .. 1
      /\ x(a, 2) = 2 * y(a, 2) + r(a, 2) /\ y(a, 2) \in Nat /\ r(a, 2) \in 0 .. 1
      /\ x(b, 1) = 2 * y(b, 1) + r(b, 1) /\ y(b, 1) \in Nat /\ r(b, 1) \in 0 .. 1
      /\ x(b, 2) = 2 * y(b, 2) + r(b, 2) /\ y(b, 2) \in Nat /\ r(b, 2) \in 0 .. 1
  BY <1>2
<1>4. /\ SameCell(d, a, b) <=> x(a, 1) = x(b, 1) /\ x(a, 2) = x(b, 2)
      /\ SameCell(d - 1, a, b) <=> y(a, 1) = y(b, 1) /\ y(a, 2) = y(b, 2)
      /\ QuarterOf(d, a) = r(a, 1) + 2 * r(a, 2) /\ QuarterOf(d, b) = r(b, 1) + 2 * r(b, 2)
  BY DEF SameCell, QuarterOf
<1> HIDE DEF x, y, r
<1> QED
  BY <1>3, <1>4

(* Within a coding tree unit an index stands for a cell.                   *)
LEMMA PathCell ==
    ASSUME NEW a \in Block, NEW b \in Block, SameCell(0, a, b), NEW d \in 0 .. CtbDepth
    PROVE  IndexPath(a)[d] = IndexPath(b)[d] <=> SameCell(d, a, b)
<1> DEFINE S == {k \in 0 .. CtbDepth : IndexPath(a)[k] = IndexPath(b)[k] <=> SameCell(k, a, b)}
<1>0. CtbDepth \in Nat
  BY Sizes
<1>1. 0 \in S
  <2>1. IndexPath(a)[0] = 0 /\ IndexPath(b)[0] = 0
    BY PathIs
  <2> QED
    BY <2>1, <1>0
<1>2. ASSUME NEW k \in 0 .. CtbDepth - 1, k \in S PROVE k + 1 \in S
  <2>1. k + 1 \in 1 .. CtbDepth /\ (k + 1) - 1 = k /\ k + 1 \in 0 .. CtbDepth
    BY <1>0
  <2>2. IndexPath(a)[k + 1] = IndexPath(b)[k + 1]
          <=> IndexPath(a)[k] = IndexPath(b)[k] /\ QuarterOf(k + 1, a) = QuarterOf(k + 1, b)
    BY <2>1, PathStep
  <2>3. SameCell(k + 1, a, b) <=> SameCell(k, a, b) /\ QuarterOf(k + 1, a) = QuarterOf(k + 1, b)
    BY <2>1, QuartersOfCells
  <2> QED
    BY <2>1, <2>2, <2>3, <1>2
<1>3. \A k \in 0 .. CtbDepth - 1 : k \in S => k + 1 \in S
  BY <1>2
<1> HIDE DEF S
<1>4. \A k \in 0 .. CtbDepth : k \in S
  BY <1>1, <1>3, <1>0, UpTo, Zenon
<1> QED
  BY <1>4 DEF S

-------------------------------------------------------------------------------
(* Nodes: one is found from each of its blocks.                            *)
LEMMA NodeIs ==
    ASSUME NEW n, Sound(n)
    PROVE  /\ n.at = <<sizeAt(n.depth) * Cell(n.depth, n.at[1]), sizeAt(n.depth) * Cell(n.depth, n.at[2])>>
           /\ n.at[1] = sizeAt(n.depth) * Cell(n.depth, n.at[1])
           /\ n.at[2] = sizeAt(n.depth) * Cell(n.depth, n.at[2])
           /\ InNode(n, n.at)
<1>1. n.at \in Block /\ n.depth \in 0 .. CtbDepth
      /\ n.at[1] % sizeAt(n.depth) = 0 /\ n.at[2] % sizeAt(n.depth) = 0
  BY DEF Sound
<1>2. n.at[1] \in Nat /\ n.at[2] \in Nat /\ n.at = <<n.at[1], n.at[2]>>
  BY <1>1, BlockType, Zenon
<1> DEFINE s == sizeAt(n.depth)
<1>3. s \in Nat /\ s > 0
  BY <1>1, Sizes
<1>4. n.at[1] = s * (n.at[1] \div s) + (n.at[1] % s)
  <2> HIDE DEF s
  <2> QED
    BY <1>2, <1>3, DivBounds, Zenon
<1>5. n.at[2] = s * (n.at[2] \div s) + (n.at[2] % s)
  <2> HIDE DEF s
  <2> QED
    BY <1>2, <1>3, DivBounds, Zenon
<1>6. n.at[1] \div s \in Nat /\ n.at[2] \div s \in Nat
  <2> HIDE DEF s
  <2> QED
    BY <1>2, <1>3, DivBounds, Zenon
<1>7. Cell(n.depth, n.at[1]) = n.at[1] \div s /\ Cell(n.depth, n.at[2]) = n.at[2] \div s
  BY DEF Cell
<1> HIDE DEF s
<1>8. n.at[1] % s = 0 /\ n.at[2] % s = 0
  BY <1>1 DEF s
<1>9. n.at[1] = s * Cell(n.depth, n.at[1]) /\ n.at[2] = s * Cell(n.depth, n.at[2])
  BY <1>3, <1>4, <1>5, <1>6, <1>7, <1>8
<1>10. n.at = <<s * Cell(n.depth, n.at[1]), s * Cell(n.depth, n.at[2])>>
  BY <1>2, <1>9, Zenon
<1> QED
  BY <1>9, <1>10 DEF s, InNode, SameCell

(* Two nodes of one size that hold a block are the same.                   *)
LEMMA NodeUnique ==
    ASSUME NEW n, NEW m, Sound(n), Sound(m), n.depth = m.depth, NEW b, InNode(n, b), InNode(m, b)
    PROVE  n.at = m.at
<1>1. /\ Cell(n.depth, n.at[1]) = Cell(m.depth, m.at[1])
      /\ Cell(n.depth, n.at[2]) = Cell(m.depth, m.at[2])
  BY DEF InNode, SameCell
<1>2. n.at = <<sizeAt(n.depth) * Cell(n.depth, n.at[1]), sizeAt(n.depth) * Cell(n.depth, n.at[2])>>
  BY NodeIs
<1>3. m.at = <<sizeAt(m.depth) * Cell(m.depth, m.at[1]), sizeAt(m.depth) * Cell(m.depth, m.at[2])>>
  BY NodeIs
<1> QED
  BY <1>1, <1>2, <1>3, Zenon

(* A node's blocks are in its coding tree unit.                            *)
LEMMA NodeUnit ==
    ASSUME layout \in Layouts, NEW n, Sound(n), NEW b \in Block, InNode(n, b)
    PROVE  SameCell(0, n.at, b) /\ addrInTs(n.at) = addrInTs(b) /\ TreeOf(n.at) = TreeOf(b)
<1>1. n.at \in Block /\ n.depth \in 0 .. CtbDepth /\ 0 \in 0 .. n.depth
  BY Sizes DEF Sound
<1>2. SameCell(n.depth, n.at, b)
  BY DEF InNode
<1>3. SameCell(0, n.at, b)
  BY <1>1, <1>2, CellsNest
<1> QED
  BY <1>1, <1>3, AddrOf DEF TreeOf

(* A coding unit covers the blocks it holds.                               *)
LEMMA CoversIs ==
    ASSUME NEW c, Sound(c), NEW b \in Block
    PROVE  Covers(c, b) <=> InNode(c, b)
<1>1. c.at \in Block /\ c.depth \in 0 .. CtbDepth
  BY DEF Sound
<1> DEFINE s == sizeAt(c.depth)
<1>2. s \in Nat /\ s > 0
  BY <1>1, Sizes
<1>3. c.at[1] \in Nat /\ c.at[2] \in Nat /\ b[1] \in Nat /\ b[2] \in Nat
  BY <1>1, BlockType
<1>4. c.at[1] = s * Cell(c.depth, c.at[1]) /\ c.at[2] = s * Cell(c.depth, c.at[2])
  BY NodeIs
<1>5. ASSUME NEW i \in {1, 2}
      PROVE  b[i] \in c.at[i] .. c.at[i] + s - 1 <=> Cell(c.depth, c.at[i]) = Cell(c.depth, b[i])
  <2>0. c.at[i] \in Nat /\ b[i] \in Nat /\ c.at[i] = s * Cell(c.depth, c.at[i])
    BY <1>3, <1>4
  <2>1. Cell(c.depth, c.at[i]) \in Nat
    BY <1>1, <2>0, CellType
  <2>2. s * Cell(c.depth, b[i]) <= b[i] /\ b[i] < s * Cell(c.depth, b[i]) + s
    BY <1>1, <2>0, CellType
  <2>3. ASSUME c.at[i] <= b[i], b[i] < c.at[i] + s PROVE Cell(c.depth, b[i]) = Cell(c.depth, c.at[i])
    <3>1. s * Cell(c.depth, c.at[i]) <= b[i] /\ b[i] < s * Cell(c.depth, c.at[i]) + s
      BY <2>0, <2>3
    <3> QED
      BY <1>1, <2>0, <2>1, <3>1, CellIs
  <2>4. ASSUME Cell(c.depth, c.at[i]) = Cell(c.depth, b[i]) PROVE c.at[i] <= b[i] /\ b[i] < c.at[i] + s
    BY <2>0, <2>2, <2>4
  <2>5. b[i] \in c.at[i] .. c.at[i] + s - 1 <=> c.at[i] <= b[i] /\ b[i] < c.at[i] + s
    <3> HIDE DEF s
    <3> QED
      BY <2>0, <1>2
  <2> QED
    BY <2>3, <2>4, <2>5
<1>6. Covers(c, b) <=> \A i \in 1 .. 2 : b[i] \in c.at[i] .. c.at[i] + s - 1
  BY DEF Covers
<1>7. \A i : i \in 1 .. 2 <=> i \in {1, 2}
  OBVIOUS
<1> HIDE DEF s
<1>8. /\ b[1] \in c.at[1] .. c.at[1] + s - 1 <=> Cell(c.depth, c.at[1]) = Cell(c.depth, b[1])
      /\ b[2] \in c.at[2] .. c.at[2] + s - 1 <=> Cell(c.depth, c.at[2]) = Cell(c.depth, b[2])
  BY <1>5
<1> QED
  BY <1>6, <1>7, <1>8 DEF InNode, SameCell

-------------------------------------------------------------------------------
(* The tree of a coding tree unit.                                         *)
LEMMA MinIs ==
    ASSUME NEW S \in SUBSET Int, NEW m \in S, \A y \in S : m <= y
    PROVE  Min(S) = m
<1>1. \A x \in S : (\A y \in S : x <= y) <=> x = m
  OBVIOUS
<1> QED
  BY <1>1 DEF Min

LEMMA EmptyIndexIs ==
    ASSUME NEW tree, NEW b \in Block, NEW d \in 0 .. CtbDepth, Begun(tree, b, d)
    PROVE  toEmptyIndex(Levels, tree, offsetInCtb(b)) = IndexPath(b)[d]
<1> DEFINE path == IndexPath(b)
           S == {depth \in DOMAIN path : path[depth] \notin DOMAIN tree}
<1>1. DOMAIN path = 0 .. CtbDepth /\ CtbDepth \in Nat
  BY PathIs, Sizes
<1>2. \A e \in 0 .. CtbDepth : path[e] \in DOMAIN tree <=> e < d
  BY DEF Begun
<1>3. toEmptyIndex(Levels, tree, offsetInCtb(b)) = path[Min(S)]
  BY DEF toEmptyIndex, IndexPath
<1> HIDE DEF path
<1>4. S \in SUBSET Int /\ d \in S /\ \A y \in S : d <= y
  BY <1>1, <1>2
<1> HIDE DEF S
<1>5. Min(S) = d
  BY <1>4, MinIs, Zenon
<1> QED
  BY <1>3, <1>5 DEF path

LEMMA Exclusive ==
    ASSUME NEW tree, NEW b, NEW d \in 0 .. CtbDepth, NEW e \in 0 .. CtbDepth
    PROVE  /\ Begun(tree, b, d) /\ Begun(tree, b, e) => d = e
           /\ ~(Begun(tree, b, d) /\ Leaf(tree, b, e))
           /\ Leaf(tree, b, d) /\ Leaf(tree, b, e) => d = e
<1>1. d \in Int /\ e \in Int
  OBVIOUS
<1>2. ASSUME Begun(tree, b, d), Begun(tree, b, e) PROVE d = e
  <2>1. /\ IndexPath(b)[d] \in DOMAIN tree <=> d < e
        /\ IndexPath(b)[d] \in DOMAIN tree <=> d < d
        /\ IndexPath(b)[e] \in DOMAIN tree <=> e < d
        /\ IndexPath(b)[e] \in DOMAIN tree <=> e < e
    BY <1>2 DEF Begun
  <2> QED
    BY <1>1, <2>1
<1>3. ASSUME Begun(tree, b, d), Leaf(tree, b, e) PROVE FALSE
  <2>1. /\ IndexPath(b)[e] \in DOMAIN tree <=> e < d
        /\ e < d => tree[IndexPath(b)[e]].split = TRUE
    BY <1>3 DEF Begun
  <2>2. /\ IndexPath(b)[e] \in DOMAIN tree <=> e <= e
        /\ tree[IndexPath(b)[e]].split = FALSE
    BY <1>3 DEF Leaf
  <2> QED
    BY <1>1, <2>1, <2>2
<1>4. ASSUME Leaf(tree, b, d), Leaf(tree, b, e) PROVE d = e
  <2>1. /\ IndexPath(b)[d] \in DOMAIN tree <=> d <= d
        /\ IndexPath(b)[e] \in DOMAIN tree <=> e <= d
    BY <1>4 DEF Leaf
  <2>2. /\ IndexPath(b)[d] \in DOMAIN tree <=> d <= e
        /\ IndexPath(b)[e] \in DOMAIN tree <=> e <= e
    BY <1>4 DEF Leaf
  <2> QED
    BY <1>1, <2>1, <2>2
<1> QED
  BY <1>2, <1>3, <1>4

(* The search down the tree of a block ends at its leaf.                   *)
LEMMA LeafFound ==
    ASSUME NEW tree, NEW b \in Block, NEW d \in 0 .. CtbDepth,
           \A a \in Block : SameCell(d, a, b) => Leaf(tree, a, d),
           \A i \in DOMAIN tree : \E a \in Block, e \in 0 .. CtbDepth :
                SameCell(0, a, b) /\ i = IndexPath(a)[e]
    PROVE  toIndex(Levels, tree, offsetInCtb(b)) = IndexPath(b)[d]
<1> DEFINE path == IndexPath(b)
           S == {depth \in DOMAIN path : ~isRoot(tree, path[depth])}
<1>1. DOMAIN path = 0 .. CtbDepth /\ CtbDepth \in Nat
  BY PathIs, Sizes
<1>2. toIndex(Levels, tree, offsetInCtb(b)) = path[Min(S)]
  BY DEF toIndex, IndexPath
<1>3. Leaf(tree, b, d)
  BY DEF SameCell
<1>4. ASSUME NEW e \in 0 .. CtbDepth, e < d PROVE isRoot(tree, path[e])
  <2>1. e + 1 \in 1 .. CtbDepth /\ (e + 1) - 1 = e /\ e + 1 <= d /\ e + 1 \in 0 .. CtbDepth
    BY <1>1, <1>4
  <2>2. IndexPath(b)[e + 1] = 4 * IndexPath(b)[e] + 1 + QuarterOf(e + 1, b)
    BY <2>1, PathIs
  <2>3. QuarterOf(e + 1, b) \in 0 .. 3
    BY <2>1, QuarterIs
  <2>4. IndexPath(b)[e + 1] \in DOMAIN tree
    BY <1>3, <2>1 DEF Leaf
  <2>5. path[e] \in Nat
    BY PathIs
  <2> DEFINE k == 1 + QuarterOf(e + 1, b)
  <2>6. k \in 1 .. 4 /\ 4 * path[e] + k = IndexPath(b)[e + 1]
    BY <2>2, <2>3, <2>5
  <2> QED
    BY <2>4, <2>6 DEF isRoot
<1>5. ASSUME isRoot(tree, path[d]) PROVE FALSE
  <2>1. PICK k \in 1 .. 4 : 4 * path[d] + k \in DOMAIN tree
    BY <1>5 DEF isRoot
  <2>2. PICK a \in Block, e \in 0 .. CtbDepth : SameCell(0, a, b) /\ 4 * path[d] + k = IndexPath(a)[e]
    BY <2>1
  <2>3. path[d] \in Nat
    BY PathIs
  <2>4. e \in 1 .. CtbDepth /\ e - 1 \in 0 .. CtbDepth
    <3>1. IndexPath(a)[0] = 0
      BY PathIs
    <3> HIDE DEF path
    <3>2. 4 * path[d] + k # 0
      BY <2>3
    <3>3. e # 0
      BY <2>2, <3>1, <3>2
    <3> QED
      BY <3>3, <1>1
  <2>5. IndexPath(a)[e] = 4 * IndexPath(a)[e - 1] + 1 + QuarterOf(e, a)
    BY <2>4, PathIs
  <2>6. IndexPath(a)[e - 1] \in Nat /\ QuarterOf(e, a) \in 0 .. 3
    BY <2>4, PathIs, QuarterIs
  <2>7. IndexPath(a)[e - 1] = path[d]
    <3> DEFINE p == IndexPath(a)[e - 1]
               q == QuarterOf(e, a)
    <3>1. 4 * path[d] + k = 4 * p + 1 + q /\ p \in Nat /\ q \in 0 .. 3
      BY <2>2, <2>5, <2>6
    <3> HIDE DEF p, q, path
    <3>2. p = path[d]
      BY <2>3, <3>1
    <3> QED
      BY <3>2 DEF p
  <2>8. e - 1 = d
    BY <2>4, <2>7, PathDepth
  <2>9. SameCell(d, a, b)
    BY <2>2, <2>7, <2>8, PathCell
  <2>10. Leaf(tree, a, d)
    BY <2>9
  <2>11. IndexPath(a)[e] \in DOMAIN tree
    BY <2>1, <2>2
  <2>12. e <= d
    BY <2>10, <2>11, <2>4 DEF Leaf
  <2> QED
    BY <2>8, <2>12
<1> HIDE DEF path
<1>6. S \in SUBSET Int /\ d \in S /\ \A y \in S : d <= y
  BY <1>1, <1>4, <1>5
<1> HIDE DEF S
<1>7. Min(S) = d
  BY <1>6, MinIs, Zenon
<1> QED
  BY <1>2, <1>7 DEF path

(* The tree with a node appended.                                          *)
With(tree, i, node) == [j \in DOMAIN tree \cup {i} |-> IF j = i THEN node ELSE tree[j]]

LEMMA WithElsewhere ==
    ASSUME NEW tree, NEW node, NEW a \in Block, NEW b \in Block, NEW d \in 0 .. CtbDepth,
           SameCell(0, a, b), ~SameCell(d, a, b), NEW e \in 0 .. CtbDepth
    PROVE  /\ Begun(tree, b, e) => Begun(With(tree, IndexPath(a)[d], node), b, e)
           /\ Leaf(tree, b, e) => Leaf(With(tree, IndexPath(a)[d], node), b, e)
<1> DEFINE i == IndexPath(a)[d]
           next == With(tree, i, node)
<1>1. ASSUME NEW f \in 0 .. CtbDepth PROVE IndexPath(b)[f] # i
  <2> SUFFICES ASSUME IndexPath(b)[f] = i PROVE FALSE
    OBVIOUS
  <2>1. d = f
    BY PathDepth
  <2> QED
    BY <2>1, PathCell
<1> HIDE DEF i
<1>2. ASSUME NEW f \in 0 .. CtbDepth
      PROVE  /\ IndexPath(b)[f] \in DOMAIN next <=> IndexPath(b)[f] \in DOMAIN tree
             /\ IndexPath(b)[f] \in DOMAIN tree => next[IndexPath(b)[f]] = tree[IndexPath(b)[f]]
  BY <1>1 DEF With
<1> HIDE DEF next
<1>3. CtbDepth \in Nat
  BY Sizes
<1>4. ASSUME Begun(tree, b, e) PROVE Begun(next, b, e)
  <2>1. \A f \in 0 .. CtbDepth : /\ IndexPath(b)[f] \in DOMAIN tree <=> f < e
                                 /\ f < e => tree[IndexPath(b)[f]].split = TRUE
    BY <1>4 DEF Begun
  <2>2. \A f \in 0 .. CtbDepth : /\ IndexPath(b)[f] \in DOMAIN next <=> f < e
                                 /\ f < e => next[IndexPath(b)[f]].split = TRUE
    BY <1>2, <2>1
  <2> QED
    BY <2>2 DEF Begun
<1>5. ASSUME Leaf(tree, b, e) PROVE Leaf(next, b, e)
  <2>1. /\ \A f \in 0 .. CtbDepth : /\ IndexPath(b)[f] \in DOMAIN tree <=> f <= e
                                    /\ f < e => tree[IndexPath(b)[f]].split = TRUE
        /\ tree[IndexPath(b)[e]].split = FALSE /\ tree[IndexPath(b)[e]].depth = e
    BY <1>5 DEF Leaf
  <2>2. \A f \in 0 .. CtbDepth : f < e => f <= e
    BY <1>3
  <2>3. \A f \in 0 .. CtbDepth : /\ IndexPath(b)[f] \in DOMAIN next <=> f <= e
                                 /\ f < e => next[IndexPath(b)[f]].split = TRUE
    BY <1>2, <2>1, <2>2
  <2>4. e <= e
    BY <1>3
  <2>5. next[IndexPath(b)[e]] = tree[IndexPath(b)[e]]
    BY <1>2, <2>1, <2>4
  <2> QED
    BY <2>1, <2>3, <2>5 DEF Leaf
<1> QED
  BY <1>4, <1>5 DEF next, i

LEMMA WithHere ==
    ASSUME NEW tree, NEW node, NEW a \in Block, NEW b \in Block, NEW d \in 0 .. CtbDepth,
           SameCell(0, a, b), SameCell(d, a, b), Begun(tree, b, d)
    PROVE  /\ node.split = TRUE /\ d < CtbDepth => Begun(With(tree, IndexPath(a)[d], node), b, d + 1)
           /\ node.split = FALSE /\ node.depth = d => Leaf(With(tree, IndexPath(a)[d], node), b, d)
<1> DEFINE i == IndexPath(a)[d]
           next == With(tree, i, node)
<1>1. i = IndexPath(b)[d]
  BY PathCell
<1>2. ASSUME NEW f \in 0 .. CtbDepth PROVE IndexPath(b)[f] = i <=> f = d
  BY <1>1, PathDepth
<1> HIDE DEF i
<1>3. \A f \in 0 .. CtbDepth :
        /\ IndexPath(b)[f] \in DOMAIN next <=> f = d \/ IndexPath(b)[f] \in DOMAIN tree
        /\ IndexPath(b)[f] \in DOMAIN next => next[IndexPath(b)[f]] = IF f = d THEN node ELSE tree[IndexPath(b)[f]]
  BY <1>2 DEF With
<1> HIDE DEF next
<1>4. CtbDepth \in Nat /\ d \in Nat
  BY Sizes
<1>5. \A f \in 0 .. CtbDepth : /\ IndexPath(b)[f] \in DOMAIN tree <=> f < d
                               /\ f < d => tree[IndexPath(b)[f]].split = TRUE
  BY DEF Begun
<1>6. \A f \in 0 .. CtbDepth :
        /\ IndexPath(b)[f] \in DOMAIN next <=> f <= d
        /\ f < d => next[IndexPath(b)[f]].split = TRUE
        /\ f = d => next[IndexPath(b)[f]] = node
  <2>1. ASSUME NEW f \in 0 .. CtbDepth
        PROVE  /\ IndexPath(b)[f] \in DOMAIN next <=> f <= d
               /\ f < d => next[IndexPath(b)[f]].split = TRUE
               /\ f = d => next[IndexPath(b)[f]] = node
    <3>1. (f <= d <=> f = d \/ f < d) /\ ~(f = d /\ f < d)
      BY <1>4
    <3> QED
      BY <3>1, <1>3, <1>5
  <2> QED
    BY <2>1
<1>7. ASSUME node.split = TRUE, d < CtbDepth PROVE Begun(next, b, d + 1)
  <2>1. \A f \in 0 .. CtbDepth : f < d + 1 <=> f < d \/ f = d
    BY <1>4
  <2>2. \A f \in 0 .. CtbDepth : f < d + 1 <=> f <= d
    BY <1>4
  <2> QED
    BY <1>6, <1>7, <2>1, <2>2 DEF Begun
<1>8. ASSUME node.split = FALSE, node.depth = d PROVE Leaf(next, b, d)
  BY <1>6, <1>8 DEF Leaf
<1> QED
  BY <1>7, <1>8 DEF next, i

(* Trees that differ in the quantization parameters of their nodes.        *)
SameShape(tree, next) ==
    /\ DOMAIN next = DOMAIN tree
    /\ \A i \in DOMAIN tree : next[i].split = tree[i].split /\ next[i].depth = tree[i].depth

LEMMA ShapeKept ==
    ASSUME NEW tree, NEW next, SameShape(tree, next), NEW b, NEW d \in 0 .. CtbDepth
    PROVE  /\ Begun(tree, b, d) => Begun(next, b, d)
           /\ Leaf(tree, b, d) => Leaf(next, b, d)
<1>1. ASSUME Begun(tree, b, d) PROVE Begun(next, b, d)
  BY <1>1 DEF Begun, SameShape
<1>2. ASSUME Leaf(tree, b, d) PROVE Leaf(next, b, d)
  <2>1. \A f \in 0 .. CtbDepth : f < d => f <= d
    BY Sizes
  <2>2. d <= d
    BY Sizes
  <2> QED
    BY <1>2, <2>1, <2>2 DEF Leaf, SameShape
<1> QED
  BY <1>1, <1>2

-------------------------------------------------------------------------------
(* Sequences of nodes.                                                     *)
Distinct(s) == \A i, j \in DOMAIN s : s[i].at = s[j].at => i = j

LEMMA JoinIs ==
    ASSUME NEW S, NEW s \in Seq(S), NEW t \in Seq(S)
    PROVE  /\ s \o t \in Seq(S) /\ Entries(s \o t) = Entries(s) \cup Entries(t)
           /\ Distinct(s) /\ Distinct(t) /\ (\A x \in Entries(s), y \in Entries(t) : x.at # y.at)
                => Distinct(s \o t)
<1> DEFINE r == s \o t
           m == Len(s)
           n == Len(t)
<1>1. /\ r \in Seq(S) /\ Len(r) = m + n /\ m \in Nat /\ n \in Nat
      /\ DOMAIN r = 1 .. m + n /\ DOMAIN s = 1 .. m /\ DOMAIN t = 1 .. n
      /\ \A i \in 1 .. m : r[i] = s[i]
      /\ \A i \in 1 .. n : r[m + i] = t[i]
  OBVIOUS
<1> HIDE DEF r, m, n
<1>2. ASSUME NEW i \in DOMAIN r
      PROVE  \/ i \in DOMAIN s /\ r[i] = s[i]
             \/ i \notin DOMAIN s /\ i - m \in DOMAIN t /\ r[i] = t[i - m]
  <2>1. CASE i \in 1 .. m
    BY <1>1, <2>1
  <2>2. CASE i \notin 1 .. m
    <3>1. i - m \in 1 .. n /\ m + (i - m) = i
      BY <1>1, <2>2
    <3> QED
      BY <1>1, <3>1, <2>2
  <2> QED
    BY <2>1, <2>2
<1>3. \A i \in DOMAIN s : i \in DOMAIN r
  BY <1>1
<1>4. \A i \in DOMAIN t : m + i \in DOMAIN r
  BY <1>1
<1>5. Entries(r) = Entries(s) \cup Entries(t)
  <2>1. ASSUME NEW x \in Entries(r) PROVE x \in Entries(s) \cup Entries(t)
    BY <1>2 DEF Entries
  <2>2. ASSUME NEW x \in Entries(s) PROVE x \in Entries(r)
    BY <1>1, <1>3 DEF Entries
  <2>3. ASSUME NEW x \in Entries(t) PROVE x \in Entries(r)
    BY <1>1, <1>4 DEF Entries
  <2> QED
    BY <2>1, <2>2, <2>3
<1>6. ASSUME Distinct(s), Distinct(t), \A x \in Entries(s), y \in Entries(t) : x.at # y.at
      PROVE  Distinct(r)
  <2>0. \A i \in DOMAIN s, j \in DOMAIN t : s[i].at # t[j].at
    BY <1>6 DEF Entries
  <2>1. ASSUME NEW i \in DOMAIN r, NEW j \in DOMAIN r, r[i].at = r[j].at PROVE i = j
    <3>1. i \in Int /\ j \in Int /\ m \in Int
      BY <1>1
    <3>2. CASE i \in DOMAIN s /\ j \in DOMAIN s
      BY <1>2, <2>1, <3>2, <1>6 DEF Distinct
    <3>3. CASE i \notin DOMAIN s /\ j \notin DOMAIN s
      <4>1. i - m \in DOMAIN t /\ r[i] = t[i - m] /\ j - m \in DOMAIN t /\ r[j] = t[j - m]
        BY <1>2, <3>3
      <4>2. i - m = j - m
        BY <4>1, <2>1, <1>6 DEF Distinct
      <4> QED
        BY <4>2, <3>1
    <3>4. CASE i \in DOMAIN s /\ j \notin DOMAIN s
      <4>1. r[i] = s[i] /\ j - m \in DOMAIN t /\ r[j] = t[j - m]
        BY <1>2, <3>4
      <4> QED
        BY <4>1, <3>4, <2>0, <2>1
    <3>5. CASE i \notin DOMAIN s /\ j \in DOMAIN s
      <4>1. r[j] = s[j] /\ i - m \in DOMAIN t /\ r[i] = t[i - m]
        BY <1>2, <3>5
      <4> QED
        BY <4>1, <3>5, <2>0, <2>1
    <3> QED
      BY <3>2, <3>3, <3>4, <3>5
  <2> QED
    BY <2>1 DEF Distinct
<1> QED
  BY <1>1, <1>5, <1>6 DEF r

LEMMA TailIs ==
    ASSUME NEW S, NEW s \in Seq(S), s # <<>>
    PROVE  /\ Head(s) \in S /\ Head(s) \in Entries(s)
           /\ Tail(s) \in Seq(S) /\ Entries(s) = {Head(s)} \cup Entries(Tail(s))
           /\ Distinct(s) => Distinct(Tail(s)) /\ \A x \in Entries(Tail(s)) : x.at # Head(s).at
<1> DEFINE t == Tail(s)
           n == Len(s)
<1>1. /\ n \in Nat /\ n > 0 /\ DOMAIN s = 1 .. n /\ Head(s) = s[1] /\ s[1] \in S
      /\ t \in Seq(S) /\ DOMAIN t = 1 .. n - 1 /\ \A i \in 1 .. n - 1 : t[i] = s[i + 1]
  OBVIOUS
<1> HIDE DEF t, n
<1>2. \A i \in 1 .. n - 1 : i + 1 \in 1 .. n /\ i + 1 # 1 /\ i \in Int
  BY <1>1
<1>3. \A i \in 1 .. n : i = 1 \/ (i - 1 \in 1 .. n - 1 /\ (i - 1) + 1 = i)
  BY <1>1
<1>4. 1 \in 1 .. n
  BY <1>1
<1>5. Entries(s) = {Head(s)} \cup Entries(t)
  <2>1. ASSUME NEW x \in Entries(s) PROVE x \in {Head(s)} \cup Entries(t)
    <3>1. PICK i \in 1 .. n : x = s[i]
      BY <1>1 DEF Entries
    <3>2. CASE i = 1
      BY <3>1, <3>2, <1>1
    <3>3. CASE i # 1
      <4>1. i - 1 \in DOMAIN t /\ t[i - 1] = x
        BY <3>1, <3>3, <1>1, <1>3
      <4> QED
        BY <4>1 DEF Entries
    <3> QED
      BY <3>2, <3>3
  <2>2. ASSUME NEW x \in Entries(t) PROVE x \in Entries(s)
    BY <1>1, <1>2 DEF Entries
  <2>3. Head(s) \in Entries(s)
    BY <1>1, <1>4 DEF Entries
  <2> QED
    BY <2>1, <2>2, <2>3
<1>6. ASSUME Distinct(s) PROVE Distinct(t) /\ \A x \in Entries(t) : x.at # Head(s).at
  <2>1. ASSUME NEW i \in DOMAIN t, NEW j \in DOMAIN t, t[i].at = t[j].at PROVE i = j
    <3>1. i \in 1 .. n - 1 /\ j \in 1 .. n - 1 /\ i + 1 \in DOMAIN s /\ j + 1 \in DOMAIN s
          /\ t[i] = s[i + 1] /\ t[j] = s[j + 1]
      BY <1>1, <1>2
    <3>2. i + 1 = j + 1
      BY <3>1, <2>1, <1>6 DEF Distinct
    <3> QED
      BY <3>1, <3>2
  <2>2. ASSUME NEW x \in Entries(t) PROVE x.at # Head(s).at
    <3>1. PICK i \in 1 .. n - 1 : x = s[i + 1]
      BY <1>1 DEF Entries
    <3>2. i + 1 \in DOMAIN s /\ 1 \in DOMAIN s /\ i + 1 # 1
      BY <1>1, <1>2, <1>4
    <3> QED
      BY <3>1, <3>2, <1>1, <1>6 DEF Distinct
  <2> QED
    BY <2>1, <2>2 DEF Distinct
<1> QED
  BY <1>1, <1>5, <1>6 DEF t

-------------------------------------------------------------------------------
(* The quarters of a node.                                                 *)
LEMMA HalfAt ==
    ASSUME NEW d \in 0 .. CtbDepth - 1, NEW x \in Nat, x = sizeAt(d) * Cell(d, x),
           NEW u \in 0 .. 1, NEW y, y = x + sizeAt(d + 1) * u
    PROVE  /\ y \in Nat /\ y % sizeAt(d + 1) = 0
           /\ Cell(d, y) = Cell(d, x) /\ Cell(d + 1, y) = 2 * Cell(d, x) + u
<1> DEFINE s == sizeAt(d + 1)
           k == Cell(d, x)
           h == 2 * k + u
<1>1. d \in 0 .. CtbDepth /\ d + 1 \in 0 .. CtbDepth /\ sizeAt(d) = 2 * s /\ s \in Nat /\ s > 0
  BY Sizes
<1>2. k \in Nat
  BY <1>1, CellType
<1>3. y = s * h /\ h \in Nat /\ y \in Nat /\ (2 * s) * k \in Nat
      /\ (2 * s) * k <= y /\ y < (2 * s) * k + 2 * s
  <2>1. x = (2 * s) * k
    BY <1>1
  <2>2. y = x + s * u
    OBVIOUS
  <2> HIDE DEF s, k
  <2>3. CASE u = 0
    BY <2>1, <2>2, <2>3, <1>1, <1>2
  <2>4. CASE u = 1
    BY <2>1, <2>2, <2>4, <1>1, <1>2
  <2> QED
    BY <2>3, <2>4
<1>4. Cell(d, y) = k
  <2> HIDE DEF s, k
  <2> QED
    BY <1>1, <1>2, <1>3, CellIs
<1>5. Cell(d + 1, y) = h
  <2>1. s * h <= y /\ y < s * h + s
    BY <1>1, <1>3
  <2> HIDE DEF h
  <2>2. sizeAt(d + 1) * h <= y /\ y < sizeAt(d + 1) * h + sizeAt(d + 1)
    BY <2>1
  <2> HIDE DEF s
  <2> QED
    BY <1>1, <1>3, <2>2, CellIs
<1>6. y % s = 0
  <2>1. y \div s = h
    BY <1>5 DEF Cell
  <2> HIDE DEF s, h
  <2>2. y = s * (y \div s) + (y % s) /\ y % s \in Nat
    BY <1>1, <1>3, DivBounds, Zenon
  <2>3. y = s * h + (y % s) /\ s * h \in Nat
    BY <2>1, <2>2, <1>3
  <2> DEFINE r == y % s
  <2>4. y = s * h + r /\ r \in Nat
    BY <2>2, <2>3
  <2> HIDE DEF r
  <2>5. r = 0
    BY <2>3, <2>4, <1>3
  <2> QED
    BY <2>5 DEF r
<1> QED
  BY <1>3, <1>4, <1>5, <1>6

NodeSet == [at : Block, depth : 0 .. CtbDepth]

(* A quarter that lies in the picture, by the halves it is in.             *)
QuarterNode(n, u, v) ==
    Node(<<n.at[1] + sizeAt(n.depth + 1) * u, n.at[2] + sizeAt(n.depth + 1) * v>>, n.depth + 1)

InPicture(at) == at[1] < WidthInMinCbs /\ at[2] < HeightInMinCbs

LEMMA QuarterNodeIs ==
    ASSUME NEW n, Sound(n), n.depth < CtbDepth, NEW u \in 0 .. 1, NEW v \in 0 .. 1,
           InPicture(QuarterNode(n, u, v).at)
    PROVE  LET q == QuarterNode(n, u, v) IN
           /\ q \in NodeSet /\ Sound(q) /\ q.depth = n.depth + 1
           /\ SameCell(n.depth, n.at, q.at)
           /\ Cell(n.depth + 1, q.at[1]) = 2 * Cell(n.depth, n.at[1]) + u
           /\ Cell(n.depth + 1, q.at[2]) = 2 * Cell(n.depth, n.at[2]) + v
<1> DEFINE s == sizeAt(n.depth + 1)
           x == n.at[1] + s * u
           y == n.at[2] + s * v
           q == QuarterNode(n, u, v)
<1>1. n.at \in Block /\ n.depth \in 0 .. CtbDepth - 1 /\ n.depth + 1 \in 0 .. CtbDepth
  BY Sizes DEF Sound
<1>2. n.at[1] \in Nat /\ n.at[2] \in Nat
  BY <1>1, BlockType
<1>3. n.at[1] = sizeAt(n.depth) * Cell(n.depth, n.at[1]) /\ n.at[2] = sizeAt(n.depth) * Cell(n.depth, n.at[2])
  BY NodeIs
<1>4. /\ x \in Nat /\ x % s = 0 /\ Cell(n.depth, x) = Cell(n.depth, n.at[1])
      /\ Cell(n.depth + 1, x) = 2 * Cell(n.depth, n.at[1]) + u
  BY <1>1, <1>2, <1>3, HalfAt
<1>5. /\ y \in Nat /\ y % s = 0 /\ Cell(n.depth, y) = Cell(n.depth, n.at[2])
      /\ Cell(n.depth + 1, y) = 2 * Cell(n.depth, n.at[2]) + v
  BY <1>1, <1>2, <1>3, HalfAt
<1>6. q = [at |-> <<x, y>>, depth |-> n.depth + 1]
  BY DEF QuarterNode, Node
<1> HIDE DEF x, y, q
<1>7. q.at = <<x, y>> /\ q.at[1] = x /\ q.at[2] = y /\ q.depth = n.depth + 1
  BY <1>6
<1>8. x < WidthInMinCbs /\ y < HeightInMinCbs
  BY <1>7 DEF InPicture, q
<1>9. <<x, y>> \in Block
  <2>1. WidthInMinCbs \in Nat /\ HeightInMinCbs \in Nat
    BY BlocksAssumption
  <2> QED
    BY <2>1, <1>4, <1>5, <1>8 DEF Block
<1>10. q \in NodeSet
  BY <1>1, <1>6, <1>9 DEF NodeSet
<1>11. Sound(q)
  BY <1>1, <1>4, <1>5, <1>7, <1>9 DEF Sound
<1>12. SameCell(n.depth, n.at, q.at)
  BY <1>4, <1>5, <1>7 DEF SameCell
<1> QED
  BY <1>4, <1>5, <1>7, <1>10, <1>11, <1>12 DEF q

Part(n, u, v) ==
    IF InPicture(QuarterNode(n, u, v).at) THEN <<QuarterNode(n, u, v)>> ELSE <<>>

LEMMA PartIs ==
    ASSUME NEW n, Sound(n), n.depth < CtbDepth, NEW u \in 0 .. 1, NEW v \in 0 .. 1
    PROVE  /\ Part(n, u, v) \in Seq(NodeSet) /\ Distinct(Part(n, u, v))
           /\ \A q \in Entries(Part(n, u, v)) : q = QuarterNode(n, u, v) /\ InPicture(q.at)
           /\ InPicture(QuarterNode(n, u, v).at) => QuarterNode(n, u, v) \in Entries(Part(n, u, v))
<1> DEFINE q == QuarterNode(n, u, v)
<1>1. CASE InPicture(q.at)
  <2>1. q \in NodeSet
    BY <1>1, QuarterNodeIs
  <2>2. Part(n, u, v) = <<q>>
    BY <1>1 DEF Part
  <2> HIDE DEF q
  <2>3. <<q>> \in Seq(NodeSet) /\ DOMAIN <<q>> = {1} /\ <<q>>[1] = q
    BY <2>1
  <2>4. Entries(<<q>>) = {q} /\ Distinct(<<q>>)
    BY <2>3 DEF Entries, Distinct
  <2> QED
    BY <1>1, <2>2, <2>3, <2>4 DEF q
<1>2. CASE ~InPicture(q.at)
  <2>2. Part(n, u, v) = <<>>
    BY <1>2 DEF Part
  <2> HIDE DEF q
  <2>3. <<>> \in Seq(NodeSet) /\ DOMAIN <<>> = {}
    OBVIOUS
  <2>4. Entries(<<>>) = {} /\ Distinct(<<>>)
    BY <2>3 DEF Entries, Distinct
  <2> QED
    BY <1>2, <2>2, <2>3, <2>4 DEF q
<1> QED
  BY <1>1, <1>2

LEMMA PartsApart ==
    ASSUME NEW n, Sound(n), n.depth < CtbDepth,
           NEW u \in 0 .. 1, NEW v \in 0 .. 1, NEW w \in 0 .. 1, NEW z \in 0 .. 1,
           u # w \/ v # z,
           NEW p \in Entries(Part(n, u, v)), NEW q \in Entries(Part(n, w, z))
    PROVE  p.at # q.at
<1>1. p = QuarterNode(n, u, v) /\ InPicture(p.at) /\ q = QuarterNode(n, w, z) /\ InPicture(q.at)
  BY PartIs
<1>2. /\ Cell(n.depth + 1, p.at[1]) = 2 * Cell(n.depth, n.at[1]) + u
      /\ Cell(n.depth + 1, p.at[2]) = 2 * Cell(n.depth, n.at[2]) + v
  BY <1>1, QuarterNodeIs
<1>3. /\ Cell(n.depth + 1, q.at[1]) = 2 * Cell(n.depth, n.at[1]) + w
      /\ Cell(n.depth + 1, q.at[2]) = 2 * Cell(n.depth, n.at[2]) + z
  BY <1>1, QuarterNodeIs
<1>4. n.depth \in 0 .. CtbDepth /\ n.at[1] \in Nat /\ n.at[2] \in Nat
  BY BlockType DEF Sound
<1>5. Cell(n.depth, n.at[1]) \in Nat /\ Cell(n.depth, n.at[2]) \in Nat
  BY <1>4, CellType
<1> SUFFICES ASSUME p.at = q.at PROVE FALSE
  OBVIOUS
<1>6. /\ 2 * Cell(n.depth, n.at[1]) + u = 2 * Cell(n.depth, n.at[1]) + w
      /\ 2 * Cell(n.depth, n.at[2]) + v = 2 * Cell(n.depth, n.at[2]) + z
  BY <1>2, <1>3, Zenon
<1> DEFINE x == 2 * Cell(n.depth, n.at[1])
           y == 2 * Cell(n.depth, n.at[2])
<1>7. x + u = x + w /\ y + v = y + z /\ x \in Nat /\ y \in Nat
  BY <1>5, <1>6
<1> HIDE DEF x, y
<1> QED
  BY <1>7

LEMMA QuartersJoined ==
    ASSUME NEW n, Sound(n), n.depth < CtbDepth
    PROVE  Quarters(n) = Part(n, 0, 0) \o Part(n, 1, 0) \o Part(n, 0, 1) \o Part(n, 1, 1)
<1> DEFINE A == Part(n, 0, 0)
           B == Part(n, 1, 0)
           C == Part(n, 0, 1)
           D == Part(n, 1, 1)
           s == sizeAt(n.depth + 1)
<1>1. n.at \in Block /\ n.depth \in 0 .. CtbDepth /\ n.depth + 1 \in 0 .. CtbDepth
  BY Sizes DEF Sound
<1>2. s \in Nat /\ n.at[1] \in Nat /\ n.at[2] \in Nat
  BY <1>1, Sizes, BlockType
<1>3. Quarters(n) = A \o B \o C \o D
  <2> DEFINE Q(dx, dy) ==
               IF n.at[1] + dx < WidthInMinCbs /\ n.at[2] + dy < HeightInMinCbs
               THEN <<Node(<<n.at[1] + dx, n.at[2] + dy>>, n.depth + 1)>> ELSE <<>>
  <2>1. Quarters(n) = Q(0, 0) \o Q(s, 0) \o Q(0, s) \o Q(s, s)
    BY DEF Quarters
  <2>2. ASSUME NEW u \in 0 .. 1, NEW v \in 0 .. 1 PROVE Part(n, u, v) = Q(s * u, s * v)
    <3>1. QuarterNode(n, u, v).at = <<n.at[1] + s * u, n.at[2] + s * v>>
      BY DEF QuarterNode, Node
    <3>2. InPicture(QuarterNode(n, u, v).at)
            <=> n.at[1] + s * u < WidthInMinCbs /\ n.at[2] + s * v < HeightInMinCbs
      BY <3>1 DEF InPicture
    <3>3. QuarterNode(n, u, v) = Node(<<n.at[1] + s * u, n.at[2] + s * v>>, n.depth + 1)
      BY DEF QuarterNode
    <3> QED
      BY <3>2, <3>3, Zenon DEF Part
  <2>3. s * 0 = 0 /\ s * 1 = s
    BY <1>2
  <2> HIDE DEF Q, s
  <2>4. A = Q(s * 0, s * 0) /\ B = Q(s * 1, s * 0) /\ C = Q(s * 0, s * 1) /\ D = Q(s * 1, s * 1)
    BY <2>2
  <2>5. A = Q(0, 0) /\ B = Q(s, 0) /\ C = Q(0, s) /\ D = Q(s, s)
    BY <2>3, <2>4, Zenon
  <2> QED
    BY <2>1, <2>5, Zenon
<1> QED
  BY <1>3

(* The quarters that the recursion goes on with divide the node's blocks.  *)
LEMMA QuartersAre ==
    ASSUME NEW n, Sound(n), n.depth < CtbDepth
    PROVE  /\ Quarters(n) \in Seq(NodeSet) /\ Distinct(Quarters(n))
           /\ \A q \in Entries(Quarters(n)) :
                Sound(q) /\ q.depth = n.depth + 1 /\ SameCell(n.depth, n.at, q.at)
           /\ \A b \in Block : InNode(n, b) => \E q \in Entries(Quarters(n)) : InNode(q, b)
<1> DEFINE A == Part(n, 0, 0)
           B == Part(n, 1, 0)
           C == Part(n, 0, 1)
           D == Part(n, 1, 1)
           s == sizeAt(n.depth + 1)
<1>1. n.at \in Block /\ n.depth \in 0 .. CtbDepth /\ n.depth + 1 \in 1 .. CtbDepth
      /\ n.depth + 1 \in 0 .. CtbDepth /\ (n.depth + 1) - 1 = n.depth
  BY Sizes DEF Sound
<1>2. s \in Nat /\ n.at[1] \in Nat /\ n.at[2] \in Nat
  BY <1>1, Sizes, BlockType
<1>3. Quarters(n) = A \o B \o C \o D
  BY QuartersJoined
<1>4. /\ A \in Seq(NodeSet) /\ B \in Seq(NodeSet) /\ C \in Seq(NodeSet) /\ D \in Seq(NodeSet)
      /\ Distinct(A) /\ Distinct(B) /\ Distinct(C) /\ Distinct(D)
  BY PartIs
<1>5. /\ \A x \in Entries(A), y \in Entries(B) : x.at # y.at
      /\ \A x \in Entries(A), y \in Entries(C) : x.at # y.at
      /\ \A x \in Entries(A), y \in Entries(D) : x.at # y.at
      /\ \A x \in Entries(B), y \in Entries(C) : x.at # y.at
      /\ \A x \in Entries(B), y \in Entries(D) : x.at # y.at
      /\ \A x \in Entries(C), y \in Entries(D) : x.at # y.at
  BY PartsApart
<1>6. ASSUME NEW u \in 0 .. 1, NEW v \in 0 .. 1, NEW q \in Entries(Part(n, u, v))
      PROVE  Sound(q) /\ q.depth = n.depth + 1 /\ SameCell(n.depth, n.at, q.at)
  <2>1. q = QuarterNode(n, u, v) /\ InPicture(q.at)
    BY PartIs
  <2> QED
    BY <2>1, QuarterNodeIs
<1>7. \A q \in Entries(A) \cup Entries(B) \cup Entries(C) \cup Entries(D) :
        Sound(q) /\ q.depth = n.depth + 1 /\ SameCell(n.depth, n.at, q.at)
  BY <1>6
<1>8. ASSUME NEW b \in Block, InNode(n, b)
      PROVE  \E q \in Entries(A) \cup Entries(B) \cup Entries(C) \cup Entries(D) : InNode(q, b)
  <2>1. b[1] \in Nat /\ b[2] \in Nat /\ b[1] < WidthInMinCbs /\ b[2] < HeightInMinCbs
    BY BlockType
  <2>2. Cell(n.depth, n.at[1]) = Cell(n.depth, b[1]) /\ Cell(n.depth, n.at[2]) = Cell(n.depth, b[2])
    BY <1>8 DEF InNode, SameCell
  <2> DEFINE u == Cell(n.depth + 1, b[1]) % 2
             v == Cell(n.depth + 1, b[2]) % 2
             q == QuarterNode(n, u, v)
  <2>3. /\ u \in 0 .. 1 /\ Cell(n.depth + 1, b[1]) = 2 * Cell(n.depth, b[1]) + u
        /\ Cell(n.depth + 1, b[1]) \in Nat /\ Cell(n.depth, b[1]) \in Nat
    <3> USE <1>1
    <3>1. /\ Cell(n.depth + 1, b[1]) = 2 * Cell((n.depth + 1) - 1, b[1]) + (Cell(n.depth + 1, b[1]) % 2)
          /\ Cell(n.depth + 1, b[1]) % 2 \in 0 .. 1
          /\ Cell(n.depth + 1, b[1]) \in Nat /\ Cell((n.depth + 1) - 1, b[1]) \in Nat
      BY <2>1, Halves, Zenon
    <3> QED
      BY <3>1, Zenon
  <2>4. /\ v \in 0 .. 1 /\ Cell(n.depth + 1, b[2]) = 2 * Cell(n.depth, b[2]) + v
        /\ Cell(n.depth + 1, b[2]) \in Nat /\ Cell(n.depth, b[2]) \in Nat
    <3> USE <1>1
    <3>1. /\ Cell(n.depth + 1, b[2]) = 2 * Cell((n.depth + 1) - 1, b[2]) + (Cell(n.depth + 1, b[2]) % 2)
          /\ Cell(n.depth + 1, b[2]) % 2 \in 0 .. 1
          /\ Cell(n.depth + 1, b[2]) \in Nat /\ Cell((n.depth + 1) - 1, b[2]) \in Nat
      BY <2>1, Halves, Zenon
    <3> QED
      BY <3>1, Zenon
  <2> HIDE DEF u, v
  <2>5. q.at = <<n.at[1] + s * u, n.at[2] + s * v>> /\ q.depth = n.depth + 1
    BY DEF QuarterNode, Node
  <2> HIDE DEF q
  <2>6. /\ n.at[1] + s * u = s * Cell(n.depth + 1, b[1])
        /\ n.at[2] + s * v = s * Cell(n.depth + 1, b[2])
    <3>1. /\ n.at[1] = sizeAt(n.depth) * Cell(n.depth, n.at[1])
          /\ n.at[2] = sizeAt(n.depth) * Cell(n.depth, n.at[2])
      BY NodeIs
    <3>2. sizeAt(n.depth) = 2 * s
      BY <1>1, Sizes
    <3> DEFINE x == Cell(n.depth, b[1])
               y == Cell(n.depth, b[2])
    <3>3. n.at[1] = (2 * s) * x /\ n.at[2] = (2 * s) * y
      BY <3>1, <3>2, <2>2
    <3>4. Cell(n.depth + 1, b[1]) = 2 * x + u /\ Cell(n.depth + 1, b[2]) = 2 * y + v /\ x \in Nat /\ y \in Nat
      BY <2>3, <2>4
    <3> HIDE DEF x, y, s
    <3>5. (2 * s) * x + s * u = s * (2 * x + u)
      BY <1>2, <2>3, <3>4
    <3>6. (2 * s) * y + s * v = s * (2 * y + v)
      BY <1>2, <2>4, <3>4
    <3> QED
      BY <3>3, <3>4, <3>5, <3>6
  <2>7. s * Cell(n.depth + 1, b[1]) <= b[1] /\ s * Cell(n.depth + 1, b[2]) <= b[2]
        /\ s * Cell(n.depth + 1, b[1]) \in Nat /\ s * Cell(n.depth + 1, b[2]) \in Nat
    BY <1>1, <2>1, CellType
  <2>8. InPicture(q.at)
    <3>1. WidthInMinCbs \in Nat /\ HeightInMinCbs \in Nat
      BY BlocksAssumption
    <3>2. q.at[1] = s * Cell(n.depth + 1, b[1]) /\ q.at[2] = s * Cell(n.depth + 1, b[2])
      BY <2>5, <2>6
    <3> DEFINE x == s * Cell(n.depth + 1, b[1])
               y == s * Cell(n.depth + 1, b[2])
    <3>3. x \in Nat /\ y \in Nat /\ x <= b[1] /\ y <= b[2] /\ q.at[1] = x /\ q.at[2] = y
      BY <2>7, <3>2
    <3> HIDE DEF x, y
    <3> QED
      BY <2>1, <3>1, <3>3 DEF InPicture
  <2>9. q \in Entries(Part(n, u, v))
    BY <2>3, <2>4, <2>8, PartIs DEF q
  <2>10. /\ Cell(n.depth + 1, q.at[1]) = 2 * Cell(n.depth, n.at[1]) + u
         /\ Cell(n.depth + 1, q.at[2]) = 2 * Cell(n.depth, n.at[2]) + v
    BY <2>3, <2>4, <2>8, QuarterNodeIs DEF q
  <2>11. InNode(q, b)
    BY <2>2, <2>3, <2>4, <2>5, <2>10 DEF InNode, SameCell
  <2>12. (u = 0 \/ u = 1) /\ (v = 0 \/ v = 1)
    BY <2>3, <2>4
  <2>13. q \in Entries(A) \cup Entries(B) \cup Entries(C) \cup Entries(D)
    BY <2>9, <2>12
  <2> QED
    BY <2>11, <2>13
<1> HIDE DEF A, B, C, D
<1>9. /\ A \o B \in Seq(NodeSet) /\ Entries(A \o B) = Entries(A) \cup Entries(B) /\ Distinct(A \o B)
  BY <1>4, <1>5, JoinIs
<1> DEFINE E == A \o B
<1>10. E \in Seq(NodeSet) /\ Entries(E) = Entries(A) \cup Entries(B) /\ Distinct(E)
  BY <1>9
<1> HIDE DEF E
<1>11. \A x \in Entries(E), y \in Entries(C) : x.at # y.at
  BY <1>5, <1>10
<1>12. /\ E \o C \in Seq(NodeSet) /\ Entries(E \o C) = Entries(E) \cup Entries(C) /\ Distinct(E \o C)
  BY <1>4, <1>10, <1>11, JoinIs
<1> DEFINE F == E \o C
<1>13. F \in Seq(NodeSet) /\ Entries(F) = Entries(A) \cup Entries(B) \cup Entries(C) /\ Distinct(F)
  BY <1>10, <1>12
<1> HIDE DEF F
<1>14. \A x \in Entries(F), y \in Entries(D) : x.at # y.at
  BY <1>5, <1>13
<1>15. /\ F \o D \in Seq(NodeSet) /\ Entries(F \o D) = Entries(F) \cup Entries(D) /\ Distinct(F \o D)
  BY <1>4, <1>13, <1>14, JoinIs
<1>16. Quarters(n) = F \o D
  BY <1>3 DEF E, F
<1>17. Entries(Quarters(n)) = Entries(A) \cup Entries(B) \cup Entries(C) \cup Entries(D)
  BY <1>13, <1>15, <1>16, Zenon
<1> QED
  BY <1>7, <1>8, <1>15, <1>16, <1>17, Zenon

-------------------------------------------------------------------------------
(* The steps.  Addresses are the layout's, which no step changes.          *)
LEMMA AddrsKept ==
    ASSUME layout' = layout
    PROVE  \A b : addrInTs(b)' = addrInTs(b)
BY DEF addrInTs, geo, toAddrInRs, toCtb

LEMMA CodedKept ==
    ASSUME layout' = layout, NEW c, Coded(c), Len(ctus') >= Len(ctus),
           Len(ctus) \in Nat, Len(ctus') \in Nat, layout \in Layouts,
           \A b \in Block : InNode(c, b) /\ Leaf(TreeOf(b), b, c.depth)
                              => Leaf(ctus'[addrInTs(b) + 1], b, c.depth)
    PROVE  Coded(c)'
<1>1. \A b : addrInTs(b)' = addrInTs(b) /\ TreeOf(b)' = ctus'[addrInTs(b) + 1]
  BY AddrsKept DEF TreeOf
<1>2. Sound(c) /\ addrInTs(c.at) < Len(ctus)
      /\ c.at[1] + sizeAt(c.depth) <= WidthInMinCbs
      /\ c.at[2] + sizeAt(c.depth) <= HeightInMinCbs
      /\ \A b \in Block : InNode(c, b) => Leaf(TreeOf(b), b, c.depth)
  BY DEF Coded
<1>3. addrInTs(c.at) \in Addr
  BY <1>2, AddrOf DEF Sound
<1>4. addrInTs(c.at) < Len(ctus')
  BY <1>2, <1>3, SizeType DEF Addr
<1>5. \A b \in Block : InNode(c, b) => Leaf(TreeOf(b)', b, c.depth)
  BY <1>1, <1>2
<1>6. addrInTs(c.at)' < Len(ctus')
  BY <1>1, <1>4
<1> QED
  BY <1>2, <1>5, <1>6 DEF Coded

LEMMA ToDoKept ==
    ASSUME layout' = layout, NEW n, ToDo(n), Len(ctus') = Len(ctus),
           \A b \in Block : InNode(n, b) /\ Begun(TreeOf(b), b, n.depth)
                              => Begun(ctus'[addrInTs(b) + 1], b, n.depth)
    PROVE  ToDo(n)'
<1>1. \A b : addrInTs(b)' = addrInTs(b) /\ TreeOf(b)' = ctus'[addrInTs(b) + 1]
  BY AddrsKept DEF TreeOf
<1>2. Sound(n) /\ addrInTs(n.at) + 1 = Len(ctus)
      /\ \A b \in Block : InNode(n, b) => Begun(TreeOf(b), b, n.depth)
  BY DEF ToDo
<1>3. \A b \in Block : InNode(n, b) => Begun(TreeOf(b)', b, n.depth)
  BY <1>1, <1>2
<1>4. addrInTs(n.at)' + 1 = Len(ctus')
  BY <1>1, <1>2
<1> QED
  BY <1>2, <1>3, <1>4 DEF ToDo

LEMMA CtusType ==
    ASSUME KindsInv
    PROVE  /\ Len(ctus) \in Nat /\ DOMAIN ctus = 1 .. Len(ctus)
           /\ layout \in Layouts /\ Len(ctus) <= Width * Height /\ Width * Height \in Nat
<1>1. ctus \in Seq(Entries(ctus)) /\ layout \in Layouts /\ Len(ctus) <= Width * Height
  BY DEF KindsInv
<1>2. Width * Height \in Nat
  BY SizeType
<1> QED
  BY <1>1, <1>2

(* A sequence is one of its entries.                                       *)
LEMMA SequenceOf ==
    ASSUME NEW S, NEW s \in Seq(S)
    PROVE  s \in Seq(Entries(s))
<1>1. s = [i \in 1 .. Len(s) |-> s[i]] /\ Len(s) \in Nat /\ DOMAIN s = 1 .. Len(s)
  OBVIOUS
<1>2. \A i \in 1 .. Len(s) : s[i] \in Entries(s)
  BY <1>1 DEF Entries
<1> HIDE DEF Entries
<1> DEFINE E == Entries(s)
<1> HIDE DEF E
<1>3. \A i \in 1 .. Len(s) : s[i] \in E
  BY <1>2 DEF E
<1>4. s \in Seq(E)
  BY <1>1, <1>3
<1> QED
  BY <1>4 DEF E

LEMMA InitCovered == Init => TreeInv
<1> SUFFICES ASSUME Init PROVE TreeInv
  OBVIOUS
<1>1. /\ layout \in Layouts /\ ctus = <<>> /\ pending = <<>> /\ cu = NoCu
      /\ enc.cus = <<>> /\ "cus" \in DOMAIN enc
  BY DEF Init
<1>2. /\ DOMAIN ctus = {} /\ DOMAIN pending = {} /\ DOMAIN enc.cus = {} /\ Len(ctus) = 0
      /\ ctus \in Seq(Entries(ctus)) /\ enc.cus \in Seq(Entries(enc.cus))
      /\ pending \in Seq([at : Block, depth : 0 .. CtbDepth])
  BY <1>1
<1>3. {"at", "depth", "open"} \subseteq DOMAIN cu /\ cu.open = FALSE
  BY <1>1 DEF NoCu
<1>4. Len(ctus) <= Width * Height
  <2> DEFINE w == Width * Height
  <2>1. w \in Nat
    BY SizeType
  <2> HIDE DEF w
  <2>2. 0 <= w
    BY <2>1
  <2> QED
    BY <1>2, <2>2 DEF w
<1>5. KindsInv
  BY <1>1, <1>2, <1>3, <1>4, Zenon DEF KindsInv
<1>6. NodesInv
  BY <1>2, <1>3 DEF NodesInv
<1>7. \A b \in Block : addrInTs(b) \in Addr
  BY <1>1, AddrOf
<1>8. HeldInv
  BY <1>2, <1>7, SizeType DEF HeldInv, Addr
<1>9. TreesInv
  BY <1>2 DEF TreesInv
<1> QED
  BY <1>5, <1>6, <1>8, <1>9 DEF TreeInv

(* The root of a coding tree unit.                                         *)
LEMMA RootIs ==
    ASSUME layout \in Layouts, NEW ts \in Addr
    PROVE  LET n == Node(toBlock(toCoord(geo.toRs[ts])), 0) IN
           /\ n \in NodeSet /\ Sound(n) /\ addrInTs(n.at) = ts /\ n.depth = 0
<1> DEFINE u == toCoord(geo.toRs[ts])
           n == Node(toBlock(u), 0)
           s == CtbSize
<1>1. /\ geo.toRs \in [Addr -> Addr] /\ geo.toTs[geo.toRs[ts]] = ts
  BY Tables DEF ScanTables
<1>2. u \in Coord /\ toAddrInRs(u) = geo.toRs[ts]
  BY <1>1, CoordType
<1>3. s \in Nat /\ s > 0 /\ 0 \in 0 .. CtbDepth /\ s = sizeAt(0)
  BY Sizes DEF CtbSize
<1>4. n = [at |-> <<u[1] * s, u[2] * s>>, depth |-> 0]
  BY DEF Node, toBlock
<1> HIDE DEF n, s
<1>5. n.at[1] = u[1] * s /\ n.at[2] = u[2] * s /\ n.depth = 0 /\ n.at = <<u[1] * s, u[2] * s>>
  BY <1>4
<1> HIDE DEF u
<1>6. u[1] \in Nat /\ u[2] \in Nat /\ u[1] <= Width - 1 /\ u[2] <= Height - 1 /\ u = <<u[1], u[2]>>
  BY <1>2, CoordIsPair
<1>7. ASSUME NEW k \in Nat, NEW size \in Nat, NEW w \in Nat, w = (size + s - 1) \div s, k <= w - 1,
             size > 0
      PROVE  k * s \in Nat /\ k * s < size
  <2> DEFINE y == size + s - 1
             q == y \div s
             r == y % s
  <2>1. y \in Nat
    BY <1>3
  <2>2. q \in Nat /\ r \in Nat /\ y = s * q + r
    <3> HIDE DEF y
    <3> QED
      BY <2>1, <1>3, DivBounds, Zenon
  <2>3. w = q /\ y = size + s - 1
    BY <1>7
  <2> HIDE DEF y, q, r
  <2>4. (k + 1) * s <= q * s
    <3>1. k + 1 <= q /\ k + 1 \in Int /\ q \in Int
      BY <2>2, <2>3, <1>7
    <3> QED
      BY <3>1, <1>3, ProductMonotone
  <2>5. (k + 1) * s = k * s + s /\ q * s = s * q /\ k * s \in Nat /\ s * q \in Nat
    BY <1>3, <2>2
  <2> DEFINE v == k * s
             z == s * q
  <2>6. v + s <= z /\ v \in Nat /\ z \in Nat /\ size + s - 1 = z + r
    BY <2>2, <2>3, <2>4, <2>5
  <2> HIDE DEF v, z
  <2>7. v < size
    BY <2>2, <2>6, <1>3
  <2> QED
    BY <2>6, <2>7 DEF v
<1>8. /\ WidthInMinCbs \in Nat /\ WidthInMinCbs > 0 /\ Width = (WidthInMinCbs + s - 1) \div s
      /\ HeightInMinCbs \in Nat /\ HeightInMinCbs > 0 /\ Height = (HeightInMinCbs + s - 1) \div s
  BY BlocksAssumption DEF s
<1>9. u[1] * s \in Nat /\ u[1] * s < WidthInMinCbs
  BY <1>6, <1>7, <1>8, SizeType
<1>10. u[2] * s \in Nat /\ u[2] * s < HeightInMinCbs
  BY <1>6, <1>7, <1>8, SizeType
<1>11. n.at \in Block
  BY <1>5, <1>8, <1>9, <1>10 DEF Block
<1>12. ASSUME NEW k \in Nat PROVE (k * s) % s = 0 /\ Cell(0, k * s) = k
  <2> DEFINE y == k * s
             q == y \div s
             r == y % s
  <2>1. y \in Nat /\ s * k = y
    BY <1>3
  <2>2. q \in Nat /\ r \in Nat /\ y = s * q + r
    <3> HIDE DEF y
    <3> QED
      BY <2>1, <1>3, DivBounds, Zenon
  <2>3. q = k
    <3>1. s * k <= y /\ y < s * k + s
      BY <2>1, <1>3
    <3> HIDE DEF y
    <3> QED
      BY <2>1, <3>1, <1>3, DivUnique, Zenon
  <2>4. r = 0
    <3>1. y = s * k + r
      BY <2>2, <2>3
    <3> HIDE DEF y, r, q
    <3> QED
      BY <2>1, <2>2, <3>1
  <2> QED
    BY <2>3, <2>4, <1>3 DEF Cell
<1>13. Sound(n)
  BY <1>3, <1>5, <1>6, <1>11, <1>12 DEF Sound
<1>14. toCtb(n.at) = u
  <2>1. toCtb(n.at) = <<Cell(0, n.at[1]), Cell(0, n.at[2])>>
    BY <1>11, UnitOf
  <2>2. Cell(0, n.at[1]) = u[1] /\ Cell(0, n.at[2]) = u[2]
    BY <1>5, <1>6, <1>12
  <2> QED
    BY <2>1, <2>2, <1>6
<1>15. addrInTs(n.at) = ts
  BY <1>1, <1>2, <1>14 DEF addrInTs
<1>16. n \in NodeSet
  <2>1. <<u[1] * s, u[2] * s>> \in Block
    BY <1>5, <1>11
  <2> QED
    BY <1>3, <1>4, <2>1 DEF NodeSet
<1> QED
  BY <1>5, <1>13, <1>15, <1>16 DEF n, u

(* A tree index's path, and its entries, in the next state.                *)
LEMMA OnPathKept ==
    ASSUME layout' = layout
    PROVE  \A i, t : OnPath(i, t) => OnPath(i, t)'
<1>1. \A b : addrInTs(b)' = addrInTs(b)
  BY AddrsKept
<1> QED
  BY <1>1 DEF OnPath

LEMMA NodesNext ==
    ASSUME \A n \in Entries(pending') : ToDo(n)', \A c \in Entries(enc'.cus) : Coded(c)',
           Distinct(pending'), Distinct(enc'.cus),
           cu'.open => /\ Coded(cu)' /\ (addrInTs(cu.at) + 1 = Len(ctus))'
                       /\ \A c \in Entries(enc'.cus) : c.at # cu'.at
    PROVE  NodesInv'
<1>1. \A i \in DOMAIN pending' : ToDo(pending[i])'
  <2>1. ASSUME NEW i \in DOMAIN pending' PROVE ToDo(pending[i])'
    <3>1. PICK n : n = pending'[i]
      OBVIOUS
    <3>2. ToDo(n)'
      BY <3>1 DEF Entries
    <3> QED
      BY <3>1, <3>2
  <2> QED
    BY <2>1
<1>2. \A i \in DOMAIN enc'.cus : Coded(enc.cus[i])'
  <2>1. ASSUME NEW i \in DOMAIN enc'.cus PROVE Coded(enc.cus[i])'
    <3>1. PICK c : c = enc'.cus[i]
      OBVIOUS
    <3>2. Coded(c)'
      BY <3>1 DEF Entries
    <3> QED
      BY <3>1, <3>2
  <2> QED
    BY <2>1
<1>3. cu'.open => \A i \in DOMAIN enc'.cus : enc'.cus[i].at # cu'.at
  BY DEF Entries
<1> QED
  BY <1>1, <1>2, <1>3 DEF NodesInv, Distinct

LEMMA NodesNow ==
    ASSUME NodesInv
    PROVE  /\ \A n \in Entries(pending) : ToDo(n)
           /\ \A c \in Entries(enc.cus) : Coded(c)
           /\ Distinct(pending) /\ Distinct(enc.cus)
           /\ cu.open => \A c \in Entries(enc.cus) : c.at # cu.at
BY DEF NodesInv, Entries, Distinct

LEMMA HeldIs ==
    ASSUME NEW b
    PROVE  /\ Held(b) <=> \/ \E n \in Entries(pending) : InNode(n, b)
                          \/ cu.open /\ InNode(cu, b)
                          \/ \E c \in Entries(enc.cus) : InNode(c, b)
           /\ Held(b)' <=> \/ \E n \in Entries(pending') : InNode(n, b)
                           \/ cu'.open /\ InNode(cu', b)
                           \/ \E c \in Entries(enc'.cus) : InNode(c, b)
BY DEF Held, Entries

LEMMA UnitCovered ==
    ASSUME TreeInv, CodingTreeUnit
    PROVE  TreeInv'
<1> DEFINE N == Len(ctus)
<1>0. PICK r : r = Node(toBlock(toCoord(geo.toRs[N])), 0)
  OBVIOUS
<1>1. /\ pending = <<>> /\ ~cu.open /\ N < Width * Height
      /\ ctus' = Append(ctus, EmptyTree) /\ pending' = <<r>>
      /\ layout' = layout /\ cu' = cu /\ enc' = enc
  BY <1>0 DEF CodingTreeUnit
<1>2. /\ N \in Nat /\ DOMAIN ctus = 1 .. N /\ layout \in Layouts /\ Width * Height \in Nat
      /\ ctus \in Seq(Entries(ctus))
  BY CtusType DEF TreeInv, KindsInv
<1>3. /\ Len(ctus') = N + 1 /\ ctus'[N + 1] = EmptyTree /\ DOMAIN ctus' = 1 .. N + 1
      /\ \A t \in 1 .. N : ctus'[t] = ctus[t]
      /\ ctus' \in Seq(Entries(ctus) \cup {EmptyTree})
  <2>1. EmptyTree \in Entries(ctus) \cup {EmptyTree} /\ ctus \in Seq(Entries(ctus) \cup {EmptyTree})
    BY <1>2
  <2> QED
    BY <2>1, <1>1, <1>2
<1>4. N \in Addr
  <2> DEFINE w == Width * Height
  <2>1. N < w /\ w \in Nat
    BY <1>1, <1>2
  <2> HIDE DEF w, N
  <2>2. N \in 0 .. w - 1
    BY <2>1, <1>2
  <2> QED
    BY <2>2 DEF Addr, w
<1>5. r \in NodeSet /\ Sound(r) /\ addrInTs(r.at) = N /\ r.depth = 0
  BY <1>0, <1>2, <1>4, RootIs
<1>6. \A b : addrInTs(b)' = addrInTs(b) /\ TreeOf(b)' = ctus'[addrInTs(b) + 1]
  BY <1>1, AddrsKept DEF TreeOf
<1>7. \A b \in Block : addrInTs(b) \in Nat
  BY <1>2, AddrOf, SizeType DEF Addr
<1>8. ASSUME NEW c, Coded(c) PROVE Coded(c)'
  <2>1. ASSUME NEW b \in Block, InNode(c, b), Leaf(TreeOf(b), b, c.depth)
        PROVE  Leaf(ctus'[addrInTs(b) + 1], b, c.depth)
    <3>1. addrInTs(c.at) = addrInTs(b) /\ addrInTs(c.at) < N
      BY <2>1, <1>8, <1>2, NodeUnit DEF Coded
    <3>2. addrInTs(b) + 1 \in 1 .. N
      BY <3>1, <1>7, <1>2
    <3>3. ctus'[addrInTs(b) + 1] = TreeOf(b)
      BY <3>2, <1>3 DEF TreeOf
    <3> QED
      BY <2>1, <3>3
  <2>2. Len(ctus') >= Len(ctus) /\ Len(ctus') \in Nat
    BY <1>3, <1>2
  <2> QED
    BY <2>1, <2>2, <1>8, <1>1, <1>2, CodedKept
<1>9. ToDo(r)'
  <2>1. ASSUME NEW b \in Block, InNode(r, b) PROVE Begun(TreeOf(b)', b, 0)
    <3>1. addrInTs(b) = N
      BY <2>1, <1>2, <1>5, NodeUnit
    <3>2. TreeOf(b)' = EmptyTree
      BY <3>1, <1>3, <1>6
    <3>3. Begun(EmptyTree, b, 0)
      BY Sizes DEF Begun, EmptyTree
    <3> QED
      BY <3>2, <3>3
  <2>2. Sound(r) /\ addrInTs(r.at) + 1 = N + 1 /\ \A b \in Block : InNode(r, b) => Begun(TreeOf(b)', b, r.depth)
    BY <2>1, <1>5
  <2>3. addrInTs(r.at)' + 1 = Len(ctus')
    BY <2>2, <1>3, <1>6
  <2> QED
    BY <2>2, <2>3 DEF ToDo
<1>10. Entries(pending') = {r} /\ Distinct(pending') /\ pending' \in Seq(NodeSet)
  BY <1>1, <1>5 DEF Entries, Distinct
<1>11. NodesInv'
  BY <1>1, <1>8, <1>9, <1>10, NodesNow, NodesNext DEF TreeInv
<1>12. KindsInv'
  <2>1. ctus' \in Seq(Entries(ctus'))
    BY <1>3, SequenceOf
  <2>2. Len(ctus') <= Width * Height
    <3> DEFINE w == Width * Height
    <3>1. N < w /\ w \in Nat
      BY <1>1, <1>2
    <3> HIDE DEF w, N
    <3>2. N + 1 <= w
      BY <3>1, <1>2
    <3> QED
      BY <3>2, <1>3 DEF w
  <2> QED
    BY <1>1, <1>10, <2>1, <2>2 DEF TreeInv, KindsInv, NodeSet
<1>13. HeldInv'
  <2>1. ASSUME NEW b \in Block, addrInTs(b) < N + 1 PROVE Held(b)'
    <3>1. CASE addrInTs(b) < N
      <4>1. Held(b)
        BY <3>1 DEF TreeInv, HeldInv
      <4>2. Entries(pending) = {}
        BY <1>1 DEF Entries
      <4> QED
        BY <4>1, <4>2, <1>1, HeldIs
    <3>2. CASE addrInTs(b) = N
      <4>1. r.at \in Block
        BY <1>5 DEF Sound
      <4>2. SameCell(0, r.at, b)
        BY <4>1, <3>2, <1>2, <1>5, AddrOf
      <4> QED
        BY <4>2, <1>5, <1>10, HeldIs DEF InNode
    <3> QED
      BY <2>1, <3>1, <3>2, <1>2, <1>7
  <2> QED
    BY <2>1, <1>3, <1>6 DEF HeldInv
<1>14. TreesInv'
  <2>1. ASSUME NEW t \in DOMAIN ctus', NEW i \in DOMAIN ctus'[t]
        PROVE  {"depth", "split"} \subseteq DOMAIN ctus'[t][i] /\ OnPath(i, t)'
    <3>1. t \in 1 .. N
      BY <2>1, <1>2, <1>3 DEF EmptyTree
    <3>2. ctus'[t] = ctus[t] /\ t \in DOMAIN ctus
      BY <3>1, <1>2, <1>3
    <3>3. {"depth", "split"} \subseteq DOMAIN ctus[t][i] /\ OnPath(i, t)
      BY <3>2, <2>1 DEF TreeInv, TreesInv
    <3> QED
      BY <3>2, <3>3, <1>1, OnPathKept
  <2> QED
    BY <2>1 DEF TreesInv
<1> QED
  BY <1>11, <1>12, <1>13, <1>14 DEF TreeInv

(* A node of the recursion is appended to its unit's tree.                 *)
AppendedNode(n, split) == [depth |-> n.depth, split |-> split, qpY |-> {}, offset |-> {}]

LEMMA AppendIs ==
    ASSUME TreeInv, pending # <<>>, NEW n, n = Head(pending),
           NEW split \in BOOLEAN, AppendNode(n, split)
    PROVE  LET N == Len(ctus)
               next == With(ctus[N], IndexPath(n.at)[n.depth], AppendedNode(n, split))
           IN  /\ N \in 1 .. N /\ TreeOf(n.at) = ctus[N] /\ Begun(ctus[N], n.at, n.depth)
               /\ Len(ctus') = N /\ DOMAIN ctus' = 1 .. N /\ ctus'[N] = next
               /\ \A t \in 1 .. N : t # N => ctus'[t] = ctus[t]
               /\ ctus' \in Seq(Entries(ctus) \cup {next})
<1> DEFINE N == Len(ctus)
           tree == ctus[N]
           node == AppendedNode(n, split)
           i == IndexPath(n.at)[n.depth]
           next == With(tree, i, node)
<1>1. /\ N \in Nat /\ DOMAIN ctus = 1 .. N /\ layout \in Layouts
      /\ ctus \in Seq(Entries(ctus)) /\ pending \in Seq(NodeSet)
  BY CtusType DEF TreeInv, KindsInv, NodeSet
<1>2. n \in NodeSet /\ n \in Entries(pending)
  BY <1>1, TailIs, Zenon
<1>3. ToDo(n)
  BY <1>2, NodesNow DEF TreeInv
<1>4. /\ Sound(n) /\ addrInTs(n.at) + 1 = N /\ n.at \in Block /\ n.depth \in 0 .. CtbDepth
      /\ \A b \in Block : InNode(n, b) => Begun(TreeOf(b), b, n.depth)
  BY <1>3 DEF ToDo, Sound
<1>5. N \in 1 .. N /\ TreeOf(n.at) = tree
  <2>1. addrInTs(n.at) \in Nat
    BY <1>1, <1>4, AddrOf, SizeType DEF Addr
  <2> HIDE DEF tree, N
  <2>2. N \in 1 .. N
    BY <1>1, <1>4, <2>1
  <2> QED
    BY <2>2, <1>4 DEF TreeOf, tree, N
<1>6. Begun(tree, n.at, n.depth)
  BY <1>4, <1>5, NodeIs
<1>7. ctus' = [ctus EXCEPT ![N] = next]
  <2>1. ctus' = [ctus EXCEPT ![N] = Appended(Levels, tree, offsetInCtb(n.at), node)]
    BY Zenon DEF AppendNode, AppendedNode
  <2>2. Appended(Levels, tree, offsetInCtb(n.at), node) = next
    <3> HIDE DEF tree, node
    <3>1. Appended(Levels, tree, offsetInCtb(n.at), node)
            = [j \in DOMAIN tree \cup {IndexPath(n.at)[n.depth]} |->
                 IF j = IndexPath(n.at)[n.depth] THEN node ELSE tree[j]]
      <4>1. n.at \in Block /\ n.depth \in 0 .. CtbDepth
        BY <1>4
      <4>2. toEmptyIndex(Levels, tree, offsetInCtb(n.at)) = IndexPath(n.at)[n.depth]
        BY <4>1, <1>6, EmptyIndexIs, Zenon
      <4> QED
        BY <4>2, Zenon DEF Appended
    <3> QED
      BY <3>1 DEF With
  <2> QED
    BY <2>1, <2>2, Zenon
<1> HIDE DEF next, tree, node, i
<1>8. /\ Len(ctus') = N /\ DOMAIN ctus' = 1 .. N /\ ctus'[N] = next
      /\ \A t \in 1 .. N : t # N => ctus'[t] = ctus[t]
      /\ ctus' \in Seq(Entries(ctus) \cup {next})
  <2> DEFINE S == Entries(ctus) \cup {next}
  <2>1. ctus \in Seq(S) /\ next \in S
    BY <1>1
  <2> HIDE DEF S
  <2>2. ctus' \in Seq(S) /\ Len(ctus') = N /\ DOMAIN ctus' = 1 .. N
    BY <2>1, <1>5, <1>7
  <2>3. ctus'[N] = next /\ \A t \in 1 .. N : t # N => ctus'[t] = ctus[t]
    BY <1>1, <1>5, <1>7
  <2> QED
    BY <2>2, <2>3 DEF S
<1> QED
  BY <1>5, <1>6, <1>8 DEF next, tree, node, i

(* A node of the recursion enters the tree: the paths to its blocks grow   *)
(* by it, and no other path changes.                                       *)
LEMMA AppendStep ==
    ASSUME TreeInv, pending # <<>>, layout' = layout, NEW n, n = Head(pending),
           NEW split \in BOOLEAN, AppendNode(n, split)
    PROVE  /\ ToDo(n) /\ n \in NodeSet /\ n \in Entries(pending)
           /\ Len(ctus') = Len(ctus) /\ ctus' \in Seq(Entries(ctus'))
           /\ \A c : Coded(c) => Coded(c)'
           /\ \A m : ToDo(m) /\ m.at # n.at => ToDo(m)'
           /\ TreesInv'
           /\ \A b \in Block : InNode(n, b) =>
                /\ split /\ n.depth < CtbDepth => Begun(TreeOf(b)', b, n.depth + 1)
                /\ ~split => Leaf(TreeOf(b)', b, n.depth)
<1> DEFINE N == Len(ctus)
           tree == ctus[N]
           node == AppendedNode(n, split)
           i == IndexPath(n.at)[n.depth]
           next == With(tree, i, node)
<1>1. /\ N \in Nat /\ DOMAIN ctus = 1 .. N /\ layout \in Layouts
      /\ ctus \in Seq(Entries(ctus)) /\ pending \in Seq(NodeSet)
  BY CtusType DEF TreeInv, KindsInv, NodeSet
<1>2. n \in NodeSet /\ n \in Entries(pending)
  BY <1>1, TailIs, Zenon
<1>3. ToDo(n)
  BY <1>2, NodesNow DEF TreeInv
<1>4. /\ Sound(n) /\ addrInTs(n.at) + 1 = N /\ n.at \in Block /\ n.depth \in 0 .. CtbDepth
      /\ \A b \in Block : InNode(n, b) => Begun(TreeOf(b), b, n.depth)
  BY <1>3 DEF ToDo, Sound
<1>5. /\ N \in 1 .. N /\ TreeOf(n.at) = tree /\ Begun(tree, n.at, n.depth)
      /\ Len(ctus') = N /\ DOMAIN ctus' = 1 .. N /\ ctus'[N] = next
      /\ \A t \in 1 .. N : t # N => ctus'[t] = ctus[t]
      /\ ctus' \in Seq(Entries(ctus) \cup {next})
  BY AppendIs
<1>6. Begun(tree, n.at, n.depth)
  BY <1>5
<1>8. /\ Len(ctus') = N /\ DOMAIN ctus' = 1 .. N /\ ctus'[N] = next
      /\ \A t \in 1 .. N : t # N => ctus'[t] = ctus[t]
      /\ ctus' \in Seq(Entries(ctus) \cup {next})
  BY <1>5
<1> HIDE DEF next, tree, node, i
<1>9. \A b : addrInTs(b)' = addrInTs(b) /\ TreeOf(b)' = ctus'[addrInTs(b) + 1]
  BY AddrsKept DEF TreeOf
<1>10. ASSUME NEW b \in Block
       PROVE  /\ addrInTs(b) \in Nat
              /\ addrInTs(b) + 1 = N => SameCell(0, n.at, b) /\ TreeOf(b) = tree /\ ctus'[addrInTs(b) + 1] = next
              /\ addrInTs(b) + 1 # N /\ addrInTs(b) < N => ctus'[addrInTs(b) + 1] = TreeOf(b)
  <2>1. addrInTs(b) \in Nat /\ addrInTs(n.at) \in Nat
    BY <1>1, <1>4, AddrOf, SizeType DEF Addr
  <2>2. addrInTs(b) + 1 = N => SameCell(0, n.at, b)
    <3>1. addrInTs(b) + 1 = N => addrInTs(n.at) = addrInTs(b)
      BY <2>1, <1>4
    <3> QED
      BY <3>1, <1>1, <1>4, AddrOf
  <2>3. addrInTs(b) + 1 # N /\ addrInTs(b) < N => addrInTs(b) + 1 \in 1 .. N
    BY <2>1, <1>1
  <2> QED
    BY <2>1, <2>2, <2>3, <1>8 DEF TreeOf, tree
<1>11. ASSUME NEW b \in Block, InNode(n, b)
       PROVE  /\ split /\ n.depth < CtbDepth => Begun(TreeOf(b)', b, n.depth + 1)
              /\ ~split => Leaf(TreeOf(b)', b, n.depth)
  <2>1. SameCell(n.depth, n.at, b) /\ SameCell(0, n.at, b) /\ addrInTs(n.at) = addrInTs(b)
    BY <1>1, <1>4, <1>11, NodeUnit DEF InNode
  <2>2. TreeOf(b) = tree /\ TreeOf(b)' = next
    BY <2>1, <1>4, <1>9, <1>10
  <2>3. Begun(tree, b, n.depth)
    BY <2>2, <1>4, <1>11
  <2>4. node.split = split /\ node.depth = n.depth
    BY DEF node, AppendedNode
  <2> QED
    BY <2>1, <2>2, <2>3, <2>4, <1>4, WithHere DEF next, i
<1>12. ASSUME NEW c, Coded(c) PROVE Coded(c)'
  <2>1. ASSUME NEW b \in Block, InNode(c, b), Leaf(TreeOf(b), b, c.depth)
        PROVE  Leaf(ctus'[addrInTs(b) + 1], b, c.depth)
    <3>1. addrInTs(c.at) = addrInTs(b) /\ addrInTs(c.at) < N /\ c.depth \in 0 .. CtbDepth
      BY <2>1, <1>12, <1>1, NodeUnit DEF Coded, Sound
    <3>2. CASE addrInTs(b) + 1 # N
      BY <3>1, <3>2, <2>1, <1>10
    <3>3. CASE addrInTs(b) + 1 = N
      <4>1. SameCell(0, n.at, b) /\ TreeOf(b) = tree /\ ctus'[addrInTs(b) + 1] = next
        BY <3>3, <1>10
      <4>2. ~SameCell(n.depth, n.at, b)
        <5> SUFFICES ASSUME SameCell(n.depth, n.at, b) PROVE FALSE
          OBVIOUS
        <5>1. Begun(TreeOf(b), b, n.depth)
          BY <1>4 DEF InNode
        <5> QED
          BY <5>1, <2>1, <3>1, <1>4, Exclusive
      <4>3. Leaf(next, b, c.depth)
        BY <2>1, <3>1, <4>1, <4>2, <1>4, WithElsewhere DEF next, i
      <4> QED
        BY <4>1, <4>3
    <3> QED
      BY <3>2, <3>3
  <2>2. Len(ctus') >= Len(ctus) /\ Len(ctus') \in Nat
    <3>1. Len(ctus') = N /\ N \in Nat
      BY <1>1, <1>8
    <3> HIDE DEF N
    <3>2. Len(ctus') >= N
      BY <3>1
    <3> QED
      BY <3>1, <3>2 DEF N
  <2> QED
    BY <2>1, <2>2, <1>12, <1>1, CodedKept
<1>13. ASSUME NEW m, ToDo(m), m.at # n.at PROVE ToDo(m)'
  <2>1. ASSUME NEW b \in Block, InNode(m, b), Begun(TreeOf(b), b, m.depth)
        PROVE  Begun(ctus'[addrInTs(b) + 1], b, m.depth)
    <3>1. Sound(m) /\ addrInTs(m.at) + 1 = N /\ m.depth \in 0 .. CtbDepth /\ m.at \in Block
      BY <1>13 DEF ToDo, Sound
    <3>2. addrInTs(m.at) = addrInTs(b)
      BY <2>1, <3>1, <1>1, NodeUnit
    <3>3. SameCell(0, n.at, b) /\ TreeOf(b) = tree /\ ctus'[addrInTs(b) + 1] = next
      BY <3>1, <3>2, <1>10
    <3>4. ~SameCell(n.depth, n.at, b)
      <4> SUFFICES ASSUME SameCell(n.depth, n.at, b) PROVE FALSE
        OBVIOUS
      <4>1. InNode(n, b)
        BY DEF InNode
      <4>2. Begun(TreeOf(b), b, n.depth)
        BY <4>1, <1>4
      <4>3. m.depth = n.depth
        BY <4>2, <2>1, <3>1, <1>4, Exclusive
      <4>4. m.at = n.at
        BY <4>1, <4>3, <2>1, <3>1, <1>4, NodeUnique
      <4> QED
        BY <4>4, <1>13
    <3>5. Begun(next, b, m.depth)
      BY <2>1, <3>1, <3>3, <3>4, <1>4, WithElsewhere DEF next, i
    <3> QED
      BY <3>3, <3>5
  <2> QED
    BY <2>1, <1>8, <1>13, ToDoKept
<1>14. TreesInv'
  <2>1. ASSUME NEW t \in DOMAIN ctus', NEW j \in DOMAIN ctus'[t]
        PROVE  {"depth", "split"} \subseteq DOMAIN ctus'[t][j] /\ OnPath(j, t)
    <3>1. t \in 1 .. N
      BY <2>1, <1>8
    <3>2. CASE t # N
      <4>1. ctus'[t] = ctus[t]
        BY <3>1, <3>2, <1>8
      <4> QED
        BY <4>1, <3>1, <2>1, <1>1 DEF TreeInv, TreesInv
    <3>3. CASE t = N
      <4>1. ctus'[t] = next /\ t \in DOMAIN ctus
        BY <3>1, <3>3, <1>8, <1>1
      <4>2. CASE j = i
        <5>1. ctus'[t][j] = node
          BY <4>1, <4>2, <2>1 DEF next, With
        <5>2. {"depth", "split"} \subseteq DOMAIN node
          BY DEF node, AppendedNode
        <5>3. OnPath(j, t)
          BY <4>2, <3>3, <1>4 DEF OnPath, i
        <5> QED
          BY <5>1, <5>2, <5>3
      <4>3. CASE j # i
        <5>1. j \in DOMAIN ctus[t] /\ ctus'[t][j] = ctus[t][j]
          BY <4>1, <4>3, <2>1, <3>3 DEF next, With, tree
        <5> QED
          BY <5>1, <4>1 DEF TreeInv, TreesInv
      <4> QED
        BY <4>2, <4>3
    <3> QED
      BY <3>2, <3>3
  <2>2. \A j, t : OnPath(j, t) => OnPath(j, t)'
    BY OnPathKept
  <2> QED
    BY <2>1, <2>2 DEF TreesInv
<1>15. ctus' \in Seq(Entries(ctus'))
  BY <1>8, SequenceOf
<1> QED
  BY <1>2, <1>3, <1>8, <1>11, <1>12, <1>13, <1>14, <1>15

(* Nodes of the recursion do not share a block.                            *)
LEMMA ToDoApart ==
    ASSUME layout \in Layouts, NEW n, NEW m, ToDo(n), ToDo(m), NEW b \in Block,
           InNode(n, b), InNode(m, b)
    PROVE  n.at = m.at
<1>1. /\ Sound(n) /\ Sound(m) /\ n.depth \in 0 .. CtbDepth /\ m.depth \in 0 .. CtbDepth
      /\ Begun(TreeOf(b), b, n.depth) /\ Begun(TreeOf(b), b, m.depth)
  BY DEF ToDo, Sound
<1>2. n.depth = m.depth
  BY <1>1, Exclusive
<1> QED
  BY <1>1, <1>2, NodeUnique

LEMMA SplitCovered ==
    ASSUME TreeInv, Split
    PROVE  TreeInv'
<1>0. PICK n : n = Head(pending)
  OBVIOUS
<1>1. /\ pending # <<>> /\ ~cu.open /\ TRUE \in SplitCuFlag(n) /\ AppendNode(n, TRUE)
      /\ pending' = Quarters(n) \o Tail(pending)
      /\ layout' = layout /\ cu' = cu /\ enc' = enc
  BY <1>0 DEF Split
<1>2. /\ ToDo(n) /\ n \in NodeSet /\ n \in Entries(pending)
      /\ Len(ctus') = Len(ctus) /\ ctus' \in Seq(Entries(ctus'))
      /\ \A c : Coded(c) => Coded(c)'
      /\ \A m : ToDo(m) /\ m.at # n.at => ToDo(m)'
      /\ TreesInv'
      /\ \A b \in Block : InNode(n, b) /\ n.depth < CtbDepth => Begun(TreeOf(b)', b, n.depth + 1)
  <2>1. TRUE \in BOOLEAN
    OBVIOUS
  <2> QED
    BY <2>1, <1>0, <1>1, AppendStep
<1>3. n.depth < CtbDepth
  BY <1>1 DEF SplitCuFlag, splitFlagParsed
<1>4. /\ Sound(n) /\ addrInTs(n.at) + 1 = Len(ctus) /\ n.depth \in 0 .. CtbDepth /\ n.at \in Block
      /\ n.depth + 1 \in 0 .. CtbDepth /\ n.depth \in 0 .. n.depth + 1
  BY <1>2, <1>3, Sizes DEF ToDo, Sound
<1> DEFINE Q == Quarters(n)
           R == Tail(pending)
<1>5. /\ Q \in Seq(NodeSet) /\ Distinct(Q)
      /\ \A q \in Entries(Q) : Sound(q) /\ q.depth = n.depth + 1 /\ SameCell(n.depth, n.at, q.at)
      /\ \A b \in Block : InNode(n, b) => \E q \in Entries(Q) : InNode(q, b)
  BY <1>3, <1>4, QuartersAre
<1>6. pending \in Seq(NodeSet) /\ layout \in Layouts
  BY DEF TreeInv, KindsInv, NodeSet
<1>7. /\ R \in Seq(NodeSet) /\ Entries(pending) = {n} \cup Entries(R)
      /\ Distinct(R) /\ \A x \in Entries(R) : x.at # n.at
  BY <1>0, <1>1, <1>6, TailIs, NodesNow DEF TreeInv
<1>8. \A m \in Entries(pending) : ToDo(m)
  BY NodesNow DEF TreeInv
<1> HIDE DEF Q, R
<1>9. \A x \in Entries(Q), y \in Entries(R) : x.at # y.at
  <2>1. ASSUME NEW x \in Entries(Q), NEW y \in Entries(R), x.at = y.at PROVE FALSE
    <3>1. ToDo(y) /\ Sound(y) /\ y.at \in Block /\ InNode(y, y.at)
      <4>1. ToDo(y)
        BY <1>7, <1>8
      <4>2. Sound(y)
        BY <4>1 DEF ToDo
      <4> QED
        BY <4>1, <4>2, NodeIs DEF Sound
    <3>2. InNode(n, y.at)
      BY <2>1, <1>5 DEF InNode
    <3>3. n.at = y.at
      BY <3>1, <3>2, <1>2, <1>6, ToDoApart
    <3> QED
      BY <3>3, <1>7
  <2> QED
    BY <2>1
<1>10. /\ pending' \in Seq(NodeSet) /\ Entries(pending') = Entries(Q) \cup Entries(R)
       /\ Distinct(pending')
  <2>1. /\ Q \o R \in Seq(NodeSet) /\ Entries(Q \o R) = Entries(Q) \cup Entries(R)
        /\ Distinct(Q \o R)
    BY <1>5, <1>7, <1>9, JoinIs
  <2>2. pending' = Q \o R
    BY <1>1 DEF Q, R
  <2> QED
    BY <2>1, <2>2, Zenon
<1>11. \A b : addrInTs(b)' = addrInTs(b)
  BY <1>1, AddrsKept
<1>12. ASSUME NEW q \in Entries(Q) PROVE ToDo(q)'
  <2>1. Sound(q) /\ q.depth = n.depth + 1 /\ SameCell(n.depth, n.at, q.at)
    BY <1>5
  <2>2. q.at \in Block
    BY <2>1 DEF Sound
  <2>3. addrInTs(q.at)' + 1 = Len(ctus')
    <3>1. addrInTs(q.at) = addrInTs(n.at)
      BY <2>1, <2>2, <1>4, <1>6, NodeUnit DEF InNode
    <3> QED
      BY <3>1, <1>2, <1>4, <1>11
  <2>4. ASSUME NEW b \in Block, InNode(q, b) PROVE Begun(TreeOf(b)', b, q.depth)
    <3>1. SameCell(n.depth, q.at, b)
      BY <2>1, <2>2, <2>4, <1>4, CellsNest DEF InNode
    <3>2. InNode(n, b)
      BY <3>1, <2>1 DEF InNode, SameCell
    <3> QED
      BY <3>2, <1>2, <1>3, <2>1
  <2> QED
    BY <2>1, <2>3, <2>4 DEF ToDo
<1>13. ASSUME NEW m \in Entries(R) PROVE ToDo(m)'
  BY <1>2, <1>7, <1>8
<1>14. NodesInv'
  <2>1. \A m \in Entries(pending') : ToDo(m)'
    BY <1>10, <1>12, <1>13
  <2>2. \A c \in Entries(enc'.cus) : Coded(c)'
    BY <1>1, <1>2, NodesNow DEF TreeInv
  <2>3. Distinct(enc'.cus) /\ ~cu'.open
    BY <1>1, NodesNow DEF TreeInv
  <2> QED
    BY <2>1, <2>2, <2>3, <1>10, NodesNext
<1>15. KindsInv'
  BY <1>1, <1>2, <1>10 DEF TreeInv, KindsInv, NodeSet
<1>16. HeldInv'
  <2>1. ASSUME NEW b \in Block, addrInTs(b) < Len(ctus) PROVE Held(b)'
    <3>1. Held(b)
      BY <2>1 DEF TreeInv, HeldInv
    <3>2. CASE InNode(n, b)
      <4>1. \E q \in Entries(pending') : InNode(q, b)
        BY <3>2, <1>5, <1>10
      <4> QED
        BY <4>1, HeldIs
    <3>3. CASE ~InNode(n, b)
      BY <3>1, <3>3, <1>1, <1>7, <1>10, HeldIs
    <3> QED
      BY <3>2, <3>3
  <2> QED
    BY <2>1, <1>2, <1>11 DEF HeldInv
<1> QED
  BY <1>2, <1>14, <1>15, <1>16 DEF TreeInv

LEMMA UnitOpened ==
    ASSUME TreeInv, CodingUnit
    PROVE  TreeInv'
<1>0. PICK n : n = Head(pending)
  OBVIOUS
<1>1. /\ pending # <<>> /\ ~cu.open /\ FALSE \in SplitCuFlag(n) /\ AppendNode(n, FALSE)
      /\ pending' = Tail(pending) /\ layout' = layout
      /\ cu'.at = n.at /\ cu'.depth = n.depth /\ cu'.open = TRUE
      /\ {"at", "depth", "open"} \subseteq DOMAIN cu'
  <2>1. /\ pending # <<>> /\ ~cu.open /\ FALSE \in SplitCuFlag(n) /\ AppendNode(n, FALSE)
        /\ pending' = Tail(pending) /\ layout' = layout
    BY <1>0, Zenon DEF CodingUnit
  <2>2. PICK bypass : cu' = [at |-> n.at, depth |-> n.depth, bypass |-> bypass, tus |-> 0, open |-> TRUE]
    BY <1>0, Zenon DEF CodingUnit
  <2>3. /\ cu'.at = n.at /\ cu'.depth = n.depth /\ cu'.open = TRUE
        /\ {"at", "depth", "open"} \subseteq DOMAIN cu'
    BY <2>2
  <2> QED
    BY <2>1, <2>3
<1>2. enc'.cus = enc.cus /\ "cus" \in DOMAIN enc'
  <2>1. "cus" \in DOMAIN enc
    BY DEF TreeInv, KindsInv
  <2>2. EncStartCu(n)
    BY <1>0 DEF CodingUnit
  <2> QED
    BY <2>1, <2>2 DEF EncStartCu
<1>3. /\ ToDo(n) /\ n \in NodeSet /\ n \in Entries(pending)
      /\ Len(ctus') = Len(ctus) /\ ctus' \in Seq(Entries(ctus'))
      /\ \A c : Coded(c) => Coded(c)'
      /\ \A m : ToDo(m) /\ m.at # n.at => ToDo(m)'
      /\ TreesInv'
      /\ \A b \in Block : InNode(n, b) => Leaf(TreeOf(b)', b, n.depth)
  <2>1. FALSE \in BOOLEAN
    OBVIOUS
  <2> QED
    BY <2>1, <1>0, <1>1, AppendStep
<1>4. /\ Sound(n) /\ addrInTs(n.at) + 1 = Len(ctus) /\ n.depth \in 0 .. CtbDepth /\ n.at \in Block
      /\ \A b \in Block : InNode(n, b) => Begun(TreeOf(b), b, n.depth)
  BY <1>3 DEF ToDo, Sound
<1>5. /\ n.at[1] + sizeAt(n.depth) <= WidthInMinCbs
      /\ n.at[2] + sizeAt(n.depth) <= HeightInMinCbs
  <2>1. CASE splitFlagParsed(n)
    BY <2>1 DEF splitFlagParsed
  <2>2. CASE ~splitFlagParsed(n)
    <3>1. n.depth = CtbDepth
      <4>1. SplitCuFlag(n) = {n.depth < CtbDepth}
        BY <2>2, Zenon DEF SplitCuFlag
      <4>2. ~(n.depth < CtbDepth)
        BY <4>1, <1>1, Zenon
      <4> QED
        BY <4>2, <1>4, Sizes
    <3>2. sizeAt(n.depth) = 1
      BY <3>1, Sizes
    <3>3. n.at[1] \in Nat /\ n.at[2] \in Nat /\ n.at[1] < WidthInMinCbs /\ n.at[2] < HeightInMinCbs
          /\ WidthInMinCbs \in Nat /\ HeightInMinCbs \in Nat
      BY <1>4, BlockType, BlocksAssumption
    <3> QED
      BY <3>2, <3>3
  <2> QED
    BY <2>1, <2>2
<1>6. pending \in Seq(NodeSet) /\ layout \in Layouts /\ Len(ctus) \in Nat
  BY CtusType DEF TreeInv, KindsInv, NodeSet
<1>7. /\ pending' \in Seq(NodeSet) /\ Entries(pending) = {n} \cup Entries(pending')
      /\ Distinct(pending') /\ \A x \in Entries(pending') : x.at # n.at
  BY <1>0, <1>1, <1>6, TailIs, NodesNow DEF TreeInv
<1>8. \A b : addrInTs(b)' = addrInTs(b)
  BY <1>1, AddrsKept
<1>9. addrInTs(n.at) \in Nat
  BY <1>4, <1>6, AddrOf, SizeType DEF Addr
<1>10. Coded(cu)' /\ (addrInTs(cu.at) + 1 = Len(ctus))'
  <2>1. PICK c : c = cu'
    OBVIOUS
  <2>2. c.at = n.at /\ c.depth = n.depth
    BY <2>1, <1>1
  <2>3. Sound(c) /\ \A b : InNode(c, b) <=> InNode(n, b)
    BY <2>2, <1>4 DEF Sound, InNode
  <2>4. addrInTs(c.at)' + 1 = Len(ctus') /\ addrInTs(c.at)' < Len(ctus')
    BY <2>2, <1>3, <1>4, <1>6, <1>8, <1>9
  <2>5. Coded(c)'
    BY <2>2, <2>3, <2>4, <1>3, <1>5 DEF Coded
  <2> QED
    BY <2>1, <2>4, <2>5
<1>11. NodesInv'
  <2>1. \A m \in Entries(pending') : ToDo(m)'
    BY <1>3, <1>7, NodesNow DEF TreeInv
  <2>2. \A c \in Entries(enc'.cus) : Coded(c)'
    BY <1>2, <1>3, NodesNow DEF TreeInv
  <2>3. Distinct(enc'.cus)
    BY <1>2, NodesNow DEF TreeInv
  <2>4. \A c \in Entries(enc'.cus) : c.at # cu'.at
    <3>1. ASSUME NEW c \in Entries(enc.cus), c.at = n.at PROVE FALSE
      <4>1. Coded(c)
        BY <3>1, NodesNow DEF TreeInv
      <4>2. Sound(c) /\ c.depth \in 0 .. CtbDepth /\ InNode(c, n.at) /\ InNode(n, n.at)
        <5>1. Sound(c)
          BY <4>1 DEF Coded
        <5> QED
          BY <5>1, <1>4, <3>1, NodeIs DEF Sound
      <4>3. Leaf(TreeOf(n.at), n.at, c.depth) /\ Begun(TreeOf(n.at), n.at, n.depth)
        BY <4>1, <4>2, <1>4 DEF Coded
      <4> QED
        BY <4>2, <4>3, <1>4, Exclusive
    <3> QED
      BY <3>1, <1>1, <1>2
  <2> QED
    BY <2>1, <2>2, <2>3, <2>4, <1>7, <1>10, NodesNext
<1>12. KindsInv'
  BY <1>1, <1>2, <1>3, <1>7 DEF TreeInv, KindsInv, NodeSet
<1>13. HeldInv'
  <2>1. ASSUME NEW b \in Block, addrInTs(b) < Len(ctus) PROVE Held(b)'
    <3>1. Held(b)
      BY <2>1 DEF TreeInv, HeldInv
    <3>2. CASE InNode(n, b)
      <4>1. InNode(cu', b)
        BY <3>2, <1>1 DEF InNode
      <4> QED
        BY <4>1, <1>1, HeldIs
    <3>3. CASE ~InNode(n, b)
      BY <3>1, <3>3, <1>1, <1>2, <1>7, HeldIs
    <3> QED
      BY <3>2, <3>3
  <2> QED
    BY <2>1, <1>3, <1>8 DEF HeldInv
<1> QED
  BY <1>3, <1>11, <1>12, <1>13 DEF TreeInv

(* Quantization parameters are constructed in a node; the trees keep their *)
(* shapes.                                                                 *)
LEMMA ShapeStep ==
    ASSUME TreeInv, cu.open, layout' = layout, NEW luma, NEW chroma, NEW status,
           ConstructQps(luma, chroma, status)
    PROVE  /\ Len(ctus') = Len(ctus) /\ ctus' \in Seq(Entries(ctus'))
           /\ \A c : Coded(c) => Coded(c)'
           /\ \A m : ToDo(m) => ToDo(m)'
           /\ TreesInv'
<1> DEFINE N == Len(ctus)
           i == CuIndex
           tree == ctus[N]
           node == Constructed(tree[i], luma, chroma, status)
           next == [tree EXCEPT ![i] = node]
<1>1. /\ N \in Nat /\ DOMAIN ctus = 1 .. N /\ layout \in Layouts
      /\ ctus \in Seq(Entries(ctus)) /\ N \in 1 .. N
  <2>1. /\ N \in Nat /\ DOMAIN ctus = 1 .. N /\ layout \in Layouts /\ ctus \in Seq(Entries(ctus))
    BY CtusType DEF TreeInv, KindsInv
  <2>2. addrInTs(cu.at) + 1 = N /\ cu.at \in Block
    BY DEF TreeInv, NodesInv, Coded, Sound
  <2>3. addrInTs(cu.at) \in Nat
    BY <2>1, <2>2, AddrOf, SizeType DEF Addr
  <2> QED
    BY <2>1, <2>2, <2>3
<1>2. ctus' = [ctus EXCEPT ![N] = next]
  BY Zenon DEF ConstructQps
<1>3. ASSUME NEW j \in DOMAIN tree
      PROVE  /\ {"depth", "split"} \subseteq DOMAIN tree[j] /\ OnPath(j, N)
             /\ {"depth", "split"} \subseteq DOMAIN next[j]
             /\ next[j].split = tree[j].split /\ next[j].depth = tree[j].depth
  <2>1. {"depth", "split"} \subseteq DOMAIN tree[j] /\ OnPath(j, N)
    BY <1>1 DEF TreeInv, TreesInv
  <2> HIDE DEF tree
  <2>2. CASE j = i
    <3> HIDE DEF i
    <3>1. next[j] = Constructed(tree[j], luma, chroma, status)
      BY <2>2
    <3> HIDE DEF next
    <3> QED
      BY <2>1, <3>1 DEF Constructed
  <2>3. CASE j # i
    <3> HIDE DEF i, node
    <3>1. next[j] = tree[j]
      BY <2>3
    <3> QED
      BY <2>1, <3>1
  <2> QED
    BY <2>2, <2>3
<1>4. DOMAIN next = DOMAIN tree
  OBVIOUS
<1> HIDE DEF next, tree, node, i
<1>5. SameShape(tree, next)
  BY <1>3, <1>4 DEF SameShape
<1>6. /\ Len(ctus') = N /\ DOMAIN ctus' = 1 .. N /\ ctus'[N] = next
      /\ \A t \in 1 .. N : t # N => ctus'[t] = ctus[t]
      /\ ctus' \in Seq(Entries(ctus) \cup {next})
  <2> DEFINE S == Entries(ctus) \cup {next}
  <2>1. ctus \in Seq(S) /\ next \in S
    BY <1>1
  <2> HIDE DEF S
  <2>2. ctus' \in Seq(S) /\ Len(ctus') = N /\ DOMAIN ctus' = 1 .. N
    BY <2>1, <1>1, <1>2
  <2>3. ctus'[N] = next /\ \A t \in 1 .. N : t # N => ctus'[t] = ctus[t]
    BY <1>1, <1>2
  <2> QED
    BY <2>2, <2>3 DEF S
<1>7. ASSUME NEW b \in Block, NEW d \in 0 .. CtbDepth, addrInTs(b) < N
      PROVE  /\ Begun(TreeOf(b), b, d) => Begun(ctus'[addrInTs(b) + 1], b, d)
             /\ Leaf(TreeOf(b), b, d) => Leaf(ctus'[addrInTs(b) + 1], b, d)
  <2>1. addrInTs(b) \in Nat
    BY <1>1, AddrOf, SizeType DEF Addr
  <2>2. addrInTs(b) + 1 \in 1 .. N
    BY <2>1, <1>1, <1>7
  <2>3. CASE addrInTs(b) + 1 = N
    <3>1. TreeOf(b) = tree /\ ctus'[addrInTs(b) + 1] = next
      BY <2>3, <1>6 DEF TreeOf, tree
    <3> QED
      BY <3>1, <1>5, ShapeKept
  <2>4. CASE addrInTs(b) + 1 # N
    <3>1. ctus'[addrInTs(b) + 1] = TreeOf(b)
      BY <2>2, <2>4, <1>6 DEF TreeOf
    <3> QED
      BY <3>1
  <2> QED
    BY <2>3, <2>4
<1>8. ASSUME NEW c, Coded(c) PROVE Coded(c)'
  <2>1. ASSUME NEW b \in Block, InNode(c, b), Leaf(TreeOf(b), b, c.depth)
        PROVE  Leaf(ctus'[addrInTs(b) + 1], b, c.depth)
    <3>1. addrInTs(c.at) = addrInTs(b) /\ addrInTs(c.at) < N /\ c.depth \in 0 .. CtbDepth
      BY <2>1, <1>8, <1>1, NodeUnit DEF Coded, Sound
    <3> QED
      BY <2>1, <3>1, <1>7
  <2>2. Len(ctus') >= Len(ctus) /\ Len(ctus') \in Nat
    <3>1. Len(ctus') = N /\ N \in Nat
      BY <1>1, <1>6
    <3> HIDE DEF N
    <3>2. Len(ctus') >= N
      BY <3>1
    <3> QED
      BY <3>1, <3>2 DEF N
  <2> QED
    BY <2>1, <2>2, <1>8, <1>1, CodedKept
<1>9. ASSUME NEW m, ToDo(m) PROVE ToDo(m)'
  <2>1. ASSUME NEW b \in Block, InNode(m, b), Begun(TreeOf(b), b, m.depth)
        PROVE  Begun(ctus'[addrInTs(b) + 1], b, m.depth)
    <3>1. Sound(m) /\ addrInTs(m.at) + 1 = N /\ m.depth \in 0 .. CtbDepth /\ m.at \in Block
      BY <1>9 DEF ToDo, Sound
    <3>2. addrInTs(m.at) = addrInTs(b) /\ addrInTs(b) \in Nat
      BY <2>1, <3>1, <1>1, NodeUnit, AddrOf, SizeType DEF Addr
    <3>3. addrInTs(b) < N
      BY <3>1, <3>2
    <3> QED
      BY <2>1, <3>1, <3>3, <1>7
  <2> QED
    BY <2>1, <1>6, <1>9, ToDoKept
<1>10. TreesInv'
  <2>1. ASSUME NEW t \in DOMAIN ctus', NEW j \in DOMAIN ctus'[t]
        PROVE  {"depth", "split"} \subseteq DOMAIN ctus'[t][j] /\ OnPath(j, t)
    <3>1. t \in 1 .. N
      BY <2>1, <1>6
    <3>2. CASE t # N
      <4>1. ctus'[t] = ctus[t]
        BY <3>1, <3>2, <1>6
      <4> QED
        BY <4>1, <3>1, <2>1, <1>1 DEF TreeInv, TreesInv
    <3>3. CASE t = N
      BY <3>3, <2>1, <1>3, <1>4, <1>6
    <3> QED
      BY <3>2, <3>3
  <2>2. \A j, t : OnPath(j, t) => OnPath(j, t)'
    BY OnPathKept
  <2> QED
    BY <2>1, <2>2 DEF TreesInv
<1>11. ctus' \in Seq(Entries(ctus'))
  BY <1>6, SequenceOf
<1> QED
  BY <1>6, <1>8, <1>9, <1>10, <1>11

LEMMA TransformCovered ==
    ASSUME TreeInv, NEW cbfY \in BOOLEAN, NEW cbfC \in BOOLEAN, NEW later \in BOOLEAN,
           TransformUnit(cbfY, cbfC, later)
    PROVE  TreeInv'
<1>1. /\ cu.open /\ layout' = layout /\ pending' = pending
      /\ cu' = [cu EXCEPT !.tus = @ + 1]
  BY DEF TransformUnit
<1>2. /\ \E luma, chroma, status : ConstructQps(luma, chroma, status)
      /\ \E d, o, v : enc' = [enc EXCEPT !.sentDelta = d, !.sentOffset = o, !.offset = v]
  <2>1. PICK value :
          LET status == WithOffset(WithDelta(qpStatus), cbfC, value)
          IN  /\ ConstructQps(cbfY \/ (cbfC /\ ~later), cbfC /\ ~later, status)
              /\ enc' = [enc EXCEPT !.sentDelta = @ \/ layout.delta,
                                    !.sentOffset = @ \/ OffsetSent(cbfC),
                                    !.offset = value]
    BY Zenon DEF TransformUnit
  <2>2. \E luma, chroma, status : ConstructQps(luma, chroma, status)
    BY <2>1, Zenon
  <2>3. \E d, o, v : enc' = [enc EXCEPT !.sentDelta = d, !.sentOffset = o, !.offset = v]
    BY <2>1, Zenon
  <2> QED
    BY <2>2, <2>3
<1>3. "cus" \in DOMAIN enc /\ {"at", "depth", "open"} \subseteq DOMAIN cu
  BY DEF TreeInv, KindsInv
<1>4. enc'.cus = enc.cus /\ "cus" \in DOMAIN enc'
  BY <1>2, <1>3
<1>5. /\ cu'.at = cu.at /\ cu'.depth = cu.depth /\ cu'.open = cu.open
      /\ {"at", "depth", "open"} \subseteq DOMAIN cu'
  BY <1>1, <1>3
<1>6. /\ Len(ctus') = Len(ctus) /\ ctus' \in Seq(Entries(ctus'))
      /\ \A c : Coded(c) => Coded(c)'
      /\ \A m : ToDo(m) => ToDo(m)'
      /\ TreesInv'
  BY <1>1, <1>2, ShapeStep
<1>7. \A b : addrInTs(b)' = addrInTs(b)
  BY <1>1, AddrsKept
<1>8. NodesInv'
  <2>1. Coded(cu)' /\ (addrInTs(cu.at) + 1 = Len(ctus))'
    <3>1. PICK c : c = cu'
      OBVIOUS
    <3>2. c.at = cu.at /\ c.depth = cu.depth
      BY <3>1, <1>5
    <3>3. Coded(cu) /\ addrInTs(cu.at) + 1 = Len(ctus)
      BY <1>1 DEF TreeInv, NodesInv
    <3>4. Coded(c) /\ addrInTs(c.at) + 1 = Len(ctus)
      BY <3>2, <3>3 DEF Coded, Sound, InNode
    <3> QED
      BY <3>1, <3>4, <1>6, <1>7
  <2>2. \A c \in Entries(enc'.cus) : Coded(c)' /\ c.at # cu'.at
    BY <1>1, <1>4, <1>5, <1>6, NodesNow DEF TreeInv
  <2>3. \A m \in Entries(pending') : ToDo(m)'
    BY <1>1, <1>6, NodesNow DEF TreeInv
  <2>4. Distinct(pending') /\ Distinct(enc'.cus)
    BY <1>1, <1>4, NodesNow DEF TreeInv
  <2> QED
    BY <2>1, <2>2, <2>3, <2>4, NodesNext
<1>9. KindsInv'
  BY <1>1, <1>4, <1>5, <1>6 DEF TreeInv, KindsInv
<1>10. HeldInv'
  <2>1. ASSUME NEW b \in Block, addrInTs(b) < Len(ctus) PROVE Held(b)'
    <3>1. Held(b)
      BY <2>1 DEF TreeInv, HeldInv
    <3>2. InNode(cu', b) <=> InNode(cu, b)
      BY <1>5 DEF InNode
    <3> QED
      BY <3>1, <3>2, <1>1, <1>4, <1>5, HeldIs
  <2> QED
    BY <2>1, <1>6, <1>7 DEF HeldInv
<1> QED
  BY <1>6, <1>8, <1>9, <1>10 DEF TreeInv

LEMMA FinishCovered ==
    ASSUME TreeInv, FinishCodingUnit
    PROVE  TreeInv'
<1>0. PICK e : e = [at |-> cu.at, depth |-> cu.depth, qpY |-> EncQpY, offset |-> enc.offset]
  OBVIOUS
<1>1. /\ cu.open /\ layout' = layout /\ pending' = pending /\ cu' = NoCu
      /\ enc' = [enc EXCEPT !.cus = Append(@, e)]
      /\ e.at = cu.at /\ e.depth = cu.depth
  BY <1>0 DEF FinishCodingUnit
<1>2. \E luma, chroma, status : ConstructQps(luma, chroma, status)
  BY Zenon DEF FinishCodingUnit
<1>3. /\ "cus" \in DOMAIN enc /\ enc.cus \in Seq(Entries(enc.cus))
  BY DEF TreeInv, KindsInv
<1>4. enc'.cus = Append(enc.cus, e) /\ "cus" \in DOMAIN enc'
  BY <1>1, <1>3
<1>5. /\ cu'.open = FALSE /\ {"at", "depth", "open"} \subseteq DOMAIN cu'
  BY <1>1 DEF NoCu
<1>6. /\ Len(ctus') = Len(ctus) /\ ctus' \in Seq(Entries(ctus'))
      /\ \A c : Coded(c) => Coded(c)'
      /\ \A m : ToDo(m) => ToDo(m)'
      /\ TreesInv'
  BY <1>1, <1>2, ShapeStep
<1>7. \A b : addrInTs(b)' = addrInTs(b)
  BY <1>1, AddrsKept
<1>8. Coded(e) /\ (\A c \in Entries(enc.cus) : c.at # e.at)
  <2>1. Coded(cu) /\ \A c \in Entries(enc.cus) : c.at # cu.at
    BY <1>1, NodesNow DEF TreeInv, NodesInv
  <2> QED
    BY <2>1, <1>1 DEF Coded, Sound, InNode
<1>9. /\ enc'.cus \in Seq(Entries(enc.cus) \cup {e}) /\ Entries(enc'.cus) = Entries(enc.cus) \cup {e}
      /\ Distinct(enc'.cus)
  <2> DEFINE S == Entries(enc.cus) \cup {e}
             s == enc.cus
  <2>1. s \in Seq(S) /\ e \in S
    BY <1>3
  <2>2. \A x \in Entries(s), y \in {e} : x.at # y.at
    BY <1>8
  <2>3. Distinct(s)
    BY NodesNow DEF TreeInv
  <2> HIDE DEF S, s
  <2>4. Append(s, e) = s \o <<e>> /\ <<e>> \in Seq(S) /\ DOMAIN <<e>> = {1} /\ <<e>>[1] = e
    BY <2>1
  <2>5. Entries(<<e>>) = {e} /\ Distinct(<<e>>)
    BY <2>4 DEF Entries, Distinct
  <2>6. /\ s \o <<e>> \in Seq(S) /\ Entries(s \o <<e>>) = Entries(s) \cup {e} /\ Distinct(s \o <<e>>)
    <3>1. \A x \in Entries(s), y \in Entries(<<e>>) : x.at # y.at
      BY <2>2, <2>5
    <3>2. Entries(s \o <<e>>) = Entries(s) \cup Entries(<<e>>)
      BY <2>1, <2>4, JoinIs
    <3> QED
      BY <2>1, <2>3, <2>4, <2>5, <3>1, <3>2, JoinIs
  <2>7. enc'.cus = s \o <<e>>
    BY <1>4, <2>4 DEF s
  <2> QED
    BY <2>6, <2>7 DEF S, s
<1>10. NodesInv'
  <2>1. \A c \in Entries(enc'.cus) : Coded(c)'
    BY <1>6, <1>8, <1>9, NodesNow DEF TreeInv
  <2>2. \A m \in Entries(pending') : ToDo(m)'
    BY <1>1, <1>6, NodesNow DEF TreeInv
  <2>3. Distinct(pending') /\ ~cu'.open
    BY <1>1, <1>5, NodesNow DEF TreeInv
  <2> QED
    BY <2>1, <2>2, <2>3, <1>9, NodesNext
<1>11. KindsInv'
  <2>1. enc'.cus \in Seq(Entries(enc'.cus))
    BY <1>9
  <2> QED
    BY <2>1, <1>1, <1>4, <1>5, <1>6 DEF TreeInv, KindsInv
<1>12. HeldInv'
  <2>1. ASSUME NEW b \in Block, addrInTs(b) < Len(ctus) PROVE Held(b)'
    <3>1. Held(b)
      BY <2>1 DEF TreeInv, HeldInv
    <3>2. InNode(e, b) <=> InNode(cu, b)
      BY <1>1 DEF InNode
    <3> QED
      BY <3>1, <3>2, <1>1, <1>9, HeldIs
  <2> QED
    BY <2>1, <1>6, <1>7 DEF HeldInv
<1> QED
  BY <1>6, <1>10, <1>11, <1>12 DEF TreeInv

LEMMA StutterCovered ==
    ASSUME TreeInv, UNCHANGED vars
    PROVE  TreeInv'
<1>1. layout' = layout /\ ctus' = ctus /\ pending' = pending /\ cu' = cu /\ enc' = enc
  BY DEF vars
<1> QED
  BY <1>1 DEF TreeInv, KindsInv, NodesInv, HeldInv, Held, TreesInv, ToDo, Coded, TreeOf,
              OnPath, addrInTs, geo, toAddrInRs, toCtb

-------------------------------------------------------------------------------
(* In every reachable state the nodes still to do and the coding units     *)
(* divide the blocks of the coding tree units begun, and the path to each  *)
(* block ends where it is (CodingQuadTree.cpp, QuadTree.h).                *)
THEOREM TreesCovered == Spec => []TreeInv
<1>1. Init => TreeInv
  BY InitCovered
<1>2. TreeInv /\ [Next]_vars => TreeInv'
  <2> SUFFICES ASSUME TreeInv, [Next]_vars PROVE TreeInv'
    OBVIOUS
  <2>1. CASE CodingTreeUnit
    BY <2>1, UnitCovered
  <2>2. CASE Split
    BY <2>2, SplitCovered
  <2>3. CASE CodingUnit
    BY <2>3, UnitOpened
  <2>4. ASSUME NEW cbfY \in BOOLEAN, NEW cbfC \in BOOLEAN, NEW later \in BOOLEAN,
               TransformUnit(cbfY, cbfC, later)
        PROVE  TreeInv'
    BY <2>4, TransformCovered
  <2>5. CASE FinishCodingUnit
    BY <2>5, FinishCovered
  <2>6. CASE Done
    BY <2>6, StutterCovered DEF Done
  <2>7. CASE UNCHANGED vars
    BY <2>7, StutterCovered
  <2> QED
    BY <2>1, <2>2, <2>3, <2>4, <2>5, <2>6, <2>7 DEF Next
<1> QED
  BY <1>1, <1>2, PTL DEF Spec

LEMMA CoveredOnce ==
    ASSUME TreeInv, PictureDone, NEW b \in Block
    PROVE  /\ Cardinality(CodedAt(b)) = 1
           /\ ~getCodingQuadTree(b).split
           /\ \A i \in CodedAt(b) : getCodingQuadTree(b).depth = enc.cus[i].depth
<1>1. layout \in Layouts /\ Len(ctus) = Width * Height /\ DOMAIN ctus = 1 .. Len(ctus)
  BY CtusType DEF TreeInv, PictureDone
<1>2. addrInTs(b) \in Addr
  BY <1>1, AddrOf
<1>3. addrInTs(b) < Len(ctus) /\ addrInTs(b) + 1 \in DOMAIN ctus
  <2> DEFINE w == Width * Height
  <2>1. w \in Nat /\ addrInTs(b) \in 0 .. w - 1 /\ Len(ctus) = w
    BY <1>1, <1>2, SizeType DEF Addr
  <2> HIDE DEF w
  <2>2. addrInTs(b) < w /\ addrInTs(b) + 1 \in 1 .. w
    BY <2>1
  <2> QED
    BY <1>1, <2>1, <2>2
<1>4. Held(b) /\ pending = <<>> /\ ~cu.open
  BY <1>3 DEF TreeInv, HeldInv, PictureDone
<1>5. PICK i \in DOMAIN enc.cus : InNode(enc.cus[i], b)
  BY <1>4 DEF Held
<1> DEFINE c == enc.cus[i]
           d == c.depth
<1>6. \A j \in DOMAIN enc.cus : Coded(enc.cus[j])
  BY DEF TreeInv, NodesInv
<1>7. \A j \in DOMAIN enc.cus : Sound(enc.cus[j]) /\ enc.cus[j].depth \in 0 .. CtbDepth
  BY <1>6 DEF Coded, Sound
<1>8. ASSUME NEW j \in DOMAIN enc.cus, InNode(enc.cus[j], b) PROVE j = i
  <2>1. Leaf(TreeOf(b), b, enc.cus[j].depth) /\ Leaf(TreeOf(b), b, d)
    BY <1>5, <1>6, <1>8 DEF Coded
  <2>2. enc.cus[j].depth = d
    BY <2>1, <1>5, <1>7, Exclusive
  <2>3. enc.cus[j].at = c.at
    BY <2>2, <1>5, <1>7, <1>8, NodeUnique
  <2> QED
    BY <2>3, <1>5, <1>8, NodesNow DEF TreeInv, Distinct
<1>9. CodedAt(b) = {i}
  <2>1. ASSUME NEW j \in DOMAIN enc.cus PROVE Covers(enc.cus[j], b) <=> InNode(enc.cus[j], b)
    BY <1>7, CoversIs
  <2> QED
    BY <2>1, <1>5, <1>8 DEF CodedAt
<1>10. Cardinality(CodedAt(b)) = 1
  BY <1>9, FS_Singleton
<1>11. toIndex(Levels, TreeOf(b), offsetInCtb(b)) = IndexPath(b)[d]
  <2>1. ASSUME NEW a \in Block, SameCell(d, a, b) PROVE Leaf(TreeOf(b), a, d)
    <3>1. InNode(c, a)
      BY <2>1, <1>5 DEF InNode, SameCell
    <3>2. Leaf(TreeOf(a), a, d)
      BY <3>1, <1>5, <1>6 DEF Coded
    <3>3. TreeOf(a) = TreeOf(c.at) /\ TreeOf(b) = TreeOf(c.at)
      BY <3>1, <1>1, <1>5, <1>7, NodeUnit
    <3> QED
      BY <3>2, <3>3
  <2>2. ASSUME NEW j \in DOMAIN TreeOf(b)
        PROVE  \E a \in Block, e \in 0 .. CtbDepth : SameCell(0, a, b) /\ j = IndexPath(a)[e]
    <3>1. OnPath(j, addrInTs(b) + 1)
      BY <1>3 DEF TreeInv, TreesInv, TreeOf
    <3>2. PICK a \in Block, e \in 0 .. CtbDepth :
            addrInTs(a) + 1 = addrInTs(b) + 1 /\ j = IndexPath(a)[e]
      BY <3>1 DEF OnPath
    <3>3. addrInTs(a) \in Nat /\ addrInTs(b) \in Nat
      BY <1>1, AddrOf, SizeType DEF Addr
    <3>4. SameCell(0, a, b)
      BY <3>2, <3>3, <1>1, AddrOf
    <3> QED
      BY <3>2, <3>4
  <2>3. d \in 0 .. CtbDepth
    BY <1>5, <1>7
  <2> HIDE DEF d
  <2> QED
    BY <2>1, <2>2, <2>3, LeafFound
<1>12. getCodingQuadTree(b) = TreeOf(b)[IndexPath(b)[d]]
  BY <1>11 DEF getCodingQuadTree, TreeOf
<1>13. Leaf(TreeOf(b), b, d)
  BY <1>5, <1>6 DEF Coded
<1>14. getCodingQuadTree(b).split = FALSE /\ getCodingQuadTree(b).depth = d
  BY <1>12, <1>13 DEF Leaf
<1> QED
  BY <1>9, <1>10, <1>14

(* When a picture is done, every block of it is in exactly one coding      *)
(* unit, none reaches outside the picture, and the tree of its coding tree *)
(* unit finds it from the block: for every size of the picture and of the  *)
(* coding tree unit, whatever tiles it has (CodingQuadTree.cpp,            *)
(* QuadTree.h).                                                            *)
THEOREM PictureAlwaysCovered == Spec => []PictureCovered
<1>1. TreeInv => PictureCovered
  <2> SUFFICES ASSUME TreeInv PROVE PictureCovered
    OBVIOUS
  <2>1. \A i \in DOMAIN enc.cus :
          /\ enc.cus[i].at[1] + sizeAt(enc.cus[i].depth) <= WidthInMinCbs
          /\ enc.cus[i].at[2] + sizeAt(enc.cus[i].depth) <= HeightInMinCbs
    BY DEF TreeInv, NodesInv, Coded
  <2>2. PictureDone => \A b \in Block :
          /\ Cardinality(CodedAt(b)) = 1
          /\ ~getCodingQuadTree(b).split
          /\ \A i \in CodedAt(b) : getCodingQuadTree(b).depth = enc.cus[i].depth
    BY CoveredOnce
  <2> QED
    BY <2>1, <2>2 DEF PictureCovered
<1> QED
  BY <1>1, TreesCovered, PTL
================================================================================

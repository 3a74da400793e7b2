-------------------------------- MODULE QpProofs -------------------------------
(***************************************************************************)
(* The quantization parameters of a picture: every one is the encoder's,   *)
(* for every size of the picture, of the coding tree unit and of the       *)
(* quantization groups.                                                    *)
(***************************************************************************)
EXTENDS CodingTreeProofs
-------------------------------------------------------------------------------
(* The induction.  Coding units and what is still to do follow each other  *)
(* in z-scan of the picture.                                               *)
Precedes(a, b) == toAddrInScanZ(a) < toAddrInScanZ(b)

Ordered(s) == \A i, j \in DOMAIN s : i < j => Precedes(s[i].at, s[j].at)

Before(S, T) == \A x \in S, y \in T : Precedes(x.at, y.at)

OrderInv ==
    /\ Ordered(enc.cus) /\ Ordered(pending) /\ Before(Entries(enc.cus), Entries(pending))
    /\ cu.open => Before(Entries(enc.cus), {cu}) /\ Before({cu}, Entries(pending))

(* A group of the blocks of a level begins where one of them does; of the  *)
(* nodes smaller than it, only the next may be at its corner.              *)
Corner(depth, at) == at[1] % sizeAt(depth) = 0 /\ at[2] % sizeAt(depth) = 0

Later == Entries(IF cu.open \/ pending = <<>> THEN pending ELSE Tail(pending))

GroupsInv(depth) == \A m \in Later : m.depth > depth => ~Corner(depth, m.at)

(* What the decoder knows of a group: nothing yet, or what was sent.       *)
DeltaFresh == ~qpStatus.isCuQpDeltaCoded /\ qpStatus.cuQpDeltaVal = 0

DeltaKnown ==
    /\ qpStatus.isCuQpDeltaCoded = enc.sentDelta
    /\ qpStatus.cuQpDeltaVal = IF enc.sentDelta THEN EncDelta ELSE 0

OffsetFresh == ~qpStatus.isCuQpOffsetCoded /\ qpStatus.cuQpOffset = 0

OffsetKnown ==
    qpStatus.isCuQpOffsetCoded = enc.sentOffset /\ qpStatus.cuQpOffset = enc.offset

Inside(depth) ==
    \/ cu.open
    \/ pending # <<>> /\ Head(pending).depth > depth /\ ~Corner(depth, Head(pending).at)

AtCorner(depth) ==
    ~cu.open /\ pending # <<>> /\ Head(pending).depth > depth /\ Corner(depth, Head(pending).at)

StatusInv ==
    /\ qpStatus.qpYpred = enc.pred
    /\ Inside(GroupDepth) => DeltaKnown
    /\ AtCorner(GroupDepth) => DeltaFresh
    /\ Inside(OffsetDepth) => OffsetKnown
    /\ AtCorner(OffsetDepth) => OffsetFresh
    /\ ~layout.delta => ~enc.sentDelta
    /\ ~layout.offsets => ~enc.sentOffset
    /\ ~enc.sentOffset => enc.offset = 0

(* The leaf of a coding unit and what is constructed in it.                *)
NodeOf(c) == TreeOf(c.at)[IndexPath(c.at)[c.depth]]

DataInv ==
    /\ \A i \in DOMAIN enc.cus :
        LET c == enc.cus[i] IN NodeOf(c).qpY = {c.qpY} /\ NodeOf(c).offset = {c.offset}
    /\ cu.open =>
        /\ NodeOf(cu).qpY \subseteq {EncQpY}
        /\ NodeOf(cu).qpY # {} /\ layout.delta => enc.sentDelta
        /\ NodeOf(cu).offset \subseteq {enc.offset}
        /\ NodeOf(cu).offset # {} => ~(layout.offsets /\ ~cu.bypass /\ ~enc.sentOffset)

DeltaRange == -(26 + QpBdOffset \div 2) .. 25 + QpBdOffset \div 2

OffsetRange == Offsets \cup {0}

TreeNode ==
    [depth : 0 .. CtbDepth, split : BOOLEAN, qpY : SUBSET QpRange, offset : SUBSET OffsetRange]

Status ==
    [qpYpred : QpRange, isCuQpDeltaCoded : BOOLEAN, cuQpDeltaVal : DeltaRange,
     isCuQpOffsetCoded : BOOLEAN, cuQpOffset : OffsetRange]

OpenUnit == [at : Block, depth : 0 .. CtbDepth, bypass : BOOLEAN, tus : 0 .. MaxTus, open : BOOLEAN]

CodedUnit == [at : Block, depth : 0 .. CtbDepth, qpY : QpRange, offset : OffsetRange]

CodedUnits == Seq(CodedUnit)

Encoder ==
    [pred : QpRange, target : QpRange, sentDelta : BOOLEAN, sentOffset : BOOLEAN,
     offset : OffsetRange, cus : CodedUnits]

TypeInv ==
    /\ \A t \in DOMAIN ctus : \A i \in DOMAIN ctus[t] : ctus[t][i] \in TreeNode
    /\ cu \in OpenUnit /\ qpStatus \in Status /\ enc \in Encoder

QpInv ==
    /\ OrderInv /\ GroupsInv(GroupDepth) /\ GroupsInv(OffsetDepth)
    /\ StatusInv /\ DataInv /\ TypeInv /\ ElementsAgree
-------------------------------------------------------------------------------
(* Sums over the levels of a quad tree.                                    *)
LEMMA SumIs ==
    ASSUME NEW n \in Nat, NEW terms, \A k \in 1 .. n : terms[k] \in Int
    PROVE  /\ Summed(1, terms) = 0
           /\ \A k \in 1 .. n : Summed(k + 1, terms) = Summed(k, terms) + terms[k]
           /\ \A k \in 0 .. n : Summed(k + 1, terms) \in Int
<1> DEFINE step == [x \in (1 .. n) \X Int |-> x[2] + terms[x[1]]]
<1>1. step \in [(1 .. n) \X Int -> Int]
  OBVIOUS
<1>2. PICK g \in [0 .. n -> Int] : g[0] = 0 /\ \A k \in 1 .. n : g[k] = step[<<k, g[k - 1]>>]
  <2> HIDE DEF step
  <2>1. 0 \in Int
    OBVIOUS
  <2> QED
    BY <2>1, <1>1, RecursionExists, Zenon
<1>3. \A k \in 1 .. n : g[k] = g[k - 1] + terms[k]
  <2>1. \A k \in 1 .. n : <<k, g[k - 1]>> \in (1 .. n) \X Int
    BY <1>2
  <2> QED
    BY <2>1, <1>2
<1> HIDE DEF step
<1>4. ASSUME NEW j \in 0 .. n PROVE Summed(j + 1, terms) = g[j]
  <2> DEFINE Is(f) == f = [k \in 0 .. j |-> IF k = 0 THEN 0 ELSE f[k - 1] + terms[k]]
             sum == CHOOSE f : Is(f)
  <2>1. j \in Nat /\ (j + 1) - 1 = j
    OBVIOUS
  <2>2. Is([k \in 0 .. j |-> g[k]])
    <3>1. \A k \in 0 .. j : k = 0 \/ (k \in 1 .. n /\ k - 1 \in 0 .. j)
      BY <2>1
    <3>2. \A k \in 0 .. j : g[k] = IF k = 0 THEN 0 ELSE g[k - 1] + terms[k]
      BY <3>1, <1>2, <1>3
    <3> QED
      BY <3>1, <3>2
  <2>3. Is(sum)
    BY <2>2
  <2>4. sum[0] = 0 /\ \A k \in 1 .. j : sum[k] = sum[k - 1] + terms[k]
    <3> HIDE DEF sum
    <3>1. \A k \in 0 .. j : sum[k] = IF k = 0 THEN 0 ELSE sum[k - 1] + terms[k]
      BY <2>3
    <3> QED
      BY <3>1, <2>1
  <2> DEFINE S == {k \in 0 .. j : sum[k] = g[k]}
  <2>5. 0 \in S
    BY <1>2, <2>4, <2>1
  <2>6. \A k \in 0 .. j - 1 : k \in S => k + 1 \in S
    <3>1. ASSUME NEW k \in 0 .. j - 1, k \in S PROVE k + 1 \in S
      <4>1. k + 1 \in 1 .. j /\ (k + 1) - 1 = k /\ k + 1 \in 0 .. j /\ k + 1 \in 1 .. n
        BY <2>1
      <4> QED
        BY <3>1, <4>1, <1>3, <2>4
    <3> QED
      BY <3>1
  <2>7. j \in S
    <3> HIDE DEF S, sum
    <3>1. \A k \in 0 .. j : k \in S
      BY <2>1, <2>5, <2>6, UpTo, Zenon
    <3> QED
      BY <3>1, <2>1
  <2>8. Summed(j + 1, terms) = sum[j]
    BY <2>1 DEF Summed
  <2> QED
    BY <2>7, <2>8
<1>5. 0 \in 0 .. n /\ 0 + 1 = 1 /\ \A k \in 1 .. n : k \in 0 .. n /\ k - 1 \in 0 .. n /\ (k - 1) + 1 = k
  OBVIOUS
<1>6. Summed(1, terms) = 0
  BY <1>2, <1>4, <1>5
<1>7. ASSUME NEW k \in 1 .. n PROVE Summed(k + 1, terms) = Summed(k, terms) + terms[k]
  BY <1>3, <1>4, <1>5
<1> QED
  BY <1>2, <1>4, <1>6, <1>7

(* The places of a number in a base.                                       *)
Places(m, base, s) ==
    /\ \A k \in 0 .. m : s[k] \in Nat /\ s[k] > 0
    /\ s[m] = 1
    /\ \A k \in 1 .. m : s[k - 1] = base * s[k]

LEMMA CommonFactor ==
    ASSUME NEW b \in Nat, NEW x \in Nat, NEW y \in Nat, NEW z \in Nat
    PROVE  (b * x) * z + y * x = x * (b * z + y) /\ b * z + y \in Nat
<1>1. (b * x) * z = x * (b * z) /\ y * x = x * y
  OBVIOUS
<1>2. b * z \in Nat
  OBVIOUS
<1> DEFINE w == b * z
<1>3. w \in Nat
  BY <1>2
<1> HIDE DEF w
<1>4. x * (w + y) = x * w + x * y /\ w + y \in Nat
  BY <1>3
<1> QED
  BY <1>1, <1>4 DEF w

Digits(m, base, s, q, terms) ==
    \A k \in 1 .. m : q[k] \in Nat /\ q[k] < base /\ terms[k] = q[k] * s[k]

(* A number put together from digits has these digits.                     *)
LEMMA Expansion ==
    ASSUME NEW m \in Nat, NEW base \in Nat \ {0}, NEW s, Places(m, base, s),
           NEW q, NEW terms, Digits(m, base, s, q, terms),
           NEW v, v = Summed(m + 1, terms)
    PROVE  /\ v \in Nat /\ v < s[0] /\ v \div s[0] = 0
           /\ \A k \in 0 .. m : v \div s[k] \in Nat
           /\ \A k \in 1 .. m : v \div s[k] = base * (v \div s[k - 1]) + q[k]
           /\ \A k \in 1 .. m : (v \div s[k]) % base = q[k]
<1> DEFINE g == [k \in 0 .. m |-> Summed(k + 1, terms)]
           step == [x \in (1 .. m) \X Int |-> base * x[2] + q[x[1]]]
<1>1. \A k \in 1 .. m : k \in 0 .. m /\ k - 1 \in 0 .. m /\ (k - 1) + 1 = k
      /\ s[k] \in Nat /\ s[k] > 0 /\ s[k - 1] = base * s[k] /\ q[k] \in Nat /\ q[k] <= base - 1
      /\ terms[k] = q[k] * s[k]
  BY DEF Places, Digits
<1>2. \A k \in 0 .. m : s[k] \in Nat /\ s[k] > 0
  BY DEF Places
<1>3. g[0] = 0 /\ g \in [0 .. m -> Int] /\ \A k \in 1 .. m : g[k] = g[k - 1] + q[k] * s[k]
  <2>1. \A k \in 1 .. m : terms[k] \in Int
    BY <1>1
  <2>2. /\ Summed(1, terms) = 0
        /\ \A k \in 1 .. m : Summed(k + 1, terms) = Summed(k, terms) + terms[k]
        /\ \A k \in 0 .. m : Summed(k + 1, terms) \in Int
    BY <2>1, SumIs
  <2>3. g \in [0 .. m -> Int]
    BY <2>2
  <2>4. g[0] = 0
    <3>1. 0 \in 0 .. m /\ 0 + 1 = 1
      OBVIOUS
    <3> QED
      BY <3>1, <2>2
  <2>5. ASSUME NEW k \in 1 .. m PROVE g[k] = g[k - 1] + q[k] * s[k]
    <3>1. g[k] = Summed(k + 1, terms) /\ g[k - 1] = Summed(k, terms)
      BY <1>1
    <3>2. terms[k] = q[k] * s[k]
      BY <1>1
    <3> QED
      BY <3>1, <3>2, <2>2
  <2> QED
    BY <2>3, <2>4, <2>5
<1>4. v = g[m]
  OBVIOUS
<1> HIDE DEF g
<1>5. PICK c \in [0 .. m -> Int] : c[0] = 0 /\ \A k \in 1 .. m : c[k] = step[<<k, c[k - 1]>>]
  <2>1. step \in [(1 .. m) \X Int -> Int]
    BY <1>1
  <2> HIDE DEF step
  <2>2. 0 \in Int
    OBVIOUS
  <2> QED
    BY <2>1, <2>2, RecursionExists, Zenon
<1>6. \A k \in 1 .. m : c[k] = base * c[k - 1] + q[k]
  <2>1. \A k \in 1 .. m : <<k, c[k - 1]>> \in (1 .. m) \X Int
    BY <1>5
  <2> QED
    BY <2>1, <1>5
<1> HIDE DEF step
<1> DEFINE S == {k \in 0 .. m : c[k] \in Nat /\ g[k] = s[k] * c[k]}
<1>7. 0 \in S
  BY <1>2, <1>3, <1>5
<1>8. \A k \in 0 .. m - 1 : k \in S => k + 1 \in S
  <2>1. ASSUME NEW k \in 0 .. m - 1, k \in S PROVE k + 1 \in S
    <3>1. k + 1 \in 1 .. m /\ (k + 1) - 1 = k /\ k + 1 \in 0 .. m /\ k \in 0 .. m
      OBVIOUS
    <3> DEFINE x == s[k + 1]
               y == q[k + 1]
               z == c[k]
    <3>2. /\ g[k + 1] = g[k] + y * x /\ c[k + 1] = base * z + y
          /\ s[k] = base * x /\ z \in Nat /\ g[k] = s[k] * z /\ x \in Nat /\ y \in Nat
      BY <2>1, <3>1, <1>1, <1>3, <1>6
    <3> HIDE DEF x, y, z
    <3>3. (base * x) * z + y * x = x * (base * z + y) /\ base * z + y \in Nat
      <4>1. base \in Nat /\ x \in Nat /\ y \in Nat /\ z \in Nat
        BY <3>2
      <4> QED
        BY <4>1, CommonFactor
    <3>4. c[k + 1] \in Nat /\ g[k + 1] = s[k + 1] * c[k + 1]
      BY <3>2, <3>3 DEF x
    <3> QED
      BY <3>1, <3>4
  <2> QED
    BY <2>1
<1>9. \A k \in 0 .. m : c[k] \in Nat /\ g[k] = s[k] * c[k]
  <2> HIDE DEF S
  <2>1. \A k \in 0 .. m : k \in S
    BY <1>7, <1>8, UpTo, Zenon
  <2> QED
    BY <2>1 DEF S
<1> HIDE DEF S
<1>10. ASSUME NEW j \in 0 .. m PROVE g[j] <= g[m] /\ g[m] < g[j] + s[j]
  <2> DEFINE R == {i \in 0 .. m - j : g[j] <= g[j + i] /\ g[j + i] <= g[j] + s[j] - s[j + i]}
  <2>1. m - j \in Nat /\ 0 \in 0 .. m - j /\ m - j \in 0 .. m - j /\ j + (m - j) = m /\ j + 0 = j
    OBVIOUS
  <2>2. 0 \in R
    BY <2>1, <1>2, <1>3
  <2>3. \A i \in 0 .. (m - j) - 1 : i \in R => i + 1 \in R
    <3>1. ASSUME NEW i \in 0 .. (m - j) - 1, i \in R PROVE i + 1 \in R
      <4>1. /\ j + i \in 0 .. m /\ (j + i) + 1 \in 1 .. m /\ ((j + i) + 1) - 1 = j + i
            /\ i + 1 \in 0 .. m - j /\ j + (i + 1) = (j + i) + 1 /\ (j + i) + 1 \in 0 .. m
        OBVIOUS
      <4> DEFINE x == s[(j + i) + 1]
                 y == q[(j + i) + 1]
      <4>2. /\ g[(j + i) + 1] = g[j + i] + y * x /\ s[j + i] = base * x
            /\ x \in Nat /\ y \in Nat /\ y <= base - 1
        BY <4>1, <1>1, <1>3
      <4>3. g[j] <= g[j + i] /\ g[j + i] <= g[j] + s[j] - s[j + i]
        BY <3>1
      <4> HIDE DEF x, y
      <4>4. y * x <= (base - 1) * x /\ (base - 1) * x = base * x - x /\ 0 <= y * x
            /\ y * x \in Int /\ base * x \in Int
        <5>1. y * x <= (base - 1) * x
          BY <4>2, ProductMonotone
        <5> QED
          BY <5>1, <4>2
      <4>5. g[j] \in Int /\ g[j + i] \in Int /\ s[j] \in Int /\ g[(j + i) + 1] \in Int
        BY <1>2, <1>3, <4>1
      <4>6. g[j] <= g[(j + i) + 1] /\ g[(j + i) + 1] <= g[j] + s[j] - x
        <5> DEFINE gj == g[j]
                   gi == g[j + i]
                   gn == g[(j + i) + 1]
                   sj == s[j]
                   bx == base * x
                   yx == y * x
        <5>1. /\ gj \in Int /\ gi \in Int /\ gn \in Int /\ sj \in Int /\ x \in Int
              /\ bx \in Int /\ yx \in Int /\ gn = gi + yx /\ yx <= bx - x /\ 0 <= yx
              /\ gj <= gi /\ gi <= gj + sj - bx
          BY <4>2, <4>3, <4>4, <4>5
        <5> HIDE DEF gj, gi, gn, sj, bx, yx
        <5>2. gj <= gn /\ gn <= gj + sj - x
          BY <5>1
        <5> QED
          BY <5>2 DEF gj, gn, sj
      <4> QED
        BY <4>1, <4>6 DEF x
    <3> QED
      BY <3>1
  <2>4. m - j \in R
    <3> HIDE DEF R
    <3>1. \A i \in 0 .. m - j : i \in R
      BY <2>1, <2>2, <2>3, UpTo, Zenon
    <3> QED
      BY <3>1, <2>1
  <2>5. s[m] = 1 /\ s[j] \in Int /\ g[j] \in Int /\ g[m] \in Int
    BY <1>2, <1>3 DEF Places
  <2> QED
    BY <2>1, <2>4, <2>5
<1>11. v \in Nat
  <2>1. 0 \in 0 .. m /\ m \in 0 .. m
    OBVIOUS
  <2> QED
    BY <2>1, <1>3, <1>4, <1>10
<1>12. ASSUME NEW k \in 0 .. m PROVE v \div s[k] = c[k]
  <2>1. s[k] \in Nat /\ s[k] > 0 /\ c[k] \in Nat /\ s[k] * c[k] <= v /\ v < s[k] * c[k] + s[k]
    BY <1>2, <1>4, <1>9, <1>10
  <2> QED
    BY <2>1, <1>11, DivUnique, Zenon
<1>13. v < s[0] /\ v \div s[0] = 0
  <2>1. 0 \in 0 .. m
    OBVIOUS
  <2>2. g[m] < g[0] + s[0]
    BY <2>1, <1>10
  <2> QED
    BY <2>1, <2>2, <1>2, <1>3, <1>4, <1>5, <1>12
<1>14. ASSUME NEW k \in 1 .. m
       PROVE  v \div s[k] = base * (v \div s[k - 1]) + q[k] /\ (v \div s[k]) % base = q[k]
  <2>1. k \in 0 .. m /\ k - 1 \in 0 .. m /\ q[k] \in Nat /\ q[k] < base
    BY <1>1
  <2>2. v \div s[k] = c[k] /\ v \div s[k - 1] = c[k - 1] /\ c[k] = base * c[k - 1] + q[k]
        /\ c[k - 1] \in Nat
    BY <2>1, <1>6, <1>9, <1>12
  <2>3. (base * c[k - 1] + q[k]) % base = q[k]
    <3> DEFINE x == c[k - 1]
               y == base * x + q[k]
    <3>1. x \in Nat /\ y \in Nat /\ base > 0 /\ base \in Nat /\ base * x \in Nat
          /\ base * x <= y /\ y < base * x + base
      BY <2>1, <2>2
    <3> HIDE DEF x
    <3>2. y \div base = x
      <4> HIDE DEF y
      <4> QED
        BY <3>1, DivUnique, Zenon
    <3>3. y = base * (y \div base) + (y % base) /\ y % base \in Nat
      <4> HIDE DEF y
      <4> QED
        BY <3>1, DivBounds, Zenon
    <3>4. y % base = q[k]
      <4>1. y = base * x + q[k] /\ q[k] \in Nat
        BY <2>1
      <4> DEFINE u == y \div base
                 w == y % base
                 bx == base * x
      <4>2. u = x /\ y = base * u + w /\ w \in Nat /\ bx = base * u /\ bx \in Nat /\ y = bx + q[k]
        BY <3>1, <3>2, <3>3, <4>1
      <4> HIDE DEF y, u, w, bx
      <4>3. y = bx + w
        BY <4>2
      <4>4. w = q[k]
        BY <4>1, <4>2, <4>3
      <4> QED
        BY <4>4 DEF w
    <3> QED
      BY <3>4 DEF x
  <2> QED
    BY <2>2, <2>3
<1> QED
  BY <1>9, <1>11, <1>12, <1>13, <1>14

DigitsOf(m, base, s, v, terms) == \A k \in 1 .. m : terms[k] = ((v \div s[k]) % base) * s[k]

(* The digits of a number put together are the number.                     *)
LEMMA Composition ==
    ASSUME NEW m \in Nat, NEW base \in Nat \ {0}, NEW s, Places(m, base, s),
           NEW v \in Nat, v < s[0], NEW terms, DigitsOf(m, base, s, v, terms)
    PROVE  Summed(m + 1, terms) = v
<1>1. \A k \in 1 .. m : k \in 0 .. m /\ k - 1 \in 0 .. m /\ (k - 1) + 1 = k
      /\ s[k] \in Nat /\ s[k] > 0 /\ s[k - 1] = base * s[k]
  BY DEF Places
<1>2. \A k \in 0 .. m : s[k] \in Nat /\ s[k] > 0
  BY DEF Places
<1>3. \A k \in 0 .. m : v \div s[k] \in Nat /\ v % s[k] \in Nat /\ v % s[k] < s[k]
                        /\ v = s[k] * (v \div s[k]) + (v % s[k])
  BY <1>2, DivBounds
<1>4. \A k \in 1 .. m : (v \div s[k]) % base \in 0 .. base - 1
  <2>1. ASSUME NEW k \in 1 .. m PROVE (v \div s[k]) % base \in 0 .. base - 1
    <3>1. v \div s[k] \in Nat
      BY <1>1, <1>3
    <3> QED
      BY <3>1
  <2> QED
    BY <2>1
<1>5. /\ Summed(1, terms) = 0
      /\ \A k \in 1 .. m : Summed(k + 1, terms) = Summed(k, terms) + terms[k]
  <2>1. \A k \in 1 .. m : terms[k] \in Int
    BY <1>1, <1>4 DEF DigitsOf
  <2> QED
    BY <2>1, SumIs
<1> DEFINE S == {k \in 0 .. m : Summed(k + 1, terms) = s[k] * (v \div s[k])}
<1>6. 0 \in S
  <2>1. 0 \in 0 .. m /\ 0 + 1 = 1 /\ s[0] * 0 <= v /\ v < s[0] * 0 + s[0] /\ 0 \in Nat
    BY <1>2
  <2>2. v \div s[0] = 0
    BY <2>1, <1>2, DivUnique, Zenon
  <2> QED
    BY <2>1, <2>2, <1>2, <1>5
<1>7. \A k \in 0 .. m - 1 : k \in S => k + 1 \in S
  <2>1. ASSUME NEW k \in 0 .. m - 1, k \in S PROVE k + 1 \in S
    <3>1. k + 1 \in 1 .. m /\ (k + 1) - 1 = k /\ k + 1 \in 0 .. m /\ k \in 0 .. m
      OBVIOUS
    <3> DEFINE x == s[k + 1]
               y == v \div x
               z == y \div base
               r == y % base
               u == v % x
    <3>2. x \in Nat /\ x > 0 /\ s[k] = base * x /\ y \in Nat /\ u \in Nat /\ u < x /\ v = x * y + u
      BY <3>1, <1>1, <1>3
    <3>3. z \in Nat /\ r \in Nat /\ r < base /\ y = base * z + r
      <4>1. base \in Nat /\ base > 0
        OBVIOUS
      <4> HIDE DEF y
      <4> QED
        BY <3>2, <4>1, DivBounds, Zenon
    <3>4. v \div s[k] = z
      <4> HIDE DEF x, y, z, r, u
      <4>1. x * y = (base * x) * z + r * x /\ (base * x) * z \in Nat /\ r * x \in Nat
            /\ base * x \in Nat
        BY <3>2, <3>3
      <4>2. r * x <= (base - 1) * x /\ (base - 1) * x = base * x - x
        <5>1. r <= base - 1 /\ r \in Int /\ base - 1 \in Int
          BY <3>3
        <5> QED
          BY <5>1, <3>2, ProductMonotone
      <4>3. (base * x) * z <= v /\ v < (base * x) * z + base * x
        BY <4>1, <4>2, <3>2
      <4>4. base * x > 0
        BY <1>2, <3>1, <3>2
      <4> QED
        BY <4>1, <4>3, <4>4, <3>2, <3>3, DivUnique, Zenon
    <3>5. Summed((k + 1) + 1, terms) = s[k] * z + r * x
      BY <2>1, <3>1, <3>4, <1>5 DEF DigitsOf
    <3> HIDE DEF x, y, z, r, u
    <3>6. (base * x) * z + r * x = x * (base * z + r)
      <4>1. base \in Nat /\ x \in Nat /\ r \in Nat /\ z \in Nat
        BY <3>2, <3>3
      <4> QED
        BY <4>1, CommonFactor
    <3>7. Summed((k + 1) + 1, terms) = x * y
      BY <3>2, <3>3, <3>5, <3>6
    <3> QED
      BY <3>1, <3>7 DEF x, y
  <2> QED
    BY <2>1
<1>8. m \in S
  <2> HIDE DEF S
  <2>1. \A k \in 0 .. m : k \in S
    BY <1>6, <1>7, UpTo, Zenon
  <2> QED
    BY <2>1
<1>9. s[m] = 1 /\ v \div 1 = v
  BY DEF Places
<1> QED
  BY <1>8, <1>9

(* The sides of the blocks of a quad tree and their areas are places.      *)
LEMMA SidesArePlaces ==
    ASSUME NEW m \in Nat
    PROVE  /\ Places(m, 2, [k \in 0 .. m |-> side(m + 1, k)])
           /\ Places(m, 4, [k \in 0 .. m |-> area(m + 1, k)])
           /\ \A k \in 0 .. m : side(m + 1, k) \in Nat /\ side(m + 1, k) > 0
           /\ \A k \in 0 .. m : area(m + 1, k) \in Nat /\ area(m + 1, k) > 0
<1> DEFINE s == [k \in 0 .. m |-> side(m + 1, k)]
           t == [k \in 0 .. m |-> area(m + 1, k)]
<1>1. \A k \in 0 .. m : (m + 1) - 1 - k = m - k /\ m - k \in Nat
  OBVIOUS
<1>2. \A k \in 0 .. m : side(m + 1, k) = Doubled(m - k)
  BY <1>1 DEF side
<1>3. \A k \in 0 .. m : side(m + 1, k) \in Nat /\ side(m + 1, k) > 0
  BY <1>1, <1>2, DoubledGrows
<1>4. m \in 0 .. m /\ m - m = 0 /\ \A k \in 1 .. m : k \in 0 .. m /\ k - 1 \in 0 .. m
                                     /\ m - (k - 1) = (m - k) + 1
  OBVIOUS
<1>5. side(m + 1, m) = 1
  BY <1>2, <1>4, DoubledGrows
<1>6. \A k \in 1 .. m : side(m + 1, k - 1) = 2 * side(m + 1, k)
  BY <1>1, <1>2, <1>4, DoubledGrows
<1>7. Places(m, 2, s)
  BY <1>3, <1>4, <1>5, <1>6 DEF Places
<1>8. \A n \in Nat : n > 0 => n * n \in Nat /\ n * n > 0 /\ (2 * n) * (2 * n) = 4 * (n * n)
  OBVIOUS
<1>9. \A k \in 0 .. m : area(m + 1, k) \in Nat /\ area(m + 1, k) > 0
  BY <1>3, <1>8 DEF area
<1>10. area(m + 1, m) = 1
  BY <1>5 DEF area
<1>11. \A k \in 1 .. m : area(m + 1, k - 1) = 4 * area(m + 1, k)
  BY <1>3, <1>4, <1>6, <1>8 DEF area
<1>12. Places(m, 4, t)
  BY <1>4, <1>9, <1>10, <1>11 DEF Places
<1> QED
  BY <1>3, <1>7, <1>9, <1>12

(* The quarters of an address and of a position.                           *)
LEMMA QuarterType ==
    ASSUME NEW m \in Nat, NEW x \in Nat, NEW y \in Nat, NEW k \in 0 .. m
    PROVE  /\ Quarter(m + 1, k, <<x, y>>) \in 0 .. 3
           /\ Quarter(m + 1, k, <<x, y>>) % 2 = (x \div side(m + 1, k)) % 2
           /\ Quarter(m + 1, k, <<x, y>>) \div 2 = (y \div side(m + 1, k)) % 2
<1> DEFINE s == side(m + 1, k)
           u == x \div s
           v == y \div s
<1>1. s \in Nat /\ s > 0
  BY SidesArePlaces
<1>2. u \in Nat /\ v \in Nat
  <2> HIDE DEF s
  <2> QED
    BY <1>1, DivBounds
<1>3. Quarter(m + 1, k, <<x, y>>) = (u % 2) + 2 * (v % 2)
  BY DEF Quarter
<1> HIDE DEF u, v
<1>4. (u % 2) \in 0 .. 1 /\ (v % 2) \in 0 .. 1
  BY <1>2
<1> QED
  BY <1>3, <1>4 DEF u, v

(* In z-scan a position and its address determine each other.              *)
LEMMA CoordOfAddr ==
    ASSUME NEW m \in Nat, NEW x \in 0 .. side(m + 1, 0) - 1, NEW y \in 0 .. side(m + 1, 0) - 1,
           NEW a, a = toAddrScanZ(m + 1, <<x, y>>)
    PROVE  /\ a \in Nat /\ a < area(m + 1, 0) /\ a \div area(m + 1, 0) = 0
           /\ \A k \in 0 .. m : a \div area(m + 1, k) \in Nat
           /\ \A k \in 1 .. m : a \div area(m + 1, k) =
                4 * (a \div area(m + 1, k - 1)) + Quarter(m + 1, k, <<x, y>>)
           /\ toCoordScanZ(m + 1, a) = <<x, y>>
<1> DEFINE s == [k \in 0 .. m |-> side(m + 1, k)]
           t == [k \in 0 .. m |-> area(m + 1, k)]
           q == [k \in 1 .. m |-> Quarter(m + 1, k, <<x, y>>)]
           terms == [k \in 1 .. m |-> Quarter(m + 1, k, <<x, y>>) * area(m + 1, k)]
           xs == [k \in 1 .. m |-> (((a \div area(m + 1, k)) % 4) % 2) * side(m + 1, k)]
           ys == [k \in 1 .. m |-> (((a \div area(m + 1, k)) % 4) \div 2) * side(m + 1, k)]
<1>1. /\ Places(m, 2, s) /\ Places(m, 4, t)
      /\ \A k \in 0 .. m : side(m + 1, k) \in Nat /\ side(m + 1, k) > 0
  BY SidesArePlaces
<1>2. x \in Nat /\ y \in Nat /\ (m + 1) - 1 = m /\ 0 \in 0 .. m
      /\ \A k \in 1 .. m : k \in 0 .. m /\ k - 1 \in 0 .. m
  BY <1>1
<1>3. \A k \in 0 .. m : /\ Quarter(m + 1, k, <<x, y>>) \in 0 .. 3
                        /\ Quarter(m + 1, k, <<x, y>>) % 2 = (x \div side(m + 1, k)) % 2
                        /\ Quarter(m + 1, k, <<x, y>>) \div 2 = (y \div side(m + 1, k)) % 2
  BY <1>2, QuarterType
<1>4. a = Summed(m + 1, terms)
  BY <1>2 DEF toAddrScanZ
<1>5. Digits(m, 4, t, q, terms)
  BY <1>2, <1>3 DEF Digits
<1>6. toCoordScanZ(m + 1, a) = <<Summed(m + 1, xs), Summed(m + 1, ys)>>
  BY <1>2 DEF toCoordScanZ
<1>7. /\ a \in Nat /\ a < t[0] /\ a \div t[0] = 0
      /\ \A k \in 0 .. m : a \div t[k] \in Nat
      /\ \A k \in 1 .. m : a \div t[k] = 4 * (a \div t[k - 1]) + q[k]
      /\ \A k \in 1 .. m : (a \div t[k]) % 4 = q[k]
  <2> HIDE DEF q, t, terms
  <2>1. 4 \in Nat \ {0} /\ Places(m, 4, t)
    BY <1>1
  <2> HIDE DEF s, xs, ys
  <2> QED
    BY <2>1, <1>4, <1>5, Expansion
<1>8. /\ a < area(m + 1, 0) /\ a \div area(m + 1, 0) = 0
      /\ \A k \in 0 .. m : a \div area(m + 1, k) \in Nat
      /\ \A k \in 1 .. m : a \div area(m + 1, k) =
                4 * (a \div area(m + 1, k - 1)) + Quarter(m + 1, k, <<x, y>>)
      /\ \A k \in 1 .. m : (a \div area(m + 1, k)) % 4 = Quarter(m + 1, k, <<x, y>>)
  <2>1. \A k \in 0 .. m : t[k] = area(m + 1, k)
    OBVIOUS
  <2>2. \A k \in 1 .. m : q[k] = Quarter(m + 1, k, <<x, y>>)
    OBVIOUS
  <2> HIDE DEF q, t, terms, xs, ys
  <2> QED
    BY <1>2, <1>7, <2>1, <2>2
<1>9. DigitsOf(m, 2, s, x, xs) /\ DigitsOf(m, 2, s, y, ys)
  <2>1. ASSUME NEW k \in 1 .. m
        PROVE  xs[k] = ((x \div s[k]) % 2) * s[k] /\ ys[k] = ((y \div s[k]) % 2) * s[k]
    <3>1. /\ xs[k] = (((a \div area(m + 1, k)) % 4) % 2) * side(m + 1, k)
          /\ ys[k] = (((a \div area(m + 1, k)) % 4) \div 2) * side(m + 1, k)
          /\ s[k] = side(m + 1, k)
      BY <1>2
    <3> QED
      BY <3>1, <1>2, <1>3, <1>8
  <2> QED
    BY <2>1 DEF DigitsOf
<1>10. x < s[0] /\ y < s[0]
  BY <1>1, <1>2
<1>11. Summed(m + 1, xs) = x /\ Summed(m + 1, ys) = y
  <2> HIDE DEF s, xs, ys
  <2>1. 2 \in Nat \ {0}
    OBVIOUS
  <2>2. Summed(m + 1, xs) = x
    BY <2>1, <1>1, <1>2, <1>9, <1>10, Composition
  <2>3. Summed(m + 1, ys) = y
    BY <2>1, <1>1, <1>2, <1>9, <1>10, Composition
  <2> QED
    BY <2>2, <2>3
<1> QED
  BY <1>6, <1>7, <1>8, <1>11

LEMMA AddrOfCoord ==
    ASSUME NEW m \in Nat, NEW a \in Nat, a < area(m + 1, 0)
    PROVE  /\ toCoordScanZ(m + 1, a)[1] \in 0 .. side(m + 1, 0) - 1
           /\ toCoordScanZ(m + 1, a)[2] \in 0 .. side(m + 1, 0) - 1
           /\ toCoordScanZ(m + 1, a) = <<toCoordScanZ(m + 1, a)[1], toCoordScanZ(m + 1, a)[2]>>
           /\ toAddrScanZ(m + 1, toCoordScanZ(m + 1, a)) = a
<1> DEFINE s == [k \in 0 .. m |-> side(m + 1, k)]
           t == [k \in 0 .. m |-> area(m + 1, k)]
           q == [k \in 1 .. m |-> (a \div area(m + 1, k)) % 4]
           xq == [k \in 1 .. m |-> q[k] % 2]
           yq == [k \in 1 .. m |-> q[k] \div 2]
           xs == [k \in 1 .. m |-> (((a \div area(m + 1, k)) % 4) % 2) * side(m + 1, k)]
           ys == [k \in 1 .. m |-> (((a \div area(m + 1, k)) % 4) \div 2) * side(m + 1, k)]
           x == Summed(m + 1, xs)
           y == Summed(m + 1, ys)
           terms == [k \in 1 .. m |-> Quarter(m + 1, k, <<x, y>>) * area(m + 1, k)]
<1>1. /\ Places(m, 2, s) /\ Places(m, 4, t)
      /\ \A k \in 0 .. m : side(m + 1, k) \in Nat /\ side(m + 1, k) > 0
      /\ \A k \in 0 .. m : area(m + 1, k) \in Nat /\ area(m + 1, k) > 0
  BY SidesArePlaces
<1>2. (m + 1) - 1 = m /\ 0 \in 0 .. m /\ \A k \in 1 .. m : k \in 0 .. m /\ k - 1 \in 0 .. m
  OBVIOUS
<1>3. toCoordScanZ(m + 1, a) = <<x, y>>
  BY <1>2 DEF toCoordScanZ
<1>4. \A k \in 1 .. m : q[k] \in 0 .. 3
  <2>1. ASSUME NEW k \in 1 .. m PROVE q[k] \in 0 .. 3
    <3> DEFINE u == a \div area(m + 1, k)
    <3>1. u \in Nat
      BY <1>1, <1>2, DivBounds
    <3>2. q[k] = u % 4
      OBVIOUS
    <3> HIDE DEF u, q
    <3> QED
      BY <3>1, <3>2
  <2> QED
    BY <2>1
<1>5. \A k \in 1 .. m : xq[k] \in Nat /\ xq[k] < 2 /\ yq[k] \in Nat /\ yq[k] < 2 /\ q[k] = xq[k] + 2 * yq[k]
  <2>1. \A n \in 0 .. 3 : n % 2 \in Nat /\ n % 2 < 2 /\ n \div 2 \in Nat /\ n \div 2 < 2
                          /\ n = (n % 2) + 2 * (n \div 2)
    OBVIOUS
  <2>2. \A k \in 1 .. m : xq[k] = q[k] % 2 /\ yq[k] = q[k] \div 2
    OBVIOUS
  <2> HIDE DEF q, xq, yq
  <2> QED
    BY <2>1, <2>2, <1>4
<1>6. Digits(m, 2, s, xq, xs) /\ Digits(m, 2, s, yq, ys)
  <2>1. \A k \in 1 .. m : xs[k] = xq[k] * s[k] /\ ys[k] = yq[k] * s[k]
    BY <1>2
  <2> HIDE DEF s, q, xq, yq, xs, ys
  <2> QED
    BY <2>1, <1>5 DEF Digits
<1>7. /\ x \in Nat /\ x < s[0] /\ \A k \in 1 .. m : (x \div s[k]) % 2 = xq[k]
      /\ y \in Nat /\ y < s[0] /\ \A k \in 1 .. m : (y \div s[k]) % 2 = yq[k]
  <2> DEFINE x1 == x
             y1 == y
  <2>1. 2 \in Nat \ {0} /\ x1 = Summed(m + 1, xs) /\ y1 = Summed(m + 1, ys)
    OBVIOUS
  <2> HIDE DEF s, xs, ys, xq, yq, x1, y1
  <2>2. x1 \in Nat /\ x1 < s[0] /\ \A k \in 1 .. m : (x1 \div s[k]) % 2 = xq[k]
    BY <2>1, <1>1, <1>6, Expansion
  <2>3. y1 \in Nat /\ y1 < s[0] /\ \A k \in 1 .. m : (y1 \div s[k]) % 2 = yq[k]
    BY <2>1, <1>1, <1>6, Expansion
  <2> QED
    BY <2>2, <2>3 DEF x1, y1
<1> HIDE DEF x, y
<1>8. \A k \in 1 .. m : Quarter(m + 1, k, <<x, y>>) = q[k]
  <2>1. ASSUME NEW k \in 1 .. m PROVE Quarter(m + 1, k, <<x, y>>) = q[k]
    <3>1. Quarter(m + 1, k, <<x, y>>) = ((x \div s[k]) % 2) + 2 * ((y \div s[k]) % 2)
      BY <1>2 DEF Quarter
    <3> HIDE DEF s, q, xq, yq
    <3> QED
      BY <3>1, <1>5, <1>7
  <2> QED
    BY <2>1
<1>9. toAddrScanZ(m + 1, <<x, y>>) = Summed(m + 1, terms)
  BY <1>2 DEF toAddrScanZ
<1>10. DigitsOf(m, 4, t, a, terms)
  <2>1. \A k \in 1 .. m : terms[k] = Quarter(m + 1, k, <<x, y>>) * area(m + 1, k)
                          /\ t[k] = area(m + 1, k) /\ q[k] = (a \div area(m + 1, k)) % 4
    BY <1>2
  <2> HIDE DEF terms, t, q
  <2> QED
    BY <2>1, <1>8 DEF DigitsOf
<1>11. Summed(m + 1, terms) = a
  <2>1. 4 \in Nat \ {0} /\ a < t[0]
    BY <1>2
  <2> HIDE DEF terms, t
  <2> QED
    BY <2>1, <1>1, <1>10, Composition
<1>12. s[0] = side(m + 1, 0)
  BY <1>2
<1> QED
  <2> HIDE DEF s, t, q, xq, yq, xs, ys, terms
  <2>1. x \in 0 .. side(m + 1, 0) - 1 /\ y \in 0 .. side(m + 1, 0) - 1
    BY <1>1, <1>2, <1>7, <1>12
  <2>2. toCoordScanZ(m + 1, a)[1] = x /\ toCoordScanZ(m + 1, a)[2] = y
    BY <1>3
  <2> QED
    BY <2>1, <2>2, <1>3, <1>9, <1>11

-------------------------------------------------------------------------------
(* The z-scan of the blocks.  The cells of a level are numbered in z-scan  *)
(* as blocks are.                                                          *)
Z(b) == toAddrScanZ(Levels, offsetInCtb(b))

ZCell(d, b) == Z(b) \div area(Levels, d)

LEMMA Areas ==
    /\ Levels = CtbDepth + 1 /\ CtbDepth \in Nat
    /\ \A d \in 0 .. CtbDepth : area(Levels, d) \in Nat /\ area(Levels, d) > 0
    /\ area(Levels, CtbDepth) = 1
    /\ area(Levels, 0) = CtbSize * CtbSize /\ CtbSize * CtbSize \in Nat
    /\ CtbSize \in Nat /\ CtbSize > 0 /\ side(Levels, 0) = CtbSize
<1>1. Levels = CtbDepth + 1 /\ CtbDepth \in Nat
  BY Sizes DEF Levels
<1>2. \A d \in 0 .. CtbDepth : area(Levels, d) \in Nat /\ area(Levels, d) > 0
  BY <1>1, SidesArePlaces
<1>3. CtbDepth \in 0 .. CtbDepth /\ 0 \in 0 .. CtbDepth
  BY <1>1
<1>4. area(Levels, CtbDepth) = 1
  <2>1. side(Levels, CtbDepth) = 1
    BY Sizes DEF sizeAt
  <2> QED
    BY <2>1 DEF area
<1>5. CtbSize \in Nat /\ CtbSize > 0 /\ side(Levels, 0) = CtbSize
  BY <1>3, Sizes DEF CtbSize, sizeAt
<1>6. area(Levels, 0) = CtbSize * CtbSize /\ CtbSize * CtbSize \in Nat
  BY <1>5 DEF area
<1> QED
  BY <1>1, <1>2, <1>4, <1>5, <1>6

LEMMA ZCellIs ==
    ASSUME NEW b \in Block
    PROVE  /\ Z(b) \in Nat /\ Z(b) < CtbSize * CtbSize
           /\ \A d \in 0 .. CtbDepth : ZCell(d, b) \in Nat
           /\ ZCell(0, b) = 0 /\ ZCell(CtbDepth, b) = Z(b)
           /\ \A d \in 1 .. CtbDepth : ZCell(d, b) = 4 * ZCell(d - 1, b) + QuarterOf(d, b)
<1> DEFINE x == b[1] % CtbSize
           y == b[2] % CtbSize
<1>1. b[1] \in Nat /\ b[2] \in Nat
  BY BlockType
<1>2. x \in 0 .. side(Levels, 0) - 1 /\ y \in 0 .. side(Levels, 0) - 1
  BY <1>1, Areas
<1>3. offsetInCtb(b) = <<x, y>>
  BY DEF offsetInCtb
<1>4. Z(b) = toAddrScanZ(CtbDepth + 1, <<x, y>>)
  BY <1>3, Areas DEF Z
<1> DEFINE a == Z(b)
           m == CtbDepth
<1> HIDE DEF x, y
<1>5. /\ a \in Nat /\ a < area(m + 1, 0) /\ a \div area(m + 1, 0) = 0
      /\ \A k \in 0 .. m : a \div area(m + 1, k) \in Nat
      /\ \A k \in 1 .. m : a \div area(m + 1, k) =
                4 * (a \div area(m + 1, k - 1)) + Quarter(m + 1, k, <<x, y>>)
  <2>1. /\ m \in Nat /\ x \in 0 .. side(m + 1, 0) - 1 /\ y \in 0 .. side(m + 1, 0) - 1
        /\ a = toAddrScanZ(m + 1, <<x, y>>)
    BY <1>2, <1>4, Areas
  <2> HIDE DEF a, m
  <2> QED
    BY <2>1, CoordOfAddr
<1>6. \A d \in 1 .. CtbDepth : Quarter(Levels, d, <<x, y>>) = QuarterOf(d, b)
  BY <1>3, QuarterIs
<1>7. \A d : ZCell(d, b) = a \div area(m + 1, d)
  BY Areas DEF ZCell
<1>8. ZCell(CtbDepth, b) = Z(b)
  <2> HIDE DEF a
  <2>1. ZCell(CtbDepth, b) = a \div 1 /\ a \div 1 = a
    BY <1>5, <1>7, Areas
  <2> QED
    BY <2>1 DEF a
<1>9. \A d \in 1 .. CtbDepth : d - 1 \in 0 .. CtbDepth /\ d \in 0 .. CtbDepth
  BY Areas
<1> HIDE DEF a
<1>10. \A d \in 1 .. CtbDepth : ZCell(d, b) = 4 * ZCell(d - 1, b) + QuarterOf(d, b)
  BY <1>5, <1>6, <1>7, Areas
<1> QED
  BY <1>5, <1>7, <1>8, <1>10, Areas DEF a

LEMMA DivMonotone ==
    ASSUME NEW s \in Nat, s > 0, NEW x \in Nat, NEW y \in Nat, x <= y
    PROVE  x \div s <= y \div s
<1> DEFINE p == x \div s
           q == y \div s
           u == x % s
           v == y % s
<1>1. p \in Nat /\ q \in Nat /\ u \in Nat /\ v \in Nat /\ u < s /\ v < s
      /\ x = s * p + u /\ y = s * q + v
  BY DivBounds
<1> HIDE DEF p, q, u, v
<1>2. SUFFICES ASSUME q + 1 <= p PROVE FALSE
  BY <1>1 DEF p, q
<1>3. (q + 1) * s <= p * s
  BY <1>1, <1>2, ProductMonotone
<1>4. (q + 1) * s = s * q + s /\ p * s = s * p /\ s * q \in Nat /\ s * p \in Nat
  BY <1>1
<1> QED
  BY <1>1, <1>3, <1>4

LEMMA ZCellMonotone ==
    ASSUME NEW a \in Block, NEW b \in Block, NEW d \in 0 .. CtbDepth
    PROVE  /\ Z(a) <= Z(b) => ZCell(d, a) <= ZCell(d, b)
           /\ ZCell(d, a) < ZCell(d, b) => Z(a) < Z(b)
<1>1. Z(a) \in Nat /\ Z(b) \in Nat /\ ZCell(d, a) \in Nat /\ ZCell(d, b) \in Nat
  BY ZCellIs
<1>2. Z(a) <= Z(b) => ZCell(d, a) <= ZCell(d, b)
  BY <1>1, Areas, DivMonotone DEF ZCell
<1>3. Z(b) <= Z(a) => ZCell(d, b) <= ZCell(d, a)
  BY <1>1, Areas, DivMonotone DEF ZCell
<1> QED
  BY <1>1, <1>2, <1>3

(* Two blocks of a unit lie in the same cell if it has the same number.    *)
LEMMA ZSameCell ==
    ASSUME NEW a \in Block, NEW b \in Block, SameCell(0, a, b), NEW d \in 0 .. CtbDepth
    PROVE  SameCell(d, a, b) <=> ZCell(d, a) = ZCell(d, b)
<1> DEFINE S == {k \in 0 .. CtbDepth : SameCell(k, a, b) <=> ZCell(k, a) = ZCell(k, b)}
<1>1. 0 \in S
  BY ZCellIs, Areas
<1>2. \A k \in 0 .. CtbDepth - 1 : k \in S => k + 1 \in S
  <2>1. ASSUME NEW k \in 0 .. CtbDepth - 1, k \in S PROVE k + 1 \in S
    <3>1. k + 1 \in 1 .. CtbDepth /\ (k + 1) - 1 = k /\ k + 1 \in 0 .. CtbDepth /\ k \in 0 .. CtbDepth
      BY Areas
    <3>2. SameCell(k + 1, a, b) <=> SameCell(k, a, b) /\ QuarterOf(k + 1, a) = QuarterOf(k + 1, b)
      BY <3>1, QuartersOfCells
    <3>3. /\ ZCell(k + 1, a) = 4 * ZCell(k, a) + QuarterOf(k + 1, a)
          /\ ZCell(k + 1, b) = 4 * ZCell(k, b) + QuarterOf(k + 1, b)
          /\ ZCell(k, a) \in Nat /\ ZCell(k, b) \in Nat
      BY <3>1, ZCellIs
    <3>4. QuarterOf(k + 1, a) \in 0 .. 3 /\ QuarterOf(k + 1, b) \in 0 .. 3
      BY <3>1, QuarterIs
    <3> QED
      BY <2>1, <3>1, <3>2, <3>3, <3>4
  <2> QED
    BY <2>1
<1> HIDE DEF S
<1>3. \A k \in 0 .. CtbDepth : k \in S
  BY <1>1, <1>2, Areas, UpTo, Zenon
<1> QED
  BY <1>3 DEF S

(* A block to the right of or below another follows it.                    *)
LEMMA ZMonotone ==
    ASSUME NEW a \in Block, NEW b \in Block, SameCell(0, a, b), a[1] <= b[1], a[2] <= b[2]
    PROVE  Z(a) <= Z(b)
<1>1. a[1] \in Nat /\ a[2] \in Nat /\ b[1] \in Nat /\ b[2] \in Nat
  BY BlockType
<1>2. \A d \in 0 .. CtbDepth : Cell(d, a[1]) <= Cell(d, b[1]) /\ Cell(d, a[2]) <= Cell(d, b[2])
  BY <1>1, Sizes, DivMonotone DEF Cell
<1> DEFINE S == {k \in 0 .. CtbDepth : ZCell(k, a) <= ZCell(k, b)}
<1>3. 0 \in S
  BY ZCellIs, Areas
<1>4. \A k \in 0 .. CtbDepth - 1 : k \in S => k + 1 \in S
  <2>1. ASSUME NEW k \in 0 .. CtbDepth - 1, k \in S PROVE k + 1 \in S
    <3>1. k + 1 \in 1 .. CtbDepth /\ (k + 1) - 1 = k /\ k + 1 \in 0 .. CtbDepth /\ k \in 0 .. CtbDepth
      BY Areas
    <3>2. /\ ZCell(k + 1, a) = 4 * ZCell(k, a) + QuarterOf(k + 1, a)
          /\ ZCell(k + 1, b) = 4 * ZCell(k, b) + QuarterOf(k + 1, b)
          /\ ZCell(k, a) \in Nat /\ ZCell(k, b) \in Nat
      BY <3>1, ZCellIs
    <3>3. QuarterOf(k + 1, a) \in 0 .. 3 /\ QuarterOf(k + 1, b) \in 0 .. 3
      BY <3>1, QuarterIs
    <3>4. CASE ZCell(k, a) < ZCell(k, b)
      BY <3>1, <3>2, <3>3, <3>4
    <3>5. CASE ZCell(k, a) = ZCell(k, b)
      <4>1. SameCell(k, a, b)
        BY <3>1, <3>5, ZSameCell
      <4> DEFINE ca == Cell(k + 1, a[1])
                 cb == Cell(k + 1, b[1])
                 da == Cell(k + 1, a[2])
                 db == Cell(k + 1, b[2])
                 c == Cell(k, a[1])
                 e == Cell(k, a[2])
      <4>2. /\ ca % 2 \in 0 .. 1 /\ ca = 2 * c + (ca % 2)
            /\ cb % 2 \in 0 .. 1 /\ cb = 2 * c + (cb % 2)
            /\ da % 2 \in 0 .. 1 /\ da = 2 * e + (da % 2)
            /\ db % 2 \in 0 .. 1 /\ db = 2 * e + (db % 2)
            /\ c \in Nat /\ e \in Nat
        BY <1>1, <3>1, <4>1, Halves DEF SameCell
      <4>3. ca <= cb /\ da <= db
        BY <1>2, <3>1
      <4>4. /\ QuarterOf(k + 1, a) = (ca % 2) + 2 * (da % 2)
            /\ QuarterOf(k + 1, b) = (cb % 2) + 2 * (db % 2)
        BY DEF QuarterOf
      <4> HIDE DEF ca, cb, da, db, c, e
      <4>5. QuarterOf(k + 1, a) <= QuarterOf(k + 1, b)
        BY <4>2, <4>3, <4>4
      <4> QED
        BY <3>1, <3>2, <3>3, <3>5, <4>5
    <3> QED
      BY <2>1, <3>2, <3>4, <3>5
  <2> QED
    BY <2>1
<1> HIDE DEF S
<1>5. CtbDepth \in S
  <2>1. \A k \in 0 .. CtbDepth : k \in S
    BY <1>3, <1>4, Areas, UpTo, Zenon
  <2> QED
    BY <2>1, Areas
<1> QED
  BY <1>5, ZCellIs DEF S

-------------------------------------------------------------------------------
(* The z-scan of the picture orders its blocks: by coding tree units, then *)
(* within the unit.                                                        *)
Follows(ts, z, tr, y) == ts < tr \/ (ts = tr /\ z < y)

LEMMA MixedOrder ==
    ASSUME NEW k \in Nat, NEW p \in Nat, NEW q \in Nat, NEW x \in Nat, NEW y \in Nat, x < k, y < k
    PROVE  /\ p * k + x \in Nat
           /\ p * k + x < q * k + y <=> Follows(p, x, q, y)
           /\ p * k + x = q * k + y <=> p = q /\ x = y
<1>1. p * k \in Nat /\ q * k \in Nat
  OBVIOUS
<1>2. p < q => p * k + k <= q * k
  <2>1. SUFFICES ASSUME p < q PROVE p * k + k <= q * k
    OBVIOUS
  <2>2. (p + 1) * k <= q * k
    BY <2>1, ProductMonotone
  <2>3. (p + 1) * k = p * k + k
    OBVIOUS
  <2> QED
    BY <2>2, <2>3
<1>3. q < p => q * k + k <= p * k
  <2>1. SUFFICES ASSUME q < p PROVE q * k + k <= p * k
    OBVIOUS
  <2>2. (q + 1) * k <= p * k
    BY <2>1, ProductMonotone
  <2>3. (q + 1) * k = q * k + k
    OBVIOUS
  <2> QED
    BY <2>2, <2>3
<1> DEFINE u == p * k
           v == q * k
<1>4. p = q => u = v
  OBVIOUS
<1>5. u \in Nat /\ v \in Nat /\ (p < q => u + k <= v) /\ (q < p => v + k <= u)
  BY <1>1, <1>2, <1>3
<1> HIDE DEF u, v
<1>6. u + x \in Nat /\ (u + x < v + y <=> Follows(p, x, q, y)) /\ (u + x = v + y <=> p = q /\ x = y)
  BY <1>4, <1>5 DEF Follows
<1> QED
  BY <1>6 DEF u, v

LEMMA PrecedesIs ==
    ASSUME layout \in Layouts, NEW a \in Block, NEW b \in Block
    PROVE  /\ toAddrInScanZ(a) \in Nat /\ toAddrInScanZ(b) \in Nat
           /\ Precedes(a, b) <=> Follows(addrInTs(a), Z(a), addrInTs(b), Z(b))
           /\ toAddrInScanZ(a) = toAddrInScanZ(b) <=> a = b
           /\ addrInTs(a) \in Nat /\ addrInTs(b) \in Nat
<1>1. addrInTs(a) \in Nat /\ addrInTs(b) \in Nat
  BY AddrOf DEF Addr
<1>2. Z(a) \in Nat /\ Z(b) \in Nat /\ Z(a) < CtbSize * CtbSize /\ Z(b) < CtbSize * CtbSize
      /\ CtbSize * CtbSize \in Nat
  BY ZCellIs, Areas
<1> DEFINE k == CtbSize * CtbSize
           p == addrInTs(a)
           q == addrInTs(b)
           x == Z(a)
           y == Z(b)
<1>3. toAddrInScanZ(a) = p * k + x /\ toAddrInScanZ(b) = q * k + y
  BY DEF toAddrInScanZ, Z
<1>4. /\ p * k + x \in Nat /\ q * k + y \in Nat
      /\ p * k + x < q * k + y <=> Follows(p, x, q, y)
      /\ p * k + x = q * k + y <=> p = q /\ x = y
  <2>1. k \in Nat /\ p \in Nat /\ q \in Nat /\ x \in Nat /\ y \in Nat /\ x < k /\ y < k
    BY <1>1, <1>2
  <2> HIDE DEF k, p, q, x, y
  <2>2. p * k + x \in Nat
    BY <2>1, MixedOrder
  <2>3. q * k + y \in Nat
    BY <2>1, MixedOrder
  <2>4. p * k + x < q * k + y <=> Follows(p, x, q, y)
    BY <2>1, MixedOrder, Zenon
  <2>5. p * k + x = q * k + y => p = q /\ x = y
    BY <2>1, MixedOrder, SMT
  <2>6. p = q /\ x = y => p * k + x = q * k + y
    OBVIOUS
  <2>7. p * k + x = q * k + y <=> p = q /\ x = y
    BY <2>5, <2>6, Zenon
  <2> QED
    BY <2>2, <2>3, <2>4, <2>7, Zenon
<1>5. p = q /\ x = y => a = b
  <2>1. SUFFICES ASSUME p = q, x = y PROVE a = b
    OBVIOUS
  <2>2. SameCell(0, a, b)
    BY <2>1, AddrOf
  <2>3. CtbDepth \in 0 .. CtbDepth
    BY Areas
  <2>4. SameCell(CtbDepth, a, b)
    BY <2>1, <2>2, <2>3, ZCellIs, ZSameCell
  <2>5. a[1] \in Nat /\ a[2] \in Nat /\ b[1] \in Nat /\ b[2] \in Nat
        /\ a = <<a[1], a[2]>> /\ b = <<b[1], b[2]>>
    BY BlockType
  <2>6. \A i \in Nat : Cell(CtbDepth, i) = i
    BY Sizes DEF Cell
  <2>7. a[1] = b[1] /\ a[2] = b[2]
    BY <2>4, <2>5, <2>6 DEF SameCell
  <2> QED
    BY <2>5, <2>7
<1> QED
  BY <1>1, <1>3, <1>4, <1>5 DEF Precedes

(* A block follows those that are neither below it nor to the right of it. *)
LEMMA FollowsUpperLeft ==
    ASSUME layout \in Layouts, NEW a \in Block, NEW b \in Block, a[1] <= b[1], a[2] <= b[2]
    PROVE  a = b \/ Precedes(a, b)
<1>1. a[1] \in Nat /\ a[2] \in Nat /\ b[1] \in Nat /\ b[2] \in Nat
  BY BlockType
<1>2. Cell(0, a[1]) <= Cell(0, b[1]) /\ Cell(0, a[2]) <= Cell(0, b[2])
  <2>1. 0 \in 0 .. CtbDepth
    BY Areas
  <2> QED
    BY <1>1, <2>1, Sizes, DivMonotone DEF Cell
<1>3. /\ toCtb(a) \in Coord /\ toCtb(a) = <<Cell(0, a[1]), Cell(0, a[2])>>
      /\ toCtb(b) \in Coord /\ toCtb(b) = <<Cell(0, b[1]), Cell(0, b[2])>>
  BY UnitOf
<1>4. toCtb(a)[1] <= toCtb(b)[1] /\ toCtb(a)[2] <= toCtb(b)[2]
  BY <1>2, <1>3
<1>5. addrInTs(a) <= addrInTs(b)
  BY <1>3, <1>4, Tables DEF ScanTables, addrInTs
<1>6. addrInTs(a) = addrInTs(b) => Z(a) <= Z(b)
  BY AddrOf, ZMonotone
<1>7. Z(a) \in Nat /\ Z(b) \in Nat
  BY ZCellIs
<1> QED
  BY <1>5, <1>6, <1>7, PrecedesIs DEF Follows, Precedes

(* Nodes that follow each other do so with all their blocks.               *)
LEMMA NodesInOrder ==
    ASSUME layout \in Layouts, NEW n, NEW m, Sound(n), Sound(m),
           Precedes(n.at, m.at), ~InNode(n, m.at),
           NEW a \in Block, NEW b \in Block, InNode(n, a), InNode(m, b)
    PROVE  Precedes(a, b)
<1>1. n.at \in Block /\ m.at \in Block /\ n.depth \in 0 .. CtbDepth /\ m.depth \in 0 .. CtbDepth
  BY DEF Sound
<1>2. addrInTs(n.at) = addrInTs(a) /\ addrInTs(m.at) = addrInTs(b)
      /\ SameCell(0, n.at, a) /\ SameCell(0, m.at, b)
  BY NodeUnit
<1>3. Follows(addrInTs(n.at), Z(n.at), addrInTs(m.at), Z(m.at))
  BY <1>1, PrecedesIs
<1>4. Z(a) \in Nat /\ Z(b) \in Nat /\ Z(n.at) \in Nat /\ Z(m.at) \in Nat
      /\ addrInTs(a) \in Nat /\ addrInTs(b) \in Nat
  BY <1>1, ZCellIs, PrecedesIs
<1>5. CASE addrInTs(n.at) < addrInTs(m.at)
  BY <1>2, <1>5, PrecedesIs DEF Follows
<1>6. CASE addrInTs(n.at) = addrInTs(m.at)
  <2>1. Z(n.at) < Z(m.at)
    BY <1>3, <1>4, <1>2, <1>6 DEF Follows
  <2>2. SameCell(0, n.at, m.at)
    BY <1>1, <1>6, AddrOf
  <2>3. PICK d \in 0 .. CtbDepth : d <= n.depth /\ d <= m.depth /\ (d = n.depth \/ d = m.depth)
    BY <1>1
  <2>4. ~SameCell(d, n.at, m.at)
    <3>1. SUFFICES ASSUME SameCell(d, n.at, m.at) PROVE FALSE
      OBVIOUS
    <3>2. d # n.depth
      BY <3>1 DEF InNode
    <3>3. d = m.depth
      BY <2>3, <3>2
    <3>4. m.at[1] <= n.at[1] /\ m.at[2] <= n.at[2]
      <4>1. n.at[1] \in Nat /\ n.at[2] \in Nat
        BY <1>1, BlockType
      <4>2. /\ m.at[1] = sizeAt(d) * Cell(d, m.at[1]) /\ m.at[2] = sizeAt(d) * Cell(d, m.at[2])
        BY <3>3, NodeIs
      <4>3. sizeAt(d) * Cell(d, n.at[1]) <= n.at[1] /\ sizeAt(d) * Cell(d, n.at[2]) <= n.at[2]
        BY <4>1, CellType
      <4> QED
        BY <4>2, <4>3, <3>1 DEF SameCell
    <3>5. Z(m.at) <= Z(n.at)
      <4>1. SameCell(0, m.at, n.at)
        BY <2>2 DEF SameCell
      <4> QED
        BY <4>1, <1>1, <3>4, ZMonotone
    <3> QED
      BY <1>4, <2>1, <3>5
  <2>5. ZCell(d, n.at) < ZCell(d, m.at)
    <3>1. ZCell(d, n.at) # ZCell(d, m.at)
      BY <1>1, <2>2, <2>4, ZSameCell
    <3>2. ZCell(d, n.at) <= ZCell(d, m.at)
      BY <1>1, <1>4, <2>1, ZCellMonotone
    <3>3. ZCell(d, n.at) \in Nat /\ ZCell(d, m.at) \in Nat
      BY <1>1, ZCellIs
    <3> QED
      BY <3>1, <3>2, <3>3
  <2>6. SameCell(d, n.at, a) /\ SameCell(d, m.at, b)
    <3>1. SameCell(n.depth, n.at, a) /\ SameCell(m.depth, m.at, b)
      BY DEF InNode
    <3>2. d \in 0 .. n.depth /\ d \in 0 .. m.depth
      BY <2>3
    <3> QED
      BY <1>1, <3>1, <3>2, CellsNest
  <2>7. ZCell(d, a) < ZCell(d, b)
    <3>1. ZCell(d, n.at) = ZCell(d, a)
      BY <1>1, <1>2, <2>6, ZSameCell
    <3>2. ZCell(d, m.at) = ZCell(d, b)
      BY <1>1, <1>2, <2>6, ZSameCell
    <3> QED
      BY <2>5, <3>1, <3>2
  <2>8. Z(a) < Z(b)
    BY <2>7, ZCellMonotone
  <2> QED
    BY <1>2, <1>6, <2>8, PrecedesIs DEF Follows
<1> QED
  BY <1>3, <1>5, <1>6 DEF Follows

-------------------------------------------------------------------------------
(* The tree as it is looked up: a coding unit is found from its blocks.    *)
LEMMA Kinds ==
    ASSUME TreeInv
    PROVE  /\ layout \in Layouts
           /\ Len(ctus) \in Nat /\ DOMAIN ctus = 1 .. Len(ctus)
           /\ Len(pending) \in Nat /\ DOMAIN pending = 1 .. Len(pending)
           /\ \A i \in DOMAIN pending : ToDo(pending[i]) /\ Sound(pending[i])
           /\ Len(enc.cus) \in Nat /\ DOMAIN enc.cus = 1 .. Len(enc.cus)
           /\ \A i \in DOMAIN enc.cus : Coded(enc.cus[i]) /\ Sound(enc.cus[i])
           /\ cu.open => Coded(cu) /\ Sound(cu)
<1>1. KindsInv /\ NodesInv
  BY DEF TreeInv
<1>2. enc.cus \in Seq(Entries(enc.cus)) /\ pending \in Seq([at : Block, depth : 0 .. CtbDepth])
  BY <1>1 DEF KindsInv
<1>3. /\ Len(pending) \in Nat /\ DOMAIN pending = 1 .. Len(pending)
      /\ Len(enc.cus) \in Nat /\ DOMAIN enc.cus = 1 .. Len(enc.cus)
  BY <1>2
<1>4. /\ \A i \in DOMAIN pending : ToDo(pending[i]) /\ Sound(pending[i])
      /\ \A i \in DOMAIN enc.cus : Coded(enc.cus[i]) /\ Sound(enc.cus[i])
      /\ cu.open => Coded(cu) /\ Sound(cu)
  BY <1>1 DEF NodesInv, ToDo, Coded
<1> QED
  BY <1>1, <1>3, <1>4, CtusType

LEMMA IndexFound ==
    ASSUME TreeInv, NEW c, Coded(c), NEW b \in Block, InNode(c, b)
    PROVE  /\ toIndex(Levels, TreeOf(b), offsetInCtb(b)) = IndexPath(c.at)[c.depth]
           /\ TreeOf(b) = TreeOf(c.at) /\ Leaf(TreeOf(b), b, c.depth)
           /\ IndexPath(b)[c.depth] = IndexPath(c.at)[c.depth]
<1> DEFINE d == c.depth
<1>1. layout \in Layouts /\ Sound(c) /\ c.at \in Block /\ d \in 0 .. CtbDepth
  BY Kinds DEF Coded, Sound
<1>2. addrInTs(b) = addrInTs(c.at) /\ SameCell(0, c.at, b) /\ TreeOf(b) = TreeOf(c.at)
  BY <1>1, NodeUnit
<1>3. addrInTs(b) \in Nat /\ addrInTs(b) + 1 \in DOMAIN ctus
  <2>1. addrInTs(c.at) \in Nat
    BY <1>1, PrecedesIs
  <2> QED
    BY <2>1, <1>2, Kinds DEF Coded
<1>4. toIndex(Levels, TreeOf(b), offsetInCtb(b)) = IndexPath(b)[d]
  <2>1. ASSUME NEW a \in Block, SameCell(d, a, b) PROVE Leaf(TreeOf(b), a, d)
    <3>1. InNode(c, a)
      BY <2>1 DEF InNode, SameCell
    <3>2. Leaf(TreeOf(a), a, d)
      BY <3>1 DEF Coded
    <3>3. TreeOf(a) = TreeOf(c.at)
      BY <3>1, <1>1, NodeUnit
    <3> QED
      BY <3>2, <3>3, <1>2
  <2>2. ASSUME NEW j \in DOMAIN TreeOf(b)
        PROVE  \E a \in Block, e \in 0 .. CtbDepth : SameCell(0, a, b) /\ j = IndexPath(a)[e]
    <3>1. OnPath(j, addrInTs(b) + 1)
      BY <1>3 DEF TreeInv, TreesInv, TreeOf
    <3>2. PICK a \in Block, e \in 0 .. CtbDepth :
            addrInTs(a) + 1 = addrInTs(b) + 1 /\ j = IndexPath(a)[e]
      BY <3>1 DEF OnPath
    <3>3. addrInTs(a) \in Nat
      BY <1>1, PrecedesIs
    <3>4. SameCell(0, a, b)
      BY <3>2, <3>3, <1>1, <1>3, AddrOf
    <3> QED
      BY <3>2, <3>4
  <2> HIDE DEF d
  <2> QED
    BY <2>1, <2>2, <1>1, LeafFound
<1>5. IndexPath(b)[d] = IndexPath(c.at)[d]
  <2>1. SameCell(d, c.at, b)
    BY DEF InNode
  <2> QED
    BY <2>1, <1>1, <1>2, PathCell
<1>6. Leaf(TreeOf(b), b, d)
  BY DEF Coded
<1> QED
  BY <1>2, <1>4, <1>5, <1>6

LEMMA LookedUp ==
    ASSUME TreeInv, NEW c, Coded(c), NEW b \in Block, InNode(c, b)
    PROVE  /\ getCodingQuadTree(b) = NodeOf(c)
           /\ getCodingQuadTree(b).depth = c.depth
<1>1. /\ toIndex(Levels, TreeOf(b), offsetInCtb(b)) = IndexPath(c.at)[c.depth]
      /\ TreeOf(b) = TreeOf(c.at) /\ Leaf(TreeOf(b), b, c.depth)
      /\ IndexPath(b)[c.depth] = IndexPath(c.at)[c.depth]
  BY IndexFound
<1>2. getCodingQuadTree(b) = NodeOf(c)
  BY <1>1 DEF getCodingQuadTree, TreeOf, NodeOf
<1>3. NodeOf(c) = TreeOf(b)[IndexPath(b)[c.depth]]
  BY <1>1 DEF NodeOf
<1> QED
  BY <1>1, <1>2, <1>3 DEF Leaf

LEMMA QpsFound ==
    ASSUME TreeInv, DataInv
    PROVE  QpsAgree
<1>1. ASSUME NEW i \in DOMAIN enc.cus, NEW b \in Block, Covers(enc.cus[i], b)
      PROVE  /\ getCodingQuadTree(b).qpY = {enc.cus[i].qpY}
             /\ getCodingQuadTree(b).offset = {enc.cus[i].offset}
  <2> DEFINE c == enc.cus[i]
  <2>1. Coded(c) /\ Sound(c)
    BY Kinds
  <2>2. InNode(c, b)
    BY <1>1, <2>1, CoversIs
  <2>3. getCodingQuadTree(b) = NodeOf(c)
    BY <2>1, <2>2, LookedUp
  <2>4. NodeOf(c).qpY = {c.qpY} /\ NodeOf(c).offset = {c.offset}
    BY DEF DataInv
  <2> QED
    BY <2>3, <2>4
<1> QED
  BY <1>1 DEF QpsAgree
-------------------------------------------------------------------------------
(* The state in which the recursion parses its next node: every block      *)
(* before it, and no other, is in a coding unit.                           *)
Next1 == Head(pending)

AtNext == TreeInv /\ OrderInv /\ pending # <<>> /\ ~cu.open

LEMMA NextIs ==
    ASSUME AtNext
    PROVE  /\ Next1 = pending[1] /\ 1 \in DOMAIN pending
           /\ ToDo(Next1) /\ Sound(Next1) /\ Next1.at \in Block /\ Next1.depth \in 0 .. CtbDepth
           /\ addrInTs(Next1.at) + 1 = Len(ctus)
           /\ \A i \in DOMAIN enc.cus :
                /\ Coded(enc.cus[i]) /\ Sound(enc.cus[i]) /\ enc.cus[i].at \in Block
                /\ Precedes(enc.cus[i].at, Next1.at)
           /\ layout \in Layouts
<1>1. Len(pending) \in Nat /\ DOMAIN pending = 1 .. Len(pending) /\ pending # <<>>
  BY Kinds DEF AtNext
<1>2. pending \in Seq([at : Block, depth : 0 .. CtbDepth])
  BY DEF AtNext, TreeInv, KindsInv
<1>3. 1 \in DOMAIN pending /\ Next1 = pending[1]
  BY <1>1, <1>2 DEF Next1
<1>4. ToDo(Next1) /\ Sound(Next1) /\ layout \in Layouts
      /\ \A i \in DOMAIN enc.cus : Coded(enc.cus[i]) /\ Sound(enc.cus[i])
  BY <1>3, Kinds DEF AtNext
<1>5. \A i \in DOMAIN enc.cus : Precedes(enc.cus[i].at, Next1.at)
  BY <1>3 DEF AtNext, OrderInv, Ordered, Before, Entries
<1> QED
  BY <1>3, <1>4, <1>5 DEF Sound, ToDo

LEMMA CodedBefore ==
    ASSUME AtNext, NEW b \in Block
    PROVE  Precedes(b, Next1.at) <=> \E i \in DOMAIN enc.cus : InNode(enc.cus[i], b)
<1> DEFINE n == Next1
<1>0. /\ ToDo(n) /\ Sound(n) /\ n.at \in Block /\ n = pending[1] /\ 1 \in DOMAIN pending
      /\ addrInTs(n.at) + 1 = Len(ctus) /\ layout \in Layouts
  BY NextIs
<1>1. ASSUME NEW i \in DOMAIN enc.cus, InNode(enc.cus[i], b) PROVE Precedes(b, n.at)
  <2> DEFINE c == enc.cus[i]
  <2>1. Coded(c) /\ Sound(c) /\ Precedes(c.at, n.at)
    BY NextIs
  <2>2. ~InNode(c, n.at)
    <3>1. SUFFICES ASSUME InNode(c, n.at) PROVE FALSE
      OBVIOUS
    <3>2. Leaf(TreeOf(n.at), n.at, c.depth) /\ c.depth \in 0 .. CtbDepth
      BY <1>0, <2>1, <3>1 DEF Coded, Sound
    <3>3. Begun(TreeOf(n.at), n.at, n.depth) /\ n.depth \in 0 .. CtbDepth
      BY <1>0, NodeIs DEF ToDo, Sound
    <3> QED
      BY <3>2, <3>3, Exclusive
  <2>3. InNode(n, n.at)
    BY <1>0, NodeIs
  <2> HIDE DEF n, c
  <2>4. InNode(c, b)
    BY <1>1 DEF c
  <2> QED
    BY <1>0, <2>1, <2>2, <2>3, <2>4, NodesInOrder
<1>2. ASSUME Precedes(b, n.at) PROVE \E i \in DOMAIN enc.cus : InNode(enc.cus[i], b)
  <2>1. Follows(addrInTs(b), Z(b), addrInTs(n.at), Z(n.at))
        /\ addrInTs(b) \in Nat /\ addrInTs(n.at) \in Nat
    BY <1>0, <1>2, PrecedesIs
  <2>2. addrInTs(b) < Len(ctus)
    BY <1>0, <2>1, Kinds DEF Follows, AtNext
  <2>3. Held(b) /\ ~cu.open
    BY <2>2 DEF AtNext, TreeInv, HeldInv
  <2>4. ASSUME NEW j \in DOMAIN pending, InNode(pending[j], b) PROVE FALSE
    <3> DEFINE m == pending[j]
    <3>1. Sound(m) /\ m.at \in Block /\ m.depth \in 0 .. CtbDepth
      BY Kinds DEF AtNext, Sound
    <3>2. m.at = b \/ Precedes(m.at, b)
      <4>1. b[1] \in Nat /\ b[2] \in Nat
        BY BlockType
      <4>2. /\ m.at[1] = sizeAt(m.depth) * Cell(m.depth, m.at[1])
            /\ m.at[2] = sizeAt(m.depth) * Cell(m.depth, m.at[2])
        BY <3>1, NodeIs
      <4>3. /\ sizeAt(m.depth) * Cell(m.depth, b[1]) <= b[1]
            /\ sizeAt(m.depth) * Cell(m.depth, b[2]) <= b[2]
        BY <3>1, <4>1, CellType
      <4>4. m.at[1] <= b[1] /\ m.at[2] <= b[2]
        BY <4>2, <4>3, <2>4 DEF InNode, SameCell
      <4> HIDE DEF m
      <4> QED
        BY <1>0, <3>1, <4>4, FollowsUpperLeft
    <3>3. m = n \/ Precedes(n.at, m.at)
      <4>1. j = 1 \/ 1 < j
        BY Kinds DEF AtNext
      <4> QED
        BY <4>1, <1>0 DEF AtNext, OrderInv, Ordered, Before, Entries
    <3>4. toAddrInScanZ(n.at) \in Nat /\ toAddrInScanZ(m.at) \in Nat /\ toAddrInScanZ(b) \in Nat
      BY <1>0, <3>1, PrecedesIs
    <3> HIDE DEF m, n
    <3> QED
      BY <1>2, <3>2, <3>3, <3>4 DEF Precedes
  <2> QED
    BY <2>3, <2>4 DEF Held
<1> QED
  BY <1>1, <1>2

(* The last coding unit holds every block from its corner to the next node.*)
LEMMA LastHolds ==
    ASSUME AtNext, NEW b \in Block, Precedes(b, Next1.at),
           enc.cus = <<>> \/ b = LastCu.at \/ Precedes(LastCu.at, b)
    PROVE  enc.cus # <<>> /\ InNode(LastCu, b)
<1>1. PICK i \in DOMAIN enc.cus : InNode(enc.cus[i], b)
  BY CodedBefore
<1>2. Len(enc.cus) \in Nat /\ DOMAIN enc.cus = 1 .. Len(enc.cus) /\ layout \in Layouts
  BY Kinds DEF AtNext
<1>3. enc.cus # <<>> /\ Len(enc.cus) \in DOMAIN enc.cus
  BY <1>1, <1>2
<1> DEFINE c == enc.cus[i]
           l == LastCu
<1>4. Coded(c) /\ Sound(c) /\ Coded(l) /\ Sound(l) /\ c.at \in Block /\ l.at \in Block
  BY <1>3, NextIs DEF LastCu
<1>5. CASE i = Len(enc.cus)
  BY <1>1, <1>3, <1>5 DEF LastCu
<1>6. CASE i # Len(enc.cus)
  <2>1. i < Len(enc.cus)
    BY <1>2, <1>6
  <2>2. Precedes(c.at, l.at)
    BY <2>1, <1>3 DEF AtNext, OrderInv, Ordered, Before, Entries, LastCu
  <2>3. ~InNode(c, l.at)
    <3>1. SUFFICES ASSUME InNode(c, l.at) PROVE FALSE
      OBVIOUS
    <3>2. /\ Leaf(TreeOf(l.at), l.at, c.depth) /\ c.depth \in 0 .. CtbDepth
          /\ Leaf(TreeOf(l.at), l.at, l.depth) /\ l.depth \in 0 .. CtbDepth
          /\ InNode(l, l.at)
      BY <1>4, <3>1, NodeIs DEF Coded, Sound
    <3>3. c.depth = l.depth
      BY <3>2, Exclusive
    <3>4. c.at = l.at
      BY <1>4, <3>1, <3>2, <3>3, NodeUnique
    <3> QED
      BY <1>2, <1>4, <2>2, <3>4, PrecedesIs DEF Precedes
  <2>4. InNode(l, l.at) /\ InNode(c, b)
    BY <1>1, <1>4, NodeIs
  <2> HIDE DEF c, l
  <2>5. Precedes(b, l.at)
    BY <1>2, <1>4, <2>2, <2>3, <2>4, NodesInOrder
  <2>6. toAddrInScanZ(b) \in Nat /\ toAddrInScanZ(l.at) \in Nat
    BY <1>2, <1>4, PrecedesIs
  <2>7. b = l.at \/ Precedes(l.at, b)
    BY <1>3 DEF l
  <2> QED
    BY <2>5, <2>6, <2>7 DEF Precedes
<1> QED
  BY <1>3, <1>5, <1>6

-------------------------------------------------------------------------------
(* Neighbours.                                                             *)
LEMMA SameUnit ==
    ASSUME layout \in Layouts, NEW a \in Block, NEW b \in Block, SameCell(0, a, b)
    PROVE  /\ addrInTs(a) = addrInTs(b) /\ toCtb(a) = toCtb(b)
           /\ sliceAddr(a) = sliceAddr(b) /\ tileId(a) = tileId(b)
<1>1. addrInTs(a) = addrInTs(b)
  BY AddrOf
<1>2. toCtb(a) = toCtb(b)
  BY UnitOf DEF SameCell
<1>3. sliceAddr(a) = sliceAddr(b)
  BY <1>1 DEF sliceAddr
<1> QED
  BY <1>1, <1>2, <1>3 DEF tileId

LEMMA CodedAtIs ==
    ASSUME AtNext, NEW x \in Int, NEW y \in Int, NEW i \in CodedAt(<<x, y>>)
    PROVE  <<x, y>> \in Block /\ i \in DOMAIN enc.cus /\ InNode(enc.cus[i], <<x, y>>)
<1> DEFINE c == enc.cus[i]
           b == <<x, y>>
<1>1. i \in DOMAIN enc.cus /\ Covers(c, b)
  BY DEF CodedAt
<1>2. Coded(c) /\ Sound(c) /\ c.at \in Block /\ c.depth \in 0 .. CtbDepth
  BY <1>1, NextIs DEF Sound
<1>3. c.at[1] \in Nat /\ c.at[2] \in Nat /\ sizeAt(c.depth) \in Nat
  BY <1>2, BlockType, Sizes
<1>4. x \in c.at[1] .. c.at[1] + sizeAt(c.depth) - 1 /\ y \in c.at[2] .. c.at[2] + sizeAt(c.depth) - 1
  BY <1>1 DEF Covers
<1>5. c.at[1] + sizeAt(c.depth) <= WidthInMinCbs /\ c.at[2] + sizeAt(c.depth) <= HeightInMinCbs
  BY <1>2 DEF Coded
<1>6. b \in Block
  <2>1. WidthInMinCbs \in Nat /\ HeightInMinCbs \in Nat
    BY BlocksAssumption
  <2> HIDE DEF c
  <2> QED
    BY <2>1, <1>3, <1>4, <1>5 DEF Block
<1> HIDE DEF b
<1>7. InNode(c, b)
  BY <1>1, <1>2, <1>6, CoversIs
<1> QED
  BY <1>1, <1>6, <1>7 DEF b

LEMMA HolderIs ==
    ASSUME AtNext, NEW b \in Block, NEW i \in DOMAIN enc.cus, InNode(enc.cus[i], b)
    PROVE  /\ getCodingQuadTree(b) = NodeOf(enc.cus[i])
           /\ getCodingQuadTree(b).depth = enc.cus[i].depth
           /\ addrInTs(b) = addrInTs(enc.cus[i].at) /\ toCtb(b) = toCtb(enc.cus[i].at)
           /\ sliceAddr(b) = sliceAddr(enc.cus[i].at) /\ tileId(b) = tileId(enc.cus[i].at)
           /\ i \in CodedAt(b)
<1> DEFINE c == enc.cus[i]
<1>1. Coded(c) /\ Sound(c) /\ c.at \in Block /\ layout \in Layouts /\ InNode(c, b)
  BY NextIs
<1>2. getCodingQuadTree(b) = NodeOf(c) /\ getCodingQuadTree(b).depth = c.depth
  BY <1>1, LookedUp DEF AtNext
<1>3. SameCell(0, c.at, b)
  BY <1>1, NodeUnit
<1>4. i \in CodedAt(b)
  BY <1>1, CoversIs DEF CodedAt
<1> QED
  BY <1>1, <1>2, <1>3, <1>4, SameUnit

LEMMA UpperLeftPrecedes ==
    ASSUME AtNext, NEW b \in Block, b[1] <= Next1.at[1], b[2] <= Next1.at[2], b # Next1.at
    PROVE  Precedes(b, Next1.at) /\ toAddrInScanZ(b) <= toAddrInScanZ(Next1.at)
<1>1. Next1.at \in Block /\ layout \in Layouts
  BY NextIs
<1>2. Precedes(b, Next1.at)
  BY <1>1, FollowsUpperLeft
<1> QED
  BY <1>1, <1>2, PrecedesIs DEF Precedes

(* The neighbours of the next node: to its left and above it.              *)
Neighbours(at) == {<<at[1] - 1, at[2]>>, <<at[1], at[2] - 1>>}

LEMMA NeighbourIs ==
    ASSUME AtNext, NEW adj \in Neighbours(Next1.at)
    PROVE  /\ \E x, y \in Int : adj = <<x, y>>
           /\ adj \in Block =>
                /\ Precedes(adj, Next1.at) /\ toAddrInScanZ(adj) <= toAddrInScanZ(Next1.at)
                /\ \E i \in DOMAIN enc.cus : InNode(enc.cus[i], adj)
<1>1. Next1.at[1] \in Nat /\ Next1.at[2] \in Nat
  BY NextIs, BlockType
<1>2. /\ adj[1] \in Int /\ adj[2] \in Int /\ adj = <<adj[1], adj[2]>>
      /\ adj[1] <= Next1.at[1] /\ adj[2] <= Next1.at[2] /\ adj # Next1.at
  BY <1>1 DEF Neighbours
<1>3. adj \in Block => /\ Precedes(adj, Next1.at) /\ toAddrInScanZ(adj) <= toAddrInScanZ(Next1.at)
                       /\ \E i \in DOMAIN enc.cus : InNode(enc.cus[i], adj)
  BY <1>2, UpperLeftPrecedes, CodedBefore
<1> QED
  BY <1>2, <1>3

(* split_cu_flag is parsed in the context it was sent in.                  *)
LEMMA ContextsAgree ==
    ASSUME AtNext
    PROVE  EncSplitContext(Next1) = splitContext(Next1)
<1> DEFINE n == Next1
           Deeper(adj) == isAvailable(n.at, adj) /\ getCodingQuadTree(adj).depth > n.depth
           Sent(adj) == \E i \in CodedAt(adj) :
                            /\ sliceAddr(enc.cus[i].at) = sliceAddr(n.at)
                            /\ tileId(enc.cus[i].at) = tileId(n.at)
                            /\ enc.cus[i].depth > n.depth
<1>1. ASSUME NEW adj \in Neighbours(n.at) PROVE Sent(adj) <=> Deeper(adj)
  <2>1. PICK x \in Int, y \in Int : adj = <<x, y>>
    BY <1>1, NeighbourIs
  <2>2. ASSUME Sent(adj) PROVE Deeper(adj)
    <3>1. PICK i \in CodedAt(adj) :
            /\ sliceAddr(enc.cus[i].at) = sliceAddr(n.at)
            /\ tileId(enc.cus[i].at) = tileId(n.at)
            /\ enc.cus[i].depth > n.depth
      BY <2>2
    <3>2. adj \in Block /\ i \in DOMAIN enc.cus /\ InNode(enc.cus[i], adj)
      BY <2>1, CodedAtIs
    <3>3. toAddrInScanZ(adj) <= toAddrInScanZ(n.at)
      BY <1>1, <3>2, NeighbourIs
    <3>4. /\ getCodingQuadTree(adj).depth = enc.cus[i].depth
          /\ sliceAddr(adj) = sliceAddr(enc.cus[i].at) /\ tileId(adj) = tileId(enc.cus[i].at)
      BY <3>2, HolderIs
    <3> QED
      BY <3>1, <3>2, <3>3, <3>4 DEF isAvailable
  <2>3. ASSUME Deeper(adj) PROVE Sent(adj)
    <3>1. /\ adj \in Block /\ sliceAddr(adj) = sliceAddr(n.at) /\ tileId(adj) = tileId(n.at)
          /\ getCodingQuadTree(adj).depth > n.depth
      BY <2>3 DEF isAvailable
    <3>2. PICK i \in DOMAIN enc.cus : InNode(enc.cus[i], adj)
      BY <1>1, <3>1, NeighbourIs
    <3>3. /\ getCodingQuadTree(adj).depth = enc.cus[i].depth /\ i \in CodedAt(adj)
          /\ sliceAddr(adj) = sliceAddr(enc.cus[i].at) /\ tileId(adj) = tileId(enc.cus[i].at)
      BY <3>1, <3>2, HolderIs
    <3> QED
      BY <3>1, <3>3
  <2> QED
    BY <2>2, <2>3
<1>2. EncSplitContext(n) = Cardinality({adj \in Neighbours(n.at) : Sent(adj)})
  BY DEF EncSplitContext, Neighbours
<1>3. splitContext(n) = Cardinality({adj \in Neighbours(n.at) : Deeper(adj)})
  BY DEF splitContext, Neighbours
<1>4. {adj \in Neighbours(n.at) : Sent(adj)} = {adj \in Neighbours(n.at) : Deeper(adj)}
  <2> HIDE DEF Sent, Deeper
  <2> QED
    BY <1>1
<1> QED
  BY <1>2, <1>3, <1>4
-------------------------------------------------------------------------------
LEMMA MultipleIs ==
    ASSUME NEW s \in Nat, s > 0, NEW k \in Nat
    PROVE  (s * k) % s = 0
<1> DEFINE w == s * k
<1>1. w \in Nat /\ w < s * k + s /\ s * k <= w
  OBVIOUS
<1> HIDE DEF w
<1>2. w \div s = k /\ w = s * (w \div s) + (w % s) /\ w % s \in Nat
  BY <1>1, DivUnique, DivBounds
<1>3. w = s * k
  BY DEF w
<1> QED
  BY <1>2, <1>3 DEF w

(* Groups: one begins at the next node if the node is at its corner.       *)
LEMMA GroupBegins ==
    ASSUME AtNext, NEW d \in 0 .. CtbDepth
    PROVE  Begins(Next1, sizeAt(d)) <=> Corner(d, Next1.at)
<1> DEFINE n == Next1
           s == sizeAt(d)
<1>1. /\ Sound(n) /\ n.at \in Block /\ n.depth \in 0 .. CtbDepth /\ layout \in Layouts
      /\ n.at[1] \in Nat /\ n.at[2] \in Nat
  BY NextIs, BlockType
<1>2. s \in Nat /\ s > 0
  BY Sizes
<1>3. Len(enc.cus) \in Nat /\ DOMAIN enc.cus = 1 .. Len(enc.cus)
  BY Kinds DEF AtNext
<1>4. SameGroup(s, LastCu, n) <=> SameCell(d, LastCu.at, n.at)
  BY DEF SameGroup, SameCell, Cell
<1>5. ASSUME Corner(d, n.at), enc.cus # <<>>, SameCell(d, LastCu.at, n.at) PROVE FALSE
  <2>1. Len(enc.cus) \in DOMAIN enc.cus
    BY <1>3, <1>5
  <2>2. LastCu.at \in Block /\ Precedes(LastCu.at, n.at)
    BY <2>1, NextIs DEF LastCu
  <2>3. n.at[1] = s * Cell(d, n.at[1]) /\ n.at[2] = s * Cell(d, n.at[2])
    <3>1. \A x \in Nat : x % s = 0 => x = s * Cell(d, x)
      BY <1>2, DivBounds DEF Cell
    <3> HIDE DEF n, s
    <3> QED
      BY <3>1, <1>1, <1>5 DEF Corner, s
  <2>4. n.at[1] <= LastCu.at[1] /\ n.at[2] <= LastCu.at[2]
    <3>1. LastCu.at[1] \in Nat /\ LastCu.at[2] \in Nat
      BY <2>2, BlockType
    <3>2. s * Cell(d, LastCu.at[1]) <= LastCu.at[1] /\ s * Cell(d, LastCu.at[2]) <= LastCu.at[2]
      BY <3>1, CellType
    <3> QED
      BY <2>3, <3>2, <1>5 DEF SameCell
  <2>5. n.at = LastCu.at \/ Precedes(n.at, LastCu.at)
    BY <1>1, <2>2, <2>4, FollowsUpperLeft
  <2> QED
    BY <1>1, <2>2, <2>5, PrecedesIs DEF Precedes
<1>6. ASSUME ~Corner(d, n.at) PROVE enc.cus # <<>> /\ SameCell(d, LastCu.at, n.at)
  <2> DEFINE x == s * Cell(d, n.at[1])
             y == s * Cell(d, n.at[2])
             g == <<x, y>>
  <2>1. x \in Nat /\ y \in Nat /\ x <= n.at[1] /\ y <= n.at[2]
    BY <1>1, CellType
  <2>2. x # n.at[1] \/ y # n.at[2]
    <3>1. x % s = 0 /\ y % s = 0
      <4>1. \A k \in Nat : (s * k) % s = 0
        <5> HIDE DEF s
        <5> QED
          BY <1>2, MultipleIs
      <4>2. Cell(d, n.at[1]) \in Nat /\ Cell(d, n.at[2]) \in Nat
        BY <1>1, CellType
      <4> HIDE DEF s
      <4> QED
        BY <4>1, <4>2
    <3> QED
      BY <3>1, <1>6 DEF Corner
  <2>3. g \in Block
    <3>1. WidthInMinCbs \in Nat /\ HeightInMinCbs \in Nat
          /\ n.at[1] < WidthInMinCbs /\ n.at[2] < HeightInMinCbs
      BY <1>1, BlocksAssumption, BlockType
    <3> HIDE DEF x, y, n
    <3> QED
      BY <3>1, <2>1, <1>1 DEF Block
  <2>4. SameCell(d, g, n.at)
    <3>1. Cell(d, x) = Cell(d, n.at[1])
      <4>1. Cell(d, n.at[1]) \in Nat
        BY <1>1, CellType
      <4> QED
        BY <4>1, <2>1, <1>2, CellIs
    <3>2. Cell(d, y) = Cell(d, n.at[2])
      <4>1. Cell(d, n.at[2]) \in Nat
        BY <1>1, CellType
      <4> QED
        BY <4>1, <2>1, <1>2, CellIs
    <3> QED
      BY <3>1, <3>2 DEF SameCell
  <2>5. Precedes(g, n.at)
    <3>1. g[1] <= n.at[1] /\ g[2] <= n.at[2] /\ g # n.at
      <4> HIDE DEF n
      <4> QED
        BY <2>1, <2>2
    <3> QED
      BY <3>1, <2>3, UpperLeftPrecedes
  <2> HIDE DEF x, y, g
  <2>6. PICK i \in DOMAIN enc.cus : InNode(enc.cus[i], g)
    BY <2>3, <2>5, CodedBefore
  <2> DEFINE c == enc.cus[i]
  <2>7. /\ Coded(c) /\ Sound(c) /\ c.at \in Block /\ c.depth \in 0 .. CtbDepth
        /\ Precedes(c.at, n.at)
    BY NextIs DEF Sound
  <2>8. d <= c.depth
    <3>1. SUFFICES ASSUME c.depth < d PROVE FALSE
      BY <2>7
    <3>2. SameCell(c.depth, g, n.at)
      BY <2>3, <2>4, <2>7, <3>1, <1>1, CellsNest
    <3>3. InNode(c, n.at)
      BY <3>2, <2>6 DEF InNode, SameCell
    <3>4. \E j \in DOMAIN enc.cus : InNode(enc.cus[j], n.at)
      BY <3>3
    <3>5. Precedes(n.at, n.at)
      BY <3>4, <1>1, CodedBefore
    <3> QED
      BY <3>5, <1>1, PrecedesIs DEF Precedes
  <2>9. SameCell(d, c.at, g)
    <3>1. SameCell(c.depth, c.at, g) /\ d \in 0 .. c.depth
      BY <2>6, <2>7, <2>8 DEF InNode
    <3> QED
      BY <3>1, <2>3, <2>7, CellsNest
  <2>10. SameCell(d, c.at, n.at)
    BY <2>4, <2>9 DEF SameCell
  <2>11. enc.cus # <<>> /\ Len(enc.cus) \in DOMAIN enc.cus
    BY <1>3
  <2> DEFINE l == LastCu
  <2>12. l.at \in Block /\ Precedes(l.at, n.at) /\ (l.at = c.at \/ Precedes(c.at, l.at))
    <3>1. i = Len(enc.cus) \/ i < Len(enc.cus)
      BY <1>3
    <3> QED
      BY <3>1, <2>11, NextIs DEF LastCu, AtNext, OrderInv, Ordered, Before, Entries
  <2>13. SameCell(0, c.at, n.at) /\ ZCell(d, c.at) = ZCell(d, n.at)
    <3>1. SameCell(0, c.at, n.at)
      <4>1. 0 \in 0 .. d
        OBVIOUS
      <4> QED
        BY <4>1, <1>1, <2>7, <2>10, CellsNest
    <3> QED
      BY <3>1, <1>1, <2>7, <2>10, ZSameCell
  <2>14. addrInTs(c.at) = addrInTs(n.at)
    BY <2>13, <1>1, <2>7, AddrOf
  <2>15. addrInTs(l.at) = addrInTs(n.at) /\ Z(c.at) <= Z(l.at) /\ Z(l.at) < Z(n.at)
    <3>1. /\ addrInTs(c.at) \in Nat /\ addrInTs(l.at) \in Nat
          /\ Z(c.at) \in Nat /\ Z(l.at) \in Nat /\ Z(n.at) \in Nat
      BY <1>1, <2>7, <2>12, PrecedesIs, ZCellIs
    <3>2. Follows(addrInTs(l.at), Z(l.at), addrInTs(n.at), Z(n.at))
      BY <1>1, <2>12, PrecedesIs
    <3>3. c.at = l.at \/ Follows(addrInTs(c.at), Z(c.at), addrInTs(l.at), Z(l.at))
      BY <1>1, <2>7, <2>12, PrecedesIs
    <3>4. addrInTs(c.at) <= addrInTs(l.at) /\ addrInTs(l.at) <= addrInTs(n.at)
      <4>1. addrInTs(l.at) <= addrInTs(n.at)
        BY <3>1, <3>2, <2>14 DEF Follows
      <4>2. CASE c.at = l.at
        BY <3>1, <4>1, <4>2
      <4>3. CASE Follows(addrInTs(c.at), Z(c.at), addrInTs(l.at), Z(l.at))
        BY <3>1, <4>1, <4>3 DEF Follows
      <4> QED
        BY <3>3, <4>2, <4>3
    <3>5. addrInTs(l.at) = addrInTs(n.at)
      BY <3>1, <3>4, <2>14
    <3> QED
      BY <3>1, <3>2, <3>3, <3>5, <2>14 DEF Follows
  <2>16. SameCell(0, l.at, n.at)
    BY <1>1, <2>12, <2>15, AddrOf
  <2>17. ZCell(d, l.at) = ZCell(d, n.at)
    <3>1. ZCell(d, c.at) <= ZCell(d, l.at) /\ ZCell(d, l.at) <= ZCell(d, n.at)
      <4>1. Z(l.at) <= Z(n.at)
        <5>1. Z(l.at) \in Nat /\ Z(n.at) \in Nat
          BY <1>1, <2>12, ZCellIs
        <5> QED
          BY <5>1, <2>15
      <4> QED
        BY <4>1, <1>1, <2>7, <2>12, <2>15, ZCellMonotone
    <3>2. ZCell(d, l.at) \in Nat /\ ZCell(d, n.at) \in Nat
      BY <1>1, <2>12, ZCellIs
    <3> QED
      BY <3>1, <3>2, <2>13
  <2>18. SameCell(d, l.at, n.at)
    BY <1>1, <2>12, <2>16, <2>17, ZSameCell
  <2> QED
    BY <2>11, <2>18
<1> QED
  BY <1>4, <1>5, <1>6 DEF Begins

-------------------------------------------------------------------------------
(* Slices and tiles, by the addresses of their units.                      *)
LEMMA LeastOf ==
    ASSUME NEW S \in SUBSET Nat, NEW x \in S
    PROVE  Min(S) \in S /\ \A y \in S : Min(S) <= y
<1>1. PICK m \in S : \A y \in S : m <= y
  BY LeastNatural
<1>2. Min(S) = m
  BY <1>1, MinIs
<1> QED
  BY <1>1, <1>2

LEMMA GreatestOf ==
    ASSUME NEW top \in Nat, NEW S \in SUBSET (0 .. top), NEW x \in S
    PROVE  Max(S) \in S /\ \A y \in S : y <= Max(S)
<1> DEFINE T == {k \in 0 .. top : top - k \in S}
<1>1. T \in SUBSET Nat /\ top - x \in T
  OBVIOUS
<1>2. PICK k \in T : \A j \in T : k <= j
  BY <1>1, LeastNatural
<1>3. top - k \in S /\ k \in 0 .. top
  BY <1>2
<1>4. ASSUME NEW y \in S PROVE y <= top - k
  <2>1. y \in 0 .. top /\ top - y \in 0 .. top /\ top - (top - y) = y
    OBVIOUS
  <2>2. top - y \in T
    BY <2>1
  <2>3. k <= top - y
    BY <2>2, <1>2
  <2> QED
    BY <2>1, <2>3, <1>3
<1>5. Max(S) = top - k
  <2>1. S \in SUBSET Int
    OBVIOUS
  <2> QED
    BY <2>1, <1>3, <1>4, MaxIs
<1> QED
  BY <1>3, <1>4, <1>5

LEMMA SliceIs ==
    ASSUME layout \in Layouts, NEW b \in Block
    PROVE  /\ sliceAddr(b) \in layout.starts /\ sliceAddr(b) \in Addr
           /\ sliceAddr(b) <= addrInTs(b)
           /\ \A ts \in layout.starts : ts <= addrInTs(b) => ts <= sliceAddr(b)
           /\ SliceQpY(b) \in QpRange
<1>1. layout.starts \subseteq Addr /\ 0 \in layout.starts
  BY QpsAssumption DEF Addr
<1>2. addrInTs(b) \in Addr /\ addrInTs(b) \in Nat
  BY AddrOf, PrecedesIs
<1> DEFINE S == {ts \in layout.starts : ts <= addrInTs(b)}
           top == addrInTs(b)
<1>3. S \subseteq 0 .. top /\ 0 \in S
  BY <1>1, <1>2, SizeType DEF Addr
<1>4. sliceAddr(b) = Max(S)
  BY DEF sliceAddr
<1> HIDE DEF top
<1>5. Max(S) \in S /\ \A y \in S : y <= Max(S)
  <2> HIDE DEF S
  <2>1. top \in Nat
    BY <1>2 DEF top
  <2> QED
    BY <2>1, <1>3, GreatestOf
<1>6. sliceAddr(b) \in layout.starts
  BY <1>4, <1>5
<1>7. SliceQpY(b) \in QpRange
  BY <1>6, QpsAssumption DEF SliceQpY
<1> QED
  BY <1>1, <1>4, <1>5, <1>6, <1>7

(* Units from the beginning of a slice on, up to one of it, are in it.     *)
LEMMA SliceHolds ==
    ASSUME layout \in Layouts, NEW a \in Block, NEW b \in Block,
           sliceAddr(b) <= addrInTs(a), addrInTs(a) <= addrInTs(b)
    PROVE  sliceAddr(a) = sliceAddr(b)
<1>1. sliceAddr(a) \in Addr /\ sliceAddr(b) \in Addr /\ addrInTs(a) \in Nat /\ addrInTs(b) \in Nat
  BY SliceIs, PrecedesIs
<1>2. sliceAddr(b) <= sliceAddr(a)
  BY SliceIs
<1>3. sliceAddr(a) <= addrInTs(b)
  <2>1. sliceAddr(a) <= addrInTs(a)
    BY SliceIs
  <2> QED
    BY <1>1, <2>1, SizeType DEF Addr
<1>4. sliceAddr(a) <= sliceAddr(b)
  BY <1>3, SliceIs
<1> QED
  BY <1>1, <1>2, <1>4, SizeType DEF Addr

UnitTs(u) == geo.toTs[toAddrInRs(u)]

LEMMA TilesRise ==
    ASSUME layout \in Layouts, NEW u \in Coord, NEW v \in Coord
    PROVE  /\ UnitTs(u) \in Addr
           /\ UnitTs(u) <= UnitTs(v) => geo.tile[u] <= geo.tile[v]
           /\ geo.tile[u] \in Nat
           /\ toCoord(geo.toRs[UnitTs(u)]) = u
<1>1. ProperSpacing(Width, layout.columns) /\ ProperSpacing(Height, layout.rows)
  BY BlocksAssumption
<1> DEFINE columns == layout.columns
           rows == layout.rows
<1>2. geo = Geometry(columns, rows)
  BY DEF geo, Geometries
<1>3. toAddrInRs(u) \in Addr /\ toCoord(toAddrInRs(u)) = u
      /\ toAddrInRs(v) \in Addr /\ toCoord(toAddrInRs(v)) = v
  BY AddrType
<1>4. \A rs \in Addr : geo.toTs[rs] = AddrInTs(geo.colBd, geo.rowBd, toCoord(rs))
  <2>1. TablesOf(geo, layout.columns.n, layout.rows.n)
    BY <1>1, <1>2, TablesRise
  <2> QED
    BY <2>1 DEF TablesOf
<1>5. UnitTs(u) = AddrInTs(geo.colBd, geo.rowBd, u) /\ UnitTs(v) = AddrInTs(geo.colBd, geo.rowBd, v)
  BY <1>3, <1>4 DEF UnitTs
<1>6. UnitTs(u) \in Addr /\ toCoord(geo.toRs[UnitTs(u)]) = u
  BY <1>3, Tables DEF ScanTables, UnitTs
<1>7. UnitTs(u) \in Int
  BY <1>6, SizeType DEF Addr
<1> HIDE DEF columns, rows
<1>8. UnitTs(u) <= UnitTs(v) => geo.tile[u] <= geo.tile[v]
  BY <1>1, <1>2, <1>5, TilesOrdered DEF columns, rows
<1>9. geo.tile[u] \in 0 .. columns.n * rows.n - 1
  <2>1. UnitTs(u) <= UnitTs(u)
    BY <1>7
  <2>2. ProperSpacing(Width, columns) /\ ProperSpacing(Height, rows)
    BY <1>1 DEF columns, rows
  <2>3. AddrInTs(Geometry(columns, rows).colBd, Geometry(columns, rows).rowBd, u)
         <= AddrInTs(Geometry(columns, rows).colBd, Geometry(columns, rows).rowBd, u)
    BY <2>1, <1>2, <1>5
  <2> QED
    BY <2>2, <2>3, <1>2, TilesOrdered
<1>10. geo.tile[u] \in Nat
  BY <1>9
<1> QED
  BY <1>6, <1>8, <1>10

FirstOfTile(b) ==
    Min({geo.toTs[toAddrInRs(u)] : u \in {v \in Coord : geo.tile[v] = tileId(b)}})

LEMMA TileFirstIs ==
    ASSUME layout \in Layouts, NEW b \in Block
    PROVE  /\ \E u \in Coord : FirstOfTile(b) = UnitTs(u) /\ geo.tile[u] = tileId(b)
           /\ \A u \in Coord : geo.tile[u] = tileId(b) => FirstOfTile(b) <= UnitTs(u)
<1> DEFINE S == {UnitTs(u) : u \in {v \in Coord : geo.tile[v] = tileId(b)}}
<1>1. FirstOfTile(b) = Min(S)
  BY DEF FirstOfTile, UnitTs
<1>2. toCtb(b) \in Coord /\ geo.tile[toCtb(b)] = tileId(b)
  BY UnitOf DEF tileId
<1>3. UnitTs(toCtb(b)) \in S
  BY <1>2
<1>4. S \in SUBSET Nat
  BY TilesRise, SizeType DEF Addr
<1>5. Min(S) \in S /\ \A y \in S : Min(S) <= y
  <2> HIDE DEF S
  <2> QED
    BY <1>3, <1>4, LeastOf
<1> QED
  BY <1>1, <1>5

(* Without tile columns the scan is the raster scan.                       *)
LEMMA RasterIs ==
    ASSUME layout \in Layouts, layout.columns.n = 1, NEW u \in Coord
    PROVE  UnitTs(u) = toAddrInRs(u)
<1> DEFINE cb == geo.colBd
           rb == geo.rowBd
           m == layout.rows.n
           j == RowOf(rb, u)
           h == HeightAt(rb, u)
<1>1. ProperSpacing(Width, layout.columns) /\ ProperSpacing(Height, layout.rows)
  BY BlocksAssumption
<1>2. geo = Geometry(layout.columns, layout.rows)
  BY DEF geo, Geometries
<1>3. TablesOf(geo, 1, m)
  BY <1>1, <1>2, TablesRise
<1>4. Rising(cb, 1, Width) /\ Rising(rb, m, Height) /\ m \in Nat
      /\ geo.toTs = [rs \in Addr |-> AddrInTs(cb, rb, toCoord(rs))]
  BY <1>3 DEF TablesOf
<1>5. UnitTs(u) = AddrInTs(cb, rb, u)
  BY <1>4, AddrType DEF UnitTs
<1>6. /\ ColumnOf(cb, u) \in 0 .. 1 - 1 /\ rb[j] \in Nat
      /\ u[1] \in Int /\ u[2] \in Int /\ h \in Nat
  BY <1>4, TileType, CoordIsPair
<1>7. ColumnOf(cb, u) = 0 /\ cb[0] = 0 /\ cb[0 + 1] = Width
  BY <1>4, <1>6 DEF Rising
<1>8. AddrInTs(cb, rb, u) = Width * rb[j] + h * 0 + (u[2] - rb[j]) * (Width - 0) + u[1] - 0
  <2> HIDE DEF cb, rb
  <2> QED
    BY <1>7 DEF AddrInTs, ColumnOf, RowOf, HeightAt
<1> HIDE DEF h
<1> DEFINE r == rb[j]
           y == u[2]
<1> HIDE DEF r, y
<1>9. Width * r + h * 0 + (y - r) * (Width - 0) + u[1] - 0 = y * Width + u[1]
  <2>1. r \in Nat /\ y \in Int /\ h \in Nat /\ Width \in Nat /\ u[1] \in Int
    BY <1>6, SizeType DEF r, y
  <2>2. (y - r) * Width = y * Width - r * Width /\ Width * r = r * Width
    BY <2>1
  <2>3. h * 0 = 0 /\ Width - 0 = Width
    BY <2>1
  <2> DEFINE p == y * Width
             q == r * Width
  <2>4. p \in Int /\ q \in Int
    BY <2>1
  <2> HIDE DEF p, q
  <2>5. q + 0 + (p - q) + u[1] - 0 = p + u[1]
    BY <2>1, <2>4
  <2> QED
    BY <2>2, <2>3, <2>5 DEF p, q
<1> QED
  BY <1>5, <1>8, <1>9 DEF r, y, toAddrInRs

-------------------------------------------------------------------------------
(* The unit coded before a group, and the cases in which the group's QP is *)
(* predicted from the slice's.                                             *)
LEMMA CornerIs ==
    ASSUME NEW b \in Block
    PROVE  /\ Corner(0, b) <=> offsetInCtb(b) = <<0, 0>>
           /\ Corner(0, b) <=> b[1] % CtbSize = 0 /\ b[2] % CtbSize = 0
           /\ Corner(0, b) => b = toBlock(toCtb(b))
<1>1. sizeAt(0) = CtbSize
  BY DEF CtbSize
<1>2. Corner(0, b) <=> offsetInCtb(b) = <<0, 0>>
  BY <1>1 DEF Corner, offsetInCtb
<1>3. Corner(0, b) => b = toBlock(toCtb(b))
  <2>1. SUFFICES ASSUME Corner(0, b) PROVE b = toBlock(toCtb(b))
    OBVIOUS
  <2>2. b[1] \in Nat /\ b[2] \in Nat /\ b = <<b[1], b[2]>>
    BY BlockType
  <2> DEFINE s == CtbSize
             x == b[1]
             y == b[2]
  <2>3. s \in Nat /\ s > 0 /\ x \in Nat /\ y \in Nat /\ x % s = 0 /\ y % s = 0
    BY <1>1, <2>1, <2>2, Areas DEF Corner
  <2>4. toBlock(toCtb(b)) = <<(x \div s) * s, (y \div s) * s>>
    BY DEF toBlock, toCtb
  <2>5. b = <<x, y>>
    BY <2>2
  <2> HIDE DEF s, x, y
  <2>6. x = s * (x \div s) + (x % s) /\ x \div s \in Nat /\ y = s * (y \div s) + (y % s) /\ y \div s \in Nat
    BY <2>3, DivBounds
  <2>7. x = (x \div s) * s /\ y = (y \div s) * s
    BY <2>3, <2>6
  <2> QED
    BY <2>4, <2>5, <2>7
<1> QED
  BY <1>1, <1>2, <1>3 DEF Corner

LEMMA UnitCorner ==
    ASSUME layout \in Layouts
    PROVE  /\ \A ts \in Addr : LET r == toBlock(toCoord(geo.toRs[ts])) IN
                r \in Block /\ Corner(0, r) /\ addrInTs(r) = ts
           /\ \A b \in Block : Corner(0, b) => b = toBlock(toCoord(geo.toRs[addrInTs(b)]))
           /\ \A b \in Block : toCtb(b) \in Coord /\ addrInTs(b) = UnitTs(toCtb(b))
<1>1. ASSUME NEW ts \in Addr
      PROVE  LET r == toBlock(toCoord(geo.toRs[ts])) IN
                r \in Block /\ Corner(0, r) /\ addrInTs(r) = ts
  <2> DEFINE r == toBlock(toCoord(geo.toRs[ts]))
  <2>1. /\ Sound(Node(r, 0)) /\ addrInTs(Node(r, 0).at) = ts
    BY RootIs
  <2>2. Node(r, 0).at = r /\ Node(r, 0).depth = 0
    BY DEF Node
  <2> QED
    BY <2>1, <2>2 DEF Sound, Corner
<1>2. ASSUME NEW b \in Block PROVE toCtb(b) \in Coord /\ addrInTs(b) = UnitTs(toCtb(b))
  BY UnitOf DEF addrInTs, UnitTs
<1>3. ASSUME NEW b \in Block, Corner(0, b) PROVE b = toBlock(toCoord(geo.toRs[addrInTs(b)]))
  <2>1. b = toBlock(toCtb(b))
    BY <1>3, CornerIs
  <2>2. toCoord(geo.toRs[addrInTs(b)]) = toCtb(b)
    BY <1>2, TilesRise
  <2> QED
    BY <2>1, <2>2
<1> QED
  BY <1>1, <1>2, <1>3

LEMMA LastIs ==
    ASSUME AtNext, enc.cus # <<>>
    PROVE  /\ Len(enc.cus) \in DOMAIN enc.cus
           /\ LastCu.at \in Block /\ Coded(LastCu) /\ Sound(LastCu)
           /\ Precedes(LastCu.at, Next1.at) /\ addrInTs(LastCu.at) <= addrInTs(Next1.at)
           /\ addrInTs(LastCu.at) \in Nat /\ addrInTs(Next1.at) \in Nat
           /\ Corner(0, Next1.at) => addrInTs(LastCu.at) < addrInTs(Next1.at)
<1>1. Len(enc.cus) \in DOMAIN enc.cus
  BY Kinds DEF AtNext
<1>2. /\ LastCu.at \in Block /\ Coded(LastCu) /\ Sound(LastCu) /\ Precedes(LastCu.at, Next1.at)
      /\ Next1.at \in Block /\ layout \in Layouts
  BY <1>1, NextIs DEF LastCu
<1>3. /\ addrInTs(LastCu.at) \in Nat /\ addrInTs(Next1.at) \in Nat
      /\ addrInTs(LastCu.at) <= addrInTs(Next1.at)
  <2>1. Follows(addrInTs(LastCu.at), Z(LastCu.at), addrInTs(Next1.at), Z(Next1.at))
        /\ addrInTs(LastCu.at) \in Nat /\ addrInTs(Next1.at) \in Nat
    BY <1>2, PrecedesIs
  <2> QED
    BY <2>1 DEF Follows
<1>4. Corner(0, Next1.at) => addrInTs(LastCu.at) # addrInTs(Next1.at)
  <2>1. 0 \in 0 .. CtbDepth
    BY Areas
  <2>2. Corner(0, Next1.at) => ~SameGroup(sizeAt(0), LastCu, Next1)
    BY <2>1, GroupBegins DEF Begins
  <2>3. SameCell(0, LastCu.at, Next1.at) => SameGroup(sizeAt(0), LastCu, Next1)
    BY DEF SameGroup, SameCell, Cell
  <2> QED
    BY <1>2, <2>2, <2>3, AddrOf
<1> QED
  BY <1>1, <1>2, <1>3, <1>4

FirstOfAny(at) == isFirstInSlice(at) \/ isFirstInTile(at) \/ isFirstInWpp(at)

LEMMA FirstIs ==
    ASSUME AtNext, FirstOfAny(Next1.at)
    PROVE  EncPrev(Next1.at) = SliceQpY(Next1.at)
<1> DEFINE n == Next1
           l == LastCu.at
<1>0. n.at \in Block /\ layout \in Layouts
  BY NextIs
<1>1. SUFFICES ASSUME enc.cus # <<>>
               PROVE  \/ sliceAddr(l) # sliceAddr(n.at) \/ tileId(l) # tileId(n.at)
                      \/ layout.sync /\ toCtb(l)[2] # toCtb(n.at)[2]
  BY DEF EncPrev
<1>2. /\ l \in Block /\ addrInTs(l) \in Nat /\ addrInTs(n.at) \in Nat
      /\ Corner(0, n.at) => addrInTs(l) < addrInTs(n.at)
      /\ addrInTs(l) <= addrInTs(n.at)
  BY <1>1, LastIs
<1>3. CASE isFirstInSlice(n.at)
  <2>1. sliceAddr(n.at) \in Addr
    BY <1>0, SliceIs
  <2>2. Corner(0, n.at) /\ addrInTs(n.at) = sliceAddr(n.at)
    BY <1>0, <1>3, <2>1, UnitCorner DEF isFirstInSlice
  <2>3. sliceAddr(l) <= addrInTs(l) /\ sliceAddr(l) \in Addr
    BY <1>0, <1>2, SliceIs
  <2>4. sliceAddr(l) \in Int
    BY <2>3, SizeType DEF Addr
  <2> QED
    BY <1>2, <2>2, <2>3, <2>4
<1>4. CASE isFirstInTile(n.at)
  <2>1. PICK u \in Coord : FirstOfTile(n.at) = UnitTs(u) /\ geo.tile[u] = tileId(n.at)
    BY <1>0, TileFirstIs
  <2>2. FirstOfTile(n.at) \in Addr
    BY <1>0, <2>1, TilesRise
  <2>3. n.at = toBlock(toCoord(geo.toRs[FirstOfTile(n.at)]))
    BY <1>4 DEF isFirstInTile, FirstOfTile
  <2>4. Corner(0, n.at) /\ addrInTs(n.at) = FirstOfTile(n.at)
    BY <1>0, <2>2, <2>3, UnitCorner
  <2>5. toCtb(l) \in Coord /\ addrInTs(l) = UnitTs(toCtb(l))
    BY <1>0, <1>2, UnitCorner
  <2>6. ~(FirstOfTile(n.at) <= UnitTs(toCtb(l)))
    BY <1>2, <2>4, <2>5
  <2>7. geo.tile[toCtb(l)] # tileId(n.at)
    BY <1>0, <2>5, <2>6, TileFirstIs
  <2> QED
    BY <2>7 DEF tileId
<1>5. CASE isFirstInWpp(n.at)
  <2>1. layout.sync /\ n.at[1] = 0 /\ n.at[2] % CtbSize = 0
    BY <1>5 DEF isFirstInWpp
  <2>2. Corner(0, n.at)
    <3>1. 0 % CtbSize = 0
      BY Areas
    <3> QED
      BY <1>0, <2>1, <3>1, CornerIs
  <2>3. /\ toCtb(n.at) \in Coord /\ addrInTs(n.at) = UnitTs(toCtb(n.at))
        /\ toCtb(l) \in Coord /\ addrInTs(l) = UnitTs(toCtb(l))
    BY <1>0, <1>2, UnitCorner
  <2>4. toCtb(n.at)[1] = 0
    <3>1. 0 \div CtbSize = 0
      BY Areas
    <3> QED
      BY <2>1, <3>1 DEF toCtb
  <2>5. toCtb(l)[2] = toCtb(n.at)[2] => UnitTs(toCtb(n.at)) <= UnitTs(toCtb(l))
    <3> DEFINE u == toCtb(n.at)
               v == toCtb(l)
    <3>1. u[1] = 0 /\ u \in Coord /\ v \in Coord
      BY <2>3, <2>4
    <3> HIDE DEF u, v
    <3>2. v[1] \in Nat /\ v[2] \in Int
      BY <3>1, SizeType DEF Coord
    <3>3. v[2] = u[2] => u[1] <= v[1] /\ u[2] <= v[2]
      BY <3>1, <3>2
    <3>4. v[2] = u[2] => UnitTs(u) <= UnitTs(v)
      BY <1>0, <3>1, <3>3, Tables DEF ScanTables, UnitTs
    <3> QED
      BY <3>4 DEF u, v
  <2>6. toCtb(l)[2] # toCtb(n.at)[2]
    BY <1>2, <2>2, <2>3, <2>5
  <2> QED
    BY <2>1, <2>6
<1> QED
  BY <1>3, <1>4, <1>5 DEF FirstOfAny

(* A group that is first of nothing and that a unit in the same or the     *)
(* previous coding tree unit comes before.                                 *)
LEMMA NotFirstIs ==
    ASSUME AtNext, ~FirstOfAny(Next1.at), enc.cus # <<>>,
           \/ addrInTs(LastCu.at) = addrInTs(Next1.at)
           \/ Corner(0, Next1.at) /\ addrInTs(LastCu.at) = addrInTs(Next1.at) - 1
    PROVE  EncPrev(Next1.at) = LastCu.qpY
<1> DEFINE n == Next1
           l == LastCu.at
           u == toCtb(n.at)
           v == toCtb(l)
<1>0. n.at \in Block /\ layout \in Layouts
  BY NextIs
<1>1. SUFFICES /\ sliceAddr(l) = sliceAddr(n.at) /\ tileId(l) = tileId(n.at)
               /\ layout.sync => v[2] = u[2]
  BY DEF EncPrev
<1>2. l \in Block /\ addrInTs(l) \in Nat /\ addrInTs(n.at) \in Nat
  BY LastIs
<1>3. CASE addrInTs(l) = addrInTs(n.at)
  <2>1. SameCell(0, l, n.at)
    BY <1>0, <1>2, <1>3, AddrOf
  <2> QED
    BY <2>1, <1>0, <1>2, SameUnit
<1>4. CASE Corner(0, n.at) /\ addrInTs(l) = addrInTs(n.at) - 1
  <2>1. /\ u \in Coord /\ v \in Coord /\ addrInTs(n.at) = UnitTs(u) /\ addrInTs(l) = UnitTs(v)
    BY <1>0, <1>2, UnitCorner
  <2>2. n.at = toBlock(toCoord(geo.toRs[addrInTs(n.at)]))
    BY <1>0, <1>4, UnitCorner
  <2>3. sliceAddr(l) = sliceAddr(n.at)
    <3>1. sliceAddr(n.at) # addrInTs(n.at)
      BY <2>2 DEF FirstOfAny, isFirstInSlice
    <3>2. sliceAddr(n.at) \in Addr /\ sliceAddr(n.at) <= addrInTs(n.at)
      BY <1>0, SliceIs
    <3>3. sliceAddr(n.at) \in Nat
      BY <3>2, SizeType DEF Addr
    <3>4. sliceAddr(n.at) <= addrInTs(l) /\ addrInTs(l) <= addrInTs(n.at)
      BY <1>2, <1>4, <3>1, <3>2, <3>3
    <3> QED
      BY <1>0, <1>2, <3>4, SliceHolds
  <2>4. tileId(l) = tileId(n.at)
    <3>1. PICK w \in Coord : FirstOfTile(n.at) = UnitTs(w) /\ geo.tile[w] = tileId(n.at)
      BY <1>0, TileFirstIs
    <3>2. geo.tile[u] = tileId(n.at) /\ geo.tile[v] = tileId(l)
      BY DEF tileId
    <3>3. UnitTs(w) <= UnitTs(u)
      BY <1>0, <2>1, <3>1, <3>2, TileFirstIs
    <3>4. UnitTs(w) # UnitTs(u)
      BY <2>1, <2>2, <3>1 DEF FirstOfAny, isFirstInTile, FirstOfTile
    <3>5. UnitTs(w) \in Nat
      BY <1>0, TilesRise, SizeType DEF Addr
    <3>6. UnitTs(w) <= UnitTs(v) /\ UnitTs(v) <= UnitTs(u)
      BY <1>2, <1>4, <2>1, <3>3, <3>4, <3>5
    <3>7. geo.tile[w] <= geo.tile[v] /\ geo.tile[v] <= geo.tile[u]
          /\ geo.tile[w] \in Nat /\ geo.tile[v] \in Nat /\ geo.tile[u] \in Nat
      <4> HIDE DEF u, v
      <4> QED
        BY <1>0, <2>1, <3>6, TilesRise
    <3> QED
      BY <3>1, <3>2, <3>7
  <2>5. ASSUME layout.sync PROVE v[2] = u[2]
    <3>1. layout.columns.n = 1
      BY <1>0, <2>5, QpsAssumption
    <3>2. n.at[1] # 0
      BY <1>0, <1>4, <2>5, CornerIs DEF FirstOfAny, isFirstInWpp
    <3>3. u[1] # 0
      <4>1. n.at[1] = u[1] * CtbSize
        BY <1>0, <1>4, CornerIs DEF toBlock
      <4>2. 0 * CtbSize = 0
        BY Areas
      <4> HIDE DEF u
      <4> QED
        BY <3>2, <4>1, <4>2
    <3>4. toAddrInRs(v) = toAddrInRs(u) - 1
      BY <1>0, <1>4, <2>1, <3>1, RasterIs
    <3> DEFINE w == <<u[1] - 1, u[2]>>
    <3> HIDE DEF u, v
    <3>5. u[1] \in 1 .. Width - 1 /\ u[2] \in 0 .. Height - 1
      BY <2>1, <3>3, SizeType DEF Coord
    <3>6. w \in Coord
      BY <3>5, SizeType DEF Coord
    <3>7. toAddrInRs(w) = toAddrInRs(u) - 1
      <4> DEFINE p == u[2] * Width
      <4>1. p \in Int /\ u[1] \in Int
        BY <3>5, SizeType
      <4>2. toAddrInRs(w) = p + (u[1] - 1) /\ toAddrInRs(u) = p + u[1]
        BY DEF toAddrInRs
      <4> HIDE DEF p, w
      <4> QED
        BY <4>1, <4>2
    <3>8. toCoord(toAddrInRs(w)) = w /\ toCoord(toAddrInRs(v)) = v
      BY <2>1, <3>6, AddrType
    <3>9. v = w
      BY <3>4, <3>7, <3>8
    <3> QED
      BY <3>9
  <2> QED
    BY <2>3, <2>4, <2>5
<1> QED
  BY <1>3, <1>4

-------------------------------------------------------------------------------
(* The unit before a group is the one that holds the last block of what    *)
(* comes before it in z-scan.                                              *)
LEMMA LeastOfTwo ==
    ASSUME NEW x \in Int, NEW y \in Int
    PROVE  Min({x, y}) \in {x, y} /\ Min({x, y}) <= x /\ Min({x, y}) <= y
<1>1. CASE x <= y
  <2>1. Min({x, y}) = x
    BY <1>1, MinIs
  <2> QED
    BY <1>1, <2>1
<1>2. CASE y <= x
  <2>1. Min({x, y}) = y
    BY <1>2, MinIs
  <2> QED
    BY <1>2, <2>1
<1> QED
  BY <1>1, <1>2

LEMMA LastOnSide ==
    ASSUME NEW d \in 0 .. CtbDepth, NEW w \in Nat, NEW p \in Nat, p < w, p % sizeAt(d) = 0,
           NEW l, l = Min({w - 1, p + sizeAt(d) - 1})
    PROVE  /\ l \in 0 .. w - 1 /\ Cell(d, l) = Cell(d, p)
           /\ \A x \in Nat : x < w /\ Cell(d, x) = Cell(d, p) => x <= l
<1> DEFINE s == sizeAt(d)
           k == Cell(d, p)
<1>1. s \in Nat /\ s > 0 /\ k \in Nat
  BY Sizes, CellType
<1>2. p = s * k
  BY <1>1, DivBounds DEF Cell
<1>3. l \in {w - 1, p + s - 1} /\ l <= w - 1 /\ l <= p + s - 1
  <2> DEFINE u == w - 1
             v == p + s - 1
  <2>1. u \in Int /\ v \in Int /\ l = Min({u, v})
    BY <1>1
  <2> HIDE DEF u, v
  <2>2. l \in {u, v} /\ l <= u /\ l <= v
    BY <2>1, LeastOfTwo, Zenon
  <2> QED
    BY <2>2 DEF u, v
<1>4. p <= l /\ l < p + s /\ l \in 0 .. w - 1
  BY <1>1, <1>3
<1>5. Cell(d, l) = k
  BY <1>1, <1>2, <1>4, CellIs
<1>6. \A x \in Nat : Cell(d, x) = k => x < p + s
  <2>1. ASSUME NEW x \in Nat, Cell(d, x) = k PROVE x < p + s
    <3>1. x < s * Cell(d, x) + s
      BY CellType
    <3> QED
      BY <3>1, <2>1, <1>2
  <2> QED
    BY <2>1
<1>7. \A x \in Nat : x < w /\ Cell(d, x) = k => x <= l
  <2>1. ASSUME NEW x \in Nat, x < w, Cell(d, x) = k PROVE x <= l
    <3>1. x < p + s
      BY <2>1, <1>6
    <3> HIDE DEF s, k
    <3> QED
      BY <3>1, <2>1, <1>1, <1>3
  <2> QED
    BY <2>1
<1> QED
  BY <1>4, <1>5, <1>7

LEMMA LastBlockIs ==
    ASSUME NEW p \in Block, NEW d \in 0 .. CtbDepth, Corner(d, p),
           NEW l, l = LastBlock(p, sizeAt(d))
    PROVE  /\ l \in Block /\ SameCell(d, p, l)
           /\ \A b \in Block : SameCell(d, p, b) => b[1] <= l[1] /\ b[2] <= l[2]
<1>1. p[1] \in Nat /\ p[2] \in Nat /\ p[1] < WidthInMinCbs /\ p[2] < HeightInMinCbs
      /\ WidthInMinCbs \in Nat /\ HeightInMinCbs \in Nat
  BY BlockType, BlocksAssumption
<1> DEFINE lx == Min({WidthInMinCbs - 1, p[1] + sizeAt(d) - 1})
           ly == Min({HeightInMinCbs - 1, p[2] + sizeAt(d) - 1})
<1>2. l = <<lx, ly>>
  BY DEF LastBlock, limitToPictureBoundaries
<1>3. /\ lx \in 0 .. WidthInMinCbs - 1 /\ Cell(d, lx) = Cell(d, p[1])
      /\ \A x \in Nat : x < WidthInMinCbs /\ Cell(d, x) = Cell(d, p[1]) => x <= lx
  BY <1>1, LastOnSide DEF Corner
<1>4. /\ ly \in 0 .. HeightInMinCbs - 1 /\ Cell(d, ly) = Cell(d, p[2])
      /\ \A x \in Nat : x < HeightInMinCbs /\ Cell(d, x) = Cell(d, p[2]) => x <= ly
  BY <1>1, LastOnSide DEF Corner
<1> HIDE DEF lx, ly
<1>5. l \in Block
  BY <1>2, <1>3, <1>4 DEF Block
<1>6. ASSUME NEW b \in Block, SameCell(d, p, b) PROVE b[1] <= l[1] /\ b[2] <= l[2]
  <2>1. b[1] \in Nat /\ b[2] \in Nat /\ b[1] < WidthInMinCbs /\ b[2] < HeightInMinCbs
    BY BlockType
  <2> QED
    BY <2>1, <1>2, <1>3, <1>4, <1>6 DEF SameCell
<1> QED
  BY <1>2, <1>3, <1>4, <1>5, <1>6 DEF SameCell

LEMMA LastQpIs ==
    ASSUME AtNext, DataInv, enc.cus # <<>>,
           NEW p \in Block, NEW d \in 0 .. CtbDepth, Corner(d, p),
           NEW l, l = LastBlock(p, sizeAt(d)), Precedes(l, Next1.at),
           SameCell(d, p, LastCu.at) \/ Precedes(LastCu.at, l)
    PROVE  InNode(LastCu, l) /\ QpYAt(l) = LastCu.qpY
<1>1. /\ l \in Block /\ SameCell(d, p, l)
      /\ \A b \in Block : SameCell(d, p, b) => b[1] <= l[1] /\ b[2] <= l[2]
  BY LastBlockIs
<1>2. LastCu.at \in Block /\ Len(enc.cus) \in DOMAIN enc.cus /\ layout \in Layouts
  BY LastIs, NextIs
<1>3. l = LastCu.at \/ Precedes(LastCu.at, l)
  BY <1>1, <1>2, FollowsUpperLeft
<1>4. InNode(LastCu, l)
  BY <1>1, <1>3, LastHolds
<1>5. getCodingQuadTree(l) = NodeOf(LastCu)
  BY <1>1, <1>2, <1>4, HolderIs DEF LastCu
<1>6. NodeOf(LastCu).qpY = {LastCu.qpY}
  BY <1>2 DEF DataInv, LastCu
<1>7. QpYAt(l) = The({LastCu.qpY})
  BY <1>5, <1>6 DEF QpYAt
<1> QED
  BY <1>4, <1>7 DEF The

(* The first group of a coding tree unit.                                  *)
LEMMA PrevOfUnit ==
    ASSUME AtNext, DataInv, Corner(0, Next1.at), ~FirstOfAny(Next1.at)
    PROVE  deriveQpYprev(Next1.at) = EncPrev(Next1.at)
<1> DEFINE n == Next1
           ts == addrInTs(n.at)
           p == toBlock(toCoord(geo.toRs[ts - 1]))
           l == LastBlock(p, CtbSize)
<1>0. n.at \in Block /\ layout \in Layouts /\ ts \in Nat /\ ts \in Addr
  BY NextIs, AddrOf, PrecedesIs
<1>1. ts # 0
  <2>1. sliceAddr(n.at) \in Addr /\ sliceAddr(n.at) <= ts
    BY <1>0, SliceIs
  <2>2. sliceAddr(n.at) # ts
    BY <1>0, UnitCorner DEF FirstOfAny, isFirstInSlice
  <2>3. sliceAddr(n.at) \in Nat
    BY <2>1, SizeType DEF Addr
  <2> HIDE DEF ts
  <2> QED
    BY <1>0, <2>1, <2>2, <2>3
<1>2. ts - 1 \in Addr /\ ts - 1 \in Nat
  BY <1>0, <1>1, SizeType DEF Addr
<1>3. p \in Block /\ Corner(0, p) /\ addrInTs(p) = ts - 1
  BY <1>0, <1>2, UnitCorner
<1>4. 0 \in 0 .. CtbDepth /\ CtbSize = sizeAt(0)
  BY Areas DEF CtbSize
<1>5. l \in Block /\ SameCell(0, p, l)
  <2> HIDE DEF p
  <2> QED
    BY <1>3, <1>4, LastBlockIs
<1>6. addrInTs(l) = ts - 1
  BY <1>0, <1>3, <1>5, AddrOf
<1>7. Precedes(l, n.at)
  <2>1. Follows(addrInTs(l), Z(l), addrInTs(n.at), Z(n.at))
    BY <1>0, <1>6 DEF Follows
  <2> QED
    BY <2>1, <1>0, <1>5, PrecedesIs
<1>8. enc.cus # <<>>
  <2>1. \E i \in DOMAIN enc.cus : InNode(enc.cus[i], l)
    BY <1>5, <1>7, CodedBefore
  <2> QED
    BY <2>1
<1>9. LastCu.at \in Block /\ addrInTs(LastCu.at) \in Nat /\ addrInTs(LastCu.at) < ts /\ Sound(LastCu)
  BY <1>8, LastIs
<1>10. SameCell(0, p, LastCu.at) \/ Precedes(LastCu.at, l)
  <2>1. CASE addrInTs(LastCu.at) = ts - 1
    BY <1>0, <1>3, <1>9, <2>1, AddrOf
  <2>2. CASE addrInTs(LastCu.at) < ts - 1
    <3>1. Follows(addrInTs(LastCu.at), Z(LastCu.at), addrInTs(l), Z(l))
      BY <1>6, <2>2 DEF Follows
    <3> QED
      BY <3>1, <1>0, <1>5, <1>9, PrecedesIs
  <2> HIDE DEF ts
  <2> QED
    BY <1>0, <1>9, <2>1, <2>2
<1>11. InNode(LastCu, l) /\ QpYAt(l) = LastCu.qpY
  <2> HIDE DEF p
  <2> QED
    BY <1>3, <1>4, <1>7, <1>8, <1>10, LastQpIs
<1>12. addrInTs(LastCu.at) = addrInTs(n.at) - 1
  BY <1>0, <1>5, <1>6, <1>9, <1>11, NodeUnit
<1>13. EncPrev(n.at) = LastCu.qpY
  BY <1>8, <1>12, NotFirstIs
<1>14. deriveQpYprev(n.at) = QpYAt(l)
  <2>1. offsetInCtb(n.at) = <<0, 0>>
    BY <1>0, CornerIs
  <2> QED
    BY <2>1 DEF deriveQpYprev, FirstOfAny
<1> QED
  BY <1>11, <1>13, <1>14

-------------------------------------------------------------------------------
(* The groups of a coding tree unit are numbered in z-scan as the cells of *)
(* their level are.                                                        *)
LEMMA DivTwice ==
    ASSUME NEW s \in Nat, s > 0, NEW t \in Nat, t > 0, NEW x \in Nat
    PROVE  (x \div s) \div t = x \div (s * t) /\ s * t \in Nat /\ s * t > 0
<1> DEFINE q == x \div s
           r == x % s
           k == q \div t
           e == q % t
<1>1. q \in Nat /\ r \in Nat /\ r < s /\ x = s * q + r
  BY DivBounds
<1>2. k \in Nat /\ e \in Nat /\ e < t /\ q = t * k + e
  <2> HIDE DEF q
  <2> QED
    BY <1>1, DivBounds
<1> DEFINE m == s * t
<1>3. m \in Nat /\ m > 0
  <2>1. s * t \in Nat
    OBVIOUS
  <2>2. 1 * t <= s * t
    BY ProductMonotone
  <2>3. 1 * t = t
    OBVIOUS
  <2> QED
    BY <2>1, <2>2, <2>3
<1>4. s * q = m * k + s * e
  <2> HIDE DEF k, e, q
  <2>1. s * q = s * (t * k + e)
    BY <1>2
  <2>2. s * (t * k + e) = s * (t * k) + s * e
    BY <1>2
  <2>3. s * (t * k) = (s * t) * k
    BY <1>2
  <2> QED
    BY <2>1, <2>2, <2>3
<1>5. s * e + s <= m /\ s * e \in Nat /\ m * k \in Nat
  <2> HIDE DEF k, e, q
  <2>1. (e + 1) * s <= t * s
    BY <1>2, ProductMonotone
  <2>2. (e + 1) * s = s * e + s /\ t * s = s * t /\ s * e \in Nat
    BY <1>2
  <2>3. m * k \in Nat
    BY <1>2, <1>3
  <2> QED
    BY <2>1, <2>2, <2>3
<1> DEFINE f == s * e
           g == m * k
<1>6. m * k <= x /\ x < m * k + m
  <2>1. x = g + f + r /\ f + s <= m /\ f \in Nat /\ g \in Nat
    BY <1>1, <1>4, <1>5
  <2> HIDE DEF f, g, m, r, k, e, q
  <2>2. g <= x /\ x < g + m
    BY <2>1, <1>1, <1>3
  <2> QED
    BY <2>2 DEF g
<1>7. x \div m = k
  <2> HIDE DEF m, k, e, q
  <2> QED
    BY <1>2, <1>3, <1>6, DivUnique
<1> QED
  BY <1>3, <1>7

LEMMA GroupSides ==
    ASSUME NEW d \in 0 .. CtbDepth
    PROVE  \A k \in 0 .. d : sizeAt(k) = sizeAt(d) * side(d + 1, k)
<1> DEFINE S == {j \in 0 .. d : sizeAt(d - j) = sizeAt(d) * side(d + 1, d - j)}
           s == [k \in 0 .. d |-> side(d + 1, k)]
<1>1. d \in Nat /\ CtbDepth \in Nat
  BY Areas
<1>2. /\ Places(d, 2, s)
      /\ \A k \in 0 .. d : side(d + 1, k) \in Nat
  BY <1>1, SidesArePlaces
<1>3. side(d + 1, d) = 1 /\ \A k \in 1 .. d : side(d + 1, k - 1) = 2 * side(d + 1, k)
  <2>1. d \in 0 .. d /\ \A k \in 1 .. d : k \in 0 .. d /\ k - 1 \in 0 .. d
    BY <1>1
  <2>2. s[d] = 1 /\ \A k \in 1 .. d : s[k - 1] = 2 * s[k]
    BY <1>2 DEF Places
  <2> QED
    BY <2>1, <2>2
<1>4. \A k \in 1 .. d : sizeAt(k - 1) = 2 * sizeAt(k) /\ sizeAt(k) \in Nat
  <2>1. ASSUME NEW k \in 1 .. d PROVE sizeAt(k - 1) = 2 * sizeAt(k) /\ sizeAt(k) \in Nat
    <3>1. k - 1 \in 0 .. CtbDepth - 1 /\ (k - 1) + 1 = k /\ k \in 0 .. CtbDepth
      BY <1>1
    <3> QED
      BY <3>1, Sizes
  <2> QED
    BY <2>1
<1>5. sizeAt(d) \in Nat
  BY Sizes
<1>6. 0 \in S
  BY <1>1, <1>3, <1>5
<1>7. \A j \in 0 .. d - 1 : j \in S => j + 1 \in S
  <2>1. ASSUME NEW j \in 0 .. d - 1, j \in S PROVE j + 1 \in S
    <3>1. d - j \in 1 .. d /\ (d - j) - 1 = d - (j + 1) /\ j + 1 \in 0 .. d /\ d - j \in 0 .. d
      BY <1>1
    <3> DEFINE x == sizeAt(d - j)
               y == side(d + 1, d - j)
    <3>2. x = sizeAt(d) * y /\ y \in Nat
      BY <2>1, <3>1, <1>2
    <3>3. sizeAt(d - (j + 1)) = 2 * x /\ side(d + 1, d - (j + 1)) = 2 * y
      BY <3>1, <1>3, <1>4
    <3> HIDE DEF x, y
    <3>4. 2 * (sizeAt(d) * y) = sizeAt(d) * (2 * y)
      BY <3>2, <1>5
    <3> QED
      BY <3>1, <3>2, <3>3, <3>4
  <2> QED
    BY <2>1
<1> HIDE DEF S
<1>8. \A j \in 0 .. d : j \in S
  BY <1>1, <1>6, <1>7, UpTo, Zenon
<1>9. ASSUME NEW k \in 0 .. d PROVE sizeAt(k) = sizeAt(d) * side(d + 1, k)
  <2>1. d - k \in 0 .. d /\ d - (d - k) = k
    BY <1>1
  <2>2. d - k \in S
    BY <2>1, <1>8
  <2> QED
    BY <2>1, <2>2 DEF S
<1> QED
  BY <1>9

GroupOf(d, b) == <<(b[1] % CtbSize) \div sizeAt(d), (b[2] % CtbSize) \div sizeAt(d)>>

LEMMA GroupScan ==
    ASSUME NEW d \in 0 .. CtbDepth, NEW b \in Block
    PROVE  /\ GroupOf(d, b)[1] \in 0 .. side(d + 1, 0) - 1
           /\ GroupOf(d, b)[2] \in 0 .. side(d + 1, 0) - 1
           /\ toAddrScanZ(d + 1, GroupOf(d, b)) = ZCell(d, b)
           /\ ZCell(d, b) \in Nat /\ ZCell(d, b) < area(d + 1, 0)
           /\ toCoordScanZ(d + 1, ZCell(d, b)) = GroupOf(d, b)
<1> DEFINE s == sizeAt(d)
           ox == b[1] % CtbSize
           oy == b[2] % CtbSize
           x == ox \div s
           y == oy \div s
           w == side(d + 1, 0)
<1>1. d \in Nat /\ s \in Nat /\ s > 0 /\ ox \in Nat /\ oy \in Nat /\ ox < CtbSize /\ oy < CtbSize
  <2>1. b[1] \in Nat /\ b[2] \in Nat
    BY BlockType
  <2>2. d \in Nat /\ s \in Nat /\ s > 0
    BY Sizes, Areas
  <2> QED
    BY <2>1, <2>2, Areas, DivBounds
<1>2. CtbSize = s * w /\ w \in Nat
  <2>1. 0 \in 0 .. d
    BY <1>1
  <2> QED
    BY <1>1, <2>1, GroupSides, SidesArePlaces DEF CtbSize
<1>3. ASSUME NEW o \in Nat, o < CtbSize PROVE o \div s \in Nat /\ o \div s <= w - 1
  <2> DEFINE v == o \div s
  <2>1. v \in Nat /\ o = s * v + (o % s) /\ o % s \in Nat
    BY <1>1, DivBounds
  <2> HIDE DEF v, w, s
  <2>2. w <= v => w * s <= v * s
    BY <1>1, <1>2, <2>1, ProductMonotone
  <2>3. w * s = s * w /\ v * s = s * v /\ s * v \in Nat
    BY <1>1, <1>2, <2>1
  <2>4. ~(w <= v)
    BY <1>1, <1>2, <1>3, <2>1, <2>2, <2>3
  <2> QED
    BY <1>2, <2>1, <2>4 DEF v
<1>4. x \in 0 .. w - 1 /\ y \in 0 .. w - 1 /\ GroupOf(d, b) = <<x, y>> /\ x \in Nat /\ y \in Nat
  <2>1. x \in Nat /\ x <= w - 1 /\ y \in Nat /\ y <= w - 1
    <3> HIDE DEF s, ox, oy, w
    <3> QED
      BY <1>1, <1>3
  <2>2. GroupOf(d, b) = <<x, y>>
    BY DEF GroupOf
  <2> HIDE DEF x, y, w
  <2> QED
    BY <1>2, <2>1, <2>2
<1> DEFINE a == toAddrScanZ(d + 1, <<x, y>>)
<1>5. /\ a \in Nat /\ a < area(d + 1, 0) /\ a \div area(d + 1, 0) = 0
      /\ \A k \in 1 .. d : a \div area(d + 1, k) =
                4 * (a \div area(d + 1, k - 1)) + Quarter(d + 1, k, <<x, y>>)
      /\ toCoordScanZ(d + 1, a) = <<x, y>>
  <2> HIDE DEF x, y
  <2> QED
    BY <1>1, <1>4, CoordOfAddr
<1>6. ASSUME NEW k \in 1 .. d PROVE Quarter(d + 1, k, <<x, y>>) = QuarterOf(k, b)
  <2>1. k \in 1 .. CtbDepth /\ k \in 0 .. CtbDepth /\ k \in 0 .. d
    BY <1>1, Areas
  <2>2. side(d + 1, k) \in Nat /\ side(d + 1, k) > 0 /\ sizeAt(k) = s * side(d + 1, k)
    BY <1>1, <2>1, SidesArePlaces, GroupSides
  <2>3. x \div side(d + 1, k) = ox \div sizeAt(k) /\ y \div side(d + 1, k) = oy \div sizeAt(k)
    <3> HIDE DEF s, ox, oy
    <3> QED
      BY <1>1, <2>2, DivTwice
  <2>4. Quarter(d + 1, k, <<x, y>>) = ((x \div side(d + 1, k)) % 2) + 2 * ((y \div side(d + 1, k)) % 2)
    BY DEF Quarter
  <2>5. Quarter(Levels, k, offsetInCtb(b)) = ((ox \div sizeAt(k)) % 2) + 2 * ((oy \div sizeAt(k)) % 2)
    BY DEF Quarter, offsetInCtb, sizeAt
  <2>6. Quarter(Levels, k, offsetInCtb(b)) = QuarterOf(k, b)
    BY <2>1, QuarterIs
  <2> QED
    BY <2>3, <2>4, <2>5, <2>6
<1> HIDE DEF x, y, w, ox, oy, s
<1> DEFINE S == {k \in 0 .. d : a \div area(d + 1, k) = ZCell(k, b)}
<1> HIDE DEF a
<1>7. 0 \in S
  BY <1>1, <1>5, ZCellIs
<1>8. \A k \in 0 .. d - 1 : k \in S => k + 1 \in S
  <2>1. ASSUME NEW k \in 0 .. d - 1, k \in S PROVE k + 1 \in S
    <3>1. k + 1 \in 1 .. d /\ (k + 1) - 1 = k /\ k + 1 \in 0 .. d /\ k + 1 \in 1 .. CtbDepth
      BY <1>1, Areas
    <3>2. a \div area(d + 1, k + 1) = 4 * (a \div area(d + 1, k)) + Quarter(d + 1, k + 1, <<x, y>>)
      BY <3>1, <1>5
    <3>3. ZCell(k + 1, b) = 4 * ZCell(k, b) + QuarterOf(k + 1, b)
      BY <3>1, ZCellIs
    <3> QED
      BY <2>1, <3>1, <3>2, <3>3, <1>6
  <2> QED
    BY <2>1
<1>9. d \in S
  <2> HIDE DEF S
  <2>1. \A k \in 0 .. d : k \in S
    BY <1>1, <1>7, <1>8, UpTo, Zenon
  <2> QED
    BY <2>1, <1>1
<1>10. a \div area(d + 1, d) = a
  <2>1. area(d + 1, d) = 1
    <3>1. d \in 0 .. d
      BY <1>1
    <3>2. ([k \in 0 .. d |-> area(d + 1, k)])[d] = 1
      BY <1>1, SidesArePlaces DEF Places
    <3> QED
      BY <3>1, <3>2
  <2> QED
    BY <2>1, <1>5
<1>11. a = ZCell(d, b)
  BY <1>9, <1>10
<1> QED
  BY <1>4, <1>5, <1>11 DEF a, w

-------------------------------------------------------------------------------
(* The group before a group in a coding tree unit.                         *)
CornerOf(d, b, g) ==
    LET at == toCoordScanZ(d + 1, g)
    IN  <<b[1] - (b[1] % CtbSize) + at[1] * sizeAt(d), b[2] - (b[2] % CtbSize) + at[2] * sizeAt(d)>>

LEMMA PlaceInUnit ==
    ASSUME NEW d \in 0 .. CtbDepth, NEW x \in Nat, NEW k \in 0 .. side(d + 1, 0) - 1,
           NEW p, p = x - (x % CtbSize) + k * sizeAt(d)
    PROVE  /\ p \in Nat /\ p % sizeAt(d) = 0 /\ Cell(0, p) = Cell(0, x)
           /\ (p % CtbSize) \div sizeAt(d) = k
<1> DEFINE s == sizeAt(d)
           w == side(d + 1, 0)
           c == CtbSize
           q == x \div c
<1>1. /\ d \in Nat /\ s \in Nat /\ s > 0 /\ w \in Nat /\ w > 0 /\ c \in Nat /\ c > 0 /\ c = s * w
  <2>1. d \in Nat /\ s \in Nat /\ s > 0 /\ c \in Nat /\ c > 0
    BY Areas, Sizes
  <2>2. 0 \in 0 .. d
    BY <2>1
  <2> QED
    BY <2>1, <2>2, GroupSides, SidesArePlaces DEF CtbSize
<1>2. q \in Nat /\ x = c * q + (x % c) /\ x % c \in Nat
  <2> HIDE DEF c
  <2> QED
    BY <1>1, DivBounds
<1> DEFINE f == k * s
<1>3. k \in Nat /\ f \in Nat /\ f + s <= c
  <2>1. k \in Nat /\ k + 1 <= w
    BY <1>1
  <2> HIDE DEF w, s, c
  <2>2. (k + 1) * s <= w * s
    BY <1>1, <2>1, ProductMonotone
  <2>3. (k + 1) * s = f + s /\ w * s = s * w /\ f \in Nat
    BY <1>1, <2>1
  <2> QED
    BY <1>1, <2>1, <2>2, <2>3
<1>4. p = c * q + f /\ p \in Nat /\ c * q \in Nat
  <2>1. c * q \in Nat
    <3> HIDE DEF c, q
    <3> QED
      BY <1>1, <1>2
  <2> DEFINE m == c * q
             r == x % c
  <2>2. x = m + r /\ p = x - r + f /\ m \in Nat /\ r \in Nat
    BY <1>2, <2>1
  <2> HIDE DEF m, r, f
  <2>3. p = m + f /\ p \in Nat
    BY <1>3, <2>2
  <2> QED
    BY <2>1, <2>3 DEF m
<1> HIDE DEF f, q
<1>5. p \div c = q
  <2>1. c * q <= p /\ p < c * q + c
    BY <1>1, <1>3, <1>4
  <2> HIDE DEF c
  <2> QED
    BY <2>1, <1>1, <1>2, <1>4, DivUnique
<1>6. p % c = f
  <2>1. p = c * (p \div c) + (p % c) /\ p % c \in Nat
    <3> HIDE DEF c
    <3> QED
      BY <1>1, <1>4, DivBounds
  <2> DEFINE m == c * q
             r == p % c
  <2>2. p = m + r /\ p = m + f /\ m \in Nat /\ r \in Nat
    BY <1>4, <1>5, <2>1
  <2> HIDE DEF m, r
  <2>3. r = f
    BY <2>2, <1>3
  <2> QED
    BY <2>3 DEF r
<1>7. f \div s = k
  <2>1. s * k = f /\ s * k <= f /\ f < s * k + s
    BY <1>1, <1>3 DEF f
  <2> HIDE DEF s
  <2> QED
    BY <2>1, <1>1, <1>3, DivUnique
<1>8. p % s = 0
  <2> DEFINE m == w * q + k
  <2>1. p = s * m /\ m \in Nat
    <3> HIDE DEF w, s
    <3>1. w * q \in Nat
      BY <1>1, <1>2
    <3>2. (s * w) * q = s * (w * q)
      BY <1>1, <1>2
    <3>3. s * (w * q + k) = s * (w * q) + s * k
      BY <1>1, <1>3, <3>1
    <3>4. f = s * k
      BY <1>1, <1>3 DEF f
    <3> QED
      BY <1>1, <1>3, <1>4, <3>1, <3>2, <3>3, <3>4
  <2> HIDE DEF m, s
  <2>2. p \div s = m
    <3>1. s * m <= p /\ p < s * m + s
      BY <1>1, <1>4, <2>1
    <3> QED
      BY <3>1, <1>1, <1>4, <2>1, DivUnique
  <2>3. p = s * (p \div s) + (p % s) /\ p % s \in Nat
    BY <1>1, <1>4, DivBounds
  <2> DEFINE r == p % s
             v == s * m
  <2>4. p = v + r /\ p = v /\ r \in Nat /\ v \in Nat
    BY <2>1, <2>2, <2>3, <1>4
  <2> HIDE DEF r, v
  <2>5. r = 0
    BY <2>4
  <2> QED
    BY <2>5 DEF r, s
<1>9. Cell(0, p) = Cell(0, x)
  BY <1>5 DEF Cell, q, CtbSize
<1> QED
  BY <1>4, <1>6, <1>7, <1>8, <1>9

LEMMA GroupCorner ==
    ASSUME NEW d \in 0 .. CtbDepth, NEW b \in Block, NEW g \in Nat, g < area(d + 1, 0),
           CornerOf(d, b, g) \in Block
    PROVE  LET p == CornerOf(d, b, g) IN
           Corner(d, p) /\ SameCell(0, p, b) /\ ZCell(d, p) = g
<1> DEFINE p == CornerOf(d, b, g)
           at == toCoordScanZ(d + 1, g)
<1>1. d \in Nat
  BY Areas
<1>2. /\ at[1] \in 0 .. side(d + 1, 0) - 1 /\ at[2] \in 0 .. side(d + 1, 0) - 1
      /\ at = <<at[1], at[2]>> /\ toAddrScanZ(d + 1, at) = g
  BY <1>1, AddrOfCoord
<1>3. p = <<b[1] - (b[1] % CtbSize) + at[1] * sizeAt(d), b[2] - (b[2] % CtbSize) + at[2] * sizeAt(d)>>
  BY DEF CornerOf
<1>4. b[1] \in Nat /\ b[2] \in Nat
  BY BlockType
<1> HIDE DEF at, p
<1>5. /\ p[1] % sizeAt(d) = 0 /\ Cell(0, p[1]) = Cell(0, b[1]) /\ (p[1] % CtbSize) \div sizeAt(d) = at[1]
  BY <1>2, <1>3, <1>4, PlaceInUnit
<1>6. /\ p[2] % sizeAt(d) = 0 /\ Cell(0, p[2]) = Cell(0, b[2]) /\ (p[2] % CtbSize) \div sizeAt(d) = at[2]
  BY <1>2, <1>3, <1>4, PlaceInUnit
<1>7. GroupOf(d, p) = at
  BY <1>2, <1>5, <1>6 DEF GroupOf
<1>8. p \in Block
  BY DEF p
<1>9. toAddrScanZ(d + 1, GroupOf(d, p)) = ZCell(d, p)
  BY <1>8, GroupScan
<1>10. Corner(d, p) /\ SameCell(0, p, b) /\ ZCell(d, p) = g
  BY <1>2, <1>5, <1>6, <1>7, <1>9 DEF Corner, SameCell
<1> QED
  BY <1>10 DEF p

LEMMA GroupInPicture ==
    ASSUME NEW d \in 0 .. CtbDepth, NEW b \in Block, NEW q \in Block, SameCell(0, q, b)
    PROVE  CornerOf(d, b, ZCell(d, q)) \in Block
<1> DEFINE p == CornerOf(d, b, ZCell(d, q))
           s == sizeAt(d)
           c == CtbSize
<1>1. /\ q[1] \in Nat /\ q[2] \in Nat /\ q[1] < WidthInMinCbs /\ q[2] < HeightInMinCbs
      /\ b[1] \in Nat /\ b[2] \in Nat /\ WidthInMinCbs \in Nat /\ HeightInMinCbs \in Nat
  BY BlockType, BlocksAssumption
<1>2. s \in Nat /\ s > 0 /\ c \in Nat /\ c > 0
  BY Sizes, Areas
<1>3. toCoordScanZ(d + 1, ZCell(d, q)) = <<(q[1] % c) \div s, (q[2] % c) \div s>>
  BY GroupScan DEF GroupOf
<1>4. p = <<b[1] - (b[1] % c) + ((q[1] % c) \div s) * s, b[2] - (b[2] % c) + ((q[2] % c) \div s) * s>>
  BY <1>3 DEF CornerOf
<1>5. b[1] \div c = q[1] \div c /\ b[2] \div c = q[2] \div c
  BY DEF SameCell, Cell, CtbSize
<1> HIDE DEF c, s, p
<1>6. ASSUME NEW x \in Nat, NEW y \in Nat, x \div c = y \div c,
             NEW z, z = x - (x % c) + ((y % c) \div s) * s
      PROVE  z \in Nat /\ z <= y
  <2> DEFINE k == x \div c
             r == y % c
             e == r \div s
             m == c * k
             f == e * s
             t == x % c
  <2>1. k \in Nat /\ x = m + t /\ t \in Nat /\ y = m + r /\ r \in Nat
    BY <1>2, <1>6, DivBounds
  <2>2. m \in Nat
    <3> HIDE DEF k
    <3> QED
      BY <1>2, <2>1
  <2>3. e \in Nat /\ r = s * e + (r % s) /\ r % s \in Nat
    <3> HIDE DEF r
    <3> QED
      BY <1>2, <2>1, DivBounds
  <2>4. f \in Nat /\ f <= r
    <3> HIDE DEF e, r
    <3>1. f = s * e /\ f \in Nat
      BY <1>2, <2>3
    <3> HIDE DEF f
    <3> QED
      BY <2>1, <2>3, <3>1
  <2>5. z = x - t + f
    BY <1>6
  <2> HIDE DEF k, r, e, m, f, t
  <2> QED
    BY <2>1, <2>2, <2>4, <2>5
<1>7. p[1] \in Nat /\ p[1] <= q[1]
  BY <1>1, <1>4, <1>5, <1>6
<1>8. p[2] \in Nat /\ p[2] <= q[2]
  BY <1>1, <1>4, <1>5, <1>6
<1>9. p \in Block
  BY <1>1, <1>4, <1>7, <1>8 DEF Block
<1> QED
  BY <1>9 DEF p

(* The search backwards ends at the last group before, in the picture.     *)
LEMMA PrevGroupIs ==
    ASSUME layout \in Layouts, NEW d, d = GroupDepth, NEW b \in Block, Corner(d, b), ~Corner(0, b)
    PROVE  LET p == prevGroup(b) IN
           /\ p \in Block /\ Corner(d, p) /\ SameCell(0, p, b) /\ ZCell(d, p) < ZCell(d, b)
           /\ \A q \in Block : SameCell(0, q, b) /\ ZCell(d, q) < ZCell(d, b)
                                 => ZCell(d, q) <= ZCell(d, p)
<1> DEFINE a == ZCell(d, b)
           G == area(d + 1, 0)
           corner(back) == CornerOf(d, b, (a + G - back) % G)
           S == {back \in 1 .. G : corner(back) \in Block}
<1>1. d \in 0 .. CtbDepth
  BY BlocksAssumption DEF GroupDepth
<1>2. a \in Nat /\ G \in Nat /\ a < G
  <2>1. d \in Nat /\ 0 \in 0 .. d
    BY <1>1
  <2>2. G \in Nat
    BY <2>1, SidesArePlaces
  <2> QED
    BY <1>1, <2>2, GroupScan
<1>3. prevGroup(b) = corner(Min(S))
  <2>1. /\ GroupSize = sizeAt(d) /\ Groups = G
    BY DEF GroupSize, Groups
  <2>2. toGroup(offsetInCtb(b)) = GroupOf(d, b)
    BY <2>1 DEF toGroup, offsetInCtb, GroupOf
  <2>3. toAddrScanZ(GroupDepth + 1, toGroup(offsetInCtb(b))) = a
    BY <1>1, <2>2, GroupScan
  <2>4. offsetInCtb(b)[1] = b[1] % CtbSize /\ offsetInCtb(b)[2] = b[2] % CtbSize
    BY DEF offsetInCtb
  <2> HIDE DEF a, G
  <2> QED
    BY <2>1, <2>3, <2>4 DEF prevGroup, CornerOf
<1>4. ASSUME NEW back \in 1 .. a PROVE corner(back) = CornerOf(d, b, a - back) /\ back \in 1 .. G
  <2> HIDE DEF a, G
  <2>1. (a + G - back) % G = a - back
    <3> DEFINE r == a - back
    <3>1. r \in Nat /\ r < G /\ a + G - back = G + r
      BY <1>2
    <3> HIDE DEF r
    <3> DEFINE x == G + r
    <3>2. x \in Nat /\ G > 0 /\ G * 1 <= x /\ x < G * 1 + G
      BY <1>2, <3>1
    <3> HIDE DEF x
    <3>3. x \div G = 1 /\ x = G * (x \div G) + (x % G) /\ x % G \in Nat
      BY <1>2, <3>2, DivUnique, DivBounds
    <3>4. x % G = r
      BY <1>2, <3>1, <3>3 DEF x
    <3> QED
      BY <3>1, <3>4 DEF x, r
  <2> QED
    BY <1>2, <2>1
<1>5. ASSUME NEW q \in Block, SameCell(0, q, b), ZCell(d, q) < a
      PROVE  a - ZCell(d, q) \in S /\ ZCell(d, q) \in Nat
  <2>1. ZCell(d, q) \in Nat
    BY <1>1, ZCellIs
  <2>2. a - ZCell(d, q) \in 1 .. a /\ a - (a - ZCell(d, q)) = ZCell(d, q)
    BY <1>2, <1>5, <2>1
  <2>3. CornerOf(d, b, ZCell(d, q)) \in Block
    BY <1>1, <1>5, GroupInPicture
  <2> HIDE DEF a, G
  <2> QED
    BY <2>1, <2>2, <2>3, <1>4
<1>6. \E q \in Block : SameCell(0, q, b) /\ ZCell(d, q) < a
  <2> DEFINE c == CtbSize
             x == c * Cell(0, b[1])
             y == c * Cell(0, b[2])
             q == <<x, y>>
  <2>1. b[1] \in Nat /\ b[2] \in Nat /\ b[1] < WidthInMinCbs /\ b[2] < HeightInMinCbs
        /\ WidthInMinCbs \in Nat /\ HeightInMinCbs \in Nat /\ b = <<b[1], b[2]>>
    BY BlockType, BlocksAssumption
  <2>2. c = sizeAt(0) /\ 0 \in 0 .. CtbDepth /\ c \in Nat /\ c > 0
    BY Areas DEF CtbSize
  <2>3. /\ x \in Nat /\ x <= b[1] /\ Cell(0, b[1]) \in Nat
        /\ y \in Nat /\ y <= b[2] /\ Cell(0, b[2]) \in Nat
    BY <2>1, <2>2, CellType
  <2>4. q \in Block
    <3> HIDE DEF x, y
    <3> QED
      BY <2>1, <2>3 DEF Block
  <2>5. SameCell(0, q, b)
    <3>1. Cell(0, x) = Cell(0, b[1])
      BY <2>2, <2>3, CellIs
    <3>2. Cell(0, y) = Cell(0, b[2])
      BY <2>2, <2>3, CellIs
    <3> QED
      BY <3>1, <3>2 DEF SameCell
  <2>6. Z(q) <= Z(b) /\ ZCell(d, q) <= a
    <3>1. q[1] <= b[1] /\ q[2] <= b[2]
      BY <2>3
    <3> HIDE DEF q
    <3>2. Z(q) <= Z(b)
      BY <2>4, <2>5, <3>1, ZMonotone
    <3> QED
      BY <1>1, <2>4, <3>2, ZCellMonotone
  <2>7. ZCell(d, q) # a
    <3>1. SUFFICES ASSUME ZCell(d, q) = a PROVE FALSE
      OBVIOUS
    <3>2. SameCell(d, q, b)
      <4> HIDE DEF q
      <4> QED
        BY <3>1, <1>1, <2>4, <2>5, ZSameCell
    <3>3. /\ b[1] = sizeAt(d) * Cell(d, b[1]) /\ b[2] = sizeAt(d) * Cell(d, b[2])
      <4>1. \A v \in Nat : v % sizeAt(d) = 0 => v = sizeAt(d) * Cell(d, v)
        <5>1. sizeAt(d) \in Nat /\ sizeAt(d) > 0
          BY <1>1, Sizes
        <5> QED
          BY <5>1, DivBounds DEF Cell
      <4> QED
        BY <4>1, <2>1 DEF Corner
    <3>4. sizeAt(d) * Cell(d, x) <= x /\ sizeAt(d) * Cell(d, y) <= y
      <4> HIDE DEF x, y
      <4> QED
        BY <1>1, <2>3, CellType
    <3>5. Cell(d, x) = Cell(d, b[1]) /\ Cell(d, y) = Cell(d, b[2])
      BY <3>2 DEF SameCell
    <3>6. b[1] = x /\ b[2] = y
      <4> HIDE DEF x, y
      <4> QED
        BY <2>1, <2>3, <3>3, <3>4, <3>5
    <3>7. x % c = 0 /\ y % c = 0
      <4>1. \A k \in Nat : (c * k) % c = 0
        <5> HIDE DEF c
        <5> QED
          BY <2>2, MultipleIs
      <4> HIDE DEF c
      <4> QED
        BY <4>1, <2>3
    <3>8. Corner(0, b)
      BY <3>6, <3>7, <2>2 DEF Corner
    <3> QED
      BY <3>8
  <2>8. ZCell(d, q) < a
    <3> HIDE DEF q
    <3>1. ZCell(d, q) \in Nat
      BY <1>1, <2>4, ZCellIs
    <3> HIDE DEF a
    <3> QED
      BY <3>1, <1>2, <2>6, <2>7
  <2> HIDE DEF q
  <2> QED
    BY <2>4, <2>5, <2>8
<1>7. PICK q0 \in Block : SameCell(0, q0, b) /\ ZCell(d, q0) < a
  BY <1>6
<1> DEFINE m == Min(S)
<1>8. m \in S /\ (\A y \in S : m <= y) /\ S \in SUBSET Nat
  <2>1. S \in SUBSET Nat
    BY <1>2
  <2>2. a - ZCell(d, q0) \in S
    BY <1>5, <1>7
  <2> HIDE DEF S
  <2> QED
    BY <2>1, <2>2, LeastOf
<1>9. m \in 1 .. a
  <2>1. a - ZCell(d, q0) \in S /\ ZCell(d, q0) \in Nat
    BY <1>5, <1>7
  <2>2. m <= a - ZCell(d, q0)
    BY <2>1, <1>8
  <2>3. m \in 1 .. G
    BY <1>8
  <2> HIDE DEF m, a, G, S
  <2> QED
    BY <2>1, <2>2, <2>3, <1>2
<1> DEFINE p == prevGroup(b)
           g == a - m
<1>10. p = CornerOf(d, b, g) /\ p \in Block
  <2>1. p = corner(m) /\ corner(m) \in Block
    BY <1>3, <1>8
  <2>2. corner(m) = CornerOf(d, b, g)
    <3> HIDE DEF m, a, G
    <3> QED
      BY <1>4, <1>9
  <2> QED
    BY <2>1, <2>2
<1>11. g \in Nat /\ g < a /\ g < G
  <2> HIDE DEF m, a, G
  <2> QED
    BY <1>2, <1>9
<1> HIDE DEF p, g, a, G, m, S
<1>12. Corner(d, p) /\ SameCell(0, p, b) /\ ZCell(d, p) = g
  BY <1>1, <1>10, <1>11, GroupCorner DEF G
<1>13. ASSUME NEW q \in Block, SameCell(0, q, b), ZCell(d, q) < a PROVE ZCell(d, q) <= g
  <2>1. m <= a - ZCell(d, q) /\ ZCell(d, q) \in Nat
    BY <1>5, <1>8, <1>13
  <2>2. m \in Nat
    BY <1>2, <1>9
  <2> QED
    BY <2>1, <2>2, <1>2 DEF g
<1> QED
  BY <1>10, <1>11, <1>12, <1>13 DEF p, a

-------------------------------------------------------------------------------
(* The prediction.                                                         *)
LEMMA PrevOfGroup ==
    ASSUME AtNext, DataInv, Corner(GroupDepth, Next1.at), ~Corner(0, Next1.at),
           ~FirstOfAny(Next1.at)
    PROVE  deriveQpYprev(Next1.at) = EncPrev(Next1.at)
<1> DEFINE n == Next1
           d == GroupDepth
           p == prevGroup(n.at)
           l == LastBlock(p, sizeAt(d))
           c == LastCu.at
<1>0. n.at \in Block /\ layout \in Layouts /\ d \in 0 .. CtbDepth /\ 0 \in 0 .. CtbDepth
  BY NextIs, BlocksAssumption, Areas DEF GroupDepth
<1>1. /\ p \in Block /\ Corner(d, p) /\ SameCell(0, p, n.at) /\ ZCell(d, p) < ZCell(d, n.at)
      /\ \A q \in Block : SameCell(0, q, n.at) /\ ZCell(d, q) < ZCell(d, n.at)
                            => ZCell(d, q) <= ZCell(d, p)
  BY <1>0, PrevGroupIs
<1>2. l \in Block /\ SameCell(d, p, l)
  <2> HIDE DEF p, d
  <2> QED
    BY <1>0, <1>1, LastBlockIs
<1>3. SameCell(0, p, l) /\ ZCell(d, l) = ZCell(d, p)
  <2> HIDE DEF p, l, d
  <2>1. 0 \in 0 .. d
    BY <1>0, Areas
  <2>2. SameCell(0, p, l)
    BY <1>0, <1>1, <1>2, <2>1, CellsNest
  <2> QED
    BY <1>0, <1>1, <1>2, <2>2, ZSameCell
<1>4. SameCell(0, l, n.at)
  BY <1>1, <1>3 DEF SameCell
<1>5. addrInTs(l) = addrInTs(n.at)
  BY <1>0, <1>2, <1>4, AddrOf
<1>6. Precedes(l, n.at)
  <2>1. Z(l) < Z(n.at)
    <3> HIDE DEF p, l, d, n
    <3> QED
      BY <1>0, <1>1, <1>2, <1>3, ZCellMonotone
  <2> QED
    BY <2>1, <1>0, <1>2, <1>5, PrecedesIs DEF Follows
<1>7. enc.cus # <<>> /\ SameCell(0, c, n.at)
  <2>1. ~Begins(n, sizeAt(0))
    BY <1>0, GroupBegins
  <2> QED
    BY <2>1 DEF Begins, SameGroup, SameCell, Cell
<1>8. c \in Block /\ Precedes(c, n.at)
  BY <1>7, LastIs
<1>9. addrInTs(c) = addrInTs(n.at)
  BY <1>0, <1>7, <1>8, AddrOf
<1>10. Z(c) < Z(n.at)
  <2>1. Follows(addrInTs(c), Z(c), addrInTs(n.at), Z(n.at)) /\ addrInTs(n.at) \in Nat
    BY <1>0, <1>8, PrecedesIs
  <2> QED
    BY <2>1, <1>9 DEF Follows
<1>11. ZCell(d, c) < ZCell(d, n.at)
  <2>1. ~SameCell(d, c, n.at)
    <3>1. Begins(n, sizeAt(d))
      BY <1>0, GroupBegins
    <3> QED
      BY <1>7, <3>1 DEF Begins, SameGroup, SameCell, Cell
  <2> HIDE DEF d, c, n
  <2>2. ZCell(d, c) # ZCell(d, n.at)
    BY <2>1, <1>0, <1>7, <1>8, ZSameCell
  <2>3. Z(c) \in Nat /\ Z(n.at) \in Nat /\ ZCell(d, c) \in Nat /\ ZCell(d, n.at) \in Nat
    BY <1>0, <1>8, ZCellIs
  <2>4. Z(c) <= Z(n.at)
    BY <1>10, <2>3
  <2>5. ZCell(d, c) <= ZCell(d, n.at)
    BY <2>4, <1>0, <1>8, ZCellMonotone
  <2> QED
    BY <2>2, <2>3, <2>5
<1>12. ZCell(d, c) <= ZCell(d, p)
  <2> HIDE DEF d, c, p
  <2> QED
    BY <1>1, <1>7, <1>8, <1>11
<1>13. SameCell(0, p, c)
  BY <1>1, <1>7 DEF SameCell
<1>14. SameCell(d, p, c) \/ Precedes(c, l)
  <2> HIDE DEF d, c, p, l
  <2>1. CASE ZCell(d, c) = ZCell(d, p)
    BY <1>0, <1>1, <1>8, <1>13, <2>1, ZSameCell
  <2>2. CASE ZCell(d, c) < ZCell(d, l)
    <3>1. Z(c) < Z(l)
      BY <1>0, <1>2, <1>8, <2>2, ZCellMonotone
    <3> QED
      BY <3>1, <1>0, <1>2, <1>5, <1>8, <1>9, PrecedesIs DEF Follows
  <2>3. ZCell(d, c) \in Nat /\ ZCell(d, p) \in Nat
    BY <1>0, <1>1, <1>8, ZCellIs
  <2> QED
    BY <1>3, <1>12, <2>1, <2>2, <2>3
<1>15. QpYAt(l) = LastCu.qpY
  <2> HIDE DEF d, p
  <2> QED
    BY <1>0, <1>1, <1>6, <1>7, <1>14, LastQpIs
<1>16. EncPrev(n.at) = LastCu.qpY
  BY <1>7, <1>9, NotFirstIs
<1>17. deriveQpYprev(n.at) = QpYAt(l)
  <2>1. offsetInCtb(n.at) # <<0, 0>>
    BY <1>0, CornerIs
  <2> QED
    BY <2>1 DEF deriveQpYprev, FirstOfAny, GroupSize
<1> QED
  BY <1>15, <1>16, <1>17

LEMMA PrevAgrees ==
    ASSUME AtNext, DataInv, Corner(GroupDepth, Next1.at)
    PROVE  deriveQpYprev(Next1.at) = EncPrev(Next1.at)
<1>1. CASE FirstOfAny(Next1.at)
  <2>1. deriveQpYprev(Next1.at) = SliceQpY(Next1.at)
    BY <1>1 DEF deriveQpYprev, FirstOfAny
  <2> QED
    BY <1>1, <2>1, FirstIs
<1>2. CASE ~FirstOfAny(Next1.at)
  BY <1>2, PrevOfUnit, PrevOfGroup
<1> QED
  BY <1>1, <1>2

LEMMA NeighbourAgrees ==
    ASSUME AtNext, DataInv, Corner(GroupDepth, Next1.at), NEW adj \in Neighbours(Next1.at)
    PROVE  deriveQpYn(Next1.at, adj) = EncNeighbour(Next1.at, adj)
<1> DEFINE n == Next1
           found == {i \in CodedAt(adj) : toCtb(enc.cus[i].at) = toCtb(n.at)}
           near == isAvailable(n.at, adj) /\ addrInTs(adj) = addrInTs(n.at)
<1>0. n.at \in Block /\ layout \in Layouts
  BY NextIs
<1>1. PICK x \in Int, y \in Int : adj = <<x, y>>
  BY NeighbourIs
<1>2. ASSUME NEW i \in found PROVE near
  <2>1. adj \in Block /\ i \in DOMAIN enc.cus /\ InNode(enc.cus[i], adj)
    BY <1>1, CodedAtIs
  <2>2. toCtb(adj) = toCtb(n.at)
    BY <2>1, HolderIs
  <2>3. SameCell(0, adj, n.at)
    BY <1>0, <2>1, <2>2, UnitOf DEF SameCell
  <2>4. addrInTs(adj) = addrInTs(n.at) /\ sliceAddr(adj) = sliceAddr(n.at) /\ tileId(adj) = tileId(n.at)
    BY <1>0, <2>1, <2>3, SameUnit
  <2>5. toAddrInScanZ(adj) <= toAddrInScanZ(n.at)
    BY <2>1, NeighbourIs
  <2> QED
    BY <2>1, <2>4, <2>5 DEF isAvailable
<1>3. ASSUME near PROVE found # {} /\ enc.cus[Max(found)].qpY = QpYAt(adj)
  <2>1. adj \in Block /\ addrInTs(adj) = addrInTs(n.at)
    BY <1>3 DEF isAvailable
  <2>2. PICK i \in DOMAIN enc.cus : InNode(enc.cus[i], adj)
    BY <2>1, NeighbourIs
  <2>3. SameCell(0, adj, n.at)
    BY <1>0, <2>1, AddrOf
  <2>4. toCtb(enc.cus[i].at) = toCtb(n.at) /\ i \in CodedAt(adj)
    BY <1>0, <2>1, <2>2, <2>3, HolderIs, SameUnit
  <2>5. ASSUME NEW j \in found PROVE enc.cus[j].qpY = QpYAt(adj) /\ j = i
    <3>1. j \in DOMAIN enc.cus /\ InNode(enc.cus[j], adj)
      BY <1>1, CodedAtIs
    <3>2. getCodingQuadTree(adj) = NodeOf(enc.cus[j])
      BY <2>1, <3>1, HolderIs
    <3>3. NodeOf(enc.cus[j]).qpY = {enc.cus[j].qpY}
      BY <3>1 DEF DataInv
    <3>4. QpYAt(adj) = enc.cus[j].qpY
      <4>1. QpYAt(adj) = The({enc.cus[j].qpY})
        BY <3>2, <3>3 DEF QpYAt
      <4> QED
        BY <4>1 DEF The
    <3>5. j = i
      <4>1. Coded(enc.cus[i]) /\ Coded(enc.cus[j]) /\ Sound(enc.cus[i]) /\ Sound(enc.cus[j])
        BY <2>2, <3>1, NextIs
      <4>2. /\ Leaf(TreeOf(adj), adj, enc.cus[i].depth) /\ enc.cus[i].depth \in 0 .. CtbDepth
            /\ Leaf(TreeOf(adj), adj, enc.cus[j].depth) /\ enc.cus[j].depth \in 0 .. CtbDepth
        BY <2>1, <2>2, <3>1, <4>1 DEF Coded, Sound
      <4>3. enc.cus[i].depth = enc.cus[j].depth
        BY <4>2, Exclusive
      <4>4. enc.cus[i].at = enc.cus[j].at
        BY <2>2, <3>1, <4>1, <4>3, NodeUnique
      <4> QED
        BY <4>4, <2>2, <3>1, NodesNow DEF AtNext, TreeInv, Distinct
    <3> QED
      BY <3>4, <3>5
  <2>6. i \in found
    BY <2>4
  <2>7. found = {i} /\ i \in Int
    <3>1. i \in Int
      BY Kinds DEF AtNext
    <3> HIDE DEF found
    <3> QED
      BY <2>5, <2>6, <3>1
  <2>8. Max(found) = i
    BY <2>7, MaxIs
  <2> HIDE DEF found
  <2> QED
    BY <2>5, <2>6, <2>8
<1>4. CASE near
  <2>1. deriveQpYn(n.at, adj) = QpYAt(adj)
    BY <1>4 DEF deriveQpYn
  <2>2. EncNeighbour(n.at, adj) = enc.cus[Max(found)].qpY
    BY <1>3, <1>4 DEF EncNeighbour
  <2> QED
    BY <1>3, <1>4, <2>1, <2>2
<1>5. CASE ~near
  <2>1. deriveQpYn(n.at, adj) = deriveQpYprev(n.at)
    BY <1>5 DEF deriveQpYn
  <2>2. found = {}
    <3> HIDE DEF found, near
    <3> QED
      BY <1>2, <1>5
  <2>3. EncNeighbour(n.at, adj) = EncPrev(n.at)
    BY <2>2 DEF EncNeighbour
  <2> QED
    BY <2>1, <2>3, PrevAgrees
<1> QED
  BY <1>4, <1>5

(* The decoder predicts what the encoder did.                              *)
LEMMA PredAgrees ==
    ASSUME AtNext, DataInv, Corner(GroupDepth, Next1.at)
    PROVE  deriveQpYpred(Next1.at) = EncPred(Next1.at)
<1> DEFINE left == <<Next1.at[1] - 1, Next1.at[2]>>
           above == <<Next1.at[1], Next1.at[2] - 1>>
<1>1. left \in Neighbours(Next1.at) /\ above \in Neighbours(Next1.at)
  BY DEF Neighbours
<1>2. /\ deriveQpYn(Next1.at, left) = EncNeighbour(Next1.at, left)
      /\ deriveQpYn(Next1.at, above) = EncNeighbour(Next1.at, above)
  <2> HIDE DEF left, above
  <2> QED
    BY <1>1, NeighbourAgrees
<1> QED
  BY <1>2 DEF deriveQpYpred, EncPred

LEMMA PredInRange ==
    ASSUME AtNext, TypeInv
    PROVE  EncPred(Next1.at) \in QpRange
<1>0. Next1.at \in Block /\ layout \in Layouts
  BY NextIs
<1>1. \A i \in DOMAIN enc.cus : enc.cus[i].qpY \in QpRange
  <2>1. enc.cus \in Seq(CodedUnit)
    BY DEF TypeInv, Encoder, CodedUnits
  <2>2. \A c \in CodedUnit : c.qpY \in QpRange
    BY DEF CodedUnit
  <2> QED
    BY <2>1, <2>2
<1>2. EncPrev(Next1.at) \in QpRange
  <2>1. enc.cus # <<>> => LastCu.qpY \in QpRange
    BY <1>1, LastIs DEF LastCu
  <2>2. SliceQpY(Next1.at) \in QpRange
    BY <1>0, SliceIs
  <2> QED
    BY <2>1, <2>2 DEF EncPrev
<1>3. ASSUME NEW adj PROVE EncNeighbour(Next1.at, adj) \in QpRange
  <2> DEFINE found == {i \in CodedAt(adj) : toCtb(enc.cus[i].at) = toCtb(Next1.at)}
  <2>1. CASE found = {}
    BY <2>1, <1>2 DEF EncNeighbour
  <2>2. CASE found # {}
    <3>1. PICK i \in found : TRUE
      BY <2>2
    <3>2. Len(enc.cus) \in Nat /\ found \in SUBSET (0 .. Len(enc.cus))
          /\ \A j \in found : j \in DOMAIN enc.cus
      BY Kinds DEF AtNext, CodedAt
    <3>3. Max(found) \in found
      <4> HIDE DEF found
      <4> QED
        BY <3>1, <3>2, GreatestOf
    <3>4. enc.cus[Max(found)].qpY \in QpRange
      BY <3>2, <3>3, <1>1
    <3> QED
      BY <2>2, <3>4 DEF EncNeighbour
  <2> QED
    BY <2>1, <2>2
<1> DEFINE u == EncNeighbour(Next1.at, <<Next1.at[1] - 1, Next1.at[2]>>)
           v == EncNeighbour(Next1.at, <<Next1.at[1], Next1.at[2] - 1>>)
<1>4. u \in QpRange /\ v \in QpRange
  BY <1>3
<1>5. EncPred(Next1.at) = (u + v + 1) \div 2
  BY DEF EncPred
<1> HIDE DEF u, v
<1>6. (u + v + 1) \div 2 \in QpRange
  BY <1>4, QpsAssumption DEF QpRange
<1> QED
  BY <1>5, <1>6
-------------------------------------------------------------------------------
(* The differences: the decoder's sum is the encoder's target.             *)
LEMMA HalfOfRange ==
    /\ QpBdOffset \in Nat /\ QpBdOffset \div 2 \in Nat
    /\ QpBdOffset = 2 * (QpBdOffset \div 2)
BY QpsAssumption

LEMMA ModShift ==
    ASSUME NEW r \in Nat, r > 0, NEW x \in Int
    PROVE  /\ x % r \in 0 .. r - 1
           /\ \E k \in Int : x = r * k + (x % r)
           /\ \A k \in Int, y \in 0 .. r - 1 : x = r * k + y => x % r = y
<1> DEFINE q == x \div r
           m == x % r
<1>1. q \in Int /\ m \in 0 .. r - 1 /\ x = r * q + m
  BY SMT
<1> HIDE DEF q, m
<1>2. ASSUME NEW k \in Int, NEW y \in 0 .. r - 1, x = r * k + y PROVE m = y
  <2>1. q < k => r * q + r <= r * k
    <3>1. SUFFICES ASSUME q + 1 <= k PROVE r * q + r <= r * k
      BY <1>1
    <3>2. r * (k - (q + 1)) >= 0
      <4>1. k - (q + 1) \in Nat
        BY <3>1, <1>1
      <4> QED
        BY <4>1
    <3>3. r * (k - (q + 1)) = r * k - (r * q + r) /\ r * k \in Int /\ r * q \in Int
      BY <1>1
    <3> QED
      BY <3>2, <3>3
  <2>2. k < q => r * k + r <= r * q
    <3>1. SUFFICES ASSUME k + 1 <= q PROVE r * k + r <= r * q
      BY <1>1
    <3>2. r * (q - (k + 1)) >= 0
      <4>1. q - (k + 1) \in Nat
        BY <3>1, <1>1
      <4> QED
        BY <4>1
    <3>3. r * (q - (k + 1)) = r * q - (r * k + r) /\ r * k \in Int /\ r * q \in Int
      BY <1>1
    <3> QED
      BY <3>2, <3>3
  <2> DEFINE a == r * q
             b == r * k
  <2>3. a \in Int /\ b \in Int /\ a + m = b + y /\ (q = k => a = b)
        /\ (q < k => a + r <= b) /\ (k < q => b + r <= a)
    BY <1>1, <1>2, <2>1, <2>2
  <2> HIDE DEF a, b
  <2> QED
    BY <1>1, <2>3
<1> QED
  BY <1>1, <1>2 DEF q, m

DifferenceOf(t, p) ==
    ((t - p + (26 + QpBdOffset \div 2)) % (52 + QpBdOffset)) - (26 + QpBdOffset \div 2)

LEMMA DifferenceIs ==
    ASSUME NEW p \in QpRange, NEW t \in QpRange
    PROVE  /\ DifferenceOf(t, p) \in -(26 + QpBdOffset \div 2) .. 25 + QpBdOffset \div 2
           /\ (p + DifferenceOf(t, p) + 52 + 2 * QpBdOffset) % (52 + QpBdOffset) = t + QpBdOffset
           /\ p + DifferenceOf(t, p) + 52 + 2 * QpBdOffset >= 0
           /\ (p + 52 + 2 * QpBdOffset) % (52 + QpBdOffset) = p + QpBdOffset
           /\ p + 52 + 2 * QpBdOffset >= 0
  <1> DEFINE b == QpBdOffset
             h == 26 + QpBdOffset \div 2
             r == 52 + QpBdOffset
             x == t - p + h
             y == x % r
  <1>1. b \in Nat /\ h \in Nat /\ r \in Nat /\ r > 0 /\ r = 2 * h /\ r = 52 + b
    BY HalfOfRange, SMT
  <1>2. p \in Int /\ t \in Int /\ p >= -b /\ p <= 51 /\ t >= -b /\ t <= 51
    BY <1>1 DEF QpRange
  <1>3. x \in Int
    BY <1>1, <1>2
  <1>4. y \in 0 .. r - 1 /\ \E k \in Int : x = r * k + y
    <2> HIDE DEF x, r
    <2> QED  BY <1>1, <1>3, ModShift
  <1>5. PICK k \in Int : x = r * k + y
    BY <1>4
  <1> DEFINE s == p + (y - h) + 52 + 2 * b
             u == p + 52 + 2 * b
  <1>6. s \in Int /\ s >= 0 /\ s = r * (1 - k) + (t + b) /\ 1 - k \in Int /\ t + b \in 0 .. r - 1
    <2>1. DEFINE m == r * k
    <2>2. m \in Int /\ x = m + y
      BY <1>1, <1>5, SMT
    <2>3. r * (1 - k) = r - m
      BY <1>1, <1>5, SMT
    <2> HIDE DEF y, m
    <2>4. s \in Int /\ s >= 0 /\ s = r - m + (t + b) /\ t + b \in 0 .. r - 1
      <3> HIDE DEF b, h, r
      <3>1. t - p + h = m + y /\ y \in 0 .. r - 1
        BY <2>2, <1>4
      <3> QED  BY <3>1, <2>2, <1>1, <1>2, SMT
    <2> QED  BY <2>3, <2>4
  <1>7. u \in Int /\ u >= 0 /\ u = r * 1 + (p + b) /\ p + b \in 0 .. r - 1
    <2> HIDE DEF b, r
    <2> QED  BY <1>1, <1>2, SMT
  <1>8. s % r = t + b /\ u % r = p + b
    <2> HIDE DEF s, r, u, b
    <2>1. s % r = t + b
      BY <1>1, <1>6, ModShift
    <2>2. 1 \in Int
      OBVIOUS
    <2>3. u % r = p + b
      BY <1>1, <1>7, <2>2, ModShift
    <2> QED  BY <2>1, <2>3
  <1>9. DifferenceOf(t, p) = y - h
    BY DEF DifferenceOf
  <1>10. y - h \in -h .. 25 + QpBdOffset \div 2
    <2> HIDE DEF y
    <2> QED  BY <1>4, <1>1, SMT
  <1> HIDE DEF y
  <1> QED  BY <1>6, <1>7, <1>8, <1>9, <1>10

(* With the difference that the encoder sends, or with none, the decoder   *)
(* derives the QP that it has chosen, or predicted.                        *)
LEMMA DeltaCodes ==
    ASSUME NEW p \in QpRange, NEW t \in QpRange, NEW status, status.qpYpred = p
    PROVE  /\ status.cuQpDeltaVal = DifferenceOf(t, p) => deriveQpY(status) = t
           /\ status.cuQpDeltaVal = 0 => deriveQpY(status) = p
  <1>1. p \in Int /\ t \in Int /\ QpBdOffset \in Nat
    BY HalfOfRange DEF QpRange
  <1>2. ASSUME status.cuQpDeltaVal = DifferenceOf(t, p)  PROVE deriveQpY(status) = t
    <2>1. (p + DifferenceOf(t, p) + 52 + 2 * QpBdOffset) % (52 + QpBdOffset) = t + QpBdOffset
          /\ p + DifferenceOf(t, p) + 52 + 2 * QpBdOffset >= 0
      BY DifferenceIs
    <2>2. deriveQpY(status)
            = Rem(p + DifferenceOf(t, p) + 52 + 2 * QpBdOffset, 52 + QpBdOffset) - QpBdOffset
      BY <1>2, Zenon DEF deriveQpY
    <2>3. Rem(p + DifferenceOf(t, p) + 52 + 2 * QpBdOffset, 52 + QpBdOffset) = t + QpBdOffset
      BY <2>1, Zenon DEF Rem
    <2> QED  BY <2>2, <2>3, <1>1
  <1>3. ASSUME status.cuQpDeltaVal = 0  PROVE deriveQpY(status) = p
    <2>1. (p + 52 + 2 * QpBdOffset) % (52 + QpBdOffset) = p + QpBdOffset
          /\ p + 52 + 2 * QpBdOffset >= 0
      BY DifferenceIs
    <2>2. deriveQpY(status) = Rem(p + 0 + 52 + 2 * QpBdOffset, 52 + QpBdOffset) - QpBdOffset
      BY <1>3, Zenon DEF deriveQpY
    <2>3. p + 0 = p
      BY <1>1
    <2>4. Rem(p + 0 + 52 + 2 * QpBdOffset, 52 + QpBdOffset) = p + QpBdOffset
      BY <2>1, <2>3, Zenon DEF Rem
    <2> QED  BY <2>2, <2>4, <1>1
  <1> QED  BY <1>2, <1>3

(* What the decoder derives when it knows what the encoder has sent.       *)
LEMMA QpDerived ==
    ASSUME enc.pred \in QpRange, enc.target \in QpRange, NEW status, status.qpYpred = enc.pred
    PROVE  /\ EncDelta \in -(26 + QpBdOffset \div 2) .. 25 + QpBdOffset \div 2
           /\ status.cuQpDeltaVal = EncDelta => deriveQpY(status) = enc.target
           /\ status.cuQpDeltaVal = 0 => deriveQpY(status) = enc.pred
  <1>1. EncDelta = DifferenceOf(enc.target, enc.pred)
    BY DEF EncDelta, DifferenceOf
  <1> QED  BY <1>1, DifferenceIs, DeltaCodes

-------------------------------------------------------------------------------
(* Sequences of nodes in order.                                            *)
LEMMA OrderedJoin ==
    ASSUME NEW S, NEW s \in Seq(S), NEW t \in Seq(S), Ordered(s), Ordered(t),
           Before(Entries(s), Entries(t))
    PROVE  Ordered(s \o t)
<1> DEFINE r == s \o t
           m == Len(s)
           n == Len(t)
<1>1. /\ Len(r) = m + n /\ m \in Nat /\ n \in Nat
      /\ DOMAIN r = 1 .. m + n /\ DOMAIN s = 1 .. m /\ DOMAIN t = 1 .. n
      /\ \A i \in 1 .. m : r[i] = s[i]
      /\ \A i \in 1 .. n : r[m + i] = t[i]
  OBVIOUS
<1> HIDE DEF r, m, n
<1>2. \A i \in DOMAIN s, j \in DOMAIN t : Precedes(s[i].at, t[j].at)
  BY Zenon DEF Before, Entries
<1>3. ASSUME NEW i \in DOMAIN r, NEW j \in DOMAIN r, i < j
      PROVE  Precedes(r[i].at, r[j].at)
  <2>1. i \in 1 .. m + n /\ j \in 1 .. m + n
    BY <1>1, <1>3
  <2>2. CASE j \in 1 .. m
    <3>1. i \in DOMAIN s /\ j \in DOMAIN s /\ r[i] = s[i] /\ r[j] = s[j]
      BY <2>1, <2>2, <1>1, <1>3
    <3> QED
      BY <3>1, <1>3, Zenon DEF Ordered
  <2>3. CASE i \in 1 .. m /\ j \notin 1 .. m
    <3>1. j - m \in 1 .. n /\ m + (j - m) = j
      BY <2>1, <2>3, <1>1
    <3>2. r[i] = s[i] /\ r[j] = t[j - m] /\ i \in DOMAIN s /\ j - m \in DOMAIN t
      BY <3>1, <2>3, <1>1
    <3> QED
      BY <3>2, <1>2, Zenon
  <2>4. CASE i \notin 1 .. m
    <3>1. /\ i - m \in 1 .. n /\ m + (i - m) = i
          /\ j - m \in 1 .. n /\ m + (j - m) = j /\ i - m < j - m
      BY <2>1, <2>4, <1>1, <1>3
    <3>2. r[i] = t[i - m] /\ r[j] = t[j - m] /\ i - m \in DOMAIN t /\ j - m \in DOMAIN t
      BY <3>1, <1>1
    <3> QED
      BY <3>1, <3>2, Zenon DEF Ordered
  <2> QED
    BY <2>2, <2>3, <2>4
<1> QED
  BY <1>3 DEF Ordered, r

LEMMA OrderedTail ==
    ASSUME NEW S, NEW s \in Seq(S), s # <<>>, Ordered(s)
    PROVE  Ordered(Tail(s)) /\ Before({Head(s)}, Entries(Tail(s)))
<1> DEFINE t == Tail(s)
           n == Len(s)
<1>1. /\ n \in Nat /\ n > 0 /\ DOMAIN s = 1 .. n /\ Head(s) = s[1]
      /\ DOMAIN t = 1 .. n - 1 /\ \A i \in 1 .. n - 1 : t[i] = s[i + 1]
  OBVIOUS
<1> HIDE DEF t, n
<1>2. 1 \in DOMAIN s /\ \A i \in DOMAIN t : i + 1 \in DOMAIN s /\ 1 < i + 1 /\ t[i] = s[i + 1]
  BY <1>1
<1>3. ASSUME NEW i \in DOMAIN t, NEW j \in DOMAIN t, i < j
      PROVE  Precedes(t[i].at, t[j].at)
  <2>1. i + 1 < j + 1
    BY <1>1, <1>3
  <2> QED
    BY <1>2, <2>1, Zenon DEF Ordered
<1>4. ASSUME NEW i \in DOMAIN t PROVE Precedes(Head(s).at, t[i].at)
  <2>1. Precedes(s[1].at, s[i + 1].at)
    BY <1>2, Zenon DEF Ordered
  <2> QED
    BY <2>1, <1>1, <1>2
<1>5. Ordered(t)
  BY <1>3 DEF Ordered
<1>6. Before({Head(s)}, Entries(t))
  <2> SUFFICES ASSUME NEW y \in Entries(t) PROVE Precedes(Head(s).at, y.at)
    BY Zenon DEF Before
  <2>1. PICK i \in DOMAIN t : y = t[i]
    BY Zenon DEF Entries
  <2> QED
    BY <2>1, <1>4
<1> QED
  BY <1>5, <1>6 DEF t

LEMMA SingleIs ==
    ASSUME NEW x
    PROVE  /\ <<x>> \in Seq({x}) /\ Entries(<<x>>) = {x} /\ Ordered(<<x>>)
           /\ Head(<<x>>) = x /\ Entries(Tail(<<x>>)) = {} /\ <<x>> # <<>>
<1>1. DOMAIN <<x>> = {1} /\ <<x>>[1] = x /\ <<x>> \in Seq({x}) /\ Head(<<x>>) = x
      /\ DOMAIN Tail(<<x>>) = {} /\ <<x>> # <<>>
  OBVIOUS
<1>2. \A i, j \in {1} : ~(i < j)
  OBVIOUS
<1>3. Ordered(<<x>>)
  BY <1>1, <1>2 DEF Ordered
<1> QED
  BY <1>1, <1>3 DEF Entries

(* The rest of a joined sequence.                                          *)
LEMMA TailOfJoin ==
    ASSUME NEW S, NEW s \in Seq(S), NEW t \in Seq(S), s # <<>>
    PROVE  /\ Head(s \o t) = Head(s) /\ s \o t # <<>>
           /\ Entries(Tail(s \o t)) \subseteq Entries(Tail(s)) \cup Entries(t)
<1> DEFINE r == s \o t
           m == Len(s)
           n == Len(t)
           u == Tail(r)
           w == Tail(s)
<1>1. /\ m \in Nat /\ n \in Nat /\ m > 0 /\ r \in Seq(S) /\ Len(r) = m + n /\ r # <<>>
      /\ DOMAIN s = 1 .. m /\ DOMAIN t = 1 .. n
      /\ \A i \in 1 .. m : r[i] = s[i]
      /\ \A i \in 1 .. n : r[m + i] = t[i]
  OBVIOUS
<1> HIDE DEF r
<1>2. /\ DOMAIN u = 1 .. m + n - 1 /\ \A i \in 1 .. m + n - 1 : u[i] = r[i + 1]
      /\ Head(r) = r[1]
  BY <1>1
<1>3. /\ DOMAIN w = 1 .. m - 1 /\ \A i \in 1 .. m - 1 : w[i] = s[i + 1]
      /\ Head(s) = s[1] /\ 1 \in 1 .. m
  BY <1>1
<1> HIDE DEF m, n, u, w
<1>4. Head(r) = Head(s)
  BY <1>1, <1>2, <1>3
<1>5. ASSUME NEW x \in Entries(u) PROVE x \in Entries(w) \cup Entries(t)
  <2>1. PICK i \in 1 .. m + n - 1 : x = r[i + 1]
    BY <1>2 DEF Entries
  <2>2. CASE i + 1 \in 1 .. m
    <3>1. i \in 1 .. m - 1
      BY <2>1, <2>2, <1>1
    <3>2. i \in DOMAIN w /\ w[i] = x
      BY <3>1, <2>1, <2>2, <1>1, <1>3
    <3> QED
      BY <3>2 DEF Entries
  <2>3. CASE i + 1 \notin 1 .. m
    <3>1. (i + 1) - m \in 1 .. n /\ m + ((i + 1) - m) = i + 1
      BY <2>1, <2>3, <1>1
    <3>2. (i + 1) - m \in DOMAIN t /\ t[(i + 1) - m] = x
      BY <3>1, <2>1, <1>1
    <3> QED
      BY <3>2 DEF Entries
  <2> QED
    BY <2>2, <2>3
<1> QED
  BY <1>1, <1>4, <1>5 DEF r, u, w

(* The quarters of a node follow each other, and only the first is at a    *)
(* corner of the node's level or of one above.                             *)
LEMMA QuarterOrder ==
    ASSUME layout \in Layouts, NEW n, Sound(n), n.depth < CtbDepth,
           NEW u \in 0 .. 1, NEW v \in 0 .. 1, NEW w \in 0 .. 1, NEW z \in 0 .. 1,
           u + 2 * v < w + 2 * z
    PROVE  Before(Entries(Part(n, u, v)), Entries(Part(n, w, z)))
<1> SUFFICES ASSUME NEW p \in Entries(Part(n, u, v)), NEW q \in Entries(Part(n, w, z))
             PROVE  Precedes(p.at, q.at)
  BY Zenon DEF Before
<1> DEFINE e == n.depth + 1
<1>1. p = QuarterNode(n, u, v) /\ InPicture(p.at) /\ q = QuarterNode(n, w, z) /\ InPicture(q.at)
  BY PartIs
<1>2. n.depth \in 0 .. CtbDepth /\ e \in 1 .. CtbDepth /\ e \in 0 .. CtbDepth /\ e - 1 = n.depth
      /\ n.at \in Block /\ n.at[1] \in Nat /\ n.at[2] \in Nat /\ 0 \in 0 .. n.depth
      /\ e \in Int
  <2>1. n.depth \in 0 .. CtbDepth /\ n.at \in Block /\ CtbDepth \in Nat
    BY Sizes DEF Sound
  <2>2. n.at[1] \in Nat /\ n.at[2] \in Nat
    BY <2>1, BlockType
  <2>3. n.depth \in Nat /\ n.depth # CtbDepth
    BY <2>1
  <2> QED
    BY <2>1, <2>2, <2>3
<1>3. /\ p.at \in Block /\ SameCell(n.depth, n.at, p.at)
      /\ Cell(e, p.at[1]) = 2 * Cell(n.depth, n.at[1]) + u
      /\ Cell(e, p.at[2]) = 2 * Cell(n.depth, n.at[2]) + v
  BY <1>1, QuarterNodeIs DEF NodeSet
<1>4. /\ q.at \in Block /\ SameCell(n.depth, n.at, q.at)
      /\ Cell(e, q.at[1]) = 2 * Cell(n.depth, n.at[1]) + w
      /\ Cell(e, q.at[2]) = 2 * Cell(n.depth, n.at[2]) + z
  BY <1>1, QuarterNodeIs DEF NodeSet
<1>5. Cell(n.depth, n.at[1]) \in Nat /\ Cell(n.depth, n.at[2]) \in Nat
  BY <1>2, CellType
<1>6. QuarterOf(e, p.at) = u + 2 * v /\ QuarterOf(e, q.at) = w + 2 * z
  <2> DEFINE x == Cell(n.depth, n.at[1])
             y == Cell(n.depth, n.at[2])
  <2>1. /\ (2 * x + u) % 2 = u /\ (2 * x + w) % 2 = w
        /\ (2 * y + v) % 2 = v /\ (2 * y + z) % 2 = z
    <3>1. x \in Nat /\ y \in Nat
      BY <1>5
    <3> HIDE DEF x, y
    <3> QED
      BY <3>1
  <2> HIDE DEF x, y, e
  <2> QED
    BY <2>1, <1>3, <1>4, Zenon DEF QuarterOf, x, y
<1>7. SameCell(0, n.at, p.at) /\ SameCell(0, n.at, q.at)
  BY <1>2, <1>3, <1>4, CellsNest
<1>8. ZCell(n.depth, p.at) = ZCell(n.depth, n.at) /\ ZCell(n.depth, q.at) = ZCell(n.depth, n.at)
  BY <1>2, <1>3, <1>4, <1>7, ZSameCell
<1>9. /\ ZCell(e, p.at) = 4 * ZCell(n.depth, n.at) + (u + 2 * v)
      /\ ZCell(e, q.at) = 4 * ZCell(n.depth, n.at) + (w + 2 * z)
      /\ ZCell(n.depth, n.at) \in Nat
  <2>1. /\ ZCell(e, p.at) = 4 * ZCell(e - 1, p.at) + QuarterOf(e, p.at)
        /\ ZCell(e, q.at) = 4 * ZCell(e - 1, q.at) + QuarterOf(e, q.at)
        /\ ZCell(n.depth, n.at) \in Nat
    <3> HIDE DEF e
    <3> QED
      BY <1>2, <1>3, <1>4, ZCellIs
  <2> HIDE DEF e
  <2> QED
    BY <2>1, <1>2, <1>6, <1>8, Zenon
<1>10. ZCell(e, p.at) < ZCell(e, q.at)
  <2> DEFINE k == ZCell(n.depth, n.at)
             a == ZCell(e, p.at)
             b == ZCell(e, q.at)
  <2>1. k \in Nat /\ a = 4 * k + (u + 2 * v) /\ b = 4 * k + (w + 2 * z)
    BY <1>9
  <2> HIDE DEF k, a, b
  <2>2. a < b
    BY <2>1
  <2> QED
    BY <2>2 DEF a, b
<1>11. Z(p.at) < Z(q.at)
  <2> HIDE DEF e
  <2> QED
    BY <1>2, <1>3, <1>4, <1>10, ZCellMonotone
<1>12. addrInTs(p.at) = addrInTs(q.at)
  BY <1>2, <1>3, <1>4, <1>7, AddrOf
<1> QED
  BY <1>3, <1>4, <1>11, <1>12, PrecedesIs DEF Follows

LEMMA QuarterCorner ==
    ASSUME NEW n, Sound(n), n.depth < CtbDepth,
           NEW u \in 0 .. 1, NEW v \in 0 .. 1, NEW q \in Entries(Part(n, u, v)), u + v > 0,
           NEW d \in 0 .. n.depth
    PROVE  ~Corner(d, q.at)
<1>1. q = QuarterNode(n, u, v) /\ InPicture(q.at)
  BY PartIs
<1> DEFINE s == sizeAt(n.depth + 1)
<1>2. n.depth \in 0 .. CtbDepth /\ n.depth + 1 \in 0 .. CtbDepth /\ d \in 0 .. CtbDepth
      /\ n.at \in Block /\ n.at[1] \in Nat /\ n.at[2] \in Nat /\ s \in Nat /\ s > 0
  BY BlockType, Sizes DEF Sound
<1>3. q.at \in Block /\ SameCell(n.depth, n.at, q.at)
  BY <1>1, QuarterNodeIs DEF NodeSet
<1>4. q.at[1] = n.at[1] + s * u /\ q.at[2] = n.at[2] + s * v /\ q.at[1] \in Nat /\ q.at[2] \in Nat
  BY <1>1, <1>3, BlockType DEF QuarterNode, Node
<1>5. SameCell(d, n.at, q.at)
  BY <1>2, <1>3, CellsNest
<1> SUFFICES ASSUME Corner(d, q.at) PROVE FALSE
  OBVIOUS
<1>6. ASSUME NEW x \in Nat, NEW y \in Nat, NEW k \in 0 .. 1, y = x + s * k,
             Cell(d, x) = Cell(d, y), y % sizeAt(d) = 0
      PROVE  k = 0
  <2>1. sizeAt(d) \in Nat /\ sizeAt(d) > 0
    BY <1>2, Sizes
  <2>2. y = sizeAt(d) * (y \div sizeAt(d)) + (y % sizeAt(d))
    <3> DEFINE t == sizeAt(d)
    <3>1. t \in Nat /\ t > 0
      BY <2>1
    <3> HIDE DEF t
    <3>2. y = t * (y \div t) + (y % t)
      BY <3>1, DivBounds
    <3> QED
      BY <3>2 DEF t
  <2>3. sizeAt(d) * Cell(d, x) \in Nat /\ sizeAt(d) * Cell(d, x) <= x
    BY <1>2, CellType
  <2> DEFINE m == sizeAt(d) * Cell(d, x)
  <2>4. y = m + 0
    BY <2>2, <1>6 DEF Cell
  <2>5. m \in Nat /\ m <= x
    BY <2>3
  <2> HIDE DEF m, s
  <2> QED
    BY <2>4, <2>5, <1>6, <1>2, SMT
<1>7. u = 0 /\ v = 0
  BY <1>4, <1>5, <1>6, <1>2 DEF Corner, SameCell
<1> QED
  BY <1>7

LEMMA QuartersOrdered ==
    ASSUME layout \in Layouts, NEW n, Sound(n), n.depth < CtbDepth
    PROVE  /\ Ordered(Quarters(n)) /\ Quarters(n) # <<>> /\ Head(Quarters(n)).at = n.at
           /\ \A q \in Entries(Tail(Quarters(n))) : \A d \in 0 .. n.depth : ~Corner(d, q.at)
<1> DEFINE A == Part(n, 0, 0)
           B == Part(n, 1, 0)
           C == Part(n, 0, 1)
           D == Part(n, 1, 1)
<1>1. Quarters(n) = A \o B \o C \o D
  BY QuartersJoined
<1>2. A \in Seq(NodeSet) /\ B \in Seq(NodeSet) /\ C \in Seq(NodeSet) /\ D \in Seq(NodeSet)
  BY PartIs
<1>3. QuarterNode(n, 0, 0).at = n.at /\ InPicture(QuarterNode(n, 0, 0).at)
  <2>1. n.at \in Block /\ n.depth + 1 \in 0 .. CtbDepth
    BY Sizes DEF Sound
  <2>2. n.at[1] \in Nat /\ n.at[2] \in Nat /\ n.at[1] < WidthInMinCbs /\ n.at[2] < HeightInMinCbs
        /\ n.at = <<n.at[1], n.at[2]>>
    BY <2>1, BlockType
  <2>3. sizeAt(n.depth + 1) \in Nat
    BY <2>1, Sizes
  <2>4. n.at[1] + sizeAt(n.depth + 1) * 0 = n.at[1] /\ n.at[2] + sizeAt(n.depth + 1) * 0 = n.at[2]
    BY <2>2, <2>3
  <2>5. QuarterNode(n, 0, 0).at = <<n.at[1], n.at[2]>>
    BY <2>4, Zenon DEF QuarterNode, Node
  <2> QED
    BY <2>2, <2>5 DEF InPicture
<1>4. A = <<QuarterNode(n, 0, 0)>>
  BY <1>3 DEF Part
<1>5. A # <<>> /\ Head(A).at = n.at /\ Entries(Tail(A)) = {}
  <2> HIDE DEF A
  <2> QED
    BY <1>3, <1>4, SingleIs
<1>6. ASSUME NEW u \in 0 .. 1, NEW v \in 0 .. 1 PROVE Ordered(Part(n, u, v))
  <2>1. CASE InPicture(QuarterNode(n, u, v).at)
    <3>1. Part(n, u, v) = <<QuarterNode(n, u, v)>>
      BY <2>1 DEF Part
    <3> QED
      BY <3>1, SingleIs
  <2>2. CASE ~InPicture(QuarterNode(n, u, v).at)
    <3>1. Part(n, u, v) = <<>>
      BY <2>2 DEF Part
    <3>2. DOMAIN <<>> = {}
      OBVIOUS
    <3> QED
      BY <3>1, <3>2 DEF Ordered
  <2> QED
    BY <2>1, <2>2
<1>7. Ordered(A) /\ Ordered(B) /\ Ordered(C) /\ Ordered(D)
  BY <1>6
<1>8. /\ Before(Entries(A), Entries(B)) /\ Before(Entries(A), Entries(C))
      /\ Before(Entries(A), Entries(D)) /\ Before(Entries(B), Entries(C))
      /\ Before(Entries(B), Entries(D)) /\ Before(Entries(C), Entries(D))
  BY QuarterOrder
<1>9. ASSUME NEW q \in Entries(B) \cup Entries(C) \cup Entries(D), NEW d \in 0 .. n.depth
      PROVE  ~Corner(d, q.at)
  BY QuarterCorner
<1> HIDE DEF A, B, C, D
<1> DEFINE E == A \o B
           F == E \o C
<1>10. E \in Seq(NodeSet) /\ Entries(E) = Entries(A) \cup Entries(B) /\ Ordered(E)
       /\ E # <<>> /\ Head(E) = Head(A) /\ Entries(Tail(E)) \subseteq Entries(B)
  BY <1>2, <1>5, <1>7, <1>8, JoinIs, OrderedJoin, TailOfJoin
<1> HIDE DEF E
<1>11. F \in Seq(NodeSet) /\ Entries(F) = Entries(E) \cup Entries(C) /\ Ordered(F)
       /\ F # <<>> /\ Head(F) = Head(A) /\ Entries(Tail(F)) \subseteq Entries(B) \cup Entries(C)
  <2>1. Before(Entries(E), Entries(C))
    BY <1>8, <1>10, Zenon DEF Before
  <2>2. F \in Seq(NodeSet) /\ Entries(F) = Entries(E) \cup Entries(C) /\ Ordered(F)
    <3>1. C \in Seq(NodeSet) /\ E \in Seq(NodeSet) /\ Ordered(E) /\ Ordered(C)
      BY <1>2, <1>7, <1>10
    <3>2. Ordered(F)
      BY <3>1, <2>1, OrderedJoin
    <3>3. F \in Seq(NodeSet) /\ Entries(F) = Entries(E) \cup Entries(C)
      BY <3>1, JoinIs
    <3> QED
      BY <3>2, <3>3
  <2>3. F # <<>> /\ Head(F) = Head(E) /\ Entries(Tail(F)) \subseteq Entries(Tail(E)) \cup Entries(C)
    BY <1>2, <1>10, TailOfJoin
  <2> QED
    BY <2>2, <2>3, <1>10
<1> HIDE DEF F
<1>12. Ordered(F \o D) /\ F \o D # <<>> /\ Head(F \o D) = Head(A)
       /\ Entries(Tail(F \o D)) \subseteq Entries(B) \cup Entries(C) \cup Entries(D)
  <2>1. Before(Entries(F), Entries(D))
    BY <1>8, <1>10, <1>11, Zenon DEF Before
  <2>2. Ordered(F \o D)
    BY <2>1, <1>2, <1>7, <1>11, OrderedJoin
  <2>3. F \o D # <<>> /\ Head(F \o D) = Head(F)
        /\ Entries(Tail(F \o D)) \subseteq Entries(Tail(F)) \cup Entries(D)
    BY <1>2, <1>11, TailOfJoin
  <2> QED
    BY <2>2, <2>3, <1>11
<1>13. Quarters(n) = F \o D
  BY <1>1 DEF E, F
<1> QED
  BY <1>5, <1>9, <1>12, <1>13

-------------------------------------------------------------------------------
(* The steps keep the order.                                               *)
LEMMA ScanKept ==
    ASSUME layout' = layout
    PROVE  \A b : /\ toAddrInScanZ(b)' = toAddrInScanZ(b)
                  /\ addrInTs(b)' = addrInTs(b) /\ TreeOf(b)' = ctus'[addrInTs(b) + 1]
<1>1. \A b : addrInTs(b)' = addrInTs(b)
  BY AddrsKept
<1> QED
  BY <1>1 DEF toAddrInScanZ, TreeOf

LEMMA OrderNext ==
    ASSUME layout' = layout, NEW C, C = enc'.cus, NEW P, P = pending', NEW k, k = cu',
           Ordered(C), Ordered(P), Before(Entries(C), Entries(P)),
           k.open => Before(Entries(C), {k}) /\ Before({k}, Entries(P))
    PROVE  OrderInv'
<1>1. \A b : toAddrInScanZ(b)' = toAddrInScanZ(b)
  BY ScanKept
<1>2. \A a, b : Precedes(a, b)' <=> Precedes(a, b)
  BY <1>1 DEF Precedes
<1>3. Ordered(enc.cus)'
  <2>1. ASSUME NEW i \in DOMAIN C, NEW j \in DOMAIN C, i < j PROVE Precedes(C[i].at, C[j].at)'
    <3>1. Precedes(C[i].at, C[j].at)
      BY <2>1 DEF Ordered
    <3> QED
      BY <3>1, <1>2
  <2>2. \A i, j \in DOMAIN C : i < j => Precedes(C[i].at, C[j].at)'
    BY <2>1
  <2> QED
    BY <2>2 DEF Ordered, Precedes
<1>4. Ordered(pending)'
  <2>1. ASSUME NEW i \in DOMAIN P, NEW j \in DOMAIN P, i < j PROVE Precedes(P[i].at, P[j].at)'
    <3>1. Precedes(P[i].at, P[j].at)
      BY <2>1 DEF Ordered
    <3> QED
      BY <3>1, <1>2
  <2>2. \A i, j \in DOMAIN P : i < j => Precedes(P[i].at, P[j].at)'
    BY <2>1
  <2> QED
    BY <2>2 DEF Ordered, Precedes
<1>5. \A S, T : Before(S, T)' <=> Before(S, T)
  <2>1. ASSUME NEW S, NEW T PROVE Before(S, T)' <=> Before(S, T)
    BY <1>2 DEF Before
  <2> QED
    BY <2>1
<1>6. PICK E, F : E = Entries(C) /\ F = Entries(P)
  OBVIOUS
<1>7. E = Entries(enc.cus)' /\ F = Entries(pending)'
  BY <1>6 DEF Entries
<1>8. Before(Entries(enc.cus), Entries(pending))'
  <2>1. Before(E, F)'
    BY <1>5, <1>6
  <2> QED
    BY <2>1, <1>7 DEF Before
<1>9. ASSUME cu'.open
      PROVE  Before(Entries(enc.cus), {cu})' /\ Before({cu}, Entries(pending))'
  <2>1. Before(E, {k})' /\ Before({k}, F)'
    BY <1>5, <1>6, <1>9
  <2> QED
    BY <2>1, <1>7 DEF Before
<1> QED
  BY <1>3, <1>4, <1>8, <1>9 DEF OrderInv

LEMMA JoinBefore ==
    ASSUME NEW S, NEW T, NEW R
    PROVE  /\ Before(S, T) /\ Before(S, R) => Before(S, T \cup R)
           /\ Before(S, R) /\ Before(T, R) => Before(S \cup T, R)
           /\ \A Q \in SUBSET T : Before(S, T) => Before(S, Q)
           /\ Before({}, S) /\ Before(S, {})
BY DEF Before

LEMMA NextOrder ==
    ASSUME AtNext, NEW n, n = Head(pending), NEW R, R = Tail(pending)
    PROVE  /\ pending \in Seq(NodeSet) /\ R \in Seq(NodeSet) /\ Entries(pending) = {n} \cup Entries(R)
           /\ Ordered(enc.cus) /\ Ordered(R) /\ Before({n}, Entries(R))
           /\ Before(Entries(enc.cus), {n}) /\ Before(Entries(enc.cus), Entries(R))
           /\ ToDo(n) /\ Sound(n) /\ n \in NodeSet
           /\ \A m \in Entries(R) : ToDo(m) /\ Sound(m) /\ m \in NodeSet /\ ~InNode(n, m.at)
<1>1. pending \in Seq(NodeSet) /\ pending # <<>> /\ layout \in Layouts
  BY DEF AtNext, TreeInv, KindsInv, NodeSet
<1>2. /\ R \in Seq(NodeSet) /\ Entries(pending) = {n} \cup Entries(R) /\ n \in NodeSet
      /\ Distinct(pending) => \A x \in Entries(R) : x.at # n.at
  BY <1>1, TailIs
<1>3. Ordered(pending) /\ Ordered(enc.cus) /\ Before(Entries(enc.cus), Entries(pending))
  BY DEF AtNext, OrderInv
<1>4. Ordered(R) /\ Before({n}, Entries(R))
  BY <1>1, <1>3, OrderedTail
<1>5. Before(Entries(enc.cus), {n}) /\ Before(Entries(enc.cus), Entries(R))
  BY <1>2, <1>3, Zenon DEF Before
<1>6. Distinct(pending) /\ \A m \in Entries(pending) : ToDo(m)
  BY NodesNow DEF AtNext, TreeInv
<1>7. ToDo(n) /\ Sound(n)
  BY <1>2, <1>6 DEF ToDo
<1>8. ASSUME NEW m \in Entries(R) PROVE ToDo(m) /\ Sound(m) /\ m \in NodeSet /\ ~InNode(n, m.at)
  <2>1. ToDo(m)
    BY <1>2, <1>6
  <2>2. Sound(m)
    BY <2>1 DEF ToDo
  <2>3. InNode(m, m.at) /\ m.at \in Block
    BY <2>2, NodeIs DEF Sound
  <2>4. m \in NodeSet
    <3>1. PICK i \in DOMAIN R : m = R[i]
      BY DEF Entries
    <3> QED
      BY <3>1, <1>2
  <2>5. InNode(n, m.at) => n.at = m.at
    BY <1>1, <1>7, <2>1, <2>3, ToDoApart
  <2>6. m.at # n.at
    BY <1>2, <1>6
  <2> QED
    BY <2>1, <2>2, <2>4, <2>5, <2>6
<1> QED
  BY <1>1, <1>2, <1>3, <1>4, <1>5, <1>7, <1>8

(* A new coding tree unit comes after the others.                          *)
LEMMA UnitOrdered ==
    ASSUME TreeInv, OrderInv, CodingTreeUnit
    PROVE  OrderInv'
<1>0. PICK r : r = Node(toBlock(toCoord(geo.toRs[Len(ctus)])), 0)
  OBVIOUS
<1>1. ~cu.open /\ Len(ctus) < Width * Height /\ pending' = <<r>> /\ layout' = layout /\ cu' = cu
      /\ enc' = enc
  BY <1>0 DEF CodingTreeUnit
<1>2. Len(ctus) \in Addr /\ layout \in Layouts
  BY <1>1, CtusType, SizeType DEF TreeInv, KindsInv, Addr
<1>3. Sound(r) /\ addrInTs(r.at) = Len(ctus) /\ r.at \in Block
  BY <1>0, <1>2, RootIs DEF Sound
<1>4. ASSUME NEW c \in Entries(enc.cus) PROVE Precedes(c.at, r.at)
  <2>1. Coded(c)
    BY NodesNow DEF TreeInv
  <2>2. c.at \in Block /\ addrInTs(c.at) < addrInTs(r.at)
    BY <2>1, <1>3 DEF Coded, Sound
  <2> QED
    BY <2>2, <1>2, <1>3, PrecedesIs DEF Follows
<1>5. Ordered(<<r>>) /\ Entries(<<r>>) = {r}
  BY SingleIs
<1>6. Before(Entries(enc.cus), {r}) /\ Ordered(enc.cus)
  BY <1>4 DEF Before, OrderInv
<1>7. PICK C, P, k : C = enc'.cus /\ P = pending' /\ k = cu'
  OBVIOUS
<1>8. Ordered(C) /\ Ordered(P) /\ Before(Entries(C), Entries(P)) /\ ~k.open
  BY <1>1, <1>5, <1>6, <1>7
<1> QED
  BY <1>1, <1>7, <1>8, OrderNext

(* The quarters of a node take its place.                                  *)
LEMMA SplitOrdered ==
    ASSUME TreeInv, OrderInv, Split
    PROVE  OrderInv'
<1>0. PICK n, R, Q : n = Head(pending) /\ R = Tail(pending) /\ Q = Quarters(n)
  OBVIOUS
<1>1. /\ pending # <<>> /\ ~cu.open /\ TRUE \in SplitCuFlag(n) /\ pending' = Q \o R
      /\ layout' = layout /\ cu' = cu /\ enc' = enc
  BY <1>0 DEF Split
<1>2. AtNext /\ layout \in Layouts
  BY <1>1 DEF AtNext, TreeInv, KindsInv
<1>3. n.depth < CtbDepth
  BY <1>1 DEF SplitCuFlag, splitFlagParsed
<1>4. /\ R \in Seq(NodeSet) /\ Ordered(enc.cus) /\ Ordered(R) /\ Before({n}, Entries(R))
      /\ Before(Entries(enc.cus), {n}) /\ Before(Entries(enc.cus), Entries(R)) /\ Sound(n)
      /\ \A m \in Entries(R) : Sound(m) /\ ~InNode(n, m.at)
  BY <1>0, <1>2, NextOrder
<1>5. /\ Q \in Seq(NodeSet) /\ Ordered(Q)
      /\ \A q \in Entries(Q) : Sound(q) /\ q.depth = n.depth + 1 /\ SameCell(n.depth, n.at, q.at)
  BY <1>0, <1>2, <1>3, <1>4, QuartersAre, QuartersOrdered
<1>6. ASSUME NEW q \in Entries(Q) PROVE q.at \in Block /\ InNode(n, q.at) /\ Sound(q)
  BY <1>5 DEF InNode, Sound
<1>7. ASSUME NEW q \in Entries(Q), NEW c \in Entries(enc.cus) PROVE Precedes(c.at, q.at)
  <2>1. Coded(c) /\ Sound(c)
    BY NodesNow DEF TreeInv, Coded
  <2>2. c.at \in Block /\ InNode(c, c.at)
    BY <2>1, NodeIs DEF Sound
  <2>3. Precedes(c.at, n.at)
    BY <1>4 DEF Before
  <2>4. ~InNode(c, n.at)
    <3> SUFFICES ASSUME InNode(c, n.at) PROVE FALSE
      OBVIOUS
    <3>1. Leaf(TreeOf(n.at), n.at, c.depth) /\ c.depth \in 0 .. CtbDepth
      BY <2>1, <1>4 DEF Coded, Sound
    <3>2. Begun(TreeOf(n.at), n.at, n.depth) /\ n.depth \in 0 .. CtbDepth
      <4>1. ToDo(n) /\ InNode(n, n.at) /\ n.at \in Block
        BY <1>0, <1>2, <1>4, NextOrder, NodeIs DEF Sound
      <4> QED
        BY <4>1, <1>4 DEF ToDo, Sound
    <3> QED
      BY <3>1, <3>2, Exclusive
  <2> QED
    BY <2>1, <2>2, <2>3, <2>4, <1>2, <1>4, <1>6, NodesInOrder
<1>8. ASSUME NEW q \in Entries(Q), NEW m \in Entries(R) PROVE Precedes(q.at, m.at)
  <2>1. Sound(m) /\ ~InNode(n, m.at) /\ Precedes(n.at, m.at)
    BY <1>4 DEF Before
  <2>2. m.at \in Block /\ InNode(m, m.at)
    BY <2>1, NodeIs DEF Sound
  <2> QED
    BY <2>1, <2>2, <1>2, <1>4, <1>6, NodesInOrder
<1>9. Before(Entries(enc.cus), Entries(Q)) /\ Before(Entries(Q), Entries(R))
  BY <1>7, <1>8 DEF Before
<1>10. Ordered(Q \o R) /\ Entries(Q \o R) = Entries(Q) \cup Entries(R)
  BY <1>4, <1>5, <1>9, JoinIs, OrderedJoin
<1>11. Before(Entries(enc.cus), Entries(Q) \cup Entries(R))
  BY <1>4, <1>9, JoinBefore
<1>12. PICK C, P, k : C = enc'.cus /\ P = pending' /\ k = cu'
  OBVIOUS
<1>13. Ordered(C) /\ Ordered(P) /\ Before(Entries(C), Entries(P)) /\ ~k.open
  BY <1>1, <1>4, <1>10, <1>11, <1>12
<1> QED
  BY <1>1, <1>12, <1>13, OrderNext

LEMMA OpenedOrdered ==
    ASSUME TreeInv, OrderInv, CodingUnit
    PROVE  OrderInv'
<1>0. PICK n, R : n = Head(pending) /\ R = Tail(pending)
  OBVIOUS
<1>1. /\ pending # <<>> /\ ~cu.open /\ pending' = R /\ layout' = layout /\ cu'.at = n.at
      /\ enc'.cus = enc.cus
  <2>1. enc'.cus = enc.cus
    <3>1. "cus" \in DOMAIN enc
      BY DEF TreeInv, KindsInv
    <3> QED
      BY <3>1 DEF CodingUnit, EncStartCu
  <2> QED
    BY <2>1, <1>0 DEF CodingUnit
<1>2. AtNext
  BY <1>1 DEF AtNext
<1>3. /\ Ordered(enc.cus) /\ Ordered(R) /\ Before({n}, Entries(R))
      /\ Before(Entries(enc.cus), {n}) /\ Before(Entries(enc.cus), Entries(R))
  BY <1>0, <1>2, NextOrder
<1>4. PICK C, P, k : C = enc'.cus /\ P = pending' /\ k = cu'
  OBVIOUS
<1>5. Before(Entries(enc.cus), {k}) /\ Before({k}, Entries(R))
  BY <1>1, <1>3, <1>4, Zenon DEF Before
<1> QED
  BY <1>1, <1>3, <1>4, <1>5, OrderNext

LEMMA FinishOrdered ==
    ASSUME TreeInv, OrderInv, FinishCodingUnit
    PROVE  OrderInv'
<1>0. PICK e : e = [at |-> cu.at, depth |-> cu.depth, qpY |-> EncQpY, offset |-> enc.offset]
  OBVIOUS
<1>1. /\ cu.open /\ enc'.cus = Append(enc.cus, e) /\ ~cu'.open /\ layout' = layout
      /\ pending' = pending /\ e.at = cu.at
  <2>1. "cus" \in DOMAIN enc
    BY DEF TreeInv, KindsInv
  <2>2. enc' = [enc EXCEPT !.cus = Append(@, e)]
    BY <1>0 DEF FinishCodingUnit
  <2>3. enc'.cus = Append(enc.cus, e)
    BY <2>1, <2>2
  <2> QED
    BY <2>3, <1>0 DEF FinishCodingUnit, NoCu
<1>2. PICK S, C, Q : S = Entries(enc.cus) \cup {e} /\ C = enc.cus /\ Q = <<e>>
  OBVIOUS
<1>3. C \in Seq(S) /\ Q \in Seq(S) /\ Append(C, e) = C \o Q
  <2>1. C \in Seq(Entries(enc.cus)) /\ Entries(enc.cus) \subseteq S /\ e \in S
    BY <1>2 DEF TreeInv, KindsInv
  <2>2. C \in Seq(S)
    <3>1. PICK E : E = Entries(enc.cus)
      OBVIOUS
    <3> QED
      BY <2>1, <3>1
  <2> QED
    BY <2>1, <2>2, <1>2
<1>4. /\ Ordered(C) /\ Ordered(pending) /\ Before(Entries(C), Entries(pending))
      /\ Before(Entries(C), {cu}) /\ Before({cu}, Entries(pending))
  BY <1>1, <1>2 DEF OrderInv
<1>5. Before(Entries(C), {e}) /\ Before({e}, Entries(pending))
  BY <1>1, <1>4, Zenon DEF Before
<1>6. Ordered(Q) /\ Entries(Q) = {e}
  BY <1>2, SingleIs
<1>7. Ordered(C \o Q) /\ Entries(C \o Q) = Entries(C) \cup {e}
  <2>1. Before(Entries(C), Entries(Q))
    BY <1>5, <1>6
  <2>2. Ordered(C \o Q)
    BY <2>1, <1>3, <1>4, <1>6, OrderedJoin
  <2>3. Entries(C \o Q) = Entries(C) \cup Entries(Q)
    BY <1>3, JoinIs
  <2> QED
    BY <2>2, <2>3, <1>6
<1>8. Before(Entries(C) \cup {e}, Entries(pending))
  BY <1>4, <1>5, Zenon DEF Before
<1>9. PICK D, P, k : D = enc'.cus /\ P = pending' /\ k = cu'
  OBVIOUS
<1>10. Ordered(D) /\ Ordered(P) /\ Before(Entries(D), Entries(P)) /\ ~k.open
  BY <1>1, <1>2, <1>3, <1>4, <1>7, <1>8, <1>9
<1> QED
  BY <1>1, <1>9, <1>10, OrderNext

LEMMA OrderKept ==
    ASSUME OrderInv, layout' = layout, enc'.cus = enc.cus, pending' = pending,
           cu'.at = cu.at, cu'.open = cu.open
    PROVE  OrderInv'
<1>1. PICK C, P, k : C = enc'.cus /\ P = pending' /\ k = cu'
  OBVIOUS
<1>2. Ordered(C) /\ Ordered(P) /\ Before(Entries(C), Entries(P))
  BY <1>1 DEF OrderInv
<1>3. k.open => Before(Entries(C), {k}) /\ Before({k}, Entries(P))
  <2>1. cu.open => Before(Entries(C), {cu}) /\ Before({cu}, Entries(P))
    BY <1>1 DEF OrderInv
  <2> QED
    BY <2>1, <1>1 DEF Before
<1> QED
  BY <1>1, <1>2, <1>3, OrderNext

-------------------------------------------------------------------------------
(* The steps keep the groups: what is new, and not next, begins none.      *)
Inner(m) == \A d \in 0 .. CtbDepth : m.depth > d => ~Corner(d, m.at)

LaterKept == \A m \in Later' : m \in Later \/ Inner(m)

LEMMA GroupsKept ==
    ASSUME layout \in Layouts, layout' = layout, LaterKept,
           GroupsInv(GroupDepth), GroupsInv(OffsetDepth)
    PROVE  GroupsInv(GroupDepth)' /\ GroupsInv(OffsetDepth)'
<1>1. PICK g, o : g = GroupDepth /\ o = OffsetDepth
  OBVIOUS
<1>2. g \in 0 .. CtbDepth /\ o \in 0 .. CtbDepth /\ GroupDepth' = g /\ OffsetDepth' = o
  BY <1>1, BlocksAssumption DEF GroupDepth, OffsetDepth
<1>3. PICK L : L = Later'
  OBVIOUS
<1>4. ASSUME NEW d \in 0 .. CtbDepth, \A m \in Later : m.depth > d => ~Corner(d, m.at)
      PROVE  \A m \in L : m.depth > d => ~Corner(d, m.at)
  BY <1>3, <1>4 DEF LaterKept, Inner
<1>5. /\ \A m \in L : m.depth > g => ~Corner(g, m.at)
      /\ \A m \in L : m.depth > o => ~Corner(o, m.at)
  <2>1. /\ \A m \in Later : m.depth > g => ~Corner(g, m.at)
        /\ \A m \in Later : m.depth > o => ~Corner(o, m.at)
    BY <1>1 DEF GroupsInv
  <2> QED
    BY <2>1, <1>2, <1>4
<1>6. GroupsInv(GroupDepth)' <=> \A m \in Later' : m.depth > GroupDepth' => ~Corner(GroupDepth', m.at)
  BY DEF GroupsInv, Corner
<1>7. GroupsInv(OffsetDepth)' <=> \A m \in Later' : m.depth > OffsetDepth' => ~Corner(OffsetDepth', m.at)
  BY DEF GroupsInv, Corner
<1> QED
  BY <1>2, <1>3, <1>5, <1>6, <1>7

LEMMA UnitLater ==
    ASSUME CodingTreeUnit
    PROVE  LaterKept
<1>0. PICK r : r = Node(toBlock(toCoord(geo.toRs[Len(ctus)])), 0)
  OBVIOUS
<1>1. ~cu'.open /\ pending' = <<r>>
  BY <1>0 DEF CodingTreeUnit
<1>2. Entries(Tail(<<r>>)) = {} /\ <<r>> # <<>>
  BY SingleIs
<1>3. PICK L, P : L = Later' /\ P = pending'
  OBVIOUS
<1>4. L = Entries(Tail(P))
  BY <1>1, <1>2, <1>3 DEF Later, Entries
<1> QED
  BY <1>1, <1>2, <1>3, <1>4 DEF LaterKept

LEMMA SplitLater ==
    ASSUME TreeInv, OrderInv, Split
    PROVE  LaterKept
<1>0. PICK n, R, Q : n = Head(pending) /\ R = Tail(pending) /\ Q = Quarters(n)
  OBVIOUS
<1>1. /\ pending # <<>> /\ ~cu.open /\ TRUE \in SplitCuFlag(n) /\ pending' = Q \o R
      /\ cu' = cu
  BY <1>0 DEF Split
<1>2. AtNext /\ layout \in Layouts
  BY <1>1 DEF AtNext, TreeInv, KindsInv
<1>3. n.depth < CtbDepth
  BY <1>1 DEF SplitCuFlag, splitFlagParsed
<1>4. R \in Seq(NodeSet) /\ Sound(n)
  BY <1>0, <1>2, NextOrder
<1>5. /\ Q \in Seq(NodeSet) /\ Q # <<>>
      /\ \A q \in Entries(Q) : q.depth = n.depth + 1
      /\ \A q \in Entries(Tail(Q)) : \A d \in 0 .. n.depth : ~Corner(d, q.at)
  BY <1>0, <1>2, <1>3, <1>4, QuartersAre, QuartersOrdered
<1>6. Q \o R # <<>> /\ Entries(Tail(Q \o R)) \subseteq Entries(Tail(Q)) \cup Entries(R)
  BY <1>4, <1>5, TailOfJoin
<1>7. ASSUME NEW q \in Entries(Tail(Q)) PROVE Inner(q)
  <2>1. q \in Entries(Q)
    BY <1>5, TailIs
  <2>2. q.depth = n.depth + 1 /\ n.depth \in Nat
    BY <2>1, <1>4, <1>5 DEF Sound
  <2>3. ASSUME NEW d \in 0 .. CtbDepth, q.depth > d PROVE d \in 0 .. n.depth
    BY <2>2, <2>3, Sizes
  <2> QED
    BY <2>3, <1>5 DEF Inner
<1>8. Later = Entries(R)
  BY <1>0, <1>1 DEF Later
<1>9. PICK L, P : L = Later' /\ P = pending'
  OBVIOUS
<1>10. L = Entries(Tail(P))
  BY <1>1, <1>6, <1>9 DEF Later, Entries
<1> QED
  BY <1>1, <1>6, <1>7, <1>8, <1>9, <1>10 DEF LaterKept

LEMMA OpenedLater ==
    ASSUME CodingUnit
    PROVE  LaterKept
<1>1. pending # <<>> /\ ~cu.open /\ pending' = Tail(pending) /\ cu'.open
  BY DEF CodingUnit
<1>2. PICK L, P : L = Later' /\ P = pending'
  OBVIOUS
<1>3. L = Entries(P)
  BY <1>1, <1>2 DEF Later, Entries
<1>4. Later = Entries(Tail(pending))
  BY <1>1 DEF Later
<1> QED
  BY <1>1, <1>2, <1>3, <1>4 DEF LaterKept

LEMMA FinishLater ==
    ASSUME TreeInv, FinishCodingUnit
    PROVE  LaterKept
<1>1. cu.open /\ pending' = pending /\ ~cu'.open
  BY DEF FinishCodingUnit, NoCu
<1>2. PICK L, P : L = Later' /\ P = pending'
  OBVIOUS
<1>3. L = Entries(IF P = <<>> THEN P ELSE Tail(P))
  BY <1>1, <1>2 DEF Later, Entries
<1>4. Later = Entries(P)
  BY <1>1, <1>2 DEF Later
<1>5. P \in Seq(NodeSet)
  BY <1>1, <1>2 DEF TreeInv, KindsInv, NodeSet
<1>6. P # <<>> => Entries(Tail(P)) \subseteq Entries(P)
  BY <1>5, TailIs
<1> QED
  BY <1>2, <1>3, <1>4, <1>6 DEF LaterKept

LEMMA LaterSame ==
    ASSUME pending' = pending, cu'.open = cu.open
    PROVE  LaterKept
<1>1. PICK L, P : L = Later' /\ P = pending'
  OBVIOUS
<1>2. L = Entries(IF cu.open \/ P = <<>> THEN P ELSE Tail(P))
  BY <1>1 DEF Later, Entries
<1>3. Later = Entries(IF cu.open \/ P = <<>> THEN P ELSE Tail(P))
  BY <1>1 DEF Later
<1> QED
  BY <1>1, <1>2, <1>3 DEF LaterKept

-------------------------------------------------------------------------------
(* What the steps do to the nodes of the trees.                            *)
(* Units of different coding units are kept in different places.           *)
LEMMA PlacesApart ==
    ASSUME layout \in Layouts, NEW c, NEW d, Coded(c), Coded(d), c.at # d.at,
           addrInTs(c.at) = addrInTs(d.at)
    PROVE  IndexPath(c.at)[c.depth] # IndexPath(d.at)[d.depth]
<1>1. /\ Sound(c) /\ c.at \in Block /\ c.depth \in 0 .. CtbDepth
      /\ Sound(d) /\ d.at \in Block /\ d.depth \in 0 .. CtbDepth
  BY DEF Coded, Sound
<1> SUFFICES ASSUME IndexPath(c.at)[c.depth] = IndexPath(d.at)[d.depth] PROVE FALSE
  OBVIOUS
<1>2. c.depth = d.depth
  BY <1>1, PathDepth
<1>3. SameCell(0, c.at, d.at)
  BY <1>1, AddrOf
<1>4. SameCell(c.depth, c.at, d.at)
  BY <1>1, <1>2, <1>3, PathCell
<1>5. InNode(c, d.at) /\ InNode(d, d.at)
  BY <1>1, <1>4, NodeIs DEF InNode
<1> QED
  BY <1>1, <1>2, <1>5, NodeUnique

LEMMA AppendKeeps ==
    ASSUME TreeInv, pending # <<>>, layout' = layout, NEW n, n = Head(pending),
           NEW split \in BOOLEAN, AppendNode(n, split)
    PROVE  /\ \A c : Coded(c) => NodeOf(c)' = NodeOf(c)
           /\ \A k : k.at = n.at /\ k.depth = n.depth => NodeOf(k)' = AppendedNode(n, split)
           /\ \A t \in DOMAIN ctus' : \A i \in DOMAIN ctus'[t] :
                \/ ctus'[t][i] = AppendedNode(n, split)
                \/ t \in DOMAIN ctus /\ i \in DOMAIN ctus[t] /\ ctus'[t][i] = ctus[t][i]
<1> DEFINE N == Len(ctus)
           tree == ctus[N]
           j == IndexPath(n.at)[n.depth]
           node == AppendedNode(n, split)
           next == With(tree, j, node)
<1>1. /\ N \in 1 .. N /\ TreeOf(n.at) = tree /\ Begun(tree, n.at, n.depth)
      /\ DOMAIN ctus' = 1 .. N /\ ctus'[N] = next
      /\ \A t \in 1 .. N : t # N => ctus'[t] = ctus[t]
  BY AppendIs
<1>2. N \in Nat /\ DOMAIN ctus = 1 .. N /\ layout \in Layouts
  BY CtusType DEF TreeInv, KindsInv
<1>3. ToDo(n)
  <2>1. n \in Entries(pending)
    <3>1. pending \in Seq(NodeSet)
      BY DEF TreeInv, KindsInv, NodeSet
    <3> QED
      BY <3>1, TailIs
  <2> QED
    BY <2>1, NodesNow DEF TreeInv
<1>4. Sound(n) /\ n.at \in Block /\ n.depth \in 0 .. CtbDepth /\ addrInTs(n.at) + 1 = N
  BY <1>3 DEF ToDo, Sound
<1>5. \A b : addrInTs(b)' = addrInTs(b) /\ TreeOf(b)' = ctus'[addrInTs(b) + 1]
  BY ScanKept
<1> HIDE DEF next, tree, node, j, N
<1>6. /\ next[j] = node /\ DOMAIN next = DOMAIN tree \cup {j}
      /\ \A i \in DOMAIN tree : i # j => next[i] = tree[i]
  BY DEF next, With
<1>7. ASSUME NEW c, Coded(c) PROVE NodeOf(c)' = NodeOf(c)
  <2>1. Sound(c) /\ c.at \in Block /\ c.depth \in 0 .. CtbDepth /\ InNode(c, c.at)
    BY <1>7, NodeIs DEF Coded, Sound
  <2>2. addrInTs(c.at) \in Nat /\ addrInTs(c.at) < N /\ addrInTs(n.at) \in Nat
    BY <1>2, <1>4, <1>7, <2>1, PrecedesIs DEF Coded, N
  <2>3. Leaf(TreeOf(c.at), c.at, c.depth)
    BY <1>7, <2>1 DEF Coded
  <2> DEFINE i == IndexPath(c.at)[c.depth]
  <2>4. NodeOf(c) = TreeOf(c.at)[i] /\ NodeOf(c)' = ctus'[addrInTs(c.at) + 1][i]
    BY <1>5 DEF NodeOf
  <2>5. i \in DOMAIN TreeOf(c.at)
    BY <2>1, <2>3 DEF Leaf
  <2> HIDE DEF i
  <2>6. CASE addrInTs(c.at) + 1 # N
    <3>1. addrInTs(c.at) + 1 \in 1 .. N
      BY <2>2, <1>2, <1>1
    <3>2. ctus'[addrInTs(c.at) + 1] = TreeOf(c.at)
      BY <3>1, <2>6, <1>1 DEF TreeOf
    <3> QED
      BY <3>2, <2>4
  <2>7. CASE addrInTs(c.at) + 1 = N
    <3>1. TreeOf(c.at) = tree /\ ctus'[addrInTs(c.at) + 1] = next
      BY <2>7, <1>1 DEF TreeOf, tree
    <3>2. j \notin DOMAIN tree
      BY <1>1, <1>4 DEF Begun, j
    <3>3. i \in DOMAIN tree /\ i # j
      BY <2>5, <3>1, <3>2
    <3> QED
      BY <3>1, <3>3, <2>4, <1>6
  <2> QED
    BY <2>6, <2>7
<1>8. ASSUME NEW k, k.at = n.at, k.depth = n.depth PROVE NodeOf(k)' = node
  <2>1. NodeOf(k)' = ctus'[addrInTs(n.at) + 1][j]
    BY <1>5, <1>8 DEF NodeOf, j
  <2> QED
    BY <2>1, <1>1, <1>4, <1>6
<1>9. ASSUME NEW t \in DOMAIN ctus', NEW i \in DOMAIN ctus'[t]
      PROVE  \/ ctus'[t][i] = node
             \/ t \in DOMAIN ctus /\ i \in DOMAIN ctus[t] /\ ctus'[t][i] = ctus[t][i]
  <2>1. t \in 1 .. N
    BY <1>1, <1>9
  <2>2. CASE t # N
    BY <2>1, <2>2, <1>1, <1>2, <1>9
  <2>3. CASE t = N
    <3>1. ctus'[t] = next /\ i \in DOMAIN tree \cup {j}
      BY <2>3, <1>1, <1>6, <1>9
    <3> QED
      BY <3>1, <2>1, <2>3, <1>2, <1>6 DEF tree
  <2> QED
    BY <2>2, <2>3
<1> QED
  BY <1>7, <1>8, <1>9 DEF node

LEMMA ConstructKeeps ==
    ASSUME TreeInv, cu.open, layout' = layout, NEW luma, NEW chroma, NEW status,
           ConstructQps(luma, chroma, status)
    PROVE  /\ \A k : k.at = cu.at /\ k.depth = cu.depth
                       => NodeOf(k)' = Constructed(NodeOf(cu), luma, chroma, status)
           /\ \A c : Coded(c) /\ c.at # cu.at => NodeOf(c)' = NodeOf(c)
           /\ \A t \in DOMAIN ctus' : \A i \in DOMAIN ctus'[t] :
                /\ t \in DOMAIN ctus /\ i \in DOMAIN ctus[t]
                /\ \/ ctus'[t][i] = Constructed(NodeOf(cu), luma, chroma, status)
                   \/ ctus'[t][i] = ctus[t][i]
           /\ \E t \in DOMAIN ctus : \E i \in DOMAIN ctus[t] : NodeOf(cu) = ctus[t][i]
<1> DEFINE N == Len(ctus)
           j == CuIndex
           tree == ctus[N]
           node == Constructed(tree[j], luma, chroma, status)
           next == [tree EXCEPT ![j] = node]
<1>1. Coded(cu) /\ addrInTs(cu.at) + 1 = N /\ layout \in Layouts /\ N \in Nat /\ DOMAIN ctus = 1 .. N
  BY CtusType DEF TreeInv, NodesInv, KindsInv
<1>2. Sound(cu) /\ cu.at \in Block /\ cu.depth \in 0 .. CtbDepth /\ InNode(cu, cu.at)
  BY <1>1, NodeIs DEF Coded, Sound
<1>3. addrInTs(cu.at) \in Nat
  BY <1>1, <1>2, PrecedesIs
<1>4. N \in 1 .. N /\ TreeOf(cu.at) = tree
  <2> HIDE DEF N
  <2>1. N \in 1 .. N
    BY <1>1, <1>3
  <2> QED
    BY <2>1, <1>1 DEF TreeOf, N
<1>5. j = IndexPath(cu.at)[cu.depth] /\ Leaf(tree, cu.at, cu.depth)
  <2>1. /\ toIndex(Levels, TreeOf(cu.at), offsetInCtb(cu.at)) = IndexPath(cu.at)[cu.depth]
        /\ Leaf(TreeOf(cu.at), cu.at, cu.depth)
    BY <1>1, <1>2, IndexFound
  <2> HIDE DEF tree
  <2> QED
    BY <2>1, <1>4 DEF CuIndex, CurrTree, tree
<1>6. NodeOf(cu) = tree[j] /\ j \in DOMAIN tree
  <2> HIDE DEF tree, j
  <2> QED
    BY <1>2, <1>4, <1>5 DEF NodeOf, Leaf
<1>7. ctus' = [ctus EXCEPT ![N] = next]
  BY Zenon DEF ConstructQps
<1>8. next[j] = node /\ DOMAIN next = DOMAIN tree /\ \A i \in DOMAIN tree : i # j => next[i] = tree[i]
  <2> HIDE DEF tree, j, node
  <2> QED
    BY <1>6
<1> HIDE DEF next, tree, node, j
<1>9. DOMAIN ctus' = 1 .. N /\ ctus'[N] = next /\ \A t \in 1 .. N : t # N => ctus'[t] = ctus[t]
  BY <1>1, <1>4, <1>7
<1>10. \A b : addrInTs(b)' = addrInTs(b) /\ TreeOf(b)' = ctus'[addrInTs(b) + 1]
  BY ScanKept
<1>11. node = Constructed(NodeOf(cu), luma, chroma, status)
  BY <1>6 DEF node
<1> HIDE DEF N
<1>12. ASSUME NEW k, k.at = cu.at, k.depth = cu.depth PROVE NodeOf(k)' = node
  <2>1. NodeOf(k)' = ctus'[addrInTs(cu.at) + 1][j]
    BY <1>5, <1>10, <1>12 DEF NodeOf
  <2> QED
    BY <2>1, <1>1, <1>8, <1>9
<1>13. ASSUME NEW c, Coded(c), c.at # cu.at PROVE NodeOf(c)' = NodeOf(c)
  <2>1. Sound(c) /\ c.at \in Block /\ c.depth \in 0 .. CtbDepth /\ InNode(c, c.at)
    BY <1>13, NodeIs DEF Coded, Sound
  <2>2. addrInTs(c.at) \in Nat /\ addrInTs(c.at) < N
    BY <1>1, <1>13, <2>1, PrecedesIs DEF Coded, N
  <2>3. Leaf(TreeOf(c.at), c.at, c.depth)
    BY <1>13, <2>1 DEF Coded
  <2> DEFINE i == IndexPath(c.at)[c.depth]
  <2>4. NodeOf(c) = TreeOf(c.at)[i] /\ NodeOf(c)' = ctus'[addrInTs(c.at) + 1][i]
    BY <1>10 DEF NodeOf
  <2>5. i \in DOMAIN TreeOf(c.at)
    BY <2>1, <2>3 DEF Leaf
  <2>6. addrInTs(c.at) = addrInTs(cu.at) => i # j
    BY <1>1, <1>5, <1>13, PlacesApart
  <2> HIDE DEF i
  <2>7. CASE addrInTs(c.at) + 1 # N
    <3>1. addrInTs(c.at) + 1 \in 1 .. N
      BY <2>2, <1>1
    <3>2. ctus'[addrInTs(c.at) + 1] = TreeOf(c.at)
      BY <3>1, <2>7, <1>9 DEF TreeOf
    <3> QED
      BY <3>2, <2>4
  <2>8. CASE addrInTs(c.at) + 1 = N
    <3>1. TreeOf(c.at) = tree /\ ctus'[addrInTs(c.at) + 1] = next
      BY <2>8, <1>9 DEF TreeOf, tree, N
    <3>2. addrInTs(c.at) = addrInTs(cu.at)
      BY <2>2, <2>8, <1>1, <1>3
    <3> QED
      BY <3>1, <3>2, <2>4, <2>5, <2>6, <1>8
  <2> QED
    BY <2>7, <2>8
<1>14. ASSUME NEW t \in DOMAIN ctus', NEW i \in DOMAIN ctus'[t]
       PROVE  /\ t \in DOMAIN ctus /\ i \in DOMAIN ctus[t]
              /\ ctus'[t][i] = node \/ ctus'[t][i] = ctus[t][i]
  <2>1. t \in 1 .. N /\ t \in DOMAIN ctus
    BY <1>1, <1>9, <1>14
  <2>2. CASE t # N
    BY <2>1, <2>2, <1>9, <1>14
  <2>3. CASE t = N
    <3>1. ctus'[t] = next /\ ctus[t] = tree /\ i \in DOMAIN tree
      BY <2>3, <1>8, <1>9, <1>14 DEF tree, N
    <3> QED
      BY <3>1, <2>1, <1>8
  <2> QED
    BY <2>2, <2>3
<1>15. \E t \in DOMAIN ctus : \E i \in DOMAIN ctus[t] : NodeOf(cu) = ctus[t][i]
  BY <1>1, <1>4, <1>6 DEF tree, N
<1> QED
  BY <1>11, <1>12, <1>13, <1>14, <1>15

-------------------------------------------------------------------------------
(* The state of a group.                                                   *)
LEMMA CornersNest ==
    ASSUME NEW n, Sound(n), NEW d \in 0 .. CtbDepth, n.depth <= d
    PROVE  Corner(d, n.at)
<1>1. n.at \in Block /\ n.depth \in 0 .. d
  BY DEF Sound
<1>2. n.at[1] \in Nat /\ n.at[2] \in Nat
  BY <1>1, BlockType
<1>3. sizeAt(n.depth) = sizeAt(d) * side(d + 1, n.depth)
  BY <1>1, GroupSides
<1>4. side(d + 1, n.depth) \in Nat /\ sizeAt(d) \in Nat /\ sizeAt(d) > 0
      /\ sizeAt(n.depth) \in Nat /\ sizeAt(n.depth) > 0
  <2>1. n.depth \in 0 .. CtbDepth /\ d \in Nat /\ n.depth \in 0 .. d
    BY <1>1, Sizes DEF Sound
  <2> QED
    BY <2>1, Sizes, SidesArePlaces
<1>5. ASSUME NEW x \in Nat, x % sizeAt(n.depth) = 0 PROVE x % sizeAt(d) = 0
  <2> DEFINE s == sizeAt(d)
             t == side(d + 1, n.depth)
             q == x \div (s * t)
  <2>1. x % (s * t) = 0 /\ s * t \in Nat /\ s * t > 0
    BY <1>3, <1>4, <1>5
  <2>2. q \in Nat /\ x = (s * t) * q + 0
    <3> DEFINE p == s * t
    <3>1. p \in Nat /\ p > 0 /\ x % p = 0
      BY <2>1
    <3> HIDE DEF p
    <3>2. x \div p \in Nat /\ x = p * (x \div p) + (x % p)
      BY <3>1, DivBounds
    <3> QED
      BY <3>1, <3>2 DEF p
  <2>3. s \in Nat /\ s > 0 /\ t \in Nat
    BY <1>4
  <2> HIDE DEF s, t, q
  <2>4. x = s * (t * q) /\ t * q \in Nat
    BY <2>2, <2>3
  <2>5. x % s = 0
    BY <2>3, <2>4, MultipleIs
  <2> QED
    BY <2>5 DEF s
<1> QED
  BY <1>2, <1>5 DEF Sound, Corner

FreshDelta(status) == ~status.isCuQpDeltaCoded /\ status.cuQpDeltaVal = 0

KnownDelta(status) ==
    /\ status.isCuQpDeltaCoded = enc.sentDelta
    /\ status.cuQpDeltaVal = IF enc.sentDelta THEN EncDelta ELSE 0

FreshOffset(status) == ~status.isCuQpOffsetCoded /\ status.cuQpOffset = 0

KnownOffset(status) ==
    status.isCuQpOffsetCoded = enc.sentOffset /\ status.cuQpOffset = enc.offset

(* After the reset at a node the decoder knows nothing of a group that     *)
(* begins with it, and of another what was sent.                           *)
LEMMA ResetIs ==
    ASSUME AtNext, StatusInv, TypeInv, NEW n, n = Head(pending),
           NEW status, status = GroupReset(n.depth, qpStatus)
    PROVE  /\ status \in Status /\ status.qpYpred = enc.pred
           /\ Corner(GroupDepth, n.at) => FreshDelta(status)
           /\ ~Corner(GroupDepth, n.at) => KnownDelta(status)
           /\ Corner(OffsetDepth, n.at) => FreshOffset(status)
           /\ ~Corner(OffsetDepth, n.at) => KnownOffset(status)
<1>1. Sound(n) /\ layout \in Layouts /\ pending # <<>> /\ ~cu.open
  BY NextIs DEF Next1, AtNext
<1>2. GroupDepth \in 0 .. CtbDepth /\ OffsetDepth \in 0 .. CtbDepth /\ n.depth \in 0 .. CtbDepth
  BY <1>1, BlocksAssumption DEF GroupDepth, OffsetDepth, Sound
<1>3. qpStatus \in Status /\ enc \in Encoder
  BY DEF TypeInv
<1>4. 0 \in DeltaRange /\ 0 \in OffsetRange
  BY HalfOfRange DEF DeltaRange, OffsetRange
<1> DEFINE delta == ~layout.delta \/ n.depth <= GroupDepth
           offsets == ~layout.offsets \/ n.depth <= OffsetDepth
<1>5. /\ status \in Status /\ status.qpYpred = qpStatus.qpYpred
      /\ delta => FreshDelta(status)
      /\ ~delta => /\ status.isCuQpDeltaCoded = qpStatus.isCuQpDeltaCoded
                   /\ status.cuQpDeltaVal = qpStatus.cuQpDeltaVal
      /\ offsets => FreshOffset(status)
      /\ ~offsets => /\ status.isCuQpOffsetCoded = qpStatus.isCuQpOffsetCoded
                     /\ status.cuQpOffset = qpStatus.cuQpOffset
  <2>1. status = [qpStatus EXCEPT
            !.isCuQpDeltaCoded = IF delta THEN FALSE ELSE @,
            !.cuQpDeltaVal = IF delta THEN 0 ELSE @,
            !.isCuQpOffsetCoded = IF offsets THEN FALSE ELSE @,
            !.cuQpOffset = IF offsets THEN 0 ELSE @]
    BY DEF GroupReset
  <2> HIDE DEF delta, offsets
  <2>2. status \in Status
    BY <2>1, <1>3, <1>4 DEF Status
  <2> QED
    BY <2>1, <2>2, <1>3 DEF Status, FreshDelta, FreshOffset
<1>6. ~Corner(GroupDepth, n.at) => n.depth > GroupDepth
  BY <1>1, <1>2, CornersNest
<1>7. ~Corner(OffsetDepth, n.at) => n.depth > OffsetDepth
  BY <1>1, <1>2, CornersNest
<1>8. status.qpYpred = enc.pred
  BY <1>5 DEF StatusInv
<1>9. ASSUME Corner(GroupDepth, n.at) PROVE FreshDelta(status)
  <2>1. CASE delta
    BY <2>1, <1>5
  <2>2. CASE ~delta
    <3>1. AtCorner(GroupDepth)
      BY <2>2, <1>1, <1>2, <1>9 DEF AtCorner
    <3>2. DeltaFresh
      BY <3>1 DEF StatusInv
    <3> QED
      BY <3>2, <2>2, <1>5 DEF DeltaFresh, FreshDelta
  <2> QED
    BY <2>1, <2>2
<1>10. ASSUME ~Corner(GroupDepth, n.at) PROVE KnownDelta(status)
  <2>1. Inside(GroupDepth)
    BY <1>1, <1>6, <1>10 DEF Inside
  <2>2. DeltaKnown
    BY <2>1 DEF StatusInv
  <2>3. CASE ~layout.delta
    <3>1. ~enc.sentDelta /\ FreshDelta(status) /\ enc.sentDelta \in BOOLEAN
          /\ status.isCuQpDeltaCoded \in BOOLEAN
      BY <2>3, <1>3, <1>5 DEF StatusInv, Encoder, Status
    <3> QED
      BY <3>1 DEF KnownDelta, FreshDelta
  <2>4. CASE layout.delta
    <3>1. ~delta
      BY <2>4, <1>2, <1>6, <1>10
    <3> QED
      BY <3>1, <2>2, <1>5 DEF DeltaKnown, KnownDelta
  <2> QED
    BY <2>3, <2>4
<1>11. ASSUME Corner(OffsetDepth, n.at) PROVE FreshOffset(status)
  <2>1. CASE offsets
    BY <2>1, <1>5
  <2>2. CASE ~offsets
    <3>1. AtCorner(OffsetDepth)
      BY <2>2, <1>1, <1>2, <1>11 DEF AtCorner
    <3>2. OffsetFresh
      BY <3>1 DEF StatusInv
    <3> QED
      BY <3>2, <2>2, <1>5 DEF OffsetFresh, FreshOffset
  <2> QED
    BY <2>1, <2>2
<1>12. ASSUME ~Corner(OffsetDepth, n.at) PROVE KnownOffset(status)
  <2>1. Inside(OffsetDepth)
    BY <1>1, <1>7, <1>12 DEF Inside
  <2>2. OffsetKnown
    BY <2>1 DEF StatusInv
  <2>3. CASE ~layout.offsets
    <3>1. ~enc.sentOffset /\ FreshOffset(status) /\ enc.sentOffset \in BOOLEAN
          /\ status.isCuQpOffsetCoded \in BOOLEAN /\ enc.offset = 0
      BY <2>3, <1>3, <1>5 DEF StatusInv, Encoder, Status
    <3> QED
      BY <3>1 DEF KnownOffset, FreshOffset
  <2>4. CASE layout.offsets
    <3>1. ~offsets
      BY <2>4, <1>2, <1>7, <1>12
    <3> QED
      BY <3>1, <2>2, <1>5 DEF OffsetKnown, KnownOffset
  <2> QED
    BY <2>3, <2>4
<1> QED
  BY <1>5, <1>8, <1>9, <1>10, <1>11, <1>12

-------------------------------------------------------------------------------
(* The next state.                                                         *)
LEMMA DataNext ==
    ASSUME NEW C, C = enc'.cus, NEW k, k = cu', NEW node, node = NodeOf(k)',
           \A c \in Entries(C) : NodeOf(c)'.qpY = {c.qpY} /\ NodeOf(c)'.offset = {c.offset},
           k.open =>
               /\ node.qpY \subseteq {EncQpY'}
               /\ node.qpY # {} /\ layout'.delta => enc'.sentDelta
               /\ node.offset \subseteq {enc'.offset}
               /\ node.offset # {} => ~(layout'.offsets /\ ~k.bypass /\ ~enc'.sentOffset)
    PROVE  DataInv'
<1>1. ASSUME NEW i \in DOMAIN enc'.cus
      PROVE  NodeOf(enc.cus[i])'.qpY = {enc'.cus[i].qpY} /\ NodeOf(enc.cus[i])'.offset = {enc'.cus[i].offset}
  <2>1. PICK c : c = enc'.cus[i]
    OBVIOUS
  <2>2. NodeOf(c)'.qpY = {c.qpY} /\ NodeOf(c)'.offset = {c.offset}
    BY <2>1, <1>1 DEF Entries
  <2> QED
    BY <2>1, <2>2
<1>2. node = NodeOf(cu)'
  BY DEF NodeOf
<1> QED
  BY <1>1, <1>2 DEF DataInv

LEMMA DataNow ==
    ASSUME DataInv
    PROVE  \A c \in Entries(enc.cus) : NodeOf(c).qpY = {c.qpY} /\ NodeOf(c).offset = {c.offset}
<1> SUFFICES ASSUME NEW c \in Entries(enc.cus)
             PROVE  NodeOf(c).qpY = {c.qpY} /\ NodeOf(c).offset = {c.offset}
  OBVIOUS
<1>1. PICK i \in DOMAIN enc.cus : c = enc.cus[i]
  BY DEF Entries
<1> QED
  BY <1>1 DEF DataInv

DepthsType == GroupDepth \in 0 .. CtbDepth /\ OffsetDepth \in 0 .. CtbDepth

LEMMA Depths ==
    ASSUME layout \in Layouts
    PROVE  /\ DepthsType
           /\ {layout.sync, layout.delta, layout.offsets, layout.bypass} \subseteq BOOLEAN
BY BlocksAssumption, QpsAssumption DEF DepthsType, GroupDepth, OffsetDepth

(* A new coding tree unit: there is no group yet.                          *)
LEMMA UnitCarried ==
    ASSUME TreeInv, StatusInv, DataInv, TypeInv, ElementsAgree, CodingTreeUnit
    PROVE  (StatusInv /\ DataInv /\ TypeInv /\ ElementsAgree)'
<1>0. PICK r : r = Node(toBlock(toCoord(geo.toRs[Len(ctus)])), 0)
  OBVIOUS
<1>1. /\ ~cu.open /\ pending' = <<r>> /\ layout' = layout /\ cu' = cu /\ enc' = enc
      /\ qpStatus' = qpStatus /\ elements' = elements /\ ctus' = Append(ctus, EmptyTree)
  BY <1>0 DEF CodingTreeUnit
<1>2. layout \in Layouts /\ Len(ctus) \in Nat /\ DOMAIN ctus = 1 .. Len(ctus)
      /\ ctus \in Seq(Entries(ctus))
  BY CtusType DEF TreeInv, KindsInv
<1>3. GroupDepth \in 0 .. CtbDepth /\ OffsetDepth \in 0 .. CtbDepth /\ GroupDepth' = GroupDepth
      /\ OffsetDepth' = OffsetDepth
  BY <1>1, <1>2, Depths DEF DepthsType, GroupDepth, OffsetDepth
<1>4. r.depth = 0 /\ Head(<<r>>) = r
  BY <1>0 DEF Node
<1>5. \A d \in 0 .. CtbDepth : ~(Head(pending').depth > d)
  BY <1>1, <1>4
<1>6. ~Inside(GroupDepth)' /\ ~Inside(OffsetDepth)' /\ ~AtCorner(GroupDepth)' /\ ~AtCorner(OffsetDepth)'
  BY <1>1, <1>3, <1>5 DEF Inside, AtCorner
<1>7. StatusInv'
  BY <1>1, <1>6 DEF StatusInv
<1>8. /\ DOMAIN ctus' = 1 .. Len(ctus) + 1 /\ ctus'[Len(ctus) + 1] = EmptyTree
      /\ \A t \in 1 .. Len(ctus) : ctus'[t] = ctus[t]
  BY <1>1, <1>2
<1>9. DataInv'
  <2>1. ASSUME NEW c \in Entries(enc.cus) PROVE NodeOf(c)' = NodeOf(c)
    <3>1. Coded(c)
      BY NodesNow DEF TreeInv
    <3>2. addrInTs(c.at) \in Nat /\ addrInTs(c.at) < Len(ctus)
      BY <3>1, <1>2, PrecedesIs DEF Coded, Sound
    <3>3. addrInTs(c.at) + 1 \in 1 .. Len(ctus)
      BY <3>2, <1>2
    <3>4. ctus'[addrInTs(c.at) + 1] = TreeOf(c.at)
      BY <3>3, <1>8 DEF TreeOf
    <3>5. TreeOf(c.at)' = TreeOf(c.at)
      BY <3>4, <1>1, ScanKept
    <3> QED
      BY <3>5 DEF NodeOf
  <2>2. PICK C, k, node : C = enc'.cus /\ k = cu' /\ node = NodeOf(k)'
    OBVIOUS
  <2>3. ASSUME NEW c \in Entries(C) PROVE NodeOf(c)'.qpY = {c.qpY} /\ NodeOf(c)'.offset = {c.offset}
    BY <2>1, <2>2, <2>3, <1>1, DataNow
  <2>4. ~k.open
    BY <2>2, <1>1
  <2> QED
    BY <2>2, <2>3, <2>4, DataNext
<1>10. TypeInv'
  <2>1. ASSUME NEW t \in DOMAIN ctus', NEW i \in DOMAIN ctus'[t] PROVE ctus'[t][i] \in TreeNode
    <3>1. CASE t \in 1 .. Len(ctus)
      BY <3>1, <2>1, <1>2, <1>8 DEF TypeInv
    <3>2. CASE t = Len(ctus) + 1
      BY <3>2, <2>1, <1>8 DEF EmptyTree
    <3> QED
      BY <3>1, <3>2, <2>1, <1>2, <1>8
  <2> QED
    BY <2>1, <1>1 DEF TypeInv
<1>11. ElementsAgree'
  BY <1>1 DEF ElementsAgree
<1> QED
  BY <1>7, <1>9, <1>10, <1>11

(* A node of the recursion enters the tree.                                *)
LEMMA AppendTyped ==
    ASSUME TreeInv, DataInv, TypeInv, pending # <<>>, layout' = layout, NEW n, n = Head(pending),
           NEW split \in BOOLEAN, AppendNode(n, split)
    PROVE  /\ \A t \in DOMAIN ctus' : \A i \in DOMAIN ctus'[t] : ctus'[t][i] \in TreeNode
           /\ \A c \in Entries(enc.cus) : NodeOf(c)'.qpY = {c.qpY} /\ NodeOf(c)'.offset = {c.offset}
           /\ \A k : k.at = n.at /\ k.depth = n.depth
                       => NodeOf(k)'.qpY = {} /\ NodeOf(k)'.offset = {}
<1>1. /\ \A c : Coded(c) => NodeOf(c)' = NodeOf(c)
      /\ \A k : k.at = n.at /\ k.depth = n.depth => NodeOf(k)' = AppendedNode(n, split)
      /\ \A t \in DOMAIN ctus' : \A i \in DOMAIN ctus'[t] :
           \/ ctus'[t][i] = AppendedNode(n, split)
           \/ t \in DOMAIN ctus /\ i \in DOMAIN ctus[t] /\ ctus'[t][i] = ctus[t][i]
  BY AppendKeeps
<1>2. n.depth \in 0 .. CtbDepth
  <2>1. n \in NodeSet
    <3>1. pending \in Seq(NodeSet)
      BY DEF TreeInv, KindsInv, NodeSet
    <3> QED
      BY <3>1, TailIs
  <2> QED
    BY <2>1 DEF NodeSet
<1>3. AppendedNode(n, split) \in TreeNode
      /\ AppendedNode(n, split).qpY = {} /\ AppendedNode(n, split).offset = {}
  BY <1>2 DEF AppendedNode, TreeNode
<1>4. ASSUME NEW t \in DOMAIN ctus', NEW i \in DOMAIN ctus'[t] PROVE ctus'[t][i] \in TreeNode
  BY <1>1, <1>3, <1>4 DEF TypeInv
<1>5. ASSUME NEW c \in Entries(enc.cus)
      PROVE  NodeOf(c)'.qpY = {c.qpY} /\ NodeOf(c)'.offset = {c.offset}
  <2>1. Coded(c) /\ NodeOf(c).qpY = {c.qpY} /\ NodeOf(c).offset = {c.offset}
    BY NodesNow, DataNow DEF TreeInv
  <2>2. NodeOf(c)' = NodeOf(c)
    BY <2>1, <1>1
  <2> QED
    BY <2>1, <2>2
<1>6. ASSUME NEW k, k.at = n.at, k.depth = n.depth
      PROVE  NodeOf(k)'.qpY = {} /\ NodeOf(k)'.offset = {}
  <2>1. NodeOf(k)' = AppendedNode(n, split)
    BY <1>1, <1>6
  <2> QED
    BY <2>1, <1>3
<1> QED
  BY <1>4, <1>5, <1>6

LEMMA FlagAgrees ==
    ASSUME AtNext, NEW n, n = Head(pending), elements' = SplitContexts(n)
    PROVE  ElementsAgree'
<1>1. EncSplitContext(n) = splitContext(n)
  BY ContextsAgree DEF Next1
<1>2. SplitContexts(n).sent = SplitContexts(n).parsed
  BY <1>1 DEF SplitContexts
<1> QED
  BY <1>2 DEF ElementsAgree

LEMMA SplitCarried ==
    ASSUME TreeInv, OrderInv, StatusInv, DataInv, TypeInv, ElementsAgree, Split
    PROVE  (StatusInv /\ DataInv /\ TypeInv /\ ElementsAgree)'
<1>0. PICK n, R, Q, status : n = Head(pending) /\ R = Tail(pending) /\ Q = Quarters(n)
                             /\ status = GroupReset(n.depth, qpStatus)
  OBVIOUS
<1>1. /\ pending # <<>> /\ ~cu.open /\ TRUE \in SplitCuFlag(n) /\ pending' = Q \o R
      /\ layout' = layout /\ cu' = cu /\ enc' = enc /\ elements' = SplitContexts(n)
      /\ AppendNode(n, TRUE) /\ qpStatus' = status
  BY <1>0 DEF Split
<1>2. AtNext /\ layout \in Layouts
  BY <1>1 DEF AtNext, TreeInv, KindsInv
<1>3. n.depth < CtbDepth
  BY <1>1 DEF SplitCuFlag, splitFlagParsed
<1>4. R \in Seq(NodeSet) /\ Sound(n)
  BY <1>0, <1>2, NextOrder
<1>5. Q \in Seq(NodeSet) /\ Q # <<>> /\ Head(Q).at = n.at
  BY <1>0, <1>2, <1>3, <1>4, QuartersAre, QuartersOrdered
<1>6. Head(pending').at = n.at
  BY <1>1, <1>4, <1>5, TailOfJoin
<1>7. /\ status \in Status /\ status.qpYpred = enc.pred
      /\ Corner(GroupDepth, n.at) => FreshDelta(status)
      /\ ~Corner(GroupDepth, n.at) => KnownDelta(status)
      /\ Corner(OffsetDepth, n.at) => FreshOffset(status)
      /\ ~Corner(OffsetDepth, n.at) => KnownOffset(status)
  BY <1>0, <1>2, ResetIs
<1>8. GroupDepth' = GroupDepth /\ OffsetDepth' = OffsetDepth /\ EncDelta' = EncDelta
  BY <1>1 DEF GroupDepth, OffsetDepth, EncDelta
<1>9. StatusInv'
  <2>1. ASSUME Inside(GroupDepth)' PROVE DeltaKnown'
    <3>1. ~Corner(GroupDepth, n.at)
      BY <2>1, <1>1, <1>6, <1>8 DEF Inside, Corner
    <3> QED
      BY <3>1, <1>1, <1>7, <1>8 DEF DeltaKnown, KnownDelta
  <2>2. ASSUME AtCorner(GroupDepth)' PROVE DeltaFresh'
    <3>1. Corner(GroupDepth, n.at)
      BY <2>2, <1>1, <1>6, <1>8 DEF AtCorner, Corner
    <3> QED
      BY <3>1, <1>1, <1>7 DEF DeltaFresh, FreshDelta
  <2>3. ASSUME Inside(OffsetDepth)' PROVE OffsetKnown'
    <3>1. ~Corner(OffsetDepth, n.at)
      BY <2>3, <1>1, <1>6, <1>8 DEF Inside, Corner
    <3> QED
      BY <3>1, <1>1, <1>7 DEF OffsetKnown, KnownOffset
  <2>4. ASSUME AtCorner(OffsetDepth)' PROVE OffsetFresh'
    <3>1. Corner(OffsetDepth, n.at)
      BY <2>4, <1>1, <1>6, <1>8 DEF AtCorner, Corner
    <3> QED
      BY <3>1, <1>1, <1>7 DEF OffsetFresh, FreshOffset
  <2>5. qpStatus'.qpYpred = enc'.pred
    BY <1>1, <1>7
  <2>6. (~layout.delta => ~enc.sentDelta)' /\ (~layout.offsets => ~enc.sentOffset)'
        /\ (~enc.sentOffset => enc.offset = 0)'
    BY <1>1 DEF StatusInv
  <2> QED
    BY <2>1, <2>2, <2>3, <2>4, <2>5, <2>6 DEF StatusInv
<1>10. /\ \A t \in DOMAIN ctus' : \A i \in DOMAIN ctus'[t] : ctus'[t][i] \in TreeNode
       /\ \A c \in Entries(enc.cus) : NodeOf(c)'.qpY = {c.qpY} /\ NodeOf(c)'.offset = {c.offset}
  <2>1. TRUE \in BOOLEAN
    OBVIOUS
  <2> QED
    BY <2>1, <1>0, <1>1, AppendTyped
<1>11. DataInv'
  <2>1. PICK C, k, node : C = enc'.cus /\ k = cu' /\ node = NodeOf(k)'
    OBVIOUS
  <2>2. C = enc.cus /\ ~k.open
    BY <2>1, <1>1
  <2> QED
    BY <2>1, <2>2, <1>10, DataNext
<1>12. TypeInv'
  BY <1>1, <1>7, <1>10 DEF TypeInv
<1>13. ElementsAgree'
  BY <1>0, <1>1, <1>2, FlagAgrees
<1> QED
  BY <1>9, <1>11, <1>12, <1>13

(* A coding unit begins: with a group, or in one.                          *)
LEMMA EncStarted ==
    ASSUME AtNext, TypeInv, NEW n, n = Head(pending), EncStartCu(n), layout' = layout
    PROVE  /\ enc' \in Encoder /\ enc'.cus = enc.cus
           /\ Corner(GroupDepth, n.at) => enc'.pred = EncPred(n.at) /\ enc'.sentDelta = FALSE
           /\ ~Corner(GroupDepth, n.at) =>
                enc'.pred = enc.pred /\ enc'.sentDelta = enc.sentDelta /\ enc'.target = enc.target
           /\ Corner(OffsetDepth, n.at) => enc'.sentOffset = FALSE /\ enc'.offset = 0
           /\ ~Corner(OffsetDepth, n.at) =>
                enc'.sentOffset = enc.sentOffset /\ enc'.offset = enc.offset
<1>1. GroupDepth \in 0 .. CtbDepth /\ OffsetDepth \in 0 .. CtbDepth
  <2>1. layout \in Layouts
    BY NextIs
  <2> QED
    BY <2>1, Depths DEF DepthsType
<1> DEFINE begins == Begins(n, GroupSize)
           beginsOffset == Begins(n, sizeAt(OffsetDepth))
<1>2. (begins <=> Corner(GroupDepth, n.at)) /\ (beginsOffset <=> Corner(OffsetDepth, n.at))
  BY <1>1, GroupBegins DEF Next1, GroupSize
<1>3. PICK target \in IF begins THEN Qps ELSE {enc.target} :
        enc' = [enc EXCEPT
            !.pred = IF begins THEN EncPred(n.at) ELSE @,
            !.target = target,
            !.sentDelta = IF begins THEN FALSE ELSE @,
            !.sentOffset = IF beginsOffset THEN FALSE ELSE @,
            !.offset = IF beginsOffset THEN 0 ELSE @]
  BY Zenon DEF EncStartCu
<1> HIDE DEF begins, beginsOffset
<1>4. enc \in Encoder /\ EncPred(n.at) \in QpRange /\ 0 \in OffsetRange
  BY PredInRange DEF TypeInv, OffsetRange, Next1
<1>5. target \in QpRange /\ (~begins => target = enc.target)
  BY <1>3, <1>4, QpsAssumption DEF Encoder
<1>6. enc' \in Encoder
  <2> DEFINE p == EncPred(n.at)
  <2>1. p \in QpRange
    BY <1>4
  <2>2. enc' = [enc EXCEPT
            !.pred = IF begins THEN p ELSE @,
            !.target = target,
            !.sentDelta = IF begins THEN FALSE ELSE @,
            !.sentOffset = IF beginsOffset THEN FALSE ELSE @,
            !.offset = IF beginsOffset THEN 0 ELSE @]
    BY <1>3
  <2> HIDE DEF p
  <2> QED
    BY <2>1, <2>2, <1>4, <1>5 DEF Encoder
<1>7. /\ enc'.cus = enc.cus
      /\ begins => enc'.pred = EncPred(n.at) /\ enc'.sentDelta = FALSE
      /\ ~begins => enc'.pred = enc.pred /\ enc'.sentDelta = enc.sentDelta /\ enc'.target = target
      /\ beginsOffset => enc'.sentOffset = FALSE /\ enc'.offset = 0
      /\ ~beginsOffset => enc'.sentOffset = enc.sentOffset /\ enc'.offset = enc.offset
  <2> DEFINE p == EncPred(n.at)
  <2>1. enc' = [enc EXCEPT
            !.pred = IF begins THEN p ELSE @,
            !.target = target,
            !.sentDelta = IF begins THEN FALSE ELSE @,
            !.sentOffset = IF beginsOffset THEN FALSE ELSE @,
            !.offset = IF beginsOffset THEN 0 ELSE @]
    BY <1>3
  <2> HIDE DEF p
  <2>2. /\ enc'.cus = enc.cus
        /\ begins => enc'.pred = p /\ enc'.sentDelta = FALSE
        /\ ~begins => enc'.pred = enc.pred /\ enc'.sentDelta = enc.sentDelta /\ enc'.target = target
        /\ beginsOffset => enc'.sentOffset = FALSE /\ enc'.offset = 0
        /\ ~beginsOffset => enc'.sentOffset = enc.sentOffset /\ enc'.offset = enc.offset
    BY <2>1, <1>4 DEF Encoder
  <2> QED
    BY <2>2 DEF p
<1> QED
  BY <1>2, <1>5, <1>6, <1>7

LEMMA OpenedCarried ==
    ASSUME TreeInv, OrderInv, StatusInv, DataInv, TypeInv, ElementsAgree, CodingUnit
    PROVE  (StatusInv /\ DataInv /\ TypeInv /\ ElementsAgree)'
<1>0. PICK n, status : n = Head(pending) /\ status = GroupReset(n.depth, qpStatus)
  OBVIOUS
<1>1. /\ pending # <<>> /\ ~cu.open /\ pending' = Tail(pending)
      /\ layout' = layout /\ elements' = SplitContexts(n) /\ EncStartCu(n)
      /\ AppendNode(n, FALSE) /\ qpStatus' = OnStartCu(n.at, status)
      /\ \E bypass \in {FALSE, layout.bypass} :
           cu' = [at |-> n.at, depth |-> n.depth, bypass |-> bypass, tus |-> 0, open |-> TRUE]
  BY <1>0 DEF CodingUnit
<1>2. AtNext /\ layout \in Layouts
  BY <1>1 DEF AtNext, TreeInv, KindsInv
<1>3. cu'.at = n.at /\ cu'.depth = n.depth /\ cu'.open /\ cu' \in OpenUnit
  <2>1. n.at \in Block /\ n.depth \in 0 .. CtbDepth
    BY <1>0, <1>2, NextIs DEF Next1
  <2>2. {FALSE, layout.bypass} \subseteq BOOLEAN /\ 0 \in 0 .. MaxTus
    BY <1>2, Depths, QpsAssumption
  <2>3. PICK bypass \in {FALSE, layout.bypass} :
          cu' = [at |-> n.at, depth |-> n.depth, bypass |-> bypass, tus |-> 0, open |-> TRUE]
    BY <1>1
  <2>4. bypass \in BOOLEAN /\ TRUE \in BOOLEAN
    BY <2>2
  <2>5. cu' \in OpenUnit
    BY <2>1, <2>2, <2>3, <2>4, Zenon DEF OpenUnit
  <2> QED
    BY <2>3, <2>5
<1>4. /\ status \in Status /\ status.qpYpred = enc.pred
      /\ Corner(GroupDepth, n.at) => FreshDelta(status)
      /\ ~Corner(GroupDepth, n.at) => KnownDelta(status)
      /\ Corner(OffsetDepth, n.at) => FreshOffset(status)
      /\ ~Corner(OffsetDepth, n.at) => KnownOffset(status)
  BY <1>0, <1>2, ResetIs
<1>5. /\ enc' \in Encoder /\ enc'.cus = enc.cus
      /\ Corner(GroupDepth, n.at) => enc'.pred = EncPred(n.at) /\ enc'.sentDelta = FALSE
      /\ ~Corner(GroupDepth, n.at) =>
           enc'.pred = enc.pred /\ enc'.sentDelta = enc.sentDelta /\ enc'.target = enc.target
      /\ Corner(OffsetDepth, n.at) => enc'.sentOffset = FALSE /\ enc'.offset = 0
      /\ ~Corner(OffsetDepth, n.at) => enc'.sentOffset = enc.sentOffset /\ enc'.offset = enc.offset
  BY <1>0, <1>1, <1>2, EncStarted
<1>6. /\ qpStatus' \in Status /\ qpStatus'.qpYpred = enc'.pred
      /\ qpStatus'.isCuQpDeltaCoded = status.isCuQpDeltaCoded
      /\ qpStatus'.cuQpDeltaVal = status.cuQpDeltaVal
      /\ qpStatus'.isCuQpOffsetCoded = status.isCuQpOffsetCoded
      /\ qpStatus'.cuQpOffset = status.cuQpOffset
  <2>1. CASE Corner(GroupDepth, n.at)
    <3>1. deriveQpYpred(n.at) = EncPred(n.at) /\ EncPred(n.at) \in QpRange
      BY <2>1, <1>0, <1>2, PredAgrees, PredInRange DEF Next1
    <3> DEFINE p == deriveQpYpred(n.at)
    <3>2. qpStatus' = [status EXCEPT !.qpYpred = p]
      BY <2>1, <1>1 DEF OnStartCu, Corner, GroupSize
    <3>3. p \in QpRange /\ enc'.pred = p
      BY <2>1, <3>1, <1>5
    <3> HIDE DEF p
    <3> QED
      BY <3>2, <3>3, <1>4 DEF Status
  <2>2. CASE ~Corner(GroupDepth, n.at)
    <3>1. qpStatus' = status
      BY <2>2, <1>1 DEF OnStartCu, Corner, GroupSize
    <3> QED
      BY <2>2, <3>1, <1>4, <1>5
  <2> QED
    BY <2>1, <2>2
<1>7. DeltaKnown'
  <2>1. CASE Corner(GroupDepth, n.at)
    <3>1. FreshDelta(status) /\ enc'.sentDelta = FALSE /\ status.isCuQpDeltaCoded \in BOOLEAN
      BY <2>1, <1>4, <1>5 DEF Status
    <3> QED
      BY <3>1, <1>6 DEF DeltaKnown, FreshDelta
  <2>2. CASE ~Corner(GroupDepth, n.at)
    <3>1. EncDelta' = EncDelta
      BY <2>2, <1>5 DEF EncDelta
    <3> QED
      BY <2>2, <3>1, <1>4, <1>5, <1>6 DEF DeltaKnown, KnownDelta
  <2> QED
    BY <2>1, <2>2
<1>8. OffsetKnown'
  <2>1. CASE Corner(OffsetDepth, n.at)
    <3>1. FreshOffset(status) /\ enc'.sentOffset = FALSE /\ enc'.offset = 0
          /\ status.isCuQpOffsetCoded \in BOOLEAN
      BY <2>1, <1>4, <1>5 DEF Status
    <3> QED
      BY <3>1, <1>6 DEF OffsetKnown, FreshOffset
  <2>2. CASE ~Corner(OffsetDepth, n.at)
    BY <2>2, <1>4, <1>5, <1>6 DEF OffsetKnown, KnownOffset
  <2> QED
    BY <2>1, <2>2
<1>9. StatusInv'
  <2>1. ~AtCorner(GroupDepth)' /\ ~AtCorner(OffsetDepth)'
    BY <1>3 DEF AtCorner
  <2>2. /\ ~layout.delta => ~enc'.sentDelta
        /\ ~layout.offsets => ~enc'.sentOffset
        /\ ~enc'.sentOffset => enc'.offset = 0
    <3>1. /\ ~layout.delta => ~enc.sentDelta
          /\ ~layout.offsets => ~enc.sentOffset
          /\ ~enc.sentOffset => enc.offset = 0
      BY DEF StatusInv
    <3> QED
      BY <3>1, <1>5
  <2> QED
    BY <2>1, <2>2, <1>1, <1>6, <1>7, <1>8 DEF StatusInv
<1>10. /\ \A t \in DOMAIN ctus' : \A i \in DOMAIN ctus'[t] : ctus'[t][i] \in TreeNode
       /\ \A c \in Entries(enc.cus) : NodeOf(c)'.qpY = {c.qpY} /\ NodeOf(c)'.offset = {c.offset}
       /\ \A k : k.at = n.at /\ k.depth = n.depth => NodeOf(k)'.qpY = {} /\ NodeOf(k)'.offset = {}
  <2>1. FALSE \in BOOLEAN
    OBVIOUS
  <2> QED
    BY <2>1, <1>0, <1>1, AppendTyped
<1>11. DataInv'
  <2>1. PICK C, k, node : C = enc'.cus /\ k = cu' /\ node = NodeOf(k)'
    OBVIOUS
  <2>2. C = enc.cus /\ node.qpY = {} /\ node.offset = {}
    BY <2>1, <1>3, <1>5, <1>10
  <2> QED
    BY <2>1, <2>2, <1>10, DataNext
<1>12. TypeInv'
  BY <1>3, <1>5, <1>6, <1>10 DEF TypeInv
<1>13. ElementsAgree'
  BY <1>0, <1>1, <1>2, FlagAgrees
<1> QED
  BY <1>9, <1>11, <1>12, <1>13

(* The parameters of a coding unit are constructed in its node.            *)
LEMMA ConstructTyped ==
    ASSUME TreeInv, DataInv, TypeInv, cu.open, layout' = layout,
           NEW luma \in BOOLEAN, NEW chroma \in BOOLEAN, NEW status,
           deriveQpY(status) \in QpRange, status.cuQpOffset \in OffsetRange,
           ConstructQps(luma, chroma, status)
    PROVE  /\ \A t \in DOMAIN ctus' : \A i \in DOMAIN ctus'[t] : ctus'[t][i] \in TreeNode
           /\ \A c \in Entries(enc.cus) : NodeOf(c)'.qpY = {c.qpY} /\ NodeOf(c)'.offset = {c.offset}
           /\ \A k : k.at = cu.at /\ k.depth = cu.depth =>
                /\ NodeOf(k)'.qpY = IF luma /\ NodeOf(cu).qpY = {} THEN {deriveQpY(status)} ELSE NodeOf(cu).qpY
                /\ NodeOf(k)'.offset = IF chroma /\ NodeOf(cu).offset = {} THEN {status.cuQpOffset}
                                       ELSE NodeOf(cu).offset
<1> DEFINE node == NodeOf(cu)
           next == Constructed(node, luma, chroma, status)
<1>1. /\ \A k : k.at = cu.at /\ k.depth = cu.depth => NodeOf(k)' = next
      /\ \A c : Coded(c) /\ c.at # cu.at => NodeOf(c)' = NodeOf(c)
      /\ \A t \in DOMAIN ctus' : \A i \in DOMAIN ctus'[t] :
           /\ t \in DOMAIN ctus /\ i \in DOMAIN ctus[t]
           /\ \/ ctus'[t][i] = next
              \/ ctus'[t][i] = ctus[t][i]
      /\ \E t \in DOMAIN ctus : \E i \in DOMAIN ctus[t] : node = ctus[t][i]
  BY ConstructKeeps
<1>2. node \in TreeNode
  BY <1>1 DEF TypeInv
<1> HIDE DEF node
<1>3. /\ next \in TreeNode
      /\ next.qpY = IF luma /\ node.qpY = {} THEN {deriveQpY(status)} ELSE node.qpY
      /\ next.offset = IF chroma /\ node.offset = {} THEN {status.cuQpOffset} ELSE node.offset
  <2> DEFINE q == deriveQpY(status)
             o == status.cuQpOffset
  <2>1. next = [node EXCEPT !.qpY = IF luma /\ @ = {} THEN {q} ELSE @,
                            !.offset = IF chroma /\ @ = {} THEN {o} ELSE @]
    BY DEF Constructed
  <2>2. q \in QpRange /\ o \in OffsetRange
    OBVIOUS
  <2> HIDE DEF q, o, next
  <2>3. next \in TreeNode
    BY <2>1, <2>2, <1>2 DEF TreeNode
  <2>4. /\ next.qpY = IF luma /\ node.qpY = {} THEN {q} ELSE node.qpY
        /\ next.offset = IF chroma /\ node.offset = {} THEN {o} ELSE node.offset
    BY <2>1, <1>2 DEF TreeNode
  <2> QED
    BY <2>3, <2>4 DEF q, o
<1> HIDE DEF next
<1>4. ASSUME NEW t \in DOMAIN ctus', NEW i \in DOMAIN ctus'[t] PROVE ctus'[t][i] \in TreeNode
  BY <1>1, <1>3, <1>4 DEF TypeInv
<1>5. ASSUME NEW c \in Entries(enc.cus)
      PROVE  NodeOf(c)'.qpY = {c.qpY} /\ NodeOf(c)'.offset = {c.offset}
  <2>1. Coded(c) /\ c.at # cu.at /\ NodeOf(c).qpY = {c.qpY} /\ NodeOf(c).offset = {c.offset}
    BY NodesNow, DataNow DEF TreeInv
  <2>2. NodeOf(c)' = NodeOf(c)
    BY <2>1, <1>1
  <2> QED
    BY <2>1, <2>2
<1>6. ASSUME NEW k, k.at = cu.at, k.depth = cu.depth
      PROVE  /\ NodeOf(k)'.qpY = IF luma /\ node.qpY = {} THEN {deriveQpY(status)} ELSE node.qpY
             /\ NodeOf(k)'.offset = IF chroma /\ node.offset = {} THEN {status.cuQpOffset} ELSE node.offset
  <2>1. NodeOf(k)' = next
    BY <1>1, <1>6
  <2> QED
    BY <2>1, <1>3
<1> QED
  BY <1>4, <1>5, <1>6 DEF node

(* What the decoder derives in a group it knows.                           *)
LEMMA KnownIs ==
    ASSUME layout \in Layouts, enc \in Encoder, NEW status \in Status,
           status.qpYpred = enc.pred, KnownDelta(status)
    PROVE  deriveQpY(status) = EncQpY /\ deriveQpY(status) \in QpRange
<1>1. enc.pred \in QpRange /\ enc.target \in QpRange /\ enc.sentDelta \in BOOLEAN
  BY DEF Encoder
<1>2. /\ status.cuQpDeltaVal = EncDelta => deriveQpY(status) = enc.target
      /\ status.cuQpDeltaVal = 0 => deriveQpY(status) = enc.pred
  BY <1>1, QpDerived
<1> QED
  BY <1>1, <1>2 DEF KnownDelta, EncQpY

LEMMA FinishCarried ==
    ASSUME TreeInv, GroupsInv(GroupDepth), GroupsInv(OffsetDepth), StatusInv, DataInv, TypeInv,
           ElementsAgree, FinishCodingUnit
    PROVE  (StatusInv /\ DataInv /\ TypeInv /\ ElementsAgree)'
<1>0. PICK e : e = [at |-> cu.at, depth |-> cu.depth, qpY |-> EncQpY, offset |-> enc.offset]
  OBVIOUS
<1>1. /\ cu.open /\ ConstructQps(TRUE, TRUE, qpStatus) /\ enc' = [enc EXCEPT !.cus = Append(@, e)]
      /\ cu' = NoCu /\ layout' = layout /\ pending' = pending /\ qpStatus' = qpStatus
      /\ elements' = elements
  BY <1>0 DEF FinishCodingUnit
<1>2. layout \in Layouts /\ cu \in OpenUnit /\ qpStatus \in Status /\ enc \in Encoder
  BY DEF TreeInv, KindsInv, TypeInv
<1>3. ~cu'.open /\ cu' \in OpenUnit
  <2>1. <<0, 0>> \in Block /\ 0 \in 0 .. CtbDepth /\ 0 \in 0 .. MaxTus /\ FALSE \in BOOLEAN
    BY BlocksAssumption, QpsAssumption DEF Block
  <2>2. NoCu \in OpenUnit
    BY <2>1, Zenon DEF NoCu, OpenUnit
  <2> QED
    BY <2>2, <1>1 DEF NoCu
<1>4. Inside(GroupDepth) /\ Inside(OffsetDepth)
  BY <1>1 DEF Inside
<1>5. DeltaKnown /\ OffsetKnown /\ KnownDelta(qpStatus) /\ qpStatus.qpYpred = enc.pred
  BY <1>4 DEF StatusInv, DeltaKnown, KnownDelta
<1>6. deriveQpY(qpStatus) = EncQpY /\ EncQpY \in QpRange
      /\ qpStatus.cuQpOffset = enc.offset /\ enc.offset \in OffsetRange
  BY <1>2, <1>5, KnownIs DEF Encoder, OffsetKnown
<1>7. e \in CodedUnit
  <2>1. cu.at \in Block /\ cu.depth \in 0 .. CtbDepth
    BY <1>2 DEF OpenUnit
  <2> QED
    BY <2>1, <1>0, <1>6, Zenon DEF CodedUnit
<1>8. /\ enc' \in Encoder /\ enc'.cus = Append(enc.cus, e) /\ enc'.pred = enc.pred
      /\ enc'.target = enc.target /\ enc'.sentDelta = enc.sentDelta
      /\ enc'.sentOffset = enc.sentOffset /\ enc'.offset = enc.offset
  <2>1. enc.cus \in Seq(CodedUnit)
    BY <1>2 DEF Encoder, CodedUnits
  <2> DEFINE s == Append(enc.cus, e)
  <2>2. s \in CodedUnits
    BY <2>1, <1>7 DEF CodedUnits
  <2>3. enc' = [enc EXCEPT !.cus = s]
    BY <1>1
  <2> HIDE DEF s
  <2>4. enc' \in Encoder
    BY <2>2, <2>3, <1>2 DEF Encoder
  <2>5. /\ enc'.cus = s /\ enc'.pred = enc.pred
        /\ enc'.target = enc.target /\ enc'.sentDelta = enc.sentDelta
        /\ enc'.sentOffset = enc.sentOffset /\ enc'.offset = enc.offset
    BY <2>3, <1>2 DEF Encoder
  <2> QED
    BY <2>4, <2>5 DEF s
<1>9. GroupDepth' = GroupDepth /\ OffsetDepth' = OffsetDepth /\ EncDelta' = EncDelta
  BY <1>1, <1>8 DEF GroupDepth, OffsetDepth, EncDelta
<1>10. StatusInv'
  <2>1. pending # <<>> => Head(pending) \in Later
    <3>1. pending \in Seq(NodeSet) /\ Later = Entries(pending)
      BY <1>1 DEF TreeInv, KindsInv, NodeSet, Later
    <3> QED
      BY <3>1, TailIs
  <2>2. ~AtCorner(GroupDepth)'
    <3>1. pending # <<>> /\ Head(pending).depth > GroupDepth => ~Corner(GroupDepth, Head(pending).at)
      BY <2>1 DEF GroupsInv
    <3> QED
      BY <3>1, <1>1, <1>9 DEF AtCorner, Corner
  <2>3. ~AtCorner(OffsetDepth)'
    <3>1. pending # <<>> /\ Head(pending).depth > OffsetDepth => ~Corner(OffsetDepth, Head(pending).at)
      BY <2>1 DEF GroupsInv
    <3> QED
      BY <3>1, <1>1, <1>9 DEF AtCorner, Corner
  <2>4. DeltaKnown' /\ OffsetKnown'
    BY <1>1, <1>5, <1>8, <1>9 DEF DeltaKnown, OffsetKnown
  <2>5. /\ ~layout.delta => ~enc'.sentDelta
        /\ ~layout.offsets => ~enc'.sentOffset
        /\ ~enc'.sentOffset => enc'.offset = 0
    BY <1>8 DEF StatusInv
  <2> QED
    BY <2>2, <2>3, <2>4, <2>5, <1>1, <1>5, <1>8 DEF StatusInv
<1>11. /\ \A t \in DOMAIN ctus' : \A i \in DOMAIN ctus'[t] : ctus'[t][i] \in TreeNode
       /\ \A c \in Entries(enc.cus) : NodeOf(c)'.qpY = {c.qpY} /\ NodeOf(c)'.offset = {c.offset}
       /\ \A k : k.at = cu.at /\ k.depth = cu.depth =>
            /\ NodeOf(k)'.qpY = IF TRUE /\ NodeOf(cu).qpY = {} THEN {deriveQpY(qpStatus)} ELSE NodeOf(cu).qpY
            /\ NodeOf(k)'.offset = IF TRUE /\ NodeOf(cu).offset = {} THEN {qpStatus.cuQpOffset}
                                   ELSE NodeOf(cu).offset
  <2>1. TRUE \in BOOLEAN /\ deriveQpY(qpStatus) \in QpRange /\ qpStatus.cuQpOffset \in OffsetRange
    BY <1>6
  <2> QED
    BY <2>1, <1>1, ConstructTyped
<1>12. NodeOf(e)'.qpY = {e.qpY} /\ NodeOf(e)'.offset = {e.offset}
  <2>1. NodeOf(cu).qpY \subseteq {EncQpY} /\ NodeOf(cu).offset \subseteq {enc.offset}
    BY <1>1 DEF DataInv
  <2>2. e.at = cu.at /\ e.depth = cu.depth /\ e.qpY = EncQpY /\ e.offset = enc.offset
    BY <1>0
  <2> QED
    BY <2>1, <2>2, <1>6, <1>11
<1>13. DataInv'
  <2>1. PICK C, k, node : C = enc'.cus /\ k = cu' /\ node = NodeOf(k)'
    OBVIOUS
  <2>2. Entries(C) = Entries(enc.cus) \cup {e}
    <3>1. PICK s : s = enc.cus
      OBVIOUS
    <3>2. s \in Seq(CodedUnit)
      BY <3>1, <1>2 DEF Encoder, CodedUnits
    <3>3. Append(s, e) = s \o <<e>> /\ <<e>> \in Seq(CodedUnit)
      BY <3>2, <1>7
    <3>4. Entries(s \o <<e>>) = Entries(s) \cup Entries(<<e>>)
      BY <3>2, <3>3, JoinIs
    <3> QED
      BY <3>1, <3>3, <3>4, <2>1, <1>8, SingleIs
  <2>3. \A c \in Entries(C) : NodeOf(c)'.qpY = {c.qpY} /\ NodeOf(c)'.offset = {c.offset}
    BY <2>2, <1>11, <1>12
  <2>4. ~k.open
    BY <2>1, <1>3
  <2> QED
    BY <2>1, <2>3, <2>4, DataNext
<1>14. TypeInv'
  BY <1>1, <1>2, <1>3, <1>8, <1>11 DEF TypeInv
<1>15. ElementsAgree'
  BY <1>1 DEF ElementsAgree
<1> QED
  BY <1>10, <1>13, <1>14, <1>15

(* What a transform unit carries is parsed where it was sent.              *)
LEMMA ParsedIs ==
    ASSUME layout \in Layouts, enc \in Encoder, qpStatus \in Status, DeltaKnown, OffsetKnown,
           qpStatus.qpYpred = enc.pred, NEW cbfC \in BOOLEAN,
           NEW value \in OffsetRange, ~OffsetSent(cbfC) => value = enc.offset,
           NEW status, status = WithOffset(WithDelta(qpStatus), cbfC, value)
    PROVE  /\ offsetParsed(cbfC) <=> OffsetSent(cbfC)
           /\ qpStatus.isCuQpDeltaCoded = enc.sentDelta
           /\ status \in Status /\ status.qpYpred = enc.pred
           /\ status.isCuQpDeltaCoded = (enc.sentDelta \/ layout.delta)
           /\ status.cuQpDeltaVal = IF enc.sentDelta \/ layout.delta THEN EncDelta ELSE 0
           /\ status.isCuQpOffsetCoded = (enc.sentOffset \/ OffsetSent(cbfC))
           /\ status.cuQpOffset = value
<1>1. /\ qpStatus.isCuQpDeltaCoded = enc.sentDelta
      /\ qpStatus.cuQpDeltaVal = IF enc.sentDelta THEN EncDelta ELSE 0
      /\ qpStatus.isCuQpOffsetCoded = enc.sentOffset /\ qpStatus.cuQpOffset = enc.offset
  BY DEF DeltaKnown, OffsetKnown
<1>2. enc.sentDelta \in BOOLEAN /\ enc.sentOffset \in BOOLEAN /\ layout.delta \in BOOLEAN
      /\ layout.offsets \in BOOLEAN /\ enc.offset \in OffsetRange
  BY Depths DEF Encoder
<1>3. offsetParsed(cbfC) <=> OffsetSent(cbfC)
  BY <1>1 DEF offsetParsed, OffsetSent
<1>4. EncDelta \in DeltaRange
  <2>1. enc.pred \in QpRange /\ enc.target \in QpRange
    BY DEF Encoder
  <2>2. EncDelta = DifferenceOf(enc.target, enc.pred)
    BY DEF EncDelta, DifferenceOf
  <2> QED
    BY <2>1, <2>2, DifferenceIs DEF DeltaRange
<1> DEFINE w == WithDelta(qpStatus)
           v == EncDelta
           sent == OffsetSent(cbfC)
<1>5. w = IF layout.delta /\ ~enc.sentDelta
          THEN [qpStatus EXCEPT !.isCuQpDeltaCoded = TRUE, !.cuQpDeltaVal = v] ELSE qpStatus
  BY <1>1 DEF WithDelta
<1>6. status = IF sent THEN [w EXCEPT !.isCuQpOffsetCoded = TRUE, !.cuQpOffset = value] ELSE w
  BY <1>3 DEF WithOffset
<1>7. v \in DeltaRange /\ sent \in BOOLEAN /\ (~sent => value = enc.offset)
      /\ qpStatus.cuQpDeltaVal = IF enc.sentDelta THEN v ELSE 0
  <2>1. sent \in BOOLEAN
    BY <1>2 DEF OffsetSent
  <2> QED
    BY <2>1, <1>1, <1>4
<1> HIDE DEF w, v, sent
<1>8. /\ w \in Status /\ w.qpYpred = enc.pred
      /\ w.isCuQpDeltaCoded = (enc.sentDelta \/ layout.delta)
      /\ w.cuQpDeltaVal = IF enc.sentDelta \/ layout.delta THEN v ELSE 0
      /\ w.isCuQpOffsetCoded = enc.sentOffset /\ w.cuQpOffset = enc.offset
  <2>1. CASE layout.delta /\ ~enc.sentDelta
    <3>1. w = [qpStatus EXCEPT !.isCuQpDeltaCoded = TRUE, !.cuQpDeltaVal = v]
      BY <2>1, <1>5
    <3>2. /\ w \in Status /\ w.qpYpred = enc.pred /\ w.isCuQpDeltaCoded = TRUE
          /\ w.cuQpDeltaVal = v
          /\ w.isCuQpOffsetCoded = enc.sentOffset /\ w.cuQpOffset = enc.offset
      BY <3>1, <1>1, <1>7 DEF Status
    <3> QED
      BY <2>1, <3>2
  <2>2. CASE ~(layout.delta /\ ~enc.sentDelta)
    <3>1. w = qpStatus
      BY <2>2, <1>5
    <3>2. (enc.sentDelta \/ layout.delta) = enc.sentDelta
      BY <2>2, <1>2
    <3> QED
      BY <3>1, <3>2, <1>1, <1>7
  <2> QED
    BY <2>1, <2>2
<1>9. /\ status \in Status /\ status.qpYpred = w.qpYpred
      /\ status.isCuQpDeltaCoded = w.isCuQpDeltaCoded /\ status.cuQpDeltaVal = w.cuQpDeltaVal
      /\ status.isCuQpOffsetCoded = (enc.sentOffset \/ sent) /\ status.cuQpOffset = value
  <2>1. CASE sent
    <3>1. status = [w EXCEPT !.isCuQpOffsetCoded = TRUE, !.cuQpOffset = value]
      BY <2>1, <1>6
    <3>2. /\ status \in Status /\ status.qpYpred = w.qpYpred
          /\ status.isCuQpDeltaCoded = w.isCuQpDeltaCoded /\ status.cuQpDeltaVal = w.cuQpDeltaVal
          /\ status.isCuQpOffsetCoded = TRUE /\ status.cuQpOffset = value
      BY <3>1, <1>8 DEF Status
    <3> QED
      BY <2>1, <3>2
  <2>2. CASE ~sent
    <3>1. status = w /\ value = enc.offset
      BY <2>2, <1>6, <1>7
    <3>2. (enc.sentOffset \/ sent) = enc.sentOffset
      BY <2>2, <1>2
    <3> QED
      BY <3>1, <3>2, <1>8
  <2> QED
    BY <2>1, <2>2
<1> QED
  BY <1>1, <1>3, <1>8, <1>9 DEF v, sent

LEMMA TransformCarried ==
    ASSUME TreeInv, StatusInv, DataInv, TypeInv, ElementsAgree,
           NEW cbfY \in BOOLEAN, NEW cbfC \in BOOLEAN, NEW later \in BOOLEAN,
           TransformUnit(cbfY, cbfC, later)
    PROVE  (StatusInv /\ DataInv /\ TypeInv /\ ElementsAgree)'
<1>0. PICK luma, chroma : luma = (cbfY \/ (cbfC /\ ~later)) /\ chroma = (cbfC /\ ~later)
  OBVIOUS
<1>1. PICK value \in IF OffsetSent(cbfC) THEN Offsets ELSE {enc.offset} :
        /\ qpStatus' = WithOffset(WithDelta(qpStatus), cbfC, value)
        /\ ConstructQps(luma, chroma, WithOffset(WithDelta(qpStatus), cbfC, value))
        /\ enc' = [enc EXCEPT !.sentDelta = @ \/ layout.delta,
                              !.sentOffset = @ \/ OffsetSent(cbfC),
                              !.offset = value]
  BY <1>0, Zenon DEF TransformUnit
<1>2. PICK status : status = WithOffset(WithDelta(qpStatus), cbfC, value)
  OBVIOUS
<1>3. /\ cu.open /\ cu.tus < MaxTus /\ layout' = layout /\ pending' = pending
      /\ cu' = [cu EXCEPT !.tus = @ + 1]
      /\ elements' =
          [sent |-> {e \in {"delta", "offset"} :
                       IF e = "delta" THEN layout.delta /\ ~enc.sentDelta ELSE OffsetSent(cbfC)},
           parsed |-> {e \in {"delta", "offset"} :
                         IF e = "delta" THEN layout.delta /\ ~qpStatus.isCuQpDeltaCoded
                                        ELSE offsetParsed(cbfC)}]
  BY DEF TransformUnit
<1>4. layout \in Layouts /\ cu \in OpenUnit /\ qpStatus \in Status /\ enc \in Encoder
      /\ luma \in BOOLEAN /\ chroma \in BOOLEAN
  BY <1>0 DEF TreeInv, KindsInv, TypeInv
<1>5. Inside(GroupDepth) /\ Inside(OffsetDepth)
  BY <1>3 DEF Inside
<1>6. DeltaKnown /\ OffsetKnown /\ qpStatus.qpYpred = enc.pred
  BY <1>5 DEF StatusInv
<1>7. value \in OffsetRange /\ (~OffsetSent(cbfC) => value = enc.offset)
  BY <1>1, <1>4 DEF OffsetRange, Encoder
<1>8. /\ offsetParsed(cbfC) <=> OffsetSent(cbfC)
      /\ qpStatus.isCuQpDeltaCoded = enc.sentDelta
      /\ status \in Status /\ status.qpYpred = enc.pred
      /\ status.isCuQpDeltaCoded = (enc.sentDelta \/ layout.delta)
      /\ status.cuQpDeltaVal = IF enc.sentDelta \/ layout.delta THEN EncDelta ELSE 0
      /\ status.isCuQpOffsetCoded = (enc.sentOffset \/ OffsetSent(cbfC))
      /\ status.cuQpOffset = value
  BY <1>2, <1>4, <1>6, <1>7, ParsedIs
<1>9. ElementsAgree'
  BY <1>3, <1>8 DEF ElementsAgree
<1>10. PICK sent \in BOOLEAN : sent = OffsetSent(cbfC)
  <2>1. OffsetSent(cbfC) \in BOOLEAN
    BY <1>4, Depths DEF OffsetSent
  <2> QED
    BY <2>1
<1>11. layout.delta \in BOOLEAN /\ layout.offsets \in BOOLEAN
  BY <1>4, Depths
<1>12. /\ enc' \in Encoder /\ enc'.cus = enc.cus /\ enc'.pred = enc.pred /\ enc'.target = enc.target
       /\ enc'.sentDelta = (enc.sentDelta \/ layout.delta)
       /\ enc'.sentOffset = (enc.sentOffset \/ sent) /\ enc'.offset = value
  <2>1. enc' = [enc EXCEPT !.sentDelta = @ \/ layout.delta, !.sentOffset = @ \/ sent, !.offset = value]
    BY <1>1, <1>10
  <2>2. enc' \in Encoder
    BY <2>1, <1>4, <1>7, <1>11 DEF Encoder
  <2>3. /\ enc'.cus = enc.cus /\ enc'.pred = enc.pred /\ enc'.target = enc.target
        /\ enc'.sentDelta = (enc.sentDelta \/ layout.delta)
        /\ enc'.sentOffset = (enc.sentOffset \/ sent) /\ enc'.offset = value
    BY <2>1, <1>4 DEF Encoder
  <2> QED
    BY <2>2, <2>3
<1>13. /\ cu' \in OpenUnit /\ cu'.at = cu.at /\ cu'.depth = cu.depth /\ cu'.bypass = cu.bypass
       /\ cu'.open
  <2>1. cu.tus \in 0 .. MaxTus /\ MaxTus \in Nat
    BY <1>4, QpsAssumption DEF OpenUnit
  <2>2. cu.tus + 1 \in 0 .. MaxTus
    BY <2>1, <1>3
  <2> DEFINE t == cu.tus + 1
  <2>3. cu' = [cu EXCEPT !.tus = t] /\ t \in 0 .. MaxTus
    BY <1>3, <2>2
  <2> HIDE DEF t
  <2>4. cu' \in OpenUnit
    BY <2>3, <1>4 DEF OpenUnit
  <2>5. cu'.at = cu.at /\ cu'.depth = cu.depth /\ cu'.bypass = cu.bypass /\ cu'.open = cu.open
    BY <2>3, <1>4 DEF OpenUnit
  <2> QED
    BY <2>4, <2>5, <1>3
<1>14. GroupDepth' = GroupDepth /\ OffsetDepth' = OffsetDepth /\ EncDelta' = EncDelta
       /\ EncQpY' = IF enc'.sentDelta THEN enc.target ELSE enc.pred
  BY <1>3, <1>12 DEF GroupDepth, OffsetDepth, EncDelta, EncQpY
<1>15. qpStatus' = status
  BY <1>1, <1>2
<1>16. DeltaKnown' /\ OffsetKnown'
  BY <1>8, <1>10, <1>12, <1>14, <1>15 DEF DeltaKnown, OffsetKnown
<1>17. StatusInv'
  <2>1. ~AtCorner(GroupDepth)' /\ ~AtCorner(OffsetDepth)'
    BY <1>13 DEF AtCorner
  <2>2. /\ ~layout.delta => ~enc'.sentDelta
        /\ ~layout.offsets => ~enc'.sentOffset
        /\ ~enc'.sentOffset => enc'.offset = 0
    <3>1. /\ ~layout.delta => ~enc.sentDelta
          /\ ~layout.offsets => ~enc.sentOffset /\ ~sent
          /\ ~enc.sentOffset => enc.offset = 0
      BY <1>10 DEF StatusInv, OffsetSent
    <3> QED
      BY <3>1, <1>7, <1>10, <1>12
  <2> QED
    BY <2>1, <2>2, <1>3, <1>8, <1>12, <1>15, <1>16 DEF StatusInv
<1>18. deriveQpY(status) = EncQpY' /\ deriveQpY(status) \in QpRange
  <2>1. enc.pred \in QpRange /\ enc.target \in QpRange
    BY <1>4 DEF Encoder
  <2>2. /\ status.cuQpDeltaVal = EncDelta => deriveQpY(status) = enc.target
        /\ status.cuQpDeltaVal = 0 => deriveQpY(status) = enc.pred
    BY <2>1, <1>8, QpDerived
  <2> QED
    BY <2>1, <2>2, <1>8, <1>12, <1>14
<1>19. /\ \A t \in DOMAIN ctus' : \A i \in DOMAIN ctus'[t] : ctus'[t][i] \in TreeNode
       /\ \A c \in Entries(enc.cus) : NodeOf(c)'.qpY = {c.qpY} /\ NodeOf(c)'.offset = {c.offset}
       /\ \A k : k.at = cu.at /\ k.depth = cu.depth =>
            /\ NodeOf(k)'.qpY = IF luma /\ NodeOf(cu).qpY = {} THEN {deriveQpY(status)} ELSE NodeOf(cu).qpY
            /\ NodeOf(k)'.offset = IF chroma /\ NodeOf(cu).offset = {} THEN {status.cuQpOffset}
                                   ELSE NodeOf(cu).offset
  <2>1. ConstructQps(luma, chroma, status) /\ status.cuQpOffset \in OffsetRange
    BY <1>1, <1>2, <1>7, <1>8
  <2> QED
    BY <2>1, <1>3, <1>4, <1>18, ConstructTyped
<1>20. DataInv'
  <2>1. PICK C, k, node, q, o : C = enc'.cus /\ k = cu' /\ node = NodeOf(k)'
                                /\ q = NodeOf(cu).qpY /\ o = NodeOf(cu).offset
    OBVIOUS
  <2>2. /\ node.qpY = IF luma /\ q = {} THEN {EncQpY'} ELSE q
        /\ node.offset = IF chroma /\ o = {} THEN {value} ELSE o
    BY <2>1, <1>8, <1>13, <1>18, <1>19
  <2>3. /\ q \subseteq {EncQpY} /\ (q # {} /\ layout.delta => enc.sentDelta)
        /\ o \subseteq {enc.offset}
        /\ o # {} => ~(layout.offsets /\ ~cu.bypass /\ ~enc.sentOffset)
    BY <2>1, <1>3 DEF DataInv
  <2>4. q # {} => EncQpY' = EncQpY
    <3>1. q # {} => enc'.sentDelta = enc.sentDelta
      BY <2>3, <1>4, <1>11, <1>12 DEF Encoder
    <3> QED
      BY <3>1, <1>14 DEF EncQpY
  <2>5. node.qpY \subseteq {EncQpY'}
    BY <2>2, <2>3, <2>4
  <2>6. node.qpY # {} /\ layout'.delta => enc'.sentDelta
    BY <1>3, <1>11, <1>12
  <2>7. o # {} => value = enc.offset
    <3>1. o # {} => ~OffsetSent(cbfC)
      BY <2>3 DEF OffsetSent
    <3> QED
      BY <3>1, <1>7
  <2>8. node.offset \subseteq {enc'.offset}
    BY <2>2, <2>3, <2>7, <1>12
  <2>9. node.offset # {} => ~(layout'.offsets /\ ~k.bypass /\ ~enc'.sentOffset)
    <3>1. chroma /\ layout.offsets /\ ~cu.bypass /\ ~enc.sentOffset => OffsetSent(cbfC)
      BY <1>0 DEF OffsetSent
    <3> QED
      BY <3>1, <2>1, <2>2, <2>3, <1>3, <1>10, <1>12, <1>13
  <2>10. \A c \in Entries(C) : NodeOf(c)'.qpY = {c.qpY} /\ NodeOf(c)'.offset = {c.offset}
    BY <2>1, <1>12, <1>19
  <2> QED
    BY <2>1, <2>5, <2>6, <2>8, <2>9, <2>10, DataNext
<1>21. TypeInv'
  BY <1>8, <1>12, <1>13, <1>15, <1>19 DEF TypeInv
<1> QED
  BY <1>9, <1>17, <1>20, <1>21

-------------------------------------------------------------------------------
LEMMA InitQps ==
    ASSUME Init
    PROVE  QpInv
<1>1. /\ layout \in Layouts /\ ctus = <<>> /\ pending = <<>> /\ cu = NoCu
      /\ qpStatus = [qpYpred |-> 0, isCuQpDeltaCoded |-> FALSE, cuQpDeltaVal |-> 0,
                     isCuQpOffsetCoded |-> FALSE, cuQpOffset |-> 0]
      /\ enc = [pred |-> 0, target |-> 0, sentDelta |-> FALSE, sentOffset |-> FALSE,
                offset |-> 0, cus |-> <<>>]
      /\ elements = [sent |-> {}, parsed |-> {}]
  BY DEF Init
<1>2. /\ enc.cus = <<>> /\ cu.open = FALSE
      /\ DOMAIN ctus = {} /\ DOMAIN pending = {} /\ DOMAIN enc.cus = {}
  BY <1>1 DEF NoCu
<1>3. Entries(enc.cus) = {} /\ Entries(pending) = {} /\ Later = {}
  BY <1>1, <1>2 DEF Entries, Later
<1>4. OrderInv
  BY <1>2, <1>3 DEF OrderInv, Ordered, Before
<1>5. GroupsInv(GroupDepth) /\ GroupsInv(OffsetDepth)
  BY <1>3 DEF GroupsInv
<1>6. \A d : ~Inside(d) /\ ~AtCorner(d)
  BY <1>1, <1>2 DEF Inside, AtCorner
<1>7. StatusInv
  <2>1. /\ qpStatus.qpYpred = enc.pred /\ ~enc.sentDelta /\ ~enc.sentOffset /\ enc.offset = 0
    BY <1>1
  <2> QED
    BY <2>1, <1>6 DEF StatusInv
<1>8. DataInv
  BY <1>2 DEF DataInv
<1>9. TypeInv
  <2>1. 0 \in QpRange /\ 0 \in DeltaRange /\ 0 \in OffsetRange /\ 0 \in 0 .. MaxTus
        /\ 0 \in 0 .. CtbDepth
    <3> DEFINE half == QpBdOffset \div 2
    <3>1. QpBdOffset \in Nat /\ MaxTus \in Nat /\ CtbDepth \in Nat /\ half \in Nat
      BY QpsAssumption, BlocksAssumption
    <3> HIDE DEF half
    <3>2. 0 \in -(26 + half) .. 25 + half
      BY <3>1
    <3>3. 0 \in DeltaRange
      BY <3>2 DEF DeltaRange, half
    <3> QED
      BY <3>1, <3>3 DEF QpRange, OffsetRange
  <2>2. <<0, 0>> \in Block
    BY BlocksAssumption DEF Block
  <2>3. cu \in OpenUnit
    BY <1>1, <2>1, <2>2 DEF NoCu, OpenUnit
  <2>4. qpStatus \in Status
    BY <1>1, <2>1 DEF Status
  <2>5. enc \in Encoder
    <3>1. <<>> \in CodedUnits
      BY DEF CodedUnits
    <3> QED
      BY <1>1, <2>1, <3>1 DEF Encoder
  <2> QED
    BY <1>2, <2>3, <2>4, <2>5 DEF TypeInv
<1>10. ElementsAgree
  BY <1>1 DEF ElementsAgree
<1> QED
  BY <1>4, <1>5, <1>7, <1>8, <1>9, <1>10 DEF QpInv

LEMMA StutterQps ==
    ASSUME TreeInv, QpInv, UNCHANGED vars
    PROVE  QpInv'
<1>1. /\ layout' = layout /\ ctus' = ctus /\ pending' = pending /\ cu' = cu
      /\ qpStatus' = qpStatus /\ enc' = enc /\ elements' = elements
  BY DEF vars
<1>2. OrderInv'
  BY <1>1, OrderKept DEF QpInv
<1>3. GroupsInv(GroupDepth)' /\ GroupsInv(OffsetDepth)'
  BY <1>1, LaterSame, GroupsKept DEF QpInv, TreeInv, KindsInv
<1>4. StatusInv'
  <2>1. GroupDepth' = GroupDepth /\ OffsetDepth' = OffsetDepth
    BY <1>1 DEF GroupDepth, OffsetDepth
  <2>2. StatusInv
    BY DEF QpInv
  <2> QED
    BY <1>1, <2>1, <2>2 DEF StatusInv, Inside, AtCorner, DeltaKnown, DeltaFresh, OffsetKnown,
                            OffsetFresh, EncDelta
<1>5. DataInv'
  <2>1. DataInv
    BY DEF QpInv
  <2>2. \A c : NodeOf(c)' = NodeOf(c)
    BY <1>1, ScanKept DEF NodeOf, TreeOf
  <2>3. PICK C, k, node : C = enc'.cus /\ k = cu' /\ node = NodeOf(k)'
    OBVIOUS
  <2>4. \A c \in Entries(C) : NodeOf(c)'.qpY = {c.qpY} /\ NodeOf(c)'.offset = {c.offset}
    BY <1>1, <2>1, <2>2, <2>3, DataNow
  <2>5. node = NodeOf(cu) /\ k = cu /\ EncQpY' = EncQpY
    BY <1>1, <2>2, <2>3 DEF EncQpY
  <2>6. k.open =>
          /\ node.qpY \subseteq {EncQpY'}
          /\ node.qpY # {} /\ layout'.delta => enc'.sentDelta
          /\ node.offset \subseteq {enc'.offset}
          /\ node.offset # {} => ~(layout'.offsets /\ ~k.bypass /\ ~enc'.sentOffset)
    BY <1>1, <2>1, <2>5 DEF DataInv
  <2> QED
    BY <2>3, <2>4, <2>6, DataNext
<1>6. TypeInv'
  BY <1>1 DEF QpInv, TypeInv
<1>7. ElementsAgree'
  BY <1>1 DEF QpInv, ElementsAgree
<1> QED
  BY <1>2, <1>3, <1>4, <1>5, <1>6, <1>7 DEF QpInv

LEMMA TransformQps ==
    ASSUME TreeInv, QpInv, NEW cbfY \in BOOLEAN, NEW cbfC \in BOOLEAN, NEW later \in BOOLEAN,
           TransformUnit(cbfY, cbfC, later)
    PROVE  QpInv'
<1>1. /\ layout' = layout /\ pending' = pending /\ cu' = [cu EXCEPT !.tus = @ + 1]
  BY DEF TransformUnit
<1>2. \E d, o, v : enc' = [enc EXCEPT !.sentDelta = d, !.sentOffset = o, !.offset = v]
  <2>1. PICK value :
          enc' = [enc EXCEPT !.sentDelta = @ \/ layout.delta,
                             !.sentOffset = @ \/ OffsetSent(cbfC),
                             !.offset = value]
    BY Zenon DEF TransformUnit
  <2> QED
    BY <2>1, Zenon
<1>3. cu'.at = cu.at /\ cu'.open = cu.open /\ enc'.cus = enc.cus
  BY <1>1, <1>2 DEF TreeInv, KindsInv
<1>4. OrderInv'
  BY <1>1, <1>3, OrderKept DEF QpInv
<1>5. GroupsInv(GroupDepth)' /\ GroupsInv(OffsetDepth)'
  BY <1>1, <1>3, LaterSame, GroupsKept DEF QpInv, TreeInv, KindsInv
<1>6. (StatusInv /\ DataInv /\ TypeInv /\ ElementsAgree)'
  BY TransformCarried DEF QpInv
<1> QED
  BY <1>4, <1>5, <1>6 DEF QpInv

LEMMA NextQps ==
    ASSUME TreeInv, QpInv, [Next]_vars
    PROVE  QpInv'
<1>1. layout \in Layouts
  BY DEF TreeInv, KindsInv
<1>2. CASE CodingTreeUnit
  <2>1. layout' = layout
    BY <1>2 DEF CodingTreeUnit
  <2>2. OrderInv' /\ (StatusInv /\ DataInv /\ TypeInv /\ ElementsAgree)'
    BY <1>2, UnitOrdered, UnitCarried DEF QpInv
  <2>3. GroupsInv(GroupDepth)' /\ GroupsInv(OffsetDepth)'
    BY <1>1, <1>2, <2>1, UnitLater, GroupsKept DEF QpInv
  <2> QED
    BY <2>2, <2>3 DEF QpInv
<1>3. CASE Split
  <2>1. layout' = layout
    BY <1>3 DEF Split
  <2>2. OrderInv' /\ (StatusInv /\ DataInv /\ TypeInv /\ ElementsAgree)'
    BY <1>3, SplitOrdered, SplitCarried DEF QpInv
  <2>3. GroupsInv(GroupDepth)' /\ GroupsInv(OffsetDepth)'
    BY <1>1, <1>3, <2>1, SplitLater, GroupsKept DEF QpInv
  <2> QED
    BY <2>2, <2>3 DEF QpInv
<1>4. CASE CodingUnit
  <2>1. layout' = layout
    BY <1>4 DEF CodingUnit
  <2>2. OrderInv' /\ (StatusInv /\ DataInv /\ TypeInv /\ ElementsAgree)'
    BY <1>4, OpenedOrdered, OpenedCarried DEF QpInv
  <2>3. GroupsInv(GroupDepth)' /\ GroupsInv(OffsetDepth)'
    BY <1>1, <1>4, <2>1, OpenedLater, GroupsKept DEF QpInv
  <2> QED
    BY <2>2, <2>3 DEF QpInv
<1>5. ASSUME NEW cbfY \in BOOLEAN, NEW cbfC \in BOOLEAN, NEW later \in BOOLEAN,
             TransformUnit(cbfY, cbfC, later)
      PROVE  QpInv'
  BY <1>5, TransformQps
<1>6. CASE FinishCodingUnit
  <2>1. layout' = layout
    BY <1>6 DEF FinishCodingUnit
  <2>2. OrderInv' /\ (StatusInv /\ DataInv /\ TypeInv /\ ElementsAgree)'
    BY <1>6, FinishOrdered, FinishCarried DEF QpInv
  <2>3. GroupsInv(GroupDepth)' /\ GroupsInv(OffsetDepth)'
    BY <1>1, <1>6, <2>1, FinishLater, GroupsKept DEF QpInv
  <2> QED
    BY <2>2, <2>3 DEF QpInv
<1>7. CASE Done
  BY <1>7, StutterQps DEF Done
<1>8. CASE UNCHANGED vars
  BY <1>8, StutterQps
<1> QED
  BY <1>2, <1>3, <1>4, <1>5, <1>6, <1>7, <1>8 DEF Next

(* In every reachable state the decoder knows of its quantization groups   *)
(* what the encoder sent, its prediction is the encoder's, and the trees   *)
(* hold the encoder's parameters (State.cpp, TransformUnit.cpp,            *)
(* QuantizationParameters.cpp).                                            *)
THEOREM QpsAlwaysKnown == Spec => [](TreeInv /\ QpInv)
<1>1. Init => QpInv
  BY InitQps
<1>2. TreeInv /\ QpInv /\ [Next]_vars => QpInv'
  BY NextQps
<1>3. Spec => []TreeInv
  BY TreesCovered
<1> QED
  BY <1>1, <1>2, <1>3, PTL DEF Spec

(* Every coding unit, whenever it is looked up and at any of its blocks,   *)
(* has the QP and the chroma offset the encoder coded it with, for every   *)
(* size of the picture, the coding tree units and the groups, and whatever *)
(* slices, tiles and wavefronts the picture has                            *)
(* (QuantizationParameters.cpp, State.cpp, Picture.cpp).                   *)
THEOREM QpsAlwaysAgree == Spec => []QpsAgree
<1>1. TreeInv /\ QpInv => QpsAgree
  BY QpsFound DEF QpInv
<1> QED
  BY <1>1, QpsAlwaysKnown, PTL

(* cu_qp_delta_abs and cu_chroma_qp_offset_flag are parsed where they were *)
(* sent, and split_cu_flag in the context it was coded in                  *)
(* (TransformUnit.cpp, CodingQuadTree.cpp).                                *)
THEOREM ElementsAlwaysAgree == Spec => []ElementsAgree
<1>1. TreeInv /\ QpInv => ElementsAgree
  BY DEF QpInv
<1> QED
  BY <1>1, QpsAlwaysKnown, PTL

(* Every variable of a picture's coding keeps its type: no difference of   *)
(* QPs and no QP leaves its range (QuantizationParameters.cpp).            *)
THEOREM CodingTreeTyped == Spec => []TypeOK
<1>1. ASSUME TreeInv, QpInv PROVE TypeOK
  <2>1. /\ layout \in Layouts /\ Len(ctus) <= Width * Height
        /\ pending \in Seq([at : Block, depth : 0 .. CtbDepth])
    BY <1>1 DEF TreeInv, KindsInv
  <2>2. /\ \A t \in DOMAIN ctus : \A i \in DOMAIN ctus[t] : ctus[t][i] \in TreeNode
        /\ cu \in OpenUnit /\ qpStatus \in Status
    BY <1>1 DEF QpInv, TypeInv
  <2>3. \A t \in DOMAIN ctus : \A i \in DOMAIN ctus[t] :
          /\ ctus[t][i].depth \in 0 .. CtbDepth /\ ctus[t][i].split \in BOOLEAN
          /\ ctus[t][i].qpY \subseteq QpRange /\ ctus[t][i].offset \subseteq Offsets \cup {0}
    BY <2>2 DEF TreeNode, OffsetRange
  <2>4. \A i \in DOMAIN pending : pending[i].at \in Block /\ pending[i].depth \in 0 .. CtbDepth
    <3>1. pending \in Seq(NodeSet)
      BY <2>1 DEF NodeSet
    <3>2. \A i \in DOMAIN pending : pending[i] \in NodeSet
      BY <3>1
    <3> QED
      BY <3>2 DEF NodeSet
  <2>5. cu.at \in Block /\ cu.tus \in 0 .. MaxTus /\ qpStatus.cuQpDeltaVal \in DeltaRange
    BY <2>2 DEF OpenUnit, Status
  <2> QED
    BY <2>1, <2>3, <2>4, <2>5 DEF TypeOK, DeltaRange
<1> QED
  BY <1>1, QpsAlwaysKnown, PTL
===============================================================================

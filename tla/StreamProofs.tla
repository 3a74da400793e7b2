----------------------------- MODULE StreamProofs -----------------------------
(***************************************************************************)
(* Every NAL unit comes out of the file as it was put in, for units of any *)
(* length and any zeros around them.                                       *)
(*                                                                         *)
(* The writer is taken byte by byte (Encodes: where each byte of a unit    *)
(* is written), the file unit by unit (Layout, Piece: the zeros, the start *)
(* code, what was written for the unit, more zeros), and the parser is     *)
(* followed through one piece (InUnit).                                    *)
(***************************************************************************)
EXTENDS ByteStream, SequenceTheorems, WellFoundedInduction, TLAPS


-------------------------------------------------------------------------------
(* Induction.  A set of natural numbers has a least element, so a claim    *)
(* with a counterexample has a first one.                                  *)
LEMMA LeastOf ==
    ASSUME NEW T \in SUBSET Nat, T # {}
    PROVE  \E x \in T : \A y \in T : x <= y
<1> DEFINE R == {ss \in Nat \X Nat : ss[1] < ss[2]}
<1>1. IsWellFoundedOn(R, Nat)
  BY NatLessThanWellFounded, Zenon DEF OpToRel
<1>2. \A a, b \in Nat : <<a, b>> \notin R => b <= a
  OBVIOUS
<1> HIDE DEF R
<1>3. PICK x \in T : \A y \in T : <<y, x>> \notin R
  BY <1>1, WFMin, Zenon
<1>4. ASSUME NEW y \in T PROVE x <= y
  BY <1>2, <1>3, Zenon
<1> QED
  BY <1>4

(* A set that holds 0 and, below n, the successor of each of its members   *)
(* holds every number up to n.                                             *)
LEMMA StepByStep ==
    ASSUME NEW n \in Nat, NEW S, 0 \in S, \A k \in 0 .. n - 1 : k \in S => k + 1 \in S
    PROVE  \A k \in 0 .. n : k \in S
<1> SUFFICES ASSUME NEW j \in 0 .. n, j \notin S PROVE FALSE
  OBVIOUS
<1> DEFINE T == {k \in 0 .. n : k \notin S}
<1>1. T \in SUBSET Nat /\ j \in T
  OBVIOUS
<1>2. PICK k \in T : \A y \in T : k <= y
  BY <1>1, LeastOf
<1>3. k \in 0 .. n /\ k \notin S /\ k # 0
  OBVIOUS
<1>4. k - 1 \in 0 .. n - 1 /\ k - 1 \in 0 .. n /\ (k - 1) + 1 = k /\ ~(k <= k - 1)
  BY <1>3
<1>5. k - 1 \in S
  BY <1>2, <1>4
<1> QED
  BY <1>3, <1>4, <1>5

-------------------------------------------------------------------------------
(* What the patterns mean, byte by byte.                                   *)
ZerosAt(s, k) == k >= 2 /\ s[k - 1] = 0 /\ s[k] = 0

(* IsPrefix and IsSuffix, element by element.                              *)
LEMMA PrefixOf ==
    ASSUME NEW S, NEW p \in Seq(S), NEW s \in Seq(S)
    PROVE  IsPrefix(p, s) <=> Len(p) <= Len(s) /\ \A j \in 1 .. Len(p) : p[j] = s[j]
<1> DEFINE n == Len(p)
<1>1. n \in Nat /\ Len(s) \in Nat
  OBVIOUS
<1> SUFFICES ASSUME n <= Len(s)
             PROVE  SubSeq(p, 1, n) = SubSeq(s, 1, n) <=> \A j \in 1 .. n : p[j] = s[j]
  BY DEF IsPrefix
<1>2. \A j \in 1 .. n : p[j] \in S /\ s[j] \in S
  BY <1>1
<1> HIDE DEF n
<1>3. /\ SubSeq(p, 1, n) \in Seq(S) /\ Len(SubSeq(p, 1, n)) = n
      /\ \A j \in 1 .. n : SubSeq(p, 1, n)[j] = p[j]
  BY <1>1, <1>2, SubSeqProperties
<1>4. /\ SubSeq(s, 1, n) \in Seq(S) /\ Len(SubSeq(s, 1, n)) = n
      /\ \A j \in 1 .. n : SubSeq(s, 1, n)[j] = s[j]
  BY <1>1, <1>2, SubSeqProperties
<1> DEFINE a == SubSeq(p, 1, n)
           b == SubSeq(s, 1, n)
<1> HIDE DEF a, b
<1>5. (\A j \in 1 .. n : a[j] = b[j]) => a = b
  BY <1>3, <1>4, SeqEqual DEF a, b
<1>6. a = b => \A j \in 1 .. n : a[j] = b[j]
  OBVIOUS
<1> QED
  BY <1>3, <1>4, <1>5, <1>6 DEF a, b

(* The same for bytes.                                                     *)
LEMMA PrefixIs ==
    ASSUME NEW p \in Seq(Nat), NEW s \in Seq(Nat)
    PROVE  IsPrefix(p, s) <=> Len(p) <= Len(s) /\ \A j \in 1 .. Len(p) : p[j] = s[j]
  BY PrefixOf, Zenon

(* A pattern at the end of a sequence.                                     *)
LEMMA SuffixIs ==
    ASSUME NEW p \in Seq(Nat), NEW s \in Seq(Nat)
    PROVE  IsSuffix(p, s) <=> /\ Len(p) <= Len(s)
                              /\ \A j \in 1 .. Len(p) : p[j] = s[Len(s) - Len(p) + j]
<1>1. Len(p) \in Nat /\ Len(s) \in Nat
  OBVIOUS
<1>2. /\ Reverse(p) \in Seq(Nat) /\ Len(Reverse(p)) = Len(p)
      /\ \A j \in 1 .. Len(p) : Reverse(p)[j] = p[(Len(p) - j) + 1]
  BY DEF Reverse
<1>3. /\ Reverse(s) \in Seq(Nat) /\ Len(Reverse(s)) = Len(s)
      /\ \A j \in 1 .. Len(s) : Reverse(s)[j] = s[(Len(s) - j) + 1]
  BY DEF Reverse
<1>4. IsSuffix(p, s) <=> /\ Len(p) <= Len(s)
                         /\ \A j \in 1 .. Len(p) : Reverse(p)[j] = Reverse(s)[j]
  BY <1>2, <1>3, PrefixIs DEF IsSuffix
<1>5. ASSUME Len(p) <= Len(s), \A j \in 1 .. Len(p) : p[j] = s[Len(s) - Len(p) + j], NEW j \in 1 .. Len(p)
      PROVE  Reverse(p)[j] = Reverse(s)[j]
  <2>1. (Len(p) - j) + 1 \in 1 .. Len(p) /\ j \in 1 .. Len(s)
    BY <1>1, <1>5
  <2>2. Len(s) - Len(p) + ((Len(p) - j) + 1) = (Len(s) - j) + 1
    BY <1>1
  <2> QED
    BY <1>2, <1>3, <1>5, <2>1, <2>2
<1>6. ASSUME Len(p) <= Len(s), \A j \in 1 .. Len(p) : Reverse(p)[j] = Reverse(s)[j], NEW j \in 1 .. Len(p)
      PROVE  p[j] = s[Len(s) - Len(p) + j]
  <2> DEFINE k == (Len(p) - j) + 1
  <2>1. k \in 1 .. Len(p) /\ k \in 1 .. Len(s)
    BY <1>1, <1>6
  <2>2. (Len(p) - k) + 1 = j /\ (Len(s) - k) + 1 = Len(s) - Len(p) + j
    BY <1>1
  <2> QED
    BY <1>2, <1>3, <1>6, <2>1, <2>2
<1> QED
  BY <1>4, <1>5, <1>6

(* TwoZeros, at the last two bytes.                                        *)
LEMMA TwoZerosAre ==
    ASSUME NEW s \in Seq(Nat)
    PROVE  TwoZeros(s) <=> ZerosAt(s, Len(s))
<1> DEFINE p == <<0, 0>>
<1>1. p \in Seq(Nat) /\ Len(p) = 2 /\ p[1] = 0 /\ p[2] = 0 /\ Len(s) \in Nat
  OBVIOUS
<1> HIDE DEF p
<1>2. TwoZeros(s) <=> 2 <= Len(s) /\ \A j \in 1 .. 2 : p[j] = s[Len(s) - 2 + j]
  BY <1>1, SuffixIs DEF TwoZeros, p
<1>3. Len(s) - 2 + 1 = Len(s) - 1 /\ Len(s) - 2 + 2 = Len(s) /\ 1 .. 2 = {1, 2}
  BY <1>1
<1> QED
  BY <1>1, <1>2, <1>3 DEF ZerosAt

(* The start code of three bytes, at the last three.                       *)
LEMMA StartCodeIs ==
    ASSUME NEW s \in Seq(Nat)
    PROVE  IsSuffix(scp24, s) <=> ZerosAt(s, Len(s) - 1) /\ s[Len(s)] = 1
<1> DEFINE p == scp24
<1>1. p \in Seq(Nat) /\ Len(p) = 3 /\ p[1] = 0 /\ p[2] = 0 /\ p[3] = 1 /\ Len(s) \in Nat
  BY DEF scp24
<1> HIDE DEF p
<1>2. IsSuffix(p, s) <=> 3 <= Len(s) /\ \A j \in 1 .. 3 : p[j] = s[Len(s) - 3 + j]
  <2>1. IsSuffix(p, s) <=> /\ Len(p) <= Len(s)
                           /\ \A j \in 1 .. Len(p) : p[j] = s[Len(s) - Len(p) + j]
    BY <1>1, SuffixIs, Zenon
  <2> QED
    BY <2>1, <1>1
<1>3. /\ Len(s) - 3 + 1 = (Len(s) - 1) - 1 /\ Len(s) - 3 + 2 = Len(s) - 1 /\ Len(s) - 3 + 3 = Len(s)
      /\ 1 .. 3 = {1, 2, 3} /\ (3 <= Len(s) <=> Len(s) - 1 >= 2)
  BY <1>1
<1> QED
  BY <1>1, <1>2, <1>3 DEF ZerosAt, p

(* A pattern of three bytes at the front of the output.                    *)
LEMMA ThreePeeked ==
    ASSUME NEW a \in Nat, NEW b \in Nat, NEW c \in Nat, output \in Seq(Nat)
    PROVE  Peeked(<<a, b, c>>)
             <=> Len(output) >= 3 /\ output[1] = a /\ output[2] = b /\ output[3] = c
<1> DEFINE p == <<a, b, c>>
<1>1. p \in Seq(Nat) /\ Len(p) = 3 /\ p[1] = a /\ p[2] = b /\ p[3] = c /\ 1 .. 3 = {1, 2, 3}
  OBVIOUS
<1>2. Len(output) \in Nat
  OBVIOUS
<1> HIDE DEF p
<1>3. IsPrefix(p, output) <=> 3 <= Len(output) /\ \A j \in 1 .. 3 : p[j] = output[j]
  BY <1>1, PrefixIs
<1> QED
  BY <1>1, <1>2, <1>3 DEF Peeked, p

(* A pattern of four bytes at the front of the output.                     *)
LEMMA FourPeeked ==
    ASSUME output \in Seq(Nat)
    PROVE  Peeked(scp32) <=> /\ Len(output) >= 4 /\ output[1] = 0 /\ output[2] = 0
                             /\ output[3] = 0 /\ output[4] = 1
<1> DEFINE p == scp32
<1>1. p \in Seq(Nat) /\ Len(p) = 4 /\ p[1] = 0 /\ p[2] = 0 /\ p[3] = 0 /\ p[4] = 1 /\ 1 .. 4 = {1, 2, 3, 4}
  BY DEF scp32
<1>2. Len(output) \in Nat
  OBVIOUS
<1> HIDE DEF p
<1>3. IsPrefix(p, output) <=> 4 <= Len(output) /\ \A j \in 1 .. 4 : p[j] = output[j]
  BY <1>1, PrefixIs
<1> QED
  BY <1>1, <1>2, <1>3 DEF Peeked, p

-------------------------------------------------------------------------------
(* The writer.  The recursive definition has a solution.                   *)
WrittenTo(unit, k, w) ==
    w = [n \in 0 .. k |-> IF n = 0 THEN <<>>
                          ELSE IF TwoZeros(w[n - 1]) /\ unit[n] <= 3
                                 THEN w[n - 1] \o <<3, unit[n]>>
                                 ELSE Append(w[n - 1], unit[n])]

(* For every number of bytes there is a sequence of the right results:     *)
(* each is made of the one before.                                         *)
LEMMA WrittenExists ==
    ASSUME NEW unit \in Seq(Nat)
    PROVE  \E w : WrittenTo(unit, Len(unit), w)
<1> DEFINE N == Len(unit)
           S == {k \in Nat : \E w : WrittenTo(unit, k, w)}
           More(w, n) == IF TwoZeros(w) /\ unit[n] <= 3 THEN w \o <<3, unit[n]>>
                         ELSE Append(w, unit[n])
<1>1. N \in Nat
  OBVIOUS
<1>w. \A k, w : WrittenTo(unit, k, w) <=>
                  w = [n \in 0 .. k |-> IF n = 0 THEN <<>> ELSE More(w[n - 1], n)]
  BY DEF WrittenTo
<1> HIDE DEF More
<1>2. 0 \in S
  <2> DEFINE w == [n \in 0 .. 0 |-> <<>>]
  <2>1. w = [n \in 0 .. 0 |-> IF n = 0 THEN <<>> ELSE More(w[n - 1], n)]
    OBVIOUS
  <2> HIDE DEF w
  <2> QED
    BY <2>1, <1>w
<1>3. ASSUME NEW k \in 0 .. N - 1, k \in S PROVE k + 1 \in S
  <2>1. PICK w : w = [n \in 0 .. k |-> IF n = 0 THEN <<>> ELSE More(w[n - 1], n)]
    BY <1>3, <1>w
  <2> DEFINE v == [n \in 0 .. k + 1 |-> IF n = k + 1 THEN More(w[k], k + 1) ELSE w[n]]
             f == [n \in 0 .. k + 1 |-> IF n = 0 THEN <<>> ELSE More(v[n - 1], n)]
  <2>2. \A n \in 0 .. k : w[n] = IF n = 0 THEN <<>> ELSE More(w[n - 1], n)
    BY <2>1
  <2>3. ASSUME NEW n \in 0 .. k + 1 PROVE v[n] = f[n]
    <3>1. CASE n = k + 1
      <4>1. v[n] = More(w[k], n) /\ v[n - 1] = w[k] /\ n # 0
        BY <3>1, <1>1
      <4> QED
        BY <4>1
    <3>2. CASE n = 0
      <4>1. 0 \in 0 .. k /\ 0 # k + 1
        BY <1>1
      <4>2. v[0] = w[0] /\ w[0] = <<>> /\ f[0] = <<>>
        BY <4>1, <2>2, <1>1
      <4> QED
        BY <3>2, <4>2
    <3>3. CASE n \in 1 .. k
      <4>1. v[n] = w[n] /\ v[n - 1] = w[n - 1] /\ n # 0 /\ n \in 0 .. k
        BY <3>3, <1>1
      <4> QED
        BY <4>1, <2>2
    <3> QED
      BY <3>1, <3>2, <3>3, <1>1
  <2>4. v = f
    BY <2>3, Zenon
  <2>5. \E x : x = [n \in 0 .. k + 1 |-> IF n = 0 THEN <<>> ELSE More(x[n - 1], n)]
    BY <2>4
  <2>6. \E x : WrittenTo(unit, k + 1, x)
    BY <2>5, <1>w, Zenon
  <2> QED
    BY <2>6, <1>1
<1>4. \A k \in 0 .. N - 1 : k \in S => k + 1 \in S
  BY <1>3
<1> HIDE DEF S, N
<1>5. \A k \in 0 .. N : k \in S
  BY <1>1, <1>2, <1>4, StepByStep, Zenon
<1>6. N \in S
  BY <1>1, <1>5
<1> QED
  BY <1>6 DEF S, N

(* So what Written says of its steps holds.                                *)
LEMMA WrittenIs ==
    ASSUME NEW unit \in Seq(Nat)
    PROVE  /\ Written(unit)[0] = <<>>
           /\ \A n \in 1 .. Len(unit) :
                Written(unit)[n] = IF TwoZeros(Written(unit)[n - 1]) /\ unit[n] <= 3
                                     THEN Written(unit)[n - 1] \o <<3, unit[n]>>
                                     ELSE Append(Written(unit)[n - 1], unit[n])
<1> DEFINE w == Written(unit)
<1>1. WrittenTo(unit, Len(unit), w)
  BY WrittenExists DEF WrittenTo, Written
<1> HIDE DEF w
<1>2. \A n \in 0 .. Len(unit) :
        w[n] = IF n = 0 THEN <<>>
               ELSE IF TwoZeros(w[n - 1]) /\ unit[n] <= 3
                      THEN w[n - 1] \o <<3, unit[n]>>
                      ELSE Append(w[n - 1], unit[n])
  BY <1>1, Zenon DEF WrittenTo
<1>3. Len(unit) \in Nat
  OBVIOUS
<1>4. 0 \in 0 .. Len(unit) /\ \A n \in 1 .. Len(unit) : n \in 0 .. Len(unit) /\ n # 0
  BY <1>3
<1>5. w[0] = <<>>
  BY <1>2, <1>4, Zenon
<1>6. \A n \in 1 .. Len(unit) :
        w[n] = IF TwoZeros(w[n - 1]) /\ unit[n] <= 3
                 THEN w[n - 1] \o <<3, unit[n]>>
                 ELSE Append(w[n - 1], unit[n])
  BY <1>2, <1>4, Zenon
<1> QED
  BY <1>5, <1>6 DEF w

(* How the bytes of a unit lie in what is written for it: byte n at pos[n],*)
(* the last of one or, where two zeros precede a byte up to 3, two bytes.  *)
Escape(unit, P, pos, n) == ZerosAt(P, pos[n - 1]) /\ unit[n] <= 3
Escaped(unit, P, pos, k) ==
    /\ P \in Seq(Nat)
    /\ pos \in [0 .. Len(unit) -> Nat]
    /\ pos[0] = 0
    /\ \A n \in 0 .. k : pos[n] <= Len(P)
    /\ \A n \in 1 .. k :
         /\ pos[n] = pos[n - 1] + (IF Escape(unit, P, pos, n) THEN 2 ELSE 1)
         /\ P[pos[n]] = unit[n]
         /\ Escape(unit, P, pos, n) => P[pos[n - 1] + 1] = 3

(* One byte more: the positions of the bytes before it stay.               *)
LEMMA EscapedLonger ==
    ASSUME NEW unit \in Seq(Nat), NEW k \in 0 .. Len(unit), NEW pos, NEW P, Escaped(unit, P, pos, k),
           NEW Q \in Seq(Nat), Len(P) <= Len(Q), \A j \in 1 .. Len(P) : Q[j] = P[j]
    PROVE  Escaped(unit, Q, pos, k)
<1>a. /\ P \in Seq(Nat) /\ pos \in [0 .. Len(unit) -> Nat] /\ pos[0] = 0
      /\ \A n \in 0 .. k : pos[n] <= Len(P)
  BY DEF Escaped
<1>b. Len(unit) \in Nat /\ Len(P) \in Nat /\ Len(Q) \in Nat
  BY <1>a
<1>c. \A n \in 0 .. k : n \in 0 .. Len(unit)
  BY <1>b
<1>1. /\ Len(unit) \in Nat /\ Len(P) \in Nat /\ Len(Q) \in Nat
      /\ pos \in [0 .. Len(unit) -> Nat] /\ pos[0] = 0
      /\ \A n \in 0 .. k : n \in 0 .. Len(unit) /\ pos[n] \in Nat /\ pos[n] <= Len(P)
  BY <1>a, <1>b, <1>c
<1>2. ASSUME NEW n \in 1 .. k
      PROVE  /\ pos[n] = pos[n - 1] + (IF Escape(unit, Q, pos, n) THEN 2 ELSE 1)
             /\ Q[pos[n]] = unit[n]
             /\ Escape(unit, Q, pos, n) => Q[pos[n - 1] + 1] = 3
  <2>1. n \in 0 .. k /\ n - 1 \in 0 .. k
    BY <1>1
  <2>2. /\ pos[n] = pos[n - 1] + (IF Escape(unit, P, pos, n) THEN 2 ELSE 1)
        /\ P[pos[n]] = unit[n]
        /\ Escape(unit, P, pos, n) => P[pos[n - 1] + 1] = 3
    BY DEF Escaped
  <2> DEFINE a == pos[n - 1]
             b == pos[n]
  <2>a. a \in Nat /\ b \in Nat /\ a <= Len(P) /\ b <= Len(P) /\ (b = a + 1 \/ b = a + 2)
    BY <2>1, <2>2, <1>1
  <2> HIDE DEF a, b
  <2>b. /\ b \in 1 .. Len(P) /\ a \in 0 .. Len(P) /\ a + 1 \in 1 .. Len(P)
        /\ a >= 2 => a \in 1 .. Len(P) /\ a - 1 \in 1 .. Len(P)
    BY <2>a, <1>b
  <2>3. pos[n] \in 1 .. Len(P) /\ pos[n - 1] \in 0 .. Len(P) /\ pos[n - 1] + 1 \in 1 .. Len(P)
    BY <2>b DEF a, b
  <2>4. pos[n - 1] >= 2 => pos[n - 1] \in 1 .. Len(P) /\ pos[n - 1] - 1 \in 1 .. Len(P)
    BY <2>b DEF a
  <2>5. Escape(unit, Q, pos, n) <=> Escape(unit, P, pos, n)
    BY <2>4 DEF Escape, ZerosAt
  <2> QED
    BY <2>2, <2>3, <2>5
<1>3. \A n \in 0 .. k : pos[n] <= Len(Q)
  BY <1>1
<1> QED
  BY <1>1, <1>2, <1>3 DEF Escaped

(* A step of Written appends one byte or, after two zeros and before a     *)
(* byte up to 3, a 3 and the byte.                                         *)
LEMMA WrittenGrows ==
    ASSUME NEW unit \in Seq(Nat), NEW n \in 1 .. Len(unit), Written(unit)[n - 1] \in Seq(Nat)
    PROVE  LET v == Written(unit)[n - 1]
               w == Written(unit)[n]
               more == TwoZeros(v) /\ unit[n] <= 3
           IN  /\ w \in Seq(Nat)
               /\ Len(w) = Len(v) + (IF more THEN 2 ELSE 1)
               /\ w[Len(w)] = unit[n]
               /\ \A j \in 1 .. Len(v) : w[j] = v[j]
               /\ more => w[Len(v) + 1] = 3
<1> DEFINE v == Written(unit)[n - 1]
           w == Written(unit)[n]
           more == TwoZeros(v) /\ unit[n] <= 3
           u == unit[n]
<1>1. w = IF more THEN v \o <<3, u>> ELSE Append(v, u)
  BY WrittenIs
<1>2. u \in Nat /\ v \in Seq(Nat) /\ Len(v) \in Nat
  OBVIOUS
<1> HIDE DEF v, w, more, u
<1>3. CASE more
  <2> DEFINE e == <<3, u>>
  <2>1. e \in Seq(Nat) /\ Len(e) = 2 /\ e[1] = 3 /\ e[2] = u
    BY <1>2
  <2> HIDE DEF e
  <2>2. /\ v \o e \in Seq(Nat) /\ Len(v \o e) = Len(v) + 2
        /\ \A j \in 1 .. Len(v) + 2 : (v \o e)[j] = IF j <= Len(v) THEN v[j] ELSE e[j - Len(v)]
    <3>1. /\ v \o e \in Seq(Nat) /\ Len(v \o e) = Len(v) + Len(e)
          /\ \A j \in 1 .. Len(v) + Len(e) : (v \o e)[j] = IF j <= Len(v) THEN v[j] ELSE e[j - Len(v)]
      BY <1>2, <2>1, ConcatProperties, Zenon
    <3> QED
      BY <3>1, <2>1
  <2>3. w = v \o e
    BY <1>1, <1>3 DEF e
  <2>4. \A j \in 1 .. Len(v) : w[j] = v[j]
    BY <2>2, <2>3, <1>2
  <2>5. w[Len(v) + 1] = 3 /\ w[Len(v) + 2] = u
    BY <2>1, <2>2, <2>3, <1>2
  <2> QED
    BY <1>3, <2>2, <2>3, <2>4, <2>5 DEF v, w, more, u
<1>4. CASE ~more
  <2>1. w = Append(v, u)
    BY <1>1, <1>4
  <2>2. /\ w \in Seq(Nat) /\ Len(w) = Len(v) + 1 /\ w[Len(v) + 1] = u
        /\ \A j \in 1 .. Len(v) : w[j] = v[j]
    BY <2>1, <1>2, AppendProperties
  <2> QED
    BY <1>4, <2>2 DEF v, w, more, u
<1> QED
  BY <1>3, <1>4

(* By induction over its steps, what Written returns for n bytes has each  *)
(* of them at its position.                                                *)
LEMMA WrittenEscapes ==
    ASSUME NEW unit \in Seq(Nat)
    PROVE  LET w == Written(unit)
               pos == [n \in 0 .. Len(unit) |-> Len(w[n])]
           IN  Escaped(unit, w[Len(unit)], pos, Len(unit))
<1> DEFINE w == Written(unit)
           N == Len(unit)
           pos == [n \in 0 .. N |-> Len(w[n])]
           S == {k \in 0 .. N : w[k] \in Seq(Nat)}
           T == {k \in 0 .. N : Escaped(unit, w[k], pos, k)}
<1>1. N \in Nat /\ w[0] = <<>>
  BY WrittenIs
<1>2. 0 \in S
  <2>1. 0 \in 0 .. N /\ <<>> \in Seq(Nat)
    BY <1>1
  <2> QED
    BY <2>1, <1>1
<1>3. ASSUME NEW k \in 0 .. N - 1, k \in S PROVE k + 1 \in S
  <2>1. k + 1 \in 1 .. N /\ (k + 1) - 1 = k /\ k + 1 \in 0 .. N
    BY <1>1
  <2>2. Written(unit)[k + 1] \in Seq(Nat)
    BY <1>3, <2>1, WrittenGrows, Zenon
  <2> QED
    BY <2>1, <2>2
<1> HIDE DEF N
<1>4. \A k \in 0 .. N : k \in S
  <2> HIDE DEF S
  <2> QED
    BY <1>1, <1>2, <1>3, StepByStep, Zenon
<1>5. \A k \in 0 .. N : w[k] \in Seq(Nat)
  BY <1>4
<1>6. pos \in [0 .. N -> Nat]
  BY <1>5
<1>7. \A n \in 0 .. N : pos[n] = Len(w[n])
  OBVIOUS
<1> HIDE DEF w, pos, S
<1>8. 0 \in T
  <2>1. pos[0] = 0 /\ w[0] \in Seq(Nat) /\ Len(w[0]) = 0
    BY <1>1, <1>7
  <2>2. Escaped(unit, w[0], pos, 0)
    BY <2>1, <1>6 DEF Escaped, N
  <2> QED
    BY <2>2, <1>1
<1>9. ASSUME NEW k \in 0 .. N - 1, k \in T PROVE k + 1 \in T
  <2> DEFINE m == k + 1
  <2>1. m \in 1 .. N /\ m - 1 = k /\ m \in 0 .. N /\ k \in 0 .. N
    BY <1>1
  <2>2. /\ w[m] \in Seq(Nat) /\ w[k] \in Seq(Nat)
        /\ Len(w[m]) = Len(w[k]) + (IF TwoZeros(w[k]) /\ unit[m] <= 3 THEN 2 ELSE 1)
        /\ w[m][Len(w[m])] = unit[m]
        /\ \A j \in 1 .. Len(w[k]) : w[m][j] = w[k][j]
        /\ TwoZeros(w[k]) /\ unit[m] <= 3 => w[m][Len(w[k]) + 1] = 3
    <3>1. m \in 1 .. Len(unit) /\ Written(unit)[m - 1] \in Seq(Nat)
      BY <2>1, <1>5 DEF w, N
    <3> HIDE DEF m
    <3> QED
      BY <3>1, <2>1, <1>5, WrittenGrows DEF w
  <2>3. pos[m] = Len(w[m]) /\ pos[k] = Len(w[k]) /\ pos[m] \in Nat /\ pos[k] \in Nat
    BY <1>7, <1>5, <2>1
  <2>a. pos[k] <= pos[m]
    <3>1. Len(w[m]) = Len(w[k]) + 2 \/ Len(w[m]) = Len(w[k]) + 1
      BY <2>2
    <3>2. pos[m] = pos[k] + 2 \/ pos[m] = pos[k] + 1
      BY <3>1, <2>3
    <3> QED
      BY <2>3, <3>2
  <2>4. Escaped(unit, w[k], pos, k)
    BY <1>9
  <2> HIDE DEF m
  <2>5. Escaped(unit, w[m], pos, k)
    <3>1. k \in 0 .. Len(unit) /\ Len(w[k]) <= Len(w[m])
      BY <2>1, <2>3, <2>a DEF N
    <3> QED
      BY <3>1, <2>2, <2>4, EscapedLonger
  <2>6. TwoZeros(w[k]) <=> ZerosAt(w[m], pos[k])
    <3>1. TwoZeros(w[k]) <=> ZerosAt(w[k], pos[k])
      BY <2>2, <2>3, TwoZerosAre
    <3>a. pos[k] >= 2 => pos[k] \in 1 .. pos[k] /\ pos[k] - 1 \in 1 .. pos[k]
      BY <2>3
    <3>2. pos[k] >= 2 => w[m][pos[k]] = w[k][pos[k]] /\ w[m][pos[k] - 1] = w[k][pos[k] - 1]
      BY <2>2, <2>3, <3>a
    <3> QED
      BY <3>1, <3>2 DEF ZerosAt
  <2>7. /\ pos[m] = pos[m - 1] + (IF Escape(unit, w[m], pos, m) THEN 2 ELSE 1)
        /\ w[m][pos[m]] = unit[m]
        /\ Escape(unit, w[m], pos, m) => w[m][pos[m - 1] + 1] = 3
    BY <2>1, <2>2, <2>3, <2>6 DEF Escape
  <2>8. /\ \A n \in 0 .. k : pos[n] <= Len(w[m])
        /\ \A n \in 1 .. k :
             /\ pos[n] = pos[n - 1] + (IF Escape(unit, w[m], pos, n) THEN 2 ELSE 1)
             /\ w[m][pos[n]] = unit[n]
             /\ Escape(unit, w[m], pos, n) => w[m][pos[n - 1] + 1] = 3
        /\ pos[0] = 0 /\ pos \in [0 .. Len(unit) -> Nat]
    BY <2>5 DEF Escaped
  <2>9. 0 .. m = (0 .. k) \cup {m} /\ 1 .. m = (1 .. k) \cup {m}
    BY <2>1, <1>1
  <2>10. pos[m] <= Len(w[m])
    BY <2>3
  <2>11. \A n \in 0 .. m : pos[n] <= Len(w[m])
    BY <2>8, <2>9, <2>10
  <2>12. \A n \in 1 .. m :
             /\ pos[n] = pos[n - 1] + (IF Escape(unit, w[m], pos, n) THEN 2 ELSE 1)
             /\ w[m][pos[n]] = unit[n]
             /\ Escape(unit, w[m], pos, n) => w[m][pos[n - 1] + 1] = 3
    BY <2>7, <2>8, <2>9
  <2>13. Escaped(unit, w[m], pos, m)
    BY <2>2, <2>8, <2>11, <2>12 DEF Escaped
  <2> QED
    BY <2>13, <2>1 DEF m
<1>10. N \in T
  <2> HIDE DEF T
  <2>1. \A k \in 0 .. N : k \in T
    BY <1>1, <1>8, <1>9, StepByStep, Zenon
  <2> QED
    BY <2>1, <1>1
<1> QED
  BY <1>10 DEF w, N, pos

(* What is written for a whole unit.                                       *)
Encodes(unit, P, pos) ==
    /\ Escaped(unit, P, pos, Len(unit))
    /\ Len(P) = pos[Len(unit)] + (IF ZerosAt(P, pos[Len(unit)]) THEN 1 ELSE 0)
    /\ ZerosAt(P, pos[Len(unit)]) => P[Len(P)] = 3

(* Prevented is Written for the whole unit, with a 3 more if it would end  *)
(* in two zeros.                                                           *)
LEMMA PreventedEncodes ==
    ASSUME NEW unit \in Seq(Nat)
    PROVE  \E pos : Encodes(unit, Prevented(unit), pos)
<1> DEFINE w == Written(unit)
           N == Len(unit)
           all == w[N]
           pos == [n \in 0 .. N |-> Len(w[n])]
           P == Prevented(unit)
<1>1. Escaped(unit, all, pos, N)
  BY WrittenEscapes
<1>2. N \in Nat /\ pos[N] = Len(all)
  OBVIOUS
<1>3. P = IF TwoZeros(all) THEN Append(all, 3) ELSE all
  BY DEF Prevented
<1> HIDE DEF w, N, all, pos, P
<1>4. all \in Seq(Nat) /\ N \in 0 .. N
  BY <1>1, <1>2 DEF Escaped
<1>5. TwoZeros(all) <=> ZerosAt(all, Len(all))
  BY <1>4, TwoZerosAre
<1>6. CASE TwoZeros(all)
  <2>1. P = Append(all, 3)
    BY <1>3, <1>6
  <2>2. /\ P \in Seq(Nat) /\ Len(P) = Len(all) + 1 /\ P[Len(all) + 1] = 3
        /\ \A j \in 1 .. Len(all) : P[j] = all[j]
    BY <2>1, <1>4, AppendProperties
  <2>3. Len(all) \in Nat /\ Len(all) <= Len(P)
    BY <1>4, <2>2
  <2>4. Escaped(unit, P, pos, N)
    <3>1. N \in 0 .. Len(unit)
      BY <1>4 DEF N
    <3> QED
      BY <3>1, <1>1, <2>2, <2>3, EscapedLonger
  <2>5. Len(all) >= 2 => P[Len(all)] = all[Len(all)] /\ P[Len(all) - 1] = all[Len(all) - 1]
    <3>1. Len(all) >= 2 => Len(all) \in 1 .. Len(all) /\ Len(all) - 1 \in 1 .. Len(all)
      BY <2>3
    <3> QED
      BY <2>2, <3>1
  <2>6. ZerosAt(P, pos[N])
    BY <1>2, <1>5, <1>6, <2>5 DEF ZerosAt
  <2>7. Encodes(unit, P, pos)
    BY <2>2, <2>4, <2>6, <1>2 DEF Encodes, N
  <2> QED
    BY <2>7 DEF P
<1>7. CASE ~TwoZeros(all)
  <2>1. P = all /\ ~ZerosAt(P, pos[N])
    BY <1>2, <1>3, <1>5, <1>7
  <2>2. Len(P) = pos[N] + 0
    BY <2>1, <1>2, <1>4
  <2>3. Encodes(unit, P, pos)
    BY <2>1, <2>2, <1>1 DEF Encodes, N
  <2> QED
    BY <2>3 DEF P
<1> QED
  BY <1>6, <1>7

(* Positions lie within what is written, and each follows from the one     *)
(* before.                                                                 *)
LEMMA EncodedBounds ==
    ASSUME NEW unit \in Seq(Nat), NEW P, NEW pos, Encodes(unit, P, pos)
    PROVE  /\ P \in Seq(Nat) /\ Len(P) \in Nat /\ Len(unit) \in Nat /\ pos[0] = 0
           /\ \A n \in 0 .. Len(unit) : pos[n] \in 0 .. Len(P)
           /\ \A n \in 1 .. Len(unit) :
                /\ pos[n] = pos[n - 1] + (IF Escape(unit, P, pos, n) THEN 2 ELSE 1)
                /\ P[pos[n]] = unit[n]
                /\ Escape(unit, P, pos, n) => P[pos[n - 1] + 1] = 3
                /\ pos[n] \in 1 .. Len(P) /\ pos[n - 1] \in 0 .. Len(P)
<1>1. /\ P \in Seq(Nat) /\ pos[0] = 0 /\ pos \in [0 .. Len(unit) -> Nat]
      /\ \A n \in 0 .. Len(unit) : pos[n] <= Len(P)
      /\ \A n \in 1 .. Len(unit) :
           /\ pos[n] = pos[n - 1] + (IF Escape(unit, P, pos, n) THEN 2 ELSE 1)
           /\ P[pos[n]] = unit[n]
           /\ Escape(unit, P, pos, n) => P[pos[n - 1] + 1] = 3
  BY DEF Encodes, Escaped
<1>2. Len(P) \in Nat /\ Len(unit) \in Nat
  BY <1>1
<1>3. \A n \in 0 .. Len(unit) : pos[n] \in 0 .. Len(P)
  BY <1>1, <1>2
<1>4. ASSUME NEW n \in 1 .. Len(unit) PROVE pos[n] \in 1 .. Len(P) /\ pos[n - 1] \in 0 .. Len(P)
  <2>1. n \in 0 .. Len(unit) /\ n - 1 \in 0 .. Len(unit)
    BY <1>2
  <2>2. pos[n] \in 0 .. Len(P) /\ pos[n - 1] \in 0 .. Len(P)
    BY <1>3, <2>1
  <2>3. pos[n] = pos[n - 1] + 1 \/ pos[n] = pos[n - 1] + 2
    BY <1>1
  <2> QED
    BY <2>2, <2>3, <1>2
<1> QED
  BY <1>1, <1>2, <1>3, <1>4

NextAt(unit, P, pos, l, n) ==
    LET escape == ZerosAt(P, pos[l]) /\ unit[n] <= 3
    IN  /\ pos[n] = pos[l] + (IF escape THEN 2 ELSE 1)
        /\ escape => P[pos[l] + 1] = 3
        /\ P[pos[n]] = unit[n]
        /\ pos[n] \in 1 .. Len(P) /\ pos[l] \in 0 .. Len(P)

(* Where the next byte is written.                                         *)
LEMMA NextByte ==
    ASSUME NEW unit \in Seq(Nat), NEW P, NEW pos, Encodes(unit, P, pos),
           NEW n \in 1 .. Len(unit), NEW l, l = n - 1
    PROVE  NextAt(unit, P, pos, l, n)
  BY EncodedBounds DEF NextAt, Escape

(* A byte of what is written is one of the unit's or a 3.                  *)
LEMMA BytesAre ==
    ASSUME NEW unit \in Seq(Nat), NEW P, NEW pos, Encodes(unit, P, pos), NEW j \in 1 .. Len(P)
    PROVE  P[j] = 3 \/ \E n \in 1 .. Len(unit) : pos[n] = j
<1> DEFINE N == Len(unit)
           Named(byte) == P[byte] = 3 \/ \E n \in 1 .. N : pos[n] = byte
           S == {k \in 0 .. N : \A byte \in 1 .. pos[k] : Named(byte)}
<1>1. N \in Nat /\ Len(P) \in Nat /\ pos[0] = 0 /\ \A n \in 0 .. N : pos[n] \in 0 .. Len(P)
  BY EncodedBounds
<1>2. 0 \in S
  BY <1>1
<1>3. ASSUME NEW k \in 0 .. N - 1, k \in S PROVE k + 1 \in S
  <2> DEFINE a == pos[k]
             b == pos[k + 1]
  <2>1. k + 1 \in 1 .. N /\ k + 1 \in 0 .. N /\ k \in 0 .. N /\ (k + 1) - 1 = k
    BY <1>1
  <2>2. b = a + (IF Escape(unit, P, pos, k + 1) THEN 2 ELSE 1) /\ (Escape(unit, P, pos, k + 1) => P[a + 1] = 3)
    BY <2>1, EncodedBounds
  <2>3. a \in Nat /\ b \in Nat
    BY <1>1, <2>1
  <2>4. \A byte \in 1 .. a : Named(byte)
    BY <1>3
  <2>5. Named(b)
    BY <2>1
  <2>6. b = a + 2 => Named(a + 1)
    BY <2>2, <2>3
  <2> HIDE DEF a, b, Named
  <2>7. b = a + 1 \/ b = a + 2
    BY <2>2
  <2>8. \A byte \in 1 .. b : byte \in 1 .. a \/ byte = b \/ (b = a + 2 /\ byte = a + 1)
    BY <2>3, <2>7
  <2>9. \A byte \in 1 .. b : Named(byte)
    BY <2>4, <2>5, <2>6, <2>8
  <2> QED
    BY <2>1, <2>9 DEF b
<1>4. \A byte \in 1 .. pos[N] : Named(byte)
  <2> HIDE DEF S, N
  <2>1. \A k \in 0 .. N : k \in S
    BY <1>1, <1>2, <1>3, StepByStep, Zenon
  <2>2. N \in S
    BY <1>1, <2>1
  <2> QED
    BY <2>2 DEF S
<1>5. /\ Len(P) = pos[N] + (IF ZerosAt(P, pos[N]) THEN 1 ELSE 0)
      /\ ZerosAt(P, pos[N]) => P[Len(P)] = 3
  BY DEF Encodes
<1>6. pos[N] \in Nat
  BY <1>1
<1>7. CASE j \in 1 .. pos[N]
  BY <1>4, <1>7
<1>8. CASE j \notin 1 .. pos[N]
  <2>1. ZerosAt(P, pos[N]) /\ j = Len(P)
    BY <1>1, <1>5, <1>6, <1>8
  <2> QED
    BY <1>5, <2>1
<1> QED
  BY <1>7, <1>8

(* After two zeros comes a byte of at least 3: no start code lies in what  *)
(* is written, and it does not end in two zeros.                           *)
LEMMA NoStartCode ==
    ASSUME NEW unit \in Seq(Nat), NEW P, NEW pos, Encodes(unit, P, pos),
           NEW j \in 1 .. Len(P), ZerosAt(P, j)
    PROVE  j < Len(P) /\ P[j + 1] >= 3
<1> DEFINE N == Len(unit)
<1>1. N \in Nat /\ Len(P) \in Nat
  BY EncodedBounds
<1>2. PICK n \in 1 .. N : pos[n] = j
  BY BytesAre DEF ZerosAt
<1>3. CASE n = N
  <2>1. Len(P) = j + 1 /\ P[Len(P)] = 3
    BY <1>2, <1>3 DEF Encodes
  <2> QED
    BY <2>1, <1>1
<1>4. CASE n # N
  <2>1. n + 1 \in 1 .. N /\ (n + 1) - 1 = n
    BY <1>1, <1>4
  <2>2. /\ pos[n + 1] = j + (IF unit[n + 1] <= 3 THEN 2 ELSE 1)
        /\ P[pos[n + 1]] = unit[n + 1] /\ (unit[n + 1] <= 3 => P[j + 1] = 3)
        /\ pos[n + 1] \in 1 .. Len(P)
    BY <1>2, <2>1, EncodedBounds DEF Escape
  <2>3. unit[n + 1] \in Nat
    BY <2>1
  <2> DEFINE u == unit[n + 1]
             b == pos[n + 1]
  <2> HIDE DEF u, b
  <2>4. CASE u <= 3
    <3>1. b = j + 2 /\ P[j + 1] = 3 /\ b \in 1 .. Len(P)
      BY <2>2, <2>4 DEF u, b
    <3> QED
      BY <3>1, <1>1
  <2>5. CASE ~(u <= 3)
    <3>1. b = j + 1 /\ P[b] = u /\ b \in 1 .. Len(P) /\ u \in Nat
      BY <2>2, <2>3, <2>5 DEF u, b
    <3> QED
      BY <3>1, <2>5, <1>1
  <2> QED
    BY <2>4, <2>5
<1> QED
  BY <1>3, <1>4

-------------------------------------------------------------------------------
(* The units of a file: a header, a payload that ends in a byte other than *)
(* zero, and pairs of zeros.                                               *)
Shape(unit, m, words) ==
    /\ unit \in Seq(Nat) /\ m \in Nat /\ m >= 3 /\ words \in Nat
    /\ Len(unit) = m + 2 * words
    /\ unit[1] = 0 /\ unit[2] = 1 /\ unit[m] # 0
    /\ \A j \in m + 1 .. Len(unit) : unit[j] = 0

LEMMA UnitsHaveShape ==
    ASSUME NEW payload \in Payloads
    PROVE  \E m, words : Shape(Header \o payload, m, words)
<1>1. PICK bytes \in SeqOf(Bytes, MaxBytes - 1), stop \in Bytes \ {0}, words \in ZeroWords :
        payload = Append(bytes, stop) \o Zeros(2 * words)
  BY DEF Payloads
<1> DEFINE k == Len(bytes)
           body == Append(bytes, stop)
           tail == Zeros(2 * words)
           unit == Header \o payload
<1>2. bytes \in Seq(Nat) /\ stop \in Nat /\ stop # 0 /\ words \in Nat
  <2>1. Bytes \subseteq Nat /\ ZeroWords \subseteq Nat
    BY ByteStreamAssumption
  <2>2. PICK n \in 0 .. MaxBytes - 1 : bytes \in [1 .. n -> Bytes]
    BY DEF SeqOf
  <2>a. MaxBytes - 1 \in Nat
    BY ByteStreamAssumption
  <2>b. n \in Nat
    BY <2>a
  <2>3. n \in Nat /\ bytes \in [1 .. n -> Nat]
    BY <2>1, <2>2, <2>b
  <2>4. bytes \in Seq(Nat)
    BY <2>3
  <2> QED
    BY <2>1, <2>4
<1>3. /\ body \in Seq(Nat) /\ Len(body) = k + 1 /\ k \in Nat /\ body[k + 1] = stop
  BY <1>2, AppendProperties
<1>4. tail \in Seq(Nat) /\ Len(tail) = 2 * words /\ \A j \in 1 .. 2 * words : tail[j] = 0
  BY <1>2 DEF Zeros
<1> HIDE DEF k, body, tail
<1>5. /\ payload \in Seq(Nat) /\ Len(payload) = Len(body) + Len(tail)
      /\ \A j \in 1 .. Len(body) + Len(tail) :
           payload[j] = IF j <= Len(body) THEN body[j] ELSE tail[j - Len(body)]
  <2>1. payload = body \o tail
    BY <1>1 DEF body, tail
  <2> QED
    BY <2>1, <1>3, <1>4, ConcatProperties, Zenon
<1>6. Header \in Seq(Nat) /\ Len(Header) = 2 /\ Header[1] = 0 /\ Header[2] = 1
  BY DEF Header
<1>7. /\ unit \in Seq(Nat) /\ Len(unit) = Len(Header) + Len(payload)
      /\ \A j \in 1 .. Len(Header) + Len(payload) :
           unit[j] = IF j <= Len(Header) THEN Header[j] ELSE payload[j - Len(Header)]
  BY <1>5, <1>6, ConcatProperties, Zenon
<1> HIDE DEF unit
<1>8. /\ Len(payload) = k + 1 + 2 * words /\ Len(unit) = (k + 3) + 2 * words
      /\ 2 * words \in Nat
  BY <1>2, <1>3, <1>4, <1>5, <1>6, <1>7
<1>9. unit[1] = 0 /\ unit[2] = 1
  <2>1. 1 \in 1 .. Len(Header) + Len(payload) /\ 2 \in 1 .. Len(Header) + Len(payload)
    BY <1>3, <1>6, <1>8
  <2> QED
    BY <2>1, <1>6, <1>7
<1>10. unit[k + 3] # 0
  <2>1. k + 3 \in 1 .. Len(Header) + Len(payload) /\ ~(k + 3 <= 2) /\ (k + 3) - 2 = k + 1
        /\ k + 1 \in 1 .. Len(body) + Len(tail) /\ k + 1 <= Len(body)
    BY <1>3, <1>4, <1>6, <1>8
  <2>2. unit[k + 3] = payload[k + 1]
    BY <2>1, <1>6, <1>7
  <2>3. payload[k + 1] = stop
    BY <2>1, <1>3, <1>5
  <2> QED
    BY <2>2, <2>3, <1>2
<1>11. ASSUME NEW j \in (k + 3) + 1 .. Len(unit) PROVE unit[j] = 0
  <2> DEFINE l == j - 2
             h == l - Len(body)
  <2>1. /\ j \in 1 .. Len(Header) + Len(payload) /\ ~(j <= 2)
        /\ l \in 1 .. Len(body) + Len(tail) /\ ~(l <= Len(body)) /\ h \in 1 .. 2 * words
    BY <1>2, <1>3, <1>4, <1>5, <1>6, <1>8
  <2>2. unit[j] = payload[l]
    BY <2>1, <1>6, <1>7
  <2>3. payload[l] = tail[h]
    BY <2>1, <1>5
  <2> QED
    BY <2>1, <2>2, <2>3, <1>4
<1>a. k + 3 \in Nat /\ k + 3 >= 3
  BY <1>3
<1>12. Shape(unit, k + 3, words)
  BY <1>a, <1>2, <1>3, <1>7, <1>8, <1>9, <1>10, <1>11 DEF Shape
<1> QED
  BY <1>12 DEF unit

(* The header is written as it is, and no zero ends what is written: the   *)
(* pairs of zeros end in two zeros, after which comes a 3.                 *)
LEMMA WrittenEnds ==
    ASSUME NEW unit, NEW m, NEW words, Shape(unit, m, words),
           NEW P, NEW pos, Encodes(unit, P, pos)
    PROVE  /\ Len(P) >= 3 /\ P[Len(P)] # 0
           /\ pos[2] = 2 /\ P[1] = 0 /\ P[2] = 1
<1> DEFINE N == Len(unit)
<1>1. /\ unit \in Seq(Nat) /\ m \in Nat /\ m >= 3 /\ words \in Nat
      /\ N = m + 2 * words /\ unit[1] = 0 /\ unit[2] = 1 /\ unit[m] # 0
      /\ \A j \in m + 1 .. N : unit[j] = 0
  BY DEF Shape
<1>b. ASSUME NEW n \in 1 .. N, NEW l, l = n - 1
      PROVE  NextAt(unit, P, pos, l, n)
  BY <1>b, <1>1, NextByte
<1>2. /\ P \in Seq(Nat) /\ Len(P) \in Nat /\ N \in Nat /\ pos[0] = 0
      /\ \A n \in 1 .. N : P[pos[n]] = unit[n] /\ pos[n] \in 1 .. Len(P)
  <2>1. P \in Seq(Nat) /\ Len(P) \in Nat /\ N \in Nat /\ pos[0] = 0
    BY <1>1, EncodedBounds, Zenon
  <2>2. \A n \in 1 .. N : P[pos[n]] = unit[n] /\ pos[n] \in 1 .. Len(P)
    BY <1>b DEF NextAt
  <2> QED
    BY <2>1, <2>2
<1>3. N >= 3 /\ 1 \in 1 .. N /\ 2 \in 1 .. N /\ 3 \in 1 .. N /\ m \in 1 .. N
  BY <1>1
<1>4. pos[1] = 1 /\ P[1] = 0
  <2>1. NextAt(unit, P, pos, 0, 1)
    BY <1>b, <1>3
  <2>2. ~ZerosAt(P, pos[0])
    BY <1>2 DEF ZerosAt
  <2> QED
    BY <2>1, <2>2, <1>1, <1>2, <1>3 DEF NextAt
<1>5. pos[2] = 2 /\ P[2] = 1
  <2>1. NextAt(unit, P, pos, 1, 2)
    BY <1>b, <1>3
  <2>2. ~ZerosAt(P, pos[1])
    BY <1>4 DEF ZerosAt
  <2> QED
    BY <2>1, <2>2, <1>1, <1>2, <1>3, <1>4 DEF NextAt
<1>6. Len(P) >= 3
  <2>0. NextAt(unit, P, pos, 2, 3)
    BY <1>b, <1>3
  <2>1. pos[3] \in 1 .. Len(P) /\ (pos[3] = pos[2] + 2 \/ pos[3] = pos[2] + 1)
    BY <2>0, <1>2, <1>3 DEF NextAt
  <2> QED
    BY <2>1, <1>2, <1>5
<1> DEFINE S == {k \in 0 .. words :
                   IF k = 0 THEN P[pos[m]] # 0 ELSE ZerosAt(P, pos[m + 2 * k])}
<1>7. 0 \in S
  <2>1. 0 \in 0 .. words /\ P[pos[m]] # 0
    BY <1>1, <1>2, <1>3
  <2> QED
    BY <2>1
<1>8. ASSUME NEW k \in 0 .. words - 1, k \in S PROVE k + 1 \in S
  <2> DEFINE n == m + 2 * k
             a == pos[n]
             b == pos[n + 1]
             c == pos[n + 2]
  <2>1. /\ n \in Nat /\ n + 1 \in 1 .. N /\ n + 2 \in 1 .. N
        /\ n + 1 \in m + 1 .. N /\ n + 2 \in m + 1 .. N
        /\ (n + 1) - 1 = n /\ (n + 2) - 1 = n + 1 /\ m + 2 * (k + 1) = n + 2
        /\ k + 1 \in 0 .. words /\ k + 1 # 0
    BY <1>1
  <2>2. unit[n + 1] = 0 /\ unit[n + 2] = 0
    BY <2>1, <1>1
  <2>3. /\ b = a + (IF ZerosAt(P, a) THEN 2 ELSE 1) /\ P[b] = 0
        /\ ZerosAt(P, a) => P[a + 1] = 3
        /\ b \in 1 .. Len(P) /\ a \in 0 .. Len(P)
    <3>1. NextAt(unit, P, pos, n, n + 1)
      BY <1>b, <2>1
    <3>2. unit[n + 1] <= 3
      BY <2>2
    <3> QED
      BY <3>1, <3>2, <2>1, <2>2, <1>2 DEF NextAt
  <2>4. c = b + (IF ZerosAt(P, b) THEN 2 ELSE 1) /\ P[c] = 0
    <3>1. NextAt(unit, P, pos, n + 1, n + 2)
      BY <1>b, <2>1
    <3>2. unit[n + 2] <= 3
      BY <2>2
    <3> QED
      BY <3>1, <3>2, <2>1, <2>2, <1>2 DEF NextAt
  <2>5. k = 0 => P[a] # 0
    BY <1>8, <1>1
  <2>6. k # 0 => ZerosAt(P, a)
    BY <1>8
  <2> HIDE DEF n, a, b, c
  <2>7. P[b - 1] # 0
    <3>1. CASE ZerosAt(P, a)
      <4>1. b - 1 = a + 1 /\ P[a + 1] = 3
        BY <2>3, <3>1, <1>2
      <4> QED
        BY <4>1
    <3>2. CASE ~ZerosAt(P, a)
      <4>1. b - 1 = a /\ P[a] # 0
        BY <2>3, <2>5, <2>6, <3>2, <1>2
      <4> QED
        BY <4>1
    <3> QED
      BY <3>1, <3>2
  <2>8. ~ZerosAt(P, b)
    BY <2>7 DEF ZerosAt
  <2>9. c = b + 1 /\ c >= 2 /\ c - 1 = b
    BY <2>3, <2>4, <2>8, <1>2
  <2>10. ZerosAt(P, c)
    BY <2>3, <2>4, <2>9 DEF ZerosAt
  <2> QED
    BY <2>1, <2>10 DEF c
<1>9. words \in S
  <2> HIDE DEF S
  <2>1. \A k \in 0 .. words : k \in S
    BY <1>1, <1>7, <1>8, StepByStep, Zenon
  <2> QED
    BY <2>1, <1>1
<1>10. P[Len(P)] # 0
  <2>1. /\ Len(P) = pos[N] + (IF ZerosAt(P, pos[N]) THEN 1 ELSE 0)
        /\ ZerosAt(P, pos[N]) => P[Len(P)] = 3
    BY DEF Encodes
  <2>2. CASE ZerosAt(P, pos[N])
    BY <2>1, <2>2
  <2>3. CASE ~ZerosAt(P, pos[N])
    <3>1. words = 0
      BY <1>1, <1>9, <2>3
    <3>2. N = m /\ P[pos[m]] # 0
      BY <3>1, <1>1, <1>9
    <3>3. Len(P) = pos[N] + 0 /\ pos[N] \in Nat
      BY <2>1, <2>3, <1>2, <1>3, <3>2
    <3> QED
      BY <3>2, <3>3
  <2> QED
    BY <2>2, <2>3
<1> QED
  BY <1>4, <1>5, <1>6, <1>10

-------------------------------------------------------------------------------
(* Where the units lie in the file: section k ends at f[k], its start code *)
(* ends with the byte at c[k], and around the unit there are zeros.        *)
Body(k) == Len(Prevented(sent[k]))
Section(c, f, k) ==
    /\ f[k] <= Len(file)
    /\ c[k] >= 4 /\ c[k] >= f[k - 1] + 3 /\ file[c[k]] = 1
    /\ \A j \in f[k - 1] + 1 .. c[k] - 1 : file[j] = 0
    /\ c[k] + Body(k) <= f[k]
    /\ \A j \in 1 .. Body(k) : file[c[k] + j] = Prevented(sent[k])[j]
    /\ \A j \in c[k] + Body(k) + 1 .. f[k] : file[j] = 0

Layout(c, f) ==
    /\ file \in Seq(Nat) /\ sent \in Seq(Seq(Nat))
    /\ \A k \in 1 .. Len(sent) : \E m, words : Shape(sent[k], m, words)
    /\ c \in [1 .. Len(sent) -> Nat] /\ f \in [0 .. Len(sent) -> Nat]
    /\ f[0] = 0 /\ f[Len(sent)] = Len(file)
    /\ \A k \in 1 .. Len(sent) : Section(c, f, k)

(* What is written for a unit begins with the header, does not end in zero *)
(* and has no start code in it.                                            *)
Clean(P) ==
    /\ P \in Seq(Nat) /\ Len(P) \in Nat /\ Len(P) >= 3
    /\ P[1] = 0 /\ P[2] = 1 /\ P[Len(P)] # 0
    /\ \A j \in 1 .. Len(P) : ZerosAt(P, j) => j < Len(P) /\ P[j + 1] >= 3

LEMMA BodyIs ==
    ASSUME NEW unit, NEW m, NEW words, Shape(unit, m, words)
    PROVE  Clean(Prevented(unit))
<1> DEFINE P == Prevented(unit)
<1>1. unit \in Seq(Nat)
  BY DEF Shape
<1>2. PICK pos : Encodes(unit, P, pos)
  BY <1>1, PreventedEncodes
<1> HIDE DEF P
<1>3. P \in Seq(Nat) /\ Len(P) \in Nat
  BY <1>1, <1>2, EncodedBounds, Zenon
<1>4. Len(P) >= 3 /\ P[1] = 0 /\ P[2] = 1 /\ P[Len(P)] # 0
  BY <1>2, WrittenEnds, Zenon
<1>5. \A j \in 1 .. Len(P) : ZerosAt(P, j) => j < Len(P) /\ P[j + 1] >= 3
  BY <1>1, <1>2, NoStartCode, Zenon
<1> QED
  BY <1>3, <1>4, <1>5 DEF P, Clean

(* The bytes that Write appends: zeros, a start code that ends at `one`,   *)
(* what is written for the unit, and zeros.                                *)
Follows(old, one, P, new) ==
    /\ new \in Seq(Nat) /\ one + Len(P) <= Len(new)
    /\ \A j \in 1 .. Len(old) : new[j] = old[j]
    /\ \A j \in Len(old) + 1 .. one - 1 : new[j] = 0
    /\ new[one] = 1
    /\ \A j \in 1 .. Len(P) : new[one + j] = P[j]
    /\ \A j \in one + Len(P) + 1 .. Len(new) : new[j] = 0

LEMMA Appended ==
    ASSUME NEW old \in Seq(Nat), NEW before \in Nat, NEW after \in Nat,
           NEW code \in {scp24, scp32}, NEW P \in Seq(Nat)
    PROVE  Follows(old, Len(old) + before + Len(code), P,
                   old \o Zeros(before) \o code \o P \o Zeros(after))
<1> DEFINE z == Zeros(before)
           t == Zeros(after)
           s1 == old \o z
           s2 == s1 \o code
           s3 == s2 \o P
           s4 == s3 \o t
           L == Len(old)
           one == L + before + Len(code)
<1>1. /\ z \in Seq(Nat) /\ Len(z) = before /\ \A j \in 1 .. before : z[j] = 0
      /\ t \in Seq(Nat) /\ Len(t) = after /\ \A j \in 1 .. after : t[j] = 0
  BY DEF Zeros
<1>2. /\ code \in Seq(Nat) /\ Len(code) \in {3, 4} /\ code[Len(code)] = 1
      /\ \A j \in 1 .. Len(code) - 1 : code[j] = 0
  <2>1. CASE code = scp24
    BY <2>1 DEF scp24
  <2>2. CASE code = scp32
    BY <2>2 DEF scp32
  <2> QED
    BY <2>1, <2>2
<1>3. L \in Nat /\ Len(P) \in Nat
  OBVIOUS
<1> HIDE DEF z, t
<1>4. /\ s1 \in Seq(Nat) /\ Len(s1) = L + before
      /\ \A j \in 1 .. L + before : s1[j] = IF j <= L THEN old[j] ELSE z[j - L]
  <2>1. /\ s1 \in Seq(Nat) /\ Len(s1) = Len(old) + Len(z)
        /\ \A j \in 1 .. Len(old) + Len(z) : s1[j] = IF j <= Len(old) THEN old[j] ELSE z[j - Len(old)]
    BY <1>1, ConcatProperties, Zenon
  <2> QED
    BY <2>1, <1>1
<1> HIDE DEF s1
<1>5. /\ s2 \in Seq(Nat) /\ Len(s2) = one
      /\ \A j \in 1 .. one : s2[j] = IF j <= L + before THEN s1[j] ELSE code[j - (L + before)]
  <2>1. /\ s2 \in Seq(Nat) /\ Len(s2) = Len(s1) + Len(code)
        /\ \A j \in 1 .. Len(s1) + Len(code) : s2[j] = IF j <= Len(s1) THEN s1[j] ELSE code[j - Len(s1)]
    BY <1>4, <1>2, ConcatProperties, Zenon
  <2> QED
    BY <2>1, <1>4
<1> HIDE DEF s2
<1>6. one \in Nat /\ one > L + before + 2
  <2>1. Len(code) = 3 \/ Len(code) = 4
    BY <1>2
  <2>2. one = L + before + 3 \/ one = L + before + 4
    BY <2>1
  <2> HIDE DEF L, one
  <2> QED
    BY <2>2, <1>3
<1> HIDE DEF L
<1>7. /\ \A j \in 1 .. L : s2[j] = old[j]
      /\ \A j \in L + 1 .. one - 1 : s2[j] = 0
      /\ s2[one] = 1
  <2>1. ASSUME NEW j \in 1 .. L PROVE s2[j] = old[j]
    <3>1. j \in 1 .. one /\ j \in 1 .. L + before /\ j <= L + before /\ j <= L
      BY <1>3, <1>6
    <3> QED
      BY <3>1, <1>4, <1>5
  <2>2. ASSUME NEW j \in L + 1 .. one - 1 PROVE s2[j] = 0
    <3>1. j \in 1 .. one /\ ~(j <= L)
      BY <1>3, <1>6
    <3>2. CASE j <= L + before
      <4>1. j \in 1 .. L + before /\ j - L \in 1 .. before
        BY <1>3, <3>1, <3>2
      <4> QED
        BY <3>1, <3>2, <4>1, <1>1, <1>4, <1>5
    <3>3. CASE ~(j <= L + before)
      <4>1. j - (L + before) \in 1 .. Len(code) - 1
        BY <1>2, <1>3, <3>3
      <4> QED
        BY <3>1, <3>3, <4>1, <1>2, <1>5
    <3> QED
      BY <3>2, <3>3
  <2>3. s2[one] = 1
    <3>1. one \in 1 .. one /\ ~(one <= L + before) /\ one - (L + before) = Len(code)
      BY <1>2, <1>3, <1>6
    <3> HIDE DEF one
    <3> QED
      BY <3>1, <1>2, <1>5
  <2> QED
    BY <2>1, <2>2, <2>3
<1> HIDE DEF one
<1>8. /\ s3 \in Seq(Nat) /\ Len(s3) = one + Len(P)
      /\ \A j \in 1 .. one + Len(P) : s3[j] = IF j <= one THEN s2[j] ELSE P[j - one]
  <2>1. /\ s3 \in Seq(Nat) /\ Len(s3) = Len(s2) + Len(P)
        /\ \A j \in 1 .. Len(s2) + Len(P) : s3[j] = IF j <= Len(s2) THEN s2[j] ELSE P[j - Len(s2)]
    BY <1>5, ConcatProperties, Zenon
  <2> QED
    BY <2>1, <1>5
<1> HIDE DEF s3
<1>9. /\ s4 \in Seq(Nat) /\ Len(s4) = one + Len(P) + after
      /\ \A j \in 1 .. one + Len(P) + after :
           s4[j] = IF j <= one + Len(P) THEN s3[j] ELSE t[j - (one + Len(P))]
  <2>1. /\ s4 \in Seq(Nat) /\ Len(s4) = Len(s3) + Len(t)
        /\ \A j \in 1 .. Len(s3) + Len(t) : s4[j] = IF j <= Len(s3) THEN s3[j] ELSE t[j - Len(s3)]
    BY <1>8, <1>1, ConcatProperties, Zenon
  <2> QED
    BY <2>1, <1>8, <1>1
<1> HIDE DEF s4
<1>10. \A j \in 1 .. one : j \in 1 .. one + Len(P) /\ j \in 1 .. one + Len(P) + after /\ j <= one + Len(P) /\ j <= one
  BY <1>3, <1>6
<1>11. \A j \in 1 .. one : s4[j] = s2[j]
  BY <1>8, <1>9, <1>10
<1>12. /\ \A j \in 1 .. L : s4[j] = old[j]
       /\ \A j \in L + 1 .. one - 1 : s4[j] = 0
       /\ s4[one] = 1
  <2>1. \A j \in 1 .. L : j \in 1 .. one
    BY <1>3, <1>6
  <2>2. \A j \in L + 1 .. one - 1 : j \in 1 .. one
    BY <1>3, <1>6
  <2>3. one \in 1 .. one
    BY <1>3, <1>6
  <2> QED
    BY <2>1, <2>2, <2>3, <1>7, <1>11
<1>13. ASSUME NEW j \in 1 .. Len(P) PROVE s4[one + j] = P[j]
  <2>1. /\ one + j \in 1 .. one + Len(P) + after /\ one + j \in 1 .. one + Len(P)
        /\ one + j <= one + Len(P) /\ ~(one + j <= one) /\ (one + j) - one = j
    BY <1>3, <1>6
  <2> QED
    BY <2>1, <1>8, <1>9
<1>14. ASSUME NEW j \in one + Len(P) + 1 .. Len(s4) PROVE s4[j] = 0
  <2>1. /\ j \in 1 .. one + Len(P) + after /\ ~(j <= one + Len(P)) /\ j - (one + Len(P)) \in 1 .. after
    BY <1>3, <1>6, <1>9
  <2> QED
    BY <2>1, <1>1, <1>9
<1>15. one + Len(P) <= Len(s4)
  BY <1>3, <1>6, <1>9
<1>16. Follows(old, one, P, s4)
  BY <1>9, <1>12, <1>13, <1>14, <1>15 DEF Follows, L
<1> QED
  BY <1>16 DEF s1, s2, s3, s4, one, z, t, L

(* The layout is one of the file and of the units in it, which the parser  *)
(* leaves alone.                                                           *)
LEMMA LayoutKept ==
    ASSUME NEW c, NEW f, Layout(c, f), UNCHANGED <<sent, file>>
    PROVE  Layout(c, f)'
  BY DEF Layout, Section, Body

(* Write adds one section to the layout.                                   *)
LEMMA LayoutGrows ==
    ASSUME NEW c, NEW f, Layout(c, f), Write
    PROVE  \E d, g : Layout(d, g)'
<1>1. PICK payload \in Payloads, after \in 0 .. MaxZeros,
           before \in (IF sent = <<>> THEN 0 .. MaxZeros ELSE {0}),
           code \in (IF sent = <<>> THEN {scp32} ELSE {scp24, scp32}) :
        /\ sent' = Append(sent, Header \o payload)
        /\ file' = file \o Zeros(before) \o code \o Prevented(Header \o payload) \o Zeros(after)
  BY DEF Write
<1> DEFINE unit == Header \o payload
           P == Prevented(unit)
<1>2. PICK m, words : Shape(unit, m, words)
  BY UnitsHaveShape
<1>3. unit \in Seq(Nat) /\ P \in Seq(Nat) /\ Len(P) \in Nat /\ Len(P) >= 3
  BY <1>2, BodyIs DEF Shape, Clean
<1>4. /\ file \in Seq(Nat) /\ sent \in Seq(Seq(Nat))
      /\ \A k \in 1 .. Len(sent) : \E mm, ww : Shape(sent[k], mm, ww)
      /\ c \in [1 .. Len(sent) -> Nat] /\ f \in [0 .. Len(sent) -> Nat]
      /\ f[0] = 0 /\ f[Len(sent)] = Len(file)
      /\ \A k \in 1 .. Len(sent) : Section(c, f, k)
  BY DEF Layout
<1>5. PICK N \in Nat, L \in Nat : N = Len(sent) /\ L = Len(file)
  BY <1>4
<1>6. before \in Nat /\ after \in Nat /\ code \in {scp24, scp32}
  BY ByteStreamAssumption
<1>c. Len(code) \in Nat /\ Len(code) >= 3 /\ (N = 0 => Len(code) = 4)
  <2>1. Len(scp24) = 3 /\ Len(scp32) = 4
    BY DEF scp24, scp32
  <2>2. N = 0 => sent = <<>>
    BY <1>4, <1>5, EmptySeq
  <2>3. N = 0 => code = scp32
    BY <1>1, <2>2
  <2> QED
    BY <1>6, <2>1, <2>3
<1> DEFINE new == file'
           one == L + before + Len(code)
           n == N + 1
           d == [k \in 1 .. n |-> IF k = n THEN one ELSE c[k]]
<1> HIDE DEF unit, P
<1>7. /\ new \in Seq(Nat) /\ one + Len(P) <= Len(new)
      /\ \A j \in 1 .. L : new[j] = file[j]
      /\ \A j \in L + 1 .. one - 1 : new[j] = 0
      /\ new[one] = 1
      /\ \A j \in 1 .. Len(P) : new[one + j] = P[j]
      /\ \A j \in one + Len(P) + 1 .. Len(new) : new[j] = 0
  <2>1. new = file \o Zeros(before) \o code \o P \o Zeros(after)
    BY <1>1 DEF P, unit
  <2>2. Follows(file, Len(file) + before + Len(code), P, new)
    BY <2>1, <1>3, <1>4, <1>6, Appended
  <2>3. Follows(file, one, P, new)
    BY <2>2, <1>5
  <2> QED
    BY <2>3, <1>5 DEF Follows
<1>e. PICK E \in Nat : E = Len(new)
  BY <1>7
<1> DEFINE g == [k \in 0 .. n |-> IF k = n THEN E ELSE f[k]]
<1>8. /\ sent' \in Seq(Seq(Nat)) /\ Len(sent') = n /\ sent'[n] = unit
      /\ \A k \in 1 .. N : sent'[k] = sent[k]
  <2>1. sent' = Append(sent, unit)
    BY <1>1 DEF unit
  <2> QED
    BY <2>1, <1>3, <1>4, <1>5, AppendProperties
<1>9. one \in Nat /\ one >= L + 3 /\ one >= 4
  <2>1. N # 0 => L >= 4
    <3> SUFFICES ASSUME N # 0 PROVE L >= 4
      OBVIOUS
    <3>1. N \in 1 .. Len(sent)
      BY <1>5
    <3>2. c[N] >= 4 /\ c[N] + Body(N) <= f[N] /\ c[N] \in Nat /\ f[N] = L
      BY <3>1, <1>4, <1>5 DEF Section
    <3>3. Body(N) \in Nat
      <4>1. PICK mm, ww : Shape(sent[N], mm, ww)
        BY <3>1, <1>4
      <4> QED
        BY <4>1, BodyIs DEF Body, Clean
    <3> QED
      BY <3>2, <3>3
  <2> DEFINE q == Len(code)
  <2>2. q \in Nat /\ q >= 3 /\ (N = 0 => q = 4) /\ one = L + before + q
    BY <1>c
  <2> HIDE DEF one, q
  <2>3. one \in Nat /\ one >= L + 3
    BY <2>2, <1>5, <1>6
  <2>4. one >= 4
    BY <2>1, <2>2, <1>5, <1>6
  <2> QED
    BY <2>3, <2>4
<1>10. d \in [1 .. n -> Nat] /\ g \in [0 .. n -> Nat]
  <2>1. \A k \in 1 .. n : k # n => k \in 1 .. Len(sent)
    BY <1>5
  <2>2. \A k \in 0 .. n : k # n => k \in 0 .. Len(sent)
    BY <1>5
  <2>3. E \in Nat
    OBVIOUS
  <2> HIDE DEF one, n
  <2> QED
    BY <2>1, <2>2, <2>3, <1>4, <1>9
<1>11. g[0] = 0 /\ g[n] = Len(new)
  BY <1>4, <1>5, <1>e
<1> HIDE DEF new, unit, P
<1>12. ASSUME NEW k \in 1 .. n PROVE \E mm, ww : Shape(sent'[k], mm, ww)
  <2>1. CASE k = n
    BY <2>1, <1>2, <1>8
  <2>2. CASE k # n
    <3>1. k \in 1 .. N
      BY <1>5, <2>2
    <3> QED
      BY <3>1, <1>4, <1>5, <1>8
  <2> QED
    BY <2>1, <2>2
<1>13. ASSUME NEW k \in 1 .. n PROVE Section(d, g, k)'
  <2>1. CASE k = n
    <3>1. /\ d[k] = one /\ g[k] = E /\ g[k - 1] = L
          /\ Body(k)' = Len(P) /\ Prevented(sent[k])' = P
      <4>1. n - 1 = N /\ n - 1 # n /\ n - 1 \in 0 .. n /\ n \in 1 .. n /\ n \in 0 .. n
        BY <1>5
      <4>2. g[n - 1] = f[N]
        BY <4>1
      <4>a. d[n] = one /\ g[n] = E
        BY <4>1
      <4>3. Prevented(sent'[n]) = P
        BY <1>8 DEF P
      <4> QED
        BY <2>1, <4>a, <4>2, <4>3, <1>4, <1>5 DEF Body
    <3> HIDE DEF d, g, one, n
    <3>2. E <= Len(new) /\ E = Len(new)
      BY <1>e
    <3> QED
      BY <3>1, <3>2, <1>5, <1>7, <1>9 DEF Section, new
  <2>2. CASE k # n
    <3>1. k \in 1 .. N /\ k \in 0 .. N /\ k - 1 \in 0 .. N /\ k - 1 # n
      BY <1>5, <2>2
    <3>2. d[k] = c[k] /\ g[k] = f[k] /\ g[k - 1] = f[k - 1]
      BY <3>1, <2>2
    <3>3. Section(c, f, k)
      BY <3>1, <1>4, <1>5
    <3>4. c[k] \in Nat /\ f[k] \in Nat /\ f[k - 1] \in Nat
      BY <3>1, <1>4, <1>5
    <3>5. Body(k)' = Body(k) /\ Prevented(sent[k])' = Prevented(sent[k])
      BY <3>1, <1>8 DEF Body
    <3>6. Body(k) \in Nat
      <4>1. PICK mm, ww : Shape(sent[k], mm, ww)
        BY <3>1, <1>4, <1>5
      <4> QED
        BY <4>1, BodyIs DEF Body, Clean
    <3>7. f[k] <= L /\ L <= Len(new) /\ c[k] + Body(k) <= f[k] /\ c[k] >= 4
      <4>1. one + Len(P) <= E
        BY <1>7, <1>e
      <4>2. L <= Len(new)
        <5> HIDE DEF one
        <5> QED
          BY <4>1, <1>3, <1>5, <1>9, <1>e
      <4> QED
        BY <4>2, <3>3, <1>5 DEF Section
    <3> HIDE DEF d, g, one, n
    <3>8. \A j \in f[k - 1] + 1 .. c[k] - 1 : new[j] = 0
      <4>1. \A j \in f[k - 1] + 1 .. c[k] - 1 : j \in 1 .. L
        BY <3>4, <3>6, <3>7, <1>5
      <4> QED
        BY <4>1, <3>3, <1>7 DEF Section
    <3>9. \A j \in 1 .. Body(k) : new[c[k] + j] = Prevented(sent[k])[j]
      <4>1. \A j \in 1 .. Body(k) : c[k] + j \in 1 .. L
        BY <3>4, <3>6, <3>7, <1>5
      <4> QED
        BY <4>1, <3>3, <1>7 DEF Section
    <3>10. \A j \in c[k] + Body(k) + 1 .. f[k] : new[j] = 0
      <4>1. \A j \in c[k] + Body(k) + 1 .. f[k] : j \in 1 .. L
        BY <3>4, <3>6, <3>7, <1>5
      <4> QED
        BY <4>1, <3>3, <1>7 DEF Section
    <3>11. new[c[k]] = 1
      <4>1. c[k] \in 1 .. L
        BY <3>4, <3>6, <3>7, <1>5
      <4> QED
        BY <4>1, <3>3, <1>7 DEF Section
    <3>12. f[k] <= Len(new) /\ c[k] >= f[k - 1] + 3
      <4>1. Len(new) \in Nat
        BY <1>7
      <4> QED
        BY <4>1, <3>3, <3>4, <3>7, <1>5 DEF Section
    <3> QED
      BY <3>2, <3>5, <3>7, <3>8, <3>9, <3>10, <3>11, <3>12 DEF Section, new
  <2> QED
    BY <2>1, <2>2
<1>14. Layout(d, g)'
  <2> HIDE DEF d, g, n, one
  <2> QED
    BY <1>7, <1>8, <1>10, <1>11, <1>12, <1>13 DEF Layout, new
<1> QED
  BY <1>14

-------------------------------------------------------------------------------
(* The reader cuts the file where the next start code begins, at most one  *)
(* zero of a longer one before it.                                         *)
Cut(c, k) == IF k = 0 THEN 1 ELSE IF k = Len(sent) THEN Len(file) + 1 ELSE c[k + 1] - 2

(* A piece from s to before e: zeros, the start code that ends at o, what  *)
(* was written for a unit, and zeros; then the next start code or the end. *)
Piece(s, o, P, e) ==
    /\ s \in Nat /\ o \in Nat /\ e \in Nat /\ Len(P) \in Nat
    /\ 1 <= s /\ s + 2 <= o /\ o + Len(P) < e /\ e <= Len(file) + 1
    /\ \A j \in s .. o - 1 : file[j] = 0
    /\ file[o] = 1
    /\ \A j \in 1 .. Len(P) : file[o + j] = P[j]
    /\ \A j \in o + Len(P) + 1 .. e - 1 : file[j] = 0
    /\ e <= Len(file) =>
         /\ e + 2 <= Len(file) /\ e + 2 > SeekGuard
         /\ file[e] = 0 /\ file[e + 1] = 0 /\ file[e + 2] = 1

LEMMA PiecesLie ==
    ASSUME NEW c, NEW f, Layout(c, f), NEW k \in Nat, k < Len(sent)
    PROVE  Piece(Cut(c, k), c[k + 1], Prevented(sent[k + 1]), Cut(c, k + 1))
<1>1. /\ file \in Seq(Nat) /\ sent \in Seq(Seq(Nat))
      /\ c \in [1 .. Len(sent) -> Nat] /\ f \in [0 .. Len(sent) -> Nat]
      /\ f[0] = 0 /\ f[Len(sent)] = Len(file)
  BY DEF Layout
<1>2. ASSUME NEW n \in 1 .. Len(sent)
      PROVE  Section(c, f, n) /\ Body(n) \in Nat /\ Body(n) >= 3 /\ Body(n) = Len(Prevented(sent[n]))
  <2>1. Section(c, f, n) /\ \E m, words : Shape(sent[n], m, words)
    BY DEF Layout
  <2>2. PICK m, words : Shape(sent[n], m, words)
    BY <2>1
  <2> QED
    BY <2>1, <2>2, BodyIs DEF Body, Clean
<1>3. PICK N \in Nat, L \in Nat : N = Len(sent) /\ L = Len(file)
  BY <1>1
<1> DEFINE n == k + 1
           P == Prevented(sent[n])
           o == c[n]
           s == Cut(c, k)
           e == Cut(c, n)
           b == f[k]
           h == f[n]
           B == Len(P)
<1>4. n \in 1 .. N /\ n - 1 = k /\ n # 0 /\ k \in 0 .. N /\ n \in 0 .. N
  BY <1>3
<1>5. /\ h <= L /\ o >= 4 /\ o >= b + 3 /\ file[o] = 1
      /\ \A j \in b + 1 .. o - 1 : file[j] = 0
      /\ o + B <= h
      /\ \A j \in 1 .. B : file[o + j] = P[j]
      /\ \A j \in o + B + 1 .. h : file[j] = 0
  BY <1>2, <1>3, <1>4 DEF Section
<1>6. B \in Nat /\ B >= 3 /\ o \in Nat /\ b \in Nat /\ h \in Nat
  BY <1>1, <1>2, <1>3, <1>4
<1>7. s = IF k = 0 THEN 1 ELSE o - 2
  BY <1>3, <1>4 DEF Cut
<1> HIDE DEF P, B
<1>8. s \in Nat /\ 1 <= s /\ s + 2 <= o /\ s >= b + 1
  <2>1. k = 0 => b = 0
    BY <1>1
  <2> HIDE DEF s, o, b, h, n
  <2> QED
    BY <2>1, <1>5, <1>6, <1>7
<1>9. \A j \in s .. o - 1 : file[j] = 0
  <2>1. \A j \in s .. o - 1 : j \in b + 1 .. o - 1
    <3> HIDE DEF s, o, b
    <3> QED
      BY <1>6, <1>8
  <2> QED
    BY <1>5, <2>1
<1>10. CASE n = N
  <2>1. e = L + 1 /\ h = L
    BY <1>1, <1>3, <1>4, <1>10 DEF Cut
  <2>2. o + B < e /\ ~(e <= L) /\ \A j \in o + B + 1 .. e - 1 : j \in o + B + 1 .. h
    <3> HIDE DEF e, h, o
    <3> QED
      BY <2>1, <1>3, <1>5, <1>6
  <2> QED
    BY <2>1, <2>2, <1>3, <1>5, <1>6, <1>8, <1>9 DEF Piece, B, P
<1>11. CASE n # N
  <2> DEFINE q == c[n + 1]
  <2>1. n + 1 \in 1 .. N /\ (n + 1) - 1 = n
    BY <1>3, <1>4, <1>11
  <2>2. Section(c, f, n + 1) /\ Body(n + 1) \in Nat /\ Body(n + 1) >= 3
    BY <1>2, <1>3, <2>1
  <2>3. /\ q \in Nat /\ f[n + 1] \in Nat /\ f[n + 1] <= L
        /\ q + Body(n + 1) <= f[n + 1]
        /\ q >= h + 3 /\ file[q] = 1 /\ \A j \in h + 1 .. q - 1 : file[j] = 0
    <3>1. n + 1 \in 1 .. Len(sent) /\ n + 1 \in 0 .. Len(sent)
      BY <2>1, <1>3
    <3>2. q \in Nat /\ f[n + 1] \in Nat
      BY <3>1, <1>1
    <3>3. f[(n + 1) - 1] = h
      BY <2>1
    <3> HIDE DEF h, n
    <3> QED
      BY <3>2, <3>3, <2>2, <1>3 DEF Section
  <2>4. e = q - 2
    BY <1>3, <1>4, <1>11 DEF Cut
  <2> HIDE DEF e, q, h, o
  <2>5. /\ q <= L /\ e \in Nat /\ e <= L + 1 /\ e + 2 = q /\ e + 2 > 8
        /\ h < e /\ o + B < e
    BY <2>2, <2>3, <2>4, <1>5, <1>6, <1>3
  <2>6. \A j \in o + B + 1 .. e + 1 : j \in o + B + 1 .. h \/ j \in h + 1 .. q - 1
    BY <2>3, <2>4, <1>6
  <2>7. \A j \in o + B + 1 .. e + 1 : file[j] = 0
    BY <2>3, <2>6, <1>5
  <2>8. /\ e \in o + B + 1 .. e + 1 /\ e + 1 \in o + B + 1 .. e + 1
        /\ \A j \in o + B + 1 .. e - 1 : j \in o + B + 1 .. e + 1
    BY <2>5, <1>6
  <2>9. /\ file[e] = 0 /\ file[e + 1] = 0 /\ file[e + 2] = 1
        /\ \A j \in o + B + 1 .. e - 1 : file[j] = 0
    BY <2>3, <2>5, <2>7, <2>8
  <2> QED
    BY <2>5, <2>9, <1>3, <1>5, <1>6, <1>8, <1>9 DEF Piece, SeekGuard, B, P, e, o
<1> QED
  BY <1>10, <1>11

(* What the reader holds in each stage.  The output is the file from one   *)
(* byte to another.                                                        *)
Holds(from, to) ==
    /\ output \in Seq(Nat) /\ Len(output) = to - from + 1
    /\ \A j \in 1 .. Len(output) : output[j] = file[from + j - 1]

Searching(s, o) == stage = "search" /\ at \in s .. o /\ Holds(s, at - 1)
Loading(s, o, e) ==
    /\ stage = "payload" /\ at \in o + 1 .. Len(file) + 1 /\ at <= e + 2
    /\ Holds(s, at - 1)
Prefixed(s, o, e) ==
    stage = "prefix" /\ at = e /\ \E b \in s .. o - 2 : Holds(b, e - 1)
Suffixed(o, P, e) ==
    stage = "suffix" /\ at = e /\ \E h \in o + Len(P) .. e - 1 : Holds(o + 1, h)

(* In the loop over a unit: n bytes of it were restored, from i bytes that *)
(* were written; not from within two zeros and a 3, unless the 3 was taken.*)
NotWithin(P, m) ==
    /\ m + 2 <= Len(P) => ~(P[m] = 0 /\ P[m + 1] = 0 /\ P[m + 2] = 3)
    /\ m + 1 <= Len(P) => ~(ZerosAt(P, m) /\ P[m + 1] = 3)
Restored(unit, P, pos, n) ==
    \/ i = pos[n] /\ NotWithin(P, i)
    \/ /\ i = pos[n] + 1 /\ i <= Len(P) /\ ZerosAt(P, pos[n]) /\ P[i] = 3
       /\ n < Len(unit) => unit[n + 1] <= 3
Parsing(unit, P, e) ==
    /\ stage = "nal" /\ at = e
    /\ numBytesInNalUnit = Len(P) /\ i \in 2 .. Len(P)
    /\ output \in Seq(Nat) /\ Len(output) = Len(P) - i
    /\ \A j \in 1 .. Len(output) : output[j] = P[i + j]
    /\ \E pos : Encodes(unit, P, pos) /\ \E n \in 0 .. Len(unit) :
         /\ rbsp \in Seq(Nat) /\ Len(rbsp) = n /\ \A j \in 1 .. n : rbsp[j] = unit[j]
         /\ Restored(unit, P, pos, n)

(* Reading one byte more.                                                  *)
LEMMA HoldsMore ==
    ASSUME file \in Seq(Nat), NEW s \in Nat, s >= 1, at \in s .. Len(file), Holds(s, at - 1)
    PROVE  LET read == Append(output, file[at])
           IN  /\ read \in Seq(Nat) /\ Len(read) = at - s + 1
               /\ \A j \in 1 .. Len(read) : read[j] = file[s + j - 1]
<1> DEFINE read == Append(output, file[at])
<1>1. /\ output \in Seq(Nat) /\ Len(output) = (at - 1) - s + 1
      /\ \A j \in 1 .. Len(output) : output[j] = file[s + j - 1]
  BY DEF Holds
<1>2. at \in 1 .. Len(file) /\ at \in Nat
  BY LenProperties
<1>3. file[at] \in Nat
  BY <1>2, ElementOfSeq
<1>4. /\ read \in Seq(Nat) /\ Len(read) = Len(output) + 1
      /\ \A j \in 1 .. Len(output) : read[j] = output[j]
      /\ read[Len(output) + 1] = file[at]
  BY <1>1, <1>3, AppendProperties, Zenon
<1> HIDE DEF read
<1>5. Len(output) = at - s /\ Len(read) = at - s + 1
  BY <1>1, <1>2, <1>4
<1>6. ASSUME NEW j \in 1 .. Len(read) PROVE read[j] = file[s + j - 1]
  <2>1. CASE j = Len(output) + 1
    <3>1. s + j - 1 = at
      BY <2>1, <1>2, <1>5
    <3> QED
      BY <2>1, <3>1, <1>4
  <2>2. CASE j # Len(output) + 1
    <3>1. j \in 1 .. Len(output)
      BY <2>2, <1>2, <1>5
    <3> QED
      BY <3>1, <1>1, <1>4
  <2> QED
    BY <2>1, <2>2
<1> QED
  BY <1>4, <1>5, <1>6 DEF read

(* The bytes read end in a start code where the file has one.              *)
LEMMA CodeRead ==
    ASSUME file \in Seq(Nat), NEW s \in Nat, s >= 1, at \in s .. Len(file), Holds(s, at - 1)
    PROVE  IsSuffix(scp24, Append(output, file[at]))
             <=> at >= s + 2 /\ file[at - 2] = 0 /\ file[at - 1] = 0 /\ file[at] = 1
<1> DEFINE read == Append(output, file[at])
           n == Len(read)
<1>1. /\ read \in Seq(Nat) /\ n = at - s + 1
      /\ \A j \in 1 .. n : read[j] = file[s + j - 1]
  BY HoldsMore
<1>2. at \in Nat
  BY LenProperties
<1> HIDE DEF read
<1>3. IsSuffix(scp24, read) <=> ZerosAt(read, n - 1) /\ read[n] = 1
  BY <1>1, StartCodeIs
<1>4. read[n] = file[at]
  <2>0. n \in Nat /\ n >= 1
    BY <1>1, <1>2
  <2>a. n = at - s + 1
    BY <1>1
  <2>1. n \in 1 .. n /\ s + n - 1 = at
    <3> HIDE DEF n
    <3>1. n \in 1 .. n
      BY <2>0
    <3>2. s + n - 1 = at
      BY <2>a, <1>2
    <3> QED
      BY <3>1, <3>2
  <2> QED
    BY <2>1, <1>1
<1>5. n - 1 >= 2 <=> at >= s + 2
  BY <1>1, <1>2
<1>6. ASSUME n - 1 >= 2 PROVE read[n - 1] = file[at - 1] /\ read[(n - 1) - 1] = file[at - 2]
  <2>1. /\ n - 1 \in 1 .. n /\ (n - 1) - 1 \in 1 .. n
        /\ s + (n - 1) - 1 = at - 1 /\ s + ((n - 1) - 1) - 1 = at - 2
    BY <1>1, <1>2, <1>6
  <2> QED
    BY <2>1, <1>1
<1> QED
  BY <1>3, <1>4, <1>5, <1>6 DEF ZerosAt, read

(* The search for a start code takes zeros up to the 1 of the code, and    *)
(* ends there: never before, since only zeros lie there, and it does not   *)
(* abort.                                                                  *)
LEMMA SearchStep ==
    ASSUME file \in Seq(Nat), NEW s, NEW o, NEW P, NEW e, Piece(s, o, P, e), Searching(s, o), Search
    PROVE  (Searching(s, o) \/ Loading(s, o, e))'
<1>1. /\ s \in Nat /\ o \in Nat /\ e \in Nat /\ Len(P) \in Nat
      /\ 1 <= s /\ s + 2 <= o /\ o + Len(P) < e /\ e <= Len(file) + 1
      /\ \A j \in s .. o - 1 : file[j] = 0
      /\ file[o] = 1
  BY DEF Piece
<1>2. at \in s .. o /\ Holds(s, at - 1) /\ stage = "search" /\ at \in Nat
  BY <1>1 DEF Searching
<1>3. at \in s .. Len(file) /\ Len(file) \in Nat
  BY <1>1, <1>2
<1>4. /\ output' = Append(output, file[at]) /\ UNCHANGED file
      /\ file[at] \in {0, 1} => /\ at' = at + 1
                                /\ stage' = IF IsSuffix(scp24, output') THEN "payload" ELSE stage
  BY DEF Search
<1>5. IsSuffix(scp24, output') <=> at >= s + 2 /\ file[at - 2] = 0 /\ file[at - 1] = 0 /\ file[at] = 1
  BY <1>1, <1>2, <1>3, <1>4, CodeRead
<1>6. /\ output' \in Seq(Nat) /\ Len(output') = at - s + 1
      /\ \A j \in 1 .. Len(output') : output'[j] = file[s + j - 1]
  BY <1>1, <1>2, <1>3, <1>4, HoldsMore
<1>7. CASE at = o
  <2>1. /\ at >= s + 2 /\ file[at - 2] = 0 /\ file[at - 1] = 0 /\ file[at] = 1
    <3>1. o - 2 \in s .. o - 1 /\ o - 1 \in s .. o - 1
      BY <1>1
    <3> QED
      BY <3>1, <1>1, <1>7
  <2>2. stage' = "payload" /\ at' = at + 1
    BY <2>1, <1>4, <1>5
  <2>3. at' \in o + 1 .. Len(file) + 1 /\ at' <= e + 2 /\ (at' - 1) - s + 1 = at - s + 1
    BY <2>2, <1>1, <1>2, <1>3, <1>7
  <2>4. Holds(s, at - 1)'
    BY <2>3, <1>4, <1>6 DEF Holds
  <2> QED
    BY <2>2, <2>3, <2>4, <1>4 DEF Loading
<1>8. CASE at # o
  <2>1. at \in s .. o - 1
    BY <1>1, <1>2, <1>8
  <2>2. file[at] = 0
    BY <2>1, <1>1
  <2>3. stage' = "search" /\ at' = at + 1
    BY <2>2, <1>2, <1>4, <1>5
  <2>4. at' \in s .. o /\ (at' - 1) - s + 1 = at - s + 1
    BY <2>1, <2>3, <1>1
  <2>5. Holds(s, at - 1)'
    BY <2>4, <1>4, <1>6 DEF Holds
  <2> QED
    BY <2>3, <2>4, <2>5 DEF Searching
<1> QED
  BY <1>7, <1>8

(* Loading stops at the next start code: what lies between holds none      *)
(* (Clean, NoStartCode), and when the code is found, seekg goes back to    *)
(* its first zero, far enough in the file for the assertion to hold.       *)
LEMMA PayloadStep ==
    ASSUME file \in Seq(Nat), NEW s, NEW o, NEW P, NEW e, Piece(s, o, P, e), Clean(P),
           Loading(s, o, e), Payload
    PROVE  (Loading(s, o, e) \/ Prefixed(s, o, e))'
<1>1. /\ s \in Nat /\ o \in Nat /\ e \in Nat /\ Len(P) \in Nat
      /\ 1 <= s /\ s + 2 <= o /\ o + Len(P) < e /\ e <= Len(file) + 1
      /\ file[o] = 1
      /\ \A j \in 1 .. Len(P) : file[o + j] = P[j]
      /\ \A j \in o + Len(P) + 1 .. e - 1 : file[j] = 0
      /\ e <= Len(file) => /\ e + 2 <= Len(file) /\ e + 2 > SeekGuard
                           /\ file[e] = 0 /\ file[e + 1] = 0 /\ file[e + 2] = 1
  BY DEF Piece
<1>2. at \in o + 1 .. Len(file) + 1 /\ at <= e + 2 /\ Holds(s, at - 1) /\ stage = "payload"
  BY DEF Loading
<1>3. Len(file) \in Nat /\ at \in s .. Len(file) /\ at \in Nat
  BY <1>1, <1>2 DEF Payload
<1> DEFINE read == Append(output, file[at])
           code == IsSuffix(scp24, read)
<1>4. code <=> at >= s + 2 /\ file[at - 2] = 0 /\ file[at - 1] = 0 /\ file[at] = 1
  BY <1>1, <1>2, <1>3, CodeRead
<1>5. /\ read \in Seq(Nat) /\ Len(read) = at - s + 1
      /\ \A j \in 1 .. Len(read) : read[j] = file[s + j - 1]
  BY <1>1, <1>2, <1>3, HoldsMore
<1>6. /\ UNCHANGED file
      /\ IF code
           THEN /\ output' = SubSeq(read, 1, Len(read) - Len(scp24))
                /\ at' = at + 1 - Len(scp24)
                /\ stage' = IF at > SeekGuard THEN "prefix" ELSE "abort"
           ELSE output' = read /\ at' = at + 1 /\ UNCHANGED stage
  BY DEF Payload
<1>s. Len(scp24) = 3
  BY DEF scp24
<1> HIDE DEF read, code
<1>7. CASE at = e + 2
  <2>1. e <= Len(file) /\ at - 2 = e /\ at - 1 = e + 1 /\ at >= s + 2
    BY <1>1, <1>3, <1>7
  <2>2. code /\ at > SeekGuard
    BY <2>1, <1>1, <1>4, <1>7
  <2>3. stage' = "prefix" /\ at' = e /\ output' = SubSeq(read, 1, Len(read) - 3)
    BY <2>1, <2>2, <1>1, <1>6, <1>7, <1>s
  <2> DEFINE n == Len(read) - 3
  <2>4. n \in Nat /\ n = (e - 1) - s + 1 /\ n <= Len(read)
    BY <1>1, <1>5, <1>7
  <2>5. \A j \in 1 .. n : j \in 1 .. Len(read) /\ 1 + j - 1 = j
    BY <2>4, <1>5
  <2>6. \A j \in 1 .. n : read[j] \in Nat
    BY <2>5, <1>5
  <2> HIDE DEF n
  <2>7. /\ SubSeq(read, 1, n) \in Seq(Nat) /\ Len(SubSeq(read, 1, n)) = n
        /\ \A j \in 1 .. n : SubSeq(read, 1, n)[j] = read[j]
    <3>1. /\ SubSeq(read, 1, n) \in Seq(Nat)
          /\ Len(SubSeq(read, 1, n)) = IF 1 <= n THEN n - 1 + 1 ELSE 0
          /\ \A j \in 1 .. n - 1 + 1 : SubSeq(read, 1, n)[j] = read[1 + j - 1]
      BY <2>4, <2>6, SubSeqProperties
    <3> QED
      BY <3>1, <2>4, <2>5
  <2>8. Holds(s, e - 1)'
    BY <2>3, <2>4, <2>5, <2>7, <1>5, <1>6 DEF Holds, n
  <2>9. s \in s .. o - 2
    BY <1>1
  <2> QED
    BY <2>3, <2>8, <2>9 DEF Prefixed
<1>8. CASE at # e + 2
  <2>1. ~code
    <3>1. CASE at = o + 1
      <4>1. at - 1 = o
        BY <3>1, <1>1
      <4> QED
        BY <4>1, <1>1, <1>4
    <3>2. CASE at = o + 2
      <4>1. at - 2 = o
        BY <3>2, <1>1
      <4> QED
        BY <4>1, <1>1, <1>4
    <3>3. CASE at \in o + 3 .. o + Len(P)
      <4> DEFINE j == at - o
      <4>1. /\ j \in 1 .. Len(P) /\ j - 1 \in 1 .. Len(P) /\ j - 2 \in 1 .. Len(P) /\ j - 1 >= 2
            /\ at = o + j /\ at - 1 = o + (j - 1) /\ at - 2 = o + (j - 2)
            /\ (j - 1) - 1 = j - 2 /\ (j - 1) + 1 = j
        BY <3>3, <1>1
      <4> HIDE DEF j
      <4>2. file[at] = P[j] /\ file[at - 1] = P[j - 1] /\ file[at - 2] = P[j - 2]
        BY <4>1, <1>1
      <4>3. ZerosAt(P, j - 1) => P[j] >= 3
        BY <4>1 DEF Clean
      <4>4. ZerosAt(P, j - 1) => P[j] # 1
        BY <4>3
      <4> QED
        BY <4>1, <4>2, <4>4, <1>4 DEF ZerosAt
    <3>4. CASE at \in o + Len(P) + 1 .. e - 1
      BY <3>4, <1>1, <1>4
    <3>5. CASE at = e \/ at = e + 1
      <4>1. e <= Len(file)
        BY <3>5, <1>1, <1>3
      <4>2. file[e] = 0 /\ file[e + 1] = 0
        BY <4>1, <1>1
      <4>3. file[at] = 0
        BY <3>5, <4>2
      <4>4. file[at] # 1
        BY <4>3
      <4> QED
        BY <4>4, <1>4, Zenon
    <3>6. Len(P) >= 3
      BY DEF Clean
    <3>7. \/ at = o + 1 \/ at = o + 2 \/ at \in o + 3 .. o + Len(P)
          \/ at \in o + Len(P) + 1 .. e - 1 \/ at = e \/ at = e + 1
      BY <3>6, <1>1, <1>2, <1>3, <1>8
    <3> QED
      BY <3>1, <3>2, <3>3, <3>4, <3>5, <3>7, Zenon
  <2>2. output' = read /\ at' = at + 1 /\ stage' = "payload"
    BY <2>1, <1>2, <1>6
  <2>3. at' \in o + 1 .. Len(file) + 1 /\ at' <= e + 2 /\ (at' - 1) - s + 1 = at - s + 1
    BY <2>2, <1>1, <1>2, <1>3, <1>8
  <2>4. Holds(s, at - 1)'
    BY <2>2, <2>3, <1>5, <1>6 DEF Holds
  <2> QED
    BY <2>2, <2>3, <2>4, <1>6 DEF Loading
<1> QED
  BY <1>7, <1>8

(* The last unit ends with the file.                                       *)
LEMMA FileEnds ==
    ASSUME file \in Seq(Nat), NEW s, NEW o, NEW P, NEW e, Piece(s, o, P, e), Clean(P),
           Loading(s, o, e), EndOfFile
    PROVE  Prefixed(s, o, e)'
<1>1. /\ s \in Nat /\ o \in Nat /\ e \in Nat /\ s + 2 <= o /\ e <= Len(file) + 1
      /\ e <= Len(file) => e + 2 <= Len(file)
  BY DEF Piece
<1>2. at \in o + 1 .. Len(file) + 1 /\ at <= e + 2 /\ Holds(s, at - 1)
  BY DEF Loading
<1>3. at > Len(file) /\ stage' = "prefix" /\ UNCHANGED <<file, at, output>>
  BY DEF EndOfFile
<1>4. Len(file) \in Nat
  OBVIOUS
<1>5. at = e
  BY <1>1, <1>2, <1>3, <1>4
<1>6. Holds(s, e - 1)'
  BY <1>2, <1>3, <1>5 DEF Holds
<1>7. s \in s .. o - 2
  BY <1>1
<1> QED
  BY <1>3, <1>5, <1>6, <1>7 DEF Prefixed

(* Dropping bytes at the beginning.                                        *)
LEMMA HoldsLess ==
    ASSUME NEW from \in Nat, NEW to \in Nat, Holds(from, to), NEW n \in Nat, n <= Len(output),
           output' = Consumed(n), UNCHANGED file
    PROVE  Holds(from + n, to)'
<1>1. /\ output \in Seq(Nat) /\ Len(output) = to - from + 1 /\ Len(output) \in Nat
      /\ \A j \in 1 .. Len(output) : output[j] = file[from + j - 1]
  BY DEF Holds
<1>2. \A j \in n + 1 .. Len(output) : output[j] \in Nat
  BY <1>1
<1> DEFINE r == SubSeq(output, n + 1, Len(output))
<1>3. /\ r \in Seq(Nat)
      /\ Len(r) = IF n + 1 <= Len(output) THEN Len(output) - (n + 1) + 1 ELSE 0
      /\ \A j \in 1 .. Len(output) - (n + 1) + 1 : r[j] = output[n + 1 + j - 1]
  BY <1>1, <1>2, SubSeqProperties
<1>4. output' = r
  BY DEF Consumed
<1> HIDE DEF r
<1>5. Len(r) = Len(output) - n /\ Len(r) = to - (from + n) + 1
  BY <1>1, <1>3
<1>6. ASSUME NEW j \in 1 .. Len(r) PROVE r[j] = file[from + n + j - 1]
  <2>1. /\ j \in 1 .. Len(output) - (n + 1) + 1 /\ n + j \in 1 .. Len(output)
        /\ n + 1 + j - 1 = n + j /\ from + (n + j) - 1 = from + n + j - 1
    BY <1>1, <1>5
  <2> QED
    BY <2>1, <1>1, <1>3
<1> QED
  BY <1>3, <1>4, <1>5, <1>6 DEF Holds

(* A leading zero is dropped only while a start code lies behind it.       *)
LEMMA LeadingZeroStep ==
    ASSUME file \in Seq(Nat), NEW s, NEW o, NEW P, NEW e, Piece(s, o, P, e),
           Prefixed(s, o, e), LeadingZero8Bits
    PROVE  Prefixed(s, o, e)'
<1>1. /\ s \in Nat /\ o \in Nat /\ e \in Nat /\ 1 <= s /\ s + 2 <= o /\ Len(P) \in Nat
      /\ \A j \in s .. o - 1 : file[j] = 0
      /\ file[o] = 1 /\ o + Len(P) < e
  BY DEF Piece
<1>2. PICK b \in s .. o - 2 : Holds(b, e - 1)
  BY DEF Prefixed
<1>3. /\ output \in Seq(Nat) /\ Len(output) = (e - 1) - b + 1
      /\ \A j \in 1 .. Len(output) : output[j] = file[b + j - 1]
  BY <1>2 DEF Holds
<1>4. b # o - 2
  <2> SUFFICES ASSUME b = o - 2 PROVE FALSE
    OBVIOUS
  <2>1. /\ 1 \in 1 .. Len(output) /\ 2 \in 1 .. Len(output) /\ 3 \in 1 .. Len(output)
        /\ b + 1 - 1 = o - 2 /\ b + 2 - 1 = o - 1 /\ b + 3 - 1 = o /\ Len(output) >= 3
        /\ o - 2 \in s .. o - 1 /\ o - 1 \in s .. o - 1
    BY <1>1, <1>3
  <2>2. output[1] = 0 /\ output[2] = 0 /\ output[3] = 1
    BY <2>1, <1>1, <1>3
  <2>3. Peeked(scp24)
    BY <2>1, <2>2, <1>3, ThreePeeked DEF scp24
  <2> QED
    BY <2>3 DEF LeadingZero8Bits
<1>5. stage' = "prefix" /\ at' = e /\ UNCHANGED file /\ output' = Consumed(1)
  BY DEF LeadingZero8Bits, Prefixed
<1>6. b \in Nat /\ e - 1 \in Nat /\ 1 \in Nat /\ 1 <= Len(output) /\ b + 1 \in s .. o - 2
  BY <1>1, <1>3, <1>4
<1>7. Holds(b + 1, e - 1)'
  BY <1>2, <1>5, <1>6, HoldsLess
<1> QED
  BY <1>5, <1>6, <1>7 DEF Prefixed

(* The start code that is taken is the one in front of the unit, whether   *)
(* the zero before it counts as part of it or was dropped.                 *)
LEMMA StartCodeStep ==
    ASSUME file \in Seq(Nat), NEW s, NEW o, NEW P, NEW e, Piece(s, o, P, e), Clean(P),
           Prefixed(s, o, e), StartCodePrefix
    PROVE  Suffixed(o, P, e)'
<1>1. /\ s \in Nat /\ o \in Nat /\ e \in Nat /\ 1 <= s /\ s + 2 <= o /\ Len(P) \in Nat
      /\ \A j \in s .. o - 1 : file[j] = 0
      /\ file[o] = 1 /\ o + Len(P) < e
  BY DEF Piece
<1>2. PICK b \in s .. o - 2 : Holds(b, e - 1)
  BY DEF Prefixed
<1>3. /\ output \in Seq(Nat) /\ Len(output) = (e - 1) - b + 1
      /\ \A j \in 1 .. Len(output) : output[j] = file[b + j - 1]
  BY <1>2 DEF Holds
<1>4. PICK scp \in {scp24, scp32} : Peeked(scp) /\ output' = Consumed(Len(scp))
  BY DEF StartCodePrefix
<1>5. stage' = "suffix" /\ at' = e /\ UNCHANGED file
  BY DEF StartCodePrefix, Prefixed
<1>6. b \in Nat /\ e - 1 \in Nat /\ Len(output) >= 3 /\ Len(output) \in Nat
  BY <1>1, <1>3
<1>7. Len(scp) \in Nat /\ Len(scp) <= Len(output) /\ b + Len(scp) = o + 1
  <2>1. CASE scp = scp24
    <3>1. Len(scp) = 3 /\ output[3] = 1
      BY <2>1, <1>3, <1>4, ThreePeeked DEF scp24
    <3>2. file[b + 2] = 1
      <4>1. 3 \in 1 .. Len(output) /\ b + 3 - 1 = b + 2
        BY <1>6
      <4> QED
        BY <3>1, <4>1, <1>3
    <3>3. b + 2 \notin s .. o - 1
      BY <3>2, <1>1
    <3>4. b + 2 = o
      BY <3>3, <1>1
    <3> QED
      BY <3>1, <3>4, <1>1, <1>6
  <2>2. CASE scp = scp32
    <3>1. Len(scp) = 4 /\ Len(output) >= 4 /\ output[3] = 0 /\ output[4] = 1
      BY <2>2, <1>3, <1>4, FourPeeked DEF scp32
    <3>2. file[b + 3] = 1 /\ file[b + 2] = 0
      <4>1. 4 \in 1 .. Len(output) /\ b + 4 - 1 = b + 3 /\ 3 \in 1 .. Len(output) /\ b + 3 - 1 = b + 2
        BY <3>1, <1>6
      <4> QED
        BY <3>1, <4>1, <1>3
    <3>3. b + 3 \notin s .. o - 1 /\ b + 2 # o
      BY <3>2, <1>1
    <3>4. b + 3 = o
      BY <3>3, <1>1
    <3> QED
      BY <3>1, <3>4, <1>1, <1>6
  <2> QED
    BY <2>1, <2>2
<1>8. Holds(o + 1, e - 1)'
  <2>1. Holds(b + Len(scp), e - 1)'
    BY <1>2, <1>4, <1>5, <1>6, <1>7, HoldsLess
  <2> QED
    BY <2>1, <1>7
<1>9. e - 1 \in o + Len(P) .. e - 1
  BY <1>1
<1> QED
  BY <1>5, <1>8, <1>9 DEF Suffixed

(* A trailing zero that is dropped is none of the unit's: what is written  *)
(* for a unit ends in another byte.                                        *)
LEMMA TrailingZeroStep ==
    ASSUME file \in Seq(Nat), NEW s, NEW o, NEW P, NEW e, Piece(s, o, P, e), Clean(P),
           Suffixed(o, P, e), TrailingZero8Bits
    PROVE  Suffixed(o, P, e)'
<1>1. /\ o \in Nat /\ e \in Nat /\ Len(P) \in Nat /\ Len(P) >= 3 /\ o + Len(P) < e
      /\ file[o + Len(P)] = P[Len(P)] /\ P[Len(P)] # 0
  <2>1. Len(P) \in 1 .. Len(P)
    BY DEF Clean
  <2> QED
    BY <2>1 DEF Piece, Clean
<1>2. PICK h \in o + Len(P) .. e - 1 : Holds(o + 1, h)
  BY DEF Suffixed
<1>3. /\ output \in Seq(Nat) /\ Len(output) = h - (o + 1) + 1
      /\ \A j \in 1 .. Len(output) : output[j] = file[o + 1 + j - 1]
  BY <1>2 DEF Holds
<1> DEFINE n == Len(output) - 1
<1>4. /\ h \in Nat /\ n \in Nat /\ n + 1 = Len(output) /\ n = (h - 1) - (o + 1) + 1
      /\ Len(output) \in 1 .. Len(output) /\ o + 1 + Len(output) - 1 = h
  BY <1>1, <1>3
<1>5. h # o + Len(P)
  <2>1. file[h] = 0
    BY <1>3, <1>4 DEF TrailingZero8Bits, Last
  <2> QED
    BY <2>1, <1>1
<1>6. stage' = "suffix" /\ at' = e /\ UNCHANGED file /\ output' = SubSeq(output, 1, n)
  BY DEF TrailingZero8Bits, Suffixed, Front
<1> HIDE DEF n
<1>7. \A j \in 1 .. n : j \in 1 .. Len(output)
  BY <1>4
<1>8. \A j \in 1 .. n : output[j] \in Nat
  BY <1>3, <1>7
<1>9. /\ SubSeq(output, 1, n) \in Seq(Nat) /\ Len(SubSeq(output, 1, n)) = n
      /\ \A j \in 1 .. n : SubSeq(output, 1, n)[j] = output[j]
  <2>1. /\ SubSeq(output, 1, n) \in Seq(Nat)
        /\ Len(SubSeq(output, 1, n)) = IF 1 <= n THEN n - 1 + 1 ELSE 0
        /\ \A j \in 1 .. n - 1 + 1 : SubSeq(output, 1, n)[j] = output[1 + j - 1]
    BY <1>4, <1>8, SubSeqProperties
  <2> QED
    BY <2>1, <1>4
<1>10. Holds(o + 1, h - 1)'
  BY <1>3, <1>4, <1>6, <1>7, <1>9 DEF Holds
<1>11. h - 1 \in o + Len(P) .. e - 1
  BY <1>1, <1>4, <1>5
<1> QED
  BY <1>6, <1>10, <1>11 DEF Suffixed

(* No zero being left, the output is what was written for the unit; the    *)
(* header was never escaped.                                               *)
LEMMA HeaderStep ==
    ASSUME file \in Seq(Nat), NEW s, NEW o, NEW unit, NEW m, NEW words, Shape(unit, m, words),
           NEW e, Piece(s, o, Prevented(unit), e), Suffixed(o, Prevented(unit), e), NalUnitHeader
    PROVE  Parsing(unit, Prevented(unit), e)'
<1> DEFINE P == Prevented(unit)
<1>1. unit \in Seq(Nat) /\ unit[1] = 0 /\ unit[2] = 1 /\ Len(unit) >= 3 /\ Len(unit) \in Nat
  BY DEF Shape
<1>2. PICK pos : Encodes(unit, P, pos)
  BY <1>1, PreventedEncodes
<1>3. Clean(P)
  BY BodyIs
<1>4. pos[2] = 2
  BY <1>2, WrittenEnds
<1>5. /\ o \in Nat /\ e \in Nat /\ Len(P) \in Nat /\ Len(P) >= 3 /\ o + Len(P) < e
      /\ \A j \in 1 .. Len(P) : file[o + j] = P[j]
      /\ \A j \in o + Len(P) + 1 .. e - 1 : file[j] = 0
      /\ P \in Seq(Nat) /\ P[1] = 0 /\ P[2] = 1
  BY <1>3 DEF Piece, Clean
<1>6. PICK h \in o + Len(P) .. e - 1 : Holds(o + 1, h)
  BY DEF Suffixed
<1>7. /\ output \in Seq(Nat) /\ Len(output) = h - (o + 1) + 1
      /\ \A j \in 1 .. Len(output) : output[j] = file[o + 1 + j - 1]
  BY <1>6 DEF Holds
<1> HIDE DEF P
<1>8. h = o + Len(P)
  <2>1. /\ Len(output) \in 1 .. Len(output) /\ o + 1 + Len(output) - 1 = h
    BY <1>5, <1>7
  <2>2. file[h] # 0
    BY <2>1, <1>7 DEF NalUnitHeader, Last
  <2>3. h \notin o + Len(P) + 1 .. e - 1
    BY <2>2, <1>5
  <2> DEFINE q == o + Len(P)
  <2>4. q \in Nat /\ h \in q .. e - 1 /\ h \notin q + 1 .. e - 1 /\ e \in Nat
    BY <2>3, <1>5, <1>6
  <2> HIDE DEF q
  <2>5. h = q
    BY <2>4
  <2> QED
    BY <2>5 DEF q
<1>9. Len(output) = Len(P)
  BY <1>5, <1>7, <1>8
<1>10. \A j \in 1 .. Len(P) : output[j] = P[j]
  <2>1. \A j \in 1 .. Len(P) : o + 1 + j - 1 = o + j
    BY <1>5
  <2> QED
    BY <2>1, <1>5, <1>7, <1>9
<1>11. /\ numBytesInNalUnit' = Len(P) /\ rbsp' = SubSeq(output, 1, 2) /\ i' = 2
       /\ output' = SubSeq(output, 3, Len(output)) /\ stage' = "nal" /\ at' = e
  <2>1. 2 + 1 = 3
    OBVIOUS
  <2> QED
    BY <2>1, <1>9 DEF NalUnitHeader, Consumed, Suffixed
<1>12. /\ output' \in Seq(Nat) /\ Len(output') = Len(P) - 2
       /\ \A j \in 1 .. Len(output') : output'[j] = P[2 + j]
  <2> DEFINE r == SubSeq(output, 3, Len(output))
  <2>1. \A j \in 3 .. Len(output) : output[j] \in Nat
    BY <1>7
  <2>2. /\ r \in Seq(Nat) /\ Len(r) = IF 3 <= Len(output) THEN Len(output) - 3 + 1 ELSE 0
        /\ \A j \in 1 .. Len(output) - 3 + 1 : r[j] = output[3 + j - 1]
    BY <2>1, <1>5, <1>9, SubSeqProperties
  <2> HIDE DEF r
  <2>3. Len(r) = Len(P) - 2
    BY <2>2, <1>5, <1>9
  <2>4. \A j \in 1 .. Len(r) : /\ j \in 1 .. Len(output) - 3 + 1 /\ 3 + j - 1 = 2 + j
                               /\ 2 + j \in 1 .. Len(P)
    BY <2>3, <1>5, <1>9
  <2>5. \A j \in 1 .. Len(r) : r[j] = P[2 + j]
    BY <2>2, <2>4, <1>10
  <2> QED
    BY <2>2, <2>3, <2>5, <1>11 DEF r
<1>13. /\ rbsp' \in Seq(Nat) /\ Len(rbsp') = 2 /\ \A j \in 1 .. 2 : rbsp'[j] = unit[j]
  <2> DEFINE r == SubSeq(output, 1, 2)
  <2>1. 1 \in 1 .. Len(P) /\ 2 \in 1 .. Len(P) /\ \A j \in 1 .. 2 : j = 1 \/ j = 2
    BY <1>5
  <2>2. output[1] = 0 /\ output[2] = 1
    BY <2>1, <1>5, <1>10
  <2>3. \A j \in 1 .. 2 : output[j] \in Nat
    BY <2>1, <2>2
  <2>4. /\ r \in Seq(Nat) /\ Len(r) = 2 /\ \A j \in 1 .. 2 : r[j] = output[j]
    <3>1. /\ r \in Seq(Nat) /\ Len(r) = IF 1 <= 2 THEN 2 - 1 + 1 ELSE 0
          /\ \A j \in 1 .. 2 - 1 + 1 : r[j] = output[1 + j - 1]
      BY <2>3, SubSeqProperties
    <3> HIDE DEF r
    <3> QED
      BY <3>1
  <2> QED
    BY <2>1, <2>2, <2>4, <1>1, <1>11
<1>14. NotWithin(P, 2)
  BY <1>5 DEF NotWithin, ZerosAt
<1>15. 2 \in 0 .. Len(unit) /\ 2 \in 2 .. Len(P)
  BY <1>1, <1>5
<1>16. Restored(unit, P, pos, 2)'
  BY <1>4, <1>11, <1>14 DEF Restored
<1>17. Parsing(unit, P, e)'
  BY <1>2, <1>11, <1>12, <1>13, <1>15, <1>16 DEF Parsing
<1> QED
  BY <1>17 DEF P

(* The steps of the loop over a unit.  What follows in the output.         *)
LEMMA TakeOutput ==
    ASSUME NEW P \in Seq(Nat), i \in 2 .. Len(P), output \in Seq(Nat), Len(output) = Len(P) - i,
           \A j \in 1 .. Len(output) : output[j] = P[i + j],
           NEW t \in Nat, t <= Len(output), i' = i + t, output' = Consumed(t)
    PROVE  /\ i' \in 2 .. Len(P)
           /\ output' \in Seq(Nat) /\ Len(output') = Len(P) - i'
           /\ \A j \in 1 .. Len(output') : output'[j] = P[i' + j]
<1>1. Len(P) \in Nat /\ i \in Nat /\ Len(output) \in Nat
  OBVIOUS
<1> DEFINE r == SubSeq(output, t + 1, Len(output))
<1>2. \A j \in t + 1 .. Len(output) : output[j] \in Nat
  OBVIOUS
<1>3. /\ r \in Seq(Nat)
      /\ Len(r) = IF t + 1 <= Len(output) THEN Len(output) - (t + 1) + 1 ELSE 0
      /\ \A j \in 1 .. Len(output) - (t + 1) + 1 : r[j] = output[t + 1 + j - 1]
  BY <1>1, <1>2, SubSeqProperties
<1>4. output' = r
  BY DEF Consumed
<1> HIDE DEF r
<1>5. Len(r) = Len(output) - t
  <2>1. CASE t + 1 <= Len(output)
    BY <2>1, <1>1, <1>3
  <2>2. CASE ~(t + 1 <= Len(output))
    <3>1. t = Len(output)
      <4> DEFINE all == Len(output)
      <4>1. all \in Nat /\ t <= all /\ ~(t + 1 <= all)
        BY <2>2, <1>1
      <4> HIDE DEF all
      <4>2. t = all
        BY <4>1
      <4> QED
        BY <4>2 DEF all
    <3>2. Len(r) = 0
      BY <2>2, <1>3
    <3> QED
      BY <3>1, <3>2
  <2> QED
    BY <2>1, <2>2
<1>6. i + t \in 2 .. Len(P) /\ Len(r) = Len(P) - (i + t)
  BY <1>1, <1>5
<1>7. ASSUME NEW j \in 1 .. Len(r) PROVE r[j] = P[i + t + j]
  <2>1. /\ j \in 1 .. Len(output) - (t + 1) + 1 /\ t + 1 + j - 1 = t + j
        /\ t + j \in 1 .. Len(output) /\ i + (t + j) = i + t + j
    BY <1>1, <1>5
  <2> QED
    BY <2>1, <1>3
<1> QED
  BY <1>3, <1>4, <1>6, <1>7

(* The three bytes before which the loop looks.                            *)
LEMMA PresentIs ==
    ASSUME NEW P \in Seq(Nat), numBytesInNalUnit = Len(P), i \in 2 .. Len(P),
           output \in Seq(Nat), Len(output) = Len(P) - i,
           \A j \in 1 .. Len(output) : output[j] = P[i + j]
    PROVE  EmulationPresent <=> i + 3 <= Len(P) /\ P[i + 1] = 0 /\ P[i + 2] = 0 /\ P[i + 3] = 3
<1>1. Len(P) \in Nat /\ i \in Nat /\ Len(output) \in Nat
  OBVIOUS
<1>2. Peeked(emulPrevent)
        <=> Len(output) >= 3 /\ output[1] = 0 /\ output[2] = 0 /\ output[3] = 3
  BY ThreePeeked DEF emulPrevent
<1>3. Len(emulPrevent) = 3
  BY DEF emulPrevent
<1>4. Len(output) >= 3 => /\ output[1] = P[i + 1] /\ output[2] = P[i + 2] /\ output[3] = P[i + 3]
  <2>1. Len(output) >= 3 => 1 \in 1 .. Len(output) /\ 2 \in 1 .. Len(output) /\ 3 \in 1 .. Len(output)
    BY <1>1
  <2> QED
    BY <2>1
<1>5. Len(output) >= 3 <=> i + 3 <= Len(P)
  BY <1>1
<1>6. i + 3 <= Len(P) <=> Len(P) - i >= 3 /\ i + 2 < Len(P)
  BY <1>1
<1> QED
  BY <1>2, <1>3, <1>4, <1>5, <1>6 DEF EmulationPresent

(* Where the loop stands is where a byte of the unit was written, unless   *)
(* the unit is at its end.                                                 *)
LEMMA MoreToRestore ==
    ASSUME NEW unit \in Seq(Nat), NEW P, NEW pos, Encodes(unit, P, pos), NEW n \in 0 .. Len(unit),
           i \in 2 .. Len(P), Restored(unit, P, pos, n)
    PROVE  /\ i < Len(P) <=> n < Len(unit)
           /\ i < Len(P) => /\ n + 1 \in 1 .. Len(unit)
                            /\ pos[n + 1] = i + 1
                            /\ P[i + 1] = unit[n + 1]
                            /\ i + 2 <= Len(P) => ~(ZerosAt(P, i + 1) /\ P[i + 2] = 3)
<1>1. /\ P \in Seq(Nat) /\ Len(P) \in Nat /\ Len(unit) \in Nat
      /\ \A k \in 0 .. Len(unit) : pos[k] \in 0 .. Len(P)
  BY EncodedBounds
<1>2. i \in Nat /\ n \in Nat /\ i >= 2 /\ i <= Len(P) /\ pos[n] \in Nat /\ pos[n] <= Len(P)
  BY <1>1
<1>3. CASE n = Len(unit)
  <2>1. /\ Len(P) = pos[n] + (IF ZerosAt(P, pos[n]) THEN 1 ELSE 0)
        /\ ZerosAt(P, pos[n]) => P[Len(P)] = 3
    BY <1>3 DEF Encodes
  <2>2. ~(i < Len(P))
    <3>1. CASE i = pos[n] /\ NotWithin(P, i)
      <4>1. ~ZerosAt(P, pos[n])
        <5> SUFFICES ASSUME ZerosAt(P, pos[n]) PROVE FALSE
          OBVIOUS
        <5>1. Len(P) = i + 1 /\ P[i + 1] = 3 /\ ZerosAt(P, i)
          BY <2>1, <3>1
        <5>2. i + 1 <= Len(P)
          BY <5>1, <1>2
        <5> QED
          BY <3>1, <5>1, <5>2 DEF NotWithin
      <4> QED
        BY <2>1, <3>1, <4>1, <1>2
    <3>2. CASE i = pos[n] + 1 /\ ZerosAt(P, pos[n])
      BY <2>1, <3>2, <1>1, <1>2
    <3> QED
      BY <3>1, <3>2 DEF Restored
  <2> QED
    BY <2>2, <1>3
<1>4. CASE n # Len(unit)
  <2>1. n + 1 \in 1 .. Len(unit) /\ n = (n + 1) - 1 /\ n < Len(unit)
    BY <1>1, <1>4
  <2>2. NextAt(unit, P, pos, n, n + 1)
    BY <2>1, NextByte
  <2> DEFINE b == pos[n + 1]
  <2>3. /\ b = pos[n] + (IF ZerosAt(P, pos[n]) /\ unit[n + 1] <= 3 THEN 2 ELSE 1)
        /\ ZerosAt(P, pos[n]) /\ unit[n + 1] <= 3 => P[pos[n] + 1] = 3
        /\ P[b] = unit[n + 1] /\ b \in 1 .. Len(P)
    BY <2>2 DEF NextAt
  <2> HIDE DEF b
  <2>4. b = i + 1 /\ (i + 2 <= Len(P) => ~(ZerosAt(P, i + 1) /\ P[i + 2] = 3))
    <3>1. CASE i = pos[n] /\ NotWithin(P, i)
      <4>1. ~(ZerosAt(P, pos[n]) /\ unit[n + 1] <= 3)
        <5> SUFFICES ASSUME ZerosAt(P, pos[n]), unit[n + 1] <= 3 PROVE FALSE
          OBVIOUS
        <5>1. b = i + 2 /\ P[i + 1] = 3 /\ ZerosAt(P, i)
          BY <2>3, <3>1
        <5>2. i + 1 <= Len(P)
          BY <5>1, <2>3, <1>1, <1>2
        <5> QED
          BY <3>1, <5>1, <5>2 DEF NotWithin
      <4>2. b = i + 1
        BY <2>3, <3>1, <4>1
      <4>3. ASSUME i + 2 <= Len(P), ZerosAt(P, i + 1), P[i + 2] = 3 PROVE FALSE
        <5>1. P[i] = 0 /\ P[i + 1] = 0
          <6>1. (i + 1) - 1 = i
            BY <1>2
          <6> QED
            BY <4>3, <6>1 DEF ZerosAt
        <5> QED
          BY <3>1, <4>3, <5>1 DEF NotWithin
      <4> QED
        BY <4>2, <4>3
    <3>2. CASE /\ i = pos[n] + 1 /\ ZerosAt(P, pos[n]) /\ P[i] = 3
               /\ n < Len(unit) => unit[n + 1] <= 3
      <4>1. b = pos[n] + 2
        BY <2>1, <2>3, <3>2
      <4>2. b = i + 1 /\ (i + 1) - 1 = i
        BY <3>2, <4>1, <1>2
      <4>3. ~ZerosAt(P, i + 1)
        BY <3>2, <4>2 DEF ZerosAt
      <4> QED
        BY <4>2, <4>3
    <3> QED
      BY <3>1, <3>2 DEF Restored
  <2>5. i < Len(P)
    BY <2>3, <2>4, <1>1, <1>2
  <2> QED
    BY <2>1, <2>3, <2>4, <2>5 DEF b
<1> QED
  BY <1>3, <1>4

(* A byte taken as it is is the next one of the unit.                      *)
LEMMA RbspByteStep ==
    ASSUME NEW unit \in Seq(Nat), NEW P, NEW e, Parsing(unit, P, e), RbspByte
    PROVE  Parsing(unit, P, e)'
<1>a. PICK pos : /\ Encodes(unit, P, pos)
                 /\ \E n \in 0 .. Len(unit) :
                      /\ rbsp \in Seq(Nat) /\ Len(rbsp) = n /\ \A j \in 1 .. n : rbsp[j] = unit[j]
                      /\ Restored(unit, P, pos, n)
  BY DEF Parsing
<1>b. PICK n \in 0 .. Len(unit) :
        /\ rbsp \in Seq(Nat) /\ Len(rbsp) = n /\ \A j \in 1 .. n : rbsp[j] = unit[j]
        /\ Restored(unit, P, pos, n)
  BY <1>a
<1>1. /\ Encodes(unit, P, pos)
      /\ rbsp \in Seq(Nat) /\ Len(rbsp) = n /\ \A j \in 1 .. n : rbsp[j] = unit[j]
      /\ Restored(unit, P, pos, n)
  BY <1>a, <1>b
<1>2. /\ stage = "nal" /\ at = e /\ numBytesInNalUnit = Len(P) /\ i \in 2 .. Len(P)
      /\ output \in Seq(Nat) /\ Len(output) = Len(P) - i
      /\ \A j \in 1 .. Len(output) : output[j] = P[i + j]
  BY DEF Parsing
<1>3. P \in Seq(Nat) /\ Len(P) \in Nat /\ Len(unit) \in Nat
  BY <1>1, EncodedBounds, Zenon
<1>4. /\ ~EmulationPresent /\ i < Len(P)
      /\ rbsp' = Append(rbsp, output[1]) /\ output' = Consumed(1) /\ i' = i + 1
      /\ UNCHANGED <<at, stage, numBytesInNalUnit>>
  BY <1>2 DEF RbspByte
<1>5. /\ n + 1 \in 1 .. Len(unit) /\ pos[n + 1] = i + 1 /\ P[i + 1] = unit[n + 1]
      /\ i + 2 <= Len(P) => ~(ZerosAt(P, i + 1) /\ P[i + 2] = 3)
  <2>1. /\ i < Len(P) <=> n < Len(unit)
        /\ i < Len(P) => /\ n + 1 \in 1 .. Len(unit)
                         /\ pos[n + 1] = i + 1
                         /\ P[i + 1] = unit[n + 1]
                         /\ i + 2 <= Len(P) => ~(ZerosAt(P, i + 1) /\ P[i + 2] = 3)
    <3>1. Encodes(unit, P, pos) /\ i \in 2 .. Len(P) /\ Restored(unit, P, pos, n)
      BY <1>1, <1>2
    <3> QED
      BY <3>1, MoreToRestore, Zenon
  <2> QED
    BY <2>1, <1>4
<1>6. i + 3 <= Len(P) => ~(P[i + 1] = 0 /\ P[i + 2] = 0 /\ P[i + 3] = 3)
  BY <1>2, <1>3, <1>4, PresentIs
<1>7. i \in Nat /\ 1 \in Nat /\ 1 <= Len(output) /\ 1 \in 1 .. Len(output) /\ n \in Nat
  BY <1>2, <1>3, <1>4
<1>8. /\ i' \in 2 .. Len(P) /\ output' \in Seq(Nat) /\ Len(output') = Len(P) - i'
      /\ \A j \in 1 .. Len(output') : output'[j] = P[i' + j]
  BY <1>2, <1>3, <1>4, <1>7, TakeOutput
<1>9. /\ rbsp' \in Seq(Nat) /\ Len(rbsp') = n + 1 /\ \A j \in 1 .. n + 1 : rbsp'[j] = unit[j]
  <2>1. output[1] = unit[n + 1] /\ output[1] \in Nat
    BY <1>2, <1>5, <1>7
  <2>2. /\ rbsp' \in Seq(Nat) /\ Len(rbsp') = n + 1 /\ rbsp'[n + 1] = output[1]
        /\ \A j \in 1 .. n : rbsp'[j] = rbsp[j]
    BY <2>1, <1>1, <1>4, AppendProperties
  <2>3. \A j \in 1 .. n + 1 : j \in 1 .. n \/ j = n + 1
    BY <1>7
  <2> QED
    BY <2>1, <2>2, <2>3, <1>1
<1>10. NotWithin(P, i + 1)
  <2>1. (i + 1) + 1 = i + 2 /\ (i + 1) + 2 = i + 3
    BY <1>7
  <2> QED
    BY <2>1, <1>5, <1>6 DEF NotWithin
<1>11. Restored(unit, P, pos, n + 1)'
  BY <1>4, <1>5, <1>10 DEF Restored
<1>12. n + 1 \in 0 .. Len(unit)
  BY <1>3, <1>5
<1> QED
  BY <1>1, <1>2, <1>4, <1>8, <1>9, <1>11, <1>12 DEF Parsing

(* The two zeros and the 3: the zeros are the next two bytes of the unit,  *)
(* the 3 was put there by the writer.                                      *)
LEMMA EmulationStep ==
    ASSUME NEW unit \in Seq(Nat), NEW P, NEW e, Parsing(unit, P, e), EmulationPrevention
    PROVE  Parsing(unit, P, e)'
<1>a. PICK pos : /\ Encodes(unit, P, pos)
                 /\ \E n \in 0 .. Len(unit) :
                      /\ rbsp \in Seq(Nat) /\ Len(rbsp) = n /\ \A j \in 1 .. n : rbsp[j] = unit[j]
                      /\ Restored(unit, P, pos, n)
  BY DEF Parsing
<1>b. PICK n \in 0 .. Len(unit) :
        /\ rbsp \in Seq(Nat) /\ Len(rbsp) = n /\ \A j \in 1 .. n : rbsp[j] = unit[j]
        /\ Restored(unit, P, pos, n)
  BY <1>a
<1>1. /\ Encodes(unit, P, pos)
      /\ rbsp \in Seq(Nat) /\ Len(rbsp) = n /\ \A j \in 1 .. n : rbsp[j] = unit[j]
      /\ Restored(unit, P, pos, n)
  BY <1>a, <1>b
<1>2. /\ stage = "nal" /\ at = e /\ numBytesInNalUnit = Len(P) /\ i \in 2 .. Len(P)
      /\ output \in Seq(Nat) /\ Len(output) = Len(P) - i
      /\ \A j \in 1 .. Len(output) : output[j] = P[i + j]
  BY DEF Parsing
<1>3. P \in Seq(Nat) /\ Len(P) \in Nat /\ Len(unit) \in Nat
  BY <1>1, EncodedBounds, Zenon
<1>4. /\ EmulationPresent /\ i < Len(P)
      /\ rbsp' = rbsp \o SubSeq(output, 1, 2) /\ output' = Consumed(3) /\ i' = i + 3
      /\ UNCHANGED <<at, stage, numBytesInNalUnit>>
  BY <1>2 DEF EmulationPrevention
<1>5. /\ n + 1 \in 1 .. Len(unit) /\ pos[n + 1] = i + 1 /\ P[i + 1] = unit[n + 1]
  <2>1. /\ i < Len(P) <=> n < Len(unit)
        /\ i < Len(P) => /\ n + 1 \in 1 .. Len(unit)
                         /\ pos[n + 1] = i + 1
                         /\ P[i + 1] = unit[n + 1]
                         /\ i + 2 <= Len(P) => ~(ZerosAt(P, i + 1) /\ P[i + 2] = 3)
    <3>1. Encodes(unit, P, pos) /\ i \in 2 .. Len(P) /\ Restored(unit, P, pos, n)
      BY <1>1, <1>2
    <3> QED
      BY <3>1, MoreToRestore, Zenon
  <2> QED
    BY <2>1, <1>4
<1>6. i + 3 <= Len(P) /\ P[i + 1] = 0 /\ P[i + 2] = 0 /\ P[i + 3] = 3
  BY <1>2, <1>3, <1>4, PresentIs
<1>7. i \in Nat /\ n \in Nat /\ 3 \in Nat /\ 3 <= Len(output)
  BY <1>2, <1>3, <1>6
<1>8. /\ i' \in 2 .. Len(P) /\ output' \in Seq(Nat) /\ Len(output') = Len(P) - i'
      /\ \A j \in 1 .. Len(output') : output'[j] = P[i' + j]
  BY <1>2, <1>3, <1>4, <1>7, TakeOutput
<1>9. ~ZerosAt(P, i + 1)
  <2> SUFFICES ASSUME ZerosAt(P, i + 1) PROVE FALSE
    OBVIOUS
  <2>1. i + 1 \in 1 .. Len(P) /\ (i + 1) + 1 = i + 2
    BY <1>3, <1>6, <1>7
  <2>2. P[i + 2] >= 3
    BY <2>1, <1>1, NoStartCode
  <2> QED
    BY <2>2, <1>6
<1>10. n + 2 \in 1 .. Len(unit) /\ pos[n + 2] = i + 2 /\ unit[n + 2] = 0
  <2>1. n + 1 # Len(unit)
    <3> SUFFICES ASSUME n + 1 = Len(unit) PROVE FALSE
      OBVIOUS
    <3>1. Len(P) = (i + 1) + 0
      BY <1>1, <1>5, <1>9 DEF Encodes
    <3> QED
      BY <3>1, <1>6, <1>7
  <2>2. n + 2 \in 1 .. Len(unit) /\ n + 1 = (n + 2) - 1
    BY <2>1, <1>3, <1>5, <1>7
  <2>3. NextAt(unit, P, pos, n + 1, n + 2)
    BY <2>2, <1>1, NextByte
  <2>4. pos[n + 2] = (i + 1) + 1 /\ P[pos[n + 2]] = unit[n + 2]
    BY <2>3, <1>5, <1>9 DEF NextAt
  <2>5. (i + 1) + 1 = i + 2
    BY <1>7
  <2> QED
    BY <2>2, <2>4, <2>5, <1>6
<1>11. ZerosAt(P, i + 2)
  <2>1. (i + 2) - 1 = i + 1 /\ i + 2 >= 2
    BY <1>7
  <2> QED
    BY <2>1, <1>6 DEF ZerosAt
<1>12. n + 2 < Len(unit) => unit[(n + 2) + 1] <= 3
  <2> SUFFICES ASSUME n + 2 < Len(unit), ~(unit[(n + 2) + 1] <= 3) PROVE FALSE
    OBVIOUS
  <2> DEFINE k == (n + 2) + 1
  <2>1. k \in 1 .. Len(unit) /\ n + 2 = k - 1
    BY <1>3, <1>7
  <2>2. NextAt(unit, P, pos, n + 2, k)
    <3> HIDE DEF k
    <3> QED
      BY <2>1, <1>1, NextByte
  <2>3. pos[k] = (i + 2) + 1 /\ P[pos[k]] = unit[k]
    BY <2>2, <1>10 DEF NextAt
  <2>4. (i + 2) + 1 = i + 3
    BY <1>7
  <2>5. unit[k] = 3
    BY <2>3, <2>4, <1>6
  <2> QED
    BY <2>5
<1>13. Restored(unit, P, pos, n + 2)'
  <2>1. i + 3 = (i + 2) + 1
    BY <1>7
  <2> QED
    BY <2>1, <1>4, <1>6, <1>10, <1>11, <1>12 DEF Restored
<1>14. /\ rbsp' \in Seq(Nat) /\ Len(rbsp') = n + 2 /\ \A j \in 1 .. n + 2 : rbsp'[j] = unit[j]
  <2> DEFINE r == SubSeq(output, 1, 2)
  <2>1. /\ r \in Seq(Nat) /\ Len(r) = 2 /\ r[1] = 0 /\ r[2] = 0
    <3>1. 1 \in 1 .. Len(output) /\ 2 \in 1 .. Len(output)
      BY <1>2, <1>7
    <3>2. output[1] = 0 /\ output[2] = 0
      BY <3>1, <1>2, <1>6
    <3>3. \A j \in 1 .. 2 : output[j] \in Nat
      <4>1. \A j \in 1 .. 2 : j = 1 \/ j = 2
        OBVIOUS
      <4> QED
        BY <3>2, <4>1
    <3>4. /\ r \in Seq(Nat) /\ Len(r) = IF 1 <= 2 THEN 2 - 1 + 1 ELSE 0
          /\ \A j \in 1 .. 2 - 1 + 1 : r[j] = output[1 + j - 1]
      BY <3>3, SubSeqProperties
    <3> HIDE DEF r
    <3> QED
      BY <3>2, <3>4
  <2> HIDE DEF r
  <2>2. /\ rbsp \o r \in Seq(Nat) /\ Len(rbsp \o r) = Len(rbsp) + Len(r)
        /\ \A j \in 1 .. Len(rbsp) + Len(r) :
             (rbsp \o r)[j] = IF j <= Len(rbsp) THEN rbsp[j] ELSE r[j - Len(rbsp)]
    BY <2>1, <1>1, ConcatProperties, Zenon
  <2>3. rbsp' = rbsp \o r
    BY <1>4 DEF r
  <2>4. /\ rbsp' \in Seq(Nat) /\ Len(rbsp') = n + 2
        /\ \A j \in 1 .. n + 2 : rbsp'[j] = IF j <= n THEN rbsp[j] ELSE r[j - n]
    BY <2>1, <2>2, <2>3, <1>1
  <2>5. ASSUME NEW j \in 1 .. n + 2 PROVE rbsp'[j] = unit[j]
    <3>1. CASE j \in 1 .. n
      <4>1. j <= n
        BY <3>1, <1>7
      <4> QED
        BY <3>1, <4>1, <2>4, <1>1
    <3>2. CASE j = n + 1
      <4>1. ~(j <= n) /\ j - n = 1
        BY <3>2, <1>7
      <4> QED
        BY <3>2, <4>1, <2>1, <2>4, <1>5, <1>6
    <3>3. CASE j = n + 2
      <4>1. ~(j <= n) /\ j - n = 2
        BY <3>3, <1>7
      <4> QED
        BY <3>3, <4>1, <2>1, <2>4, <1>10
    <3> QED
      BY <3>1, <3>2, <3>3, <1>7
  <2> QED
    BY <2>4, <2>5
<1>15. n + 2 \in 0 .. Len(unit)
  BY <1>3, <1>7, <1>10
<1> QED
  BY <1>1, <1>2, <1>4, <1>8, <1>13, <1>14, <1>15 DEF Parsing

(* When the count is reached all bytes of the unit are restored.           *)
LEMMA UnitRestored ==
    ASSUME NEW unit \in Seq(Nat), NEW P, NEW e, Parsing(unit, P, e), FinishNalUnit
    PROVE  rbsp = unit /\ at' = e /\ stage' = "next" /\ units' = Append(units, unit)
<1>a. PICK pos : /\ Encodes(unit, P, pos)
                 /\ \E n \in 0 .. Len(unit) :
                      /\ rbsp \in Seq(Nat) /\ Len(rbsp) = n /\ \A j \in 1 .. n : rbsp[j] = unit[j]
                      /\ Restored(unit, P, pos, n)
  BY DEF Parsing
<1>b. PICK n \in 0 .. Len(unit) :
        /\ rbsp \in Seq(Nat) /\ Len(rbsp) = n /\ \A j \in 1 .. n : rbsp[j] = unit[j]
        /\ Restored(unit, P, pos, n)
  BY <1>a
<1>1. /\ Encodes(unit, P, pos)
      /\ rbsp \in Seq(Nat) /\ Len(rbsp) = n /\ \A j \in 1 .. n : rbsp[j] = unit[j]
      /\ Restored(unit, P, pos, n)
  BY <1>a, <1>b
<1>2. at = e /\ numBytesInNalUnit = Len(P) /\ i \in 2 .. Len(P)
  BY DEF Parsing
<1>3. i < Len(P) <=> n < Len(unit)
  BY <1>1, <1>2, MoreToRestore, Zenon
<1>4. Len(P) \in Nat /\ Len(unit) \in Nat
  BY <1>1, EncodedBounds, Zenon
<1>5. n = Len(unit)
  BY <1>2, <1>3, <1>4 DEF FinishNalUnit
<1>6. rbsp = unit
  BY <1>1, <1>5, SeqEqual
<1> QED
  BY <1>2, <1>6 DEF FinishNalUnit

---------------------------------------------------------------------------
(* The invariant: the file is laid out as Annex B says, the units parsed   *)
(* so far are the first of those sent, and what goes on is between two     *)
(* units or within the next one.                                           *)
Lies(c, k, unit, s, o, e) ==
    /\ unit = sent[k + 1]
    /\ s = Cut(c, k) /\ o = c[k + 1] /\ e = Cut(c, k + 1)
InUnit(unit, s, o, e) ==
    \/ Searching(s, o)
    \/ Loading(s, o, e)
    \/ Prefixed(s, o, e)
    \/ Suffixed(o, Prevented(unit), e)
    \/ Parsing(unit, Prevented(unit), e)
Recovered(k) ==
    /\ k \in Nat /\ k <= Len(sent)
    /\ units \in Seq(Seq(Nat)) /\ Len(units) = k
    /\ \A j \in 1 .. k : units[j] = sent[j]
Progress(c, k) ==
    \/ stage = "write" /\ k = 0 /\ at = 1
    \/ stage = "next" /\ sent # <<>> /\ at = Cut(c, k)
    \/ stage = "end" /\ k = Len(sent) /\ at = Len(file) + 1
    \/ k < Len(sent) /\ \E unit, s, o, e : Lies(c, k, unit, s, o, e) /\ InUnit(unit, s, o, e)
StreamInv ==
    /\ i \in Nat /\ numBytesInNalUnit \in Nat
    /\ \E c, f, k : Layout(c, f) /\ Recovered(k) /\ Progress(c, k)

(* Where the next unit lies in the file.                                   *)
LEMMA UnitLies ==
    ASSUME NEW c, NEW f, Layout(c, f), NEW k \in Nat, k < Len(sent),
           NEW unit, NEW s, NEW o, NEW e, Lies(c, k, unit, s, o, e)
    PROVE  /\ file \in Seq(Nat) /\ unit \in Seq(Nat)
           /\ \E m, words : Shape(unit, m, words)
           /\ Piece(s, o, Prevented(unit), e)
           /\ Clean(Prevented(unit))
<1>1. /\ file \in Seq(Nat) /\ sent \in Seq(Seq(Nat))
      /\ \A n \in 1 .. Len(sent) : \E m, words : Shape(sent[n], m, words)
  BY DEF Layout
<1>2. k + 1 \in 1 .. Len(sent)
  BY <1>1
<1>3. PICK m, words : Shape(unit, m, words)
  BY <1>1, <1>2 DEF Lies
<1>4. unit \in Seq(Nat)
  BY <1>3 DEF Shape
<1>5. Piece(s, o, Prevented(unit), e)
  <2>1. Piece(Cut(c, k), c[k + 1], Prevented(sent[k + 1]), Cut(c, k + 1))
    BY PiecesLie, Zenon
  <2> QED
    BY <2>1, Zenon DEF Lies
<1>6. Clean(Prevented(unit))
  BY <1>3, BodyIs, Zenon
<1> QED
  BY <1>1, <1>3, <1>4, <1>5, <1>6

(* The steps within a unit stay within it, and none aborts.                *)
LEMMA StepWithin ==
    ASSUME NEW c, NEW f, Layout(c, f), NEW k \in Nat, k < Len(sent),
           NEW unit, NEW s, NEW o, NEW e, Lies(c, k, unit, s, o, e), InUnit(unit, s, o, e),
           \/ Search \/ Payload \/ EndOfFile
           \/ LeadingZero8Bits \/ StartCodePrefix \/ TrailingZero8Bits \/ NalUnitHeader
           \/ EmulationPrevention \/ RbspByte
    PROVE  /\ InUnit(unit, s, o, e)'
           /\ UNCHANGED <<sent, file, units>>
<1>1. /\ file \in Seq(Nat) /\ unit \in Seq(Nat)
      /\ \E m, words : Shape(unit, m, words)
      /\ Piece(s, o, Prevented(unit), e)
      /\ Clean(Prevented(unit))
  BY UnitLies, Zenon
<1>2. PICK m, words : Shape(unit, m, words)
  BY <1>1
<1>3. UNCHANGED <<sent, file, units>>
  BY DEF Search, Payload, EndOfFile, LeadingZero8Bits, StartCodePrefix, TrailingZero8Bits,
         NalUnitHeader, EmulationPrevention, RbspByte
<1>4. /\ stage = "search" => Searching(s, o)
      /\ stage = "payload" => Loading(s, o, e)
      /\ stage = "prefix" => Prefixed(s, o, e)
      /\ stage = "suffix" => Suffixed(o, Prevented(unit), e)
      /\ stage = "nal" => Parsing(unit, Prevented(unit), e)
  BY DEF InUnit, Searching, Loading, Prefixed, Suffixed, Parsing
<1>5. CASE Search
  <2>1. Searching(s, o)
    BY <1>4, <1>5 DEF Search
  <2>2. (Searching(s, o) \/ Loading(s, o, e))'
    BY <2>1, <1>1, <1>5, SearchStep
  <2> QED
    BY <2>2, <1>3 DEF InUnit
<1>6. CASE Payload
  <2>1. Loading(s, o, e)
    BY <1>4, <1>6 DEF Payload
  <2>2. (Loading(s, o, e) \/ Prefixed(s, o, e))'
    BY <2>1, <1>1, <1>6, PayloadStep
  <2> QED
    BY <2>2, <1>3 DEF InUnit
<1>7. CASE EndOfFile
  <2>1. Loading(s, o, e)
    BY <1>4, <1>7 DEF EndOfFile
  <2>2. Prefixed(s, o, e)'
    BY <2>1, <1>1, <1>7, FileEnds
  <2> QED
    BY <2>2, <1>3 DEF InUnit
<1>8. CASE LeadingZero8Bits
  <2>1. Prefixed(s, o, e)
    BY <1>4, <1>8 DEF LeadingZero8Bits
  <2>2. Prefixed(s, o, e)'
    BY <2>1, <1>1, <1>8, LeadingZeroStep
  <2> QED
    BY <2>2, <1>3 DEF InUnit
<1>9. CASE StartCodePrefix
  <2>1. Prefixed(s, o, e)
    BY <1>4, <1>9 DEF StartCodePrefix
  <2>2. Suffixed(o, Prevented(unit), e)'
    BY <2>1, <1>1, <1>9, StartCodeStep
  <2> QED
    BY <2>2, <1>3 DEF InUnit
<1>10. CASE TrailingZero8Bits
  <2>1. Suffixed(o, Prevented(unit), e)
    BY <1>4, <1>10 DEF TrailingZero8Bits
  <2>2. Suffixed(o, Prevented(unit), e)'
    BY <2>1, <1>1, <1>10, TrailingZeroStep
  <2> QED
    BY <2>2, <1>3 DEF InUnit
<1>11. CASE NalUnitHeader
  <2>1. Suffixed(o, Prevented(unit), e)
    BY <1>4, <1>11 DEF NalUnitHeader
  <2>2. Parsing(unit, Prevented(unit), e)'
    BY <2>1, <1>1, <1>2, <1>11, HeaderStep
  <2> QED
    BY <2>2, <1>3 DEF InUnit
<1>12. CASE EmulationPrevention
  <2>1. Parsing(unit, Prevented(unit), e)
    BY <1>4, <1>12 DEF EmulationPrevention
  <2>2. Parsing(unit, Prevented(unit), e)'
    BY <2>1, <1>1, <1>12, EmulationStep
  <2> QED
    BY <2>2, <1>3 DEF InUnit
<1>13. CASE RbspByte
  <2>1. Parsing(unit, Prevented(unit), e)
    BY <1>4, <1>13 DEF RbspByte
  <2>2. Parsing(unit, Prevented(unit), e)'
    BY <2>1, <1>1, <1>13, RbspByteStep
  <2> QED
    BY <2>2, <1>3 DEF InUnit
<1> QED
  BY <1>5, <1>6, <1>7, <1>8, <1>9, <1>10, <1>11, <1>12, <1>13

(* Before anything is written the layout is empty.                         *)
LEMMA InvInit == Init => StreamInv
<1> SUFFICES ASSUME Init PROVE StreamInv
  OBVIOUS
<1> DEFINE c == [n \in 1 .. 0 |-> 0]
           f == [n \in 0 .. 0 |-> 0]
<1>1. sent = <<>> /\ file = <<>> /\ units = <<>> /\ stage = "write" /\ at = 1
  BY DEF Init
<1>2. Len(sent) = 0 /\ Len(file) = 0 /\ sent \in Seq(Seq(Nat)) /\ file \in Seq(Nat)
  BY <1>1
<1>3. c \in [1 .. 0 -> Nat] /\ f \in [0 .. 0 -> Nat] /\ f[0] = 0
  OBVIOUS
<1> HIDE DEF c, f
<1>4. Layout(c, f)
  BY <1>2, <1>3 DEF Layout
<1>5. Recovered(0)
  BY <1>1, <1>2 DEF Recovered
<1>6. Progress(c, 0)
  BY <1>1 DEF Progress
<1> QED
  BY <1>4, <1>5, <1>6 DEF StreamInv, Init

(* Every action keeps the invariant.                                       *)
LEMMA InvNext == StreamInv /\ [Next]_vars => StreamInv'
<1> SUFFICES ASSUME StreamInv, [Next]_vars PROVE StreamInv'
  OBVIOUS
<1>1. PICK c, f, k : Layout(c, f) /\ Recovered(k) /\ Progress(c, k)
  BY DEF StreamInv
<1>2. i \in Nat /\ numBytesInNalUnit \in Nat
  BY DEF StreamInv
<1>3. /\ k \in Nat /\ k <= Len(sent) /\ Len(sent) \in Nat /\ Len(file) \in Nat
      /\ sent \in Seq(Seq(Nat)) /\ file \in Seq(Nat)
      /\ units \in Seq(Seq(Nat)) /\ Len(units) = k /\ \A j \in 1 .. k : units[j] = sent[j]
  BY <1>1 DEF Recovered, Layout
<1>4. ASSUME UNCHANGED <<sent, file, units>>, Progress(c, k)', i' \in Nat, numBytesInNalUnit' \in Nat
      PROVE  StreamInv'
  <2>1. Layout(c, f)'
    BY <1>1, <1>4, LayoutKept
  <2>2. Recovered(k)'
    BY <1>1, <1>4 DEF Recovered
  <2> QED
    BY <1>4, <2>1, <2>2 DEF StreamInv
<1>5. CASE Write
  <2>1. PICK d, g : Layout(d, g)'
    BY <1>1, <1>5, LayoutGrows, Zenon
  <2>2. stage = "write" /\ UNCHANGED <<at, stage, numBytesInNalUnit, i, units>>
    BY <1>5 DEF Write
  <2>3. k = 0 /\ at = 1
    BY <2>2, <1>1 DEF Progress, InUnit, Searching, Loading, Prefixed, Suffixed, Parsing
  <2>4. Len(sent') \in Nat
    BY <2>1 DEF Layout
  <2>5. Recovered(0)'
    BY <2>2, <2>3, <2>4, <1>3 DEF Recovered
  <2>6. Progress(d, 0)'
    BY <2>2, <2>3 DEF Progress
  <2> QED
    BY <2>1, <2>2, <2>5, <2>6, <1>2 DEF StreamInv
<1>6. CASE Close
  <2>1. /\ stage = "write" /\ stage' = "next" /\ sent # <<>>
        /\ UNCHANGED <<sent, file, at, numBytesInNalUnit, i, units>>
    BY <1>6 DEF Close
  <2>2. k = 0 /\ at = 1
    BY <2>1, <1>1 DEF Progress, InUnit, Searching, Loading, Prefixed, Suffixed, Parsing
  <2>3. Progress(c, k)'
    BY <2>1, <2>2 DEF Progress, Cut
  <2> QED
    BY <2>1, <2>3, <1>2, <1>4
<1>7. CASE NextUnit
  <2>1. /\ stage = "next" /\ output' = <<>>
        /\ IF at > Len(file) THEN stage' = "end" ELSE stage' = "search"
        /\ UNCHANGED <<sent, file, at, numBytesInNalUnit, i, units>>
    BY <1>7 DEF NextUnit
  <2>2. sent # <<>> /\ at = Cut(c, k)
    BY <2>1, <1>1 DEF Progress, InUnit, Searching, Loading, Prefixed, Suffixed, Parsing
  <2>3. CASE k = Len(sent)
    <3>1. k # 0
      BY <2>2, <2>3, <1>3
    <3>2. at = Len(file) + 1
      BY <2>2, <2>3, <3>1 DEF Cut
    <3>3. stage' = "end"
      BY <2>1, <3>2, <1>3
    <3>4. Progress(c, k)'
      BY <2>1, <2>3, <3>2, <3>3 DEF Progress
    <3> QED
      BY <2>1, <3>4, <1>2, <1>4
  <2>4. CASE k # Len(sent)
    <3>1. k < Len(sent)
      BY <2>4, <1>3
    <3>2. PICK unit, s, o, e : Lies(c, k, unit, s, o, e)
      BY DEF Lies
    <3>3. Piece(s, o, Prevented(unit), e)
      BY <1>1, <1>3, <3>1, <3>2, UnitLies, Zenon
    <3>4. /\ s \in Nat /\ o \in Nat /\ e \in Nat /\ Len(Prevented(unit)) \in Nat /\ s + 2 <= o
          /\ o + Len(Prevented(unit)) < e /\ e <= Len(file) + 1 /\ at = s
      BY <2>2, <3>2, <3>3 DEF Piece, Lies
    <3>5. ~(at > Len(file)) /\ at \in s .. o /\ at - 1 - s + 1 = 0
      BY <3>4, <1>3
    <3>6. Searching(s, o)'
      BY <2>1, <3>4, <3>5 DEF Searching, Holds
    <3>7. InUnit(unit, s, o, e)'
      BY <3>6 DEF InUnit
    <3>8. Lies(c, k, unit, s, o, e)'
      BY <2>1, <3>2 DEF Lies, Cut
    <3>9. Progress(c, k)'
      BY <2>1, <3>1, <3>7, <3>8 DEF Progress
    <3> QED
      BY <2>1, <3>9, <1>2, <1>4
  <2> QED
    BY <2>3, <2>4
<1>8. ASSUME stage \notin {"write", "next", "end"}
      PROVE  k < Len(sent) /\ \E unit, s, o, e : Lies(c, k, unit, s, o, e) /\ InUnit(unit, s, o, e)
  BY <1>1, <1>8 DEF Progress
<1>9. CASE \/ Search \/ Payload \/ EndOfFile
           \/ LeadingZero8Bits \/ StartCodePrefix \/ TrailingZero8Bits \/ NalUnitHeader
           \/ EmulationPrevention \/ RbspByte
  <2>1. stage \notin {"write", "next", "end"}
    BY <1>9 DEF Search, Payload, EndOfFile, LeadingZero8Bits, StartCodePrefix, TrailingZero8Bits,
                NalUnitHeader, EmulationPrevention, RbspByte
  <2>2. PICK unit, s, o, e : k < Len(sent) /\ Lies(c, k, unit, s, o, e) /\ InUnit(unit, s, o, e)
    BY <2>1, <1>8
  <2>3. /\ InUnit(unit, s, o, e)'
        /\ UNCHANGED <<sent, file, units>>
    BY <2>2, <1>1, <1>3, <1>9, StepWithin
  <2>4. Lies(c, k, unit, s, o, e)'
    BY <2>2, <2>3 DEF Lies, Cut
  <2>5. Progress(c, k)'
    BY <2>2, <2>3, <2>4 DEF Progress
  <2>6. i' \in Nat
    BY <1>2, <1>9 DEF Search, Payload, EndOfFile, LeadingZero8Bits, StartCodePrefix,
                      TrailingZero8Bits, NalUnitHeader, EmulationPrevention, RbspByte
  <2>7. numBytesInNalUnit' \in Nat
    <3>1. CASE NalUnitHeader
      <4>1. Suffixed(o, Prevented(unit), e)
        BY <3>1, <2>2 DEF NalUnitHeader, InUnit, Searching, Loading, Prefixed, Suffixed, Parsing
      <4>2. output \in Seq(Nat)
        BY <4>1 DEF Suffixed, Holds
      <4> QED
        BY <4>2, <3>1 DEF NalUnitHeader
    <3>2. CASE ~NalUnitHeader
      BY <3>2, <1>2, <1>9 DEF Search, Payload, EndOfFile, LeadingZero8Bits, StartCodePrefix,
                              TrailingZero8Bits, EmulationPrevention, RbspByte
    <3> QED
      BY <3>1, <3>2
  <2> QED
    BY <2>3, <2>5, <2>6, <2>7, <1>4
<1>10. CASE FinishNalUnit
  <2>1. stage = "nal" /\ UNCHANGED <<sent, file, numBytesInNalUnit, i>>
    BY <1>10 DEF FinishNalUnit
  <2>2. PICK unit, s, o, e : k < Len(sent) /\ Lies(c, k, unit, s, o, e) /\ InUnit(unit, s, o, e)
    BY <2>1, <1>8
  <2>3. unit \in Seq(Nat)
    BY <2>2, <1>1, <1>3, UnitLies, Zenon
  <2>4. Parsing(unit, Prevented(unit), e)
    BY <2>1, <2>2 DEF InUnit, Searching, Loading, Prefixed, Suffixed
  <2>5. at' = e /\ stage' = "next" /\ units' = Append(units, unit)
    BY <2>3, <2>4, <1>10, UnitRestored, Zenon
  <2>6. unit = sent[k + 1] /\ e = Cut(c, k + 1)
    BY <2>2 DEF Lies
  <2>7. k + 1 \in Nat /\ k + 1 <= Len(sent) /\ sent # <<>>
    BY <2>2, <1>3
  <2>8. /\ units' \in Seq(Seq(Nat)) /\ Len(units') = k + 1 /\ units'[k + 1] = unit
        /\ \A j \in 1 .. k : units'[j] = units[j]
    BY <2>3, <2>5, <1>3, AppendProperties
  <2>9. Recovered(k + 1)'
    <3>1. \A j \in 1 .. k + 1 : j \in 1 .. k \/ j = k + 1
      BY <1>3
    <3>2. \A j \in 1 .. k + 1 : units'[j] = sent[j]
      BY <3>1, <2>6, <2>8, <1>3
    <3> QED
      BY <3>2, <2>1, <2>7, <2>8 DEF Recovered
  <2>10. Progress(c, k + 1)'
    <3>1. at' = Cut(c, k + 1)'
      BY <2>1, <2>5, <2>6 DEF Cut
    <3> QED
      BY <3>1, <2>1, <2>5, <2>7 DEF Progress
  <2>11. Layout(c, f)'
    BY <1>1, <2>1, LayoutKept
  <2> QED
    BY <2>1, <2>9, <2>10, <2>11, <1>2 DEF StreamInv
<1>11. CASE UNCHANGED vars
  <2>1. /\ UNCHANGED <<sent, file, at, stage, output, numBytesInNalUnit, i, rbsp, units>>
    BY <1>11 DEF vars
  <2>2. Progress(c, k)'
    BY <2>1, <1>1 DEF Progress, Lies, InUnit, Cut, Searching, Loading, Prefixed, Suffixed, Parsing,
                      Holds, Restored
  <2> QED
    BY <2>1, <2>2, <1>2, <1>4
<1> QED
  BY <1>5, <1>6, <1>7, <1>9, <1>10, <1>11 DEF Next

(* So it holds throughout.                                                 *)
LEMMA InvHolds == Spec => []StreamInv
  BY InvInit, InvNext, PTL DEF Spec

(* Every NAL unit parsed is the next one that was sent, byte for byte:     *)
(* whatever zeros lie in a payload or around it, however often emulation   *)
(* was prevented in it and wherever the start codes are of three or four   *)
(* bytes, the cuts of parse(), the trims of StreamNalUnit::onParse and the *)
(* loop of NalUnit::onParse take away exactly what the writer put there.   *)
THEOREM UnitsAlwaysRecovered == Spec => []UnitsRecovered
<1>1. StreamInv => UnitsRecovered
  <2> SUFFICES ASSUME StreamInv PROVE UnitsRecovered
    OBVIOUS
  <2>1. PICK c, f, k : Layout(c, f) /\ Recovered(k)
    BY DEF StreamInv
  <2>2. units \in Seq(Seq(Nat)) /\ sent \in Seq(Seq(Nat))
    BY <2>1 DEF Recovered, Layout
  <2>3. Len(units) <= Len(sent) /\ \A j \in 1 .. Len(units) : units[j] = sent[j]
    BY <2>1 DEF Recovered
  <2> QED
    BY <2>2, <2>3, PrefixOf, Zenon DEF UnitsRecovered
<1> QED
  BY <1>1, InvHolds, PTL

(* The iterator of the file never passes its end, and the count of bytes   *)
(* that the loop of NalUnit::onParse keeps is that of the bytes it took:   *)
(* what it counts as left is what is left in the stream.                   *)
THEOREM StreamTyped == Spec => []TypeOK
<1>1. StreamInv => TypeOK
  <2> SUFFICES ASSUME StreamInv PROVE TypeOK
    OBVIOUS
  <2>1. PICK c, f, k : Layout(c, f) /\ Recovered(k) /\ Progress(c, k)
    BY DEF StreamInv
  <2>2. i \in Nat /\ numBytesInNalUnit \in Nat
    BY DEF StreamInv
  <2>3. k \in Nat /\ k <= Len(sent) /\ Len(sent) \in Nat /\ Len(file) \in Nat
    BY <2>1 DEF Recovered, Layout
  <2>4. CASE stage = "write" /\ at = 1
    BY <2>2, <2>3, <2>4 DEF TypeOK
  <2>5. CASE stage = "next" /\ at = Cut(c, k)
    <3>1. at \in 1 .. Len(file) + 1
      <4>1. CASE k < Len(sent)
        <5>1. PICK unit, s, o, e : Lies(c, k, unit, s, o, e)
          BY DEF Lies
        <5>2. Piece(s, o, Prevented(unit), e)
          BY <2>1, <2>3, <4>1, <5>1, UnitLies, Zenon
        <5> QED
          BY <5>1, <5>2, <2>3, <2>5 DEF Piece, Lies
      <4>2. CASE k = Len(sent)
        BY <4>2, <2>3, <2>5 DEF Cut
      <4> QED
        BY <4>1, <4>2, <2>3
    <3> QED
      BY <3>1, <2>2, <2>5 DEF TypeOK
  <2>6. CASE stage = "end" /\ at = Len(file) + 1
    BY <2>2, <2>3, <2>6 DEF TypeOK
  <2>7. CASE k < Len(sent) /\ \E unit, s, o, e : Lies(c, k, unit, s, o, e) /\ InUnit(unit, s, o, e)
    <3>1. PICK unit, s, o, e : Lies(c, k, unit, s, o, e) /\ InUnit(unit, s, o, e)
      BY <2>7
    <3>2. Piece(s, o, Prevented(unit), e)
      BY <2>1, <2>3, <2>7, <3>1, UnitLies, Zenon
    <3>3. /\ s \in Nat /\ o \in Nat /\ e \in Nat /\ Len(Prevented(unit)) \in Nat /\ 1 <= s /\ s + 2 <= o
          /\ o + Len(Prevented(unit)) < e /\ e <= Len(file) + 1
      BY <3>2 DEF Piece
    <3>4. at \in 1 .. Len(file) + 1 /\ stage \in {"search", "payload", "prefix", "suffix", "nal"}
      BY <3>1, <3>3, <2>3 DEF InUnit, Searching, Loading, Prefixed, Suffixed, Parsing
    <3>5. stage = "nal" => i + Len(output) = numBytesInNalUnit
      <4> SUFFICES ASSUME stage = "nal" PROVE i + Len(output) = numBytesInNalUnit
        OBVIOUS
      <4>1. Parsing(unit, Prevented(unit), e)
        BY <3>1 DEF InUnit, Searching, Loading, Prefixed, Suffixed
      <4> QED
        BY <4>1, <3>3 DEF Parsing
    <3> QED
      BY <3>4, <3>5, <2>2 DEF TypeOK
  <2> QED
    BY <2>1, <2>4, <2>5, <2>6, <2>7 DEF Progress
<1> QED
  BY <1>1, InvHolds, PTL

(* No call of runtime_assert fails on such a file, and State::exec returns *)
(* only when every unit was parsed.  What is left of EveryUnitParsed is    *)
(* that it returns.                                                        *)
THEOREM OnlyEndsComplete == Spec => [](stage # "abort" /\ (stage = "end" => units = sent))
<1>1. StreamInv => stage # "abort" /\ (stage = "end" => units = sent)
  <2> SUFFICES ASSUME StreamInv PROVE stage # "abort" /\ (stage = "end" => units = sent)
    OBVIOUS
  <2>1. PICK c, f, k : Layout(c, f) /\ Recovered(k) /\ Progress(c, k)
    BY DEF StreamInv
  <2>2. stage # "abort" /\ (stage = "end" => k = Len(sent))
    BY <2>1 DEF Progress, InUnit, Searching, Loading, Prefixed, Suffixed, Parsing
  <2>3. ASSUME k = Len(sent) PROVE units = sent
    <3>1. /\ units \in Seq(Seq(Nat)) /\ sent \in Seq(Seq(Nat)) /\ Len(units) = Len(sent)
          /\ \A j \in 1 .. Len(units) : units[j] = sent[j]
      BY <2>1, <2>3 DEF Recovered, Layout
    <3> QED
      BY <3>1, SeqEqual
  <2> QED
    BY <2>2, <2>3
<1> QED
  BY <1>1, InvHolds, PTL

-------------------------------------------------------------------------------
(* Every step of the parser leaves less to do, so that it ends.            *)
LEMMA StagesAre ==
    /\ stage = "write" => StagesLeft = 7
    /\ stage = "next" => StagesLeft = 6
    /\ stage = "search" => StagesLeft = 5
    /\ stage = "payload" => StagesLeft = 4
    /\ stage = "prefix" => StagesLeft = 3
    /\ stage = "suffix" => StagesLeft = 2
    /\ stage = "nal" => StagesLeft = 1
    /\ stage = "end" => StagesLeft = 0
    /\ stage = "abort" => StagesLeft = 0
    /\ stage' = "write" => StagesLeft' = 7
    /\ stage' = "next" => StagesLeft' = 6
    /\ stage' = "search" => StagesLeft' = 5
    /\ stage' = "payload" => StagesLeft' = 4
    /\ stage' = "prefix" => StagesLeft' = 3
    /\ stage' = "suffix" => StagesLeft' = 2
    /\ stage' = "nal" => StagesLeft' = 1
    /\ stage' = "end" => StagesLeft' = 0
    /\ stage' = "abort" => StagesLeft' = 0
BY DEF StagesLeft

(* How one triple is less than another.                                    *)
LEMMA LessBy ==
    ASSUME NEW a1 \in Int, NEW a2 \in Int, NEW a3 \in Int,
           NEW b1 \in Int, NEW b2 \in Int, NEW b3 \in Int,
           \/ a1 < b1
           \/ a1 = b1 /\ a2 < b2
           \/ a1 = b1 /\ a2 = b2 /\ a3 < b3
    PROVE  Less(<<a1, a2, a3>>, <<b1, b2, b3>>)
<1> DEFINE a == <<a1, a2, a3>>
           b == <<b1, b2, b3>>
<1>1. /\ a[1] = a1 /\ a[2] = a2 /\ a[3] = a3
      /\ b[1] = b1 /\ b[2] = b2 /\ b[3] = b3
  OBVIOUS
<1> HIDE DEF a, b
<1>2. CASE a1 < b1
  <2>1. 1 \in 1 .. 3 /\ a[1] < b[1] /\ \A m \in 1 .. 1 - 1 : a[m] = b[m]
    BY <1>1, <1>2
  <2> QED
    BY <2>1 DEF Less, a, b
<1>3. CASE a1 = b1 /\ a2 < b2
  <2>1. 2 \in 1 .. 3 /\ a[2] < b[2] /\ \A m \in 1 .. 2 - 1 : m = 1
    BY <1>1, <1>3
  <2>2. \A m \in 1 .. 2 - 1 : a[m] = b[m]
    BY <1>1, <1>3, <2>1
  <2> QED
    BY <2>1, <2>2 DEF Less, a, b
<1>4. CASE a1 = b1 /\ a2 = b2 /\ a3 < b3
  <2>1. 3 \in 1 .. 3 /\ a[3] < b[3] /\ \A m \in 1 .. 3 - 1 : m = 1 \/ m = 2
    BY <1>1, <1>4
  <2>2. \A m \in 1 .. 3 - 1 : a[m] = b[m]
    BY <1>1, <1>4, <2>1
  <2> QED
    BY <2>1, <2>2 DEF Less, a, b
<1> QED
  BY <1>2, <1>3, <1>4

(* There is a byte to drop as long as zeros are trimmed: the start code    *)
(* lies ahead of the leading ones, the unit before the trailing ones.      *)
LEMMA OutputLeft ==
    ASSUME StreamInv, stage \in {"prefix", "suffix"}
    PROVE  output \in Seq(Nat) /\ Len(output) \in Nat /\ Len(output) >= 1
<1>1. PICK c, f, k : Layout(c, f) /\ Recovered(k) /\ Progress(c, k)
  BY DEF StreamInv
<1>2. PICK unit, s, o, e : k < Len(sent) /\ Lies(c, k, unit, s, o, e) /\ InUnit(unit, s, o, e)
  BY <1>1 DEF Progress
<1>3. k \in Nat
  BY <1>1 DEF Recovered
<1>4. Piece(s, o, Prevented(unit), e) /\ Clean(Prevented(unit))
  BY <1>1, <1>2, <1>3, UnitLies, Zenon
<1>5. /\ s \in Nat /\ o \in Nat /\ e \in Nat /\ Len(Prevented(unit)) \in Nat
      /\ o + Len(Prevented(unit)) < e /\ Len(Prevented(unit)) >= 3
  BY <1>4 DEF Piece, Clean
<1>6. CASE Prefixed(s, o, e)
  <2>1. PICK b \in s .. o - 2 : Holds(b, e - 1)
    BY <1>6 DEF Prefixed
  <2> QED
    BY <2>1, <1>5 DEF Holds
<1>7. CASE Suffixed(o, Prevented(unit), e)
  <2>1. PICK h \in o + Len(Prevented(unit)) .. e - 1 : Holds(o + 1, h)
    BY <1>7 DEF Suffixed
  <2> QED
    BY <2>1, <1>5 DEF Holds
<1> QED
  BY <1>2, <1>6, <1>7 DEF InUnit, Searching, Loading, Parsing

(* What is left is counted in natural numbers.                             *)
LeftType ==
    /\ Len(sent) \in Nat /\ Len(units) \in Nat /\ Len(units) <= Len(sent)
    /\ units \in Seq(Seq(Nat)) /\ Len(file) \in Nat
    /\ StagesLeft \in Nat /\ BytesLeft \in Nat
    /\ Left \in Seq(Nat)
LEMMA LeftNatural ==
    ASSUME StreamInv, TypeOK
    PROVE  LeftType
<1>1. PICK c, f, k : Layout(c, f) /\ Recovered(k) /\ Progress(c, k)
  BY DEF StreamInv
<1>2. /\ Len(sent) \in Nat /\ Len(units) \in Nat /\ Len(units) <= Len(sent)
      /\ units \in Seq(Seq(Nat)) /\ Len(file) \in Nat
  BY <1>1 DEF Recovered, Layout
<1>3. StagesLeft \in Nat
  BY StagesAre DEF TypeOK
<1>4. BytesLeft \in Nat
  <2>1. CASE stage \in {"search", "payload"}
    BY <2>1, <1>2 DEF BytesLeft, TypeOK
  <2>2. CASE stage \in {"prefix", "suffix"}
    BY <2>2, OutputLeft DEF BytesLeft
  <2>3. CASE stage = "nal"
    <3>1. PICK unit, s, o, e : k < Len(sent) /\ Lies(c, k, unit, s, o, e) /\ InUnit(unit, s, o, e)
      BY <1>1, <2>3 DEF Progress
    <3>2. Parsing(unit, Prevented(unit), e)
      BY <3>1, <2>3 DEF InUnit, Searching, Loading, Prefixed, Suffixed
    <3>3. numBytesInNalUnit \in Nat /\ i \in 2 .. numBytesInNalUnit
      BY <3>2 DEF Parsing, TypeOK
    <3> QED
      BY <2>3, <3>3 DEF BytesLeft
  <2>4. CASE stage \in {"write", "next", "end", "abort"}
    BY <2>4 DEF BytesLeft
  <2> QED
    BY <2>1, <2>2, <2>3, <2>4 DEF TypeOK
<1>5. Left \in Seq(Nat)
  <2>1. Len(sent) - Len(units) \in Nat
    BY <1>2
  <2> QED
    BY <2>1, <1>3, <1>4 DEF Left
<1> QED
  BY <1>2, <1>3, <1>4, <1>5 DEF LeftType

(* What is left of a sequence when its first or its last item is taken.    *)
LEMMA ConsumedOne ==
    ASSUME output \in Seq(Nat), Len(output) >= 1
    PROVE  Len(Consumed(1)) = Len(output) - 1
<1>1. Len(output) \in Nat /\ \A j \in 1 + 1 .. Len(output) : output[j] \in Nat
  OBVIOUS
<1> DEFINE rest == SubSeq(output, 1 + 1, Len(output))
<1>2. Len(rest) = IF 1 + 1 <= Len(output) THEN Len(output) - (1 + 1) + 1 ELSE 0
  BY <1>1, SubSeqProperties
<1>3. Consumed(1) = rest
  BY Zenon DEF Consumed
<1> HIDE DEF rest
<1> QED
  BY <1>1, <1>2, <1>3

LEMMA FrontOne ==
    ASSUME output \in Seq(Nat), Len(output) >= 1
    PROVE  Len(Front(output)) = Len(output) - 1
<1>1. Len(output) - 1 \in Nat /\ \A j \in 1 .. Len(output) - 1 : output[j] \in Nat
  OBVIOUS
<1> DEFINE front == SubSeq(output, 1, Len(output) - 1)
<1>2. Len(front) = IF 1 <= Len(output) - 1 THEN Len(output) - 1 - 1 + 1 ELSE 0
  BY <1>1, SubSeqProperties
<1>3. Front(output) = front
  BY Zenon DEF Front
<1> HIDE DEF front
<1> QED
  BY <1>1, <1>2, <1>3

(* A stage ends, or its next byte is taken.                                *)
LEMMA StageAdvances ==
    ASSUME StreamInv, TypeOK, LeftType,
           \/ NextUnit \/ Search \/ Payload \/ EndOfFile
           \/ LeadingZero8Bits \/ StartCodePrefix \/ TrailingZero8Bits \/ NalUnitHeader
           \/ EmulationPrevention \/ RbspByte
    PROVE  /\ UNCHANGED <<sent, units>>
           /\ \/ StagesLeft' < StagesLeft
              \/ stage' = stage /\ BytesLeft' < BytesLeft
<1>1. UNCHANGED <<sent, units>>
  BY DEF NextUnit, Search, Payload, EndOfFile, LeadingZero8Bits, StartCodePrefix,
         TrailingZero8Bits, NalUnitHeader, EmulationPrevention, RbspByte
<1>2. i \in Nat /\ numBytesInNalUnit \in Nat /\ at \in Nat /\ Len(file) \in Nat
  BY DEF TypeOK, LeftType
<1>3. CASE NextUnit \/ EndOfFile \/ StartCodePrefix \/ NalUnitHeader
  <2>1. \/ stage = "next" /\ stage' \in {"end", "search"}
        \/ stage = "payload" /\ stage' = "prefix"
        \/ stage = "prefix" /\ stage' = "suffix"
        \/ stage = "suffix" /\ stage' = "nal"
    BY <1>3, Zenon DEF NextUnit, EndOfFile, StartCodePrefix, NalUnitHeader
  <2> QED
    BY <2>1, <1>1, StagesAre
<1>4. CASE Search \/ Payload
  <2>1. \/ stage = "search" /\ stage' \in {"payload", "abort"}
        \/ stage = "payload" /\ stage' \in {"prefix", "abort"}
        \/ stage \in {"search", "payload"} /\ stage' = stage /\ at' = at + 1 /\ file' = file
    BY <1>4, Zenon DEF Search, Payload
  <2>2. CASE stage \in {"search", "payload"} /\ stage' = stage /\ at' = at + 1 /\ file' = file
    BY <2>2, <1>1, <1>2 DEF BytesLeft
  <2> QED
    BY <2>1, <2>2, <1>1, StagesAre
<1>5. CASE LeadingZero8Bits
  <2>1. stage = "prefix" /\ stage' = stage /\ output' = Consumed(1)
    BY <1>5 DEF LeadingZero8Bits
  <2>2. Len(output') = Len(output) - 1 /\ Len(output) \in Nat
    BY <2>1, OutputLeft, ConsumedOne
  <2> QED
    BY <2>1, <2>2, <1>1 DEF BytesLeft
<1>6. CASE TrailingZero8Bits
  <2>1. stage = "suffix" /\ stage' = stage /\ output' = Front(output)
    BY <1>6 DEF TrailingZero8Bits
  <2>2. Len(output') = Len(output) - 1 /\ Len(output) \in Nat
    BY <2>1, OutputLeft, FrontOne
  <2> QED
    BY <2>1, <2>2, <1>1 DEF BytesLeft
<1>7. CASE EmulationPrevention \/ RbspByte
  <2>1. /\ stage = "nal" /\ stage' = stage /\ (i' = i + 1 \/ i' = i + 3)
        /\ numBytesInNalUnit' = numBytesInNalUnit
    BY <1>7 DEF EmulationPrevention, RbspByte
  <2>2. BytesLeft = numBytesInNalUnit - i /\ BytesLeft' = numBytesInNalUnit' - i'
    BY <2>1, Zenon DEF BytesLeft
  <2>3. BytesLeft' < BytesLeft
    BY <2>1, <2>2, <1>2
  <2> QED
    BY <2>1, <2>3, <1>1
<1> QED
  BY <1>3, <1>4, <1>5, <1>6, <1>7

(* The loops of parse(), StreamNalUnit::onParse and NalUnit::onParse end:  *)
(* on every file that Annex B allows, each step of the parser ends a unit, *)
(* or a stage of it, or takes a byte of the stage, although a unit's bytes *)
(* are gone through three times and the file is set back behind it.        *)
THEOREM EveryStepIsConsumption == Spec => EveryStepConsumes
<1>1. StreamInv /\ TypeOK => LeftType
  BY LeftNatural
<1>2. ASSUME StreamInv, TypeOK, LeftType, LeftType', Next, stage # "write"
      PROVE  Left' \in Seq(Nat) /\ Less(Left', Left)
  <2>1. /\ Len(sent) - Len(units) \in Int /\ StagesLeft \in Int /\ BytesLeft \in Int
        /\ Len(sent') - Len(units') \in Int /\ StagesLeft' \in Int /\ BytesLeft' \in Int
        /\ Left' \in Seq(Nat)
    BY <1>2 DEF LeftType
  <2>2. \/ Len(sent') - Len(units') < Len(sent) - Len(units)
        \/ /\ Len(sent') - Len(units') = Len(sent) - Len(units)
           /\ StagesLeft' < StagesLeft
        \/ /\ Len(sent') - Len(units') = Len(sent) - Len(units)
           /\ StagesLeft' = StagesLeft
           /\ BytesLeft' < BytesLeft
    <3>1. CASE FinishNalUnit
      <4>1. sent' = sent /\ units' = Append(units, rbsp)
        BY <3>1 DEF FinishNalUnit
      <4>2. Len(sent) \in Nat /\ Len(units) \in Nat /\ units \in Seq(Seq(Nat))
        BY <1>2 DEF LeftType
      <4>3. Len(units') = Len(units) + 1
        BY <4>1, <4>2
      <4> QED
        BY <4>1, <4>2, <4>3
    <3>2. CASE Write \/ Close
      BY <3>2, <1>2 DEF Write, Close
    <3>3. CASE \/ NextUnit \/ Search \/ Payload \/ EndOfFile
               \/ LeadingZero8Bits \/ StartCodePrefix \/ TrailingZero8Bits \/ NalUnitHeader
               \/ EmulationPrevention \/ RbspByte
      <4>1. /\ UNCHANGED <<sent, units>>
            /\ \/ StagesLeft' < StagesLeft
               \/ stage' = stage /\ BytesLeft' < BytesLeft
        BY <3>3, <1>2, StageAdvances, Zenon
      <4>2. stage' = stage => StagesLeft' = StagesLeft
        BY DEF StagesLeft
      <4> QED
        BY <4>1, <4>2
    <3> QED
      BY <3>1, <3>2, <3>3, <1>2, Zenon DEF Next
  <2>3. Less(<<Len(sent') - Len(units'), StagesLeft', BytesLeft'>>,
             <<Len(sent) - Len(units), StagesLeft, BytesLeft>>)
    BY <2>1, <2>2, LessBy
  <2> QED
    BY <2>1, <2>3 DEF Left
<1>3. StreamInv /\ TypeOK /\ LeftType /\ LeftType' /\ [Next]_vars
        => [stage # "write" => Left' \in Seq(Nat) /\ Less(Left', Left)]_vars
  BY <1>2
<1> QED
  BY <1>1, <1>3, InvHolds, StreamTyped, PTL DEF Spec, EveryStepConsumes
===============================================================================
